---------------------------- MODULE ApiAccounts ----------------------------
(***************************************************************************)
(* The API accounts of teams and organizations: requests rows with         *)
(* apiServiceAccount, created, deleted and restored by controllers/team.ts *)
(* and controllers/organization.ts, and the deletion of their owner.  The  *)
(* workflow engine that creates and removes an account's Keycloak client   *)
(* is reduced to the workflow of an account, which completes or fails      *)
(* (module RequestWorkflow has the engine).                                *)
(***************************************************************************)
EXTENDS Integers, FiniteSets, Sequences

CONSTANTS
  TeamOwner, OrgOwner,  \* who may own accounts
  AccountCaller,        \* concurrent calls
  MaxAccounts           \* bound on accounts ever created

ASSUME ApiAccountsAssumption == MaxAccounts \in Nat /\ TeamOwner \cap OrgOwner = {}

Owner == TeamOwner \cup OrgOwner
Acct == 1..MaxAccounts

VARIABLES
  owners,   \* the teams and organizations that exist
  acct,     \* the rows: owner, whether the row still names it, archived
  works,    \* the workflows of an account that have not ended
  applied,  \* accounts with a recorded apply outcome: checkIfRequestMerged
  client,   \* accounts with a client in Keycloak
  spared,   \* accounts whose last workflow failed or is not the one their row asks for
  acall     \* the calls between two of their statements

acctVars == <<owners, acct, works, applied, client, spared, acall>>

NoAcct == [owner |-> "nobody", named |-> FALSE, archived |-> FALSE]
CallIdle ==
  [op |-> "idle", owner |-> "nobody", ids |-> {}, copy |-> FALSE, merged |-> FALSE, fresh |-> TRUE]

AccountsTypeOK ==
  /\ owners \subseteq Owner
  /\ acct \in [Acct -> [owner : Owner, named : BOOLEAN, archived : BOOLEAN] \cup {NoAcct}]
  /\ \A a \in Acct : works[a] \in Seq({"apply", "delete"}) /\ Len(works[a]) <= 1
  /\ applied \subseteq Acct /\ client \subseteq Acct /\ spared \subseteq Acct
  /\ acall \in [AccountCaller ->
       [op : {"idle", "create", "delete", "restore", "sweep", "sweeping", "waiting"},
        owner : Owner \cup {"nobody"}, ids : SUBSET Acct,
        copy : BOOLEAN, merged : BOOLEAN, fresh : BOOLEAN]]

AccountsOf(o) == {a \in Acct : acct[a].owner = o /\ acct[a].named}
Minimum(ids) == CHOOSE a \in ids : \A b \in ids : a <= b
ActiveOf(o) == {a \in AccountsOf(o) : ~acct[a].archived}

-----------------------------------------------------------------------------
AccountsInit ==
  /\ owners \in SUBSET Owner
  /\ acct = [a \in Acct |-> NoAcct]
  /\ works = [a \in Acct |-> <<>>]
  /\ applied = {} /\ client = {} /\ spared = {}
  /\ acall = [c \in AccountCaller |-> CallIdle]

Begin(c, call) ==
  /\ acall[c] = CallIdle
  /\ acall' = [acall EXCEPT ![c] = call]
  /\ UNCHANGED <<owners, acct, works, applied, client, spared>>

Asking(op, o, ids, copy, merged) ==
  [op |-> op, owner |-> o, ids |-> ids, copy |-> copy, merged |-> merged, fresh |-> TRUE]

(* Mutant: counts the accounts whose client exists. *)
MayCreateUntilApplied(o) == ActiveOf(o) \cap applied = {}

\* requestServiceAccount, createOrganizationApiAccount: none exists.
MayCreate(o) == ActiveOf(o) = {}
AskAccount(c, o) == o \in owners /\ MayCreate(o) /\ Begin(c, Asking("create", o, {}, FALSE, FALSE))

\* deleteServiceAccount, deleteOrganizationApiAccount: a copy of the row, and isMerged.
\* A team's archived account is found too, an organization's is not.
AskDelete(c, a) ==
  LET o == acct[a].owner
  IN /\ acct[a] # NoAcct /\ acct[a].named /\ o \in owners
     /\ o \in TeamOwner \/ ~acct[a].archived
     /\ Begin(c, Asking("delete", o, {a}, acct[a].archived, a \in applied))

\* restoreTeamServiceAccount: a copy of any account of the team, active or not,
\* whatever else it has.
AskRestore(c, a) ==
  LET o == acct[a].owner
  IN /\ acct[a] # NoAcct /\ acct[a].named /\ o \in owners \cap TeamOwner
     /\ Begin(c, Asking("restore", o, {a}, acct[a].archived, FALSE))

\* deleteTeam: the list of active accounts.
AskDeleteTeam(c, o) ==
  o \in owners \cap TeamOwner /\ Begin(c, Asking("sweep", o, ActiveOf(o), FALSE, FALSE))

-----------------------------------------------------------------------------
\* What the commit of call c makes of the others: a creation that counted the
\* owner's active accounts is overtaken when one appears.
Publish(c, call, newAcct) ==
  /\ acct' = newAcct
  /\ acall' = [d \in AccountCaller |->
       IF d = c THEN call
       ELSE [acall[d] EXCEPT !.fresh = @ /\ (acall[d].op = "create" =>
              ~\E a \in Acct : /\ newAcct[a].owner = acall[d].owner /\ ~newAcct[a].archived
                               /\ newAcct[a] # acct[a])]]

(* Mutant: a workflow is parked behind the one under way. *)
BusyNever(a) == FALSE
\* awaitCompletion: enqueueRequestWorkflow throws behind a workflow under way,
\* and the transaction that asked for it is rolled back.
Busy(a) == works[a] # <<>>
Enqueue(a, w) == [works EXCEPT ![a] = Append(@, w)]

\* save(): writes archived only if it differs from the copy the call read.
SavedFrom(a, copy, archived) ==
  IF copy = archived THEN acct ELSE [acct EXCEPT ![a].archived = archived]
\* The workflow is built from the copy: it may not be what the row asks for.
SparedIfCrossed(a, row, archived) == IF row.archived = archived THEN spared ELSE spared \cup {a}

\* The owner's foreign key refuses the row of an owner that is gone.
CreateAccount(c) ==
  /\ acall[c].op = "create"
  /\ LET o == acall[c].owner
         free == {a \in Acct : acct[a] = NoAcct}
     IN \/ /\ o \in owners /\ free # {}
           /\ LET a == Minimum(free)
              IN /\ Publish(c, CallIdle, [acct EXCEPT ![a] =
                      [owner |-> o, named |-> TRUE, archived |-> FALSE]])
                 /\ works' = Enqueue(a, "apply")
        \/ o \notin owners /\ Publish(c, CallIdle, acct) /\ UNCHANGED works
  /\ UNCHANGED <<owners, applied, client, spared>>

Current(c) == Minimum(acall[c].ids)
Onward(c) == [acall[c] EXCEPT !.op = "sweep", !.ids = @ \ {Current(c)}]
Waits(c, a) == acall[c].op = "waiting" /\ Current(c) = a

(* Mutant: a deletion gives way to a workflow under way. *)
SupersedingIfIdle(a) == [works EXCEPT ![a] = IF @ = <<>> THEN <<"delete">> ELSE @]
\* enqueueRequestWorkflow of a deletion: the other workflows are superseded.
Superseding(a) == [works EXCEPT ![a] = <<"delete">>]

\* The archiving commit.  Applied: a delete workflow that supersedes the
\* account's other workflows, whose callers learn it; else nothing more.
Archive(c, a, after) ==
  /\ acct' = SavedFrom(a, acall[c].copy, TRUE)
  /\ acall' = [d \in AccountCaller |->
       IF d = c THEN after
       ELSE IF acall[c].merged /\ Waits(d, a) THEN CallIdle ELSE acall[d]]
  /\ works' = IF acall[c].merged THEN Superseding(a) ELSE works
  /\ spared' = IF acall[c].merged THEN SparedIfCrossed(a, acct'[a], TRUE)
               ELSE IF acct' = acct THEN spared ELSE spared \cup {a}
  /\ UNCHANGED <<owners, applied, client>>

DeleteAccount(c) ==
  /\ acall[c].op = "delete"
  /\ \E a \in acall[c].ids : Archive(c, a, CallIdle)

\* The database refuses to activate an account without an owner.
RestoreAccount(c) ==
  /\ acall[c].op = "restore"
  /\ \E a \in acall[c].ids :
       LET saved == SavedFrom(a, acall[c].copy, FALSE)
       IN IF Busy(a) \/ (~saved[a].archived /\ ~acct[a].named)
          THEN Publish(c, CallIdle, acct) /\ UNCHANGED <<works, spared>>
          ELSE /\ Publish(c, CallIdle, saved)
               /\ works' = Enqueue(a, "apply")
               /\ spared' = SparedIfCrossed(a, saved[a], FALSE)
  /\ UNCHANGED <<owners, applied, client>>

\* deleteTeam's loop: deleteServiceAccount of the next listed account, read ...
SweepNext(c) ==
  /\ acall[c].op = "sweep" /\ acall[c].ids # {}
  /\ acall' = [acall EXCEPT ![c].op = "sweeping", ![c].merged = Current(c) \in applied,
                               ![c].copy = acct[Current(c)].archived]
  /\ UNCHANGED <<owners, acct, works, applied, client, spared>>

\* ... and committed; the loop waits for the workflow, if there is one.
SweepArchive(c) ==
  /\ acall[c].op = "sweeping"
  /\ Archive(c, Current(c), IF acall[c].merged THEN [acall[c] EXCEPT !.op = "waiting"] ELSE Onward(c))

\* The transaction that deletes an owner: archived accounts stop naming it; a
\* foreign key (a check constraint) refuses while an active account does.
Forget(o) == [a \in Acct |-> IF acct[a].owner = o THEN [acct[a] EXCEPT !.named = FALSE] ELSE acct[a]]
(* Mutant: minds only accounts whose client exists. *)
UnownedByApplied(o) == ActiveOf(o) \cap applied = {}
Unowned(o) == ActiveOf(o) = {}

DestroyTeam(c) ==
  /\ acall[c].op = "sweep" /\ acall[c].ids = {}
  /\ LET o == acall[c].owner
     IN IF o \in owners /\ Unowned(o)
        THEN owners' = owners \ {o} /\ Publish(c, CallIdle, Forget(o))
        ELSE UNCHANGED owners /\ Publish(c, CallIdle, acct)
  /\ UNCHANGED <<works, applied, client, spared>>

DeleteOrganization(o) ==
  /\ o \in owners \cap OrgOwner /\ Unowned(o)
  /\ owners' = owners \ {o} /\ acct' = Forget(o)
  /\ UNCHANGED <<works, applied, client, spared, acall>>

\* The engine ends an account's workflow; a deletion of a team that waits for it
\* goes on, or ends when it failed.
EndWork(a, ok) ==
  /\ works[a] # <<>>
  /\ works' = [works EXCEPT ![a] = Tail(@)]
  /\ applied' = IF Head(works[a]) = "apply" THEN applied \cup {a} ELSE applied
  /\ client' = IF ~ok THEN client
               ELSE IF Head(works[a]) = "apply" THEN client \cup {a} ELSE client \ {a}
  /\ spared' = IF ~ok THEN spared \cup {a}
               ELSE IF works[a] = <<IF acct[a].archived THEN "delete" ELSE "apply">> THEN spared \ {a}
               ELSE spared
  /\ acall' = [c \in AccountCaller |->
       IF Head(works[a]) = "delete" /\ Waits(c, a)
       THEN IF ok THEN Onward(c) ELSE CallIdle
       ELSE acall[c]]
  /\ UNCHANGED <<owners, acct>>

AccountsNext ==
  \/ \E o \in Owner : DeleteOrganization(o)
  \/ \E a \in Acct, ok \in BOOLEAN : EndWork(a, ok)
  \/ \E c \in AccountCaller :
       \/ \E o \in Owner : AskAccount(c, o) \/ AskDeleteTeam(c, o)
       \/ \E a \in Acct : AskDelete(c, a) \/ AskRestore(c, a)
       \/ CreateAccount(c) \/ DeleteAccount(c) \/ RestoreAccount(c)
       \/ SweepNext(c) \/ SweepArchive(c) \/ DestroyTeam(c)

-----------------------------------------------------------------------------
(* "team already has api account", "One account per organization, as for a   *)
(* team": an owner gets a second active account only from a creation that    *)
(* counted before another became active, or from the restoration of a team's *)
(* archived account, which counts nothing.                                   *)
OneApiAccount ==
  [][\A o \in Owner : Cardinality(ActiveOf(o)) <= 1 /\ Cardinality(ActiveOf(o)') > 1 =>
       \E c \in AccountCaller : /\ acall[c].owner = o /\ acall'[c] = CallIdle
                                /\ \/ acall[c].op = "create" /\ ~acall[c].fresh
                                   \/ acall[c].op = "restore"]_acctVars

(* deleteTeam, deleteOrganization: an owner that is gone leaves no active    *)
(* account behind, however its deletion and new accounts interleave, and no  *)
(* archived one that still names it.                                         *)
GoneOwnsNothing ==
  \A a \in Acct : acct[a] # NoAcct /\ acct[a].owner \notin owners => acct[a].archived /\ ~acct[a].named

(* deleteServiceAccount and its kind: once the engine has nothing left to do *)
(* an archived account has no client and an active one has one, unless its   *)
(* last workflow failed, it was archived on a reading that found no outcome  *)
(* of its creation yet, or a restoration and a deletion crossed: the later   *)
(* commit left the row as its caller had read it already, and yet ran its    *)
(* own workflow.                                                             *)
ArchivedHasNoClient ==
  \A a \in Acct : acct[a] # NoAcct /\ works[a] = <<>> /\ a \notin spared =>
                    (a \in client <=> ~acct[a].archived)
=============================================================================
