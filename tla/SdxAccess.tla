------------------------------ MODULE SdxAccess ------------------------------
(***************************************************************************)
(* controllers/sdx-services.ts, for one integration in one environment:    *)
(* a request for SDX services (createSdxRequest), which defines their      *)
(* client scopes in Keycloak, offers them to the token exchanger where the *)
(* realm has one, and takes away what is no longer asked for; and the      *)
(* callback by which SDX approves services (processSdxWorkflowUpdates,     *)
(* manageKeycloakScopes), one pass per service.  Each service has one      *)
(* scope, named after it.  The console grants SDX scopes as optional ones  *)
(* and takes them away from the default ones, where only another tool or   *)
(* an older release can have put them.  Requests and callbacks overlap,    *)
(* any call can be refused or lost, and the integration's client can be    *)
(* deleted and created again.                                              *)
(***************************************************************************)
EXTENDS FiniteSets, Integers

CONSTANTS
  SdxService,
  SdxCaller,      \* concurrent requests and callbacks
  MaxSdxCalls,    \* bound on them and on the client's deletions
  MaxSdxFaults    \* bound on refused and lost calls

ASSUME SdxAssumption == MaxSdxCalls \in Nat /\ MaxSdxFaults \in Nat

VARIABLES
  defined,       \* client scopes of the realm
  hasExchanger,  \* the realm has the token exchanger's client
  exchanger,     \* its optional scopes
  hasClient,     \* the integration's client exists
  default,       \* SDX scopes among its default scopes
  inherited,     \* those it had among them before any call
  optional,      \* its optional scopes
  requested,     \* services some request was accepted for: what SDX may approve
  sdxCall,       \* the requests and callbacks
  sdxCalls, sdxFaults

clientScopes == <<default, inherited, optional>>
realmScopes == <<defined, exchanger>>
sdxVars == <<defined, hasExchanger, exchanger, hasClient, default, inherited, optional,
             requested, sdxCall, sdxCalls, sdxFaults>>

\* seen: the scopes it deals with that the realm had when it read them; drop, add:
\* those it takes away and adds; same: the client it read is still there; kept:
\* no client was lost or missing.
SdxIdle == [op |-> "none", at |-> "idle", all |-> {}, todo |-> {}, seen |-> {}, drop |-> {}, add |-> {},
            same |-> FALSE, kept |-> TRUE]

SdxTypeOK ==
  /\ defined \subseteq SdxService /\ exchanger \subseteq defined
  /\ optional \subseteq defined /\ default \subseteq inherited /\ inherited \subseteq SdxService
  /\ hasExchanger \in BOOLEAN /\ (~hasExchanger => exchanger = {})
  /\ hasClient \in BOOLEAN /\ (~hasClient => optional = {})
  /\ requested \subseteq SdxService
  /\ sdxCall \in [SdxCaller ->
       [op : {"none", "request", "callback"}, at : {"idle", "post", "scopes", "approved", "change", "done"},
        all : SUBSET SdxService, todo : SUBSET SdxService, seen : SUBSET SdxService,
        drop : SUBSET SdxService, add : SUBSET SdxService, same : BOOLEAN, kept : BOOLEAN]]
  /\ sdxCalls \in 0..MaxSdxCalls /\ sdxFaults \in 0..MaxSdxFaults

SdxFault == sdxFaults < MaxSdxFaults /\ sdxFaults' = sdxFaults + 1
SdxGoes(c, call) == sdxCall' = [sdxCall EXCEPT ![c] = call]

-----------------------------------------------------------------------------
SdxInit ==
  /\ inherited \in SUBSET SdxService /\ default = inherited /\ defined = inherited
  /\ hasExchanger \in BOOLEAN /\ exchanger = {}
  /\ hasClient = TRUE /\ optional = {}
  /\ requested = {}
  /\ sdxCall = [c \in SdxCaller |-> SdxIdle]
  /\ sdxCalls = 0 /\ sdxFaults = 0

SdxBegins(c, op, at, services) ==
  /\ sdxCall[c].at \in {"idle", "done"} /\ services # {}
  /\ sdxCalls < MaxSdxCalls /\ sdxCalls' = sdxCalls + 1
  /\ SdxGoes(c, [SdxIdle EXCEPT !.op = op, !.at = at, !.all = services, !.todo = services])
  /\ UNCHANGED <<realmScopes, hasExchanger, hasClient, clientScopes, requested, sdxFaults>>

AskServices(c, services) == SdxBegins(c, "request", "post", services)
\* SDX approves services it was asked for.
Approve(c, services) == services \subseteq requested /\ SdxBegins(c, "callback", "scopes", services)

\* The submission, on record or not, and the scopes the realm has by then.
PostRequest(c) ==
  /\ sdxCall[c].at = "post"
  /\ \/ /\ requested' = requested \cup sdxCall[c].all
        /\ SdxGoes(c, [sdxCall[c] EXCEPT !.at = "scopes", !.seen = defined \cap sdxCall[c].all])
        /\ UNCHANGED sdxFaults
     \/ /\ requested' \in {requested, requested \cup sdxCall[c].all}
        /\ SdxGoes(c, SdxIdle) /\ SdxFault
  /\ UNCHANGED <<realmScopes, hasExchanger, hasClient, clientScopes, sdxCalls>>

\* keycloakSyncScopes: a scope that was not there is created, which a second
\* creation refuses, and offered to the token exchanger, if there is one.
Offered(s) == IF hasExchanger THEN {s} ELSE {}

InitializeScope(c, s) ==
  LET q == sdxCall[c]
      refused == s \in defined /\ s \notin q.seen
  IN /\ q.op = "request" /\ q.at = "scopes" /\ s \in q.todo
     /\ \/ /\ ~refused
           /\ defined' = defined \cup {s} /\ exchanger' = exchanger \cup Offered(s)
           /\ SdxGoes(c, [q EXCEPT !.todo = @ \ {s}, !.at = IF q.todo = {s} THEN "approved" ELSE @,
                                  !.seen = @ \ {s}])
           /\ UNCHANGED sdxFaults
        \/ refused /\ SdxGoes(c, SdxIdle) /\ UNCHANGED <<realmScopes, sdxFaults>>
        \/ /\ SdxFault /\ SdxGoes(c, SdxIdle)
           /\ defined' \in {defined, defined \cup {s}}
           /\ exchanger' \in {exchanger, exchanger \cup (Offered(s) \cap defined')}
     /\ UNCHANGED <<hasExchanger, hasClient, clientScopes, requested, sdxCalls>>

\* Where the integration is applied and its subsystem registered, the approved
\* services that this request leaves out lose what the client's default scopes
\* hold of them; otherwise, or with no client, the request ends.
ReadApproved(c, approved) ==
  LET q == sdxCall[c]
      removed == (approved \ q.all) \cap default
  IN /\ q.at = "approved"
     /\ \/ /\ SdxGoes(c, IF hasClient /\ removed # {}
                         THEN [q EXCEPT !.at = "change", !.drop = removed, !.same = TRUE]
                         ELSE [q EXCEPT !.at = "done"])
           /\ UNCHANGED sdxFaults
        \/ SdxGoes(c, [q EXCEPT !.at = "done"]) /\ UNCHANGED sdxFaults
        \/ SdxFault /\ SdxGoes(c, SdxIdle)
     /\ UNCHANGED <<realmScopes, hasExchanger, hasClient, clientScopes, requested, sdxCalls>>

(* Mutant: what the client has is read from its optional scopes. *)
AssignedOptional(s) == optional \ {s}
\* The SDX scopes among the default scopes that this service does not have:
\* what its pass takes away.
Withdrawn(s) == default \ {s}

\* One pass of manageKeycloakScopes begins: nothing where there is no client.
ReadScopes(c, s) ==
  LET q == sdxCall[c]
  IN /\ q.op = "callback" /\ q.at = "scopes" /\ s \in q.todo
     /\ SdxGoes(c, IF hasClient
                   THEN [q EXCEPT !.at = "change", !.todo = @ \ {s}, !.seen = defined \cap {s}, !.same = TRUE,
                                  !.drop = Withdrawn(s), !.add = {s} \ default]
                   ELSE [q EXCEPT !.todo = @ \ {s}, !.kept = FALSE, !.at = IF q.todo = {s} THEN "done" ELSE @])
     /\ UNCHANGED <<realmScopes, hasExchanger, hasClient, clientScopes, requested, sdxCalls, sdxFaults>>

\* delDefaultClientScope, one by one: Keycloak undoes the assignment of the
\* scope to the client, of whichever kind it is by now.
DropScope(c, s) ==
  LET q == sdxCall[c]
      undo == default' = default \ {s} /\ optional' = optional \ {s}
  IN /\ q.at = "change" /\ s \in q.drop
     /\ \/ q.same /\ undo /\ SdxGoes(c, [q EXCEPT !.drop = @ \ {s}]) /\ UNCHANGED sdxFaults
        \/ ~q.same /\ SdxGoes(c, SdxIdle) /\ UNCHANGED <<default, optional, sdxFaults>>
        \/ q.same /\ SdxFault /\ SdxGoes(c, SdxIdle) /\ (undo \/ UNCHANGED <<default, optional>>)
     /\ UNCHANGED <<realmScopes, hasExchanger, hasClient, inherited, requested, sdxCalls>>

\* The end of a pass, or of a request's removals: what is left is to add.
AddScope(c) ==
  LET q == sdxCall[c]
      served == [q EXCEPT !.seen = {}, !.add = {}, !.same = FALSE, !.at = IF q.todo = {} THEN "done" ELSE "scopes"]
      refused == q.add # {} /\ (~q.same \/ ~(q.add \subseteq q.seen))
  IN /\ q.at = "change" /\ q.drop = {}
     /\ \/ ~refused /\ optional' = optional \cup q.add /\ SdxGoes(c, served) /\ UNCHANGED sdxFaults
        \/ refused /\ SdxGoes(c, SdxIdle) /\ UNCHANGED <<optional, sdxFaults>>
        \/ ~refused /\ SdxFault /\ SdxGoes(c, SdxIdle) /\ optional' \in {optional, optional \cup q.add}
     /\ UNCHANGED <<realmScopes, hasExchanger, hasClient, default, inherited, requested, sdxCalls>>

\* The engine deletes or creates the client: nothing restores what it was given.
ToggleClient ==
  /\ hasClient' = ~hasClient /\ optional' = {} /\ default' = {} /\ inherited' = {}
  /\ sdxCall' = [c \in SdxCaller |-> [sdxCall[c] EXCEPT !.kept = @ /\ sdxCall[c].op # "callback", !.same = FALSE]]
  /\ IF hasClient THEN sdxCalls < MaxSdxCalls /\ sdxCalls' = sdxCalls + 1 ELSE UNCHANGED sdxCalls
  /\ UNCHANGED <<realmScopes, hasExchanger, requested, sdxFaults>>

SdxNext ==
  \/ ToggleClient
  \/ \E c \in SdxCaller :
       \/ \E services \in SUBSET SdxService : AskServices(c, services) \/ Approve(c, services)
       \/ \E approved \in SUBSET requested : ReadApproved(c, approved)
       \/ PostRequest(c) \/ AddScope(c)
       \/ \E s \in SdxService : InitializeScope(c, s) \/ ReadScopes(c, s) \/ DropScope(c, s)

-----------------------------------------------------------------------------
(* processSdxWorkflowUpdates: a callback that was answered leaves the scope  *)
(* of every service it approved with the client, whatever other callback or  *)
(* request runs beside it and whatever its later passes take away, as long   *)
(* as the client is not deleted.  Services whose scope the client had among  *)
(* its default ones to begin with are excepted: a pass that finds it there   *)
(* does not add it, and the pass of another service takes it away.  A        *)
(* request that was answered leaves its scopes defined, and offered to the   *)
(* token exchanger if the realm has one.                                     *)
ApprovedIsAssigned ==
  \A c \in SdxCaller : sdxCall[c].at = "done" =>
    /\ sdxCall[c].op = "callback" /\ sdxCall[c].kept => sdxCall[c].all \ inherited \subseteq optional
    /\ sdxCall[c].op = "request" => /\ sdxCall[c].all \subseteq defined
                                    /\ hasExchanger => sdxCall[c].all \subseteq exchanger
=============================================================================
