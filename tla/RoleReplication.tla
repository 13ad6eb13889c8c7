--------------------------- MODULE RoleReplication ---------------------------
(***************************************************************************)
(* "Replicate roles": keycloak/roleReplication.ts and replicateRoleMfa of  *)
(* controllers/roles.ts give the azureidir counterpart of each idir user   *)
(* the client roles the idir user holds.  A run plans from what Keycloak   *)
(* has, looks up in MS Graph whoever has no counterpart, finds or creates  *)
(* each counterpart once, and grants role by role.  Two runs can overlap;  *)
(* any call can be refused, or lose its answer after its effect.  A look-  *)
(* up that MS Graph does not answer is taken for one that finds nobody.    *)
(***************************************************************************)
EXTENDS Integers

CONSTANTS
  Guid,            \* idir users
  GrantedRole,     \* client roles, all held by all of them
  Run,             \* replications
  MaxReplFaults    \* bound on refused and lost calls

ASSUME ReplicationAssumption == MaxReplFaults \in Nat

VARIABLES
  accounts,     \* guids MS Graph knows
  counterpart,  \* azureidir users in Keycloak: "none", "unlinked" or "linked"
  granted,      \* pairs of a guid and a role its counterpart holds
  run,          \* the runs
  replFaults    \* faults so far

replVars == <<accounts, counterpart, granted, run, replFaults>>

Pair == Guid \X GrantedRole
NotRun == [at |-> "idle", status |-> [p \in Pair |-> "unread"], target |-> [g \in Guid |-> "unknown"],
           known |-> {}, missed |-> {}, unread |-> {}, alone |-> TRUE]

ReplTypeOK ==
  /\ accounts \subseteq Guid
  /\ counterpart \in [Guid -> {"none", "unlinked", "linked"}]
  /\ granted \subseteq Pair
  /\ \A k \in Run :
       /\ run[k].at \in {"idle", "plan", "lookup", "resolve", "grant", "done", "threw"}
       /\ run[k].status \in [Pair -> {"unread", "absent", "pending", "already", "notFound", "replicated", "error"}]
       /\ run[k].target \in [Guid -> {"unknown", "create", "link", "found", "none", "failed"}]
       /\ run[k].known \subseteq Guid /\ run[k].missed \subseteq Guid /\ run[k].unread \subseteq Guid
       /\ run[k].alone \in BOOLEAN
  /\ replFaults \in 0..MaxReplFaults

PairsIn(k, s) == {p \in Pair : run[k].status[p] = s}
GuidsIn(k, s) == {p[1] : p \in PairsIn(k, s)}
Under(k) == run[k].at \in {"plan", "lookup", "resolve", "grant"}
ReplFault == replFaults < MaxReplFaults /\ replFaults' = replFaults + 1

-----------------------------------------------------------------------------
ReplInit ==
  /\ accounts \in SUBSET Guid
  /\ counterpart \in [Guid -> {"none", "linked"}]
  /\ granted = {}
  /\ run = [k \in Run |-> NotRun]
  /\ replFaults = 0

StartRun(k) ==
  /\ run[k] = NotRun
  /\ LET overlaps == \E j \in Run \ {k} : Under(j)
     IN run' = [j \in Run |->
          IF j = k THEN [NotRun EXCEPT !.at = "plan", !.alone = ~overlaps]
          ELSE [run[j] EXCEPT !.alone = @ /\ ~Under(j)]]
  /\ UNCHANGED <<accounts, counterpart, granted, replFaults>>

\* The dry run of one user and role; a call that fails leaves the pair pending.
PlanPair(k, p) ==
  /\ run[k].at = "plan" /\ run[k].status[p] = "unread"
  /\ \E s \in {"absent", "already", "pending"} :
       /\ \/ /\ s = IF counterpart[p[1]] = "none" THEN "absent"
                    ELSE IF p \in granted THEN "already" ELSE "pending"
             /\ UNCHANGED replFaults
          \/ s = "pending" /\ ReplFault
       /\ run' = [run EXCEPT ![k].status[p] = s]
  /\ UNCHANGED <<accounts, counterpart, granted>>

\* Listing the users of the next role fails: the request is over.
AbandonPlan(k) ==
  /\ run[k].at = "plan"
  /\ run' = [run EXCEPT ![k].at = "threw"] /\ ReplFault
  /\ UNCHANGED <<accounts, counterpart, granted>>

StartLookup(k) ==
  /\ run[k].at = "plan" /\ PairsIn(k, "unread") = {}
  /\ run' = [run EXCEPT ![k].at = "lookup", ![k].unread = GuidsIn(k, "absent")]
  /\ UNCHANGED <<accounts, counterpart, granted, replFaults>>

\* MS Graph decides whether a counterpart can be created.
\* verifyAzureIdirAccountByGuid makes of its failure that it found nobody.
Lookup(k, g) ==
  /\ run[k].at = "lookup" /\ g \in run[k].unread
  /\ \/ /\ run' = [run EXCEPT ![k].unread = @ \ {g}, ![k].known = @ \cup ({g} \cap accounts)]
        /\ UNCHANGED replFaults
     \/ run' = [run EXCEPT ![k].unread = @ \ {g}, ![k].missed = @ \cup {g}] /\ ReplFault
  /\ UNCHANGED <<accounts, counterpart, granted>>

StartResolving(k) ==
  /\ run[k].at = "lookup" /\ run[k].unread = {}
  /\ run' = [run EXCEPT ![k].at = "resolve", ![k].status = [p \in Pair |->
       IF @[p] # "absent" THEN @[p] ELSE IF p[1] \in run[k].known THEN "pending" ELSE "notFound"]]
  /\ UNCHANGED <<accounts, counterpart, granted, replFaults>>

\* resolveMfaUser, once for each guid with a pending role: find it, look up an
\* account that is not known yet, ...
SetTarget(k, g, to) == run' = [run EXCEPT ![k].target[g] = to]
Overlook(k, g) == run' = [run EXCEPT ![k].target[g] = "none", ![k].missed = @ \cup {g}]

FindCounterpart(k, g) ==
  /\ run[k].at = "resolve" /\ run[k].target[g] = "unknown" /\ g \in GuidsIn(k, "pending")
  /\ \/ counterpart[g] # "none" /\ SetTarget(k, g, "found") /\ UNCHANGED replFaults
     \/ /\ counterpart[g] = "none"
        /\ SetTarget(k, g, IF g \in run[k].known \cup accounts THEN "create" ELSE "none")
        /\ UNCHANGED replFaults
     \/ counterpart[g] = "none" /\ g \notin run[k].known /\ Overlook(k, g) /\ ReplFault
     \/ SetTarget(k, g, "failed") /\ ReplFault
  /\ UNCHANGED <<accounts, counterpart, granted>>

\* ... or create it, unless it was created meanwhile (createAzureIdirUser looks
\* once more; a creation in between is refused as a duplicate), and link it.
CreateCounterpart(k, g) ==
  /\ run[k].target[g] = "create"
  /\ \/ /\ counterpart[g] # "none" /\ UNCHANGED <<counterpart, replFaults>>
        /\ SetTarget(k, g, "found") \/ SetTarget(k, g, "failed")
     \/ /\ counterpart[g] = "none" /\ counterpart' = [counterpart EXCEPT ![g] = "unlinked"]
        /\ \/ SetTarget(k, g, "link") /\ UNCHANGED replFaults
           \/ SetTarget(k, g, "failed") /\ ReplFault
     \/ SetTarget(k, g, "failed") /\ ReplFault /\ UNCHANGED counterpart
  /\ UNCHANGED <<accounts, granted>>

LinkCounterpart(k, g) ==
  /\ run[k].target[g] = "link"
  /\ \/ SetTarget(k, g, "found") /\ counterpart' = [counterpart EXCEPT ![g] = "linked"] /\ UNCHANGED replFaults
     \/ SetTarget(k, g, "failed") /\ ReplFault /\ counterpart' \in {counterpart, [counterpart EXCEPT ![g] = "linked"]}
  /\ UNCHANGED <<accounts, granted>>

(* Mutant: one that could not be found or made counts as nobody found. *)
MissingOrFailed(k, g) == run[k].target[g] \in {"none", "failed"}
\* resolveTargets: one that Keycloak did not find or make stays pending.
Missing(k, g) == run[k].target[g] = "none"

StartGranting(k) ==
  /\ run[k].at = "resolve"
  /\ \A g \in GuidsIn(k, "pending") : run[k].target[g] \in {"found", "none", "failed"}
  /\ run' = [run EXCEPT ![k].at = "grant", ![k].status = [p \in Pair |->
       IF @[p] = "pending" /\ Missing(k, p[1]) THEN "notFound" ELSE @[p]]]
  /\ UNCHANGED <<accounts, counterpart, granted, replFaults>>

\* replicate: the shared lookup again, which rethrows its failure, and the grant.
Grant(k, p) ==
  /\ run[k].at = "grant" /\ p \in PairsIn(k, "pending")
  /\ \/ /\ run[k].target[p[1]] = "found"
        /\ granted' = granted \cup {p}
        /\ \/ run' = [run EXCEPT ![k].status[p] = "replicated"] /\ UNCHANGED replFaults
           \/ run' = [run EXCEPT ![k].status[p] = "error"] /\ ReplFault
     \/ /\ run' = [run EXCEPT ![k].status[p] = "error"] /\ UNCHANGED granted
        /\ IF run[k].target[p[1]] = "found" THEN ReplFault ELSE UNCHANGED replFaults
  /\ UNCHANGED <<accounts, counterpart>>

FinishRun(k) ==
  /\ run[k].at = "grant" /\ PairsIn(k, "pending") = {}
  /\ run' = [run EXCEPT ![k].at = "done"]
  /\ UNCHANGED <<accounts, counterpart, granted, replFaults>>

ReplNext ==
  \E k \in Run :
    \/ StartRun(k) \/ AbandonPlan(k) \/ StartLookup(k) \/ StartResolving(k) \/ StartGranting(k) \/ FinishRun(k)
    \/ \E p \in Pair : PlanPair(k, p) \/ Grant(k, p)
    \/ \E g \in Guid : Lookup(k, g) \/ FindCounterpart(k, g) \/ CreateCounterpart(k, g) \/ LinkCounterpart(k, g)

-----------------------------------------------------------------------------
(* replicateRoleMfa: "one with no Azure IDIR account at all has nothing to   *)
(* replicate to", which "is an outcome, not a fault".  Whatever call fails   *)
(* and however two runs overlap, a pair reported as replicated is granted,   *)
(* one reported as not found has no account, unless MS Graph failed to       *)
(* answer this run about it, which the code cannot tell from nobody, and a   *)
(* run that was alone and lost no call reports no error.                     *)
ReportIsTrue ==
  \A k \in Run : run[k].at = "done" => \A p \in Pair :
    /\ run[k].status[p] \in {"already", "replicated"} => p \in granted
    /\ run[k].status[p] = "notFound" => p[1] \notin accounts \/ p[1] \in run[k].missed
    /\ run[k].status[p] = "error" => replFaults > 0 \/ ~run[k].alone
=============================================================================
