------------------------------- MODULE Roles -------------------------------
(***************************************************************************)
(* The client roles of one integration in one environment: Keycloak's      *)
(* roles and composite links, the request_roles rows that mirror them      *)
(* (controllers/roles.ts, queries/roles.ts, keycloak/users.ts), and the    *)
(* restore step that re-creates them from the rows after the client was    *)
(* deleted and created again (workflow/effects.ts).  A call to Keycloak is *)
(* answered, refused, or has its effect and loses its answer; the rows are *)
(* written in one transaction after it, which can fail; a restore attempt  *)
(* can die, or time out and go on beside the next.                         *)
(***************************************************************************)
EXTENDS Integers, FiniteSets

CONSTANTS
  Role,
  RoleCaller,     \* concurrent requests to change roles
  Restorer,       \* restore attempts that can be in flight at once
  BulkLimit,      \* roles one bulk creation handles: 20 in the code
  MaxChanges,     \* bound on the changes asked for, and so on the rows created
  MaxRoleFaults   \* bound on refused and lost calls, failing writes, deaths and time-outs

ASSUME RolesAssumption == BulkLimit \in Nat /\ MaxChanges \in Nat /\ MaxRoleFaults \in Nat

VARIABLES
  kc, links,        \* Keycloak: the roles, and the roles each is composed of
  rowId, rowLinks,  \* the rows: 0 or an id, and the ids in compositeRoles
  lastRow,
  changes,          \* changes asked for
  rcall,            \* the requests
  phase,            \* "active", "archived", "restoring" or "restored"
  blurred,          \* roles with a failed change, or with changes that overlapped
  was,              \* what Keycloak had when the client was deleted
  snapshot,         \* the snapshot kept with the step: a set of roles, once stored
  restorer,         \* the restore attempts
  recorded,         \* role-create events of the restore, for each role
  late,             \* an attempt timed out and went on
  roleFaults        \* faults so far

roleVars == <<kc, links, rowId, rowLinks, lastRow, changes, rcall, phase, blurred, was, snapshot, restorer, recorded, late, roleFaults>>

NoRequest == [op |-> "none", role |-> "none", set |-> {}, at |-> "idle"]
NoRestore == [at |-> "idle", todo |-> {}, made |-> {}, on |-> "none", snap |-> {}, awaited |-> FALSE]
NoLinks == [n \in Role |-> {}]
NotStored == [stored |-> FALSE, roles |-> {}]

RolesTypeOK ==
  /\ kc \subseteq Role /\ links \in [Role -> SUBSET Role]
  /\ rowId \in [Role -> 0..MaxChanges] /\ rowLinks \in [Role -> SUBSET (1..MaxChanges)]
  /\ lastRow \in 0..MaxChanges /\ changes \in 0..MaxChanges
  /\ rcall \in [RoleCaller -> [op : {"none", "create", "delete", "compose"}, role : Role \cup {"none"},
                               set : SUBSET Role, at : {"idle", "call", "link", "mirror"}]]
  /\ phase \in {"active", "archived", "restoring", "restored"}
  /\ blurred \subseteq Role
  /\ was \in [roles : SUBSET Role, links : [Role -> SUBSET Role]]
  /\ snapshot \in [stored : BOOLEAN, roles : SUBSET Role]
  /\ restorer \in [Restorer -> [at : {"idle", "snapshot", "create", "record", "clear", "link"},
                                todo : SUBSET Role, made : SUBSET Role, on : Role \cup {"none"},
                                snap : SUBSET Role, awaited : BOOLEAN]]
  /\ recorded \in [Role -> 0..2] /\ late \in BOOLEAN
  /\ roleFaults \in 0..MaxRoleFaults

Rows == {n \in Role : rowId[n] # 0}
LinkedRows(n) == {m \in Rows : rowId[m] \in rowLinks[n]}
Names(c) == IF rcall[c] = NoRequest THEN {} ELSE {rcall[c].role} \cup rcall[c].set
RoleFault == roleFaults < MaxRoleFaults /\ roleFaults' = roleFaults + 1

RolesInit ==
  /\ kc = {} /\ links = NoLinks
  /\ rowId = [n \in Role |-> 0] /\ rowLinks = NoLinks /\ lastRow = 0 /\ changes = 0
  /\ rcall = [c \in RoleCaller |-> NoRequest]
  /\ phase = "active" /\ blurred = {}
  /\ was = [roles |-> {}, links |-> NoLinks]
  /\ snapshot = NotStored
  /\ restorer = [r \in Restorer |-> NoRestore]
  /\ recorded = [n \in Role |-> 0] /\ late = FALSE
  /\ roleFaults = 0

-----------------------------------------------------------------------------
(* Changes.  The request checks Keycloak, asks, and asks Keycloak again.     *)
AskRole(c, op, n, set) ==
  /\ rcall[c] = NoRequest /\ phase = "active"
  /\ changes < MaxChanges /\ changes' = changes + 1
  /\ CASE op = "create" -> n \notin kc /\ set = {}
       [] op = "delete" -> n \in kc /\ set = {}
       [] op = "compose" -> {n} \cup set \subseteq kc /\ n \notin set
  /\ rcall' = [rcall EXCEPT ![c] = [op |-> op, role |-> n, set |-> set, at |-> "call"]]
  /\ blurred' = blurred \cup UNION {Names(d) \cap ({n} \cup set) : d \in RoleCaller}
  /\ UNCHANGED <<kc, links, rowId, rowLinks, lastRow, phase, was, snapshot, restorer, recorded, late, roleFaults>>

ClientExists == phase # "archived"
Accepts(q) ==
  /\ ClientExists
  /\ CASE q.op = "create" -> q.role \notin kc
       [] q.op = "delete" -> q.role \in kc
       [] q.op = "compose" -> q.role \in kc /\ (q.at = "link" => q.set \subseteq kc)

\* createRole, deleteRole; setCompositeClientRoles removes every link, then adds.
InKeycloak(q) ==
  CASE q.op = "create" -> kc' = kc \cup {q.role} /\ UNCHANGED links
    [] q.op = "delete" -> /\ kc' = kc \ {q.role}
                          /\ links' = [m \in Role |-> IF m = q.role THEN {} ELSE links[m] \ {q.role}]
    [] q.op = "compose" -> /\ links' = [links EXCEPT ![q.role] = IF q.at = "link" THEN q.set ELSE {}]
                           /\ UNCHANGED kc

GivesUp(c) ==
  /\ rcall' = [rcall EXCEPT ![c] = NoRequest]
  /\ blurred' = blurred \cup {rcall[c].role}

CallKeycloak(c) ==
  LET q == rcall[c]
  IN /\ q.at \in {"call", "link"}
     /\ \/ /\ Accepts(q) /\ InKeycloak(q)
           /\ rcall' = [rcall EXCEPT ![c].at = IF q.op = "compose" /\ q.at = "call" THEN "link" ELSE "mirror"]
           /\ UNCHANGED <<blurred, roleFaults>>
        \/ /\ ~Accepts(q) /\ GivesUp(c)
           /\ UNCHANGED <<kc, links, roleFaults>>
        \/ /\ Accepts(q) /\ RoleFault /\ GivesUp(c)
           /\ InKeycloak(q) \/ UNCHANGED <<kc, links>>
     /\ UNCHANGED <<rowId, rowLinks, lastRow, changes, phase, was, snapshot, restorer, recorded, late>>

(* Mutant: a role that is destroyed stays listed in the roles composed of it. *)
UnlinkedAlone(n) == [rowLinks EXCEPT ![n] = {}]

\* destroyRequestRole: the id leaves the rows composed of it.
Unlinked(n) == [m \in Role |-> IF m = n THEN {} ELSE rowLinks[m] \ {rowId[n]}]
\* createCompositeRolesDB: adds what is new, takes nothing away.
Linked(n, id, set) == [rowLinks EXCEPT ![n] = @ \cup {id[m] : m \in set}]

MirrorRole(c) ==
  LET q == rcall[c]
      renewed == [rowId EXCEPT ![q.role] = lastRow + 1]
      id == IF q.op = "create" \/ (q.op = "compose" /\ q.role \notin Rows) THEN renewed
            ELSE IF q.op = "delete" THEN [rowId EXCEPT ![q.role] = 0] ELSE rowId
  IN /\ q.at = "mirror"
     /\ \/ /\ q.set \subseteq Rows
           /\ rowId' = id
           /\ lastRow' = IF id = renewed THEN lastRow + 1 ELSE lastRow
           /\ rowLinks' = IF q.op = "compose" THEN Linked(q.role, id, q.set) ELSE Unlinked(q.role)
           /\ rcall' = [rcall EXCEPT ![c] = NoRequest]
           /\ UNCHANGED <<blurred, roleFaults>>
        \/ /\ ~(q.set \subseteq Rows) /\ GivesUp(c)
           /\ UNCHANGED <<rowId, rowLinks, lastRow, changes, roleFaults>>
        \/ /\ RoleFault /\ GivesUp(c)
           /\ UNCHANGED <<rowId, rowLinks, lastRow>>
     /\ UNCHANGED <<kc, links, changes, phase, was, snapshot, restorer, recorded, late>>

-----------------------------------------------------------------------------
(* The integration is deleted, its client with it, and restored later.       *)
ArchiveClient ==
  /\ phase = "active"
  /\ phase' = "archived"
  /\ was' = [roles |-> kc, links |-> links]
  /\ kc' = {} /\ links' = NoLinks
  /\ blurred' = blurred \cup UNION {Names(c) : c \in RoleCaller}
  /\ UNCHANGED <<rowId, rowLinks, lastRow, changes, rcall, snapshot, restorer, recorded, late, roleFaults>>

\* Requests end long before anybody restores what was deleted.
RecreateClient ==
  /\ phase = "archived" /\ \A c \in RoleCaller : rcall[c] = NoRequest
  /\ phase' = "restoring"
  /\ UNCHANGED <<kc, links, rowId, rowLinks, lastRow, changes, rcall, blurred, was, snapshot, restorer, recorded, late, roleFaults>>

(* Mutant: the slice is one short. *)
TakenButOne == {s \in SUBSET Rows : Cardinality(s) = IF Cardinality(Rows) < BulkLimit THEN Cardinality(Rows) ELSE BulkLimit - 1}

\* bulkCreateRole takes the first of the rows, in whatever order they come.
Taken == {s \in SUBSET Rows : Cardinality(s) = IF Cardinality(Rows) < BulkLimit THEN Cardinality(Rows) ELSE BulkLimit}

StartRestore(r) ==
  /\ phase = "restoring" /\ restorer[r] = NoRestore
  /\ \A q \in Restorer : ~restorer[q].awaited
  /\ \E s \in Taken :
       restorer' = [restorer EXCEPT ![r] =
         [NoRestore EXCEPT !.at = IF snapshot.stored THEN "create" ELSE "snapshot",
                           !.todo = s, !.snap = snapshot.roles, !.awaited = TRUE]]
  /\ UNCHANGED <<kc, links, rowId, rowLinks, lastRow, changes, rcall, phase, blurred, was, snapshot, recorded, late, roleFaults>>

TakeSnapshot(r) ==
  /\ restorer[r].at = "snapshot"
  /\ snapshot' = [stored |-> TRUE, roles |-> kc]
  /\ restorer' = [restorer EXCEPT ![r].at = "create", ![r].snap = kc]
  /\ UNCHANGED <<kc, links, rowId, rowLinks, lastRow, changes, rcall, phase, blurred, was, recorded, late, roleFaults>>

\* A refusal that carries a message is reported and passed over.
Recreate(r, n) ==
  /\ restorer[r].at = "create" /\ n \in restorer[r].todo
  /\ \/ /\ kc' = kc \cup {n}
        /\ restorer' = [restorer EXCEPT ![r].todo = @ \ {n}, ![r].made = @ \cup {n}]
        /\ UNCHANGED <<blurred, roleFaults>>
     \/ /\ RoleFault /\ n \notin kc
        /\ restorer' = [restorer EXCEPT ![r].todo = @ \ {n}]
        /\ blurred' = blurred \cup {n}
        /\ UNCHANGED kc
  /\ UNCHANGED <<links, rowId, rowLinks, lastRow, changes, rcall, phase, was, snapshot, recorded, late>>

StartRecording(r) ==
  /\ restorer[r].at = "create" /\ restorer[r].todo = {}
  /\ restorer' = [restorer EXCEPT ![r].at = "record", ![r].todo = restorer[r].made \ restorer[r].snap]
  /\ UNCHANGED <<kc, links, rowId, rowLinks, lastRow, changes, rcall, phase, blurred, was, snapshot, recorded, late, roleFaults>>

(* Mutant: the attempt does not look for the event. *)
UnrecordedByMe(n) == recorded[n] <= 1

\* The check and the insert, under an advisory lock.
Unrecorded(n) == recorded[n] = 0
RecordCreation(r, n) ==
  /\ restorer[r].at = "record" /\ n \in restorer[r].todo
  /\ recorded' = IF Unrecorded(n) THEN [recorded EXCEPT ![n] = @ + 1] ELSE recorded
  /\ restorer' = [restorer EXCEPT ![r].todo = @ \ {n}]
  /\ UNCHANGED <<kc, links, rowId, rowLinks, lastRow, changes, rcall, phase, blurred, was, snapshot, late, roleFaults>>

StartLinking(r) ==
  /\ restorer[r].at = "record" /\ restorer[r].todo = {}
  /\ restorer' = [restorer EXCEPT ![r].at = "clear", ![r].todo = {n \in Rows : rowLinks[n] # {}}]
  /\ UNCHANGED <<kc, links, rowId, rowLinks, lastRow, changes, rcall, phase, blurred, was, snapshot, recorded, late, roleFaults>>

ClearLinks(r, n) ==
  /\ restorer[r].at = "clear" /\ n \in restorer[r].todo /\ n \in kc
  /\ links' = [links EXCEPT ![n] = {}]
  /\ restorer' = [restorer EXCEPT ![r].at = "link", ![r].on = n, ![r].todo = @ \ {n}]
  /\ UNCHANGED <<kc, rowId, rowLinks, lastRow, changes, rcall, phase, blurred, was, snapshot, recorded, late, roleFaults>>

LinkAgain(r) ==
  LET n == restorer[r].on
  IN /\ restorer[r].at = "link" /\ n \in kc /\ LinkedRows(n) \subseteq kc
     /\ links' = [links EXCEPT ![n] = LinkedRows(n)]
     /\ restorer' = [restorer EXCEPT ![r].at = "clear", ![r].on = "none"]
     /\ UNCHANGED <<kc, rowId, rowLinks, lastRow, changes, rcall, phase, blurred, was, snapshot, recorded, late, roleFaults>>

\* The attempt throws: at a role Keycloak does not have, or at a lost call.
RestoreThrows(r) ==
  LET a == restorer[r]
  IN /\ a.at # "idle"
     /\ restorer' = [restorer EXCEPT ![r] = NoRestore]
     /\ \/ /\ \/ a.at = "clear" /\ a.todo \ kc # {}
              \/ a.at = "link" /\ ~({a.on} \cup LinkedRows(a.on) \subseteq kc)
           /\ UNCHANGED <<kc, roleFaults>>
        \/ /\ RoleFault
           /\ kc' = kc \/ (a.at = "create" /\ \E n \in a.todo : kc' = kc \cup {n})
     /\ UNCHANGED <<links, rowId, rowLinks, lastRow, changes, rcall, phase, blurred, was, snapshot, recorded, late>>

RestoreTimesOut(r) ==
  /\ restorer[r].awaited /\ RoleFault
  /\ restorer' = [restorer EXCEPT ![r].awaited = FALSE]
  /\ late' = TRUE
  /\ UNCHANGED <<kc, links, rowId, rowLinks, lastRow, changes, rcall, phase, blurred, was, snapshot, recorded>>

FinishRestore(r) ==
  /\ restorer[r].at = "clear" /\ restorer[r].todo = {}
  /\ phase' = IF restorer[r].awaited THEN "restored" ELSE phase
  /\ restorer' = [restorer EXCEPT ![r] = NoRestore]
  /\ UNCHANGED <<kc, links, rowId, rowLinks, lastRow, changes, rcall, blurred, was, snapshot, recorded, late, roleFaults>>

RolesNext ==
  \/ \E c \in RoleCaller :
       \/ \E op \in {"create", "delete", "compose"}, n \in Role, set \in SUBSET Role : AskRole(c, op, n, set)
       \/ CallKeycloak(c) \/ MirrorRole(c)
  \/ ArchiveClient \/ RecreateClient
  \/ \E r \in Restorer :
       \/ StartRestore(r) \/ TakeSnapshot(r) \/ StartRecording(r) \/ StartLinking(r)
       \/ LinkAgain(r) \/ RestoreThrows(r) \/ RestoreTimesOut(r) \/ FinishRestore(r)
       \/ \E n \in Role : Recreate(r, n) \/ RecordCreation(r, n) \/ ClearLinks(r, n)

-----------------------------------------------------------------------------
Steady == Role \ (blurred \cup UNION {Names(c) : c \in RoleCaller})

(* "The role row mirrors Keycloak, so it is written only once Keycloak has   *)
(* the role": a role whose changes all succeeded, one at a time, has a row   *)
(* exactly when Keycloak has the role, its row lists every role it is        *)
(* composed of, and no row lists a row that is gone.                         *)
RowsMirrorKeycloak ==
  phase = "active" =>
    /\ \A n \in Steady : n \in kc <=> n \in Rows
    /\ \A n \in Steady : links[n] \cap Steady \subseteq LinkedRows(n)
    /\ \A n \in Rows : rowLinks[n] \subseteq {rowId[m] : m \in Rows}

Attended == phase = "restored" /\ ~late /\ Cardinality(Rows) <= BulkLimit

(* "Re-creates the client roles (and composite links) that existed before an *)
(* integration was archived", whatever attempt failed where: a restore that  *)
(* ended brings back each of them, save what failed before or was refused.   *)
RestoreBringsBack ==
  Attended => \A n \in was.roles \ blurred : n \in kc /\ was.links[n] \ blurred \subseteq links[n]

(* An attempt that timed out but kept running and its retry never both       *)
(* record the creation of a role; and "a replay still records what an        *)
(* earlier attempt changed but could not record".                            *)
CreationsRecordedOnce ==
  /\ \A n \in Role : recorded[n] <= 1
  /\ Attended => \A n \in was.roles \ blurred : recorded[n] = 1

(* The links a restore re-creates are those "that existed before an          *)
(* integration was archived", and no others.  The code breaks this:          *)
(* createCompositeRolesDB never takes an id out of compositeRoles, so a link *)
(* that was removed in Keycloak comes back.                                  *)
RestoreAddsNoLink ==
  Attended => \A n \in Role \ blurred : links[n] \subseteq was.links[n] \cup blurred
=============================================================================
