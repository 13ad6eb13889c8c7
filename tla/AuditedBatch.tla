---------------------------- MODULE AuditedBatch ----------------------------
(***************************************************************************)
(* runAuditedOperation and runAuditedBatch of packages/audit/src/writer.ts *)
(* around calls to Keycloak or SDX: one action per transaction, outside    *)
(* call or best-effort write, each of which can fail, and a crash anywhere.*)
(* Several items have a parent, a single one or none only when the caller  *)
(* wants it always; they run in slices of Concurrency, the next slice once *)
(* the last one settled.                                                   *)
(***************************************************************************)
EXTENDS Integers, FiniteSets

CONSTANTS
  MaxItems,      \* bound on the items of a batch
  Concurrency,   \* children that run at once
  MaxAuditFaults \* bound on failing writes and crashes

ASSUME AuditedBatchAssumption ==
  MaxItems \in Nat /\ Concurrency \in Nat \ {0} /\ MaxAuditFaults \in Nat

VARIABLES
  nItems,      \* items of the batch
  always,      \* the caller wants a parent however few items there are
  event,       \* the last event of each item
  done,        \* items whose outside call had its effect
  mirrored,    \* items whose mirror writes are committed
  child,       \* where each item is
  parent,      \* the last event of the parent
  caller,      \* "running", "returned", "threw" or "dead"
  auditFaults  \* faults so far

auditVars == <<nItems, always, event, done, mirrored, child, parent, caller, auditFaults>>

Items == 1..nItems
Outcomes == {"none", "requested", "success", "failure"}

AuditTypeOK ==
  /\ nItems \in 0..MaxItems /\ always \in BOOLEAN
  /\ event \in [1..MaxItems -> Outcomes] /\ parent \in Outcomes
  /\ done \subseteq Items /\ mirrored \subseteq Items
  /\ child \in [1..MaxItems -> {"waiting", "called", "failed", "outOfSync", "fulfilled", "rejected"}]
  /\ caller \in {"running", "returned", "threw", "dead"}
  /\ auditFaults \in 0..MaxAuditFaults

AuditInit ==
  /\ nItems \in 0..MaxItems /\ always \in BOOLEAN
  /\ event = [i \in 1..MaxItems |-> "none"]
  /\ done = {} /\ mirrored = {}
  /\ child = [i \in 1..MaxItems |-> "waiting"]
  /\ parent = "none"
  /\ caller = "running"
  /\ auditFaults = 0

HasParent == always \/ nItems > 1
ChildSettled(i) == child[i] \in {"fulfilled", "rejected"}
Requested == parent # "none" \/ \E i \in Items : event[i] # "none"
\* Slices of Concurrency items, in order.
Slice(i) == (i - 1) \div Concurrency
(* Mutant: a child does not wait for the batch to be on record. *)
MayRunUnrequested(i) == \A j \in Items : Slice(j) < Slice(i) => ChildSettled(j)
MayRun(i) == Requested /\ \A j \in Items : Slice(j) < Slice(i) => ChildSettled(j)

AuditFault == auditFaults < MaxAuditFaults /\ auditFaults' = auditFaults + 1

-----------------------------------------------------------------------------
\* An empty batch without a parent returns at once.
NothingToDo == nItems = 0 /\ ~always

\* One transaction writes every `requested` row, or the call throws.
RequestAll ==
  /\ caller = "running" /\ ~Requested /\ ~NothingToDo
  /\ event' = [i \in 1..MaxItems |-> IF i \in Items THEN "requested" ELSE "none"]
  /\ parent' = IF HasParent THEN "requested" ELSE "none"
  /\ UNCHANGED <<nItems, always, done, mirrored, child, caller, auditFaults>>

RequestRefused ==
  /\ caller = "running" /\ ~Requested /\ ~NothingToDo /\ AuditFault
  /\ caller' = "threw"
  /\ UNCHANGED <<nItems, always, event, done, mirrored, child, parent>>

\* settle: the call, which may throw with or without its effect ...
CallOutside(i, answered) ==
  /\ caller = "running" /\ i \in Items /\ child[i] = "waiting" /\ MayRun(i)
  /\ \/ done' = done \cup {i}
     \/ ~answered /\ done' = done
  /\ child' = [child EXCEPT ![i] = IF answered THEN "called" ELSE "failed"]
  /\ UNCHANGED <<nItems, always, event, mirrored, parent, caller, auditFaults>>

\* ... the mirror writes and the success row in one transaction ...
CommitSuccess(i) ==
  /\ caller = "running" /\ child[i] = "called"
  /\ event' = [event EXCEPT ![i] = "success"]
  /\ mirrored' = mirrored \cup {i}
  /\ child' = [child EXCEPT ![i] = "fulfilled"]
  /\ UNCHANGED <<nItems, always, done, parent, caller, auditFaults>>

(* Mutant: the mirror writes are committed before the success row. *)
CommitFailsHalfway(i) ==
  /\ caller = "running" /\ child[i] = "called" /\ AuditFault
  /\ child' = [child EXCEPT ![i] = "outOfSync"]
  /\ mirrored' = mirrored \cup {i}
  /\ UNCHANGED <<nItems, always, event, done, parent, caller>>

CommitFails(i) ==
  /\ caller = "running" /\ child[i] = "called" /\ AuditFault
  /\ child' = [child EXCEPT ![i] = "outOfSync"]
  /\ UNCHANGED <<nItems, always, event, done, mirrored, parent, caller>>

\* ... or a failure row, best effort.
RecordFailure(i) ==
  /\ caller = "running" /\ child[i] \in {"failed", "outOfSync"}
  /\ \/ event' = [event EXCEPT ![i] = "failure"] /\ UNCHANGED auditFaults
     \/ event' = event /\ AuditFault
  /\ child' = [child EXCEPT ![i] = "rejected"]
  /\ UNCHANGED <<nItems, always, done, mirrored, parent, caller>>

(* Mutant: settled is taken for fulfilled. *)
AllSettled == \A i \in Items : ChildSettled(i)
AllFulfilled == \A i \in Items : child[i] = "fulfilled"
Verdict == IF AllFulfilled THEN "success" ELSE "failure"

\* Every child settled: the parent's outcome, best effort, and the results.
Finish ==
  /\ caller = "running" /\ (Requested \/ NothingToDo) /\ \A i \in Items : ChildSettled(i)
  /\ \/ parent' = (IF HasParent THEN Verdict ELSE "none") /\ UNCHANGED auditFaults
     \/ HasParent /\ parent' = parent /\ AuditFault
  /\ caller' = "returned"
  /\ UNCHANGED <<nItems, always, event, done, mirrored, child>>

CallerDies ==
  /\ caller = "running" /\ AuditFault
  /\ caller' = "dead"
  /\ UNCHANGED <<nItems, always, event, done, mirrored, child, parent>>

AuditNext ==
  \/ RequestAll \/ RequestRefused \/ Finish \/ CallerDies
  \/ \E i \in 1..MaxItems :
       \/ \E answered \in BOOLEAN : CallOutside(i, answered)
       \/ CommitSuccess(i) \/ CommitFails(i) \/ RecordFailure(i)

-----------------------------------------------------------------------------
Promise == INSTANCE AuditPromise WITH
  Item <- 1..MaxItems, row <- event, made <- done

(* The writer keeps what the audit log promises: nothing is done off the     *)
(* record, the whole batch is on record before its first call, and each      *)
(* operation gets at most one outcome, a success only if it was done.        *)
KeepsItsPromise == Promise!Spec

(* "so a crash part-way leaves exactly the unfinished children unanswered":  *)
(* a call that lost no write answers every child it settled, a call that     *)
(* threw left nothing behind, and the mirror writes are there exactly where  *)
(* the log says success.                                                     *)
UnansweredIsUnfinished ==
  /\ auditFaults = 0 => \A i \in Items : event[i] = "requested" => ~ChildSettled(i)
  /\ caller = "threw" => done = {} /\ parent = "none" /\ \A i \in Items : event[i] = "none"
  /\ mirrored = {i \in Items : event[i] = "success"}

(* "the parent ends in success only if every child did", and in failure only *)
(* if a child did not, although outcomes can be missing.                     *)
ParentTellsChildren ==
  /\ parent = "success" => \A i \in Items : event[i] = "success"
  /\ parent = "failure" => \E i \in Items : event[i] # "success"
=============================================================================
