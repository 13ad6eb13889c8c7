---------------------------- MODULE PlatformProofs ----------------------------
(***************************************************************************)
(* Theorems about the parts that every integration relies on, each a       *)
(* component of its own: the audit writer, the rotation of the signing key *)
(* and the shared access token.  They hold for any number of items,        *)
(* applications, keys, calls and faults.                                   *)
(***************************************************************************)
EXTENDS AuditedBatch, KeyRotation, TokenClient, TLAPS

-----------------------------------------------------------------------------
(* The audit writer *)

AuditSpec == AuditInit /\ [][AuditNext]_auditVars

\* What is on record: the batch goes on record together, its parent with it.
RecordedTogether ==
  /\ \A i \in 1..MaxItems : event[i] # "none" => i \in Items
  /\ Requested => \A i \in Items : event[i] # "none"
  /\ Requested => (parent # "none" <=> HasParent)

\* Where a child is, against its row, its outside call and its mirror writes.
ChildAgrees(i) ==
  /\ child[i] # "waiting" => i \in Items /\ Requested
  /\ child[i] = "waiting" => event[i] \in {"none", "requested"} /\ i \notin done
  /\ child[i] \in {"called", "failed", "outOfSync"} => event[i] = "requested"
  /\ child[i] \in {"called", "outOfSync", "fulfilled"} => i \in done
  /\ child[i] = "fulfilled" <=> event[i] = "success"
  /\ child[i] = "rejected" => event[i] \in {"requested", "failure"}
  /\ child[i] = "rejected" /\ event[i] = "requested" => auditFaults > 0
  /\ i \in mirrored <=> child[i] = "fulfilled"

\* What the caller was told: nothing began if it threw, and the parent's
\* outcome, the last write of a call that returned, is the children's.
CallerWasTold ==
  /\ caller = "threw" => ~Requested
  /\ parent \in {"success", "failure"} => caller = "returned"
  /\ parent = "success" => AllFulfilled
  /\ parent = "failure" => ~AllFulfilled

AuditInv ==
  /\ AuditTypeOK
  /\ RecordedTogether
  /\ \A i \in 1..MaxItems : ChildAgrees(i)
  /\ CallerWasTold

(* The items of a batch are among those the bound allows. *)
LEMMA ItemsAreBounded == AuditTypeOK => Items \subseteq 1..MaxItems
  BY AuditedBatchAssumption DEF AuditTypeOK, Items

(* A batch that has not been requested has done nothing. *)
LEMMA UnrequestedIsUntouched ==
  ASSUME AuditInv, ~Requested
  PROVE  /\ done = {} /\ mirrored = {} /\ parent = "none"
         /\ \A i \in 1..MaxItems : event[i] = "none" /\ child[i] = "waiting"
<1>1. parent = "none" /\ \A i \in 1..MaxItems : event[i] = "none" /\ child[i] = "waiting"
  BY DEF AuditInv, RecordedTogether, ChildAgrees, Requested
<1>2. done = {} /\ mirrored = {}
  BY <1>1, ItemsAreBounded DEF AuditInv, AuditTypeOK, ChildAgrees
<1> QED BY <1>1, <1>2

(* The invariant holds at the start: nothing is on record and nothing done. *)
LEMMA AuditInitInv == AuditInit => AuditInv
<1> SUFFICES ASSUME AuditInit PROVE AuditInv
  OBVIOUS
<1>1. AuditTypeOK
  BY AuditedBatchAssumption DEF AuditInit, AuditTypeOK, Items, Outcomes
<1>2. ~Requested
  BY <1>1, ItemsAreBounded DEF AuditInit, Requested
<1> QED
  BY <1>1, <1>2 DEF AuditInit, AuditInv, RecordedTogether, ChildAgrees, CallerWasTold

(* Requesting a batch puts its items and its parent on record, as one write. *)
LEMMA AuditRequestStep == AuditInv /\ RequestAll => AuditInv'
<1> SUFFICES ASSUME AuditInv, RequestAll PROVE AuditInv'
  OBVIOUS
<1>1. /\ done = {} /\ mirrored = {} /\ parent = "none"
      /\ \A i \in 1..MaxItems : event[i] = "none" /\ child[i] = "waiting"
  BY UnrequestedIsUntouched DEF RequestAll
<1>2. AuditTypeOK'
  BY DEF AuditInv, AuditTypeOK, RequestAll, Items, Outcomes
<1>3. Items' = Items /\ (HasParent' <=> HasParent) /\ Items \subseteq 1..MaxItems
  BY ItemsAreBounded DEF RequestAll, Items, HasParent, AuditInv
<1>4. RecordedTogether'
  BY <1>3 DEF RequestAll, RecordedTogether
<1>5. ASSUME NEW i \in 1..MaxItems PROVE ChildAgrees(i)'
  BY <1>1, <1>5 DEF RequestAll, ChildAgrees
<1>6. CallerWasTold'
  BY <1>1 DEF RequestAll, CallerWasTold
<1> QED BY <1>2, <1>4, <1>5, <1>6 DEF AuditInv

(* A call that throws before anything is on record changes nothing there. *)
LEMMA AuditRefusedStep == AuditInv /\ RequestRefused => AuditInv'
<1> SUFFICES ASSUME AuditInv, RequestRefused PROVE AuditInv'
  OBVIOUS
<1>1. AuditTypeOK'
  BY AuditedBatchAssumption DEF AuditInv, AuditTypeOK, RequestRefused, AuditFault, Items, Outcomes
<1>2. Items' = Items /\ (Requested' <=> Requested) /\ auditFaults' > 0
  BY DEF RequestRefused, AuditFault, Items, Requested, AuditInv, AuditTypeOK
<1>3. RecordedTogether'
  BY <1>2 DEF RequestRefused, AuditInv, RecordedTogether, HasParent
<1>4. ASSUME NEW i \in 1..MaxItems PROVE ChildAgrees(i)'
  BY <1>2, <1>4 DEF RequestRefused, AuditInv, ChildAgrees
<1>5. CallerWasTold'
  BY <1>2 DEF RequestRefused, AuditInv, CallerWasTold
<1> QED BY <1>1, <1>3, <1>4, <1>5 DEF AuditInv

(* While a child runs, the rest of the batch is as it was. *)
LEMMA ChildMoves ==
  ASSUME AuditInv, NEW i \in 1..MaxItems, i \in Items, Requested, caller = "running", caller' = caller,
         AuditTypeOK', nItems' = nItems, always' = always, parent' = parent,
         auditFaults' >= auditFaults,
         event[i] # "none", event'[i] # "none", ChildAgrees(i)',
         \A j \in 1..MaxItems \ {i} :
           event'[j] = event[j] /\ child'[j] = child[j] /\ (j \in done' <=> j \in done)
                                /\ (j \in mirrored' <=> j \in mirrored)
  PROVE  AuditInv'
<1>1. Items' = Items /\ (HasParent' <=> HasParent) /\ Items \subseteq 1..MaxItems
  BY ItemsAreBounded DEF Items, HasParent, AuditInv
<1>2. Requested'
  BY <1>1 DEF Requested
<1>3. RecordedTogether'
  BY <1>1, <1>2 DEF AuditInv, RecordedTogether
<1>4. ASSUME NEW j \in 1..MaxItems, j # i PROVE ChildAgrees(j)'
  BY <1>1, <1>2, <1>4 DEF AuditInv, ChildAgrees, AuditTypeOK
<1>5. CallerWasTold'
  BY DEF AuditInv, CallerWasTold
<1> QED BY <1>3, <1>4, <1>5 DEF AuditInv

(* The outside call of a child. *)
LEMMA AuditCallStep ==
  ASSUME AuditInv, NEW i \in 1..MaxItems, NEW answered \in BOOLEAN, CallOutside(i, answered)
  PROVE  AuditInv'
<1>1. /\ i \in Items /\ Requested /\ event[i] = "requested" /\ i \notin mirrored
      /\ caller = "running" /\ caller' = caller
  BY DEF CallOutside, MayRun, AuditInv, RecordedTogether, ChildAgrees
<1>2. AuditTypeOK'
  BY DEF AuditInv, AuditTypeOK, CallOutside, Items
<1>3. Items' = Items /\ Requested'
  BY <1>1 DEF CallOutside, Items, Requested
<1>4. child'[i] \in {"called", "failed"} /\ (child'[i] = "called" => i \in done')
  BY DEF CallOutside, AuditInv, AuditTypeOK
<1>5. ChildAgrees(i)'
  BY <1>1, <1>3, <1>4 DEF CallOutside, ChildAgrees
<1>6. auditFaults' >= auditFaults
  BY DEF CallOutside, AuditInv, AuditTypeOK
<1>7. \A j \in 1..MaxItems \ {i} :
           event'[j] = event[j] /\ child'[j] = child[j] /\ (j \in done' <=> j \in done)
                                /\ (j \in mirrored' <=> j \in mirrored)
  BY DEF CallOutside, AuditInv, AuditTypeOK
<1> QED BY <1>1, <1>2, <1>5, <1>6, <1>7, ChildMoves DEF CallOutside

(* The transaction that mirrors a call and records its success. *)
LEMMA AuditCommitStep ==
  ASSUME AuditInv, NEW i \in 1..MaxItems, CommitSuccess(i)
  PROVE  AuditInv'
<1>1. /\ i \in Items /\ Requested /\ event[i] = "requested" /\ i \in done
      /\ caller = "running" /\ caller' = caller
  BY DEF CommitSuccess, AuditInv, ChildAgrees
<1>2. AuditTypeOK'
  BY <1>1 DEF AuditInv, AuditTypeOK, CommitSuccess, Items, Outcomes
<1>3. event'[i] = "success" /\ child'[i] = "fulfilled" /\ i \in mirrored'
  BY DEF CommitSuccess, AuditInv, AuditTypeOK
<1>4. Items' = Items /\ Requested'
  BY <1>1, <1>3 DEF CommitSuccess, Items, Requested
<1>5. ChildAgrees(i)'
  BY <1>1, <1>3, <1>4 DEF CommitSuccess, ChildAgrees
<1>6. auditFaults' >= auditFaults
  BY DEF CommitSuccess, AuditInv, AuditTypeOK
<1>7. \A j \in 1..MaxItems \ {i} :
           event'[j] = event[j] /\ child'[j] = child[j] /\ (j \in done' <=> j \in done)
                                /\ (j \in mirrored' <=> j \in mirrored)
  BY DEF CommitSuccess, AuditInv, AuditTypeOK
<1> QED BY <1>1, <1>2, <1>3, <1>5, <1>6, <1>7, ChildMoves DEF CommitSuccess

(* A call that had its effect and whose transaction failed. *)
LEMMA AuditCommitFailsStep ==
  ASSUME AuditInv, NEW i \in 1..MaxItems, CommitFails(i)
  PROVE  AuditInv'
<1>1. /\ i \in Items /\ Requested /\ event[i] = "requested" /\ i \in done /\ i \notin mirrored
      /\ caller = "running" /\ caller' = caller
  BY DEF CommitFails, AuditInv, ChildAgrees
<1>2. AuditTypeOK' /\ auditFaults' >= auditFaults /\ child'[i] = "outOfSync"
  BY AuditedBatchAssumption DEF AuditInv, AuditTypeOK, CommitFails, AuditFault, Items
<1>3. Items' = Items /\ Requested'
  BY <1>1 DEF CommitFails, Items, Requested
<1>4. ChildAgrees(i)'
  BY <1>1, <1>2, <1>3 DEF CommitFails, ChildAgrees
<1>5. \A j \in 1..MaxItems \ {i} :
           event'[j] = event[j] /\ child'[j] = child[j] /\ (j \in done' <=> j \in done)
                                /\ (j \in mirrored' <=> j \in mirrored)
  BY DEF CommitFails, AuditInv, AuditTypeOK
<1> QED BY <1>1, <1>2, <1>4, <1>5, ChildMoves DEF CommitFails

(* A child settles as rejected, with its failure row or without. *)
LEMMA AuditRejectStep ==
  ASSUME AuditInv, NEW i \in 1..MaxItems, RecordFailure(i)
  PROVE  AuditInv'
<1>1. /\ i \in Items /\ Requested /\ event[i] = "requested" /\ i \notin mirrored
      /\ caller = "running" /\ caller' = caller
  BY DEF RecordFailure, AuditInv, ChildAgrees
<1>2. AuditTypeOK' /\ auditFaults' >= auditFaults /\ child'[i] = "rejected"
  BY AuditedBatchAssumption DEF AuditInv, AuditTypeOK, RecordFailure, AuditFault, Items, Outcomes
<1>3. event'[i] = "failure" \/ (event'[i] = "requested" /\ auditFaults' > 0)
  BY AuditedBatchAssumption, <1>1 DEF AuditInv, AuditTypeOK, RecordFailure, AuditFault
<1>4. Items' = Items /\ Requested'
  BY <1>1, <1>3 DEF RecordFailure, Items, Requested
<1>5. ChildAgrees(i)'
  BY <1>1, <1>2, <1>3, <1>4 DEF RecordFailure, ChildAgrees
<1>6. \A j \in 1..MaxItems \ {i} :
           event'[j] = event[j] /\ child'[j] = child[j] /\ (j \in done' <=> j \in done)
                                /\ (j \in mirrored' <=> j \in mirrored)
  BY DEF RecordFailure, AuditInv, AuditTypeOK
<1> QED BY <1>1, <1>2, <1>3, <1>5, <1>6, ChildMoves DEF RecordFailure

(* Every child settled: the parent's outcome is theirs. *)
LEMMA AuditFinishStep == AuditInv /\ Finish => AuditInv'
<1> SUFFICES ASSUME AuditInv, Finish PROVE AuditInv'
  OBVIOUS
<1>1. AuditTypeOK' /\ auditFaults' >= auditFaults
  BY AuditedBatchAssumption DEF AuditInv, AuditTypeOK, Finish, AuditFault, Items, Outcomes, Verdict
<1>2. Items' = Items /\ (HasParent' <=> HasParent) /\ (AllFulfilled' <=> AllFulfilled)
  BY DEF Finish, Items, HasParent, AllFulfilled
<1>3. Requested \/ (Items = {} /\ ~HasParent)
  BY DEF Finish, NothingToDo, HasParent, Items
<1>4. parent' = parent \/ parent' = (IF HasParent THEN Verdict ELSE "none")
  BY DEF Finish
<1>5. Requested' <=> Requested
  BY <1>2, <1>3, <1>4 DEF Finish, Requested, Verdict, AuditInv, RecordedTogether
<1>6. RecordedTogether'
  BY <1>2, <1>3, <1>4, <1>5 DEF Finish, AuditInv, RecordedTogether, Verdict
<1>7. ASSUME NEW i \in 1..MaxItems PROVE ChildAgrees(i)'
  BY <1>1, <1>2, <1>5 DEF Finish, AuditInv, ChildAgrees, AuditTypeOK
<1>8. CallerWasTold'
  BY <1>2, <1>4 DEF Finish, AuditInv, CallerWasTold, Verdict
<1> QED BY <1>1, <1>6, <1>7, <1>8 DEF AuditInv

(* A crash leaves everything where it is. *)
LEMMA AuditCrashStep == AuditInv /\ CallerDies => AuditInv'
<1> SUFFICES ASSUME AuditInv, CallerDies PROVE AuditInv'
  OBVIOUS
<1>1. AuditTypeOK' /\ auditFaults' >= auditFaults
  BY AuditedBatchAssumption DEF AuditInv, AuditTypeOK, CallerDies, AuditFault, Items
<1>2. Items' = Items /\ (Requested' <=> Requested)
  BY DEF CallerDies, Items, Requested
<1>3. RecordedTogether'
  BY <1>2 DEF CallerDies, AuditInv, RecordedTogether, HasParent
<1>4. ASSUME NEW i \in 1..MaxItems PROVE ChildAgrees(i)'
  BY <1>1, <1>2, <1>4 DEF CallerDies, AuditInv, ChildAgrees, AuditTypeOK
<1>5. CallerWasTold'
  BY DEF CallerDies, AuditInv, CallerWasTold, AllFulfilled, Items
<1> QED BY <1>1, <1>3, <1>4, <1>5 DEF AuditInv

(* AuditInv is inductive: it holds in every state of the writer. *)
THEOREM AuditInvariant == AuditSpec => []AuditInv
<1>1. AuditInv /\ [AuditNext]_auditVars => AuditInv'
  <2> SUFFICES ASSUME AuditInv, [AuditNext]_auditVars PROVE AuditInv'
    OBVIOUS
  <2>1. CASE RequestAll \/ RequestRefused \/ Finish \/ CallerDies
    BY <2>1, AuditRequestStep, AuditRefusedStep, AuditFinishStep, AuditCrashStep
  <2>2. CASE \E i \in 1..MaxItems :
               \/ \E answered \in BOOLEAN : CallOutside(i, answered)
               \/ CommitSuccess(i) \/ CommitFails(i) \/ RecordFailure(i)
    BY <2>2, AuditCallStep, AuditCommitStep, AuditCommitFailsStep, AuditRejectStep
  <2>3. CASE UNCHANGED auditVars
    BY <2>3 DEF auditVars, AuditInv, AuditTypeOK, RecordedTogether, ChildAgrees, CallerWasTold,
                Items, Requested, HasParent, AllFulfilled
  <2> QED BY <2>1, <2>2, <2>3 DEF AuditNext
<1> QED BY AuditInitInv, <1>1, PTL DEF AuditSpec

(* A crash part-way leaves exactly the unfinished children unanswered, a call
   that threw left nothing behind, and the mirror writes are there exactly
   where the log says success: for batches of any size and however many
   writes fail. *)
THEOREM CrashLeavesOnlyUnfinished == AuditSpec => []UnansweredIsUnfinished
<1>1. AuditInv => UnansweredIsUnfinished
  <2> SUFFICES ASSUME AuditInv PROVE UnansweredIsUnfinished
    OBVIOUS
  <2>1. auditFaults = 0 => \A i \in Items : event[i] = "requested" => ~ChildSettled(i)
    BY ItemsAreBounded DEF AuditInv, ChildAgrees, ChildSettled
  <2>2. caller = "threw" => done = {} /\ parent = "none" /\ \A i \in Items : event[i] = "none"
    BY UnrequestedIsUntouched, ItemsAreBounded DEF AuditInv, CallerWasTold
  <2>3. mirrored = {i \in Items : event[i] = "success"}
    BY ItemsAreBounded DEF AuditInv, ChildAgrees, AuditTypeOK
  <2> QED BY <2>1, <2>2, <2>3 DEF UnansweredIsUnfinished
<1> QED BY <1>1, AuditInvariant, PTL

(* The parent ends in success only if every child did, and in failure only if
   a child did not, although outcomes can be missing. *)
THEOREM ParentIsTheChildren == AuditSpec => []ParentTellsChildren
<1>1. AuditInv => ParentTellsChildren
  BY ItemsAreBounded DEF AuditInv, CallerWasTold, ChildAgrees, AllFulfilled, ParentTellsChildren
<1> QED BY <1>1, AuditInvariant, PTL

(* Every step of the writer is a step of what the audit log promises, or one
   that the promise does not see. *)
LEMMA AuditStepKeepsPromise ==
  ASSUME AuditInv, [AuditNext]_auditVars
  PROVE  [Promise!Step]_<<event, done>>
<1> USE DEF Promise!Step
<1>1. CASE RequestAll
  <2>1. \A i \in 1..MaxItems : event[i] = "none"
    BY <1>1, UnrequestedIsUntouched DEF RequestAll
  <2>2. Items \in SUBSET (1..MaxItems)
    BY ItemsAreBounded DEF AuditInv
  <2>3. Promise!Request(Items)
    BY <1>1, <2>1 DEF RequestAll, Promise!Request
  <2> QED BY <2>2, <2>3
<1>2. ASSUME NEW i \in 1..MaxItems, NEW answered \in BOOLEAN, CallOutside(i, answered)
      PROVE  Promise!Do(i) \/ UNCHANGED <<event, done>>
  <2>1. event[i] = "requested" /\ i \notin done
    BY <1>2 DEF CallOutside, MayRun, AuditInv, RecordedTogether, ChildAgrees
  <2> QED BY <1>2, <2>1 DEF CallOutside, Promise!Do
<1>3. ASSUME NEW i \in 1..MaxItems, CommitSuccess(i)
      PROVE  Promise!Answer(i, "success")
  BY <1>3 DEF CommitSuccess, AuditInv, ChildAgrees, Promise!Answer
<1>4. ASSUME NEW i \in 1..MaxItems, RecordFailure(i)
      PROVE  Promise!Answer(i, "failure") \/ UNCHANGED <<event, done>>
  BY <1>4 DEF RecordFailure, AuditInv, ChildAgrees, Promise!Answer
<1>5. ASSUME NEW i \in 1..MaxItems, CommitFails(i)
      PROVE  UNCHANGED <<event, done>>
  BY <1>5 DEF CommitFails
<1>6. CASE RequestRefused \/ Finish \/ CallerDies \/ UNCHANGED auditVars
  BY <1>6 DEF RequestRefused, Finish, CallerDies, auditVars
<1> QED BY <1>1, <1>2, <1>3, <1>4, <1>5, <1>6 DEF AuditNext

(* The writer implements the audit log's promise: nothing is done off the
   record, the whole batch is on record before its first outside call, and
   each operation gets at most one outcome, a success only if it was done;
   whatever fails, and wherever the process dies. *)
THEOREM WriterKeepsPromise == AuditSpec => KeepsItsPromise
<1>1. AuditInit => Promise!Start
  BY DEF AuditInit, Promise!Start
<1>2. AuditInv /\ [AuditNext]_auditVars => [Promise!Step]_<<event, done>>
  BY AuditStepKeepsPromise
<1> QED BY <1>1, <1>2, AuditInvariant, PTL DEF AuditSpec, KeepsItsPromise, Promise!Spec

-----------------------------------------------------------------------------
(* The rotation of the signing key *)

KeysSpec == KeysInit /\ [][KeysNext]_keyVars

Priorities == {Absent, StandbyPriority, ActivePriority, CutoverPriority}
CutOvers == {k \in Key : priority[k] = CutoverPriority}
Actives == {k \in Key : priority[k] = ActivePriority}

\* The providers: a key that has not been created is absent, one is in use, and
\* at most one has been cut over to and not yet renamed.
KeysInUse ==
  /\ \A k \in Key : k > lastKey => priority[k] = Absent
  /\ CutOvers \cup Actives # {}
  /\ \A j, k \in CutOvers : j = k

\* The rotation, against the priorities of its two keys.
RotationAgrees ==
  /\ rot.at \in {"normalize", "create"} => lastKey < MaxKeys
  /\ rot.at = "normalize" => rot.current \in Signing
  /\ rot.at \in {"create", "certify", "prepare", "undo"} => rot.current \in Actives /\ CutOvers = {}
  /\ rot.at \in {"certify", "prepare", "undo"} => rot.new \in Key /\ priority[rot.new] = StandbyPriority
  /\ rot.at \in {"retire", "rename"} => rot.new \in CutOvers
  /\ rot.at = "retire" => rot.current \in Key /\ rot.current # rot.new

\* An application that need not be prepared any more trusts the new key.
PreparedTrustsNew ==
  rot.at = "prepare" => \A a \in (CoveredApps \ rot.todo) \cup rot.updated : rot.new \in trusted[a]

\* The applications that trust the new key alone, or nothing, do not count.
BareIsExposed ==
  /\ rot.updated \subseteq apps /\ rot.todo \subseteq apps
  /\ rot.at \in {"prepare", "undo"} /\ ~rot.stale => rot.updated \subseteq exposed

KeysCore ==
  KeysTypeOK /\ KeysInUse /\ RotationAgrees /\ PreparedTrustsNew /\ SigningKeyIsTrusted

KeysInv == KeysCore /\ BareIsExposed

(* The provider that is in use has the highest priority there is: a key that
   was cut over to, or else one of the active ones. *)
LEMMA HighestPriority ==
  ASSUME NEW p \in [Key -> Priorities],
         \E k \in Key : p[k] \in {ActivePriority, CutoverPriority}
  PROVE  LET listed == {k \in Key : p[k] # Absent}
             top == {k \in listed : \A j \in listed : p[j] <= p[k]}
             cut == {k \in Key : p[k] = CutoverPriority}
         IN  top = IF cut = {} THEN {k \in Key : p[k] = ActivePriority} ELSE cut
  BY DEF Priorities, Absent, StandbyPriority, ActivePriority, CutoverPriority

\* The key that signs is the one at the highest priority present.
LEMMA SigningIsHighest ==
  ASSUME KeysTypeOK, KeysInUse
  PROVE  Signing = IF CutOvers = {} THEN Actives ELSE CutOvers
<1>1. priority \in [Key -> Priorities] /\ \E k \in Key : priority[k] \in {ActivePriority, CutoverPriority}
  BY DEF KeysTypeOK, KeysInUse, CutOvers, Actives, Priorities
<1> QED BY <1>1, HighestPriority DEF Signing, Providers, CutOvers, Actives

\* The same after a step.
LEMMA SigningIsHighestNext ==
  ASSUME KeysTypeOK', KeysInUse'
  PROVE  Signing' = IF CutOvers' = {} THEN Actives' ELSE CutOvers'
<1>1. priority' \in [Key -> Priorities] /\ \E k \in Key : priority'[k] \in {ActivePriority, CutoverPriority}
  BY DEF KeysTypeOK, KeysInUse, CutOvers, Actives, Priorities
<1> QED BY <1>1, HighestPriority DEF Signing, Providers, CutOvers, Actives

(* The first key is in use and everything trusts it. *)
LEMMA KeysInitInv == KeysInit => KeysInv
<1> SUFFICES ASSUME KeysInit PROVE KeysInv
  OBVIOUS
<1> USE KeyRotationAssumption
<1>1. KeysTypeOK
  BY DEF KeysInit, KeysTypeOK, NotRotating, Key
<1>2. KeysInUse
  <2>1. CutOvers = {} /\ 1 \in Actives
    BY DEF KeysInit, CutOvers, Actives, Key, Absent, ActivePriority, CutoverPriority
  <2> QED BY <2>1 DEF KeysInit, KeysInUse, Key
<1>3. Signing = {1}
  BY <1>1, <1>2, SigningIsHighest
     DEF KeysInit, CutOvers, Actives, Key, Absent, ActivePriority, CutoverPriority
<1>4. SigningKeyIsTrusted
  BY <1>3 DEF SigningKeyIsTrusted, KeysInit, CoveredApps
<1> QED BY <1>1, <1>2, <1>4 DEF KeysInv, KeysCore, BareIsExposed, RotationAgrees, PreparedTrustsNew, KeysInit, NotRotating

(* What a call that counts, and one that throws, do to the rotation. *)
LEMMA CallsAreTyped ==
  ASSUME KeysTypeOK, NEW f \in Answer, Counts(f)
  PROVE  keyFaults' \in 0..MaxKeyFaults
  BY KeyRotationAssumption DEF KeysTypeOK, Counts

(* A step that leaves the providers alone keeps the keys in use. *)
LEMMA SameProviders ==
  ASSUME KeysInv, priority' = priority, lastKey' = lastKey
  PROVE  /\ KeysInUse' /\ Signing' = Signing
         /\ CutOvers' = CutOvers /\ Actives' = Actives
  BY DEF KeysInv, KeysCore, KeysInUse, CutOvers, Actives, Signing, Providers

(* A step of the rotation gives it a next call, or ends it.                   *)
LEMMA RotationIsTyped ==
  ASSUME KeysTypeOK, NEW f \in Answer, \E to \in {"create", "rename"} : OrThrows(f, to)
  PROVE  /\ rot' \in [at : {"idle", "normalize", "create", "certify", "prepare", "undo",
                           "retire", "remove", "rename"},
                     current : 0..MaxKeys, new : 0..MaxKeys, stale : BOOLEAN,
                     todo : SUBSET App, updated : SUBSET App]
         /\ rot'.todo \subseteq rot.todo /\ rot'.updated \subseteq rot.updated
         /\ rot'.at \in {"create", "rename", "idle"}
<1>1. PICK to \in {"create", "rename"} : rot' = NotRotating \/ rot' = [rot EXCEPT !.at = to]
  BY DEF OrThrows, GoesTo
<1>2. CASE rot' = NotRotating
  BY <1>2, KeyRotationAssumption DEF NotRotating
<1>3. CASE rot' = [rot EXCEPT !.at = to]
  BY <1>3 DEF KeysTypeOK
<1> QED BY <1>1, <1>2, <1>3

(* A rotation begins with the key in use. *)
LEMMA StartRotationStep == KeysInv /\ StartRotation => KeysCore'
<1> SUFFICES ASSUME KeysInv, StartRotation PROVE KeysCore'
  OBVIOUS
<1> USE DEF StartRotation
<1>1. Signing \subseteq Key
  BY DEF Signing, Providers
<1>2. PICK k \in Signing : rot' = [NotRotating EXCEPT !.at = "normalize", !.current = k]
  OBVIOUS
<1>3. KeysInUse' /\ Signing' = Signing /\ CutOvers' = CutOvers /\ Actives' = Actives
  BY SameProviders
<1>4. KeysTypeOK'
  <2>1. k \in 0..MaxKeys /\ 0 \in 0..MaxKeys
    BY <1>1, KeyRotationAssumption DEF Key
  <2>2. rot' = [at |-> "normalize", current |-> k, new |-> 0, stale |-> FALSE, todo |-> {}, updated |-> {}]
    BY <1>2 DEF NotRotating
  <2> QED BY <2>1, <2>2 DEF KeysInv, KeysCore, KeysTypeOK
<1>5. RotationAgrees'
  BY <1>2, <1>3, KeyRotationAssumption DEF RotationAgrees, NotRotating, KeysInv, KeysCore, KeysTypeOK, Key
<1>6. PreparedTrustsNew' /\ SigningKeyIsTrusted'
  BY <1>2, <1>3 DEF KeysInv, KeysCore, PreparedTrustsNew, SigningKeyIsTrusted, NotRotating, CoveredApps
<1> QED BY <1>3, <1>4, <1>5, <1>6 DEF KeysInv, KeysCore

(* The key in use is given its usual priority. *)
LEMMA NormalizeStep == ASSUME KeysInv, NEW f \in Answer, Normalize(f) PROVE KeysCore'
<1> USE DEF Normalize, SetPriority
<1>1. rot.current \in Key /\ rot.current \in Signing /\ lastKey < MaxKeys
  BY DEF KeysInv, KeysCore, RotationAgrees, Signing, Providers
<1>2. KeysTypeOK'
  <2>1. /\ keyFaults' \in 0..MaxKeyFaults
        /\ priority' \in [Key -> {Absent, StandbyPriority, ActivePriority, CutoverPriority}]
    BY <1>1, CallsAreTyped DEF KeysInv, KeysCore, KeysTypeOK
  <2> QED BY <2>1, RotationIsTyped DEF KeysInv, KeysCore, KeysTypeOK
<1>3. \A k \in Key : priority'[k] = IF Lands(f) /\ k = rot.current THEN ActivePriority ELSE priority[k]
  BY <1>1 DEF KeysInv, KeysCore, KeysTypeOK
<1>4. Signing = IF CutOvers = {} THEN Actives ELSE CutOvers
  BY SigningIsHighest DEF KeysInv, KeysCore
<1>5. KeysInUse'
  BY <1>1, <1>2, <1>3, <1>4 DEF KeysInv, KeysCore, KeysTypeOK, KeysInUse, CutOvers, Actives,
     Absent, ActivePriority, CutoverPriority
<1>6. Signing' = IF CutOvers' = {} THEN Actives' ELSE CutOvers'
  BY <1>2, <1>5, SigningIsHighestNext
<1>7. ~Lands(f) \/ (CutOvers' = {} /\ rot.current \in Actives')
  BY <1>1, <1>2, <1>3, <1>4 DEF KeysInv, KeysCore, KeysInUse, CutOvers, Actives, ActivePriority, CutoverPriority
<1>8. RotationAgrees'
  BY <1>1, <1>7 DEF RotationAgrees, OrThrows, GoesTo, NotRotating, KeysInv, KeysCore, KeysTypeOK, Lands
<1>9. PreparedTrustsNew'
  BY DEF PreparedTrustsNew, OrThrows, GoesTo, NotRotating, KeysInv, KeysCore, KeysTypeOK
<1>10. SigningKeyIsTrusted'
  <2>1. CASE ~Lands(f)
    BY <2>1, <1>3 DEF KeysInv, KeysCore, SigningKeyIsTrusted, CoveredApps, Signing, Providers
  <2>2. CASE Lands(f)
    <3>1. rot.current \in Signing'
      BY <1>6, <1>7, <2>2
    <3>2. SUFFICES ASSUME Signing' = {rot.current} PROVE Signing = {rot.current}
      BY <3>1 DEF KeysInv, KeysCore, SigningKeyIsTrusted, CoveredApps
    <3> QED BY <1>1, <1>3, <1>4, <1>6, <1>7, <2>2, <3>2 DEF KeysInv, KeysCore, KeysInUse, CutOvers, Actives
  <2> QED BY <2>1, <2>2
<1> QED BY <1>2, <1>5, <1>8, <1>9, <1>10 DEF KeysInv, KeysCore

(* A key that nothing signs with may come and go: a standby key is created,
   and removed when its certificate cannot be had or when it is withdrawn. *)
LEMMA StandbyIsNotSigning ==
  ASSUME KeysInv, KeysTypeOK', NEW n \in Key, NEW c \in Actives, CutOvers = {},
         priority[n] \in {Absent, StandbyPriority},
         \A k \in Key : k # n => priority'[k] = priority[k],
         priority'[n] \in {Absent, StandbyPriority},
         \A k \in Key : k > lastKey' => priority'[k] = Absent
  PROVE  KeysInUse' /\ Signing' = Signing /\ CutOvers' = {} /\ Actives' = Actives
<1>1. CutOvers' = {} /\ Actives' = Actives
  BY DEF CutOvers, Actives, Absent, StandbyPriority, ActivePriority, CutoverPriority
<1>2. KeysInUse'
  BY <1>1 DEF KeysInUse
<1> QED BY <1>1, <1>2, SigningIsHighest, SigningIsHighestNext DEF KeysInv, KeysCore

(* The new key is created, or may have been: nothing signs with it. *)
LEMMA CreateStandbyStep == ASSUME KeysInv, NEW f \in Answer, CreateStandby(f) PROVE KeysCore'
<1> USE DEF CreateStandby, SetPriority
<1>1. lastKey' \in Key /\ lastKey \in Key /\ lastKey' = lastKey + 1
  BY KeyRotationAssumption DEF KeysInv, KeysCore, KeysTypeOK, RotationAgrees, Key
<1>2. KeysTypeOK'
  <2>1. lastKey' \in 0..MaxKeys /\ 0 \in 0..MaxKeys
    BY <1>1, KeyRotationAssumption DEF Key
  <2>2. keyFaults' \in 0..MaxKeyFaults
    BY CallsAreTyped DEF KeysInv, KeysCore
  <2> QED BY <1>1, <2>1, <2>2 DEF KeysInv, KeysCore, KeysTypeOK, NotRotating
<1>3. /\ rot.current \in Actives /\ CutOvers = {} /\ priority[lastKey'] = Absent
      /\ \A k \in Key : k > lastKey' => k > lastKey
  BY <1>1 DEF KeysInv, KeysCore, KeysInUse, RotationAgrees, Key
<1>4. /\ \A k \in Key : k # lastKey' => priority'[k] = priority[k]
      /\ priority'[lastKey'] \in {Absent, StandbyPriority}
      /\ Lands(f) => priority'[lastKey'] = StandbyPriority
  BY <1>1, <1>3 DEF KeysInv, KeysCore, KeysTypeOK
<1>5. \A k \in Key : k > lastKey' => priority'[k] = Absent
  BY <1>1, <1>3, <1>4 DEF KeysInv, KeysCore, KeysInUse, Key
<1>6. KeysInUse' /\ Signing' = Signing /\ CutOvers' = {} /\ Actives' = Actives
  BY <1>1, <1>2, <1>3, <1>4, <1>5, StandbyIsNotSigning
<1>7. RotationAgrees'
  BY <1>1, <1>3, <1>4, <1>6 DEF RotationAgrees, NotRotating, Lands, KeysInv, KeysCore, KeysTypeOK
<1>8. PreparedTrustsNew' /\ SigningKeyIsTrusted'
  BY <1>6 DEF PreparedTrustsNew, SigningKeyIsTrusted, NotRotating, CoveredApps, KeysInv, KeysCore, KeysTypeOK
<1> QED BY <1>2, <1>6, <1>7, <1>8 DEF KeysInv, KeysCore

(* The applications to prepare are all there are. *)
LEMMA CertifyStep == ASSUME KeysInv, NEW shown \in BOOLEAN, Certify(shown) PROVE KeysCore'
<1> USE DEF Certify
<1>1. KeysTypeOK'
  <2>1. keyFaults' \in 0..MaxKeyFaults
    BY KeyRotationAssumption DEF KeysInv, KeysCore, KeysTypeOK
  <2>2. rot' = [rot EXCEPT !.at = "prepare", !.stale = shown, !.todo = apps, !.updated = {}]
    OBVIOUS
  <2> QED BY <2>1, <2>2 DEF KeysInv, KeysCore, KeysTypeOK
<1>2. KeysInUse' /\ Signing' = Signing /\ CutOvers' = CutOvers /\ Actives' = Actives
  BY SameProviders
<1>3. RotationAgrees'
  BY <1>2 DEF KeysInv, KeysCore, KeysTypeOK, RotationAgrees
<1>4. PreparedTrustsNew' /\ SigningKeyIsTrusted'
  BY <1>2 DEF KeysInv, KeysCore, KeysTypeOK, PreparedTrustsNew, SigningKeyIsTrusted, CoveredApps
<1> QED BY <1>1, <1>2, <1>3, <1>4 DEF KeysInv, KeysCore

(* The standby key is removed, or may have been, and the rotation is over. *)
LEMMA StandbyRemoved ==
  ASSUME KeysInv, NEW f \in Answer, rot.at \in {"certify", "undo"},
         SetPriority(rot.new, Absent, f), rot' = NotRotating, keyFaults' \in 0..MaxKeyFaults,
         UNCHANGED <<lastKey, apps, trusted, exposed>>
  PROVE  KeysCore'
<1> USE DEF SetPriority
<1>1. /\ rot.current \in Actives /\ CutOvers = {}
      /\ rot.new \in Key /\ priority[rot.new] = StandbyPriority
  BY DEF KeysInv, KeysCore, RotationAgrees
<1>2. KeysTypeOK'
  BY <1>1, KeyRotationAssumption DEF KeysInv, KeysCore, KeysTypeOK, NotRotating
<1>3. /\ \A k \in Key : k # rot.new => priority'[k] = priority[k]
      /\ priority'[rot.new] \in {Absent, StandbyPriority}
  BY <1>1 DEF KeysInv, KeysCore, KeysTypeOK
<1>4. \A k \in Key : k > lastKey' => priority'[k] = Absent
  BY <1>1 DEF KeysInv, KeysCore, KeysTypeOK, KeysInUse
<1>5. KeysInUse' /\ Signing' = Signing /\ CutOvers' = {} /\ Actives' = Actives
  BY <1>1, <1>2, <1>3, <1>4, StandbyIsNotSigning
<1>6. RotationAgrees' /\ PreparedTrustsNew' /\ SigningKeyIsTrusted'
  BY <1>5 DEF KeysInv, KeysCore, RotationAgrees, PreparedTrustsNew, SigningKeyIsTrusted, CoveredApps, NotRotating
<1> QED BY <1>2, <1>5, <1>6 DEF KeysInv, KeysCore

\* An application without a certificate fails the rotation, which keeps the invariant.
LEMMA NoCertificateStep == ASSUME KeysInv, NEW f \in Answer, NoCertificate(f) PROVE KeysCore'
<1>1. keyFaults' \in 0..MaxKeyFaults
  BY KeyRotationAssumption DEF NoCertificate, KeysInv, KeysCore, KeysTypeOK
<1> QED BY <1>1, StandbyRemoved DEF NoCertificate

\* Withdrawing the new key keeps the invariant.
LEMMA WithdrawStep == ASSUME KeysInv, NEW f \in Answer, Withdraw(f) PROVE KeysCore'
  BY StandbyRemoved, CallsAreTyped DEF Withdraw, KeysInv, KeysCore

(* An application is prepared, or may have been: it trusts both keys, or does
   not count as long as the current one signs. *)
LEMMA PrepareStep == ASSUME KeysInv, NEW f \in Answer, NEW a \in App, Prepare(a, f) PROVE KeysCore'
<1> USE DEF Prepare, SetTrusted, OverlapKeys
<1>1. /\ rot.current \in Actives /\ CutOvers = {} /\ rot.new \in Key /\ rot.current \in Key
      /\ Signing = Actives
  BY SigningIsHighest DEF KeysInv, KeysCore, RotationAgrees, Actives
<1>2. KeysTypeOK'
  BY <1>1, CallsAreTyped DEF KeysInv, KeysCore, KeysTypeOK
<1>3. KeysInUse' /\ Signing' = Signing /\ CutOvers' = CutOvers /\ Actives' = Actives
  BY SameProviders
<1>4. RotationAgrees'
  BY <1>3 DEF KeysInv, KeysCore, KeysTypeOK, RotationAgrees
<1>5. PreparedTrustsNew'
  BY <1>1 DEF KeysInv, KeysCore, KeysTypeOK, PreparedTrustsNew, CoveredApps, Lands
<1>6. SigningKeyIsTrusted'
  BY <1>1, <1>3 DEF KeysInv, KeysCore, KeysTypeOK, SigningKeyIsTrusted, CoveredApps
<1> QED BY <1>2, <1>3, <1>4, <1>5, <1>6 DEF KeysInv, KeysCore

(* A preparation is undone, or may have been: the current key is trusted, or
   the application does not count. *)
LEMMA UndoStep == ASSUME KeysInv, NEW f \in Answer, NEW a \in App, Undo(a, f) PROVE KeysCore'
<1> USE DEF Undo, SetTrusted
<1>1. rot.current \in Actives /\ CutOvers = {} /\ rot.current \in Key /\ Signing = Actives
  BY SigningIsHighest DEF KeysInv, KeysCore, RotationAgrees, Actives
<1>2. KeysTypeOK'
  BY <1>1, CallsAreTyped DEF KeysInv, KeysCore, KeysTypeOK
<1>3. KeysInUse' /\ Signing' = Signing /\ CutOvers' = CutOvers /\ Actives' = Actives
  BY SameProviders
<1>4. RotationAgrees' /\ PreparedTrustsNew'
  BY <1>3 DEF KeysInv, KeysCore, KeysTypeOK, RotationAgrees, PreparedTrustsNew
<1>5. SigningKeyIsTrusted'
  BY <1>1, <1>3 DEF KeysInv, KeysCore, KeysTypeOK, BareIsExposed, SigningKeyIsTrusted, CoveredApps
<1> QED BY <1>2, <1>3, <1>4, <1>5 DEF KeysInv, KeysCore

(* The new key signs: every listed application has been prepared for it. *)
LEMMA CutOverStep == ASSUME KeysInv, NEW f \in Answer, CutOver(f) PROVE KeysCore'
<1> USE DEF CutOver, SetPriority
<1>1. /\ rot.current \in Actives /\ CutOvers = {} /\ rot.new \in Key /\ rot.current \in Key
      /\ priority[rot.new] = StandbyPriority
      /\ \A a \in CoveredApps \cup rot.updated : rot.new \in trusted[a]
  BY DEF KeysInv, KeysCore, RotationAgrees, Actives, PreparedTrustsNew, EveryAppIsReady
<1>2. rot.current # rot.new
  BY <1>1 DEF Actives, StandbyPriority, ActivePriority
<1>3. KeysTypeOK'
  <2>1. keyFaults' \in 0..MaxKeyFaults
    BY CallsAreTyped DEF KeysInv, KeysCore
  <2>2. CASE f = "ok"
    BY <1>1, <2>1, <2>2 DEF KeysInv, KeysCore, KeysTypeOK
  <2>3. CASE f # "ok"
    BY <1>1, <2>1, <2>3, KeyRotationAssumption DEF KeysInv, KeysCore, KeysTypeOK, NotRotating
  <2> QED BY <2>2, <2>3
<1>4. CASE ~Lands(f)
  <2>1. priority' = priority /\ rot' = NotRotating
    BY <1>4 DEF Lands
  <2>2. KeysInUse' /\ Signing' = Signing
    BY <2>1, SameProviders
  <2>3. RotationAgrees' /\ PreparedTrustsNew'
    <3> HIDE DEF CutOver
    <3>1. rot'.at = "idle"
      BY <2>1 DEF NotRotating
    <3> QED BY <3>1 DEF RotationAgrees, PreparedTrustsNew
  <2>4. SigningKeyIsTrusted'
    BY <1>4, <2>2 DEF KeysInv, KeysCore, SigningKeyIsTrusted, CoveredApps
  <2> QED BY <1>3, <2>2, <2>3, <2>4 DEF KeysInv, KeysCore
<1>5. CASE Lands(f)
  <2>1. CutOvers' = {rot.new}
    BY <1>1, <1>5 DEF KeysInv, KeysCore, KeysTypeOK, CutOvers
  <2>2. KeysInUse'
    BY <1>1, <1>5, <2>1 DEF KeysInv, KeysCore, KeysTypeOK, KeysInUse, Absent, StandbyPriority
  <2>3. Signing' = {rot.new}
    BY <1>3, <2>1, <2>2, SigningIsHighestNext
  <2>4. RotationAgrees' /\ PreparedTrustsNew'
    BY <1>1, <1>2, <2>1 DEF KeysInv, KeysCore, KeysTypeOK, RotationAgrees, PreparedTrustsNew, NotRotating
  <2>5. SigningKeyIsTrusted'
    BY <1>1, <1>5, <2>3 DEF SigningKeyIsTrusted, CoveredApps
  <2> QED BY <1>3, <2>2, <2>4, <2>5 DEF KeysInv, KeysCore
<1> QED BY <1>4, <1>5

(* An application trusts the new key alone, or may: it is the one in use. *)
LEMMA RetireStep == ASSUME KeysInv, NEW f \in Answer, NEW a \in App, Retire(a, f) PROVE KeysCore'
<1> USE DEF Retire, SetTrusted
<1>1. rot.new \in CutOvers /\ rot.new \in Key /\ Signing = {rot.new}
  BY SigningIsHighest DEF KeysInv, KeysCore, RotationAgrees, CutOvers, KeysInUse
<1>2. KeysTypeOK'
  BY <1>1, CallsAreTyped DEF KeysInv, KeysCore, KeysTypeOK
<1>3. KeysInUse' /\ Signing' = Signing /\ CutOvers' = CutOvers /\ Actives' = Actives
  BY SameProviders
<1>4. RotationAgrees' /\ PreparedTrustsNew'
  BY <1>3 DEF KeysInv, KeysCore, KeysTypeOK, RotationAgrees, PreparedTrustsNew
<1>5. SigningKeyIsTrusted'
  BY <1>1, <1>3 DEF KeysInv, KeysCore, KeysTypeOK, SigningKeyIsTrusted, CoveredApps
<1> QED BY <1>2, <1>3, <1>4, <1>5 DEF KeysInv, KeysCore

(* The key that was replaced is removed, or may have been. *)
LEMMA RemoveOldStep == ASSUME KeysInv, NEW f \in Answer, RemoveOld(f) PROVE KeysCore'
<1> USE DEF RemoveOld, SetPriority
<1>1. /\ rot.new \in CutOvers /\ rot.new \in Key /\ Signing = {rot.new}
      /\ rot.current \in Key /\ rot.current # rot.new
  BY SigningIsHighest DEF KeysInv, KeysCore, RotationAgrees, CutOvers, KeysInUse
<1>2. KeysTypeOK'
  <2>1. /\ keyFaults' \in 0..MaxKeyFaults
        /\ priority' \in [Key -> {Absent, StandbyPriority, ActivePriority, CutoverPriority}]
    BY <1>1, CallsAreTyped DEF KeysInv, KeysCore, KeysTypeOK
  <2> QED BY <2>1, RotationIsTyped DEF KeysInv, KeysCore, KeysTypeOK
<1>3. CutOvers' = {rot.new}
  BY <1>1 DEF KeysInv, KeysCore, KeysTypeOK, KeysInUse, CutOvers, Absent, CutoverPriority
<1>4. KeysInUse'
  BY <1>1, <1>3 DEF KeysInv, KeysCore, KeysTypeOK, KeysInUse
<1>5. Signing' = Signing
  BY <1>1, <1>2, <1>3, <1>4, SigningIsHighestNext
<1>6. RotationAgrees' /\ PreparedTrustsNew'
  BY <1>3 DEF KeysInv, KeysCore, KeysTypeOK, RotationAgrees, PreparedTrustsNew, OrThrows, GoesTo, NotRotating
<1>7. SigningKeyIsTrusted'
  BY <1>5 DEF KeysInv, KeysCore, SigningKeyIsTrusted, CoveredApps
<1> QED BY <1>2, <1>4, <1>6, <1>7 DEF KeysInv, KeysCore

(* The new key gets the usual priority, which others may have as well. *)
LEMMA RenameStep == ASSUME KeysInv, NEW f \in Answer, Rename(f) PROVE KeysCore'
<1> USE DEF Rename, SetPriority
<1>1. rot.new \in Key /\ CutOvers = {rot.new} /\ Signing = {rot.new}
  BY SigningIsHighest DEF KeysInv, KeysCore, RotationAgrees, CutOvers, KeysInUse
<1>2. KeysTypeOK'
  BY <1>1, CallsAreTyped, KeyRotationAssumption DEF KeysInv, KeysCore, KeysTypeOK, NotRotating
<1>3. RotationAgrees' /\ PreparedTrustsNew'
  BY DEF RotationAgrees, PreparedTrustsNew, NotRotating
<1>4. CASE ~Lands(f)
  <2>1. KeysInUse' /\ Signing' = Signing
    BY <1>4, SameProviders
  <2> QED BY <1>2, <1>3, <2>1 DEF KeysInv, KeysCore, SigningKeyIsTrusted, CoveredApps
<1>5. CASE Lands(f)
  <2>1. CutOvers' = {} /\ rot.new \in Actives'
    BY <1>1, <1>5 DEF KeysInv, KeysCore, KeysTypeOK, CutOvers, Actives, ActivePriority, CutoverPriority
  <2>2. KeysInUse'
    BY <1>1, <1>5, <2>1 DEF KeysInv, KeysCore, KeysTypeOK, KeysInUse, CutOvers, Absent, CutoverPriority
  <2>3. rot.new \in Signing'
    BY <1>2, <2>1, <2>2, SigningIsHighestNext
  <2>4. SigningKeyIsTrusted'
    BY <1>1, <2>3 DEF KeysInv, KeysCore, SigningKeyIsTrusted, CoveredApps
  <2> QED BY <1>2, <1>3, <2>2, <2>4 DEF KeysInv, KeysCore
<1> QED BY <1>4, <1>5

(* The process dies between two calls. *)
LEMMA RotationDiesStep == KeysInv /\ RotationDies => KeysCore'
<1> SUFFICES ASSUME KeysInv, RotationDies PROVE KeysCore'
  OBVIOUS
<1> USE DEF RotationDies
<1>1. KeysTypeOK'
  BY KeyRotationAssumption DEF KeysInv, KeysCore, KeysTypeOK, NotRotating
<1>2. KeysInUse' /\ Signing' = Signing
  BY SameProviders
<1> QED BY <1>1, <1>2 DEF KeysInv, KeysCore, RotationAgrees, PreparedTrustsNew, SigningKeyIsTrusted, CoveredApps,
           NotRotating

(* An application is made with the certificate of a provider in use. *)
LEMMA RegisterAppStep == ASSUME KeysInv, NEW a \in App, RegisterApp(a) PROVE KeysCore'
<1> USE DEF RegisterApp
<1>1. PICK k \in Signing : trusted' = [trusted EXCEPT ![a] = {k}]
  OBVIOUS
<1>2. Signing \subseteq Key
  BY DEF Signing, Providers
<1>3. KeysTypeOK'
  BY <1>1, <1>2 DEF KeysInv, KeysCore, KeysTypeOK
<1>4. KeysInUse' /\ Signing' = Signing /\ CutOvers' = CutOvers /\ Actives' = Actives
  BY SameProviders
<1>5. RotationAgrees'
  BY <1>4 DEF KeysInv, KeysCore, RotationAgrees
<1>6. PreparedTrustsNew'
  BY <1>1 DEF KeysInv, KeysCore, KeysTypeOK, BareIsExposed, PreparedTrustsNew, CoveredApps
<1>7. SigningKeyIsTrusted'
  BY <1>1, <1>4 DEF KeysInv, KeysCore, KeysTypeOK, SigningKeyIsTrusted, CoveredApps
<1> QED BY <1>3, <1>4, <1>5, <1>6, <1>7 DEF KeysInv, KeysCore

(* What a rotation prepares exists, and does not count when it was prepared   *)
(* without the current certificate.                                           *)
LEMMA BareStaysExposed == ASSUME KeysInv, KeysNext PROVE BareIsExposed'
<1> USE DEF KeysInv, KeysCore, KeysTypeOK, BareIsExposed
<1>1. CASE StartRotation \/ RotationDies \/ \E shown \in BOOLEAN : Certify(shown)
  <2>1. CASE RotationDies
    BY <2>1 DEF RotationDies, NotRotating
  <2>2. CASE StartRotation
    BY <2>2 DEF StartRotation, NotRotating
  <2>3. ASSUME NEW shown \in BOOLEAN, Certify(shown) PROVE BareIsExposed'
    <3>1. rot' = [rot EXCEPT !.at = "prepare", !.stale = shown, !.todo = apps, !.updated = {}] /\ UNCHANGED apps
      BY <2>3 DEF Certify
    <3>2. rot'.updated = {} /\ rot'.todo = apps
      BY <3>1
    <3> QED BY <3>1, <3>2
  <2> QED BY <1>1, <2>1, <2>2, <2>3
<1>2. ASSUME NEW a \in App, RegisterApp(a) PROVE BareIsExposed'
  BY <1>2 DEF RegisterApp
<1>3. ASSUME NEW f \in Answer, NEW a \in App, Prepare(a, f) PROVE BareIsExposed'
  BY <1>3 DEF Prepare, Lands
<1>4. ASSUME NEW f \in Answer, NEW a \in App, Undo(a, f) PROVE BareIsExposed'
  BY <1>4 DEF Undo
<1>5. ASSUME NEW f \in Answer, NEW a \in App, Retire(a, f) PROVE BareIsExposed'
  BY <1>5 DEF Retire
<1>6. ASSUME NEW f \in Answer, Normalize(f) \/ RemoveOld(f) PROVE BareIsExposed'
  <2>1. \E to \in {"create", "rename"} : OrThrows(f, to) /\ UNCHANGED apps
    BY <1>6 DEF Normalize, RemoveOld
  <2> QED BY <2>1, RotationIsTyped
<1>7. ASSUME NEW f \in Answer, CutOver(f) PROVE BareIsExposed'
  BY <1>7 DEF CutOver, NotRotating
<1>8. ASSUME NEW f \in Answer, CreateStandby(f) PROVE BareIsExposed'
  BY <1>8 DEF CreateStandby, NotRotating
<1>9. ASSUME NEW f \in Answer, NoCertificate(f) \/ Withdraw(f) \/ Rename(f) PROVE BareIsExposed'
  BY <1>9 DEF NoCertificate, Withdraw, Rename, NotRotating
<1> QED BY <1>1, <1>2, <1>3, <1>4, <1>5, <1>6, <1>7, <1>8, <1>9 DEF KeysNext

(* KeysInv is inductive. *)
THEOREM KeysInvariant == KeysSpec => []KeysInv
<1>1. KeysInv /\ [KeysNext]_keyVars => KeysInv'
  <2> SUFFICES ASSUME KeysInv, [KeysNext]_keyVars PROVE KeysInv'
    OBVIOUS
  <2>1. CASE \/ StartRotation \/ RotationDies \/ \E shown \in BOOLEAN : Certify(shown)
             \/ \E a \in App : RegisterApp(a)
    <3>1. KeysCore'
      BY <2>1, StartRotationStep, CertifyStep, RotationDiesStep, RegisterAppStep
    <3> QED BY <2>1, <3>1, BareStaysExposed DEF KeysNext, KeysInv
  <2>2. ASSUME NEW f \in Answer,
               \/ Normalize(f) \/ CreateStandby(f) \/ NoCertificate(f) \/ Withdraw(f)
               \/ CutOver(f) \/ RemoveOld(f) \/ Rename(f)
        PROVE  KeysInv'
    <3>1. KeysCore'
      BY <2>2, NormalizeStep, CreateStandbyStep, NoCertificateStep, WithdrawStep, CutOverStep,
         RemoveOldStep, RenameStep
    <3> QED BY <2>2, <3>1, BareStaysExposed DEF KeysNext, KeysInv
  <2>3. ASSUME NEW f \in Answer, NEW a \in App, Prepare(a, f) \/ Undo(a, f) \/ Retire(a, f)
        PROVE  KeysInv'
    <3>1. KeysCore'
      BY <2>3, PrepareStep, UndoStep, RetireStep
    <3> QED BY <2>3, <3>1, BareStaysExposed DEF KeysNext, KeysInv
  <2>4. CASE UNCHANGED keyVars
    BY <2>4 DEF keyVars, KeysInv, KeysCore, KeysTypeOK, KeysInUse, RotationAgrees, PreparedTrustsNew,
                SigningKeyIsTrusted, CutOvers, Actives, Signing, Providers, CoveredApps, BareIsExposed
  <2> QED BY <2>1, <2>2, <2>3, <2>4 DEF KeysNext
<1> QED BY KeysInitInv, <1>1, PTL DEF KeysSpec

(* Whatever call is refused or lost, and wherever the process dies, in this
   rotation or an earlier one, every application trusts the key that signs,
   unless it was made after the rotation listed them or prepared without the
   certificate of that key: for any number of applications, rotations, faults. *)
THEOREM SigningKeyAlwaysTrusted == KeysSpec => []SigningKeyIsTrusted
<1>1. KeysInv => SigningKeyIsTrusted
  BY DEF KeysInv, KeysCore
<1> QED BY <1>1, KeysInvariant, PTL

-----------------------------------------------------------------------------
(* The shared access token *)

TokensSpec == TokensInit /\ [][TokensNext]_tokenVars

TokenCalls ==
  [at : {"idle", "asking", "waiting", "sent", "answered", "ok", "denied", "failed"},
   post : BOOLEAN, token : 0..MaxTokens, tries : 0..(MaxRetries + 1), refreshed : BOOLEAN,
   answer : {"none", "done", "401", "lost", "unprocessed"},
   processed : 0..(MaxRetries + 2), began : 0..MaxTokens]

InHand(q) == q.at \in {"sent", "answered"}
Sought(q) == q.at \in {"asking", "waiting"}
Retries(q) == IF q.refreshed THEN q.tries - 1 ELSE q.tries

\* How often a call may have been processed: a POST only by the attempt that
\* it has an answer to, and what else is repeated once for each retry.
ProcessedInBounds(q) ==
  /\ Retries(q) \in 0..MaxRetries
  /\ q.processed <= Retries(q) + 1
  /\ Sought(q) \/ q.at = "sent" \/ (q.at = "answered" /\ q.answer = "401") => q.processed <= Retries(q)
  /\ q.post /\ (Sought(q) \/ q.at = "sent") => q.processed = 0
  /\ q.post /\ q.at = "answered" /\ q.answer \in {"401", "unprocessed"} => q.processed = 0
  /\ q.post => q.processed <= 1

\* The chat proxy's tokens are new each time, so what is cached or under way is
\* the last one issued.
LatestInUse ==
  clientKind = "rag" =>
    /\ cached # NoToken => cached = issued /\ fetching = NoFetch
    /\ fetching > 0 => /\ fetching = issued
                       /\ \A c \in TokenCaller : InHand(tokenCall[c]) => tokenCall[c].token < fetching

\* A call's first token is not older than the revocation before it began, and
\* the one it is retried with is newer, wherever that one is found.
TokensAreFresh(q) ==
  /\ q.began <= revoked
  /\ InHand(q) => q.token <= issued
  /\ q.at = "answered" /\ q.answer = "401" => q.token <= revoked
  /\ clientKind = "rag" =>
       /\ InHand(q) => q.token >= q.began /\ (q.refreshed => q.token > q.began)
       /\ Sought(q) /\ q.refreshed => (cached # NoToken => cached > q.began) /\ (fetching > 0 => fetching > q.began)
       /\ q.at = "denied" => q.began < revoked

TokensInv ==
  /\ TokensTypeOK /\ LatestInUse
  /\ \A c \in TokenCaller : ProcessedInBounds(tokenCall[c]) /\ TokensAreFresh(tokenCall[c])

(* The tokens are numbers, none later than the last one issued. *)
LEMMA TokenNumbers ==
  ASSUME TokensTypeOK
  PROVE  /\ issued \in Nat /\ revoked \in Nat /\ cached \in Nat /\ fetching \in Int
         /\ revoked <= issued /\ cached <= issued /\ fetching <= issued /\ issued <= MaxTokens
         /\ tokenCall \in [TokenCaller -> TokenCalls]
         /\ MaxTokens \in Nat /\ MaxRetries \in Nat /\ MaxTokenFaults \in Nat
  BY TokenAssumption DEF TokensTypeOK, TokenCalls, NoFetch

\* No token is cached at the start.
LEMMA TokensInitInv == TokensInit => TokensInv
<1> SUFFICES ASSUME TokensInit PROVE TokensInv
  OBVIOUS
<1>1. TokensTypeOK
  BY TokenAssumption DEF TokensInit, TokensTypeOK, NoCall, NoToken, NoFetch
<1>2. LatestInUse
  BY DEF TokensInit, LatestInUse, NoToken, NoFetch
<1>3. ASSUME NEW c \in TokenCaller PROVE ProcessedInBounds(tokenCall[c]) /\ TokensAreFresh(tokenCall[c])
  BY TokenAssumption DEF TokensInit, NoCall, NoToken, ProcessedInBounds, TokensAreFresh, InHand, Sought, Retries
<1> QED BY <1>1, <1>2, <1>3 DEF TokensInv

(* A call begins: it remembers the revocations so far. *)
LEMMA BeginTokenCallStep ==
  ASSUME TokensInv, NEW c \in TokenCaller, NEW post \in BOOLEAN, BeginCall(c, post)
  PROVE  TokensInv'
<1> USE TokenNumbers DEF BeginCall
<1>1. tokenCall'[c] = [NoCall EXCEPT !.at = "asking", !.post = post, !.began = revoked]
  BY DEF TokensInv
<1>2. tokenCall'[c] \in TokenCalls
  <2>1. tokenCall'[c] = [at |-> "asking", post |-> post, token |-> 0, tries |-> 0, refreshed |-> FALSE,
                         answer |-> "none", processed |-> 0, began |-> revoked]
    BY ONLY <1>1 DEF NoCall, NoToken
  <2>2. revoked \in 0..MaxTokens /\ 0 \in 0..MaxTokens /\ 0 \in 0..(MaxRetries + 1)
       /\ 0 \in 0..(MaxRetries + 2)
    BY DEF TokensInv
  <2>3. post \in BOOLEAN
    OBVIOUS
  <2> QED BY ONLY <2>1, <2>2, <2>3 DEF TokenCalls
<1>3. TokensTypeOK'
  BY <1>2 DEF TokensInv, TokensTypeOK, TokenCalls
<1>4. \A d \in TokenCaller : d # c => tokenCall'[d] = tokenCall[d]
  BY DEF TokensInv
<1>5. LatestInUse'
  BY <1>1, <1>4 DEF TokensInv, LatestInUse, InHand, NoCall
<1>6. ASSUME NEW d \in TokenCaller
      PROVE  ProcessedInBounds(tokenCall[d])' /\ TokensAreFresh(tokenCall[d])'
  <2>1. CASE d = c
    BY <1>1, <2>1 DEF TokensInv, NoCall, ProcessedInBounds, TokensAreFresh, InHand, Sought, Retries
  <2>2. CASE d # c
    BY <1>4, <2>2 DEF TokensInv, ProcessedInBounds, TokensAreFresh
  <2> QED BY <2>1, <2>2
<1> QED BY <1>3, <1>5, <1>6 DEF TokensInv

(* A call takes the cached token, which is the last one issued, or waits. *)
LEMMA AskTokenStep == ASSUME TokensInv, NEW c \in TokenCaller, AskToken(c) PROVE TokensInv'
<1> USE TokenNumbers DEF AskToken
<1>1. tokenCall[c] \in TokenCalls
  BY DEF TokensInv
<1>2. \A d \in TokenCaller : d # c => tokenCall'[d] = tokenCall[d]
  BY DEF TokensInv
<1>3. CASE cached # NoToken
  <2>1. tokenCall'[c] = [tokenCall[c] EXCEPT !.at = "sent", !.token = cached]
    BY <1>3 DEF TokensInv
  <2>2. TokensTypeOK'
    <3>1. cached \in 0..MaxTokens
      BY DEF TokensInv
    <3>2. tokenCall'[c] \in TokenCalls
      BY <1>1, <2>1, <3>1 DEF TokenCalls
    <3> QED BY <1>3, <3>2 DEF TokensInv, TokensTypeOK, TokenCalls
  <2>3. LatestInUse'
    BY <1>1, <1>2, <1>3, <2>1 DEF TokensInv, LatestInUse, TokenCalls, NoFetch
  <2>4. ProcessedInBounds(tokenCall[c])'
    BY <1>1, <2>1 DEF TokensInv, ProcessedInBounds, Sought, Retries, TokenCalls
  <2>5. TokensAreFresh(tokenCall[c])'
    BY <1>1, <1>3, <2>1 DEF TokensInv, TokensAreFresh, LatestInUse, InHand, Sought, TokenCalls
  <2>6. ASSUME NEW d \in TokenCaller, d # c
        PROVE  ProcessedInBounds(tokenCall[d])' /\ TokensAreFresh(tokenCall[d])'
    BY <1>2, <1>3, <2>6 DEF TokensInv, ProcessedInBounds, TokensAreFresh
  <2> QED BY <2>2, <2>3, <2>4, <2>5, <2>6 DEF TokensInv
<1>4. CASE cached = NoToken
  <2>1. tokenCall'[c] = [tokenCall[c] EXCEPT !.at = "waiting"]
    BY <1>4 DEF TokensInv
  <2>2. fetching' = fetching \/ (fetching' = 0 /\ fetching = NoFetch)
    BY <1>4 DEF NoToken
  <2>3. TokensTypeOK'
    BY <1>1, <1>4, <2>1, <2>2 DEF TokensInv, TokensTypeOK, TokenCalls, NoFetch
  <2>4. LatestInUse'
    BY <1>1, <1>2, <1>4, <2>1, <2>2 DEF TokensInv, LatestInUse, TokenCalls, InHand
  <2>5. ProcessedInBounds(tokenCall[c])'
    BY <1>1, <2>1 DEF TokensInv, ProcessedInBounds, Sought, Retries, TokenCalls
  <2>6. TokensAreFresh(tokenCall[c])'
    BY <1>1, <1>4, <2>1, <2>2 DEF TokensInv, TokensAreFresh, InHand, Sought, TokenCalls
  <2>7. ASSUME NEW d \in TokenCaller, d # c
        PROVE  ProcessedInBounds(tokenCall[d])' /\ TokensAreFresh(tokenCall[d])'
    BY <1>2, <1>4, <2>2, <2>7 DEF TokensInv, ProcessedInBounds, TokensAreFresh
  <2> QED BY <2>3, <2>4, <2>5, <2>6, <2>7 DEF TokensInv
<1> QED BY <1>3, <1>4

(* The shared fetch gets a token: for the chat proxy, newer than all others. *)
LEMMA IssueTokenStep == TokensInv /\ IssueToken => TokensInv'
<1> SUFFICES ASSUME TokensInv, IssueToken PROVE TokensInv'
  OBVIOUS
<1> USE TokenNumbers DEF IssueToken, NoToken, NoFetch
<1>1. /\ issued' \in Nat /\ issued <= issued' /\ issued' <= MaxTokens /\ fetching' = issued' /\ fetching = 0
      /\ issued' > 0 /\ (clientKind = "rag" => issued' = issued + 1)
  BY DEF TokensInv, TokensTypeOK
<1>2. TokensTypeOK'
  BY <1>1 DEF TokensInv, TokensTypeOK
<1>3. LatestInUse'
  BY <1>1 DEF TokensInv, LatestInUse, TokensAreFresh, TokenCalls
<1>4. ASSUME NEW c \in TokenCaller
      PROVE  ProcessedInBounds(tokenCall[c])' /\ TokensAreFresh(tokenCall[c])'
  <2>1. tokenCall[c] \in TokenCalls
    BY DEF TokensInv
  <2> QED BY <1>1, <2>1 DEF TokensInv, ProcessedInBounds, TokensAreFresh, TokenCalls
<1> QED BY <1>2, <1>3, <1>4 DEF TokensInv

(* The fetch settles: whoever waits goes on with its token. *)
LEMMA LandTokenStep == TokensInv /\ LandToken => TokensInv'
<1> SUFFICES ASSUME TokensInv, LandToken PROVE TokensInv'
  OBVIOUS
<1>1. /\ fetching > 0 /\ fetching \in 0..issued /\ fetching \in 0..MaxTokens
      /\ cached' = fetching /\ fetching' = NoFetch
      /\ UNCHANGED <<clientKind, issued, revoked, tokenFaults>>
  <2>1. fetching \in Int /\ issued \in Int /\ MaxTokens \in Int /\ -1 <= fetching /\ fetching <= issued /\ issued <= MaxTokens
    BY TokenNumbers DEF TokensInv, TokensTypeOK, NoFetch
  <2>2. fetching # -1 /\ fetching # 0
    BY DEF LandToken, NoToken, NoFetch
  <2>3. UNCHANGED <<clientKind, issued, revoked, tokenFaults>> /\ cached' = fetching
    BY DEF LandToken
  <2>4. fetching' = NoFetch
    BY DEF LandToken, Cleared
  <2> QED BY <2>1, <2>2, <2>3, <2>4
<1>2. ASSUME NEW c \in TokenCaller
      PROVE  /\ tokenCall[c] \in TokenCalls
             /\ tokenCall'[c] = IF tokenCall[c].at = "waiting"
                                THEN [tokenCall[c] EXCEPT !.at = "sent", !.token = fetching] ELSE tokenCall[c]
             /\ tokenCall'[c] \in TokenCalls
  BY <1>1, TokenNumbers DEF LandToken, TokensInv, TokenCalls
<1>3. TokensTypeOK'
  <2>1. tokenCall' \in [TokenCaller -> TokenCalls]
    <3>1. tokenCall' = [c \in TokenCaller |-> tokenCall'[c]]
      BY DEF LandToken
    <3> QED BY <1>2, <3>1
  <2> QED BY <1>1, <2>1, TokenNumbers DEF NoFetch, TokensInv, TokensTypeOK, TokenCalls
<1>4. LatestInUse'
  BY <1>1, TokenNumbers DEF TokensInv, LatestInUse, NoFetch
<1>5. ASSUME NEW c \in TokenCaller
      PROVE  ProcessedInBounds(tokenCall[c])' /\ TokensAreFresh(tokenCall[c])'
  <2> DEFINE q == tokenCall[c]
             r == tokenCall'[c]
  <2>1. /\ r.post = q.post /\ r.tries = q.tries /\ r.refreshed = q.refreshed
        /\ r.processed = q.processed /\ r.answer = q.answer /\ r.began = q.began
    BY <1>2 DEF TokenCalls
  <2>2. \/ q.at = "waiting" /\ r.at = "sent" /\ r.token = fetching
        \/ q.at # "waiting" /\ r.at = q.at /\ r.token = q.token
    BY <1>2 DEF TokenCalls
  <2>3. ProcessedInBounds(q) /\ TokensAreFresh(q)
    BY DEF TokensInv
  <2>4. ProcessedInBounds(r)
    BY <2>1, <2>2, <2>3 DEF ProcessedInBounds, Sought, Retries
  <2>5. clientKind = "rag" => fetching = issued
    BY <1>1 DEF TokensInv, LatestInUse
  <2>6. q.token \in Nat /\ q.began \in Nat /\ issued \in Nat /\ revoked \in Nat /\ fetching \in Nat
        /\ fetching <= issued /\ revoked <= issued
    <3>1. q \in TokenCalls
      BY <1>2
    <3>2. q.token \in Nat /\ q.began \in Nat
      BY <3>1, TokenAssumption DEF TokenCalls
    <3> QED BY <1>1, <3>2, TokenNumbers DEF TokensInv
  <2>7. TokensAreFresh(q)'
    BY <1>1, <2>1, <2>2, <2>3, <2>5, <2>6 DEF TokensAreFresh, InHand, Sought, NoFetch
  <2> QED BY <2>4, <2>7 DEF ProcessedInBounds
<1> QED BY <1>3, <1>4, <1>5 DEF TokensInv

(* The fetch fails: whoever waits fails with it. *)
LEMMA FetchFailsStep == TokensInv /\ FetchFails => TokensInv'
<1> SUFFICES ASSUME TokensInv, FetchFails PROVE TokensInv'
  OBVIOUS
<1> USE TokenNumbers DEF FetchFails, TokenFault
<1>1. ASSUME NEW c \in TokenCaller
      PROVE  /\ tokenCall[c] \in TokenCalls
             /\ tokenCall'[c] = IF tokenCall[c].at = "waiting"
                                THEN [tokenCall[c] EXCEPT !.at = "failed"] ELSE tokenCall[c]
             /\ tokenCall'[c] \in TokenCalls
  BY DEF TokensInv, TokenCalls
<1>2. TokensTypeOK'
  <2>1. tokenCall' \in [TokenCaller -> TokenCalls]
    BY <1>1
  <2> QED BY <2>1 DEF TokensInv, TokensTypeOK, TokenCalls, NoFetch
<1>3. LatestInUse'
  BY DEF TokensInv, LatestInUse, NoFetch
<1>4. ASSUME NEW c \in TokenCaller
      PROVE  ProcessedInBounds(tokenCall[c])' /\ TokensAreFresh(tokenCall[c])'
  <2>1. ProcessedInBounds(tokenCall[c])'
    BY <1>1 DEF TokensInv, ProcessedInBounds, Sought, Retries, TokenCalls
  <2>2. TokensAreFresh(tokenCall[c])'
    BY <1>1 DEF TokensInv, TokensAreFresh, InHand, Sought, TokenCalls, NoFetch
  <2> QED BY <2>1, <2>2
<1> QED BY <1>2, <1>3, <1>4 DEF TokensInv

(* The cached token expires, or every token is revoked. *)
LEMMA TokensLapseStep == TokensInv /\ (TokenExpires \/ RevokeTokens) => TokensInv'
<1> SUFFICES ASSUME TokensInv, TokenExpires \/ RevokeTokens PROVE TokensInv'
  OBVIOUS
<1> USE TokenNumbers DEF TokenExpires, RevokeTokens
<1>1. tokenCall' = tokenCall /\ fetching' = fetching /\ issued' = issued /\ clientKind' = clientKind
      /\ cached' \in {cached, NoToken} /\ revoked' >= revoked
  BY DEF TokensInv
<1>2. TokensTypeOK'
  BY DEF TokensInv, TokensTypeOK, NoToken
<1>3. LatestInUse'
  BY <1>1 DEF TokensInv, LatestInUse
<1>4. ASSUME NEW c \in TokenCaller
      PROVE  ProcessedInBounds(tokenCall[c])' /\ TokensAreFresh(tokenCall[c])'
  <2>1. tokenCall[c] \in TokenCalls /\ revoked' \in Nat
    BY DEF TokensInv
  <2>2. ProcessedInBounds(tokenCall[c])'
    BY <1>1 DEF TokensInv, ProcessedInBounds
  <2>3. TokensAreFresh(tokenCall[c])'
    BY <1>1, <2>1 DEF TokensInv, TokensAreFresh, TokenCalls
  <2> QED BY <2>2, <2>3
<1> QED BY <1>2, <1>3, <1>4 DEF TokensInv

(* While one call moves and no token does, the others are as they were. *)
LEMMA CallMoves ==
  ASSUME TokensInv, NEW c \in TokenCaller, tokenCall'[c] \in TokenCalls,
         tokenCall' = [tokenCall EXCEPT ![c] = tokenCall'[c]],
         UNCHANGED <<clientKind, issued, revoked, fetching>>,
         cached' = cached \/ cached' = NoToken, tokenFaults' \in 0..MaxTokenFaults,
         InHand(tokenCall'[c]) => InHand(tokenCall[c]) /\ tokenCall'[c].token = tokenCall[c].token,
         ProcessedInBounds(tokenCall'[c]), TokensAreFresh(tokenCall[c])'
  PROVE  TokensInv'
<1>1. tokenCall \in [TokenCaller -> TokenCalls]
  BY TokenNumbers DEF TokensInv
<1>2. \A d \in TokenCaller : d # c => tokenCall'[d] = tokenCall[d]
  BY <1>1
<1>3. TokensTypeOK'
  <2>1. tokenCall' \in [TokenCaller -> TokenCalls]
    BY <1>1
  <2>2. cached' \in 0..issued
    BY TokenNumbers DEF TokensInv, NoToken
  <2> QED BY <2>1, <2>2 DEF TokensInv, TokensTypeOK, TokenCalls
<1>4. LatestInUse'
  BY <1>2 DEF TokensInv, LatestInUse, InHand
<1>5. ASSUME NEW d \in TokenCaller
      PROVE  ProcessedInBounds(tokenCall[d])' /\ TokensAreFresh(tokenCall[d])'
  <2>1. CASE d = c
    BY <2>1 DEF ProcessedInBounds
  <2>2. CASE d # c
    BY <1>2, <2>2 DEF TokensInv, ProcessedInBounds, TokensAreFresh
  <2> QED BY <2>1, <2>2
<1> QED BY <1>3, <1>4, <1>5 DEF TokensInv

(* The other side answers: what it may have done, it did for this attempt. *)
LEMMA RespondStep ==
  ASSUME TokensInv, NEW c \in TokenCaller,
         NEW answer \in {"done", "401", "lost", "unprocessed"}, Respond(c, answer)
  PROVE  TokensInv'
<1> DEFINE q == tokenCall[c]
           r == tokenCall'[c]
<1>1. PICK n \in CASE answer = "done" -> {1} [] answer = "lost" -> {0, 1} [] OTHER -> {0} :
        tokenCall' = [tokenCall EXCEPT ![c].at = "answered", ![c].answer = answer, ![c].processed = @ + n]
  BY DEF Respond
<1>2. n \in {0, 1} /\ (answer \in {"401", "unprocessed"} => n = 0)
  OBVIOUS
<1>3. q \in TokenCalls /\ q.at = "sent" /\ ProcessedInBounds(q) /\ TokensAreFresh(q)
  BY TokenNumbers DEF TokensInv, Respond
<1>4. r = [q EXCEPT !.at = "answered", !.answer = answer, !.processed = q.processed + n]
  BY <1>1, TokenNumbers DEF TokensInv
<1>5. /\ r.at = "answered" /\ r.answer = answer /\ r.processed = q.processed + n /\ r.post = q.post
      /\ r.tries = q.tries /\ r.refreshed = q.refreshed /\ r.token = q.token /\ r.began = q.began
  BY <1>3, <1>4 DEF TokenCalls
<1>6. q.processed \in Nat /\ q.tries \in Nat /\ q.token \in Nat /\ q.began \in Nat /\ MaxRetries \in Nat
  BY <1>3, TokenAssumption DEF TokenCalls
<1>7. ProcessedInBounds(r)
  BY <1>2, <1>3, <1>5, <1>6 DEF ProcessedInBounds, Sought, Retries
<1>8. answer = "401" => q.token <= revoked
  BY DEF Respond
<1>9. UNCHANGED <<clientKind, issued, revoked, fetching, cached>>
  BY DEF Respond
<1>10. TokensAreFresh(tokenCall[c])'
  BY <1>3, <1>5, <1>6, <1>8, <1>9 DEF TokensAreFresh, InHand, Sought
<1>11. r \in TokenCalls
  <2>1. q.processed + n \in 0..(MaxRetries + 2)
    BY <1>2, <1>5, <1>6, <1>7 DEF ProcessedInBounds, Sought, Retries
  <2> QED BY <1>3, <1>4, <2>1 DEF TokenCalls
<1>12. tokenCall' = [tokenCall EXCEPT ![c] = r]
  BY <1>1, <1>4
<1>13. tokenFaults' \in 0..MaxTokenFaults
  BY TokenNumbers DEF TokensInv, TokensTypeOK, Respond, TokenFault
<1> QED BY <1>3, <1>5, <1>7, <1>9, <1>10, <1>11, <1>12, <1>13, CallMoves DEF InHand

(* An answer is taken in: the call ends, or asks for a token again. *)
LEMMA ReceiveStep == ASSUME TokensInv, NEW c \in TokenCaller, Receive(c) PROVE TokensInv'
<1> DEFINE q == tokenCall[c]
           r == tokenCall'[c]
<1>1. q \in TokenCalls /\ q.at = "answered" /\ ProcessedInBounds(q) /\ TokensAreFresh(q)
  BY TokenNumbers DEF TokensInv, Receive
<1>2. q.processed \in Nat /\ q.tries \in Nat /\ q.token \in Nat /\ q.began \in Nat /\ MaxRetries \in Nat
      /\ q.refreshed \in BOOLEAN
  BY <1>1, TokenAssumption DEF TokenCalls
<1>3. UNCHANGED <<clientKind, issued, revoked, fetching>> /\ tokenFaults' \in 0..MaxTokenFaults
  BY DEF TokensInv, TokensTypeOK, Receive
<1>4. cached' = cached \/ cached' = NoToken
  BY DEF Receive, Invalidated
<1>5. tokenCall' = [tokenCall EXCEPT ![c] = r]
  <2>1. \E x : tokenCall' = [tokenCall EXCEPT ![c] = x]
    BY DEF Receive
  <2> QED BY <2>1, TokenNumbers DEF TokensInv
<1>6. ASSUME NEW how \in {"ok", "denied", "failed"}, r = [q EXCEPT !.at = how],
             how = "denied" => q.answer = "401" /\ q.refreshed
      PROVE  TokensInv'
  <2>1. r \in TokenCalls
    BY <1>1, <1>6 DEF TokenCalls
  <2>2. /\ r.at = how /\ r.processed = q.processed /\ r.post = q.post /\ r.tries = q.tries
        /\ r.refreshed = q.refreshed /\ r.began = q.began
    BY <1>1, <1>6 DEF TokenCalls
  <2>3. ProcessedInBounds(r)
    BY <1>1, <1>2, <2>2 DEF ProcessedInBounds, Sought, Retries
  <2>4. TokensAreFresh(tokenCall[c])'
    BY <1>1, <1>2, <1>3, <1>6, <2>2, TokenNumbers DEF TokensAreFresh, InHand, Sought, TokensInv
  <2>5. ~InHand(r)
    BY <2>2 DEF InHand
  <2> QED BY <1>3, <1>4, <1>5, <2>1, <2>3, <2>4, <2>5, CallMoves
<1>7. ASSUME r \in {Retried(q), [Retried(q) EXCEPT !.refreshed = TRUE]},
             \/ q.answer = "401" /\ ~q.refreshed /\ r.refreshed /\ cached' = Invalidated(q.token)
             \/ q.answer \in {"unprocessed", "lost"} /\ q.tries < MaxRetries /\ Repeatable(q)
                /\ r.refreshed = q.refreshed /\ clientKind = "graph"
      PROVE  TokensInv'
  <2>1. /\ r.at = "asking" /\ r.processed = q.processed /\ r.post = q.post /\ r.tries = q.tries + 1
        /\ r.began = q.began /\ r.token = 0 /\ r.answer = "none" /\ r.refreshed \in BOOLEAN
    BY <1>1, <1>7 DEF TokenCalls, Retried, NoToken
  <2>2. /\ Retries(q) \in 0..MaxRetries /\ q.processed <= Retries(q) + 1
        /\ q.answer = "401" => q.processed <= Retries(q)
        /\ q.post /\ q.answer \in {"401", "unprocessed"} => q.processed = 0
    BY <1>1 DEF ProcessedInBounds, Sought
  <2>3. Retries(r) = IF q.answer = "401" THEN Retries(q) ELSE Retries(q) + 1
    BY <1>2, <1>7, <2>1 DEF Retries
  <2>4. Retries(q) < MaxRetries \/ q.answer = "401"
    BY <1>2, <1>7 DEF Retries
  <2>5. q.post => q.processed = 0
    BY <1>7, <2>2 DEF Repeatable
  <2>6. ProcessedInBounds(r)
    BY <1>2, <2>1, <2>2, <2>3, <2>4, <2>5 DEF ProcessedInBounds, Sought
  <2>7. r \in TokenCalls
    <3>1. q.tries + 1 \in 0..(MaxRetries + 1)
      BY <1>2, <1>7, <2>2 DEF Retries
    <3>2. 0 \in 0..MaxTokens
      BY TokenAssumption
    <3>3. Retried(q) = [q EXCEPT !.at = "asking", !.token = 0, !.tries = q.tries + 1, !.answer = "none"]
      BY DEF Retried, NoToken
    <3>4. Retried(q) \in TokenCalls
      BY <1>1, <3>1, <3>2, <3>3 DEF TokenCalls
    <3>5. [Retried(q) EXCEPT !.refreshed = TRUE] \in TokenCalls
      BY <3>4 DEF TokenCalls
    <3> QED BY <1>7, <3>4, <3>5
  <2>8. TokensAreFresh(tokenCall[c])'
    <3>1. q.began <= revoked /\ (clientKind = "rag" => q.token >= q.began)
      BY <1>1 DEF TokensAreFresh, InHand
    <3>2. CASE clientKind # "rag"
      BY <1>3, <2>1, <3>1, <3>2 DEF TokensAreFresh, InHand, Sought
    <3>3. CASE clientKind = "rag"
      <4>1. cached' = IF cached = q.token THEN NoToken ELSE cached
        BY <1>7, <3>3 DEF Invalidated
      <4>2. q.token <= issued
        BY <1>1 DEF TokensAreFresh, InHand
      <4>3. cached' # NoToken => cached' > q.began
        BY <1>2, <3>1, <3>3, <4>1, <4>2, TokenNumbers DEF TokensInv, LatestInUse
      <4>4. fetching > 0 => fetching > q.began
        BY <1>1, <1>2, <3>1, <3>3, TokenNumbers DEF TokensInv, LatestInUse, InHand
      <4> QED BY <1>3, <2>1, <3>1, <3>3, <4>3, <4>4 DEF TokensAreFresh, InHand, Sought
    <3> QED BY <3>2, <3>3
  <2> QED BY <1>3, <1>4, <1>5, <2>1, <2>6, <2>7, <2>8, CallMoves DEF InHand
<1>8. CASE q.answer = "done"
  <2>1. r = [q EXCEPT !.at = "ok"]
    BY <1>8, TokenNumbers DEF Receive, TokensInv
  <2> QED BY <1>6, <2>1
<1>9. CASE q.answer = "401" /\ ~q.refreshed
  <2>1. r = [Retried(q) EXCEPT !.refreshed = TRUE] /\ cached' = Invalidated(q.token)
    BY <1>9, TokenNumbers DEF Receive, TokensInv
  <2>2. r.refreshed
    BY <1>1, <2>1 DEF Retried, TokenCalls
  <2> QED BY <1>7, <1>9, <2>1, <2>2
<1>10. CASE q.answer = "401" /\ q.refreshed
  <2>1. r = [q EXCEPT !.at = "denied"]
    BY <1>10, TokenNumbers DEF Receive, TokensInv
  <2> QED BY <1>6, <1>10, <2>1
<1>11. CASE q.answer \notin {"done", "401"}
  <2>1. CASE clientKind = "graph" /\ q.tries < MaxRetries /\ Repeatable(q)
    <3>1. r = Retried(q)
      BY <1>11, <2>1, TokenNumbers DEF Receive, TokensInv
    <3>2. r.refreshed = q.refreshed /\ q.answer \in {"unprocessed", "lost"}
      BY <1>1, <2>1, <3>1 DEF Retried, TokenCalls, Repeatable
    <3> QED BY <1>7, <2>1, <3>1, <3>2
  <2>2. CASE ~(clientKind = "graph" /\ q.tries < MaxRetries /\ Repeatable(q))
    <3>1. r = [q EXCEPT !.at = "failed"]
      BY <1>11, <2>2, TokenNumbers DEF Receive, TokensInv
    <3> QED BY <1>6, <3>1
  <2> QED BY <2>1, <2>2
<1> QED BY <1>8, <1>9, <1>10, <1>11

(* TokensInv is inductive. *)
THEOREM TokensInvariant == TokensSpec => []TokensInv
<1>1. TokensInv /\ [TokensNext]_tokenVars => TokensInv'
  <2> SUFFICES ASSUME TokensInv, [TokensNext]_tokenVars PROVE TokensInv'
    OBVIOUS
  <2>1. CASE IssueToken \/ LandToken \/ FetchFails \/ TokenExpires \/ RevokeTokens
    BY <2>1, IssueTokenStep, LandTokenStep, FetchFailsStep, TokensLapseStep
  <2>2. ASSUME NEW c \in TokenCaller,
               \/ \E post \in BOOLEAN : BeginCall(c, post)
               \/ AskToken(c) \/ Receive(c)
               \/ \E answer \in {"done", "401", "lost", "unprocessed"} : Respond(c, answer)
        PROVE  TokensInv'
    BY <2>2, BeginTokenCallStep, AskTokenStep, ReceiveStep, RespondStep
  <2>3. CASE UNCHANGED tokenVars
    BY <2>3 DEF tokenVars, TokensInv, TokensTypeOK, LatestInUse, ProcessedInBounds, TokensAreFresh
  <2> QED BY <2>1, <2>2, <2>3 DEF TokensNext
<1> QED BY TokensInitInv, <1>1, PTL DEF TokensSpec

(* However tokens expire, are revoked and answers get lost, what a POST asks
   for is done at most once, the retry after a 401 included: for any number of
   callers and any limit on retries. *)
THEOREM PostedAtMostOnce == TokensSpec => []PostedOnce
<1>1. TokensInv => PostedOnce
  BY DEF TokensInv, ProcessedInBounds, PostedOnce
<1> QED BY <1>1, TokensInvariant, PTL

(* A call of the chat proxy only fails for its token if tokens were revoked
   while it was under way, whatever fetch it shares and whoever drops the
   cached token meanwhile. *)
THEOREM OldRevocationIsSurvived == TokensSpec => []RevocationIsSurvived
<1>1. TokensInv => RevocationIsSurvived
  BY DEF TokensInv, TokensAreFresh, RevocationIsSurvived
<1> QED BY <1>1, TokensInvariant, PTL
=============================================================================
