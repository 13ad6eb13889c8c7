---------------------------- MODULE EngineProofs ----------------------------
(***************************************************************************)
(* Theorems about what the workers of RequestWorkflow do to a workflow:    *)
(* that a recorded success was applied, and, where no lease is lost, that  *)
(* one worker at a time drives a workflow, in the order of its plan, that  *)
(* what it applied stays applied, that a released workflow can be claimed, *)
(* and that the rows follow the lifecycle of WorkflowLifecycle.            *)
(***************************************************************************)
EXTENDS RequestWorkflowProofs

-----------------------------------------------------------------------------
(* What the steps do to rows, plans and workers *)

\* A row keeps what it was written with: only its state and its claim change.
RowKept(w) ==
  /\ wf'[w].op = wf[w].op /\ wf'[w].type = wf[w].type /\ wf'[w].envs = wf[w].envs
  /\ wf'[w].version = wf[w].version
  /\ wf'[w].state = "NONE" <=> wf[w].state = "NONE"
  /\ wf'[w].state = "QUEUED" => wf[w].state = "QUEUED"

\* A submission leaves a row and its plan, or supersedes it, ...
Kept(w) ==
  /\ RowKept(w) /\ steps'[w] = steps[w]
  /\ \/ wf'[w] = wf[w]
     \/ /\ wf[w].state \in Active /\ wf'[w].state = "SUPERSEDED"
        /\ wf'[w].lease = IF OmitsNull THEN wf[w].lease ELSE "none"

\* ... or writes it for operation n.
Written(w, n) ==
  /\ wf[w].state \in {"NONE", "QUEUED"}
  /\ wf'[w].state \in {"PENDING", "QUEUED"} /\ wf'[w].op = n /\ wf'[w].lease = "none"
  /\ steps'[w] = WriteStepPlan(wf'[w].type, wf'[w].envs)

(* The fields of a row after an edit. *)
LEMMA RowFields ==
  ASSUME NEW row \in RowType
  PROVE  /\ \A s \in WorkflowState :
              LET r == [row EXCEPT !.state = s]
              IN r.state = s /\ r.op = row.op /\ r.type = row.type /\ r.envs = row.envs
                 /\ r.version = row.version /\ r.lease = row.lease /\ r.due = row.due
         /\ \A l \in {"none", "live", "expired"} :
              LET r == [row EXCEPT !.lease = l]
              IN r.lease = l /\ r.state = row.state /\ r.op = row.op /\ r.type = row.type /\ r.envs = row.envs
                 /\ r.version = row.version /\ r.due = row.due
         /\ \A h \in Pod \cup {NoPod} :
              LET r == [row EXCEPT !.holder = h]
              IN r.lease = row.lease /\ r.state = row.state /\ r.op = row.op /\ r.type = row.type
                 /\ r.envs = row.envs /\ r.version = row.version /\ r.due = row.due
         /\ \A b \in BOOLEAN :
              LET r == [row EXCEPT !.due = b]
              IN r.due = b /\ r.state = row.state /\ r.op = row.op /\ r.type = row.type /\ r.envs = row.envs
                 /\ r.version = row.version /\ r.lease = row.lease
  BY DEF RowType

(* The fields of a row whose lease was dropped. *)
LEMMA ReleasedFields ==
  ASSUME NEW row \in RowType
  PROVE  /\ Released(row) \in RowType
         /\ Released(row).state = row.state /\ Released(row).op = row.op /\ Released(row).type = row.type
         /\ Released(row).envs = row.envs /\ Released(row).version = row.version
         /\ Released(row).due = row.due
         /\ Released(row).lease = IF OmitsNull THEN row.lease ELSE "none"
<1>1. Released(row) \in RowType
  BY RowEdits
<1>2. CASE OmitsNull
  BY <1>1, <1>2 DEF Released
<1>3. CASE ~OmitsNull
  <2>1. Released(row) = [row EXCEPT !.holder = NoPod, !.lease = "none"]
    BY <1>3 DEF Released
  <2> QED BY ONLY <1>1, <1>3, <2>1, row \in RowType DEF RowType
<1> QED BY <1>2, <1>3

(* A worker that goes to another statement keeps its row, step and count. *)
LEMMA GoesTo ==
  ASSUME TypeOK, NEW p \in Worker, NEW c \in Pc, GoTo(p, c)
  PROVE  /\ at'[p].pc = c /\ at'[p].w = at[p].w /\ at'[p].step = at[p].step
         /\ at'[p].attempt = at[p].attempt
         /\ \A q \in Worker \ {p} : at'[q] = at[q]
  BY DEF TypeOK, WorkersTyped, WorkerType, GoTo

(* A worker that leaves is idle. *)
LEMMA Leaves ==
  ASSUME TypeOK, NEW p \in Worker, Leave(p)
  PROVE  at'[p].pc = "idle" /\ \A q \in Worker \ {p} : at'[q] = at[q]
  BY DEF TypeOK, WorkersTyped, Leave, Idle

(* A worker that begins another turn of the loop keeps its row. *)
LEMMA Iterates ==
  ASSUME TypeOK, NEW p \in Worker, NextIteration(p)
  PROVE  at'[p].pc = "probe" /\ at'[p].w = at[p].w /\ \A q \in Worker \ {p} : at'[q] = at[q]
<1> DEFINE me == [at[p] EXCEPT !.pc = "probe", !.step = 0, !.attempt = 0]
<1>1. at[p] \in WorkerType
  BY DEF TypeOK, WorkersTyped
<1>2. me.pc = "probe" /\ me.w = at[p].w
  BY <1>1 DEF WorkerType
<1>3. at' = [at EXCEPT ![p] = me]
  BY DEF NextIteration
<1> HIDE DEF me
<1> QED BY <1>2, <1>3 DEF TypeOK, WorkersTyped

(* The step a worker finds. *)
LEMMA Finds ==
  ASSUME TypeOK, NEW p \in Worker, NEW s \in Step,
         at' = [at EXCEPT ![p] = [@ EXCEPT !.pc = "begin", !.step = s,
                          !.attempt = NextAttempt(steps[at[p].w][s].attempts)]]
  PROVE  /\ at'[p].pc = "begin" /\ at'[p].w = at[p].w /\ at'[p].step = s
         /\ at'[p].attempt = NextAttempt(steps[at[p].w][s].attempts)
         /\ \A q \in Worker \ {p} : at'[q] = at[q]
<1> DEFINE a == NextAttempt(steps[at[p].w][s].attempts)
           me == [at[p] EXCEPT !.pc = "begin", !.step = s, !.attempt = a]
<1>1. at[p] \in WorkerType
  BY DEF TypeOK, WorkersTyped
<1>2. at' = [at EXCEPT ![p] = me]
  OBVIOUS
<1> HIDE DEF a
<1>3. me.pc = "begin" /\ me.w = at[p].w /\ me.step = s /\ me.attempt = a
  BY <1>1 DEF WorkerType
<1> HIDE DEF me
<1> QED BY <1>2, <1>3 DEF TypeOK, WorkersTyped, a
\* One row gets state s and lease l; nothing else of the table changes but when
\* it is due and who holds it.
Becomes(w, s, l) ==
  /\ wf'[w].state = s /\ wf'[w].lease = l
  /\ wf'[w].op = wf[w].op /\ wf'[w].type = wf[w].type /\ wf'[w].envs = wf[w].envs
  /\ wf'[w].version = wf[w].version
  /\ \A v \in Op \ {w} : wf'[v] = wf[v]

Dropped(w) == IF OmitsNull THEN wf[w].lease ELSE "none"

(* The claim writes the lease of one row. *)
LEMMA ClaimWrites ==
  ASSUME TypeOK, NEW p \in Worker, NEW w \in Op, Claim(p, w)
  PROVE  /\ Becomes(w, wf[w].state, "live")
         /\ at'[p].pc = "load" /\ at'[p].w = w /\ \A q \in Worker \ {p} : at'[q] = at[q]
<1> DEFINE row == [wf[w] EXCEPT !.lease = "live", !.holder = PodOf[p]]
<1>1. wf[w] \in RowType /\ wf' = [wf EXCEPT ![w] = row]
  BY DEF TypeOK, Claim
<1>2. /\ row.state = wf[w].state /\ row.lease = "live" /\ row.op = wf[w].op /\ row.type = wf[w].type
      /\ row.envs = wf[w].envs /\ row.version = wf[w].version
  BY ONLY <1>1 DEF RowType
<1> HIDE DEF row
<1>3. wf'[w] = row /\ \A v \in Op \ {w} : wf'[v] = wf[v]
  BY <1>1 DEF TypeOK
<1>4. /\ at' = [at EXCEPT ![p] = [pc |-> "load", w |-> w, step |-> 0, attempt |-> 0]]
      /\ at \in [Worker -> WorkerType]
  BY DEF Claim, TypeOK, WorkersTyped
<1>5. at'[p].pc = "load" /\ at'[p].w = w /\ \A q \in Worker \ {p} : at'[q] = at[q]
  BY <1>4
<1> QED BY <1>2, <1>3, <1>5 DEF Becomes

(* The start of a workflow writes its state. *)
LEMMA StartWrites ==
  ASSUME TypeOK, NEW p \in Worker, Start(p), Rows(Claimable) \subseteq {at[p].w}
  PROVE  Becomes(at[p].w, "RUNNING", wf[at[p].w].lease) /\ GoTo(p, "probe")
<1> DEFINE w == at[p].w
           row == [wf[w] EXCEPT !.state = "RUNNING"]
<1>1. w \in Op /\ wf[w] \in RowType /\ wf' = [wf EXCEPT ![w] = row] /\ GoTo(p, "probe")
  BY WorkerFacts DEF Start, TypeOK
<1>2. /\ row.state = "RUNNING" /\ row.lease = wf[w].lease /\ row.op = wf[w].op /\ row.type = wf[w].type
      /\ row.envs = wf[w].envs /\ row.version = wf[w].version
  BY ONLY <1>1 DEF RowType
<1> HIDE DEF row
<1> QED BY <1>1, <1>2 DEF Becomes, TypeOK

(* Dropping a lease writes the row's claim alone. *)
LEMMA DropWrites ==
  ASSUME TypeOK, NEW w \in Op, wf' = [wf EXCEPT ![w] = Released(@)]
  PROVE  Becomes(w, wf[w].state, Dropped(w))
<1>1. wf[w] \in RowType
  BY DEF TypeOK
<1> DEFINE row == Released(wf[w])
<1>2. wf' = [wf EXCEPT ![w] = row]
  OBVIOUS
<1>3. /\ row.state = wf[w].state /\ row.lease = Dropped(w) /\ row.op = wf[w].op /\ row.type = wf[w].type
      /\ row.envs = wf[w].envs /\ row.version = wf[w].version
  BY <1>1, ReleasedFields DEF Dropped
<1> HIDE DEF row
<1> QED BY <1>2, <1>3 DEF Becomes, TypeOK

(* A retry writes the claim and when it is due. *)
LEMMA RetryWrites ==
  ASSUME TypeOK, NEW p \in Worker, Retry(p)
  PROVE  Becomes(at[p].w, wf[at[p].w].state, Dropped(at[p].w))
<1> DEFINE w == at[p].w
           row == [Released(wf[w]) EXCEPT !.due = FALSE]
<1>1. w \in Op /\ wf[w] \in RowType /\ wf' = [wf EXCEPT ![w] = row]
  BY WorkerFacts DEF Retry, TypeOK
<1>2. Released(wf[w]) \in RowType
  BY <1>1, RowEdits
<1>3. /\ row.state = wf[w].state /\ row.lease = Dropped(w) /\ row.op = wf[w].op /\ row.type = wf[w].type
      /\ row.envs = wf[w].envs /\ row.version = wf[w].version
  BY <1>1, <1>2, RowFields, ReleasedFields DEF Dropped
<1> HIDE DEF row
<1> QED BY <1>1, <1>3 DEF Becomes, TypeOK

(* The terminal write writes the state and the claim. *)
LEMMA TerminateWrites ==
  ASSUME TypeOK, NEW w \in Op, NEW s \in WorkflowState,
         wf' = [wf EXCEPT ![w] = [Released(@) EXCEPT !.state = s]]
  PROVE  Becomes(w, s, Dropped(w))
<1> DEFINE row == [Released(wf[w]) EXCEPT !.state = s]
<1>1. wf[w] \in RowType /\ wf' = [wf EXCEPT ![w] = row]
  BY DEF TypeOK
<1>2. Released(wf[w]) \in RowType
  BY <1>1, RowEdits
<1>3. /\ row.state = s /\ row.lease = Dropped(w) /\ row.op = wf[w].op /\ row.type = wf[w].type
      /\ row.envs = wf[w].envs /\ row.version = wf[w].version
  BY <1>1, <1>2, RowFields, ReleasedFields DEF Dropped
<1> HIDE DEF row
<1> QED BY <1>1, <1>3 DEF Becomes, TypeOK

(* The lease runs out or is renewed. *)
LEMMA LeaseWrites ==
  ASSUME TypeOK, NEW w \in Op, NEW l \in {"none", "live", "expired"}, wf' = [wf EXCEPT ![w].lease = l]
  PROVE  Becomes(w, wf[w].state, l)
<1> DEFINE row == [wf[w] EXCEPT !.lease = l]
<1>1. wf[w] \in RowType /\ wf' = [wf EXCEPT ![w] = row]
  BY DEF TypeOK
<1>2. /\ row.state = wf[w].state /\ row.lease = l /\ row.op = wf[w].op /\ row.type = wf[w].type
      /\ row.envs = wf[w].envs /\ row.version = wf[w].version
  BY <1>1, RowFields
<1> HIDE DEF row
<1> QED BY <1>1, <1>2 DEF Becomes, TypeOK

(* The backoff is over. *)
LEMMA BackoffWrites ==
  ASSUME TypeOK, NEW w \in Op, BackoffElapses(w)
  PROVE  Becomes(w, wf[w].state, wf[w].lease)
<1> DEFINE row == [wf[w] EXCEPT !.due = TRUE]
<1>1. wf[w] \in RowType /\ wf' = [wf EXCEPT ![w] = row]
  BY DEF TypeOK, BackoffElapses
<1>2. /\ row.state = wf[w].state /\ row.lease = wf[w].lease /\ row.op = wf[w].op /\ row.type = wf[w].type
      /\ row.envs = wf[w].envs /\ row.version = wf[w].version
  BY <1>1, RowFields
<1> HIDE DEF row
<1> QED BY <1>1, <1>2 DEF Becomes, TypeOK

(* The promotion writes the parked rows. *)
LEMMA PromotionWrites ==
  ASSUME TypeOK, PromoteQueued, NEW w \in Op
  PROVE  \/ wf'[w] = wf[w] /\ ~(wf[w].state = "QUEUED" /\ Rows(Claimable) = {})
         \/ /\ wf[w].state = "QUEUED" /\ Rows(Claimable) = {} /\ wf'[w].state = "PENDING"
            /\ wf'[w].lease = wf[w].lease /\ RowKept(w)
<1> DEFINE row == [wf[w] EXCEPT !.state = "PENDING", !.due = TRUE]
<1>1. wf[w] \in RowType /\ wf'[w] = IF wf[w].state = "QUEUED" /\ Rows(Claimable) = {} THEN row ELSE wf[w]
  BY DEF TypeOK, PromoteQueued
<1>2. /\ row.state = "PENDING" /\ row.lease = wf[w].lease /\ row.op = wf[w].op /\ row.type = wf[w].type
      /\ row.envs = wf[w].envs /\ row.version = wf[w].version
  BY ONLY <1>1 DEF RowType
<1> HIDE DEF row
<1> QED BY <1>1, <1>2 DEF RowKept

-----------------------------------------------------------------------------
(* The moves of the workers, the plans, the outcomes and the clients *)

\* The statements between finding a step and being done with it.
Stepping == {"begin", "exec", "finalize", "settle", "failed", "skip"}

\* A worker runs a statement, fails at one or renews its lease.
Ran(p) ==
  Engine(p) \/ Timeout(p) \/ StepThrows(p) \/ Throw(p) \/ Heartbeat(p) \/ BudgetSpent(p)

\* Where a worker comes from when it gets to statement c.
Before(c) ==
  CASE c = "start" -> {"load"}
    [] c = "probe" -> {"load", "start", "settle", "skip"}
    [] c = "release" -> {"probe"}
    [] c = "abandon" -> {"probe"}
    [] c = "closeOut" -> {"abandon", "fail"}
    [] c = "exec" -> {"begin", "exec"}
    [] c = "finalize" -> {"exec", "finalize"}
    [] c = "settle" -> {"exec", "finalize"}
    [] c = "failed" -> {"exec", "finalize", "settle"}
    [] c = "skip" -> {"failed"}
    [] c = "retry" -> {"failed"}
    [] c = "fail" -> {"failed"}
    [] c = "failStatus" -> {"fail"}
    [] c = "failOutcome" -> {"failStatus"}
    [] c = "deadLetter" -> {"failOutcome"}
    [] c = "promote" -> {"complete", "deadLetter"}
    [] c = "begin" -> {"probe"}
    [] c = "complete" -> {"probe"}
    [] OTHER -> Pc

\* The worker found the next step of its claimable workflow.
Found(p) ==
  /\ at[p].pc = "probe" /\ wf[at[p].w].state \in Claimable
  /\ \E s \in Step :
       /\ IsNextStep(at[p].w, s)
       /\ at' = [at EXCEPT ![p] = [@ EXCEPT !.pc = "begin", !.step = s,
                           !.attempt = NextAttempt(steps[at[p].w][s].attempts)]]

\* The worker found nothing left to do in its claimable workflow.
FoundDone(p) ==
  /\ at[p].pc = "probe" /\ wf[at[p].w].state \in Claimable
  /\ IsNextStep(at[p].w, Done) /\ GoTo(p, "complete")

(* A worker leaves, goes to another statement, finds work or iterates. *)
LEMMA RanMoves ==
  ASSUME NEW p \in Worker, Ran(p)
  PROVE  /\ at[p].pc # "idle" /\ nOps' = nOps /\ sub' = sub
         /\ \/ at' = at /\ at[p].pc \in {"exec", "finalize"}
            \/ Leave(p)
            \/ NextIteration(p) /\ at[p].pc \in {"settle", "skip"}
            \/ Found(p)
            \/ FoundDone(p)
            \/ \E c \in Pc \ {"idle", "load", "begin", "complete"} : GoTo(p, c) /\ at[p].pc \in Before(c)
<1> USE DEF Pc, Before
<1>1. CASE Engine(p)
  <2>1. CASE Load(p) \/ Start(p) \/ Release(p) \/ CloseOut(p) \/ BeginStep(p)
    BY <2>1 DEF Load, Start, Release, CloseOut, BeginStep
  <2>2. CASE Probe(p)
    <3>1. Found(p) \/ FoundDone(p) \/ GoTo(p, "abandon") \/ GoTo(p, "release")
      BY <2>2, Zenon DEF Probe, Found, FoundDone
    <3>2. at[p].pc = "probe" /\ nOps' = nOps /\ sub' = sub
      BY <2>2 DEF Probe
    <3> QED BY <3>1, <3>2
  <2>3. CASE StepBody(p)
    BY <2>3 DEF StepBody, ExecPlan, ExecApply, ExecOther, FinalizeOutcome, FinalizeStatus
  <2>4. CASE CompleteStep(p) \/ FailStep(p) \/ SkipStep(p) \/ Retry(p)
    BY <2>4 DEF CompleteStep, FailStep, SkipStep, Retry, AfterFailure
  <2>5. CASE CompleteWorkflow(p) \/ FailWorkflow(p)
    BY <2>5 DEF CompleteWorkflow, FailWorkflow, Terminate
  <2>6. CASE FailStatus(p) \/ FailOutcome(p) \/ DeadLetter(p) \/ StartQueued(p)
    BY <2>6 DEF FailStatus, FailOutcome, DeadLetter, StartQueued
  <2> QED BY <1>1, <2>1, <2>2, <2>3, <2>4, <2>5, <2>6 DEF Engine
<1>2. CASE Timeout(p) \/ StepThrows(p) \/ BudgetSpent(p) \/ Heartbeat(p)
  BY <1>2 DEF Timeout, StepThrows, BudgetSpent, Heartbeat
<1>3. CASE Throw(p)
  BY <1>3 DEF Throw
<1> QED BY <1>1, <1>2, <1>3 DEF Ran

(* Where a worker goes, and what it takes along. *)
LEMMA WorkerMoves ==
  ASSUME TypeOK, NEW p \in Worker, Ran(p)
  PROVE  /\ at[p].pc # "idle" /\ nOps' = nOps /\ sub' = sub
         /\ \A q \in Worker \ {p} : at'[q] = at[q]
         /\ at'[p].pc # "idle" => at'[p].w = at[p].w /\ at[p].pc \in Before(at'[p].pc)
         /\ at'[p].pc \in Stepping \ {"begin"} => at'[p].step = at[p].step
         /\ at'[p].pc = "begin" => /\ wf[at[p].w].state \in Claimable /\ at'[p].step \in Step
                                  /\ IsNextStep(at[p].w, at'[p].step)
                                  /\ at'[p].attempt = NextAttempt(steps[at[p].w][at'[p].step].attempts)
         /\ at'[p].pc = "complete" => wf[at[p].w].state \in Claimable /\ IsNextStep(at[p].w, Done)
         /\ at'[p].pc \notin {"load"}
<1> USE DEF Pc, Stepping
<1>0. at[p].pc # "idle" /\ nOps' = nOps /\ sub' = sub
  BY RanMoves
<1>1. CASE at' = at /\ at[p].pc \in {"exec", "finalize"}
  BY <1>0, <1>1 DEF Before
<1>2. CASE Leave(p)
  BY <1>0, <1>2, Leaves
<1>3. CASE NextIteration(p) /\ at[p].pc \in {"settle", "skip"}
  BY <1>0, <1>3, Iterates DEF Before
<1>4. CASE Found(p)
  <2>1. PICK s \in Step : /\ IsNextStep(at[p].w, s)
                          /\ at' = [at EXCEPT ![p] = [@ EXCEPT !.pc = "begin", !.step = s,
                                              !.attempt = NextAttempt(steps[at[p].w][s].attempts)]]
    BY <1>4 DEF Found
  <2>2. at[p].pc = "probe" /\ wf[at[p].w].state \in Claimable
    BY <1>4 DEF Found
  <2>3. /\ at'[p].pc = "begin" /\ at'[p].w = at[p].w /\ at'[p].step = s
        /\ at'[p].attempt = NextAttempt(steps[at[p].w][s].attempts)
        /\ \A q \in Worker \ {p} : at'[q] = at[q]
    BY <2>1, Finds
  <2> QED BY <1>0, <2>1, <2>2, <2>3 DEF Before
<1>5. CASE FoundDone(p)
  <2>1. at'[p].pc = "complete" /\ at'[p].w = at[p].w /\ \A q \in Worker \ {p} : at'[q] = at[q]
    BY <1>5, GoesTo DEF FoundDone
  <2> QED BY <1>0, <1>5, <2>1 DEF FoundDone, Before
<1>6. ASSUME NEW c \in Pc \ {"idle", "load", "begin", "complete"}, GoTo(p, c), at[p].pc \in Before(c)
      PROVE  /\ \A q \in Worker \ {p} : at'[q] = at[q]
             /\ at'[p].pc = c /\ at'[p].w = at[p].w /\ at'[p].step = at[p].step
  BY <1>6, GoesTo
<1> QED BY <1>0, <1>1, <1>2, <1>3, <1>4, <1>5, <1>6, RanMoves

\* What a run of a worker does to the plans: it marks the step it is at.
PlanMove(p) ==
  \/ steps' = steps /\ ~(at[p].pc = "begin" /\ at'[p].pc = "exec")
  \/ /\ at[p].pc = "begin" /\ at'[p].pc = "exec"
     /\ steps' = [steps EXCEPT ![at[p].w][at[p].step] =
                    [state |-> "RUNNING", attempts |-> at[p].attempt]]
  \/ at[p].pc = "settle" /\ at'[p].pc = "probe" /\ SetStep(p, "COMPLETED")
  \/ at[p].pc = "failed" /\ at'[p].pc \in {"retry", "skip", "fail"} /\ SetStep(p, "FAILED")
  \/ at[p].pc = "skip" /\ at'[p].pc = "probe" /\ SetStep(p, "SKIPPED")

\* ... to the outcomes: it records that of its operation.
OutcomeMove(p) ==
  \/ outcome' = outcome
  \/ \E x \in Outcome : /\ outcome' = Recorded(outcome, wf[at[p].w].op, x)
                        /\ x = "success" => at[p].pc = "exec" /\ at[p].step = FINALIZE

\* ... and to the clients: it converges the environment of its step.
ClientMove(p) ==
  /\ \/ kc' = kc
     \/ /\ at[p].pc = "exec" /\ at[p].step \in Env
        /\ kc' = [kc EXCEPT ![at[p].step] = Desired(at[p].w)]
  /\ at'[p].pc = "settle" /\ at[p].step \in Env =>
       \/ at[p].pc = "exec" /\ kc' = [kc EXCEPT ![at[p].step] = Desired(at[p].w)]
       \/ at[p].pc = "finalize" /\ kc' = kc
  /\ late' = late \/ "timeout" \in Faults

(* Every run of a worker makes such a move. *)
LEMMA OtherMoves ==
  ASSUME TypeOK, NEW p \in Worker, Ran(p)
  PROVE  PlanMove(p) /\ OutcomeMove(p) /\ ClientMove(p)
<1> USE DEF Pc
<1>1. CASE Load(p) \/ Start(p) \/ Probe(p) \/ Release(p)
  <2>1. steps' = steps /\ outcome' = outcome /\ kc' = kc /\ late' = late
    BY <1>1, Zenon DEF Load, Start, Probe, Release
  <2>2. at'[p].pc # "settle" /\ at[p].pc # "begin"
    <3>1. Ran(p) /\ at[p].pc \notin {"begin", "exec", "finalize"}
      BY <1>1 DEF Load, Start, Probe, Release
    <3> QED BY <3>1, WorkerMoves DEF Before
  <2> QED BY <2>1, <2>2 DEF PlanMove, OutcomeMove, ClientMove
<1>2. CASE CloseOut(p) \/ FailOutcome(p)
  <2>1. /\ steps' = steps /\ kc' = kc /\ late' = late
        /\ at'[p].pc # "settle" /\ at[p].pc # "begin"
    BY <1>2, GoesTo, Leaves DEF CloseOut, FailOutcome
  <2>2. \E x \in Outcome \ {"success"} : outcome' = Recorded(outcome, wf[at[p].w].op, x)
    <3>1. {"superseded", "planFailure", "failure"} \subseteq Outcome \ {"success"}
      BY DEF Outcome
    <3> QED BY <1>2, <3>1 DEF CloseOut, FailOutcome
  <2> QED BY <2>1, <2>2 DEF PlanMove, OutcomeMove, ClientMove
<1>3. CASE BeginStep(p)
  <2>1. at[p].pc = "begin" /\ at'[p].pc = "exec"
    BY <1>3, GoesTo DEF BeginStep
  <2> QED BY <1>3, <2>1 DEF BeginStep, PlanMove, OutcomeMove, ClientMove
<1>4. CASE ExecPlan(p) \/ ExecOther(p) \/ FinalizeStatus(p)
  <2>1. /\ steps' = steps /\ outcome' = outcome /\ kc' = kc /\ late' = late
        /\ at[p].pc # "begin"
        /\ at[p].pc = "finalize" \/ at[p].step \in {PLAN, RESTORE_ROLES, NOTIFY}
    BY <1>4 DEF ExecPlan, ExecOther, FinalizeStatus
  <2>2. {PLAN, RESTORE_ROLES, NOTIFY} \cap Env = {}
    BY Constants DEF PLAN, RESTORE_ROLES, NOTIFY, Env
  <2> QED BY <2>1, <2>2 DEF PlanMove, OutcomeMove, ClientMove
<1>5. CASE ExecApply(p)
  <2>1. at'[p].pc = "settle"
    BY <1>5, GoesTo DEF ExecApply
  <2> QED BY <1>5, <2>1 DEF ExecApply, PlanMove, OutcomeMove, ClientMove
<1>6. CASE FinalizeOutcome(p)
  <2>1. at'[p].pc = "finalize" /\ "success" \in Outcome
    BY <1>6, GoesTo DEF FinalizeOutcome, Outcome
  <2> QED BY <1>6, <2>1 DEF FinalizeOutcome, PlanMove, OutcomeMove, ClientMove
<1>7. CASE CompleteStep(p) \/ SkipStep(p)
  <2>1. at'[p].pc = "probe"
    BY <1>7, Iterates DEF CompleteStep, SkipStep
  <2> QED BY <1>7, <2>1 DEF CompleteStep, SkipStep, PlanMove, OutcomeMove, ClientMove
<1>8. CASE FailStep(p)
  <2>1. at'[p].pc \in {"retry", "skip", "fail"}
    BY <1>8, GoesTo DEF FailStep, AfterFailure
  <2> QED BY <1>8, <2>1 DEF FailStep, PlanMove, OutcomeMove, ClientMove
<1>9. CASE \/ Retry(p) \/ CompleteWorkflow(p) \/ FailWorkflow(p) \/ FailStatus(p)
           \/ DeadLetter(p) \/ StartQueued(p)
  <2>1. /\ steps' = steps /\ outcome' = outcome /\ kc' = kc /\ late' = late
        /\ at[p].pc \notin {"begin", "exec", "finalize"}
    BY <1>9 DEF Retry, CompleteWorkflow, FailWorkflow, FailStatus, DeadLetter, StartQueued
  <2>2. at'[p].pc # "settle"
    BY <2>1, WorkerMoves DEF Before
  <2> QED BY <2>1, <2>2 DEF PlanMove, OutcomeMove, ClientMove
<1>10. CASE Timeout(p) \/ StepThrows(p)
  <2>1. at'[p].pc = "failed"
    BY <1>10, GoesTo DEF Timeout, StepThrows
  <2> QED BY <1>10, <2>1 DEF Timeout, Fault, StepThrows, PlanMove, OutcomeMove, ClientMove
<1>11. CASE Throw(p) \/ BudgetSpent(p)
  <2>1. at'[p].pc \notin {"settle", "exec"}
    BY <1>11, GoesTo, Leaves DEF Throw, BudgetSpent
  <2> QED BY <1>11, <2>1 DEF Throw, BudgetSpent, PlanMove, OutcomeMove, ClientMove
<1>12. CASE Heartbeat(p)
  <2>1. at' = at
    BY <1>12 DEF Heartbeat
  <2> QED BY <1>12, <2>1 DEF Heartbeat, PlanMove, OutcomeMove, ClientMove
<1> QED BY <1>1, <1>2, <1>3, <1>4, <1>5, <1>6, <1>7, <1>8, <1>9, <1>10, <1>11, <1>12
        DEF Ran, Engine, StepBody

\* What a run of a worker does to the table.
RowMove(p) ==
  LET w == at[p].w
  IN \/ wf' = wf
     \/ /\ at[p].pc = "start" /\ at'[p].pc = "probe" /\ Rows(Claimable) \subseteq {w}
        /\ Becomes(w, "RUNNING", wf[w].lease)
     \/ /\ at[p].pc \in {"release", "abandon", "error", "retry"}
        /\ at'[p].pc = IF at[p].pc = "abandon" THEN "closeOut" ELSE "idle"
        /\ Becomes(w, wf[w].state, Dropped(w))
     \/ /\ at[p].pc \in {"complete", "fail"} /\ wf[w].state \in Claimable
        /\ Becomes(w, IF at[p].pc = "complete" THEN "COMPLETED" ELSE "FAILED", Dropped(w))
        /\ at'[p].pc = IF at[p].pc = "complete" THEN "promote" ELSE "failStatus"
     \/ /\ at'[p].pc = at[p].pc /\ at[p].pc \in {"exec", "finalize"}
        /\ wf[w].state \in Claimable /\ wf[w].lease = "expired"
        /\ Becomes(w, wf[w].state, "live")
     \/ /\ at[p].pc = "promote" /\ at'[p].pc = "idle" /\ PromoteQueued

(* Every run of a worker makes such a move. *)
LEMMA RowMoves ==
  ASSUME TypeOK, NEW p \in Worker, Ran(p)
  PROVE  RowMove(p)
<1> DEFINE w == at[p].w
<1> USE DEF Pc
<1>0. w \in Op
  BY RanMoves, WorkerFacts
<1>1. CASE wf' = wf
  BY <1>1 DEF RowMove
<1>2. CASE Start(p)
  <2>1. CASE Rows(Claimable) \subseteq {w}
    <3>1. Becomes(w, "RUNNING", wf[w].lease) /\ GoTo(p, "probe")
      BY <1>2, <2>1, StartWrites
    <3>2. at'[p].pc = "probe"
      BY <3>1, GoesTo
    <3> QED BY <1>2, <2>1, <3>1, <3>2 DEF Start, RowMove
  <2> QED BY <1>1, <1>2, <2>1 DEF Start
<1>3. CASE Release(p)
  <2>1. Becomes(w, wf[w].state, Dropped(w))
    BY <1>0, <1>3, DropWrites DEF Release
  <2>2. at'[p].pc = IF at[p].pc = "abandon" THEN "closeOut" ELSE "idle"
    BY <1>3, GoesTo, Leaves DEF Release
  <2> QED BY <1>3, <2>1, <2>2 DEF Release, RowMove
<1>4. CASE Retry(p)
  <2>1. Becomes(w, wf[w].state, Dropped(w)) /\ at'[p].pc = "idle"
    BY <1>4, RetryWrites, Leaves DEF Retry
  <2> QED BY <1>4, <2>1 DEF Retry, RowMove
<1>5. CASE CompleteWorkflow(p) /\ wf[w].state \in Claimable
  <2>1. wf' = [wf EXCEPT ![w] = [Released(@) EXCEPT !.state = "COMPLETED"]] /\ GoTo(p, "promote")
    BY <1>5 DEF CompleteWorkflow, Terminate
  <2>2. Becomes(w, "COMPLETED", Dropped(w)) /\ at'[p].pc = "promote"
    BY <1>0, <2>1, TerminateWrites, GoesTo DEF WorkflowState, Terminal
  <2> QED BY <1>5, <2>2 DEF CompleteWorkflow, RowMove
<1>6. CASE FailWorkflow(p) /\ wf[w].state \in Claimable
  <2>1. wf' = [wf EXCEPT ![w] = [Released(@) EXCEPT !.state = "FAILED"]] /\ GoTo(p, "failStatus")
    BY <1>6 DEF FailWorkflow, Terminate
  <2>2. Becomes(w, "FAILED", Dropped(w)) /\ at'[p].pc = "failStatus"
    BY <1>0, <2>1, TerminateWrites, GoesTo DEF WorkflowState, Terminal
  <2> QED BY <1>6, <2>2 DEF FailWorkflow, RowMove
<1>7. CASE (CompleteWorkflow(p) \/ FailWorkflow(p)) /\ wf[w].state \notin Claimable
  BY <1>1, <1>7 DEF CompleteWorkflow, FailWorkflow, Terminate
<1>8. CASE StartQueued(p)
  BY <1>8, Leaves DEF StartQueued, RowMove
<1>9. CASE Heartbeat(p)
  <2>1. wf' = [wf EXCEPT ![w].lease = "live"] /\ at' = at /\ at[p].pc \in {"exec", "finalize"}
        /\ wf[w].state \in Claimable /\ wf[w].lease = "expired"
    BY <1>9 DEF Heartbeat
  <2>2. Becomes(w, wf[w].state, "live")
    BY <1>0, <2>1, LeaseWrites
  <2> QED BY <2>1, <2>2 DEF RowMove
<1>10. CASE \/ Load(p) \/ Probe(p) \/ CloseOut(p) \/ BeginStep(p) \/ StepBody(p) \/ CompleteStep(p)
            \/ FailStep(p) \/ SkipStep(p) \/ FailStatus(p) \/ FailOutcome(p) \/ DeadLetter(p)
  BY <1>1, <1>10
     DEF Load, Probe, CloseOut, BeginStep, StepBody, ExecPlan, ExecApply, ExecOther, FinalizeOutcome,
         FinalizeStatus, CompleteStep, FailStep, SkipStep, FailStatus, FailOutcome, DeadLetter
<1>11. CASE Timeout(p) \/ StepThrows(p) \/ Throw(p) \/ BudgetSpent(p)
  BY <1>1, <1>11 DEF Timeout, StepThrows, Throw, BudgetSpent
<1> QED BY <1>2, <1>3, <1>4, <1>5, <1>6, <1>7, <1>8, <1>9, <1>10, <1>11 DEF Ran, Engine

(* A row that changes in state and claim alone leaves every row kept. *)
LEMMA RowChanges ==
  ASSUME TypeOK, NEW w \in Op, NEW s, NEW l, Becomes(w, s, l),
         \/ s = wf[w].state
         \/ wf[w].state \notin {"NONE", "QUEUED"} /\ s \notin {"NONE", "QUEUED"}
  PROVE  \A v \in Op : RowKept(v)
  BY DEF Becomes, RowKept

(* A worker's run keeps every row. *)
LEMMA RanKeepsRows ==
  ASSUME TypeOK, Ledger, NEW p \in Worker, Ran(p)
  PROVE  \A v \in Op : RowKept(v)
<1> DEFINE w == at[p].w
<1>1. w \in Op /\ wf[w].state \notin {"NONE", "QUEUED"}
  BY RanMoves, LedgerWorker
<1>2. CASE wf' = wf
  BY <1>2 DEF RowKept
<1>3. CASE at[p].pc = "promote" /\ PromoteQueued
  BY <1>3, PromotionWrites DEF RowKept
<1>4. CASE \E s, l : /\ s = wf[w].state \/ s \in {"RUNNING", "COMPLETED", "FAILED"}
                     /\ Becomes(w, s, l)
  BY <1>1, <1>4, RowChanges
<1> QED BY <1>2, <1>3, <1>4, RowMoves DEF RowMove

(* The clock writes the claim and the backoff of a claimable row; only a stall
   takes a lease from a worker. *)
LEMMA ClockWrites ==
  ASSUME TypeOK, NEW w \in Op, BackoffElapses(w) \/ LeaseLapses(w) \/ LeaseLost(w)
  PROVE  /\ wf[w].state \in Claimable
         /\ \/ Becomes(w, wf[w].state, wf[w].lease)
            \/ Becomes(w, wf[w].state, "expired") /\ \A p \in Worker : ~Works(p, w)
            \/ Becomes(w, wf[w].state, "expired") /\ "stall" \in Faults
         /\ at' = at /\ steps' = steps /\ outcome' = outcome /\ kc' = kc /\ late' = late
         /\ sub' = sub /\ nOps' = nOps
  BY BackoffWrites, LeaseWrites DEF BackoffElapses, LeaseLapses, LeaseLost, Fault

\* A step of the engine, its clock or its pods: anything but a submission.
Unsubmitted ==
  \/ PromoteOrphan
  \/ \E p \in Worker : Ran(p) \/ \E w \in Op : Claim(p, w)
  \/ \E w \in Op : \/ BackoffElapses(w) \/ LeaseLapses(w) \/ LeaseLost(w)
                   \/ \E e \in Env : LateApply(w, e)
  \/ \E pod \in Pod : Crash(pod)

(* Next is the submissions and that. *)
LEMMA NextSplits ==
  ASSUME Next
  PROVE  Unsubmitted \/ \E u \in User : Submission(u)
  BY Zenon DEF Next, Unsubmitted, Ran

(* No row is written but by a submission. *)
LEMMA RowsAreKept ==
  ASSUME TypeOK, Ledger, Unsubmitted
  PROVE  nOps' = nOps /\ sub' = sub /\ \A v \in Op : RowKept(v)
<1>1. CASE wf' = wf
  <2>1. nOps' = nOps /\ sub' = sub
    BY RanMoves DEF Unsubmitted, PromoteOrphan, Claim, BackoffElapses, LeaseLapses, LeaseLost,
       LateApply, Crash
  <2> QED BY <1>1, <2>1 DEF RowKept
<1>2. CASE PromoteOrphan
  BY <1>2, PromotionWrites DEF PromoteOrphan, RowKept
<1>3. ASSUME NEW p \in Worker, Ran(p) PROVE (nOps' = nOps /\ sub' = sub /\ \A v \in Op : RowKept(v))
  BY <1>3, RanMoves, RanKeepsRows
<1>4. ASSUME NEW p \in Worker, NEW w \in Op, Claim(p, w) PROVE (nOps' = nOps /\ sub' = sub /\ \A v \in Op : RowKept(v))
  BY <1>4, ClaimWrites, RowChanges DEF Claim
<1>5. ASSUME NEW w \in Op, BackoffElapses(w) \/ LeaseLapses(w) \/ LeaseLost(w) PROVE (nOps' = nOps /\ sub' = sub /\ \A v \in Op : RowKept(v))
  BY <1>5, ClockWrites, RowChanges
<1>6. ASSUME NEW w \in Op, NEW e \in Env, LateApply(w, e) PROVE wf' = wf
  BY <1>6 DEF LateApply
<1>7. ASSUME NEW pod \in Pod, Crash(pod) PROVE wf' = wf
  BY <1>7 DEF Crash
<1> QED BY <1>1, <1>2, <1>3, <1>4, <1>5, <1>6, <1>7 DEF Unsubmitted

-----------------------------------------------------------------------------
(* A recorded success was applied: the inductive invariant *)

\* Every environment of the payload of row w was attempted.
Attempted(w) ==
  \A e \in OrderedEnvironments(wf[w].type, wf[w].envs) : steps[w][e].attempts > 0

FutureUnanswered == \A o \in Op : o > nOps => outcome[o] = "none"

OneRowEach ==
  \A v, w \in Op :
    v # w /\ wf[v].state # "NONE" /\ wf[w].state # "NONE" => wf[v].op # wf[w].op

NoneIsEmpty == \A w \in Op : wf[w].state = "NONE" => wf[w].op = 0

ParkedUnanswered == \A q \in Op : wf[q].state = "QUEUED" => outcome[wf[q].op] = "none"

PlansCover ==
  \A w \in Op : wf[w].state # "NONE" =>
    \A e \in OrderedEnvironments(wf[w].type, wf[w].envs) : steps[w][e].state # "ABSENT"

BegunIsCounted ==
  \A w \in Op, s \in Step : steps[w][s].state \notin {"ABSENT", "PENDING"} => steps[w][s].attempts > 0

\* A worker at a step counted the attempt, and at FINALIZE it finds every
\* environment attempted.
Counted(p) ==
  /\ at[p].pc \in Stepping =>
       /\ at[p].step \in Step
       /\ IF at[p].pc = "begin" THEN at[p].attempt > 0 ELSE steps[at[p].w][at[p].step].attempts > 0
  /\ at[p].pc \in {"begin", "exec"} /\ at[p].step = FINALIZE => Attempted(at[p].w)

Applied ==
  /\ FutureUnanswered
  /\ OneRowEach
  /\ NoneIsEmpty
  /\ ParkedUnanswered
  /\ PlansCover
  /\ BegunIsCounted
  /\ \A p \in Worker : Counted(p)
  /\ SuccessWasApplied

\* Between submissions a step is only ever marked after a counted attempt, ...
StepsAdvance ==
  \A w \in Op, s \in Step :
    \/ steps'[w][s] = steps[w][s]
    \/ steps'[w][s].state # "ABSENT" /\ steps'[w][s].attempts > 0

\* ... and only a worker's own operation is answered, once, a success after
\* every environment was attempted.
OutcomesAdvance ==
  \A o \in Op :
    \/ outcome'[o] = outcome[o]
    \/ /\ outcome[o] = "none"
       /\ \E w \in Op : /\ wf[w].state \notin {"NONE", "QUEUED"} /\ wf[w].op = o
                        /\ outcome'[o] = "success" => Attempted(w)

(* The environments of a payload are steps. *)
LEMMA OrderedAreSteps ==
  ASSUME TypeOK, NEW w \in Op
  PROVE  OrderedEnvironments(wf[w].type, wf[w].envs) \subseteq Env /\ Env \subseteq Step
  BY Constants DEF TypeOK, RowType, OrderedEnvironments

(* A step that advances leaves an attempted payload attempted. *)
LEMMA AttemptedStays ==
  ASSUME TypeOK, StepsAdvance, NEW w \in Op, RowKept(w), Attempted(w)
  PROVE  \A e \in OrderedEnvironments(wf'[w].type, wf'[w].envs) : steps'[w][e].attempts > 0
  BY OrderedAreSteps DEF StepsAdvance, RowKept, Attempted

(* A worker that stays where it is stays counted. *)
LEMMA CountedStays ==
  ASSUME TypeOK, TypeOK', Ledger, StepsAdvance, \A v \in Op : RowKept(v),
         NEW p \in Worker, Counted(p), at'[p] = at[p]
  PROVE  Counted(p)'
<1>1. CASE at[p].pc = "idle"
  BY <1>1 DEF Counted, Stepping
<1>2. CASE at[p].pc # "idle"
  <2>1. at[p].w \in Op
    BY <1>2, WorkerFacts
  <2>2. at[p].pc \in Stepping =>
          /\ at[p].step \in Step
          /\ IF at[p].pc = "begin" THEN at[p].attempt > 0 ELSE steps'[at[p].w][at[p].step].attempts > 0
    BY <2>1 DEF Counted, StepsAdvance
  <2>3. at[p].pc \in {"begin", "exec"} /\ at[p].step = FINALIZE =>
          \A e \in OrderedEnvironments(wf'[at[p].w].type, wf'[at[p].w].envs) :
            steps'[at[p].w][e].attempts > 0
    BY <2>1, AttemptedStays DEF Counted
  <2> QED BY <2>2, <2>3 DEF Counted, Attempted
<1> QED BY <1>1, <1>2

(* A step between submissions that advances keeps the invariant. *)
LEMMA AdvanceKeepsApplied ==
  ASSUME TypeOK, TypeOK', Ledger, Applied, nOps' = nOps, \A v \in Op : RowKept(v),
         StepsAdvance, OutcomesAdvance,
         \A p \in Worker : at'[p] = at[p] \/ at'[p].pc \notin Stepping \/ Counted(p)'
  PROVE  Applied'
<1>1. \A w \in Op : wf[w].state # "NONE" => wf[w].op \in 1..nOps /\ wf[w].op \in Op
  BY Constants DEF Ledger, RowsCarry, TypeOK, Op
<1>2. FutureUnanswered'
  <2>1. \A w \in Op : wf[w].state \notin {"NONE", "QUEUED"} => ~(wf[w].op > nOps)
    <3>1. nOps \in Nat
      BY DEF TypeOK
    <3> QED BY <1>1, <3>1
  <2> QED BY <2>1, Zenon DEF Applied, FutureUnanswered, OutcomesAdvance
<1>3. OneRowEach'
  BY DEF Applied, OneRowEach, RowKept
<1>4. ParkedUnanswered'
  <2> SUFFICES ASSUME NEW q \in Op, wf'[q].state = "QUEUED" PROVE outcome'[wf'[q].op] = "none"
    BY DEF ParkedUnanswered
  <2>1. wf[q].state = "QUEUED" /\ wf'[q].op = wf[q].op /\ outcome[wf[q].op] = "none" /\ wf[q].op \in Op
    BY <1>1 DEF RowKept, Applied, ParkedUnanswered
  <2>2. \A w \in Op : wf[w].state \notin {"NONE", "QUEUED"} => wf[w].op # wf[q].op
    BY <2>1 DEF Applied, OneRowEach
  <2> QED BY <2>1, <2>2 DEF OutcomesAdvance
<1>5. PlansCover'
  BY OrderedAreSteps DEF Applied, PlansCover, RowKept, StepsAdvance
<1>6. BegunIsCounted'
  BY DEF Applied, BegunIsCounted, StepsAdvance
<1>7. \A p \in Worker : Counted(p)'
  <2> SUFFICES ASSUME NEW p \in Worker PROVE Counted(p)'
    OBVIOUS
  <2>1. CASE at'[p] = at[p]
    BY <2>1, CountedStays DEF Applied
  <2>2. CASE at'[p].pc \notin Stepping
    BY <2>2 DEF Counted, Stepping
  <2> QED BY <2>1, <2>2
<1>8. SuccessWasApplied'
  <2> SUFFICES ASSUME NEW o \in Op, outcome'[o] = "success"
               PROVE  \E w \in Op : /\ wf'[w].op = o
                                    /\ \A e \in OrderedEnvironments(wf'[w].type, wf'[w].envs) :
                                         steps'[w][e].attempts > 0
    BY DEF SuccessWasApplied
  <2>1. PICK w \in Op : wf[w].op = o /\ Attempted(w)
    BY DEF Applied, SuccessWasApplied, Attempted, OutcomesAdvance
  <2>2. wf'[w].op = o
    BY <2>1 DEF RowKept
  <2> QED BY <2>1, <2>2, AttemptedStays
<1>9. NoneIsEmpty'
  BY DEF Applied, NoneIsEmpty, RowKept
<1> QED BY <1>2, <1>3, <1>4, <1>5, <1>6, <1>7, <1>8, <1>9 DEF Applied

(* What FINALIZE finds: every step before it is done, so every environment was
   attempted. *)
LEMMA FinalizeFinds ==
  ASSUME TypeOK, Applied, NEW w \in Op, wf[w].state # "NONE", IsNextStep(w, FINALIZE)
  PROVE  Attempted(w)
<1> SUFFICES ASSUME NEW e \in OrderedEnvironments(wf[w].type, wf[w].envs)
             PROVE  steps[w][e].attempts > 0
  BY DEF Attempted
<1>1. e \in Env /\ e \in Step /\ e < FINALIZE
  BY OrderedAreSteps, Constants DEF Env, FINALIZE
<1>2. steps[w][e].state \in Finished
  BY <1>1 DEF IsNextStep, Unfinished, Applied, PlansCover
<1> QED BY <1>1, <1>2 DEF Applied, BegunIsCounted, Finished

(* A worker's mark counts its attempt. *)
LEMMA PlansAdvance ==
  ASSUME TypeOK, Applied, NEW p \in Worker, Ran(p)
  PROVE  /\ StepsAdvance
         /\ at[p].pc = "begin" /\ at'[p].pc = "exec" => steps'[at[p].w][at[p].step].attempts > 0
<1> DEFINE w == at[p].w  s == at[p].step
<1>1. w \in Op /\ steps \in [Op -> [Step -> StepType]]
  BY RanMoves, WorkerFacts DEF TypeOK
<1>2. ASSUME at[p].pc \in Stepping, NEW x, x.state # "ABSENT", x.attempts > 0,
             steps' = [steps EXCEPT ![w][s] = x]
      PROVE  StepsAdvance /\ steps'[w][s].attempts > 0
  <2>1. s \in Step
    BY <1>2 DEF Applied, Counted
  <2> QED BY <1>1, <1>2, <2>1 DEF StepsAdvance
<1>3. CASE steps' = steps /\ ~(at[p].pc = "begin" /\ at'[p].pc = "exec")
  BY <1>3 DEF StepsAdvance
<1>4. CASE /\ at[p].pc = "begin" /\ at'[p].pc = "exec"
           /\ steps' = [steps EXCEPT ![w][s] = [state |-> "RUNNING", attempts |-> at[p].attempt]]
  <2> DEFINE x == [state |-> "RUNNING", attempts |-> at[p].attempt]
  <2>1. x.state # "ABSENT" /\ x.attempts = at[p].attempt
    OBVIOUS
  <2>2. steps' = [steps EXCEPT ![w][s] = x]
    BY <1>4
  <2> HIDE DEF x
  <2>3. at[p].attempt > 0
    BY <1>4 DEF Applied, Counted, Stepping
  <2> QED BY <1>2, <1>4, <2>1, <2>2, <2>3 DEF Stepping
<1>5. ASSUME at[p].pc \in {"settle", "failed", "skip"}, NEW st \in {"COMPLETED", "FAILED", "SKIPPED"},
             SetStep(p, st)
      PROVE  StepsAdvance
  <2> DEFINE x == [steps[w][s] EXCEPT !.state = st]
  <2>1. s \in Step /\ steps[w][s].attempts > 0
    BY <1>5 DEF Applied, Counted, Stepping
  <2>2. x.state = st /\ x.attempts = steps[w][s].attempts
    BY <1>1, <2>1 DEF StepType
  <2>3. steps' = [steps EXCEPT ![w][s] = x]
    BY <1>5 DEF SetStep
  <2> HIDE DEF x
  <2> QED BY <1>2, <1>5, <2>1, <2>2, <2>3 DEF Stepping
<1> QED BY <1>3, <1>4, <1>5, OtherMoves DEF PlanMove

(* A worker answers its own operation, a success after every environment was
   attempted. *)
LEMMA OutcomesMove ==
  ASSUME TypeOK, Ledger, Applied, NEW p \in Worker, Ran(p)
  PROVE  OutcomesAdvance
<1>1. CASE outcome' = outcome
  BY <1>1 DEF OutcomesAdvance
<1>2. ASSUME NEW x \in Outcome, outcome' = Recorded(outcome, wf[at[p].w].op, x),
             x = "success" => at[p].pc = "exec" /\ at[p].step = FINALIZE
      PROVE  OutcomesAdvance
  <2> DEFINE w == at[p].w
  <2>1. w \in Op /\ wf[w].state \notin {"NONE", "QUEUED"} /\ wf[w].op \in Op
    BY RanMoves, LedgerWorker
  <2>2. x = "success" => Attempted(w)
    BY <1>2 DEF Applied, Counted
  <2>3. \A o \in Op : \/ outcome'[o] = outcome[o]
                      \/ o = wf[w].op /\ outcome[o] = "none" /\ outcome'[o] = x
    BY <1>2, <2>1 DEF Recorded, TypeOK
  <2> QED BY <2>1, <2>2, <2>3 DEF OutcomesAdvance
<1> QED BY <1>1, <1>2, OtherMoves DEF OutcomeMove

(* A worker that runs counts its attempts. *)
LEMMA CountedMoves ==
  ASSUME TypeOK, TypeOK', Ledger, Applied, NEW p \in Worker, Ran(p), \A v \in Op : RowKept(v)
  PROVE  Counted(p)'
<1> DEFINE w == at[p].w
<1>1. StepsAdvance
  BY PlansAdvance
<1>2. w \in Op /\ wf[w].state # "NONE"
  BY RanMoves, LedgerWorker
<1>3. CASE at'[p].pc \notin Stepping
  BY <1>3 DEF Counted, Stepping
<1>4. CASE at'[p].pc = "begin"
  <2>1. /\ at'[p].w = w /\ at'[p].step \in Step /\ IsNextStep(w, at'[p].step)
        /\ at'[p].attempt = NextAttempt(steps[w][at'[p].step].attempts)
    BY <1>4, WorkerMoves
  <2>2. at'[p].attempt > 0
    <3>1. steps[w][at'[p].step].attempts \in 0..AttemptCap
      BY <1>2, <2>1 DEF TypeOK, StepType
    <3>2. AttemptCap > 0
      BY ConstantsOK DEF ConstantsOK
    <3> QED BY <2>1, <3>1, <3>2, Constants DEF NextAttempt
  <2>3. at'[p].step = FINALIZE =>
          \A e \in OrderedEnvironments(wf'[w].type, wf'[w].envs) : steps'[w][e].attempts > 0
    BY <1>1, <1>2, <2>1, FinalizeFinds, AttemptedStays
  <2> QED BY <1>4, <2>1, <2>2, <2>3 DEF Counted, Attempted
<1>5. CASE at'[p].pc \in Stepping \ {"begin"}
  <2>1. at'[p].w = w /\ at'[p].step = at[p].step /\ at[p].pc \in Before(at'[p].pc)
    BY <1>5, WorkerMoves DEF Stepping
  <2>2. at[p].pc \in Stepping /\ (at[p].pc = "begin" => at'[p].pc = "exec")
    BY <1>5, <2>1 DEF Stepping, Before
  <2>3. at[p].step \in Step /\ steps'[w][at[p].step].attempts > 0
    <3>1. at[p].step \in Step
      BY <2>2 DEF Applied, Counted
    <3>2. CASE at[p].pc = "begin"
      BY <2>2, <3>1, <3>2, PlansAdvance
    <3>3. CASE at[p].pc # "begin"
      BY <1>1, <1>2, <2>2, <3>1, <3>3 DEF Applied, Counted, StepsAdvance
    <3> QED BY <3>1, <3>2, <3>3
  <2>4. at'[p].pc = "exec" /\ at[p].step = FINALIZE =>
          \A e \in OrderedEnvironments(wf'[w].type, wf'[w].envs) : steps'[w][e].attempts > 0
    <3>1. at'[p].pc = "exec" /\ at[p].step = FINALIZE => Attempted(w)
      BY <2>1 DEF Before, Applied, Counted
    <3> QED BY <1>1, <1>2, <3>1, AttemptedStays
  <2> QED BY <1>5, <2>1, <2>3, <2>4 DEF Counted, Attempted
<1> QED BY <1>3, <1>4, <1>5

-----------------------------------------------------------------------------
(* The submissions *)

\* What a submission leaves alone.
Aside == at' = at /\ kc' = kc /\ late' = late

\* It reads, gives up or is refused: the workflows do not know of it.
Quietly == Aside /\ UNCHANGED <<wf, steps, outcome, nOps>>

\* It becomes operation n.
Counts(n) == Aside /\ n = nOps + 1 /\ n \in Op /\ nOps' = n

\* It adopts the row that won.
Adopts(n) ==
  /\ Counts(n) /\ UNCHANGED <<wf, steps>> /\ Rows(Claimable) # {}
  /\ outcome' = [outcome EXCEPT ![n] = "superseded"]

\* It writes row k and no other, ...
Writes(k, n) ==
  /\ Counts(n) /\ Written(k, n) /\ wf'[k].type # "DELETE"
  /\ \A w \in Op \ {k} : wf'[w] = wf[w] /\ steps'[w] = steps[w]

\* ... to run at once, ...
Enters(n) ==
  /\ Writes(n, n) /\ wf[n].state = "NONE" /\ wf'[n].state = "PENDING" /\ Rows(Claimable) = {}
  /\ outcome' = outcome

\* ... or to wait.
Parks(k, n) ==
  /\ Writes(k, n) /\ wf'[k].state = "QUEUED" /\ Rows(Claimable) # {}
  /\ \/ k = n /\ wf[n].state = "NONE" /\ Rows({"QUEUED"}) = {} /\ outcome' = outcome
     \/ wf[k].state = "QUEUED" /\ outcome' = Recorded(outcome, wf[k].op, "superseded")

\* Or it is a delete and closes what is active.
TakesOver(n) ==
  /\ Counts(n) /\ Written(n, n) /\ wf[n].state = "NONE" /\ wf'[n].state = "PENDING"
  /\ \A w \in Op \ {n} :
       /\ Kept(w)
       /\ IF wf[w].state \in Active THEN wf'[w].state = "SUPERSEDED" ELSE wf'[w] = wf[w]
  /\ \A o \in Op :
       outcome'[o] = IF (\E w \in Op : wf[w].state \in Active /\ wf[w].op = o) /\ outcome[o] = "none"
                     THEN "superseded" ELSE outcome[o]

(* The next operation, and its row. *)
LEMMA NextOperation ==
  ASSUME TypeOK, Ledger, nOps < MaxOps
  PROVE  nOps + 1 \in Op /\ wf[nOps + 1].state = "NONE"
<1>1. nOps + 1 \in Op /\ nOps + 1 > nOps
  BY Constants DEF TypeOK, Op
<1> QED BY <1>1 DEF Ledger, FreshRows

(* The row and the plan a submission writes. *)
LEMMA RowWritten ==
  ASSUME TypeOK, NEW k \in Op, wf[k].state \in {"NONE", "QUEUED"}, NEW s \in {"PENDING", "QUEUED"},
         NEW t, NEW n, NEW v, NEW envs,
         wf'[k] = NewRow(s, t, n, v, envs), steps'[k] = WriteStepPlan(t, envs)
  PROVE  Written(k, n) /\ wf'[k].state = s /\ wf'[k].type = t
<1> DEFINE row == NewRow(s, t, n, v, envs)
<1>1. row.state = s /\ row.type = t /\ row.op = n /\ row.envs = envs /\ row.lease = "none"
  BY DEF NewRow
<1> HIDE DEF row
<1> QED BY <1>1 DEF Written, row

(* A delete takes over. *)
LEMMA DeleteTakesOver ==
  ASSUME TypeOK, Ledger, NEW u \in User, Delete(u)
  PROVE  TakesOver(nOps + 1) /\ sub[u].intent = "delete" /\ sub[u].pc = "read"
<1> DEFINE n == nOps + 1
           row == NewRow("PENDING", "DELETE", n, sub[u].version, sub[u].envs)
           plan == WriteStepPlan("DELETE", sub[u].envs)
<1>1. n \in Op /\ wf[n].state = "NONE"
  BY NextOperation DEF Delete
<1>2. \A w \in Op : wf'[w] = IF w = n THEN row
                             ELSE IF wf[w].state \in Active
                             THEN [Released(wf[w]) EXCEPT !.state = "SUPERSEDED"]
                             ELSE wf[w]
  BY DEF Delete
<1>3. \A w \in Op : steps'[w] = IF w = n THEN plan ELSE steps[w]
  BY DEF Delete, TypeOK
<1>4. Counts(n)
  BY <1>1 DEF Delete, Counts, Aside
<1>5. Written(n, n) /\ wf'[n].state = "PENDING"
  <2>1. wf'[n] = row /\ steps'[n] = plan
    BY <1>1, <1>2, <1>3
  <2> QED BY <1>1, <2>1, RowWritten
<1>6. ASSUME NEW w \in Op \ {n}
      PROVE  /\ Kept(w)
             /\ IF wf[w].state \in Active THEN wf'[w].state = "SUPERSEDED" ELSE wf'[w] = wf[w]
  <2>1. CASE wf[w].state \in Active
    <3> DEFINE closed == [Released(wf[w]) EXCEPT !.state = "SUPERSEDED"]
    <3>1. wf[w] \in RowType /\ Released(wf[w]) \in RowType
      BY RowEdits DEF TypeOK
    <3>2. /\ closed.state = "SUPERSEDED" /\ closed.op = wf[w].op /\ closed.type = wf[w].type
          /\ closed.envs = wf[w].envs /\ closed.version = wf[w].version
          /\ closed.lease = IF OmitsNull THEN wf[w].lease ELSE "none"
      BY <3>1, RowFields, ReleasedFields DEF WorkflowState, Terminal
    <3>3. wf'[w] = closed
      BY <1>2, <1>6, <2>1
    <3> HIDE DEF closed
    <3> QED BY <1>3, <1>6, <2>1, <3>2, <3>3 DEF Kept, RowKept, Active
  <2>2. CASE wf[w].state \notin Active
    BY <1>2, <1>3, <1>6, <2>2 DEF Kept, RowKept
  <2> QED BY <2>1, <2>2
<1>7. \A o \in Op :
        outcome'[o] = IF (\E w \in Op : wf[w].state \in Active /\ wf[w].op = o) /\ outcome[o] = "none"
                      THEN "superseded" ELSE outcome[o]
  BY DEF Delete, Rows
<1> QED BY <1>1, <1>4, <1>5, <1>6, <1>7 DEF TakesOver, Delete

(* A parked submission waits. *)
LEMMA ParkWaits ==
  ASSUME TypeOK, Ledger, NEW u \in User, Park(u)
  PROVE  \E k \in Op : Parks(k, nOps + 1)
<1> DEFINE n == nOps + 1
           row == NewRow("QUEUED", TypeFor(u), n, PayloadVersion(u, n), sub[u].envs)
           plan == WriteStepPlan(TypeFor(u), sub[u].envs)
<1>1. n \in Op /\ wf[n].state = "NONE"
  BY NextOperation DEF Park
<1>2. Counts(n) /\ Rows(Claimable) # {}
  BY <1>1 DEF Park, Counts, Aside
<1>3. TypeFor(u) # "DELETE"
  BY DEF TypeFor
<1>4. ASSUME NEW k \in Op, wf[k].state \in {"NONE", "QUEUED"},
             wf' = [wf EXCEPT ![k] = row], steps' = [steps EXCEPT ![k] = plan]
      PROVE  Writes(k, n) /\ wf'[k].state = "QUEUED"
  <2>1. /\ wf'[k] = row /\ steps'[k] = plan
        /\ \A w \in Op \ {k} : wf'[w] = wf[w] /\ steps'[w] = steps[w]
    BY <1>4 DEF TypeOK
  <2>2. Written(k, n) /\ wf'[k].state = "QUEUED" /\ wf'[k].type = TypeFor(u)
    BY <1>4, <2>1, RowWritten
  <2> QED BY <1>2, <1>3, <2>1, <2>2 DEF Writes
<1>5. \/ \E q \in Op : /\ wf[q].state = "QUEUED"
                       /\ outcome' = Recorded(outcome, wf[q].op, "superseded")
                       /\ wf' = [wf EXCEPT ![q] = row] /\ steps' = [steps EXCEPT ![q] = plan]
      \/ /\ Rows({"QUEUED"}) = {} /\ outcome' = outcome
         /\ wf' = [wf EXCEPT ![n] = row] /\ steps' = [steps EXCEPT ![n] = plan]
  BY DEF Park, Rows
<1> HIDE DEF row, plan
<1> QED BY <1>1, <1>2, <1>4, <1>5 DEF Parks

(* An inserted submission enters, or adopts the row that won. *)
LEMMA InsertEnters ==
  ASSUME TypeOK, Ledger, NEW u \in User, Insert(u)
  PROVE  Enters(nOps + 1) \/ Adopts(nOps + 1)
<1> DEFINE n == nOps + 1
           row == NewRow("PENDING", TypeFor(u), n, PayloadVersion(u, n), sub[u].envs)
           plan == WriteStepPlan(TypeFor(u), sub[u].envs)
<1>1. n \in Op /\ wf[n].state = "NONE"
  BY NextOperation DEF Insert
<1>2. Counts(n) /\ TypeFor(u) # "DELETE"
  BY <1>1 DEF Insert, Counts, Aside, TypeFor
<1>3. \/ /\ Rows(Claimable) = {} /\ outcome' = outcome
         /\ wf' = [wf EXCEPT ![n] = row] /\ steps' = [steps EXCEPT ![n] = plan]
      \/ /\ Rows(Claimable) # {} /\ outcome' = [outcome EXCEPT ![n] = "superseded"]
         /\ wf' = wf /\ steps' = steps
  BY DEF Insert
<1>4. ASSUME wf' = [wf EXCEPT ![n] = row], steps' = [steps EXCEPT ![n] = plan]
      PROVE  Writes(n, n) /\ wf'[n].state = "PENDING"
  <2>1. /\ wf'[n] = row /\ steps'[n] = plan
        /\ \A w \in Op \ {n} : wf'[w] = wf[w] /\ steps'[w] = steps[w]
    BY <1>1, <1>4 DEF TypeOK
  <2>2. Written(n, n) /\ wf'[n].state = "PENDING" /\ wf'[n].type = TypeFor(u)
    BY <1>1, <2>1, RowWritten
  <2> QED BY <1>2, <2>1, <2>2 DEF Writes
<1> HIDE DEF row, plan
<1> QED BY <1>1, <1>2, <1>3, <1>4 DEF Enters, Adopts

(* What a submission does to the workflows. *)
LEMMA SubmissionMoves ==
  ASSUME TypeOK, Ledger, NEW u \in User, Submission(u)
  PROVE  \/ Quietly
         \/ \E n \in Op : \/ Adopts(n) \/ Enters(n) \/ \E k \in Op : Parks(k, n)
                          \/ TakesOver(n) /\ sub[u].intent = "delete" /\ sub[u].pc = "read"
<1>1. CASE Delete(u) \/ Park(u) \/ Insert(u)
  <2>1. nOps + 1 \in Op
    BY <1>1, NextOperation DEF Delete, Park, Insert
  <2> QED BY <1>1, <2>1, DeleteTakesOver, ParkWaits, InsertEnters
<1>2. CASE ~(Delete(u) \/ Park(u) \/ Insert(u))
  BY <1>2 DEF Submission, ReadRequest, GiveUp, DeleteDraft, FindNothingInFlight, Quietly, Aside
<1> QED BY <1>1, <1>2

(* A plan just written covers the environments of its payload, and none of it
   was begun. *)
LEMMA FreshPlan ==
  ASSUME TypeOK', NEW k \in Op, NEW n, Written(k, n)
  PROVE  /\ \A e \in OrderedEnvironments(wf'[k].type, wf'[k].envs) : steps'[k][e].state # "ABSENT"
         /\ \A s \in Step : steps'[k][s].state \in {"ABSENT", "PENDING"} /\ steps'[k][s].attempts = 0
<1> DEFINE plan == WriteStepPlan(wf'[k].type, wf'[k].envs)
<1>1. OrderedEnvironments(wf'[k].type, wf'[k].envs) \subseteq Env /\ Env \subseteq Step
  BY Constants DEF TypeOK, RowType, OrderedEnvironments
<1>2. /\ \A e \in OrderedEnvironments(wf'[k].type, wf'[k].envs) : plan[e].state # "ABSENT"
      /\ \A s \in Step : plan[s].state \in {"ABSENT", "PENDING"} /\ plan[s].attempts = 0
  BY <1>1 DEF WriteStepPlan, PlanOf, NoStep
<1> QED BY <1>2 DEF Written

(* A submission that keeps every row but the one it writes for itself, and
   answers no parked one, keeps the invariant. *)
LEMMA WritingKeepsApplied ==
  ASSUME TypeOK, TypeOK', Ledger, Applied, NEW n, Counts(n), NEW K \in SUBSET Op,
         \A k \in K : Written(k, n), \A w \in Op \ K : Kept(w), \A v, w \in K : v = w,
         \A o \in Op : \/ outcome'[o] = outcome[o]
                       \/ /\ outcome[o] = "none" /\ outcome'[o] = "superseded"
                          /\ \/ o = n /\ K = {}
                             \/ o <= nOps /\ \A w \in Op \ K : wf'[w].state = "QUEUED" => wf[w].op # o
  PROVE  Applied'
<1>0. /\ \A w \in Op : wf[w].state # "NONE" => wf[w].op \in 1..nOps /\ wf[w].op \in Op /\ wf[w].op # n
      /\ nOps \in Nat /\ n \in Op /\ Op \subseteq Nat /\ n = nOps + 1
  BY Constants DEF Ledger, RowsCarry, TypeOK, Op, Counts
<1>1. FutureUnanswered'
  <2> SUFFICES ASSUME NEW o \in Op, o > n PROVE outcome'[o] = "none"
    BY DEF FutureUnanswered, Counts
  <2>1. o > nOps /\ o # n /\ ~(o <= nOps)
    BY <1>0
  <2> QED BY <2>1 DEF Applied, FutureUnanswered
<1>2. OneRowEach'
  BY <1>0 DEF Applied, OneRowEach, Written, Kept, RowKept
<1>3. NoneIsEmpty'
  BY DEF Applied, NoneIsEmpty, Written, Kept, RowKept
<1>4. ParkedUnanswered'
  <2> SUFFICES ASSUME NEW q \in Op, wf'[q].state = "QUEUED" PROVE outcome'[wf'[q].op] = "none"
    BY DEF ParkedUnanswered
  <2>1. CASE q \in K
    <3>1. wf'[q].op = n /\ outcome[n] = "none"
      BY <1>0, <2>1 DEF Written, Applied, FutureUnanswered
    <3> QED BY <1>0, <2>1, <3>1
  <2>2. CASE q \notin K
    <3>1. wf'[q].op = wf[q].op /\ wf[q].state = "QUEUED" /\ outcome[wf[q].op] = "none"
      BY <2>2 DEF Kept, RowKept, Applied, ParkedUnanswered
    <3> QED BY <1>0, <2>2, <3>1
  <2> QED BY <2>1, <2>2
<1>5. PlansCover'
  BY FreshPlan DEF Applied, PlansCover, Kept, RowKept
<1>6. BegunIsCounted'
  BY FreshPlan DEF Applied, BegunIsCounted, Kept
<1>7. \A p \in Worker : Counted(p)'
  <2> SUFFICES ASSUME NEW p \in Worker PROVE Counted(p)'
    OBVIOUS
  <2>1. at'[p] = at[p]
    BY DEF Counts, Aside
  <2>2. CASE at[p].pc = "idle"
    BY <2>1, <2>2 DEF Counted, Stepping
  <2>3. CASE at[p].pc # "idle"
    <3>1. at[p].w \in Op \ K
      BY <2>3, LedgerWorker DEF Written
    <3>2. /\ steps'[at[p].w] = steps[at[p].w] /\ wf'[at[p].w].type = wf[at[p].w].type
          /\ wf'[at[p].w].envs = wf[at[p].w].envs
      BY <3>1 DEF Kept, RowKept
    <3>3. Counted(p)
      BY DEF Applied
    <3> QED BY <2>1, <3>2, <3>3 DEF Counted, Attempted
  <2> QED BY <2>2, <2>3
<1>8. SuccessWasApplied'
  <2> SUFFICES ASSUME NEW o \in Op, outcome'[o] = "success"
               PROVE  \E w \in Op : /\ wf'[w].op = o
                                    /\ \A e \in OrderedEnvironments(wf'[w].type, wf'[w].envs) :
                                         steps'[w][e].attempts > 0
    BY DEF SuccessWasApplied
  <2>1. outcome[o] = "success"
    OBVIOUS
  <2>2. PICK w \in Op : wf[w].op = o /\ Attempted(w)
    BY <2>1 DEF Applied, SuccessWasApplied, Attempted
  <2>3. w \notin K
    BY <1>0, <2>1, <2>2 DEF Written, Applied, NoneIsEmpty, ParkedUnanswered, Op
  <2>4. /\ steps'[w] = steps[w] /\ wf'[w].op = o /\ wf'[w].type = wf[w].type
        /\ wf'[w].envs = wf[w].envs
    BY <2>2, <2>3 DEF Kept, RowKept
  <2> QED BY <2>2, <2>4 DEF Attempted
<1> QED BY <1>1, <1>2, <1>3, <1>4, <1>5, <1>6, <1>7, <1>8 DEF Applied

(* No submission breaks the invariant. *)
LEMMA SubmissionKeepsApplied ==
  ASSUME TypeOK, TypeOK', Ledger, Applied, NEW u \in User, Submission(u)
  PROVE  Applied'
<1>0. /\ \A w \in Op : wf[w].state # "NONE" => wf[w].op \in Op /\ wf[w].op <= nOps
      /\ \A w \in Op : wf'[w] = wf[w] /\ steps'[w] = steps[w] => Kept(w)
  BY Constants DEF Ledger, RowsCarry, TypeOK, Op, Kept, RowKept
<1>1. CASE Quietly
  BY <1>1 DEF Quietly, Aside, Applied, FutureUnanswered, OneRowEach, NoneIsEmpty, ParkedUnanswered,
     PlansCover, BegunIsCounted, Counted, Attempted, SuccessWasApplied
<1>2. ASSUME NEW n \in Op, Adopts(n) PROVE Applied'
  <2>1. \A w \in Op : Kept(w)
    BY <1>0, <1>2 DEF Adopts
  <2>2. outcome[n] = "none"
    BY <1>2 DEF Adopts, Counts, Applied, FutureUnanswered, TypeOK
  <2>3. \A o \in Op : \/ outcome'[o] = outcome[o]
                      \/ outcome[o] = "none" /\ outcome'[o] = "superseded" /\ o = n
    BY <1>2, <2>2 DEF Adopts, TypeOK
  <2>4. Counts(n)
    BY <1>2 DEF Adopts
  <2> DEFINE K == {}
  <2>5. K \in SUBSET Op /\ (\A v \in K : Written(v, n)) /\ \A v, w \in K : v = w
    BY <2>4
  <2>6. \A w \in Op \ K : Kept(w)
    BY <2>1
  <2>7. \A o \in Op : \/ outcome'[o] = outcome[o]
                      \/ /\ outcome[o] = "none" /\ outcome'[o] = "superseded"
                         /\ \/ o = n /\ K = {}
                            \/ o <= nOps /\ \A w \in Op \ K : wf'[w].state = "QUEUED" => wf[w].op # o
    BY <2>3
  <2> HIDE DEF K
  <2> QED BY <2>4, <2>5, <2>6, <2>7, WritingKeepsApplied
<1>3. ASSUME NEW n \in Op, Enters(n) PROVE Applied'
  <2>1. \A w \in Op \ {n} : Kept(w)
    BY <1>0, <1>3 DEF Enters, Writes
  <2>2. Counts(n) /\ Written(n, n) /\ outcome' = outcome
    BY <1>3 DEF Enters, Writes
  <2> DEFINE K == {n}
  <2>5. K \in SUBSET Op /\ (\A v \in K : Written(v, n)) /\ \A v, w \in K : v = w
    BY <2>2
  <2>6. \A w \in Op \ K : Kept(w)
    BY <2>1
  <2>7. \A o \in Op : \/ outcome'[o] = outcome[o]
                      \/ /\ outcome[o] = "none" /\ outcome'[o] = "superseded"
                         /\ \/ o = n /\ K = {}
                            \/ o <= nOps /\ \A w \in Op \ K : wf'[w].state = "QUEUED" => wf[w].op # o
    BY <2>2
  <2> HIDE DEF K
  <2> QED BY <2>2, <2>5, <2>6, <2>7, WritingKeepsApplied
<1>4. ASSUME NEW n \in Op, NEW k \in Op, Parks(k, n) PROVE Applied'
  <2>1. \A w \in Op \ {k} : Kept(w)
    BY <1>0, <1>4 DEF Parks, Writes
  <2>2. Counts(n) /\ Written(k, n)
    BY <1>4 DEF Parks, Writes
  <2>4. \A o \in Op : \/ outcome'[o] = outcome[o]
                      \/ /\ outcome[o] = "none" /\ outcome'[o] = "superseded"
                         /\ o <= nOps /\ \A w \in Op \ {k} : wf'[w].state = "QUEUED" => wf[w].op # o
    <3>1. CASE outcome' = outcome
      BY <3>1
    <3>2. CASE wf[k].state = "QUEUED" /\ outcome' = Recorded(outcome, wf[k].op, "superseded")
      <4>1. wf[k].op \in Op /\ wf[k].op <= nOps
        BY <1>0, <3>2
      <4>2. \A w \in Op \ {k} : wf'[w].state = "QUEUED" => wf[w].op # wf[k].op
        BY <2>1, <3>2 DEF Kept, RowKept, Applied, OneRowEach
      <4>3. \A o \in Op : \/ outcome'[o] = outcome[o]
                          \/ o = wf[k].op /\ outcome[o] = "none" /\ outcome'[o] = "superseded"
        BY <3>2, <4>1 DEF Recorded, TypeOK
      <4> QED BY <4>1, <4>2, <4>3
    <3> QED BY <1>4, <3>1, <3>2 DEF Parks
  <2> DEFINE K == {k}
  <2>5. K \in SUBSET Op /\ (\A v \in K : Written(v, n)) /\ \A v, w \in K : v = w
    BY <2>2
  <2>6. \A w \in Op \ K : Kept(w)
    BY <2>1
  <2>7. \A o \in Op : \/ outcome'[o] = outcome[o]
                      \/ /\ outcome[o] = "none" /\ outcome'[o] = "superseded"
                         /\ \/ o = n /\ K = {}
                            \/ o <= nOps /\ \A w \in Op \ K : wf'[w].state = "QUEUED" => wf[w].op # o
    BY <2>4
  <2> HIDE DEF K
  <2> QED BY <2>2, <2>5, <2>6, <2>7, WritingKeepsApplied
<1>5. ASSUME NEW n \in Op, TakesOver(n) PROVE Applied'
  <2>1. \A w \in Op \ {n} : Kept(w) /\ wf'[w].state # "QUEUED"
    BY <1>5 DEF TakesOver, Active
  <2>2. Counts(n) /\ Written(n, n)
    BY <1>5 DEF TakesOver
  <2>4. \A o \in Op : \/ outcome'[o] = outcome[o]
                      \/ outcome[o] = "none" /\ outcome'[o] = "superseded" /\ o <= nOps
    BY <1>0, <1>5 DEF TakesOver, Active
  <2> DEFINE K == {n}
  <2>5. K \in SUBSET Op /\ (\A v \in K : Written(v, n)) /\ \A v, w \in K : v = w
    BY <2>2
  <2>6. \A w \in Op \ K : Kept(w)
    BY <2>1
  <2>7. \A o \in Op : \/ outcome'[o] = outcome[o]
                      \/ /\ outcome[o] = "none" /\ outcome'[o] = "superseded"
                         /\ \/ o = n /\ K = {}
                            \/ o <= nOps /\ \A w \in Op \ K : wf'[w].state = "QUEUED" => wf[w].op # o
    BY <2>1, <2>4
  <2> HIDE DEF K
  <2> QED BY <2>2, <2>5, <2>6, <2>7, WritingKeepsApplied
<1> QED BY <1>1, <1>2, <1>3, <1>4, <1>5, SubmissionMoves

(* The other steps that keep the invariant. *)
LEMMA UnsubmittedKeepsApplied ==
  ASSUME TypeOK, TypeOK', Ledger, Applied, Unsubmitted
  PROVE  Applied'
<1>1. nOps' = nOps /\ \A v \in Op : RowKept(v)
  BY RowsAreKept
<1>2. CASE /\ steps' = steps /\ outcome' = outcome
           /\ \A p \in Worker : at'[p] = at[p] \/ at'[p].pc \in {"idle", "load"}
  <2>1. StepsAdvance /\ OutcomesAdvance
    BY <1>2 DEF StepsAdvance, OutcomesAdvance
  <2>2. \A p \in Worker : at'[p] = at[p] \/ at'[p].pc \notin Stepping
    BY <1>2 DEF Stepping
  <2> QED BY <1>1, <2>1, <2>2, AdvanceKeepsApplied
<1>3. ASSUME NEW p \in Worker, Ran(p) PROVE Applied'
  <2>1. StepsAdvance /\ OutcomesAdvance /\ Counted(p)'
    BY <1>1, <1>3, PlansAdvance, OutcomesMove, CountedMoves
  <2>2. \A q \in Worker : at'[q] = at[q] \/ at'[q].pc \notin Stepping \/ Counted(q)'
    BY <1>3, <2>1, WorkerMoves
  <2> QED BY <1>1, <2>1, <2>2, AdvanceKeepsApplied
<1>4. CASE PromoteOrphan
  BY <1>2, <1>4 DEF PromoteOrphan
<1>5. ASSUME NEW p \in Worker, NEW w \in Op, Claim(p, w) PROVE Applied'
  BY <1>2, <1>5, ClaimWrites DEF Claim
<1>6. ASSUME NEW w \in Op, \/ BackoffElapses(w) \/ LeaseLapses(w) \/ LeaseLost(w)
                           \/ \E e \in Env : LateApply(w, e)
      PROVE  Applied'
  BY <1>2, <1>6 DEF BackoffElapses, LeaseLapses, LeaseLost, LateApply
<1>7. ASSUME NEW pod \in Pod, Crash(pod) PROVE Applied'
  BY <1>2, <1>7 DEF Crash, Idle
<1> QED BY <1>3, <1>4, <1>5, <1>6, <1>7 DEF Unsubmitted

(* The invariant holds throughout. *)
THEOREM AppliedHolds == Spec => []Applied
<1>1. Init => Applied
  BY Constants DEF Init, Applied, FutureUnanswered, OneRowEach, NoneIsEmpty, ParkedUnanswered,
     PlansCover, BegunIsCounted, Counted, Stepping, SuccessWasApplied, NoRow, NoStep, Idle
<1>2. TypeOK /\ TypeOK' /\ Ledger /\ Applied /\ [Next]_vars => Applied'
  <2> SUFFICES ASSUME TypeOK, TypeOK', Ledger, Applied, [Next]_vars PROVE Applied'
    OBVIOUS
  <2>1. CASE Next
    BY <2>1, NextSplits, SubmissionKeepsApplied, UnsubmittedKeepsApplied
  <2>2. CASE UNCHANGED vars
    BY <2>2 DEF vars, Applied, FutureUnanswered, OneRowEach, NoneIsEmpty, ParkedUnanswered,
       PlansCover, BegunIsCounted, Counted, Attempted, SuccessWasApplied
  <2> QED BY <2>1, <2>2
<1> QED BY <1>1, <1>2, TypeCorrect, LedgerHolds, PTL DEF Spec

(* A success on record means that each environment of the payload was
   attempted (runNextStep, finalizeStep). *)
THEOREM SuccessIsApplied == Spec => []SuccessWasApplied
<1>1. Applied => SuccessWasApplied
  BY DEF Applied
<1> QED BY <1>1, AppliedHolds, PTL

-----------------------------------------------------------------------------
(* One worker at a time, in the order of the plan: the inductive invariant *)

\* No worker is slower than its lease, and a closed row keeps its lease or no
\* row is closed under a worker.
LeasesLast == "stall" \notin Faults /\ (OmitsNull \/ "delete" \notin Intents)

AskedFor == \A u \in User : sub[u].pc # "away" => sub[u].intent \in Intents

\* What a worker holds is under a live lease, as long as it could be claimed.
HeldLeased(p) ==
  at[p].pc # "idle" =>
    /\ OmitsNull \/ wf[at[p].w].state \in Claimable => wf[at[p].w].lease = "live"
    /\ ~OmitsNull /\ at[p].pc = "start" => wf[at[p].w].state \in Claimable
    /\ at[p].pc = "abandon" => wf[at[p].w].state \notin Claimable

\* A worker at a step is at the first unfinished one.
InOrder(p) ==
  /\ at[p].pc \in Stepping => IsNextStep(at[p].w, at[p].step)
  /\ at[p].pc = "complete" => IsNextStep(at[p].w, Done)

Ordering ==
  /\ AskedFor
  /\ SingleOwner
  /\ \A p \in Worker : HeldLeased(p)
  /\ StepsInOrder
  /\ \A p \in Worker : InOrder(p)

\* IsNextStep of the plans after a step.
UnfinishedThen(w, s) == steps'[w][s].state \notin Finished \cup {"ABSENT"}
NextThen(w, s) ==
  /\ s # Done => UnfinishedThen(w, s)
  /\ \A r \in Step : r < s => ~UnfinishedThen(w, r)

(* The read of the claimed row finds it PENDING before a start; the probe finds
   it closed before an abandon. *)
LEMMA WorkerSees ==
  ASSUME TypeOK, NEW p \in Worker, Ran(p)
  PROVE  /\ at'[p].pc = "start" => wf[at[p].w].state = "PENDING" /\ wf' = wf
         /\ at'[p].pc = "abandon" => wf[at[p].w].state = "SUPERSEDED" /\ wf' = wf
<1> USE DEF Pc
<1>1. CASE Load(p)
  BY <1>1, GoesTo DEF Load
<1>2. CASE Probe(p)
  <2>1. CASE wf[at[p].w].state \notin Claimable
    BY <1>2, <2>1, GoesTo DEF Probe
  <2>2. CASE wf[at[p].w].state \in Claimable
    <3>1. Found(p) \/ FoundDone(p)
      BY <1>2, <2>2, Zenon DEF Probe, Found, FoundDone
    <3>2. at'[p].pc \in {"begin", "complete"}
      BY <3>1, Finds, GoesTo DEF Found, FoundDone
    <3> QED BY <3>2
  <2> QED BY <2>1, <2>2
<1>3. CASE ~Load(p) /\ ~Probe(p)
  <2>1. at[p].pc = "load" => Throw(p)
    BY <1>3 DEF Ran, Engine, Start, Release, CloseOut, BeginStep, StepBody, ExecPlan, ExecApply,
       ExecOther, FinalizeOutcome, FinalizeStatus, CompleteStep, FailStep, SkipStep, Retry,
       CompleteWorkflow, FailWorkflow, FailStatus, FailOutcome, DeadLetter, StartQueued,
       Timeout, StepThrows, Heartbeat, BudgetSpent
  <2>2. at[p].pc = "probe" => Throw(p) \/ BudgetSpent(p)
    BY <1>3 DEF Ran, Engine, Start, Release, CloseOut, BeginStep, StepBody, ExecPlan, ExecApply,
       ExecOther, FinalizeOutcome, FinalizeStatus, CompleteStep, FailStep, SkipStep, Retry,
       CompleteWorkflow, FailWorkflow, FailStatus, FailOutcome, DeadLetter, StartQueued,
       Timeout, StepThrows, Heartbeat
  <2>3. Throw(p) \/ BudgetSpent(p) => at'[p].pc \notin {"start", "abandon"}
    BY GoesTo, Leaves DEF Throw, BudgetSpent
  <2>4. at'[p].pc = "start" => at[p].pc = "load"
    BY WorkerMoves DEF Before
  <2>5. at'[p].pc = "abandon" => at[p].pc = "probe"
    BY WorkerMoves DEF Before
  <2> QED BY <2>1, <2>2, <2>3, <2>4, <2>5
<1> QED BY <1>1, <1>2, <1>3

(* A worker's run leaves alone the rows that others hold. *)
LEMMA OthersRows ==
  ASSUME TypeOK, Ledger, NEW p \in Worker, Ran(p), NEW v \in Op \ {at[p].w}, wf[v].state # "QUEUED"
  PROVE  wf'[v] = wf[v]
<1>1. CASE PromoteQueued
  BY <1>1, PromotionWrites
<1>2. CASE \E s, l : Becomes(at[p].w, s, l)
  BY <1>2 DEF Becomes
<1> QED BY <1>1, <1>2, RowMoves DEF RowMove

(* One worker per row, as long as what is held is leased. *)
LEMMA OwnerMoves ==
  ASSUME TypeOK, Ledger, Ordering, Unsubmitted
  PROVE  SingleOwner'
<1>1. CASE \A p \in Worker : at'[p].pc # "idle" => at[p].pc # "idle" /\ at'[p].w = at[p].w
  BY <1>1 DEF Ordering, SingleOwner
<1>2. CASE at' = at
  BY <1>2 DEF Ordering, SingleOwner
<1>3. ASSUME NEW p \in Worker, Ran(p) PROVE SingleOwner'
  BY <1>1, <1>3, WorkerMoves
<1>4. ASSUME NEW p \in Worker, NEW w \in Op, Claim(p, w) PROVE SingleOwner'
  <2>1. wf[w].state \in Claimable /\ wf[w].lease # "live"
    BY <1>4 DEF Claim, MayClaim
  <2>2. \A q \in Worker : at[q].pc # "idle" => at[q].w # w
    BY <2>1 DEF Ordering, HeldLeased
  <2>3. at'[p].w = w /\ \A q \in Worker \ {p} : at'[q] = at[q]
    BY <1>4, ClaimWrites
  <2> QED BY <2>2, <2>3 DEF Ordering, SingleOwner
<1>5. ASSUME NEW pod \in Pod, Crash(pod) PROVE SingleOwner'
  BY <1>1, <1>5 DEF Crash, Idle
<1> QED BY <1>2, <1>3, <1>4, <1>5
        DEF Unsubmitted, PromoteOrphan, BackoffElapses, LeaseLapses, LeaseLost, LateApply

(* A worker's run keeps what is held under lease. *)
LEMMA LeaseRan ==
  ASSUME TypeOK, Ledger, Ordering, NEW p \in Worker, Ran(p), NEW q \in Worker
  PROVE  HeldLeased(q)'
<1> DEFINE w == at[p].w
<1>1. CASE q # p
  <2>1. at'[q] = at[q]
    BY <1>1, WorkerMoves
  <2>2. CASE at[q].pc # "idle"
    <3>1. at[q].w \in Op \ {w} /\ wf[at[q].w].state # "QUEUED"
      BY <1>1, <2>2, RanMoves, LedgerWorker DEF Ordering, SingleOwner
    <3>2. wf'[at[q].w] = wf[at[q].w]
      BY <3>1, OthersRows
    <3>3. HeldLeased(q)
      BY DEF Ordering
    <3> QED BY <2>1, <3>2, <3>3 DEF HeldLeased
  <2> QED BY <2>1, <2>2 DEF HeldLeased
<1>2. CASE q = p /\ at'[p].pc # "idle"
  <2>1. /\ at'[p].w = w /\ w \in Op /\ at[p].pc # "idle" /\ at[p].pc \in Before(at'[p].pc)
        /\ wf[w].state \notin {"NONE", "QUEUED"}
    BY <1>2, WorkerMoves, LedgerWorker
  <2>2. /\ OmitsNull \/ wf[w].state \in Claimable => wf[w].lease = "live"
        /\ ~OmitsNull /\ at[p].pc = "start" => wf[w].state \in Claimable
        /\ at[p].pc = "abandon" => wf[w].state \notin Claimable
    BY <2>1 DEF Ordering, HeldLeased
  <2>3. OmitsNull \/ wf'[w].state \in Claimable => wf'[w].lease = "live"
    <3>1. CASE wf' = wf
      BY <2>2, <3>1
    <3>2. CASE at[p].pc = "start" /\ Becomes(w, "RUNNING", wf[w].lease)
      BY <2>2, <3>2 DEF Becomes
    <3>3. CASE at[p].pc = "abandon" /\ Becomes(w, wf[w].state, Dropped(w))
      BY <2>2, <3>3 DEF Becomes, Dropped
    <3>4. CASE \E s \in {"COMPLETED", "FAILED"} : Becomes(w, s, Dropped(w))
      BY <2>2, <3>4 DEF Becomes, Dropped, Claimable
    <3>5. CASE Becomes(w, wf[w].state, "live")
      BY <3>5 DEF Becomes
    <3> QED BY <1>2, <3>1, <3>2, <3>3, <3>4, <3>5, RowMoves DEF RowMove
  <2>4. at'[p].pc = "start" => wf'[w].state \in Claimable
    BY WorkerSees DEF Claimable
  <2>5. at'[p].pc = "abandon" => wf'[w].state \notin Claimable
    BY WorkerSees DEF Claimable
  <2> QED BY <1>2, <2>1, <2>3, <2>4, <2>5 DEF HeldLeased
<1>3. CASE q = p /\ at'[p].pc = "idle"
  BY <1>3 DEF HeldLeased
<1> QED BY <1>1, <1>2, <1>3

(* So does every other step between submissions, where leases last. *)
LEMMA LeaseMoves ==
  ASSUME TypeOK, Ledger, LeasesLast, Ordering, Unsubmitted, NEW q \in Worker
  PROVE  HeldLeased(q)'
<1>0. HeldLeased(q)
  BY DEF Ordering
<1>1. ASSUME NEW p \in Worker, Ran(p) PROVE HeldLeased(q)'
  BY <1>1, LeaseRan
<1>2. CASE at[q].pc = "idle" /\ at'[q] = at[q]
  BY <1>2 DEF HeldLeased
<1>3. ASSUME at[q].pc # "idle", at'[q] = at[q], wf'[at[q].w] = wf[at[q].w]
      PROVE  HeldLeased(q)'
  BY <1>0, <1>3 DEF HeldLeased
<1>4. ASSUME NEW p \in Worker, NEW w \in Op, Claim(p, w) PROVE HeldLeased(q)'
  <2>1. /\ Becomes(w, wf[w].state, "live") /\ at'[p].pc = "load" /\ at'[p].w = w
        /\ \A r \in Worker \ {p} : at'[r] = at[r]
        /\ wf[w].state \in Claimable /\ wf[w].lease # "live"
    BY <1>4, ClaimWrites DEF Claim, MayClaim
  <2>2. CASE q = p
    BY <2>1, <2>2 DEF HeldLeased, Becomes
  <2>3. CASE q # p /\ at[q].pc # "idle"
    <3>1. at[q].w # w /\ at[q].w \in Op
      BY <1>0, <2>1, <2>3, LedgerWorker DEF HeldLeased
    <3> QED BY <1>3, <2>1, <2>3, <3>1 DEF Becomes
  <2> QED BY <1>2, <2>1, <2>2, <2>3
<1>5. ASSUME NEW w \in Op, BackoffElapses(w) \/ LeaseLapses(w) \/ LeaseLost(w) PROVE HeldLeased(q)'
  <2>1. /\ at' = at
        /\ \/ Becomes(w, wf[w].state, wf[w].lease)
           \/ Becomes(w, wf[w].state, "expired") /\ \A p \in Worker : ~Works(p, w)
    BY <1>5, ClockWrites DEF LeasesLast
  <2>2. CASE at[q].pc # "idle"
    <3>1. at[q].w \in Op
      BY <2>2, LedgerWorker
    <3>2. wf'[at[q].w].state = wf[at[q].w].state /\ wf'[at[q].w].lease = wf[at[q].w].lease
      BY <2>1, <2>2, <3>1 DEF Becomes, Works
    <3> QED BY <1>0, <2>1, <3>2 DEF HeldLeased
  <2> QED BY <1>2, <2>1, <2>2
<1>6. CASE PromoteOrphan
  <2>1. at[q].pc # "idle" => wf'[at[q].w] = wf[at[q].w]
    BY <1>6, LedgerWorker, PromotionWrites DEF PromoteOrphan
  <2>2. at' = at
    BY <1>6 DEF PromoteOrphan
  <2> QED BY <1>2, <1>3, <2>1, <2>2
<1>7. ASSUME NEW w \in Op, NEW e \in Env, LateApply(w, e) PROVE HeldLeased(q)'
  BY <1>2, <1>3, <1>7 DEF LateApply
<1>8. ASSUME NEW pod \in Pod, Crash(pod) PROVE HeldLeased(q)'
  <2>1. wf' = wf /\ (at'[q] = at[q] \/ at'[q].pc = "idle")
    BY <1>8 DEF Crash, Idle
  <2> QED BY <1>2, <1>3, <2>1 DEF HeldLeased
<1> QED BY <1>1, <1>4, <1>5, <1>6, <1>7, <1>8 DEF Unsubmitted

(* A worker's mark leaves no step unfinished that was not, and counts only at
   the next step; who is still at a step is at the next one. *)
LEMMA MarksInOrder ==
  ASSUME TypeOK, Ledger, Applied, Ordering, NEW p \in Worker, Ran(p)
  PROVE  /\ \A v \in Op \ {at[p].w} : steps'[v] = steps[v]
         /\ \A r \in Step : UnfinishedThen(at[p].w, r) => Unfinished(at[p].w, r)
         /\ \A r \in Step : \/ steps'[at[p].w][r].attempts = steps[at[p].w][r].attempts
                            \/ IsNextStep(at[p].w, r)
         /\ at'[p].pc \in Stepping => NextThen(at'[p].w, at'[p].step)
         /\ at'[p].pc = "complete" => NextThen(at'[p].w, Done)
<1> DEFINE w == at[p].w  s == at[p].step
<1>1. w \in Op /\ steps \in [Op -> [Step -> StepType]] /\ (at'[p].pc # "idle" => at'[p].w = w)
  BY RanMoves, WorkerFacts, WorkerMoves DEF TypeOK
<1>2. Done \notin Step
  BY Constants DEF Done, NOTIFY, Step, PLAN
<1>3. at'[p].pc \in Stepping \ {"begin"} =>
        /\ at'[p].step = s /\ at[p].pc \in Stepping /\ at'[p].w = w
  BY <1>1, WorkerMoves DEF Stepping, Before
<1>4. CASE steps' = steps /\ ~(at[p].pc = "begin" /\ at'[p].pc = "exec")
  <2>1. \A t : NextThen(w, t) <=> IsNextStep(w, t)
    BY <1>4 DEF NextThen, IsNextStep, UnfinishedThen, Unfinished
  <2>2. at'[p].pc = "begin" => IsNextStep(w, at'[p].step)
    BY WorkerMoves
  <2>3. at'[p].pc \in Stepping \ {"begin"} => IsNextStep(w, at'[p].step)
    BY <1>3 DEF Ordering, InOrder
  <2>4. at'[p].pc = "complete" => IsNextStep(w, Done)
    BY WorkerMoves
  <2>5. at'[p].pc \in Stepping \/ at'[p].pc = "complete" => at'[p].w = w
    BY <1>1 DEF Stepping
  <2> QED BY <1>4, <2>1, <2>2, <2>3, <2>4, <2>5 DEF UnfinishedThen, Unfinished
<1>5. ASSUME at[p].pc \in Stepping, NEW x, steps' = [steps EXCEPT ![w][s] = x],
             at'[p].pc \notin {"begin", "complete"},
             at'[p].pc \in Stepping => x.state \notin Finished \cup {"ABSENT"}
      PROVE  /\ \A v \in Op \ {w} : steps'[v] = steps[v]
             /\ \A r \in Step : UnfinishedThen(w, r) => Unfinished(w, r)
             /\ \A r \in Step : \/ steps'[w][r].attempts = steps[w][r].attempts
                                \/ IsNextStep(w, r)
             /\ at'[p].pc \in Stepping => NextThen(at'[p].w, at'[p].step)
             /\ at'[p].pc # "complete"
  <2>1. s \in Step /\ IsNextStep(w, s) /\ Unfinished(w, s)
    BY <1>2, <1>5 DEF Applied, Counted, Ordering, InOrder, IsNextStep
  <2>2. /\ \A v \in Op \ {w} : steps'[v] = steps[v]
        /\ \A r \in Step \ {s} : steps'[w][r] = steps[w][r]
        /\ steps'[w][s] = x
    BY <1>1, <1>5, <2>1
  <2>3. \A r \in Step : UnfinishedThen(w, r) => Unfinished(w, r)
    BY <2>1, <2>2 DEF UnfinishedThen, Unfinished
  <2>4. at'[p].pc \in Stepping => NextThen(w, s)
    BY <1>5, <2>1, <2>2, <2>3 DEF NextThen, UnfinishedThen, IsNextStep
  <2>5. at'[p].pc \in Stepping => at'[p].step = s /\ at'[p].w = w
    BY <1>3, <1>5
  <2> QED BY <1>5, <2>1, <2>2, <2>3, <2>4, <2>5
<1>6. CASE /\ at[p].pc = "begin" /\ at'[p].pc = "exec"
           /\ steps' = [steps EXCEPT ![w][s] = [state |-> "RUNNING", attempts |-> at[p].attempt]]
  <2> DEFINE x == [state |-> "RUNNING", attempts |-> at[p].attempt]
  <2>1. x.state \notin Finished \cup {"ABSENT"}
    BY DEF Finished
  <2>2. steps' = [steps EXCEPT ![w][s] = x]
    BY <1>6
  <2> HIDE DEF x
  <2> QED BY <1>5, <1>6, <2>1, <2>2 DEF Stepping
<1>7. ASSUME at[p].pc \in {"settle", "failed", "skip"}, NEW st \in {"COMPLETED", "FAILED", "SKIPPED"},
             SetStep(p, st), at'[p].pc \in {"probe", "retry", "skip", "fail"},
             at'[p].pc = "skip" => st = "FAILED"
      PROVE  /\ \A v \in Op \ {w} : steps'[v] = steps[v]
             /\ \A r \in Step : UnfinishedThen(w, r) => Unfinished(w, r)
             /\ \A r \in Step : \/ steps'[w][r].attempts = steps[w][r].attempts
                                \/ IsNextStep(w, r)
             /\ at'[p].pc \in Stepping => NextThen(at'[p].w, at'[p].step)
             /\ at'[p].pc # "complete"
  <2> DEFINE x == [steps[w][s] EXCEPT !.state = st]
  <2>1. s \in Step
    BY <1>7 DEF Applied, Counted, Stepping
  <2>2. x.state = st
    BY <1>1, <2>1 DEF StepType
  <2>3. steps' = [steps EXCEPT ![w][s] = x]
    BY <1>7 DEF SetStep
  <2> HIDE DEF x
  <2> QED BY <1>5, <1>7, <2>2, <2>3 DEF Stepping, Finished
<1>8. PlanMove(p)
  BY OtherMoves
<1>9. CASE \/ at[p].pc = "settle" /\ at'[p].pc = "probe" /\ SetStep(p, "COMPLETED")
           \/ at[p].pc = "failed" /\ at'[p].pc \in {"retry", "skip", "fail"} /\ SetStep(p, "FAILED")
           \/ at[p].pc = "skip" /\ at'[p].pc = "probe" /\ SetStep(p, "SKIPPED")
  BY <1>7, <1>9
<1>10. CASE /\ at[p].pc = "begin" /\ at'[p].pc = "exec"
            /\ steps' = [steps EXCEPT ![at[p].w][at[p].step] =
                           [state |-> "RUNNING", attempts |-> at[p].attempt]]
  BY <1>6, <1>10
<1> QED BY <1>4, <1>8, <1>9, <1>10 DEF PlanMove

(* A row is COMPLETED by the worker that found nothing left. *)
LEMMA CompletedAtTheEnd ==
  ASSUME TypeOK, Ledger, NEW p \in Worker, Ran(p), NEW v \in Op, wf'[v].state = "COMPLETED"
  PROVE  wf[v].state = "COMPLETED" \/ (v = at[p].w /\ at[p].pc = "complete")
<1>1. CASE wf' = wf
  BY <1>1
<1>2. CASE PromoteQueued
  BY <1>2, PromotionWrites
<1>3. CASE \E s, l : Becomes(at[p].w, s, l) /\ s \in {"RUNNING", "FAILED", wf[at[p].w].state}
  BY <1>3 DEF Becomes
<1>4. CASE at[p].pc = "complete" /\ \E s, l : Becomes(at[p].w, s, l)
  BY <1>4 DEF Becomes
<1> QED BY <1>1, <1>2, <1>3, <1>4, RowMoves DEF RowMove

(* A worker's run keeps the steps and the workers in order. *)
LEMMA RanInOrder ==
  ASSUME TypeOK, TypeOK', Ledger, Applied, Ordering, NEW p \in Worker, Ran(p)
  PROVE  StepsInOrder' /\ \A q \in Worker : InOrder(q)'
<1> DEFINE w == at[p].w
<1>1. w \in Op /\ at[p].pc # "idle"
  BY RanMoves, WorkerFacts
<1>2. \A v \in Op, r \in Step : UnfinishedThen(v, r) => Unfinished(v, r)
  BY <1>1, MarksInOrder DEF UnfinishedThen, Unfinished
<1>3. \A v \in Op, r \in Step : steps'[v][r].attempts = steps[v][r].attempts \/ IsNextStep(v, r)
  BY <1>1, MarksInOrder
<1>4. ASSUME NEW v \in Op, NEW r \in Step, NEW s \in Step, r < s, UnfinishedThen(v, r)
      PROVE  steps'[v][s].attempts = 0
  <2>1. Unfinished(v, r)
    BY <1>2, <1>4
  <2>2. steps[v][s].attempts = 0 /\ ~IsNextStep(v, s)
    BY <1>4, <2>1 DEF Ordering, StepsInOrder, IsNextStep
  <2> QED BY <1>3, <2>2
<1>5. ASSUME NEW v \in Op, wf'[v].state = "COMPLETED", NEW s \in Step
      PROVE  ~UnfinishedThen(v, s)
  <2>1. CASE wf[v].state = "COMPLETED"
    BY <1>2, <2>1 DEF Ordering, StepsInOrder
  <2>2. CASE v = w /\ at[p].pc = "complete"
    <3>1. IsNextStep(v, Done)
      BY <2>2 DEF Ordering, InOrder
    <3>2. s < Done
      BY Constants DEF Step, Done, PLAN, NOTIFY
    <3> QED BY <1>2, <3>1, <3>2 DEF IsNextStep
  <2> QED BY <1>5, <2>1, <2>2, CompletedAtTheEnd
<1>6. StepsInOrder'
  BY <1>4, <1>5 DEF StepsInOrder, Unfinished, UnfinishedThen
<1>7. \A q \in Worker : InOrder(q)'
  <2> SUFFICES ASSUME NEW q \in Worker PROVE InOrder(q)'
    OBVIOUS
  <2>1. CASE q = p
    BY <2>1, MarksInOrder DEF InOrder, NextThen, IsNextStep, UnfinishedThen, Unfinished
  <2>2. CASE q # p /\ at[q].pc # "idle"
    <3>1. at'[q] = at[q] /\ at[q].w \in Op \ {w}
      BY <1>1, <2>2, WorkerMoves, WorkerFacts DEF Ordering, SingleOwner
    <3>2. steps'[at[q].w] = steps[at[q].w]
      BY <3>1, MarksInOrder
    <3>3. InOrder(q)
      BY DEF Ordering
    <3> QED BY <3>1, <3>2, <3>3 DEF InOrder, IsNextStep, Unfinished
  <2>3. CASE q # p /\ at[q].pc = "idle"
    BY <2>3, WorkerMoves DEF InOrder, Stepping
  <2> QED BY <2>1, <2>2, <2>3
<1> QED BY <1>6, <1>7

(* So does every other step between submissions: it marks no step. *)
LEMMA OrderMoves ==
  ASSUME TypeOK, TypeOK', Ledger, Applied, Ordering, Unsubmitted
  PROVE  StepsInOrder' /\ \A q \in Worker : InOrder(q)'
<1>1. ASSUME NEW p \in Worker, Ran(p) PROVE StepsInOrder' /\ \A q \in Worker : InOrder(q)'
  BY <1>1, RanInOrder
<1>2. ASSUME steps' = steps, \A v \in Op : wf'[v].state = "COMPLETED" => wf[v].state = "COMPLETED",
             \A q \in Worker : at'[q] = at[q] \/ at'[q].pc \in {"idle", "load"}
      PROVE  StepsInOrder' /\ \A q \in Worker : InOrder(q)'
  <2>1. StepsInOrder'
    BY <1>2 DEF Ordering, StepsInOrder, Unfinished
  <2>2. ASSUME NEW q \in Worker PROVE InOrder(q)'
    <3>1. CASE at'[q] = at[q]
      BY <1>2, <3>1 DEF Ordering, InOrder, IsNextStep, Unfinished
    <3>2. CASE at'[q].pc \in {"idle", "load"}
      BY <3>2 DEF InOrder, Stepping
    <3> QED BY <1>2, <3>1, <3>2
  <2> QED BY <2>1, <2>2
<1>3. CASE PromoteOrphan
  <2>1. \A v \in Op : wf'[v].state = "COMPLETED" => wf[v].state = "COMPLETED"
    BY <1>3, PromotionWrites DEF PromoteOrphan
  <2> QED BY <1>2, <1>3, <2>1 DEF PromoteOrphan
<1>4. ASSUME NEW p \in Worker, NEW w \in Op, Claim(p, w)
      PROVE  StepsInOrder' /\ \A q \in Worker : InOrder(q)'
  <2>1. /\ Becomes(w, wf[w].state, "live") /\ at'[p].pc = "load"
        /\ \A q \in Worker \ {p} : at'[q] = at[q]
    BY <1>4, ClaimWrites
  <2>2. steps' = steps
    BY <1>4 DEF Claim
  <2>3. \A v \in Op : wf'[v].state = wf[v].state
    BY <2>1 DEF Becomes
  <2> QED BY <1>2, <2>1, <2>2, <2>3
<1>5. ASSUME NEW w \in Op, BackoffElapses(w) \/ LeaseLapses(w) \/ LeaseLost(w)
      PROVE  StepsInOrder' /\ \A q \in Worker : InOrder(q)'
  BY <1>2, <1>5, ClockWrites DEF Becomes
<1>6. ASSUME NEW w \in Op, NEW e \in Env, LateApply(w, e)
      PROVE  StepsInOrder' /\ \A q \in Worker : InOrder(q)'
  BY <1>2, <1>6 DEF LateApply
<1>7. ASSUME NEW pod \in Pod, Crash(pod)
      PROVE  StepsInOrder' /\ \A q \in Worker : InOrder(q)'
  BY <1>2, <1>7 DEF Crash, Idle
<1> QED BY <1>1, <1>3, <1>4, <1>5, <1>6, <1>7 DEF Unsubmitted

(* Users ask for what they may ask for. *)
LEMMA AskingStays ==
  ASSUME TypeOK, AskedFor, NEW u \in User, Submission(u)
  PROVE  AskedFor'
<1>1. CASE sub' = [sub EXCEPT ![u] = Away]
  BY <1>1 DEF TypeOK, AskedFor, Away
<1>2. ASSUME NEW intent \in Intents, ReadRequest(u, intent) PROVE AskedFor'
  <2>1. PICK envs \in SUBSET Env :
          sub' = [sub EXCEPT ![u] =
                    [pc |-> "read", intent |-> intent, status |-> request.status,
                     archived |-> request.archived, version |-> request.version, envs |-> envs]]
    BY <1>2, Constants DEF ReadRequest, TypeOK, RequestType
  <2> QED BY <2>1 DEF TypeOK, AskedFor
<1>3. CASE FindNothingInFlight(u)
  <2> DEFINE c == [sub[u] EXCEPT !.pc = "insert"]
  <2>1. c.intent = sub[u].intent /\ sub[u].pc # "away"
    BY <1>3 DEF TypeOK, UserType, FindNothingInFlight
  <2>2. sub' = [sub EXCEPT ![u] = c]
    BY <1>3 DEF FindNothingInFlight
  <2> HIDE DEF c
  <2> QED BY <2>1, <2>2 DEF TypeOK, AskedFor
<1> QED BY <1>1, <1>2, <1>3 DEF Submission, GiveUp, DeleteDraft, Delete, Park, Insert

(* A submission leaves the rows that workers hold, or closes them without their
   lease going. *)
LEMMA WritingKeepsOrdering ==
  ASSUME TypeOK, TypeOK', Ledger, Ordering, AskedFor', Aside, NEW n, NEW K \in SUBSET Op,
         \A k \in K : Written(k, n), \A w \in Op \ K : Kept(w),
         OmitsNull \/ \A w \in Op \ K : wf'[w] = wf[w]
  PROVE  Ordering'
<1>1. SingleOwner'
  BY DEF Ordering, SingleOwner, Aside
<1>2. ASSUME NEW p \in Worker PROVE HeldLeased(p)' /\ InOrder(p)'
  <2>1. at'[p] = at[p] /\ HeldLeased(p) /\ InOrder(p)
    BY DEF Aside, Ordering
  <2>2. CASE at[p].pc = "idle"
    BY <2>1, <2>2 DEF HeldLeased, InOrder, Stepping
  <2>3. CASE at[p].pc # "idle"
    <3>1. at[p].w \in Op \ K
      BY <2>3, LedgerWorker DEF Written
    <3>2. steps'[at[p].w] = steps[at[p].w]
      BY <3>1 DEF Kept
    <3>3. InOrder(p)'
      BY <2>1, <3>2 DEF InOrder, IsNextStep, Unfinished
    <3>4. HeldLeased(p)'
      <4>1. CASE wf'[at[p].w] = wf[at[p].w]
        BY <2>1, <4>1 DEF HeldLeased
      <4>2. CASE OmitsNull /\ wf'[at[p].w].state = "SUPERSEDED" /\ wf'[at[p].w].lease = wf[at[p].w].lease
        BY <2>1, <2>3, <4>2 DEF HeldLeased, Claimable
      <4> QED BY <3>1, <4>1, <4>2 DEF Kept
    <3> QED BY <3>3, <3>4
  <2> QED BY <2>2, <2>3
<1>3. StepsInOrder'
  <2> SUFFICES ASSUME NEW w \in Op
               PROVE  /\ \A r, s \in Step : r < s /\ UnfinishedThen(w, r) => steps'[w][s].attempts = 0
                      /\ wf'[w].state = "COMPLETED" => \A s \in Step : ~UnfinishedThen(w, s)
    BY DEF StepsInOrder, Unfinished, UnfinishedThen
  <2>1. CASE w \in K
    <3>1. wf'[w].state # "COMPLETED" /\ \A s \in Step : steps'[w][s].attempts = 0
      BY <2>1, FreshPlan DEF Written
    <3> QED BY <3>1
  <2>2. CASE w \notin K
    <3>1. steps'[w] = steps[w] /\ (wf'[w].state = "COMPLETED" => wf[w].state = "COMPLETED")
      BY <2>2 DEF Kept
    <3> QED BY <3>1 DEF Ordering, StepsInOrder, Unfinished, UnfinishedThen
  <2> QED BY <2>1, <2>2
<1> QED BY <1>1, <1>2, <1>3 DEF Ordering

(* No submission breaks the invariant, where leases last. *)
LEMMA SubmissionKeepsOrdering ==
  ASSUME TypeOK, TypeOK', Ledger, LeasesLast, Ordering, NEW u \in User, Submission(u)
  PROVE  Ordering'
<1>0. AskedFor' /\ \A w \in Op : wf'[w] = wf[w] /\ steps'[w] = steps[w] => Kept(w)
  BY AskingStays DEF Ordering, Kept, RowKept
<1>1. ASSUME Aside, NEW k \in Op, NEW n, Written(k, n),
             \A w \in Op \ {k} : wf'[w] = wf[w] /\ steps'[w] = steps[w]
      PROVE  Ordering'
  <2> DEFINE K == {k}
  <2>1. /\ K \in SUBSET Op /\ \A v \in K : Written(v, n)
        /\ \A w \in Op \ K : Kept(w) /\ wf'[w] = wf[w]
    BY <1>0, <1>1
  <2> HIDE DEF K
  <2> QED BY <1>0, <1>1, <2>1, WritingKeepsOrdering
<1>2. CASE Aside /\ UNCHANGED <<wf, steps>>
  <2> DEFINE K == {}
  <2>1. /\ K \in SUBSET Op /\ \A v \in K : Written(v, 0)
        /\ \A w \in Op \ K : Kept(w) /\ wf'[w] = wf[w]
    BY <1>0, <1>2
  <2> HIDE DEF K
  <2> QED BY <1>0, <1>2, <2>1, WritingKeepsOrdering
<1>3. ASSUME NEW n \in Op, TakesOver(n), sub[u].intent = "delete", sub[u].pc = "read"
      PROVE  Ordering'
  <2> DEFINE K == {n}
  <2>1. OmitsNull
    BY <1>3 DEF Ordering, AskedFor, LeasesLast
  <2>2. /\ Aside /\ K \in SUBSET Op /\ \A v \in K : Written(v, n)
        /\ \A w \in Op \ K : Kept(w)
    BY <1>3 DEF TakesOver, Counts
  <2> HIDE DEF K
  <2> QED BY <1>0, <2>1, <2>2, WritingKeepsOrdering
<1> QED BY <1>1, <1>2, <1>3, SubmissionMoves
        DEF Quietly, Adopts, Enters, Parks, Writes, Counts

(* Where leases last, the invariant holds throughout. *)
THEOREM OrderingHolds == LeasesLast => (Spec => []Ordering)
<1> SUFFICES ASSUME LeasesLast PROVE Spec => []Ordering
  OBVIOUS
<1>1. Init => Ordering
  BY DEF Init, Ordering, AskedFor, SingleOwner, HeldLeased, StepsInOrder, InOrder, Unfinished,
     Stepping, NoRow, NoStep, Idle, Away
<1>2. TypeOK /\ TypeOK' /\ Ledger /\ Applied /\ Ordering /\ [Next]_vars => Ordering'
  <2> SUFFICES ASSUME TypeOK, TypeOK', Ledger, Applied, Ordering, [Next]_vars PROVE Ordering'
    OBVIOUS
  <2>1. ASSUME NEW u \in User, Submission(u) PROVE Ordering'
    BY <2>1, SubmissionKeepsOrdering
  <2>2. CASE Unsubmitted
    <3>1. AskedFor'
      BY <2>2, RowsAreKept DEF Ordering, AskedFor
    <3> QED BY <2>2, <3>1, OwnerMoves, LeaseMoves, OrderMoves DEF Ordering
  <2>3. CASE UNCHANGED vars
    BY <2>3 DEF vars, Ordering, AskedFor, SingleOwner, HeldLeased, StepsInOrder, InOrder,
       IsNextStep, Unfinished
  <2> QED BY <2>1, <2>2, <2>3, NextSplits
<1> QED BY <1>1, <1>2, TypeCorrect, LedgerHolds, AppliedHolds, PTL DEF Spec

(* Where leases last, one worker at a time drives a workflow: the claim alone
   keeps them apart (claimWorkflow, releaseWorkflow). *)
THEOREM OneWorkerEach == LeasesLast => (Spec => []SingleOwner)
<1>1. Ordering => SingleOwner
  BY DEF Ordering
<1> QED BY <1>1, OrderingHolds, PTL

(* Where leases last, steps run in the order of the plan and COMPLETED means
   that all are done (runNextStep). *)
THEOREM PlansRunInOrder == LeasesLast => (Spec => []StepsInOrder)
<1>1. Ordering => StepsInOrder
  BY DEF Ordering
<1> QED BY <1>1, OrderingHolds, PTL

-----------------------------------------------------------------------------
(* What was applied stays applied: the inductive invariant *)

\* No worker is slower than its lease, no call outlives its step, and nothing
\* is deleted.
Undisturbed == "stall" \notin Faults /\ "timeout" \notin Faults /\ "delete" \notin Intents

\* The statements before the terminal write of a workflow.
Driving ==
  {"load", "start", "probe", "begin", "exec", "finalize", "settle", "failed", "retry", "skip",
   "complete", "fail"}

\* A worker drives a claimable workflow, finalizes it at FINALIZE, and has
\* applied the environment it settles.
Driven(p) ==
  /\ at[p].pc \in Driving => wf[at[p].w].state \in Claimable
  /\ at[p].pc = "finalize" => at[p].step = FINALIZE
  /\ at[p].pc = "settle" /\ at[p].step \in Env => kc[at[p].step] = wf[at[p].w].version

Keeping ==
  /\ \A w \in Op : wf[w].type # "DELETE"
  /\ late = {}
  /\ \A p \in Worker : Driven(p)
  /\ AppliedStaysApplied

(* A worker finalizes at FINALIZE. *)
LEMMA FinalizeMoves ==
  ASSUME TypeOK, NEW p \in Worker, Ran(p), at'[p].pc = "finalize"
  PROVE  at[p].step = FINALIZE \/ at[p].pc = "finalize"
<1> USE DEF Pc
<1>1. at[p].pc \in {"exec", "finalize"}
  BY WorkerMoves DEF Before
<1>2. CASE ExecPlan(p) \/ ExecApply(p) \/ ExecOther(p)
  BY <1>2, GoesTo DEF ExecPlan, ExecApply, ExecOther
<1>3. CASE FinalizeOutcome(p) \/ FinalizeStatus(p)
  BY <1>3 DEF FinalizeOutcome, FinalizeStatus
<1>4. CASE Timeout(p) \/ StepThrows(p)
  BY <1>4, GoesTo DEF Timeout, StepThrows
<1>5. CASE Heartbeat(p)
  BY <1>5 DEF Heartbeat
<1> QED BY <1>1, <1>2, <1>3, <1>4, <1>5
        DEF Ran, Engine, Load, Start, Probe, Release, CloseOut, BeginStep, StepBody, CompleteStep,
            FailStep, SkipStep, Retry, CompleteWorkflow, FailWorkflow, FailStatus, FailOutcome,
            DeadLetter, StartQueued, Throw, BudgetSpent

(* A step is COMPLETED by the worker that settles it. *)
LEMMA CompletedWhenSettled ==
  ASSUME TypeOK, Applied, NEW p \in Worker, Ran(p), NEW v \in Op, NEW e \in Step,
         steps'[v][e].state = "COMPLETED"
  PROVE  \/ steps[v][e].state = "COMPLETED"
         \/ v = at[p].w /\ e = at[p].step /\ at[p].pc = "settle"
<1> DEFINE w == at[p].w  s == at[p].step
<1>1. w \in Op /\ steps \in [Op -> [Step -> StepType]]
  BY RanMoves, WorkerFacts DEF TypeOK
<1>2. CASE steps' = steps
  BY <1>2
<1>3. ASSUME at[p].pc \in Stepping, NEW x, steps' = [steps EXCEPT ![w][s] = x],
             x.state = "COMPLETED" => at[p].pc = "settle"
      PROVE  \/ steps[v][e].state = "COMPLETED"
             \/ v = w /\ e = s /\ at[p].pc = "settle"
  <2>1. s \in Step
    BY <1>3 DEF Applied, Counted
  <2> QED BY <1>1, <1>3, <2>1
<1>4. CASE /\ at[p].pc = "begin"
           /\ steps' = [steps EXCEPT ![w][s] = [state |-> "RUNNING", attempts |-> at[p].attempt]]
  BY <1>3, <1>4 DEF Stepping
<1>5. ASSUME at[p].pc \in {"settle", "failed", "skip"}, NEW st \in {"COMPLETED", "FAILED", "SKIPPED"},
             SetStep(p, st), st = "COMPLETED" => at[p].pc = "settle"
      PROVE  \/ steps[v][e].state = "COMPLETED"
             \/ v = w /\ e = s /\ at[p].pc = "settle"
  <2> DEFINE x == [steps[w][s] EXCEPT !.state = st]
  <2>1. s \in Step
    BY <1>5 DEF Applied, Counted, Stepping
  <2>2. x.state = st
    BY <1>1, <2>1 DEF StepType
  <2>3. steps' = [steps EXCEPT ![w][s] = x]
    BY <1>5 DEF SetStep
  <2> HIDE DEF x
  <2> QED BY <1>3, <1>5, <2>2, <2>3 DEF Stepping
<1> QED BY <1>2, <1>4, <1>5, OtherMoves DEF PlanMove

(* A worker's run keeps what it drives claimable. *)
LEMMA DrivenClaimable ==
  ASSUME TypeOK, Ledger, Keeping, NEW p \in Worker, Ran(p), at'[p].pc \in Driving
  PROVE  at[p].pc \in Driving /\ at'[p].w = at[p].w /\ wf'[at[p].w].state \in Claimable
<1> DEFINE w == at[p].w
<1>1. at[p].pc \in Before(at'[p].pc) /\ at'[p].pc # "load" /\ at'[p].w = w
  BY WorkerMoves DEF Driving
<1>2. at[p].pc \in Driving
  BY <1>1 DEF Before, Driving
<1>3. wf[w].state \in Claimable
  BY <1>2 DEF Keeping, Driven
<1>4. CASE wf' = wf
  BY <1>1, <1>2, <1>3, <1>4
<1>5. CASE \E l : Becomes(w, "RUNNING", l) \/ Becomes(w, wf[w].state, l)
  BY <1>1, <1>2, <1>3, <1>5 DEF Becomes, Claimable
<1> QED BY <1>1, <1>2, <1>3, <1>4, <1>5, RowMoves DEF RowMove, Driving

(* Two workers that drive drive different rows only if one of them is closed:
   so they are one. *)
LEMMA OneDrives ==
  ASSUME TypeOK, Ledger, OneClaimableOneQueued, Ordering, Keeping,
         NEW p \in Worker, NEW q \in Worker, at[p].pc \in Driving, at[q].pc \in Driving
  PROVE  p = q
<1>1. at[p].pc # "idle" /\ at[q].pc # "idle"
  BY DEF Driving
<1>2. /\ at[p].w \in Op /\ at[q].w \in Op
      /\ wf[at[p].w].state \in Claimable /\ wf[at[q].w].state \in Claimable
  BY <1>1, WorkerFacts DEF Keeping, Driven
<1>3. at[p].w = at[q].w
  BY <1>2 DEF OneClaimableOneQueued
<1> QED BY <1>1, <1>3 DEF Ordering, SingleOwner

(* A worker's run keeps what it and the others drive. *)
LEMMA RanKeepsDriven ==
  ASSUME TypeOK, Ledger, OneClaimableOneQueued, Applied, Ordering, Keeping,
         NEW p \in Worker, Ran(p), NEW q \in Worker
  PROVE  Driven(q)'
<1> DEFINE w == at[p].w
<1>1. at[p].pc # "idle" /\ w \in Op /\ \A v \in Op : RowKept(v)
  BY RanMoves, WorkerFacts, RanKeepsRows
<1>2. CASE q = p
  <2>1. at'[p].pc \in Driving => at'[p].w = w /\ wf'[w].state \in Claimable
    BY DrivenClaimable
  <2>2. at'[p].pc = "finalize" => at'[p].step = FINALIZE
    <3>1. at'[p].pc = "finalize" => at'[p].step = at[p].step
      BY WorkerMoves DEF Stepping
    <3>2. at[p].pc = "finalize" => at[p].step = FINALIZE
      BY DEF Keeping, Driven
    <3> QED BY <3>1, <3>2, FinalizeMoves
  <2>3. ASSUME at'[p].pc = "settle", at'[p].step \in Env
        PROVE  kc'[at'[p].step] = wf'[at'[p].w].version
    <3>1. at'[p].step = at[p].step /\ at'[p].w = w
      BY <2>3, WorkerMoves DEF Stepping
    <3>2. at[p].pc # "finalize"
      BY <2>3, <3>1, Constants DEF Keeping, Driven
    <3>3. kc' = [kc EXCEPT ![at[p].step] = Desired(w)]
      BY <2>3, <3>1, <3>2, OtherMoves DEF ClientMove
    <3>4. Desired(w) = wf[w].version /\ wf'[w].version = wf[w].version
      BY <1>1 DEF Desired, Keeping, RowKept
    <3> QED BY <2>3, <3>1, <3>3, <3>4 DEF TypeOK
  <2> QED BY <1>2, <2>1, <2>2, <2>3 DEF Driven, Driving
<1>3. CASE q # p
  <2>1. at'[q] = at[q] /\ Driven(q)
    BY <1>3, WorkerMoves DEF Keeping
  <2>2. CASE at[q].pc \notin Driving
    BY <2>1, <2>2 DEF Driven, Driving
  <2>3. CASE at[q].pc \in Driving
    <3>1. at[q].pc # "idle"
      BY <2>3 DEF Driving
    <3>2. at[q].w \in Op \ {w} /\ wf[at[q].w].state # "QUEUED"
      BY <1>1, <1>3, <3>1, LedgerWorker DEF Ordering, SingleOwner
    <3>3. wf'[at[q].w] = wf[at[q].w]
      BY <3>2, OthersRows
    <3>4. at[p].pc \notin Driving
      BY <1>3, <2>3, OneDrives
    <3>5. kc' = kc
      BY <3>4, OtherMoves DEF ClientMove, Driving
    <3> QED BY <2>1, <3>3, <3>5 DEF Driven
  <2> QED BY <2>2, <2>3
<1> QED BY <1>2, <1>3

(* A worker's run keeps what its claimable row has applied. *)
LEMMA RanKeepsClients ==
  ASSUME TypeOK, TypeOK', Ledger, OneClaimableOneQueued, Applied, Ordering, Keeping,
         NEW p \in Worker, Ran(p)
  PROVE  AppliedStaysApplied'
<1> SUFFICES ASSUME NEW v \in Op, wf'[v].state \in Claimable, NEW e \in Env,
                    steps'[v][e].state = "COMPLETED"
             PROVE  kc'[e] = wf'[v].version
  BY DEF AppliedStaysApplied, Rows
<1> DEFINE w == at[p].w
<1>1. w \in Op /\ wf[w].state # "QUEUED" /\ wf'[v].version = wf[v].version /\ e \in Step
  BY RanMoves, LedgerWorker, RanKeepsRows, Constants DEF RowKept
<1>2. wf[v].state \in Claimable \cup {"QUEUED"}
  <2>1. CASE wf' = wf
    BY <2>1
  <2>2. CASE at[p].pc = "start" /\ \E l : Becomes(w, "RUNNING", l)
    <3>1. wf[w].state \in Claimable
      BY <2>2 DEF Keeping, Driven, Driving
    <3> QED BY <2>2, <3>1 DEF Becomes
  <2>3. CASE \E s, l : Becomes(w, s, l) /\ s \in {"COMPLETED", "FAILED", wf[w].state}
    BY <2>3 DEF Becomes, Claimable
  <2>4. CASE PromoteQueued
    BY <2>4, PromotionWrites
  <2> QED BY <2>1, <2>2, <2>3, <2>4, RowMoves DEF RowMove
<1>3. CASE steps[v][e].state = "COMPLETED"
  <2>1. wf[v].state \in Claimable
    BY <1>1, <1>2, <1>3 DEF Applied, BegunIsCounted, Ledger, ParkedRowsFresh
  <2>2. kc[e] = wf[v].version
    BY <1>3, <2>1 DEF Keeping, AppliedStaysApplied, Rows
  <2>3. CASE kc' = kc
    BY <1>1, <2>2, <2>3
  <2>4. CASE /\ at[p].pc = "exec" /\ at[p].step \in Env
             /\ kc' = [kc EXCEPT ![at[p].step] = Desired(w)]
    <3>1. wf[w].state \in Claimable /\ IsNextStep(w, at[p].step)
      BY <2>4 DEF Keeping, Driven, Driving, Ordering, InOrder, Stepping
    <3>2. v = w
      BY <1>1, <2>1, <3>1 DEF OneClaimableOneQueued
    <3>3. at[p].step # Done
      BY <2>4, Constants DEF Done, NOTIFY, Env
    <3>4. e # at[p].step
      BY <1>3, <3>1, <3>2, <3>3 DEF IsNextStep, Unfinished, Finished
    <3> QED BY <1>1, <2>2, <2>4, <3>4 DEF TypeOK
  <2> QED BY <2>3, <2>4, OtherMoves DEF ClientMove
<1>4. CASE v = w /\ e = at[p].step /\ at[p].pc = "settle"
  <2>1. kc[e] = wf[v].version
    BY <1>4 DEF Keeping, Driven
  <2>2. kc' = kc
    BY <1>4, OtherMoves DEF ClientMove
  <2> QED BY <1>1, <2>1, <2>2
<1> QED BY <1>1, <1>3, <1>4, CompletedWhenSettled

(* The other steps between submissions write no client and no plan. *)
LEMMA UnsubmittedKeeps ==
  ASSUME TypeOK, TypeOK', Ledger, OneClaimableOneQueued, Undisturbed, Applied, Ordering, Keeping,
         Unsubmitted
  PROVE  Keeping'
<1>0. \A v \in Op : RowKept(v)
  BY RowsAreKept
<1>1. \A w \in Op : wf'[w].type # "DELETE"
  BY <1>0 DEF RowKept, Keeping
<1>2. ASSUME NEW p \in Worker, Ran(p) PROVE Keeping'
  <2>1. late' = {}
    BY <1>2, OtherMoves DEF ClientMove, Keeping, Undisturbed
  <2> QED BY <1>1, <1>2, <2>1, RanKeepsDriven, RanKeepsClients DEF Keeping
<1>3. ASSUME late' = late, kc' = kc, steps' = steps,
             \A v \in Op : \/ wf'[v].state = wf[v].state
                           \/ wf[v].state = "QUEUED",
             \A q \in Worker : at'[q] = at[q] \/ at'[q].pc = "idle"
                               \/ (at'[q].pc = "load" /\ wf'[at'[q].w].state \in Claimable)
      PROVE  Keeping'
  <2>1. ASSUME NEW q \in Worker PROVE Driven(q)'
    <3>1. CASE at'[q] = at[q] /\ at[q].pc # "idle"
      <4>1. at[q].w \in Op /\ wf[at[q].w].state # "QUEUED"
        BY <3>1, LedgerWorker
      <4>2. wf'[at[q].w].state = wf[at[q].w].state /\ wf'[at[q].w].version = wf[at[q].w].version
        BY <1>0, <1>3, <4>1 DEF RowKept
      <4> QED BY <1>3, <3>1, <4>2 DEF Keeping, Driven
    <3>2. CASE at'[q].pc = "idle"
      BY <3>2 DEF Driven, Driving
    <3>3. CASE at'[q].pc = "load" /\ wf'[at'[q].w].state \in Claimable
      BY <3>3 DEF Driven
    <3> QED BY <1>3, <3>1, <3>2, <3>3
  <2>2. AppliedStaysApplied'
    <3> SUFFICES ASSUME NEW v \in Op, wf'[v].state \in Claimable, NEW e \in Env,
                        steps'[v][e].state = "COMPLETED"
                 PROVE  kc'[e] = wf'[v].version
      BY DEF AppliedStaysApplied, Rows
    <3>1. e \in Step
      BY Constants
    <3>2. wf[v].state \in Claimable
      BY <1>3, <3>1 DEF Applied, BegunIsCounted, Ledger, ParkedRowsFresh
    <3> QED BY <1>0, <1>3, <3>2 DEF Keeping, AppliedStaysApplied, Rows, RowKept
  <2> QED BY <1>1, <1>3, <2>1, <2>2 DEF Keeping
<1>4. CASE PromoteOrphan
  <2>1. \A v \in Op : wf'[v].state = wf[v].state \/ wf[v].state = "QUEUED"
    BY <1>4, PromotionWrites DEF PromoteOrphan
  <2> QED BY <1>3, <1>4, <2>1 DEF PromoteOrphan
<1>5. ASSUME NEW p \in Worker, NEW w \in Op, Claim(p, w) PROVE Keeping'
  <2>1. /\ Becomes(w, wf[w].state, "live") /\ at'[p].pc = "load" /\ at'[p].w = w
        /\ \A q \in Worker \ {p} : at'[q] = at[q]
    BY <1>5, ClaimWrites
  <2>2. /\ late' = late /\ kc' = kc /\ steps' = steps /\ wf[w].state \in Claimable
    BY <1>5 DEF Claim, MayClaim
  <2>3. \A v \in Op : wf'[v].state = wf[v].state
    BY <2>1 DEF Becomes
  <2> QED BY <1>3, <2>1, <2>2, <2>3
<1>6. ASSUME NEW w \in Op, BackoffElapses(w) \/ LeaseLapses(w) \/ LeaseLost(w) PROVE Keeping'
  <2>1. /\ at' = at /\ steps' = steps /\ kc' = kc /\ late' = late
        /\ \E l : Becomes(w, wf[w].state, l)
    BY <1>6, ClockWrites
  <2> QED BY <1>3, <2>1 DEF Becomes
<1>7. ASSUME NEW w \in Op, NEW e \in Env, LateApply(w, e) PROVE Keeping'
  BY <1>7 DEF LateApply, Keeping
<1>8. ASSUME NEW pod \in Pod, Crash(pod) PROVE Keeping'
  BY <1>3, <1>8 DEF Crash, Idle
<1> QED BY <1>2, <1>4, <1>5, <1>6, <1>7, <1>8 DEF Unsubmitted

(* A submission that is no delete leaves what runs alone. *)
LEMMA SubmissionKeeps ==
  ASSUME TypeOK, TypeOK', Ledger, Undisturbed, Ordering, Keeping, NEW u \in User, Submission(u)
  PROVE  Keeping'
<1>1. ASSUME Aside, NEW n, NEW K \in SUBSET Op, \A k \in K : Written(k, n) /\ wf'[k].type # "DELETE",
             \A w \in Op \ K : wf'[w] = wf[w] /\ steps'[w] = steps[w]
      PROVE  Keeping'
  <2>1. (\A w \in Op : wf'[w].type # "DELETE") /\ late' = {}
    BY <1>1 DEF Keeping, Aside
  <2>2. ASSUME NEW q \in Worker PROVE Driven(q)'
    <3>1. CASE at[q].pc = "idle"
      BY <1>1, <3>1 DEF Aside, Driven, Driving
    <3>2. CASE at[q].pc # "idle"
      <4>1. at[q].w \in Op \ K
        BY <1>1, <3>2, LedgerWorker DEF Written
      <4> QED BY <1>1, <4>1 DEF Aside, Driven, Keeping
    <3> QED BY <3>1, <3>2
  <2>3. AppliedStaysApplied'
    <3> SUFFICES ASSUME NEW v \in Op, wf'[v].state \in Claimable, NEW e \in Env,
                        steps'[v][e].state = "COMPLETED"
                 PROVE  kc'[e] = wf'[v].version
      BY DEF AppliedStaysApplied, Rows
    <3>1. v \notin K
      BY <1>1, FreshPlan, Constants
    <3> QED BY <1>1, <3>1 DEF Aside, Keeping, AppliedStaysApplied, Rows
  <2> QED BY <2>1, <2>2, <2>3 DEF Keeping
<1>2. ASSUME NEW n, NEW k \in Op, Writes(k, n) PROVE Keeping'
  <2> DEFINE K == {k}
  <2>1. /\ Aside /\ K \in SUBSET Op /\ \A v \in K : Written(v, n) /\ wf'[v].type # "DELETE"
        /\ \A w \in Op \ K : wf'[w] = wf[w] /\ steps'[w] = steps[w]
    BY <1>2 DEF Writes, Counts
  <2> HIDE DEF K
  <2> QED BY <1>1, <2>1
<1>3. CASE Aside /\ UNCHANGED <<wf, steps>>
  <2> DEFINE K == {}
  <2>1. /\ K \in SUBSET Op /\ \A v \in K : Written(v, 0) /\ wf'[v].type # "DELETE"
        /\ \A w \in Op \ K : wf'[w] = wf[w] /\ steps'[w] = steps[w]
    BY <1>3
  <2> HIDE DEF K
  <2> QED BY <1>1, <1>3, <2>1
<1>4. ~(sub[u].intent = "delete" /\ sub[u].pc = "read")
  BY DEF Ordering, AskedFor, Undisturbed
<1> QED BY <1>2, <1>3, <1>4, SubmissionMoves DEF Quietly, Adopts, Enters, Parks, Counts

(* Undisturbed, the invariant holds throughout. *)
THEOREM KeepingHolds == Undisturbed => (Spec => []Keeping)
<1> SUFFICES ASSUME Undisturbed PROVE Spec => []Keeping
  OBVIOUS
<1>1. Init => Keeping
  BY DEF Init, Keeping, Driven, Driving, AppliedStaysApplied, Rows, Claimable, NoRow, Idle
<1>2. /\ TypeOK /\ TypeOK' /\ Ledger /\ OneClaimableOneQueued /\ Applied /\ Ordering /\ Keeping
      /\ [Next]_vars
      => Keeping'
  <2> SUFFICES ASSUME TypeOK, TypeOK', Ledger, OneClaimableOneQueued, Applied, Ordering, Keeping,
                      [Next]_vars
               PROVE  Keeping'
    OBVIOUS
  <2>1. CASE Next
    BY <2>1, NextSplits, SubmissionKeeps, UnsubmittedKeeps
  <2>2. CASE UNCHANGED vars
    BY <2>2 DEF vars, Keeping, Driven, AppliedStaysApplied, Rows
  <2> QED BY <2>1, <2>2
<1>3. LeasesLast
  BY DEF Undisturbed, LeasesLast
<1> QED BY <1>1, <1>2, <1>3, TypeCorrect, LedgerHolds, OneOwner, AppliedHolds, OrderingHolds, PTL
        DEF Spec

(* Undisturbed, what a claimable workflow has applied stays applied under it
   (promoteQueuedWorkflow, applyEnvironmentStep). *)
THEOREM AppliedStays == Undisturbed => (Spec => []AppliedStaysApplied)
<1>1. Keeping => AppliedStaysApplied
  BY DEF Keeping
<1> QED BY <1>1, KeepingHolds, PTL

-----------------------------------------------------------------------------
(* The lifecycle of the rows: the inductive invariant and the refinement *)

\* One worker in all, or no worker slower than its lease and nothing deleted.
Solitary == \A p, q \in Worker : p = q
Unraced == Solitary \/ ("stall" \notin Faults /\ "delete" \notin Intents)

\* The statements after the start of a workflow, up to its terminal write.
Started ==
  {"probe", "begin", "exec", "finalize", "settle", "failed", "skip", "complete", "fail"}

\* A worker past the start has a started workflow; one about to start it finds
\* it PENDING still, or another row claimable that refuses the start.
Startable(p) ==
  /\ at[p].pc \in Started => wf[at[p].w].state # "PENDING"
  /\ at[p].pc = "start" =>
       \/ wf[at[p].w].state = "PENDING"
       \/ Solitary /\ \E v \in Op \ {at[p].w} : wf[v].state \in Claimable

Starting == \A p \in Worker : Startable(p)

(* The read of the claimed row finds it started before a probe. *)
LEMMA ProbesStarted ==
  ASSUME TypeOK, NEW p \in Worker, Ran(p), at'[p].pc = "probe"
  PROVE  \/ at[p].pc = "load" /\ wf' = wf /\ wf[at[p].w].state # "PENDING"
         \/ at[p].pc = "start" /\ Becomes(at[p].w, "RUNNING", wf[at[p].w].lease)
         \/ at[p].pc \in {"settle", "skip"}
<1> USE DEF Pc
<1>1. at[p].pc \in {"load", "start", "settle", "skip"}
  BY WorkerMoves DEF Before
<1>2. CASE Load(p)
  BY <1>2, GoesTo DEF Load
<1>3. CASE Start(p)
  <2>1. CASE Rows(Claimable) \subseteq {at[p].w}
    BY <1>3, <2>1, StartWrites DEF Start
  <2>2. CASE ~(Rows(Claimable) \subseteq {at[p].w})
    BY <1>3, <2>2, GoesTo DEF Start
  <2> QED BY <2>1, <2>2
<1>4. CASE Throw(p)
  BY <1>4, GoesTo, Leaves DEF Throw
<1>5. CASE at[p].pc \in {"load", "start"} /\ ~Load(p) /\ ~Start(p) /\ ~Throw(p)
  BY <1>5 DEF Ran, Engine, Probe, Release, CloseOut, BeginStep, StepBody, ExecPlan, ExecApply,
     ExecOther, FinalizeOutcome, FinalizeStatus, CompleteStep, FailStep, SkipStep, Retry,
     CompleteWorkflow, FailWorkflow, FailStatus, FailOutcome, DeadLetter, StartQueued,
     Timeout, StepThrows, Heartbeat, BudgetSpent
<1> QED BY <1>1, <1>2, <1>3, <1>4, <1>5

(* No row that a worker holds becomes PENDING between submissions. *)
LEMMA NobodyRestarts ==
  ASSUME TypeOK, Ledger, Unsubmitted, NEW v \in Op, wf[v].state # "QUEUED", wf'[v].state = "PENDING"
  PROVE  wf[v].state = "PENDING"
<1>1. ASSUME NEW w \in Op, NEW s, NEW l, Becomes(w, s, l), s = wf[w].state \/ s # "PENDING"
      PROVE  wf[v].state = "PENDING"
  BY <1>1 DEF Becomes
<1>2. CASE wf' = wf
  BY <1>2
<1>3. CASE PromoteQueued
  BY <1>3, PromotionWrites
<1>4. ASSUME NEW p \in Worker, Ran(p) PROVE wf[v].state = "PENDING"
  <2>1. at[p].w \in Op
    BY <1>4, RanMoves, WorkerFacts
  <2> QED BY <1>1, <1>2, <1>3, <1>4, <2>1, RowMoves DEF RowMove
<1>5. ASSUME NEW p \in Worker, NEW w \in Op, Claim(p, w) PROVE wf[v].state = "PENDING"
  BY <1>1, <1>5, ClaimWrites
<1>6. ASSUME NEW w \in Op, BackoffElapses(w) \/ LeaseLapses(w) \/ LeaseLost(w)
      PROVE  wf[v].state = "PENDING"
  BY <1>1, <1>6, ClockWrites
<1> QED BY <1>2, <1>3, <1>4, <1>5, <1>6 DEF Unsubmitted, PromoteOrphan, LateApply, Crash

(* A worker's run leaves it and the others before a start that is theirs. *)
LEMMA RanStartable ==
  ASSUME TypeOK, Ledger, Starting, Solitary \/ Ordering, NEW p \in Worker, Ran(p), NEW q \in Worker
  PROVE  Startable(q)'
<1> DEFINE w == at[p].w
<1>0. at[p].pc # "idle" /\ w \in Op /\ wf[w].state \notin {"NONE", "QUEUED"}
  BY RanMoves, LedgerWorker
<1>1. CASE q = p
  <2>1. at'[p].pc = "start" => at'[p].w = w /\ wf'[w].state = "PENDING"
    BY WorkerMoves, WorkerSees
  <2>2. ASSUME at'[p].pc \in Started PROVE wf'[at'[p].w].state # "PENDING"
    <3>1. at'[p].w = w /\ at[p].pc \in Before(at'[p].pc)
      BY <2>2, WorkerMoves DEF Started
    <3>2. CASE at'[p].pc = "probe"
      <4>1. at[p].pc \in {"settle", "skip"} => wf'[w].state # "PENDING"
        BY <1>0, NobodyRestarts DEF Starting, Startable, Started, Unsubmitted
      <4> QED BY <3>1, <3>2, <4>1, ProbesStarted DEF Becomes
    <3>3. CASE at'[p].pc # "probe"
      <4>1. at[p].pc \in Started
        BY <2>2, <3>1, <3>3 DEF Before, Started
      <4> QED BY <1>0, <3>1, <4>1, NobodyRestarts DEF Starting, Startable, Unsubmitted
    <3> QED BY <3>2, <3>3
  <2> QED BY <1>1, <2>1, <2>2 DEF Startable
<1>2. CASE q # p /\ at[q].pc # "idle"
  <2>1. ~Solitary /\ at'[q] = at[q]
    BY <1>2, WorkerMoves DEF Solitary
  <2>2. at[q].w \in Op \ {w} /\ wf[at[q].w].state # "QUEUED"
    BY <1>0, <1>2, <2>1, LedgerWorker DEF Ordering, SingleOwner
  <2>3. wf'[at[q].w] = wf[at[q].w]
    BY <2>2, OthersRows
  <2> QED BY <2>1, <2>3 DEF Starting, Startable
<1>3. CASE q # p /\ at[q].pc = "idle"
  BY <1>3, WorkerMoves DEF Startable, Started
<1> QED BY <1>1, <1>2, <1>3

(* The other steps between submissions start nothing. *)
LEMMA UnsubmittedStartable ==
  ASSUME TypeOK, Ledger, Starting, Solitary \/ Ordering, Unsubmitted
  PROVE  Starting'
<1> SUFFICES ASSUME NEW q \in Worker PROVE Startable(q)'
  BY DEF Starting
<1>1. ASSUME NEW p \in Worker, Ran(p) PROVE Startable(q)'
  BY <1>1, RanStartable
<1>2. ASSUME \A v \in Op : wf'[v].state = wf[v].state,
             at'[q] = at[q] \/ at'[q].pc \in {"idle", "load"}
      PROVE  Startable(q)'
  <2>1. CASE at'[q] = at[q] /\ at[q].pc # "idle"
    <3>1. at[q].w \in Op
      BY <2>1, LedgerWorker
    <3> QED BY <1>2, <2>1, <3>1 DEF Starting, Startable
  <2>2. CASE at'[q].pc \in {"idle", "load"}
    BY <2>2 DEF Startable, Started
  <2> QED BY <1>2, <2>1, <2>2
<1>3. CASE PromoteOrphan
  <2>1. at'[q] = at[q] /\ \A v \in Op : wf[v].state \notin Claimable
    BY <1>3 DEF PromoteOrphan, Rows
  <2>2. CASE at[q].pc # "idle"
    <3>1. at[q].w \in Op /\ wf[at[q].w].state # "QUEUED"
      BY <2>2, LedgerWorker
    <3>2. wf'[at[q].w].state = wf[at[q].w].state
      BY <1>3, <3>1, PromotionWrites DEF PromoteOrphan
    <3>3. at[q].pc # "start"
      BY <2>1, <3>1 DEF Starting, Startable, Claimable
    <3> QED BY <2>1, <3>2, <3>3 DEF Starting, Startable
  <2> QED BY <2>1, <2>2 DEF Startable, Started
<1>4. ASSUME NEW p \in Worker, NEW w \in Op, Claim(p, w) PROVE Startable(q)'
  <2>1. /\ Becomes(w, wf[w].state, "live") /\ at'[p].pc = "load"
        /\ \A r \in Worker \ {p} : at'[r] = at[r]
    BY <1>4, ClaimWrites
  <2>2. \A v \in Op : wf'[v].state = wf[v].state
    BY <2>1 DEF Becomes
  <2> QED BY <1>2, <2>1, <2>2
<1>5. ASSUME NEW w \in Op, BackoffElapses(w) \/ LeaseLapses(w) \/ LeaseLost(w) PROVE Startable(q)'
  BY <1>2, <1>5, ClockWrites DEF Becomes
<1>6. ASSUME NEW w \in Op, NEW e \in Env, LateApply(w, e) PROVE Startable(q)'
  BY <1>2, <1>6 DEF LateApply
<1>7. ASSUME NEW pod \in Pod, Crash(pod) PROVE Startable(q)'
  BY <1>2, <1>7 DEF Crash, Idle
<1> QED BY <1>1, <1>3, <1>4, <1>5, <1>6, <1>7 DEF Unsubmitted

(* A delete that closes a row before its start leaves its own row claimable. *)
LEMMA SubmissionStartable ==
  ASSUME TypeOK, Ledger, Starting, Solitary \/ (Ordering /\ "delete" \notin Intents),
         NEW u \in User, Submission(u)
  PROVE  Starting'
<1> SUFFICES ASSUME NEW q \in Worker PROVE Startable(q)'
  BY DEF Starting
<1>1. Startable(q)
  BY DEF Starting
<1>2. CASE at'[q] = at[q] /\ at[q].pc = "idle"
  BY <1>2 DEF Startable, Started
<1>3. ASSUME at[q].pc # "idle", at'[q] = at[q], wf'[at[q].w] = wf[at[q].w],
             \A v \in Op : wf[v].state \in Claimable => wf'[v] = wf[v]
      PROVE  Startable(q)'
  BY <1>1, <1>3 DEF Startable
<1>4. ASSUME NEW n, NEW k \in Op, Writes(k, n) PROVE Startable(q)'
  <2>1. /\ at' = at /\ wf[k].state \in {"NONE", "QUEUED"}
        /\ \A w \in Op \ {k} : wf'[w] = wf[w]
    BY <1>4 DEF Writes, Counts, Aside, Written
  <2>2. at[q].pc # "idle" => at[q].w \in Op \ {k}
    BY <2>1, LedgerWorker
  <2>3. \A v \in Op : wf[v].state \in Claimable => wf'[v] = wf[v]
    BY <2>1 DEF Claimable
  <2> QED BY <1>2, <1>3, <2>1, <2>2, <2>3
<1>5. CASE Aside /\ wf' = wf
  BY <1>2, <1>3, <1>5 DEF Aside
<1>6. ASSUME NEW n \in Op, TakesOver(n), sub[u].intent = "delete", sub[u].pc = "read"
      PROVE  Startable(q)'
  <2>1. Solitary
    BY <1>6 DEF Ordering, AskedFor
  <2>2. /\ at'[q] = at[q] /\ wf[n].state = "NONE" /\ wf'[n].state \in Claimable
        /\ \A w \in Op \ {n} : wf'[w].state = "PENDING" => wf[w].state = "PENDING"
    BY <1>6 DEF TakesOver, Counts, Aside, Claimable, Active
  <2>3. CASE at[q].pc # "idle"
    <3>1. at[q].w \in Op \ {n}
      BY <2>2, <2>3, LedgerWorker
    <3> QED BY <1>1, <2>1, <2>2, <3>1 DEF Startable
  <2> QED BY <1>2, <2>2, <2>3
<1> QED BY <1>4, <1>5, <1>6, SubmissionMoves DEF Quietly, Adopts, Enters, Parks, Counts

(* Unraced, the invariant holds throughout. *)
THEOREM StartingHolds == Unraced => (Spec => []Starting)
<1>1. Init => Starting
  BY DEF Init, Starting, Startable, Started, Idle
<1>2. /\ TypeOK /\ Ledger /\ Starting /\ (Solitary \/ (Ordering /\ "delete" \notin Intents))
      /\ [Next]_vars
      => Starting'
  <2> SUFFICES ASSUME TypeOK, Ledger, Starting, Solitary \/ (Ordering /\ "delete" \notin Intents),
                      [Next]_vars
               PROVE  Starting'
    OBVIOUS
  <2>1. CASE Next
    BY <2>1, NextSplits, SubmissionStartable, UnsubmittedStartable
  <2>2. CASE UNCHANGED vars
    BY <2>2 DEF vars, Starting, Startable
  <2> QED BY <2>1, <2>2
<1>3. CASE Solitary
  BY <1>1, <1>2, <1>3, TypeCorrect, LedgerHolds, PTL DEF Spec
<1>4. CASE "stall" \notin Faults /\ "delete" \notin Intents
  <2>1. LeasesLast
    BY <1>4 DEF LeasesLast
  <2>2. "delete" \notin Intents
    BY <1>4
  <2> QED BY <1>1, <1>2, <2>1, <2>2, TypeCorrect, LedgerHolds, OrderingHolds, PTL DEF Spec
<1> QED BY <1>3, <1>4 DEF Unraced

\* What the lifecycle sees of the table.
States == [w \in Op |-> wf[w].state]
Carries == [w \in Op |-> wf[w].op]

\* One step of the lifecycle, or none.
LifecycleMoves == Lifecycle!Next \/ (States' = States /\ Carries' = Carries)

(* The lifecycle's operators, in terms of the table. *)
LEMMA LifecycleReads ==
  /\ Lifecycle!Op = Op
  /\ Lifecycle!Owned <=> \E w \in Op : wf[w].state \in Claimable
  /\ Lifecycle!Waiting <=> \E w \in Op : wf[w].state = "QUEUED"
  /\ \A n : Lifecycle!Fresh(n) <=> \A w \in Op : wf[w].op < n
  BY DEF Lifecycle!Op, Lifecycle!Owned, Lifecycle!Waiting, Lifecycle!Fresh, Lifecycle!Claimable,
     Claimable, Op

(* A row that moves on, and no other, is a move of the lifecycle. *)
LEMMA LifecycleMove ==
  ASSUME NEW w \in Op, NEW from, NEW to, wf[w].state = from, wf'[w].state = to,
         \A v \in Op \ {w} : wf'[v].state = wf[v].state,
         \A v \in Op : wf'[v].op = wf[v].op
  PROVE  Lifecycle!Move(w, from, to)
  BY DEF Lifecycle!Move, Lifecycle!Op, Op

(* Nothing moves. *)
LEMMA LifecycleStutters ==
  ASSUME \A v \in Op : wf'[v].state = wf[v].state /\ wf'[v].op = wf[v].op
  PROVE  LifecycleMoves
  BY DEF LifecycleMoves, States, Carries

(* A row's change of state that the lifecycle has. *)
LEMMA LifecycleChanges ==
  ASSUME NEW w \in Op, NEW s, NEW l, Becomes(w, s, l),
         \/ s = wf[w].state
         \/ wf[w].state = "PENDING" /\ s = "RUNNING"
         \/ wf[w].state = "RUNNING" /\ s \in {"COMPLETED", "FAILED"}
  PROVE  LifecycleMoves
<1>1. /\ wf'[w].state = s /\ \A v \in Op \ {w} : wf'[v].state = wf[v].state
      /\ \A v \in Op : wf'[v].op = wf[v].op
  BY DEF Becomes
<1>2. CASE s = wf[w].state
  BY <1>1, <1>2, LifecycleStutters
<1>3. CASE wf[w].state = "PENDING" /\ s = "RUNNING"
  BY <1>1, <1>3, LifecycleMove, LifecycleReads DEF LifecycleMoves, Lifecycle!Next, Lifecycle!Start
<1>4. CASE wf[w].state = "RUNNING" /\ s \in {"COMPLETED", "FAILED"}
  BY <1>1, <1>4, LifecycleMove, LifecycleReads
     DEF LifecycleMoves, Lifecycle!Next, Lifecycle!Complete, Lifecycle!Fail
<1> QED BY <1>2, <1>3, <1>4

(* The promotion promotes the one parked row, once nothing is claimable. *)
LEMMA PromotionIsLifecycle ==
  ASSUME TypeOK, OneClaimableOneQueued, PromoteQueued
  PROVE  LifecycleMoves
<1>1. \A w \in Op : wf'[w].op = wf[w].op
  BY PromotionWrites DEF RowKept
<1>2. CASE Rows(Claimable) = {} /\ \E w \in Op : wf[w].state = "QUEUED"
  <2>1. PICK w \in Op : wf[w].state = "QUEUED"
    BY <1>2
  <2>2. wf'[w].state = "PENDING" /\ \A v \in Op \ {w} : wf'[v].state = wf[v].state
    BY <1>2, <2>1, PromotionWrites DEF OneClaimableOneQueued
  <2>3. ~Lifecycle!Owned
    BY <1>2, LifecycleReads DEF Rows
  <2> QED BY <1>1, <2>1, <2>2, <2>3, LifecycleMove, LifecycleReads
          DEF LifecycleMoves, Lifecycle!Next, Lifecycle!Promote
<1>3. CASE ~(Rows(Claimable) = {} /\ \E w \in Op : wf[w].state = "QUEUED")
  BY <1>3, PromotionWrites, LifecycleStutters
<1> QED BY <1>2, <1>3

(* The steps between submissions follow the lifecycle. *)
LEMMA UnsubmittedIsLifecycle ==
  ASSUME TypeOK, Ledger, OneClaimableOneQueued, Starting, Unsubmitted
  PROVE  LifecycleMoves
<1>1. CASE wf' = wf
  BY <1>1, LifecycleStutters
<1>2. CASE PromoteQueued
  BY <1>2, PromotionIsLifecycle
<1>3. ASSUME NEW p \in Worker, Ran(p) PROVE LifecycleMoves
  <2> DEFINE w == at[p].w
  <2>1. w \in Op
    BY <1>3, RanMoves, WorkerFacts
  <2>2. Startable(p)
    BY DEF Starting
  <2>3. CASE /\ at[p].pc = "start" /\ Rows(Claimable) \subseteq {w}
             /\ Becomes(w, "RUNNING", wf[w].lease)
    <3>1. wf[w].state = "PENDING"
      BY <2>2, <2>3 DEF Startable, Rows
    <3> QED BY <2>1, <2>3, <3>1, LifecycleChanges
  <2>4. CASE /\ at[p].pc \in {"complete", "fail"} /\ wf[w].state \in Claimable
             /\ Becomes(w, IF at[p].pc = "complete" THEN "COMPLETED" ELSE "FAILED", Dropped(w))
    <3>1. wf[w].state = "RUNNING"
      BY <2>2, <2>4 DEF Startable, Started, Claimable
    <3> QED BY <2>1, <2>4, <3>1, LifecycleChanges
  <2>5. CASE \E l : Becomes(w, wf[w].state, l)
    BY <2>1, <2>5, LifecycleChanges
  <2> QED BY <1>1, <1>2, <1>3, <2>3, <2>4, <2>5, RowMoves DEF RowMove
<1>4. ASSUME NEW p \in Worker, NEW w \in Op, Claim(p, w) PROVE LifecycleMoves
  BY <1>4, ClaimWrites, LifecycleChanges
<1>5. ASSUME NEW w \in Op, BackoffElapses(w) \/ LeaseLapses(w) \/ LeaseLost(w)
      PROVE  LifecycleMoves
  BY <1>5, ClockWrites, LifecycleChanges
<1> QED BY <1>1, <1>2, <1>3, <1>4, <1>5 DEF Unsubmitted, PromoteOrphan, LateApply, Crash

(* A submission follows the lifecycle. *)
LEMMA SubmissionIsLifecycle ==
  ASSUME TypeOK, Ledger, Applied, NEW u \in User, Submission(u)
  PROVE  LifecycleMoves
<1>1. ASSUME NEW n, Counts(n) PROVE Lifecycle!Fresh(n)
  <2>1. n = nOps + 1 /\ nOps \in Nat
    BY <1>1 DEF Counts, TypeOK
  <2>2. \A w \in Op : wf[w].op \in 0..nOps
    BY <2>1 DEF Ledger, RowsCarry, Applied, NoneIsEmpty
  <2>3. \A w \in Op : wf[w].op < n
    BY <2>1, <2>2
  <2> QED BY <2>3, LifecycleReads
<1>2. ASSUME NEW n, NEW k \in Op, Writes(k, n)
      PROVE  /\ States' = [States EXCEPT ![k] = wf'[k].state]
             /\ Carries' = [Carries EXCEPT ![k] = n]
  BY <1>2 DEF States, Carries, Writes, Written
<1>3. ASSUME NEW n \in Op, Enters(n) PROVE LifecycleMoves
  <2>1. /\ Lifecycle!Fresh(n) /\ ~Lifecycle!Owned /\ wf[n].state = "NONE"
        /\ States' = [States EXCEPT ![n] = "PENDING"] /\ Carries' = [Carries EXCEPT ![n] = n]
    BY <1>1, <1>2, <1>3, LifecycleReads DEF Enters, Writes, Rows
  <2> QED BY <2>1, LifecycleReads
          DEF LifecycleMoves, Lifecycle!Next, Lifecycle!Submit, Lifecycle!Enter, States, Carries
<1>4. ASSUME NEW n \in Op, NEW k \in Op, Parks(k, n) PROVE LifecycleMoves
  <2>1. /\ Lifecycle!Fresh(n) /\ Lifecycle!Owned
        /\ States' = [States EXCEPT ![k] = "QUEUED"] /\ Carries' = [Carries EXCEPT ![k] = n]
    BY <1>1, <1>2, <1>4, LifecycleReads DEF Parks, Writes, Rows
  <2>2. CASE k = n /\ wf[n].state = "NONE" /\ Rows({"QUEUED"}) = {}
    <3>1. ~Lifecycle!Waiting
      BY <2>2, LifecycleReads DEF Rows
    <3> QED BY <2>1, <2>2, <3>1, LifecycleReads
            DEF LifecycleMoves, Lifecycle!Next, Lifecycle!Queue, Lifecycle!Enter, States, Carries
  <2>3. CASE wf[k].state = "QUEUED"
    <3>1. States' = States
      BY <2>1, <2>3 DEF States
    <3> QED BY <2>1, <2>3, <3>1, LifecycleReads
            DEF LifecycleMoves, Lifecycle!Next, Lifecycle!Replace, States, Carries
  <2> QED BY <1>4, <2>2, <2>3 DEF Parks
<1>5. ASSUME NEW n \in Op, TakesOver(n) PROVE LifecycleMoves
  <2>1. /\ Lifecycle!Fresh(n) /\ wf[n].state = "NONE"
        /\ wf'[n].state = "PENDING" /\ wf'[n].op = n
        /\ \A w \in Op \ {n} : /\ wf'[w].op = wf[w].op
                               /\ wf'[w].state = IF wf[w].state \in Active THEN "SUPERSEDED"
                                                 ELSE wf[w].state
    BY <1>1, <1>5 DEF TakesOver, Written, Kept, RowKept
  <2>2. Carries' = [Carries EXCEPT ![n] = n]
    BY <2>1 DEF Carries
  <2>3. States' = [v \in Op |-> IF v = n THEN "PENDING"
                                ELSE IF States[v] \in Active THEN "SUPERSEDED" ELSE States[v]]
    BY <2>1 DEF States
  <2>4. Lifecycle!Active = Active
    BY DEF Lifecycle!Active, Lifecycle!Claimable, Active
  <2>5. Lifecycle!TakeOver(n, n)
    BY <2>1, <2>2, <2>3, <2>4, LifecycleReads DEF Lifecycle!TakeOver, States, Carries
  <2> QED BY <2>5, LifecycleReads DEF LifecycleMoves, Lifecycle!Next
<1>6. CASE wf' = wf
  BY <1>6, LifecycleStutters
<1> QED BY <1>3, <1>4, <1>5, <1>6, SubmissionMoves DEF Quietly, Adopts

(* Unraced, the engine implements the lifecycle that types.ts promises: every
   step of the table is one of its moves, or none. *)
THEOREM EngineImplementsLifecycle == Unraced => (Spec => ImplementsLifecycle)
<1>1. Init => Lifecycle!Init
  BY DEF Init, NoRow, Lifecycle!Init, Lifecycle!Op, Op
<1>2. /\ TypeOK /\ Ledger /\ OneClaimableOneQueued /\ Applied /\ Starting /\ [Next]_vars
      => [Lifecycle!Next]_<<[w \in Op |-> wf[w].state], [w \in Op |-> wf[w].op]>>
  <2> SUFFICES ASSUME TypeOK, Ledger, OneClaimableOneQueued, Applied, Starting, [Next]_vars
               PROVE  LifecycleMoves
    BY DEF LifecycleMoves, States, Carries
  <2>1. CASE Next
    BY <2>1, NextSplits, SubmissionIsLifecycle, UnsubmittedIsLifecycle
  <2>2. CASE UNCHANGED vars
    BY <2>2, LifecycleStutters DEF vars
  <2> QED BY <2>1, <2>2
<1> QED BY <1>1, <1>2, TypeCorrect, LedgerHolds, OneOwner, AppliedHolds, StartingHolds, PTL
        DEF Spec, ImplementsLifecycle, Lifecycle!Spec

(* No move of the lifecycle reopens a terminal row. *)
LEMMA LifecycleKeepsClosed ==
  ASSUME NEW w \in Op, wf[w].state \in Terminal, LifecycleMoves
  PROVE  wf'[w].state = wf[w].state
<1>1. /\ States[w] \in Terminal
      /\ States'[w] = wf'[w].state /\ States[w] = wf[w].state
  BY DEF States
<1>2. ASSUME NEW v \in Op, NEW s, States' = [States EXCEPT ![v] = s], States[v] \notin Terminal
      PROVE  States'[w] = States[w]
  <2>1. v # w
    BY <1>1, <1>2
  <2> QED BY <1>2, <2>1 DEF States
<1>3. ASSUME NEW v \in Op, NEW from, NEW to, Lifecycle!Move(v, from, to), from \notin Terminal
      PROVE  States'[w] = States[w]
  <2>1. States[v] \notin Terminal /\ States' = [States EXCEPT ![v] = to]
    BY <1>3 DEF Lifecycle!Move, States
  <2> QED BY <1>2, <2>1
<1>4. ASSUME NEW v \in Op, NEW n, NEW s, Lifecycle!Enter(v, n, s)
      PROVE  States'[w] = States[w]
  <2>1. States[v] \notin Terminal /\ States' = [States EXCEPT ![v] = s]
    BY <1>4 DEF Lifecycle!Enter, States, Terminal
  <2> QED BY <1>2, <2>1
<1>5. ASSUME NEW v \in Op, NEW n, Lifecycle!TakeOver(v, n)
      PROVE  States'[w] = States[w]
  <2>1. /\ States[v] = "NONE"
        /\ States' = [x \in Op |-> IF x = v THEN "PENDING"
                                  ELSE IF States[x] \in Active THEN "SUPERSEDED" ELSE States[x]]
    BY <1>5 DEF Lifecycle!TakeOver, Lifecycle!Active, Lifecycle!Claimable, Lifecycle!Op,
                States, Active, Op
  <2>2. v # w /\ States[w] \notin Active
    BY <1>1, <2>1 DEF Terminal, Active
  <2> QED BY <2>1, <2>2
<1>6. ASSUME Lifecycle!Next PROVE States'[w] = States[w]
  <2>1. PICK v \in Op : \/ \E n \in Op : \/ Lifecycle!Submit(v, n) \/ Lifecycle!Queue(v, n)
                                        \/ Lifecycle!Replace(v, n) \/ Lifecycle!TakeOver(v, n)
                        \/ Lifecycle!Promote(v) \/ Lifecycle!Start(v)
                        \/ Lifecycle!Complete(v) \/ Lifecycle!Fail(v)
    BY <1>6, LifecycleReads DEF Lifecycle!Next
  <2>2. ASSUME NEW n, Lifecycle!Submit(v, n) \/ Lifecycle!Queue(v, n)
        PROVE  States'[w] = States[w]
    BY <1>4, <2>2 DEF Lifecycle!Submit, Lifecycle!Queue
  <2>3. ASSUME NEW n, Lifecycle!Replace(v, n) PROVE States'[w] = States[w]
    BY <2>3 DEF Lifecycle!Replace, States
  <2>4. CASE Lifecycle!Promote(v) \/ Lifecycle!Start(v)
    BY <1>3, <2>4 DEF Lifecycle!Promote, Lifecycle!Start, Terminal
  <2>5. CASE Lifecycle!Complete(v) \/ Lifecycle!Fail(v)
    BY <1>3, <2>5 DEF Lifecycle!Complete, Lifecycle!Fail, Terminal
  <2> QED BY <1>5, <2>1, <2>2, <2>3, <2>4, <2>5
<1>7. States'[w] = States[w]
  BY <1>6 DEF LifecycleMoves
<1> QED BY <1>1, <1>7

(* Unraced, a terminal row is closed for good (types.ts). *)
THEOREM ClosedForGood == Unraced => (Spec => TerminalIsFinal)
<1>1. /\ TypeOK /\ Ledger /\ OneClaimableOneQueued /\ Applied /\ Starting /\ [Next]_vars
      => [\A w \in Op : wf[w].state \in Terminal => wf'[w].state = wf[w].state]_vars
  <2> SUFFICES ASSUME TypeOK, Ledger, OneClaimableOneQueued, Applied, Starting, Next,
                      NEW w \in Op, wf[w].state \in Terminal
               PROVE  wf'[w].state = wf[w].state
    OBVIOUS
  <2> QED BY NextSplits, SubmissionIsLifecycle, UnsubmittedIsLifecycle, LifecycleKeepsClosed
<1> QED BY <1>1, TypeCorrect, LedgerHolds, OneOwner, AppliedHolds, StartingHolds, PTL
        DEF Spec, TerminalIsFinal

-----------------------------------------------------------------------------
(* Leases where Sequelize writes nulls: a lease is somebody's *)

\* The statements from which a worker that leaves its row drops the lease.
Holding ==
  {"load", "start", "probe", "release", "abandon", "error", "begin", "exec", "finalize", "settle",
   "failed", "retry", "skip", "complete", "fail"}
Holds(p, w) == at[p].pc \in Holding /\ at[p].w = w

UnclaimableIsFree == \A w \in Op : wf[w].state \notin Claimable => wf[w].lease = "none"
LeasedIsHeld ==
  nFaults = 0 =>
    \A w \in Op : wf[w].state \in Claimable /\ wf[w].lease = "live" => \E p \in Worker : Holds(p, w)
Leasing == UnclaimableIsFree /\ LeasedIsHeld

(* No fault is forgotten. *)
LEMMA FaultsCount ==
  ASSUME TypeOK, NEW kind, Fault(kind)
  PROVE  nFaults' # 0
  BY DEF Fault, TypeOK

(* A worker that no longer holds its row leaves it closed or free, unless it
   failed on the way out. *)
LEMMA LeavesFree ==
  ASSUME TypeOK, ~OmitsNull, NEW p \in Worker, Ran(p), nFaults' = 0, at[p].pc \in Holding
  PROVE  \/ at'[p].pc \in Holding /\ at'[p].w = at[p].w
         \/ wf'[at[p].w].state \notin Claimable \/ wf'[at[p].w].lease = "none"
<1> DEFINE w == at[p].w
<1> USE DEF Pc, Holding
<1>0. w \in Op
  BY RanMoves, WorkerFacts
<1>1. CASE Load(p) \/ Start(p) \/ BeginStep(p)
  BY <1>1, GoesTo DEF Load, Start, BeginStep
<1>2. CASE Probe(p)
  <2>1. Found(p) \/ FoundDone(p) \/ GoTo(p, "abandon") \/ GoTo(p, "release")
    BY <1>2, Zenon DEF Probe, Found, FoundDone
  <2>2. CASE Found(p)
    <3>1. PICK s \in Step :
            at' = [at EXCEPT ![p] = [@ EXCEPT !.pc = "begin", !.step = s,
                             !.attempt = NextAttempt(steps[at[p].w][s].attempts)]]
      BY <2>2 DEF Found
    <3> QED BY <3>1, Finds
  <2> QED BY <2>1, <2>2, GoesTo DEF FoundDone
<1>3. CASE Release(p)
  <2>1. Becomes(w, wf[w].state, Dropped(w))
    BY <1>0, <1>3, DropWrites DEF Release
  <2> QED BY <2>1 DEF Becomes, Dropped
<1>4. CASE StepBody(p)
  BY <1>4, GoesTo
     DEF StepBody, ExecPlan, ExecApply, ExecOther, FinalizeOutcome, FinalizeStatus
<1>5. CASE CompleteStep(p) \/ SkipStep(p)
  BY <1>5, Iterates DEF CompleteStep, SkipStep
<1>6. CASE FailStep(p)
  BY <1>6, GoesTo DEF FailStep, AfterFailure
<1>7. CASE Retry(p)
  BY <1>7, RetryWrites DEF Becomes, Dropped
<1>8. CASE (CompleteWorkflow(p) \/ FailWorkflow(p)) /\ wf[w].state \notin Claimable
  BY <1>8 DEF CompleteWorkflow, FailWorkflow, Terminate
<1>9. CASE (CompleteWorkflow(p) \/ FailWorkflow(p)) /\ wf[w].state \in Claimable
  <2>1. \E s \in {"COMPLETED", "FAILED"} : wf' = [wf EXCEPT ![w] = [Released(@) EXCEPT !.state = s]]
    BY <1>9 DEF CompleteWorkflow, FailWorkflow, Terminate
  <2>2. \E s \in {"COMPLETED", "FAILED"} : Becomes(w, s, Dropped(w))
    BY <1>0, <2>1, TerminateWrites DEF WorkflowState, Terminal
  <2> QED BY <2>2 DEF Becomes, Claimable
<1>10. CASE Timeout(p) \/ Throw(p) \/ BudgetSpent(p)
  BY <1>10, FaultsCount DEF Timeout, Throw, BudgetSpent
<1>11. CASE StepThrows(p)
  BY <1>11, GoesTo DEF StepThrows
<1>12. CASE Heartbeat(p)
  BY <1>12 DEF Heartbeat
<1>13. CASE CloseOut(p) \/ FailStatus(p) \/ FailOutcome(p) \/ DeadLetter(p) \/ StartQueued(p)
  BY <1>13 DEF CloseOut, FailStatus, FailOutcome, DeadLetter, StartQueued
<1> QED BY <1>1, <1>2, <1>3, <1>4, <1>5, <1>6, <1>7, <1>8, <1>9, <1>10, <1>11, <1>12, <1>13
        DEF Ran, Engine

(* A worker's run makes no lease live but that of the row it holds. *)
LEMMA RanLeases ==
  ASSUME TypeOK, Ledger, UnclaimableIsFree, ~OmitsNull, NEW p \in Worker, Ran(p), NEW v \in Op
  PROVE  /\ wf'[v].state \notin Claimable => wf'[v].lease = "none"
         /\ wf'[v].state \in Claimable /\ wf'[v].lease = "live" =>
              \/ wf[v].state \in Claimable /\ wf[v].lease = "live"
              \/ at' = at /\ Holds(p, v)
<1> DEFINE w == at[p].w
<1>0. w \in Op
  BY RanMoves, WorkerFacts
<1>1. wf[v].state \notin Claimable => wf[v].lease = "none"
  BY DEF UnclaimableIsFree
<1>2. CASE wf' = wf
  BY <1>1, <1>2
<1>3. CASE \E s \in {"RUNNING", wf[w].state} : Becomes(w, s, wf[w].lease)
  <2>1. CASE v = w
    BY <1>1, <1>3, <2>1 DEF Becomes, UnclaimableIsFree, Claimable
  <2> QED BY <1>1, <1>3, <2>1 DEF Becomes
<1>4. CASE \E s : Becomes(w, s, Dropped(w))
  BY <1>1, <1>4 DEF Becomes, Dropped
<1>5. CASE /\ at'[p].pc = at[p].pc /\ at[p].pc \in {"exec", "finalize"}
           /\ wf[w].state \in Claimable /\ wf[w].lease = "expired" /\ Becomes(w, wf[w].state, "live")
  <2>1. at' = at
    <3>1. CASE Heartbeat(p)
      BY <3>1 DEF Heartbeat
    <3>2. CASE ~Heartbeat(p)
      <4>1. wf'[w].lease # wf[w].lease /\ wf' # wf
        BY <1>5 DEF Becomes
      <4>2. CASE \/ Load(p) \/ Probe(p) \/ CloseOut(p) \/ BeginStep(p) \/ StepBody(p) \/ CompleteStep(p)
                 \/ FailStep(p) \/ SkipStep(p) \/ FailStatus(p) \/ FailOutcome(p) \/ DeadLetter(p)
        BY <4>1, <4>2
           DEF Load, Probe, CloseOut, BeginStep, StepBody, ExecPlan, ExecApply, ExecOther, FinalizeOutcome,
               FinalizeStatus, CompleteStep, FailStep, SkipStep, FailStatus, FailOutcome, DeadLetter
      <4>3. CASE Timeout(p) \/ StepThrows(p) \/ Throw(p) \/ BudgetSpent(p)
        BY <4>1, <4>3 DEF Timeout, StepThrows, Throw, BudgetSpent
      <4>4. CASE \/ Start(p) \/ Release(p) \/ Retry(p) \/ CompleteWorkflow(p) \/ FailWorkflow(p)
                 \/ StartQueued(p)
        BY <1>5, <4>4 DEF Start, Release, Retry, CompleteWorkflow, FailWorkflow, StartQueued
      <4> QED BY <3>2, <4>2, <4>3, <4>4 DEF Ran, Engine
    <3> QED BY <3>1, <3>2
  <2> QED BY <1>1, <1>5, <2>1 DEF Becomes, Holds, Holding
<1>6. CASE PromoteQueued
  BY <1>1, <1>6, PromotionWrites DEF Claimable
<1> QED BY <1>2, <1>3, <1>4, <1>5, <1>6, RowMoves DEF RowMove

(* What went without a fault so far did so before. *)
LEMMA FaultsStay ==
  ASSUME TypeOK, Unsubmitted, nFaults' = 0
  PROVE  nFaults = 0
<1>1. ASSUME NEW p \in Worker, Ran(p) PROVE nFaults = 0
  <2>1. CASE Timeout(p) \/ Throw(p) \/ BudgetSpent(p)
    BY <2>1, FaultsCount DEF Timeout, Throw, BudgetSpent
  <2>2. CASE StepThrows(p) \/ Heartbeat(p)
    BY <2>2 DEF StepThrows, Heartbeat
  <2>3. CASE Engine(p)
    <3>1. CASE \/ Load(p) \/ Start(p) \/ Probe(p) \/ Release(p) \/ CloseOut(p) \/ BeginStep(p)
               \/ StepBody(p)
      BY <3>1 DEF Load, Start, Probe, Release, CloseOut, BeginStep, StepBody, ExecPlan, ExecApply,
                  ExecOther, FinalizeOutcome, FinalizeStatus
    <3>2. CASE \/ CompleteStep(p) \/ FailStep(p) \/ SkipStep(p) \/ Retry(p) \/ CompleteWorkflow(p)
               \/ FailWorkflow(p) \/ FailStatus(p) \/ FailOutcome(p) \/ DeadLetter(p) \/ StartQueued(p)
      BY <3>2 DEF CompleteStep, FailStep, SkipStep, Retry, CompleteWorkflow, FailWorkflow, FailStatus,
                  FailOutcome, DeadLetter, StartQueued
    <3> QED BY <2>3, <3>1, <3>2 DEF Engine
  <2> QED BY <1>1, <2>1, <2>2, <2>3 DEF Ran
<1>2. ASSUME NEW w \in Op, LeaseLost(w) PROVE nFaults = 0
  BY <1>2, FaultsCount DEF LeaseLost
<1>3. ASSUME NEW pod \in Pod, Crash(pod) PROVE nFaults = 0
  BY <1>3, FaultsCount DEF Crash
<1> QED BY <1>1, <1>2, <1>3
        DEF Unsubmitted, PromoteOrphan, Claim, BackoffElapses, LeaseLapses, LateApply

(* The steps between submissions keep the leases somebody's. *)
LEMMA UnsubmittedKeepsLeasing ==
  ASSUME TypeOK, Ledger, Leasing, ~OmitsNull, Unsubmitted
  PROVE  Leasing'
<1> SUFFICES ASSUME NEW v \in Op
             PROVE  /\ wf'[v].state \notin Claimable => wf'[v].lease = "none"
                    /\ nFaults' = 0 /\ wf'[v].state \in Claimable /\ wf'[v].lease = "live" =>
                         \E q \in Worker : at'[q].pc \in Holding /\ at'[q].w = v
  BY DEF Leasing, UnclaimableIsFree, LeasedIsHeld, Holds
<1>0. wf[v].state \notin Claimable => wf[v].lease = "none"
  BY DEF Leasing, UnclaimableIsFree
<1>1. nFaults = 0 /\ wf[v].state \in Claimable /\ wf[v].lease = "live" =>
        \E q \in Worker : at[q].pc \in Holding /\ at[q].w = v
  BY DEF Leasing, LeasedIsHeld, Holds
<1>2. nFaults' = 0 => nFaults = 0
  BY FaultsStay
<1>3. ASSUME NEW p \in Worker, Ran(p)
      PROVE  /\ wf'[v].state \notin Claimable => wf'[v].lease = "none"
             /\ nFaults' = 0 /\ wf'[v].state \in Claimable /\ wf'[v].lease = "live" =>
                  \E q \in Worker : at'[q].pc \in Holding /\ at'[q].w = v
  <2>1. /\ wf'[v].state \notin Claimable => wf'[v].lease = "none"
        /\ wf'[v].state \in Claimable /\ wf'[v].lease = "live" =>
             \/ wf[v].state \in Claimable /\ wf[v].lease = "live"
             \/ at' = at /\ Holds(p, v)
    BY <1>3, RanLeases DEF Leasing
  <2>2. ASSUME nFaults' = 0, wf'[v].state \in Claimable, wf'[v].lease = "live"
        PROVE  \E q \in Worker : at'[q].pc \in Holding /\ at'[q].w = v
    <3>1. CASE at' = at /\ Holds(p, v)
      BY <3>1 DEF Holds
    <3>2. CASE wf[v].state \in Claimable /\ wf[v].lease = "live"
      <4>1. PICK q \in Worker : at[q].pc \in Holding /\ at[q].w = v
        BY <1>1, <1>2, <2>2, <3>2
      <4>2. CASE q # p
        <5>1. at'[q] = at[q]
          BY <1>3, <4>2, WorkerMoves
        <5> QED BY <4>1, <5>1
      <4>3. CASE q = p
        BY <1>3, <2>2, <4>1, <4>3, LeavesFree
      <4> QED BY <4>2, <4>3
    <3> QED BY <2>1, <2>2, <3>1, <3>2
  <2> QED BY <2>1, <2>2
<1>4. ASSUME NEW p \in Worker, NEW w \in Op, Claim(p, w)
      PROVE  /\ wf'[v].state \notin Claimable => wf'[v].lease = "none"
             /\ nFaults' = 0 /\ wf'[v].state \in Claimable /\ wf'[v].lease = "live" =>
                  \E q \in Worker : at'[q].pc \in Holding /\ at'[q].w = v
  <2>1. /\ Becomes(w, wf[w].state, "live") /\ wf[w].state \in Claimable /\ at[p].pc = "idle"
        /\ at'[p].pc = "load" /\ at'[p].w = w /\ \A q \in Worker \ {p} : at'[q] = at[q]
    BY <1>4, ClaimWrites DEF Claim, MayClaim
  <2>2. CASE v = w
    BY <2>1, <2>2 DEF Becomes, Holding
  <2>3. CASE v # w
    <3>1. wf'[v] = wf[v]
      BY <2>1, <2>3 DEF Becomes
    <3>2. \A q \in Worker : at[q].pc \in Holding => at'[q] = at[q]
      BY <2>1 DEF Holding
    <3> QED BY <1>0, <1>1, <1>2, <3>1, <3>2
  <2> QED BY <2>2, <2>3
<1>5. CASE at' = at /\ (wf' = wf \/ PromoteQueued)
  <2>1. \/ wf'[v] = wf[v]
        \/ wf[v].state = "QUEUED" /\ wf'[v].state = "PENDING" /\ wf'[v].lease = wf[v].lease
    BY <1>5, PromotionWrites
  <2> QED BY <1>0, <1>1, <1>2, <1>5, <2>1 DEF Claimable
<1>6. ASSUME NEW w \in Op, BackoffElapses(w) \/ LeaseLapses(w) \/ LeaseLost(w)
      PROVE  /\ wf'[v].state \notin Claimable => wf'[v].lease = "none"
             /\ nFaults' = 0 /\ wf'[v].state \in Claimable /\ wf'[v].lease = "live" =>
                  \E q \in Worker : at'[q].pc \in Holding /\ at'[q].w = v
  <2>1. /\ at' = at /\ wf[w].state \in Claimable
        /\ Becomes(w, wf[w].state, wf[w].lease) \/ Becomes(w, wf[w].state, "expired")
    BY <1>6, ClockWrites
  <2>2. /\ wf'[v].state = wf[v].state
        /\ \/ wf'[v].lease = wf[v].lease
           \/ wf[v].state \in Claimable /\ wf'[v].lease = "expired"
    BY <2>1 DEF Becomes
  <2> QED BY <1>0, <1>1, <1>2, <2>1, <2>2
<1>7. ASSUME NEW pod \in Pod, Crash(pod)
      PROVE  wf' = wf /\ nFaults' # 0
  BY <1>7, FaultsCount DEF Crash
<1> QED BY <1>0, <1>3, <1>4, <1>5, <1>6, <1>7 DEF Unsubmitted, PromoteOrphan, LateApply

(* So does a submission: what it writes or closes is nobody's. *)
LEMMA SubmissionKeepsLeasing ==
  ASSUME TypeOK, Ledger, Leasing, ~OmitsNull, NEW u \in User, Submission(u)
  PROVE  Leasing'
<1>0. at' = at /\ nFaults' = nFaults
  BY DEF Submission, ReadRequest, GiveUp, DeleteDraft, Delete, Park, FindNothingInFlight, Insert
<1>1. ASSUME NEW v \in Op PROVE wf'[v] = wf[v] \/ wf'[v].lease = "none"
  <2>1. CASE Quietly
    BY <2>1 DEF Quietly
  <2>2. ASSUME NEW n \in Op, Adopts(n) PROVE wf'[v] = wf[v] \/ wf'[v].lease = "none"
    BY <2>2 DEF Adopts
  <2>3. ASSUME NEW n \in Op, NEW k \in Op, Writes(k, n) PROVE wf'[v] = wf[v] \/ wf'[v].lease = "none"
    BY <2>3 DEF Writes, Written
  <2>4. ASSUME NEW n \in Op, TakesOver(n) PROVE wf'[v] = wf[v] \/ wf'[v].lease = "none"
    BY <2>4 DEF TakesOver, Written, Kept
  <2> QED BY <2>1, <2>2, <2>3, <2>4, SubmissionMoves DEF Enters, Parks
<1> QED BY <1>0, <1>1 DEF Leasing, UnclaimableIsFree, LeasedIsHeld, Holds

(* Where nulls are written, a lease is that of a claimable row and, unless a
   worker died or lost a write, of a row somebody still has to give up. *)
THEOREM LeasingHolds == ~OmitsNull => (Spec => []Leasing)
<1> SUFFICES ASSUME ~OmitsNull PROVE Spec => []Leasing
  OBVIOUS
<1>1. Init => Leasing
  <2>1. ASSUME Init, NEW w \in Op PROVE wf[w].state \notin Claimable /\ wf[w].lease = "none"
    BY <2>1 DEF Init, NoRow, Claimable
  <2> QED BY <2>1 DEF Leasing, UnclaimableIsFree, LeasedIsHeld
<1>2. TypeOK /\ Ledger /\ Leasing /\ [Next]_vars => Leasing'
  <2> SUFFICES ASSUME TypeOK, Ledger, Leasing, [Next]_vars PROVE Leasing'
    OBVIOUS
  <2>1. CASE Next
    BY <2>1, NextSplits, UnsubmittedKeepsLeasing, SubmissionKeepsLeasing
  <2>2. CASE UNCHANGED vars
    BY <2>2 DEF vars, Leasing, UnclaimableIsFree, LeasedIsHeld, Holds
  <2> QED BY <2>1, <2>2
<1> QED BY <1>1, <1>2, TypeCorrect, LedgerHolds, PTL DEF Spec

(* "Drops the lease so another worker (or the cron tick) can pick the workflow
   up at runAfter" (releaseWorkflow): true where nulls are written. *)
THEOREM ReleasedIsFree == ~OmitsNull => (Spec => []ReleasedIsClaimable)
<1>1. Leasing => ReleasedIsClaimable
  BY DEF Leasing, LeasedIsHeld, Holds, Holding, ReleasedIsClaimable, Rows, Works
<1> QED BY <1>1, LeasingHolds, PTL

=============================================================================
