----------------------- MODULE RequestWorkflowProofs -----------------------
(***************************************************************************)
(* Theorems about RequestWorkflow, for every number of workers, pods,      *)
(* users, submissions, attempts and faults: the types, the one-owner rule  *)
(* of the request_workflows table, that no submission is lost and that a   *)
(* parked submission is untouched.                                         *)
(***************************************************************************)
EXTENDS RequestWorkflow, TLAPS

-----------------------------------------------------------------------------
(* Facts about the constants and the records *)

(* What the assumption on the constants gives: types, and FINALIZE as a step
   of its own kind. *)
LEMMA Constants ==
  /\ NEnv \in Nat /\ MaxOps \in Nat /\ MaxAttempts \in Nat /\ AttemptCap \in Nat /\ MaxFaults \in Nat
  /\ Op \subseteq Nat /\ Env \subseteq Step /\ Step \subseteq Nat
  /\ PLAN \in Step /\ RESTORE_ROLES \in Step /\ FINALIZE \in Step /\ NOTIFY \in Step
  /\ PLAN # FINALIZE /\ RESTORE_ROLES # FINALIZE /\ NOTIFY # FINALIZE /\ FINALIZE \notin Env
  /\ PodOf \in [Worker -> Pod]
  /\ EnvChoices \subseteq SUBSET Env
  /\ Intents \subseteq AllIntents
  BY ConstantsOK DEF ConstantsOK, Op, Env, Step, PLAN, RESTORE_ROLES, FINALIZE, NOTIFY

(* The edits the actions make to a row of request_workflows keep its type. *)
LEMMA RowEdits ==
  ASSUME NEW row \in RowType
  PROVE  /\ \A s \in WorkflowState : [row EXCEPT !.state = s] \in RowType
         /\ \A b \in BOOLEAN : [row EXCEPT !.due = b] \in RowType
         /\ \A l \in {"none", "live", "expired"} : [row EXCEPT !.lease = l] \in RowType
         /\ \A h \in Pod \cup {NoPod} : [row EXCEPT !.holder = h] \in RowType
         /\ Released(row) \in RowType
  BY DEF RowType, Released

(* What the edits of a row's claim and backoff leave alone. *)
LEMMA RowKeeps ==
  ASSUME NEW row \in RowType
  PROVE  /\ Released(row).state = row.state /\ Released(row).op = row.op
         /\ [Released(row) EXCEPT !.due = FALSE].state = row.state
         /\ [Released(row) EXCEPT !.due = FALSE].op = row.op
         /\ \A s \in WorkflowState : /\ [Released(row) EXCEPT !.state = s].state = s
                                    /\ [Released(row) EXCEPT !.state = s].op = row.op
<1>1. Released(row) \in RowType
  BY RowEdits
<1>2. Released(row).state = row.state /\ Released(row).op = row.op
  BY DEF RowType, Released
<1> HIDE DEF Released
<1>3. ASSUME NEW r \in RowType
      PROVE  /\ [r EXCEPT !.due = FALSE].state = r.state /\ [r EXCEPT !.due = FALSE].op = r.op
             /\ \A s \in WorkflowState : /\ [r EXCEPT !.state = s].state = s
                                        /\ [r EXCEPT !.state = s].op = r.op
  BY DEF RowType
<1> QED BY <1>1, <1>2, <1>3

(* The row createWorkflow writes is a row. *)
LEMMA NewRowType ==
  ASSUME NEW s \in WorkflowState, NEW t \in WorkflowType, NEW o \in 0..MaxOps,
         NEW v \in 0..MaxOps, NEW envs \in SUBSET Env
  PROVE  NewRow(s, t, o, v, envs) \in RowType
  BY DEF NewRow, RowType

(* The plan writeStepPlan writes is a plan. *)
LEMMA WriteStepPlanType ==
  ASSUME NEW t, NEW envs
  PROVE  WriteStepPlan(t, envs) \in [Step -> StepType]
  BY Constants DEF WriteStepPlan, StepType, StepState, NoStep

(* A worker that goes to another statement is still a worker. *)
LEMMA WorkerEdits ==
  ASSUME NEW me \in WorkerType, NEW c \in Pc
  PROVE  [me EXCEPT !.pc = c] \in WorkerType
  BY DEF WorkerType

(* The attempt counter stays under its cap. *)
LEMMA NextAttemptType ==
  ASSUME NEW n \in 0..AttemptCap
  PROVE  NextAttempt(n) \in 0..AttemptCap
  BY Constants DEF NextAttempt

(* An idle worker is a worker. *)
LEMMA IdleType == Idle \in WorkerType
  BY Constants DEF Idle, WorkerType, Pc, PLAN

(* A user with no request open is a user. *)
LEMMA AwayType == Away \in UserType
  BY Constants DEF Away, UserType, AllIntents, Status, Resting

(* The two ways a request handler moves on keep the type of every user. *)
LEMMA UserEdits ==
  ASSUME TypeOK, NEW u \in User
  PROVE  /\ [sub EXCEPT ![u] = Away] \in [User -> UserType]
         /\ [sub EXCEPT ![u].pc = "insert"] \in [User -> UserType]
  BY AwayType DEF TypeOK, UserType

(* GoTo keeps the type of every worker. *)
LEMMA GoToType ==
  ASSUME TypeOK, NEW p \in Worker, at[p].pc # "idle", NEW c \in Pc, GoTo(p, c)
  PROVE  WorkersTyped'
  BY WorkerEdits DEF TypeOK, WorkersTyped, GoTo, WorkerType

(* Leave keeps the type of every worker. *)
LEMMA LeaveType ==
  ASSUME TypeOK, NEW p \in Worker, Leave(p)
  PROVE  WorkersTyped'
  BY IdleType DEF TypeOK, WorkersTyped, Leave, Idle

(* A busy worker holds a workflow, is at a step and counts its attempts. *)
LEMMA WorkerFacts ==
  ASSUME TypeOK, NEW p \in Worker, at[p].pc # "idle"
  PROVE  /\ at[p].w \in Op /\ wf[at[p].w] \in RowType
         /\ at[p].step \in Step \cup {Done} /\ at[p].attempt \in 0..AttemptCap
  BY DEF TypeOK, WorkersTyped, WorkerType

(* Recording an outcome keeps the type of the outcomes. *)
LEMMA RecordedType ==
  ASSUME TypeOK, NEW o, NEW x \in Outcome
  PROVE  Recorded(outcome, o, x) \in [Op -> Outcome \cup {"none"}]
  BY DEF TypeOK, Recorded

(* The integration a submission saves is an integration. *)
LEMMA SavedType ==
  ASSUME TypeOK, NEW u \in User, NEW n \in 0..MaxOps
  PROVE  Saved(u, n) \in RequestType
  BY DEF TypeOK, Saved, RequestType, UserType, Status

(* Promoting the parked row keeps the type of the table. *)
LEMMA PromoteType ==
  ASSUME TypeOK, PromoteQueued
  PROVE  wf' \in [Op -> RowType]
<1>1. \A w \in Op : [wf[w] EXCEPT !.state = "PENDING", !.due = TRUE] \in RowType
  BY DEF TypeOK, RowType, WorkflowState, Active
<1> QED BY <1>1 DEF TypeOK, PromoteQueued

(* The next turn of the loop of execute keeps the type of every worker. *)
LEMMA NextIterationType ==
  ASSUME TypeOK, NEW p \in Worker, at[p].pc # "idle", NextIteration(p)
  PROVE  WorkersTyped'
<1>1. [at[p] EXCEPT !.pc = "probe", !.step = 0, !.attempt = 0] \in WorkerType
  <2>1. at[p] \in WorkerType /\ 0 \in Step /\ 0 \in 0..AttemptCap
    BY Constants DEF TypeOK, WorkersTyped, PLAN
  <2> QED BY <2>1 DEF WorkerType, Pc
<1>2. [at[p] EXCEPT !.pc = "probe", !.step = 0, !.attempt = 0].w \in Op
  BY WorkerFacts DEF TypeOK, WorkersTyped, WorkerType
<1> QED BY <1>1, <1>2 DEF TypeOK, WorkersTyped, NextIteration

(* Beginning a step keeps the type of every worker. *)
LEMMA BeginType ==
  ASSUME TypeOK, NEW p \in Worker, at[p].pc # "idle", NEW s \in Step, NEW a \in 0..AttemptCap,
         at' = [at EXCEPT ![p] = [@ EXCEPT !.pc = "begin", !.step = s, !.attempt = a]]
  PROVE  WorkersTyped'
<1> DEFINE me == [at[p] EXCEPT !.pc = "begin", !.step = s, !.attempt = a]
<1>1. me \in WorkerType /\ me.w = at[p].w
  BY DEF TypeOK, WorkersTyped, WorkerType, Pc
<1> QED BY <1>1, WorkerFacts DEF TypeOK, WorkersTyped

(* Marking a step keeps the type of the plans. *)
LEMMA SetStepType ==
  ASSUME TypeOK, NEW p \in Worker, NEW st \in StepState, SetStep(p, st)
  PROVE  steps' \in [Op -> [Step -> StepType]]
<1>1. \A x \in StepType : [x EXCEPT !.state = st] \in StepType
  BY DEF StepType
<1> QED BY <1>1 DEF TypeOK, SetStep

(* The terminal write of a workflow keeps the type of the table. *)
LEMMA TerminateType ==
  ASSUME TypeOK, NEW p \in Worker, at[p].pc # "idle", NEW s \in WorkflowState,
         NEW won, NEW lost, Terminate(p, s, won, lost)
  PROVE  wf' \in [Op -> RowType]
<1>1. wf[at[p].w] \in RowType
  BY WorkerFacts
<1>2. Released(wf[at[p].w]) \in RowType
  BY <1>1, RowEdits
<1>3. [Released(wf[at[p].w]) EXCEPT !.state = s] \in RowType
  BY <1>2, RowEdits
<1> QED BY <1>3 DEF TypeOK, Terminate

-----------------------------------------------------------------------------
(* Type correctness *)

(* No request handler breaks a type. *)
LEMMA TypeSubmission ==
  ASSUME TypeOK, NEW u \in User, Submission(u)
  PROVE  TypeOK'
<1> DEFINE n == nOps + 1
<1>0. nOps < MaxOps => n \in Op /\ n \in 0..MaxOps
  BY Constants DEF TypeOK, Op
<1>a. sub[u] \in UserType
  BY DEF TypeOK
<1>1. ASSUME NEW intent \in Intents, ReadRequest(u, intent) PROVE TypeOK'
  BY <1>1, Constants DEF TypeOK, ReadRequest, RequestType, UserType, WorkersTyped
<1>2. CASE GiveUp(u)
  BY <1>2, UserEdits DEF TypeOK, GiveUp, WorkersTyped
<1>3. CASE DeleteDraft(u)
  <2>1. request' \in RequestType
    BY <1>3, SavedType DEF TypeOK, DeleteDraft
  <2> QED BY <1>3, <2>1, UserEdits DEF TypeOK, DeleteDraft, WorkersTyped
<1>4. CASE Delete(u)
  <2>1. request' \in RequestType
    BY <1>4, <1>0, SavedType DEF Delete
  <2>2. NewRow("PENDING", "DELETE", n, sub[u].version, sub[u].envs) \in RowType
    BY <1>4, <1>0, <1>a, NewRowType DEF Delete, UserType, WorkflowState, Active, WorkflowType
  <2>3. \A w \in Op : [Released(wf[w]) EXCEPT !.state = "SUPERSEDED"] \in RowType
    BY RowEdits DEF TypeOK, WorkflowState, Terminal
  <2>4. wf' \in [Op -> RowType]
    BY <1>4, <2>2, <2>3 DEF TypeOK, Delete
  <2>5. outcome' \in [Op -> Outcome \cup {"none"}]
    BY <1>4 DEF TypeOK, Delete, Outcome
  <2>6. steps' \in [Op -> [Step -> StepType]]
    BY <1>4, <1>0, WriteStepPlanType DEF TypeOK, Delete
  <2>7. sub' \in [User -> UserType]
    BY <1>4, UserEdits DEF Delete
  <2> QED BY <1>4, <1>0, <2>1, <2>4, <2>5, <2>6, <2>7 DEF TypeOK, Delete, WorkersTyped
<1>5. CASE Park(u)
  <2> DEFINE row == NewRow("QUEUED", TypeFor(u), n, PayloadVersion(u, n), sub[u].envs)
  <2>1. request' \in RequestType
    BY <1>5, <1>0, SavedType DEF Park
  <2>2. row \in RowType
    <3>1. TypeFor(u) \in WorkflowType /\ PayloadVersion(u, n) \in 0..MaxOps
      BY <1>5, <1>0, <1>a DEF Park, TypeFor, PayloadVersion, UserType, WorkflowType
    <3> QED BY <1>5, <1>0, <1>a, <3>1, NewRowType DEF Park, UserType, WorkflowState, Active
  <2>3. /\ wf' \in [Op -> RowType]
        /\ outcome' \in [Op -> Outcome \cup {"none"}]
        /\ steps' \in [Op -> [Step -> StepType]]
    <3>1. ASSUME NEW q \in Op, wf[q].state = "QUEUED",
                 outcome' = Recorded(outcome, wf[q].op, "superseded"),
                 wf' = [wf EXCEPT ![q] = row],
                 steps' = [steps EXCEPT ![q] = WriteStepPlan(TypeFor(u), sub[u].envs)]
          PROVE  /\ wf' \in [Op -> RowType]
                 /\ outcome' \in [Op -> Outcome \cup {"none"}]
                 /\ steps' \in [Op -> [Step -> StepType]]
      BY <3>1, <2>2, RecordedType, WriteStepPlanType DEF TypeOK, Outcome
    <3>2. ASSUME wf' = [wf EXCEPT ![n] = row],
                 steps' = [steps EXCEPT ![n] = WriteStepPlan(TypeFor(u), sub[u].envs)],
                 outcome' = outcome
          PROVE  /\ wf' \in [Op -> RowType]
                 /\ outcome' \in [Op -> Outcome \cup {"none"}]
                 /\ steps' \in [Op -> [Step -> StepType]]
      BY <3>2, <2>2, WriteStepPlanType DEF TypeOK
    <3> HIDE DEF row
    <3> QED BY <1>5, <3>1, <3>2 DEF Park, row, Rows
  <2>4. sub' \in [User -> UserType]
    BY <1>5, UserEdits DEF Park
  <2> QED BY <1>5, <1>0, <2>1, <2>3, <2>4 DEF TypeOK, Park, WorkersTyped
<1>6. CASE FindNothingInFlight(u)
  BY <1>6, UserEdits DEF TypeOK, FindNothingInFlight, WorkersTyped
<1>7. CASE Insert(u)
  <2> DEFINE row == NewRow("PENDING", TypeFor(u), n, PayloadVersion(u, n), sub[u].envs)
  <2>0. n \in Op /\ n \in 0..MaxOps
    BY <1>7, <1>0 DEF Insert
  <2>1. request' \in RequestType
    BY <1>7, <2>0, SavedType DEF Insert
  <2>2. row \in RowType
    <3>1. TypeFor(u) \in WorkflowType /\ PayloadVersion(u, n) \in 0..MaxOps
      BY <2>0, <1>a DEF TypeFor, PayloadVersion, UserType, WorkflowType
    <3> QED BY <2>0, <1>a, <3>1, NewRowType DEF UserType, WorkflowState, Active
  <2>3. /\ wf' \in [Op -> RowType]
        /\ steps' \in [Op -> [Step -> StepType]]
        /\ outcome' \in [Op -> Outcome \cup {"none"}]
    <3>1. ASSUME wf' = [wf EXCEPT ![n] = row],
                 steps' = [steps EXCEPT ![n] = WriteStepPlan(TypeFor(u), sub[u].envs)],
                 outcome' = outcome
          PROVE  <2>3
      BY <3>1, <2>2, WriteStepPlanType DEF TypeOK
    <3>2. ASSUME outcome' = [outcome EXCEPT ![n] = "superseded"], wf' = wf, steps' = steps
          PROVE  <2>3
      BY <3>2 DEF TypeOK, Outcome
    <3> HIDE DEF row
    <3> QED BY <1>7, <3>1, <3>2 DEF Insert, row
  <2>4. sub' \in [User -> UserType]
    BY <1>7, UserEdits DEF Insert
  <2> QED BY <1>7, <2>0, <2>1, <2>3, <2>4 DEF TypeOK, Insert, WorkersTyped
<1> QED BY <1>1, <1>2, <1>3, <1>4, <1>5, <1>6, <1>7 DEF Submission

(* The actions that only move a worker, and those that change one thing more. *)
LEMMA TypeEngine ==
  ASSUME TypeOK, NEW p \in Worker, Engine(p)
  PROVE  TypeOK'
<1> DEFINE w == at[p].w
<1> USE DEF Pc
<1>1. CASE Load(p)
  <2>1. WorkersTyped'
    BY <1>1, GoToType DEF Load
  <2> QED BY <1>1, <2>1 DEF TypeOK, Load
<1>2. CASE Start(p)
  <2>1. WorkersTyped'
    BY <1>2, GoToType DEF Start
  <2>2. wf' \in [Op -> RowType]
    <3>1. [wf[w] EXCEPT !.state = "RUNNING"] \in RowType
      BY <1>2, WorkerFacts, RowEdits DEF Start, WorkflowState, Active
    <3> QED BY <1>2, <3>1 DEF TypeOK, Start
  <2> QED BY <1>2, <2>1, <2>2 DEF TypeOK, Start
<1>3. CASE Probe(p)
  <2>1. WorkersTyped'
    <3>1. ASSUME NEW s \in Step,
                 at' = [at EXCEPT ![p] = [@ EXCEPT !.pc = "begin", !.step = s,
                                  !.attempt = NextAttempt(steps[w][s].attempts)]]
          PROVE  WorkersTyped'
      <4>1. NextAttempt(steps[w][s].attempts) \in 0..AttemptCap
        BY <1>3, WorkerFacts, NextAttemptType DEF TypeOK, StepType, Probe
      <4> QED BY <1>3, <3>1, <4>1, BeginType DEF Probe
    <3> QED BY <1>3, <3>1, GoToType DEF Probe
  <2> QED BY <1>3, <2>1 DEF TypeOK, Probe
<1>4. CASE Release(p)
  <2>1. WorkersTyped'
    BY <1>4, GoToType, LeaveType DEF Release
  <2>2. wf' \in [Op -> RowType]
    BY <1>4, WorkerFacts, RowEdits DEF TypeOK, Release
  <2> QED BY <1>4, <2>1, <2>2 DEF TypeOK, Release
<1>5. CASE CloseOut(p)
  <2>1. WorkersTyped'
    BY <1>5, LeaveType DEF CloseOut
  <2>2. outcome' \in [Op -> Outcome \cup {"none"}]
    BY <1>5, RecordedType DEF CloseOut, Outcome
  <2> QED BY <1>5, <2>1, <2>2 DEF TypeOK, CloseOut
<1>6. CASE BeginStep(p)
  <2>1. WorkersTyped'
    BY <1>6, GoToType DEF BeginStep
  <2>2. [state |-> "RUNNING", attempts |-> at[p].attempt] \in StepType
    BY <1>6, WorkerFacts DEF BeginStep, StepType, StepState
  <2>3. steps' \in [Op -> [Step -> StepType]]
    BY <1>6, <2>2 DEF TypeOK, BeginStep
  <2> QED BY <1>6, <2>1, <2>3 DEF TypeOK, BeginStep
<1>7. CASE StepBody(p)
  <2>1. CASE ExecPlan(p)
    <3>1. WorkersTyped'
      BY <2>1, GoToType DEF ExecPlan
    <3> QED BY <2>1, <3>1 DEF TypeOK, ExecPlan, RequestType, Status
  <2>2. CASE ExecApply(p)
    <3>1. WorkersTyped'
      BY <2>2, GoToType DEF ExecApply
    <3>2. Desired(at[p].w) \in 0..MaxOps
      BY <2>2, WorkerFacts, Constants DEF ExecApply, Desired, RowType
    <3> QED BY <2>2, <3>1, <3>2 DEF TypeOK, ExecApply
  <2>3. CASE ExecOther(p)
    <3>1. WorkersTyped'
      BY <2>3, GoToType DEF ExecOther
    <3> QED BY <2>3, <3>1 DEF TypeOK, ExecOther
  <2>4. CASE FinalizeOutcome(p)
    <3>1. WorkersTyped'
      BY <2>4, GoToType DEF FinalizeOutcome
    <3>2. outcome' \in [Op -> Outcome \cup {"none"}]
      BY <2>4, RecordedType DEF FinalizeOutcome, Outcome
    <3> QED BY <2>4, <3>1, <3>2 DEF TypeOK, FinalizeOutcome
  <2>5. CASE FinalizeStatus(p)
    <3>1. WorkersTyped'
      BY <2>5, GoToType DEF FinalizeStatus
    <3> QED BY <2>5, <3>1 DEF TypeOK, FinalizeStatus, RequestType, Status, Resting
  <2> QED BY <1>7, <2>1, <2>2, <2>3, <2>4, <2>5 DEF StepBody
<1>8. CASE CompleteStep(p)
  <2>1. WorkersTyped'
    BY <1>8, NextIterationType DEF CompleteStep
  <2>2. steps' \in [Op -> [Step -> StepType]]
    BY <1>8, SetStepType DEF CompleteStep, StepState
  <2> QED BY <1>8, <2>1, <2>2 DEF TypeOK, CompleteStep
<1>9. CASE FailStep(p)
  <2>1. WorkersTyped'
    BY <1>9, GoToType DEF FailStep, AfterFailure
  <2>2. steps' \in [Op -> [Step -> StepType]]
    BY <1>9, SetStepType DEF FailStep, StepState
  <2> QED BY <1>9, <2>1, <2>2 DEF TypeOK, FailStep
<1>10. CASE SkipStep(p)
  <2>1. WorkersTyped'
    BY <1>10, NextIterationType DEF SkipStep
  <2>2. steps' \in [Op -> [Step -> StepType]]
    BY <1>10, SetStepType DEF SkipStep, StepState
  <2> QED BY <1>10, <2>1, <2>2 DEF TypeOK, SkipStep
<1>11. CASE Retry(p)
  <2>1. WorkersTyped'
    BY <1>11, LeaveType DEF Retry
  <2>2. wf' \in [Op -> RowType]
    <3>1. wf[w] \in RowType /\ w \in Op
      BY <1>11, WorkerFacts DEF Retry
    <3>2. Released(wf[w]) \in RowType
      BY <3>1, RowEdits
    <3>3. [Released(wf[w]) EXCEPT !.due = FALSE] \in RowType
      BY <3>2, RowEdits
    <3> QED BY <1>11, <3>3 DEF TypeOK, Retry
  <2> QED BY <1>11, <2>1, <2>2 DEF TypeOK, Retry
<1>12. CASE CompleteWorkflow(p)
  <2>1. WorkersTyped'
    BY <1>12, GoToType, LeaveType DEF CompleteWorkflow, Terminate
  <2>2. wf' \in [Op -> RowType]
    BY <1>12, TerminateType DEF CompleteWorkflow, WorkflowState, Terminal
  <2> QED BY <1>12, <2>1, <2>2 DEF TypeOK, CompleteWorkflow
<1>13. CASE FailWorkflow(p)
  <2>1. WorkersTyped'
    BY <1>13, GoToType DEF FailWorkflow, Terminate
  <2>2. wf' \in [Op -> RowType]
    BY <1>13, TerminateType DEF FailWorkflow, WorkflowState, Terminal
  <2> QED BY <1>13, <2>1, <2>2 DEF TypeOK, FailWorkflow
<1>14. CASE FailStatus(p)
  <2>1. WorkersTyped'
    BY <1>14, GoToType DEF FailStatus
  <2> QED BY <1>14, <2>1 DEF TypeOK, FailStatus, RequestType, Status, Resting
<1>15. CASE FailOutcome(p)
  <2>1. WorkersTyped'
    BY <1>15, GoToType DEF FailOutcome
  <2>2. outcome' \in [Op -> Outcome \cup {"none"}]
    BY <1>15, RecordedType DEF FailOutcome, Outcome
  <2> QED BY <1>15, <2>1, <2>2 DEF TypeOK, FailOutcome
<1>16. CASE DeadLetter(p)
  <2>1. WorkersTyped'
    BY <1>16, GoToType DEF DeadLetter
  <2> QED BY <1>16, <2>1, WorkerFacts DEF TypeOK, DeadLetter
<1>17. CASE StartQueued(p)
  <2>1. WorkersTyped'
    BY <1>17, LeaveType DEF StartQueued
  <2> QED BY <1>17, <2>1, PromoteType DEF TypeOK, StartQueued
<1> QED BY <1>1, <1>2, <1>3, <1>4, <1>5, <1>6, <1>7, <1>8, <1>9, <1>10, <1>11, <1>12,
           <1>13, <1>14, <1>15, <1>16, <1>17 DEF Engine

(* No time-out, exception, heartbeat or spent budget breaks a type. *)
LEMMA TypeFaults ==
  ASSUME TypeOK, NEW p \in Worker,
         \/ Timeout(p) \/ StepThrows(p) \/ Throw(p) \/ Heartbeat(p) \/ BudgetSpent(p)
  PROVE  TypeOK'
<1> USE DEF Pc, Fault
<1>0. nFaults < MaxFaults => nFaults + 1 \in 0..MaxFaults
  BY Constants DEF TypeOK
<1>1. CASE Timeout(p)
  <2>1. WorkersTyped'
    BY <1>1, GoToType DEF Timeout
  <2> QED BY <1>1, <1>0, <2>1, WorkerFacts DEF TypeOK, Timeout
<1>2. CASE StepThrows(p)
  <2>1. WorkersTyped'
    BY <1>2, GoToType DEF StepThrows
  <2> QED BY <1>2, <2>1 DEF TypeOK, StepThrows
<1>3. CASE Throw(p)
  <2>1. WorkersTyped'
    BY <1>3, GoToType, LeaveType DEF Throw
  <2> QED BY <1>3, <1>0, <2>1 DEF TypeOK, Throw
<1>4. CASE Heartbeat(p)
  <2>1. [wf[at[p].w] EXCEPT !.lease = "live"] \in RowType
    BY <1>4, WorkerFacts, RowEdits DEF Heartbeat
  <2> QED BY <1>4, <2>1 DEF TypeOK, Heartbeat, WorkersTyped
<1>5. CASE BudgetSpent(p)
  <2>1. WorkersTyped'
    BY <1>5, GoToType DEF BudgetSpent
  <2> QED BY <1>5, <1>0, <2>1 DEF TypeOK, BudgetSpent
<1> QED BY <1>1, <1>2, <1>3, <1>4, <1>5

(* claimWorkflow breaks no type. *)
LEMMA TypeClaim ==
  ASSUME TypeOK, NEW p \in Worker, NEW w \in Op, Claim(p, w)
  PROVE  TypeOK'
<1>1. [wf[w] EXCEPT !.lease = "live", !.holder = PodOf[p]] \in RowType
  <2>1. PodOf[p] \in Pod \cup {NoPod} /\ wf[w] \in RowType
    BY Constants DEF TypeOK
  <2> QED BY <2>1 DEF RowType
<1>2. wf' \in [Op -> RowType]
  BY <1>1 DEF TypeOK, Claim
<1> DEFINE me == [pc |-> "load", w |-> w, step |-> 0, attempt |-> 0]
<1>3. me \in WorkerType /\ me.w = w
  <2>1. w \in 0..MaxOps
    BY Constants DEF Op
  <2>2. 0 \in Step /\ 0 \in 0..AttemptCap
    BY Constants DEF PLAN
  <2> QED BY <2>1, <2>2 DEF WorkerType, Pc
<1>4. WorkersTyped'
  BY <1>3 DEF TypeOK, WorkersTyped, Claim
<1> QED BY <1>2, <1>4 DEF TypeOK, Claim

(* No timer, lease or late Keycloak answer breaks a type. *)
LEMMA TypeTable ==
  ASSUME TypeOK, NEW w \in Op,
         \/ BackoffElapses(w) \/ LeaseLapses(w) \/ LeaseLost(w)
         \/ \E e \in Env : LateApply(w, e)
  PROVE  TypeOK'
<1> USE DEF WorkersTyped
<1>1. /\ [wf[w] EXCEPT !.due = TRUE] \in RowType
      /\ [wf[w] EXCEPT !.lease = "expired"] \in RowType
  BY RowEdits DEF TypeOK
<1>2. CASE BackoffElapses(w)
  BY <1>1, <1>2 DEF TypeOK, BackoffElapses
<1>3. CASE LeaseLapses(w)
  BY <1>1, <1>3 DEF TypeOK, LeaseLapses
<1>4. CASE LeaseLost(w)
  BY <1>1, <1>4, Constants DEF TypeOK, LeaseLost, Fault
<1>5. ASSUME NEW e \in Env, LateApply(w, e) PROVE TypeOK'
  <2>1. Desired(w) \in 0..MaxOps
    BY Constants DEF TypeOK, Desired, RowType
  <2> QED BY <1>5, <2>1 DEF TypeOK, LateApply
<1> QED BY <1>2, <1>3, <1>4, <1>5

(* Every variable keeps its type, and a worker that is not idle works on a
   row of the table. *)
THEOREM TypeCorrect == Spec => []TypeOK
<1>1. Init => TypeOK
  BY Constants, IdleType, AwayType
     DEF Init, TypeOK, RequestType, RowType, StepType, WorkersTyped, NoRow, NoStep, Idle,
         WorkflowType, Status, Resting
<1>2. TypeOK /\ [Next]_vars => TypeOK'
  <2> SUFFICES ASSUME TypeOK, [Next]_vars PROVE TypeOK'
    OBVIOUS
  <2>1. ASSUME NEW u \in User, Submission(u) PROVE TypeOK'
    BY <2>1, TypeSubmission
  <2>2. CASE PromoteOrphan
    BY <2>2, PromoteType DEF TypeOK, PromoteOrphan, WorkersTyped
  <2>3. ASSUME NEW p \in Worker, NEW w \in Op, Claim(p, w) PROVE TypeOK'
    BY <2>3, TypeClaim
  <2>4. ASSUME NEW p \in Worker, Engine(p) PROVE TypeOK'
    BY <2>4, TypeEngine
  <2>5. ASSUME NEW p \in Worker,
               Timeout(p) \/ StepThrows(p) \/ Throw(p) \/ Heartbeat(p) \/ BudgetSpent(p)
        PROVE  TypeOK'
    BY <2>5, TypeFaults
  <2>6. ASSUME NEW w \in Op,
               \/ BackoffElapses(w) \/ LeaseLapses(w) \/ LeaseLost(w)
               \/ \E e \in Env : LateApply(w, e)
        PROVE  TypeOK'
    BY <2>6, TypeTable
  <2>7. ASSUME NEW pod \in Pod, Crash(pod) PROVE TypeOK'
    <3>1. WorkersTyped'
      BY <2>7, IdleType DEF TypeOK, WorkersTyped, Crash, Idle
    <3> QED BY <2>7, <3>1, Constants DEF TypeOK, Crash, Fault
  <2>8. CASE UNCHANGED vars
    BY <2>8 DEF vars, TypeOK, WorkersTyped
  <2> QED BY <2>1, <2>2, <2>3, <2>4, <2>5, <2>6, <2>7, <2>8 DEF Next
<1> QED BY <1>1, <1>2, PTL DEF Spec

-----------------------------------------------------------------------------
(* One owner: the one-claimable-row and one-parked-row rules *)

(* No row enters the states the rules are about. *)
NobodyEnters ==
  \A w \in Op : /\ wf'[w].state \in Claimable => wf[w].state \in Claimable
                /\ wf'[w].state = "QUEUED" => wf[w].state = "QUEUED"

(* The rule holds on where no row enters the states it is about. *)
LEMMA OneOwnerKept ==
  ASSUME OneClaimableOneQueued, NobodyEnters
  PROVE  OneClaimableOneQueued'
  BY DEF OneClaimableOneQueued, NobodyEnters

(* Promotion keeps the rule: it waits until no row is claimable. *)
LEMMA OneOwnerPromotion ==
  ASSUME TypeOK, OneClaimableOneQueued, PromoteQueued
  PROVE  OneClaimableOneQueued'
<1>1. CASE Rows(Claimable) = {}
  <2>1. \A w \in Op : wf[w].state \notin Claimable
    BY <1>1 DEF Rows
  <2>2. \A w \in Op : /\ wf'[w].state \in Claimable => wf[w].state = "QUEUED"
                      /\ wf'[w].state # "QUEUED"
    BY <1>1, <2>1 DEF TypeOK, RowType, PromoteQueued, Claimable
  <2> QED BY <2>2 DEF OneClaimableOneQueued
<1>2. CASE Rows(Claimable) # {}
  <2>1. NobodyEnters
    BY <1>2 DEF TypeOK, PromoteQueued, NobodyEnters
  <2> QED BY <2>1, OneOwnerKept
<1> QED BY <1>1, <1>2

(* A submission keeps the rule: it parks, supersedes or finds nothing in
   flight. *)
LEMMA OneOwnerSubmission ==
  ASSUME TypeOK, OneClaimableOneQueued, NEW u \in User, Submission(u)
  PROVE  OneClaimableOneQueued'
<1> DEFINE n == nOps + 1
<1>0. nOps < MaxOps => n \in Op
  BY Constants DEF TypeOK, Op
<1>1. CASE UNCHANGED wf
  BY <1>1 DEF OneClaimableOneQueued
<1>2. CASE Delete(u)
  <2>1. \A w \in Op : w # n => wf'[w].state \notin Active
    BY <1>2 DEF TypeOK, RowType, Delete, Active
  <2>2. wf'[n].state = "PENDING"
    BY <1>2, <1>0 DEF Delete, NewRow
  <2> QED BY <2>1, <2>2 DEF OneClaimableOneQueued, Active, Claimable
<1>3. CASE Park(u)
  <2> DEFINE row == NewRow("QUEUED", TypeFor(u), n, PayloadVersion(u, n), sub[u].envs)
  <2>1. row.state = "QUEUED"
    BY DEF NewRow
  <2> HIDE DEF row
  <2>2. ASSUME NEW q \in Op, wf[q].state = "QUEUED", wf' = [wf EXCEPT ![q] = row]
        PROVE  OneClaimableOneQueued'
    <3>1. NobodyEnters
      BY <2>1, <2>2 DEF TypeOK, NobodyEnters, Claimable
    <3> QED BY <3>1, OneOwnerKept
  <2>3. ASSUME Rows({"QUEUED"}) = {}, wf' = [wf EXCEPT ![n] = row]
        PROVE  OneClaimableOneQueued'
    <3>1. \A w \in Op : wf[w].state # "QUEUED"
      BY <2>3 DEF Rows
    <3>2. \A w \in Op : wf'[w].state = IF w = n THEN "QUEUED" ELSE wf[w].state
      BY <2>1, <2>3 DEF TypeOK
    <3> QED BY <3>1, <3>2 DEF OneClaimableOneQueued, Claimable
  <2> QED BY <1>3, <2>2, <2>3 DEF Park, Rows, row
<1>4. CASE Insert(u) /\ Rows(Claimable) = {}
  <2> DEFINE row == NewRow("PENDING", TypeFor(u), n, PayloadVersion(u, n), sub[u].envs)
  <2>1. row.state = "PENDING"
    BY DEF NewRow
  <2> HIDE DEF row
  <2>2. wf' = [wf EXCEPT ![n] = row]
    BY <1>4 DEF Insert, row
  <2>3. \A w \in Op : wf[w].state \notin Claimable
    BY <1>4 DEF Rows
  <2>4. \A w \in Op : wf'[w].state = IF w = n THEN "PENDING" ELSE wf[w].state
    BY <2>1, <2>2 DEF TypeOK
  <2> QED BY <2>3, <2>4 DEF OneClaimableOneQueued, Claimable
<1> QED BY <1>1, <1>2, <1>3, <1>4
        DEF Submission, ReadRequest, GiveUp, DeleteDraft, FindNothingInFlight, Insert

(* A worker keeps the rule: it starts a row only where no other is
   claimable. *)
LEMMA OneOwnerEngine ==
  ASSUME TypeOK, OneClaimableOneQueued, NEW p \in Worker, Engine(p)
  PROVE  OneClaimableOneQueued'
<1> DEFINE w == at[p].w
<1>1. CASE UNCHANGED wf
  BY <1>1 DEF OneClaimableOneQueued
<1>2. CASE Start(p) /\ Rows(Claimable) \subseteq {w}
  <2>1. \A v \in Op : v # w => wf[v].state \notin Claimable /\ wf'[v] = wf[v]
    BY <1>2 DEF Rows, Start, TypeOK
  <2>2. w \in Op => wf'[w].state = "RUNNING"
    BY <1>2 DEF Start, TypeOK, RowType
  <2> QED BY <2>1, <2>2 DEF OneClaimableOneQueued, Claimable
<1>3. CASE Release(p) \/ Retry(p)
  <2>1. NobodyEnters
    <3>1. at[p].pc # "idle"
      BY <1>3 DEF Release, Retry
    <3>2. wf[w] \in RowType /\ w \in Op
      BY <3>1, WorkerFacts
    <3>3. wf'[w].state = wf[w].state /\ \A v \in Op : v # w => wf'[v] = wf[v]
      BY <1>3, <3>2, RowKeeps DEF Release, Retry, TypeOK
    <3> QED BY <3>3 DEF NobodyEnters
  <2> QED BY <2>1, OneOwnerKept
<1>4. CASE CompleteWorkflow(p) \/ FailWorkflow(p)
  <2>1. NobodyEnters
    <3>1. at[p].pc # "idle"
      BY <1>4 DEF CompleteWorkflow, FailWorkflow
    <3>2. wf[w] \in RowType /\ w \in Op
      BY <3>1, WorkerFacts
    <3>3. wf'[w].state \in {wf[w].state, "COMPLETED", "FAILED"}
          /\ \A v \in Op : v # w => wf'[v] = wf[v]
      <4>1. /\ [Released(wf[w]) EXCEPT !.state = "COMPLETED"].state = "COMPLETED"
            /\ [Released(wf[w]) EXCEPT !.state = "FAILED"].state = "FAILED"
        BY <3>2, RowKeeps DEF WorkflowState, Terminal
      <4> QED BY <1>4, <3>2, <4>1 DEF CompleteWorkflow, FailWorkflow, Terminate, TypeOK
    <3> QED BY <3>3 DEF NobodyEnters, Claimable
  <2> QED BY <2>1, OneOwnerKept
<1>5. CASE StartQueued(p)
  BY <1>5, OneOwnerPromotion DEF StartQueued
<1> QED BY <1>1, <1>2, <1>3, <1>4, <1>5
        DEF Engine, Load, Start, Probe, CloseOut, BeginStep, StepBody, ExecPlan, ExecApply,
            ExecOther, FinalizeOutcome, FinalizeStatus, CompleteStep, FailStep, SkipStep,
            FailStatus, FailOutcome, DeadLetter

(* At most one row of an integration is claimable and at most one is parked:
   what createWorkflow, promoteQueuedWorkflow, supersedeActiveWorkflows and the
   unique indexes of the migration give together. *)
THEOREM OneOwner == Spec => []OneClaimableOneQueued
<1>1. Init => OneClaimableOneQueued
  BY DEF Init, OneClaimableOneQueued, NoRow, Claimable
<1>2. TypeOK /\ OneClaimableOneQueued /\ [Next]_vars => OneClaimableOneQueued'
  <2> SUFFICES ASSUME TypeOK, OneClaimableOneQueued, [Next]_vars
               PROVE  OneClaimableOneQueued'
    OBVIOUS
  <2>1. CASE UNCHANGED wf
    BY <2>1 DEF OneClaimableOneQueued
  <2>2. ASSUME NEW u \in User, Submission(u) PROVE OneClaimableOneQueued'
    BY <2>2, OneOwnerSubmission
  <2>3. CASE PromoteOrphan
    BY <2>3, OneOwnerPromotion DEF PromoteOrphan
  <2>4. ASSUME NEW p \in Worker, Engine(p) PROVE OneClaimableOneQueued'
    BY <2>4, OneOwnerEngine
  <2>5. ASSUME NEW p \in Worker, NEW w \in Op, Claim(p, w) PROVE OneClaimableOneQueued'
    <3>1. NobodyEnters
      BY <2>5 DEF Claim, TypeOK, RowType, NobodyEnters
    <3> QED BY <3>1, OneOwnerKept
  <2>6. ASSUME NEW p \in Worker, Heartbeat(p) PROVE OneClaimableOneQueued'
    <3>1. NobodyEnters
      BY <2>6 DEF Heartbeat, TypeOK, RowType, NobodyEnters
    <3> QED BY <3>1, OneOwnerKept
  <2>7. ASSUME NEW w \in Op, BackoffElapses(w) \/ LeaseLapses(w) \/ LeaseLost(w)
        PROVE  OneClaimableOneQueued'
    <3>1. NobodyEnters
      <4>1. CASE BackoffElapses(w)
        BY <4>1 DEF BackoffElapses, TypeOK, RowType, NobodyEnters
      <4>2. CASE LeaseLapses(w)
        BY <4>2 DEF LeaseLapses, TypeOK, RowType, NobodyEnters
      <4>3. CASE LeaseLost(w)
        BY <4>3 DEF LeaseLost, TypeOK, RowType, NobodyEnters
      <4> QED BY <2>7, <4>1, <4>2, <4>3
    <3> QED BY <3>1, OneOwnerKept
  <2> QED BY <2>1, <2>2, <2>3, <2>4, <2>5, <2>6, <2>7
          DEF Next, Timeout, StepThrows, Throw, BudgetSpent, LateApply, Crash, vars
<1> QED BY <1>1, <1>2, TypeCorrect, PTL DEF Spec

-----------------------------------------------------------------------------
(* No submission is lost.  Every step but a submission is orderly: no outcome  *)
(* is taken back, rows keep their operation, parked rows are left alone but    *)
(* for their promotion, and what a worker believes recorded is.                *)

Accounted == Active \cup {"FAILED"}

OrderlyOutcomes ==
  /\ nOps' = nOps
  /\ \A o \in Op : outcome[o] # "none" => outcome'[o] # "none"

OrderlyRows ==
  \A w \in Op :
    /\ wf'[w].op = wf[w].op
    /\ wf'[w].state = "NONE" <=> wf[w].state = "NONE"
    /\ wf'[w].state = "QUEUED" => wf'[w] = wf[w]
    /\ wf[w].state \in Accounted =>
         wf'[w].state \in Accounted \/ outcome'[wf[w].op] # "none"

OrderlySteps ==
  \A w \in Op :
    /\ wf[w].state = "QUEUED" => steps'[w] = steps[w]
    /\ steps'[w][FINALIZE].state = "ABSENT" => steps[w][FINALIZE].state = "ABSENT"
    /\ steps'[w][FINALIZE].state \in Finished =>
         steps[w][FINALIZE].state \in Finished \/ outcome'[wf[w].op] # "none"

OrderlyWorkers ==
  \A p \in Worker : at'[p].pc # "idle" =>
    /\ wf[at'[p].w].state \notin {"NONE", "QUEUED"}
    /\ Tells(p)' => outcome'[wf[at'[p].w].op] # "none"
    /\ at'[p].pc = "skip" => at'[p].step = NOTIFY

(* An orderly step keeps the ledger. *)
LEMMA OrderlyKeepsLedger ==
  ASSUME TypeOK, TypeOK', Ledger,
         OrderlyOutcomes, OrderlyRows, OrderlySteps, OrderlyWorkers
  PROVE  Ledger'
<1>0. \A w \in Op : wf[w].state # "NONE" => wf[w].op \in Op
  BY Constants DEF Ledger, RowsCarry, TypeOK, Op
<1>1. FreshRows'
  BY DEF Ledger, FreshRows, OrderlyOutcomes, OrderlyRows
<1>2. RowsCarry'
  BY DEF Ledger, RowsCarry, OrderlyOutcomes, OrderlyRows, OrderlySteps
<1>3. WorkersHoldStartedRows'
  <2> SUFFICES ASSUME NEW p \in Worker, at'[p].pc # "idle"
               PROVE  wf'[at'[p].w].state \notin {"NONE", "QUEUED"}
    BY DEF WorkersHoldStartedRows
  <2>1. at'[p].w \in Op
    BY DEF TypeOK, WorkersTyped
  <2> QED BY <2>1 DEF OrderlyWorkers, OrderlyRows
<1>4. FinalizeAnswers'
  <2> SUFFICES ASSUME NEW w \in Op, wf'[w].state # "NONE", steps'[w][FINALIZE].state \in Finished
               PROVE  outcome'[wf'[w].op] # "none"
    BY DEF FinalizeAnswers
  <2>1. wf'[w].op = wf[w].op /\ wf[w].state # "NONE"
    BY DEF OrderlyRows
  <2>2. CASE steps[w][FINALIZE].state \in Finished
    <3>1. outcome[wf[w].op] # "none"
      BY <2>1, <2>2 DEF Ledger, FinalizeAnswers
    <3> QED BY <1>0, <2>1, <3>1 DEF OrderlyOutcomes
  <2>3. CASE steps[w][FINALIZE].state \notin Finished
    BY <2>1, <2>3 DEF OrderlySteps
  <2> QED BY <2>2, <2>3
<1>5. WorkersAnswer'
  <2> SUFFICES ASSUME NEW p \in Worker
               PROVE  /\ Tells(p)' => outcome'[wf'[at'[p].w].op] # "none"
                      /\ at'[p].pc = "skip" => at'[p].step = NOTIFY
    BY DEF WorkersAnswer
  <2>1. at'[p].pc # "idle" => at'[p].w \in Op
    BY DEF TypeOK, WorkersTyped
  <2>2. Tells(p)' => at'[p].pc # "idle"
    BY DEF Tells
  <2> QED BY <2>1, <2>2 DEF OrderlyWorkers, OrderlyRows
<1>6. ParkedRowsFresh'
  BY DEF Ledger, ParkedRowsFresh, OrderlyRows, OrderlySteps
<1>7. EveryOperationAccounted'
  <2> SUFFICES ASSUME NEW o \in 1..nOps, outcome'[o] = "none"
               PROVE  \E w \in Op : wf'[w].op = o /\ wf'[w].state \in Accounted
    BY DEF EveryOperationAccounted, OrderlyOutcomes, Accounted
  <2>1. o \in Op
    BY Constants DEF TypeOK, Op
  <2>2. outcome[o] = "none"
    BY <2>1 DEF OrderlyOutcomes
  <2>3. PICK w \in Op : wf[w].op = o /\ wf[w].state \in Accounted
    BY <2>2 DEF Ledger, EveryOperationAccounted, Accounted
  <2> QED BY <2>3 DEF OrderlyRows
<1> QED BY <1>1, <1>2, <1>3, <1>4, <1>5, <1>6, <1>7 DEF Ledger

(* Under the ledger a busy worker holds a started row with a known
   operation. *)
LEMMA LedgerWorker ==
  ASSUME TypeOK, Ledger, NEW p \in Worker, at[p].pc # "idle"
  PROVE  /\ at[p].w \in Op /\ wf[at[p].w] \in RowType
         /\ wf[at[p].w].state \notin {"NONE", "QUEUED"}
         /\ wf[at[p].w].op \in Op /\ wf[at[p].w].op \in 1..nOps
  BY WorkerFacts, Constants DEF Ledger, WorkersHoldStartedRows, RowsCarry, TypeOK, Op

(* A step that moves no worker is orderly for the workers. *)
LEMMA SameWorkers ==
  ASSUME TypeOK, Ledger, OrderlyOutcomes, at' = at
  PROVE  OrderlyWorkers
<1> SUFFICES ASSUME NEW p \in Worker, at[p].pc # "idle"
             PROVE  /\ wf[at[p].w].state \notin {"NONE", "QUEUED"}
                    /\ Tells(p)' => outcome'[wf[at[p].w].op] # "none"
                    /\ at[p].pc = "skip" => at[p].step = NOTIFY
  BY DEF OrderlyWorkers
<1>1. Tells(p)' => Tells(p)
  BY DEF Tells
<1> QED BY <1>1, LedgerWorker DEF Ledger, WorkersAnswer, OrderlyOutcomes

(* One worker moves, the others stay where they are. *)
LEMMA OneWorkerMoves ==
  ASSUME TypeOK, Ledger, OrderlyOutcomes, NEW p \in Worker, NEW me,
         at' = [at EXCEPT ![p] = me],
         me.pc # "idle" =>
           /\ wf[me.w].state \notin {"NONE", "QUEUED"}
           /\ \/ me.pc \in {"finalize", "complete"}
              \/ me.pc = "settle" /\ me.step = FINALIZE
              => outcome'[wf[me.w].op] # "none"
           /\ me.pc = "skip" => me.step = NOTIFY
  PROVE  OrderlyWorkers
<1> SUFFICES ASSUME NEW q \in Worker, at'[q].pc # "idle"
             PROVE  /\ wf[at'[q].w].state \notin {"NONE", "QUEUED"}
                    /\ Tells(q)' => outcome'[wf[at'[q].w].op] # "none"
                    /\ at'[q].pc = "skip" => at'[q].step = NOTIFY
  BY DEF OrderlyWorkers
<1>1. CASE q = p
  <2>1. at'[q] = me
    BY <1>1 DEF TypeOK, WorkersTyped
  <2> QED BY <2>1 DEF Tells
<1>2. CASE q # p
  <2>1. at'[q] = at[q]
    BY <1>2 DEF TypeOK, WorkersTyped
  <2>2. Tells(q)' => Tells(q)
    BY <2>1 DEF Tells
  <2> QED BY <2>1, <2>2, LedgerWorker DEF Ledger, WorkersAnswer, OrderlyOutcomes
<1> QED BY <1>1, <1>2

(* A worker that leaves its row owes nothing more. *)
LEMMA WorkerLeaves ==
  ASSUME TypeOK, Ledger, OrderlyOutcomes, NEW p \in Worker, Leave(p)
  PROVE  OrderlyWorkers
  BY OneWorkerMoves DEF Leave, Idle

(* A worker that goes to another statement stays orderly where that
   statement's promise holds. *)
LEMMA WorkerGoesTo ==
  ASSUME TypeOK, Ledger, OrderlyOutcomes, NEW p \in Worker, at[p].pc # "idle",
         NEW c \in Pc, GoTo(p, c),
         \/ c \in {"finalize", "complete"}
         \/ c = "settle" /\ at[p].step = FINALIZE
         => outcome'[wf[at[p].w].op] # "none",
         c = "skip" => at[p].step = NOTIFY
  PROVE  OrderlyWorkers
<1> DEFINE me == [at[p] EXCEPT !.pc = c]
<1>1. at[p] \in WorkerType
  BY DEF TypeOK, WorkersTyped
<1>2. me.pc = c /\ me.w = at[p].w /\ me.step = at[p].step
  BY <1>1 DEF WorkerType
<1>3. at' = [at EXCEPT ![p] = me]
  BY DEF GoTo
<1>4. wf[at[p].w].state \notin {"NONE", "QUEUED"}
  BY LedgerWorker
<1> HIDE DEF me
<1> QED BY <1>2, <1>3, <1>4, OneWorkerMoves

(* A worker that begins another turn of the loop stays orderly. *)
LEMMA WorkerIterates ==
  ASSUME TypeOK, Ledger, OrderlyOutcomes, NEW p \in Worker, at[p].pc # "idle",
         NextIteration(p)
  PROVE  OrderlyWorkers
<1> DEFINE me == [at[p] EXCEPT !.pc = "probe", !.step = 0, !.attempt = 0]
<1>1. at[p] \in WorkerType
  BY DEF TypeOK, WorkersTyped
<1>2. me.pc = "probe" /\ me.w = at[p].w
  BY <1>1 DEF WorkerType
<1>3. at' = [at EXCEPT ![p] = me]
  BY DEF NextIteration
<1>4. wf[at[p].w].state \notin {"NONE", "QUEUED"}
  BY LedgerWorker
<1> HIDE DEF me
<1> QED BY <1>2, <1>3, <1>4, OneWorkerMoves

(* One row a worker holds changes, its operation and its account do not. *)
LEMMA HeldRowChanges ==
  ASSUME TypeOK, Ledger, NEW w \in Op, NEW row,
         wf[w].state \notin {"NONE", "QUEUED"},
         wf' = [wf EXCEPT ![w] = row],
         row.op = wf[w].op, row.state \notin {"NONE", "QUEUED"},
         wf[w].state \in Accounted =>
           row.state \in Accounted \/ outcome'[wf[w].op] # "none"
  PROVE  OrderlyRows
  BY DEF TypeOK, OrderlyRows

(* The terminal write is orderly: COMPLETED only where an outcome is
   recorded. *)
LEMMA HeldRowCloses ==
  ASSUME TypeOK, Ledger, NEW p \in Worker, at[p].pc # "idle", NEW st \in {"COMPLETED", "FAILED"},
         wf' = [wf EXCEPT ![at[p].w] = [Released(@) EXCEPT !.state = st]],
         st = "COMPLETED" => outcome'[wf[at[p].w].op] # "none"
  PROVE  OrderlyRows
<1> DEFINE row == [Released(wf[at[p].w]) EXCEPT !.state = st]
<1>1. row.state = st /\ row.op = wf[at[p].w].op
  BY LedgerWorker, RowKeeps DEF WorkflowState, Terminal
<1>2. wf' = [wf EXCEPT ![at[p].w] = row]
  OBVIOUS
<1> HIDE DEF row
<1> QED BY <1>1, <1>2, LedgerWorker, HeldRowChanges DEF Accounted

(* A step that changes no row is orderly for the rows. *)
LEMMA SameRows ==
  ASSUME wf' = wf
  PROVE  OrderlyRows
  BY DEF OrderlyRows

(* A step that changes no plan is orderly for the plans. *)
LEMMA SameSteps ==
  ASSUME steps' = steps
  PROVE  OrderlySteps
  BY DEF OrderlySteps

(* Changing the step a worker is at is orderly where FINALIZE ends with an
   outcome. *)
LEMMA HeldStepSet ==
  ASSUME TypeOK, Ledger, NEW p \in Worker, at[p].pc # "idle", NEW x,
         steps' = [steps EXCEPT ![at[p].w][at[p].step] = x],
         at[p].step = FINALIZE =>
           /\ x.state # "ABSENT"
           /\ x.state \in Finished => outcome'[wf[at[p].w].op] # "none"
  PROVE  OrderlySteps
<1>1. at[p].w \in Op /\ wf[at[p].w].state # "QUEUED" /\ FINALIZE \in Step
  BY LedgerWorker, Constants
<1> SUFFICES ASSUME NEW w \in Op
             PROVE  /\ wf[w].state = "QUEUED" => steps'[w] = steps[w]
                    /\ steps'[w][FINALIZE].state = "ABSENT" => steps[w][FINALIZE].state = "ABSENT"
                    /\ steps'[w][FINALIZE].state \in Finished =>
                         steps[w][FINALIZE].state \in Finished \/ outcome'[wf[w].op] # "none"
  BY DEF OrderlySteps
<1>2. CASE w # at[p].w
  BY <1>1, <1>2 DEF TypeOK
<1>3. CASE w = at[p].w
  <2>1. steps'[w][FINALIZE] = IF at[p].step = FINALIZE THEN x ELSE steps[w][FINALIZE]
    BY <1>1, <1>3 DEF TypeOK
  <2> QED BY <1>1, <1>3, <2>1
<1> QED BY <1>2, <1>3

(* The same for a change of that step's state alone. *)
LEMMA HeldStepMarked ==
  ASSUME TypeOK, Ledger, NEW p \in Worker, at[p].pc # "idle", NEW st \in StepState,
         SetStep(p, st),
         at[p].step = FINALIZE /\ st \in Finished => outcome'[wf[at[p].w].op] # "none"
  PROVE  OrderlySteps
<1> DEFINE x == [steps[at[p].w][at[p].step] EXCEPT !.state = st]
<1>1. at[p].step = FINALIZE => x.state = st
  BY LedgerWorker, Constants DEF TypeOK, StepType
<1>2. steps' = [steps EXCEPT ![at[p].w][at[p].step] = x]
  BY DEF SetStep
<1>3. st # "ABSENT"
  BY DEF StepState
<1> HIDE DEF x
<1> QED BY <1>1, <1>2, <1>3, HeldStepSet

(* A step that records nothing is orderly for the outcomes. *)
LEMMA SameOutcomes ==
  ASSUME nOps' = nOps, outcome' = outcome
  PROVE  OrderlyOutcomes
  BY DEF OrderlyOutcomes

(* Recording an outcome takes none back. *)
LEMMA RecordedOutcomes ==
  ASSUME TypeOK, nOps' = nOps, NEW o \in Op, NEW x \in Outcome,
         outcome' = Recorded(outcome, o, x)
  PROVE  OrderlyOutcomes /\ outcome'[o] # "none"
  BY DEF TypeOK, OrderlyOutcomes, Recorded, Outcome

(* A promotion is orderly for the rows: the operation moves with its row. *)
LEMMA PromotedRows ==
  ASSUME TypeOK, PromoteQueued
  PROVE  OrderlyRows
<1>1. \A w \in Op : wf[w].state = "QUEUED" =>
        LET row == [wf[w] EXCEPT !.state = "PENDING", !.due = TRUE]
        IN  row.state = "PENDING" /\ row.op = wf[w].op
  BY DEF TypeOK, RowType
<1> SUFFICES ASSUME NEW w \in Op
             PROVE  /\ wf'[w].op = wf[w].op
                    /\ wf'[w].state = "NONE" <=> wf[w].state = "NONE"
                    /\ wf'[w].state = "QUEUED" => wf'[w] = wf[w]
                    /\ wf[w].state \in Accounted =>
                         wf'[w].state \in Accounted \/ outcome'[wf[w].op] # "none"
  BY DEF OrderlyRows
<1>2. CASE wf'[w] = wf[w]
  BY <1>2
<1>3. CASE wf[w].state = "QUEUED" /\ wf'[w] = [wf[w] EXCEPT !.state = "PENDING", !.due = TRUE]
  BY <1>1, <1>3 DEF Accounted, Active
<1> QED BY <1>2, <1>3 DEF PromoteQueued

(* A worker that finds no step left finds the outcome FINALIZE recorded. *)
LEMMA FinalizeFound ==
  ASSUME TypeOK, Ledger, NEW p \in Worker, at[p].pc # "idle", IsNextStep(at[p].w, Done)
  PROVE  outcome[wf[at[p].w].op] # "none"
<1>1. /\ at[p].w \in Op /\ wf[at[p].w].state # "NONE"
      /\ FINALIZE \in Step /\ FINALIZE < Done
  BY LedgerWorker, Constants DEF Done, NOTIFY, FINALIZE
<1>2. steps[at[p].w][FINALIZE].state \in Finished \cup {"ABSENT"}
  BY <1>1 DEF IsNextStep, Unfinished
<1> QED BY <1>1, <1>2 DEF Ledger, RowsCarry, FinalizeAnswers

(* Every step of a worker is orderly. *)
Orderly == OrderlyOutcomes /\ OrderlyRows /\ OrderlySteps /\ OrderlyWorkers

(* Every statement of execute and runNextStep is orderly. *)
LEMMA OrderlyEngine ==
  ASSUME TypeOK, Ledger, NEW p \in Worker, Engine(p)
  PROVE  Orderly
<1> DEFINE w == at[p].w
<1> USE DEF Pc, Orderly
<1>a. at[p].pc # "idle" => w \in Op /\ wf[w].op \in Op /\ wf[w].state \notin {"NONE", "QUEUED"}
  BY LedgerWorker
<1>1. CASE Load(p)
  BY <1>1, SameOutcomes, SameRows, SameSteps, WorkerGoesTo DEF Load
<1>2. CASE Start(p)
  <2>1. OrderlyRows
    <3>1. /\ wf[w] \in RowType
          /\ [wf[w] EXCEPT !.state = "RUNNING"].state = "RUNNING"
          /\ [wf[w] EXCEPT !.state = "RUNNING"].op = wf[w].op
      BY <1>2, LedgerWorker DEF Start, RowType
    <3> QED BY <1>2, <1>a, <3>1, SameRows, HeldRowChanges DEF Start, Accounted, Active
  <2> QED BY <1>2, <2>1, SameOutcomes, SameSteps, WorkerGoesTo DEF Start
<1>3. CASE Probe(p)
  <2>1. OrderlyOutcomes /\ OrderlyRows /\ OrderlySteps
    BY <1>3, SameOutcomes, SameRows, SameSteps DEF Probe
  <2>2. OrderlyWorkers
    <3>1. ASSUME NEW s \in Step,
                 at' = [at EXCEPT ![p] = [@ EXCEPT !.pc = "begin", !.step = s,
                                  !.attempt = NextAttempt(steps[w][s].attempts)]]
          PROVE  OrderlyWorkers
      <4> DEFINE me == [at[p] EXCEPT !.pc = "begin", !.step = s,
                                     !.attempt = NextAttempt(steps[w][s].attempts)]
      <4>1. me.pc = "begin" /\ me.w = w
        BY DEF TypeOK, WorkersTyped, WorkerType
      <4>2. at' = [at EXCEPT ![p] = me]
        BY <3>1
      <4> HIDE DEF me
      <4> QED BY <1>3, <1>a, <2>1, <4>1, <4>2, OneWorkerMoves DEF Probe
    <3>2. CASE GoTo(p, "complete") /\ IsNextStep(w, Done)
      <4>1. outcome'[wf[w].op] # "none"
        BY <1>3, <3>2, FinalizeFound DEF Probe
      <4> QED BY <1>3, <2>1, <3>2, <4>1, WorkerGoesTo DEF Probe
    <3>3. CASE GoTo(p, "abandon") \/ GoTo(p, "release")
      BY <1>3, <2>1, <3>3, WorkerGoesTo DEF Probe
    <3> QED BY <1>3, <3>1, <3>2, <3>3 DEF Probe
  <2> QED BY <2>1, <2>2
<1>4. CASE Release(p)
  <2>1. OrderlyRows
    <3>1. Released(wf[w]).state = wf[w].state /\ Released(wf[w]).op = wf[w].op
      BY <1>4, LedgerWorker, RowKeeps DEF Release
    <3> QED BY <1>4, <1>a, <3>1, HeldRowChanges DEF Release
  <2> QED BY <1>4, <2>1, SameOutcomes, SameSteps, WorkerGoesTo, WorkerLeaves DEF Release
<1>5. CASE CloseOut(p)
  <2>1. OrderlyOutcomes
    BY <1>5, <1>a, RecordedOutcomes DEF CloseOut, Outcome
  <2> QED BY <1>5, <2>1, SameRows, SameSteps, WorkerLeaves DEF CloseOut
<1>6. CASE BeginStep(p)
  <2> DEFINE x == [state |-> "RUNNING", attempts |-> at[p].attempt]
  <2>1. x.state = "RUNNING"
    OBVIOUS
  <2>2. steps' = [steps EXCEPT ![w][at[p].step] = x]
    BY <1>6 DEF BeginStep
  <2> HIDE DEF x
  <2>3. OrderlySteps
    BY <1>6, <2>1, <2>2, HeldStepSet DEF BeginStep, Finished
  <2> QED BY <1>6, <2>3, SameOutcomes, SameRows, WorkerGoesTo DEF BeginStep
<1>7. CASE StepBody(p)
  <2>1. CASE ExecPlan(p)
    BY <2>1, Constants, SameOutcomes, SameRows, SameSteps, WorkerGoesTo DEF ExecPlan
  <2>2. CASE ExecApply(p)
    BY <2>2, Constants, SameOutcomes, SameRows, SameSteps, WorkerGoesTo DEF ExecApply
  <2>3. CASE ExecOther(p)
    BY <2>3, Constants, SameOutcomes, SameRows, SameSteps, WorkerGoesTo DEF ExecOther
  <2>4. CASE FinalizeOutcome(p)
    <3>1. OrderlyOutcomes /\ outcome'[wf[w].op] # "none"
      BY <2>4, <1>a, RecordedOutcomes DEF FinalizeOutcome, Outcome
    <3> QED BY <2>4, <3>1, SameRows, SameSteps, WorkerGoesTo DEF FinalizeOutcome
  <2>5. CASE FinalizeStatus(p)
    <3>1. outcome'[wf[w].op] # "none"
      BY <2>5 DEF FinalizeStatus, Ledger, WorkersAnswer, Tells
    <3> QED BY <2>5, <3>1, SameOutcomes, SameRows, SameSteps, WorkerGoesTo DEF FinalizeStatus
  <2> QED BY <1>7, <2>1, <2>2, <2>3, <2>4, <2>5 DEF StepBody
<1>8. CASE CompleteStep(p)
  <2>1. at[p].step = FINALIZE => outcome'[wf[w].op] # "none"
    BY <1>8 DEF CompleteStep, Ledger, WorkersAnswer, Tells
  <2>2. OrderlySteps
    BY <1>8, <2>1, HeldStepMarked DEF CompleteStep, StepState
  <2> QED BY <1>8, <2>2, SameOutcomes, SameRows, WorkerIterates DEF CompleteStep
<1>9. CASE FailStep(p)
  <2>1. OrderlySteps
    BY <1>9, HeldStepMarked DEF FailStep, StepState, Finished
  <2> QED BY <1>9, <2>1, SameOutcomes, SameRows, WorkerGoesTo DEF FailStep, AfterFailure
<1>10. CASE SkipStep(p)
  <2>1. at[p].step # FINALIZE
    BY <1>10, Constants DEF SkipStep, Ledger, WorkersAnswer
  <2>2. OrderlySteps
    BY <1>10, <2>1, HeldStepMarked DEF SkipStep, StepState
  <2> QED BY <1>10, <2>2, SameOutcomes, SameRows, WorkerIterates DEF SkipStep
<1>11. CASE Retry(p)
  <2> DEFINE row == [Released(wf[w]) EXCEPT !.due = FALSE]
  <2>1. row.state = wf[w].state /\ row.op = wf[w].op
    BY <1>11, LedgerWorker, RowKeeps DEF Retry
  <2>2. wf' = [wf EXCEPT ![w] = row]
    BY <1>11 DEF Retry
  <2> HIDE DEF row
  <2>3. OrderlyRows
    BY <1>11, <1>a, <2>1, <2>2, HeldRowChanges DEF Retry
  <2> QED BY <1>11, <2>3, SameOutcomes, SameSteps, WorkerLeaves DEF Retry
<1>12. CASE CompleteWorkflow(p)
  <2>1. outcome'[wf[w].op] # "none"
    BY <1>12 DEF CompleteWorkflow, Ledger, WorkersAnswer, Tells
  <2>3. OrderlyRows
    BY <1>12, <2>1, SameRows, HeldRowCloses DEF CompleteWorkflow, Terminate
  <2> QED BY <1>12, <2>3, SameOutcomes, SameSteps, WorkerGoesTo, WorkerLeaves
          DEF CompleteWorkflow, Terminate
<1>13. CASE FailWorkflow(p)
  <2>2. OrderlyRows
    BY <1>13, SameRows, HeldRowCloses DEF FailWorkflow, Terminate
  <2> QED BY <1>13, <2>2, SameOutcomes, SameSteps, WorkerGoesTo DEF FailWorkflow, Terminate
<1>14. CASE FailStatus(p)
  BY <1>14, SameOutcomes, SameRows, SameSteps, WorkerGoesTo DEF FailStatus
<1>15. CASE FailOutcome(p)
  <2>1. OrderlyOutcomes
    BY <1>15, <1>a, RecordedOutcomes DEF FailOutcome, Outcome
  <2> QED BY <1>15, <2>1, SameRows, SameSteps, WorkerGoesTo DEF FailOutcome
<1>16. CASE DeadLetter(p)
  BY <1>16, SameOutcomes, SameRows, SameSteps, WorkerGoesTo DEF DeadLetter
<1>17. CASE StartQueued(p)
  BY <1>17, PromotedRows, SameOutcomes, SameSteps, WorkerLeaves DEF StartQueued
<1> QED BY <1>1, <1>2, <1>3, <1>4, <1>5, <1>6, <1>7, <1>8, <1>9, <1>10, <1>11, <1>12,
           <1>13, <1>14, <1>15, <1>16, <1>17 DEF Engine

(* Time-outs, exceptions, heartbeats and spent budgets are orderly. *)
LEMMA OrderlyFaults ==
  ASSUME TypeOK, Ledger, NEW p \in Worker,
         \/ Timeout(p) \/ StepThrows(p) \/ Throw(p) \/ Heartbeat(p) \/ BudgetSpent(p)
  PROVE  Orderly
<1> USE DEF Pc, Orderly
<1>1. CASE Timeout(p)
  BY <1>1, SameOutcomes, SameRows, SameSteps, WorkerGoesTo DEF Timeout
<1>2. CASE StepThrows(p)
  BY <1>2, SameOutcomes, SameRows, SameSteps, WorkerGoesTo DEF StepThrows
<1>3. CASE Throw(p)
  BY <1>3, SameOutcomes, SameRows, SameSteps, WorkerGoesTo, WorkerLeaves DEF Throw
<1>4. CASE Heartbeat(p)
  <2> DEFINE row == [wf[at[p].w] EXCEPT !.lease = "live"]
  <2>1. row.state = wf[at[p].w].state /\ row.op = wf[at[p].w].op
    BY <1>4, LedgerWorker DEF Heartbeat, RowType
  <2>2. wf' = [wf EXCEPT ![at[p].w] = row]
    BY <1>4 DEF Heartbeat
  <2> HIDE DEF row
  <2>3. OrderlyRows
    BY <1>4, <2>1, <2>2, LedgerWorker, HeldRowChanges DEF Heartbeat
  <2> QED BY <1>4, <2>3, SameOutcomes, SameSteps, SameWorkers DEF Heartbeat
<1>5. CASE BudgetSpent(p)
  BY <1>5, SameOutcomes, SameRows, SameSteps, WorkerGoesTo DEF BudgetSpent
<1> QED BY <1>1, <1>2, <1>3, <1>4, <1>5

(* A claim is orderly: it takes a row that was started or promoted, never a
   parked one. *)
LEMMA OrderlyClaim ==
  ASSUME TypeOK, Ledger, NEW p \in Worker, NEW w \in Op, Claim(p, w)
  PROVE  Orderly
<1> DEFINE row == [wf[w] EXCEPT !.lease = "live", !.holder = PodOf[p]]
           me == [pc |-> "load", w |-> w, step |-> 0, attempt |-> 0]
<1>1. wf[w].state \in Claimable
  BY DEF Claim, MayClaim
<1>2. row.state = wf[w].state /\ row.op = wf[w].op
  BY DEF TypeOK, RowType
<1>3. wf' = [wf EXCEPT ![w] = row]
  BY DEF Claim
<1>4. at' = [at EXCEPT ![p] = me] /\ me.pc = "load" /\ me.w = w
  BY DEF Claim
<1>5. nOps' = nOps /\ outcome' = outcome /\ steps' = steps
  BY DEF Claim
<1> HIDE DEF row, me
<1>6. OrderlyRows
  BY <1>1, <1>2, <1>3, HeldRowChanges DEF Claimable
<1>7. OrderlyOutcomes /\ OrderlySteps
  BY <1>5, SameOutcomes, SameSteps
<1>8. OrderlyWorkers
  BY <1>1, <1>4, <1>7, OneWorkerMoves DEF Claimable
<1> QED BY <1>6, <1>7, <1>8 DEF Orderly

(* The backoff and the lease change a row no worker need hold, but never one
   that is parked: it has no lease. *)
LEMMA OrderlyTable ==
  ASSUME TypeOK, Ledger, NEW w \in Op,
         \/ BackoffElapses(w) \/ LeaseLapses(w) \/ LeaseLost(w)
         \/ \E e \in Env : LateApply(w, e)
  PROVE  Orderly
<1> USE DEF Orderly
<1>1. ASSUME NEW row, row.state = wf[w].state, row.op = wf[w].op,
             wf[w].state # "QUEUED", wf' = [wf EXCEPT ![w] = row]
      PROVE  OrderlyRows
  BY <1>1 DEF TypeOK, OrderlyRows
<1>2. CASE BackoffElapses(w)
  <2> DEFINE row == [wf[w] EXCEPT !.due = TRUE]
  <2>1. row.state = wf[w].state /\ row.op = wf[w].op
    BY DEF TypeOK, RowType
  <2>2. wf' = [wf EXCEPT ![w] = row] /\ wf[w].state # "QUEUED"
    BY <1>2 DEF BackoffElapses, Claimable
  <2> HIDE DEF row
  <2>3. OrderlyRows
    BY <1>1, <2>1, <2>2
  <2> QED BY <1>2, <2>3, SameOutcomes, SameSteps, SameWorkers DEF BackoffElapses
<1>3. CASE LeaseLapses(w) \/ LeaseLost(w)
  <2> DEFINE row == [wf[w] EXCEPT !.lease = "expired"]
  <2>1. row.state = wf[w].state /\ row.op = wf[w].op
    BY DEF TypeOK, RowType
  <2>2. wf' = [wf EXCEPT ![w] = row] /\ wf[w].lease = "live"
    BY <1>3 DEF LeaseLapses, LeaseLost
  <2> HIDE DEF row
  <2>3. wf[w].state # "QUEUED"
    BY <2>2 DEF Ledger, ParkedRowsFresh
  <2>4. OrderlyRows
    BY <1>1, <2>1, <2>2, <2>3
  <2> QED BY <1>3, <2>4, SameOutcomes, SameSteps, SameWorkers DEF LeaseLapses, LeaseLost
<1>4. ASSUME NEW e \in Env, LateApply(w, e) PROVE Orderly
  BY <1>4, SameOutcomes, SameRows, SameSteps, SameWorkers DEF LateApply
<1> QED BY <1>2, <1>3, <1>4

(* A crash is orderly: it only empties the workers of a pod. *)
LEMMA OrderlyCrash ==
  ASSUME TypeOK, Ledger, NEW pod \in Pod, Crash(pod)
  PROVE  Orderly
<1>1. OrderlyOutcomes /\ OrderlyRows /\ OrderlySteps
  BY SameOutcomes, SameRows, SameSteps DEF Crash
<1>2. OrderlyWorkers
  <2> SUFFICES ASSUME NEW p \in Worker, at'[p].pc # "idle"
               PROVE  /\ wf[at'[p].w].state \notin {"NONE", "QUEUED"}
                      /\ Tells(p)' => outcome'[wf[at'[p].w].op] # "none"
                      /\ at'[p].pc = "skip" => at'[p].step = NOTIFY
    BY DEF OrderlyWorkers
  <2>1. at'[p] = at[p]
    BY DEF Crash, Idle
  <2>2. Tells(p)' => Tells(p)
    BY <2>1 DEF Tells
  <2> QED BY <2>1, <2>2, LedgerWorker DEF Ledger, WorkersAnswer, Crash
<1> QED BY <1>1, <1>2 DEF Orderly
(* A submission: row w stays as it was, or is closed with its outcome ... *)
Stays(w) ==
  /\ wf'[w].op = wf[w].op /\ steps'[w] = steps[w]
  /\ wf'[w].state = "NONE" <=> wf[w].state = "NONE"
  /\ wf'[w].state = "QUEUED" => wf'[w] = wf[w]
  /\ wf[w].state \in Accounted =>
       wf'[w].state \in Accounted \/ outcome'[wf[w].op] # "none"

(* ... or is written from scratch for operation n, the operation parked in it
   answered. *)
Rewritten(w, n) ==
  /\ w <= n
  /\ wf[w].state \in {"NONE", "QUEUED"}
  /\ wf[w].state = "QUEUED" => outcome'[wf[w].op] # "none"
  /\ wf'[w].state \in {"PENDING", "QUEUED"} /\ wf'[w].op = n /\ wf'[w].lease = "none"
  /\ \A s \in Step : steps'[w][s].attempts = 0
  /\ steps'[w][FINALIZE].state = "PENDING"

(* A submission that rewrites rows for its own operation alone keeps the
   ledger. *)
LEMMA SubmissionKeepsLedger ==
  ASSUME TypeOK, TypeOK', Ledger, NEW n, n = nOps + 1, nOps' = n, at' = at,
         \A o \in Op : outcome[o] # "none" => outcome'[o] # "none",
         \A w \in Op : Stays(w) \/ Rewritten(w, n),
         outcome'[n] # "none" \/ \E w \in Op : Rewritten(w, n)
  PROVE  Ledger'
<1>0. /\ \A w \in Op : wf[w].state # "NONE" => wf[w].op \in Op /\ wf[w].op \in 1..nOps
      /\ n \in Op /\ nOps \in Nat
  BY Constants DEF Ledger, RowsCarry, TypeOK, Op
<1>1. FreshRows'
  BY <1>0, Constants DEF Ledger, FreshRows, Stays, Rewritten
<1>2. RowsCarry'
  BY <1>0 DEF Ledger, RowsCarry, Stays, Rewritten
<1>3. \A p \in Worker : at[p].pc # "idle" => at[p].w \in Op /\ Stays(at[p].w)
  BY LedgerWorker DEF Rewritten
<1>4. WorkersHoldStartedRows'
  BY <1>3 DEF Ledger, WorkersHoldStartedRows, Stays
<1>5. FinalizeAnswers'
  <2> SUFFICES ASSUME NEW w \in Op, wf'[w].state # "NONE", steps'[w][FINALIZE].state \in Finished
               PROVE  outcome'[wf'[w].op] # "none"
    BY DEF FinalizeAnswers
  <2>1. Stays(w)
    BY DEF Rewritten, Finished
  <2>2. outcome[wf[w].op] # "none" /\ wf[w].op \in Op
    BY <1>0, <2>1 DEF Ledger, FinalizeAnswers, Stays
  <2> QED BY <2>1, <2>2 DEF Stays
<1>6. WorkersAnswer'
  <2> SUFFICES ASSUME NEW p \in Worker
               PROVE  /\ Tells(p)' => outcome'[wf'[at[p].w].op] # "none"
                      /\ at[p].pc = "skip" => at[p].step = NOTIFY
    BY DEF WorkersAnswer
  <2>1. Tells(p)' => Tells(p) /\ at[p].pc # "idle"
    BY DEF Tells
  <2> QED BY <1>3, <2>1, LedgerWorker DEF Ledger, WorkersAnswer, Stays
<1>7. ParkedRowsFresh'
  BY DEF Ledger, ParkedRowsFresh, Stays, Rewritten
<1>8. EveryOperationAccounted'
  <2> SUFFICES ASSUME NEW o \in 1..n, outcome'[o] = "none"
               PROVE  \E w \in Op : wf'[w].op = o /\ wf'[w].state \in Accounted
    BY DEF EveryOperationAccounted, Accounted
  <2>1. CASE o = n
    BY <2>1 DEF Rewritten, Accounted, Active
  <2>2. CASE o # n
    <3>1. o \in 1..nOps /\ o \in Op
      BY <1>0, <2>2, Constants DEF Op
    <3>2. PICK w \in Op : wf[w].op = o /\ wf[w].state \in Accounted
      BY <3>1 DEF Ledger, EveryOperationAccounted, Accounted
    <3>3. Stays(w)
      BY <3>2 DEF Rewritten, Accounted, Active
    <3> QED BY <3>2, <3>3 DEF Stays
  <2> QED BY <2>1, <2>2
<1> QED BY <1>1, <1>2, <1>4, <1>5, <1>6, <1>7, <1>8 DEF Ledger

(* A plan just written has no attempt behind it and FINALIZE before it. *)
LEMMA WrittenPlan ==
  ASSUME NEW t, NEW envs
  PROVE  /\ \A s \in Step : WriteStepPlan(t, envs)[s].attempts = 0
         /\ WriteStepPlan(t, envs)[FINALIZE].state = "PENDING"
  BY Constants DEF WriteStepPlan, PlanOf, NoStep

(* A delete keeps the ledger: it records the outcome of what it supersedes. *)
LEMMA LedgerDelete ==
  ASSUME TypeOK, TypeOK', Ledger, NEW u \in User, Delete(u)
  PROVE  Ledger'
<1> DEFINE n == nOps + 1
           row == NewRow("PENDING", "DELETE", n, sub[u].version, sub[u].envs)
           plan == WriteStepPlan("DELETE", sub[u].envs)
<1>0. nOps' = n /\ at' = at /\ n \in Op /\ n > nOps /\ n <= n
  <2>1. nOps' = n /\ at' = at /\ nOps < MaxOps
    BY DEF Delete
  <2>2. nOps \in Nat /\ MaxOps \in Nat
    BY Constants DEF TypeOK
  <2> QED BY <2>1, <2>2 DEF Op
<1>1. \A w \in Op : wf'[w] = IF w = n THEN row
                             ELSE IF wf[w].state \in Active
                             THEN [Released(wf[w]) EXCEPT !.state = "SUPERSEDED"]
                             ELSE wf[w]
  BY DEF Delete
<1>2. row.state = "PENDING" /\ row.op = n /\ row.lease = "none"
  BY DEF NewRow
<1>3. (\A s \in Step : plan[s].attempts = 0) /\ plan[FINALIZE].state = "PENDING"
  BY WrittenPlan
<1>a. \A w \in Op : steps'[w] = IF w = n THEN plan ELSE steps[w]
  BY DEF Delete, TypeOK
<1>4. /\ \A o \in Op : outcome[o] # "none" => outcome'[o] # "none"
      /\ \A w \in Op : wf[w].state \in Active => outcome'[wf[w].op] # "none"
  <2>1. \A w \in Op : wf[w].state \in Active => wf[w].op \in Op
    BY Constants DEF Ledger, RowsCarry, TypeOK, Op, Active
  <2> QED BY <2>1 DEF Delete, Rows
<1>5. wf[n].state = "NONE"
  BY <1>0 DEF Ledger, FreshRows
<1> HIDE DEF row, plan
<1>6. Rewritten(n, n)
  BY <1>0, <1>1, <1>2, <1>3, <1>5, <1>a DEF Rewritten
<1>7. ASSUME NEW w \in Op, w # n PROVE Stays(w)
  <2>1. LET closed == [Released(wf[w]) EXCEPT !.state = "SUPERSEDED"]
        IN  closed.op = wf[w].op /\ closed.state = "SUPERSEDED"
    BY RowKeeps DEF TypeOK, WorkflowState, Terminal
  <2>2. steps'[w] = steps[w]
    BY <1>7, <1>a
  <2>3. CASE wf[w].state \in Active
    <3>1. wf'[w].op = wf[w].op /\ wf'[w].state = "SUPERSEDED"
      BY <1>1, <1>7, <2>1, <2>3
    <3> QED BY <1>4, <2>2, <2>3, <3>1 DEF Stays, Active
  <2>4. CASE wf[w].state \notin Active
    BY <1>1, <1>7, <2>2, <2>4 DEF Stays
  <2> QED BY <2>3, <2>4
<1> HIDE DEF n
<1>8. n = nOps + 1
  BY DEF n
<1> QED BY <1>0, <1>4, <1>6, <1>7, <1>8, SubmissionKeepsLedger

(* A parked submission keeps the ledger: it records the outcome of what it
   replaces. *)
LEMMA LedgerPark ==
  ASSUME TypeOK, TypeOK', Ledger, NEW u \in User, Park(u)
  PROVE  Ledger'
<1> DEFINE n == nOps + 1
           row == NewRow("QUEUED", TypeFor(u), n, PayloadVersion(u, n), sub[u].envs)
           plan == WriteStepPlan(TypeFor(u), sub[u].envs)
<1>0. nOps' = n /\ at' = at /\ n \in Op /\ n > nOps /\ n <= n
  <2>1. nOps' = n /\ at' = at /\ nOps < MaxOps
    BY DEF Park
  <2>2. nOps \in Nat /\ MaxOps \in Nat
    BY Constants DEF TypeOK
  <2> QED BY <2>1, <2>2 DEF Op
<1>1. row.state = "QUEUED" /\ row.op = n /\ row.lease = "none"
  BY DEF NewRow
<1>2. (\A s \in Step : plan[s].attempts = 0) /\ plan[FINALIZE].state = "PENDING"
  BY WrittenPlan
<1>3. \/ \E q \in Op : /\ wf[q].state = "QUEUED"
                       /\ outcome' = Recorded(outcome, wf[q].op, "superseded")
                       /\ wf' = [wf EXCEPT ![q] = row]
                       /\ steps' = [steps EXCEPT ![q] = plan]
      \/ /\ wf' = [wf EXCEPT ![n] = row]
         /\ steps' = [steps EXCEPT ![n] = plan]
         /\ outcome' = outcome
  BY DEF Park, Rows
<1>4. wf[n].state = "NONE" /\ \A w \in Op : wf[w].state # "NONE" => w <= n
  <2>1. \A w \in Op : w > nOps => wf[w].state = "NONE"
    BY DEF Ledger, FreshRows
  <2>2. nOps \in Nat /\ Op \subseteq Nat
    BY Constants DEF TypeOK
  <2> QED BY <1>0, <2>1, <2>2
<1>5. n = nOps + 1
  OBVIOUS
<1> HIDE DEF n, row, plan
<1>6. ASSUME NEW q \in Op, wf[q].state \in {"NONE", "QUEUED"}, q <= n,
             wf[q].state = "QUEUED" => outcome'[wf[q].op] # "none",
             \A o \in Op : outcome[o] # "none" => outcome'[o] # "none",
             wf' = [wf EXCEPT ![q] = row], steps' = [steps EXCEPT ![q] = plan]
      PROVE  Ledger'
  <2>1. wf'[q] = row /\ steps'[q] = plan
    BY <1>6 DEF TypeOK
  <2>2. Rewritten(q, n)
    BY <1>1, <1>2, <1>6, <2>1 DEF Rewritten
  <2>3. \A w \in Op : w # q => Stays(w)
    BY <1>6 DEF TypeOK, Stays
  <2> QED BY <1>0, <1>5, <1>6, <2>2, <2>3, SubmissionKeepsLedger
<1>7. ASSUME NEW q \in Op, wf[q].state = "QUEUED",
             outcome' = Recorded(outcome, wf[q].op, "superseded"),
             wf' = [wf EXCEPT ![q] = row], steps' = [steps EXCEPT ![q] = plan]
      PROVE  Ledger'
  <2>1. wf[q].op \in Op
    BY <1>7, Constants DEF Ledger, RowsCarry, TypeOK, Op
  <2>2. /\ outcome'[wf[q].op] # "none"
        /\ \A o \in Op : outcome[o] # "none" => outcome'[o] # "none"
    BY <1>7, <2>1 DEF TypeOK, Recorded
  <2> QED BY <1>4, <1>6, <1>7, <2>2
<1>8. ASSUME wf' = [wf EXCEPT ![n] = row], steps' = [steps EXCEPT ![n] = plan],
             outcome' = outcome
      PROVE  Ledger'
  BY <1>0, <1>4, <1>6, <1>8
<1> QED BY <1>3, <1>7, <1>8

(* An inserted submission keeps the ledger. *)
LEMMA LedgerInsert ==
  ASSUME TypeOK, TypeOK', Ledger, NEW u \in User, Insert(u)
  PROVE  Ledger'
<1> DEFINE n == nOps + 1
           row == NewRow("PENDING", TypeFor(u), n, PayloadVersion(u, n), sub[u].envs)
           plan == WriteStepPlan(TypeFor(u), sub[u].envs)
<1>0. nOps' = n /\ at' = at /\ n \in Op /\ n > nOps /\ n <= n
  <2>1. nOps' = n /\ at' = at /\ nOps < MaxOps
    BY DEF Insert
  <2>2. nOps \in Nat /\ MaxOps \in Nat
    BY Constants DEF TypeOK
  <2> QED BY <2>1, <2>2 DEF Op
<1>1. row.state = "PENDING" /\ row.op = n /\ row.lease = "none"
  BY DEF NewRow
<1>2. (\A s \in Step : plan[s].attempts = 0) /\ plan[FINALIZE].state = "PENDING"
  BY WrittenPlan
<1>3. \/ /\ wf' = [wf EXCEPT ![n] = row]
         /\ steps' = [steps EXCEPT ![n] = plan]
         /\ outcome' = outcome
      \/ /\ outcome' = [outcome EXCEPT ![n] = "superseded"]
         /\ wf' = wf /\ steps' = steps
  BY DEF Insert
<1>4. wf[n].state = "NONE"
  BY <1>0 DEF Ledger, FreshRows
<1>5. n = nOps + 1
  OBVIOUS
<1> HIDE DEF n, row, plan
<1>6. ASSUME wf' = [wf EXCEPT ![n] = row], steps' = [steps EXCEPT ![n] = plan],
             outcome' = outcome
      PROVE  Ledger'
  <2>1. wf'[n] = row /\ steps'[n] = plan
    BY <1>0, <1>6 DEF TypeOK
  <2>2. Rewritten(n, n)
    BY <1>0, <1>1, <1>2, <1>4, <2>1 DEF Rewritten
  <2>3. \A w \in Op : w # n => Stays(w)
    BY <1>6 DEF TypeOK, Stays
  <2> QED BY <1>0, <1>5, <1>6, <2>2, <2>3, SubmissionKeepsLedger
<1>7. ASSUME outcome' = [outcome EXCEPT ![n] = "superseded"], wf' = wf, steps' = steps
      PROVE  Ledger'
  <2>1. outcome'[n] # "none" /\ \A o \in Op : outcome[o] # "none" => outcome'[o] # "none"
    BY <1>0, <1>7 DEF TypeOK
  <2>2. \A w \in Op : Stays(w)
    BY <1>7 DEF Stays
  <2> QED BY <1>0, <1>5, <2>1, <2>2, SubmissionKeepsLedger
<1> QED BY <1>3, <1>6, <1>7

(* The ledger holds throughout: the inductive invariant of the two theorems
   below. *)
THEOREM LedgerHolds == Spec => []Ledger
<1>1. Init => Ledger
  BY Constants DEF Init, Ledger, FreshRows, RowsCarry, WorkersHoldStartedRows, FinalizeAnswers,
     WorkersAnswer, Tells, ParkedRowsFresh, EveryOperationAccounted, NoRow, NoStep, Idle
<1>2. TypeOK /\ TypeOK' /\ Ledger /\ [Next]_vars => Ledger'
  <2> SUFFICES ASSUME TypeOK, TypeOK', Ledger, [Next]_vars PROVE Ledger'
    OBVIOUS
  <2>1. Orderly => Ledger'
    BY OrderlyKeepsLedger DEF Orderly
  <2>2. UNCHANGED <<wf, steps, outcome, at, nOps>> => Ledger'
    BY <2>1, SameOutcomes, SameRows, SameSteps, SameWorkers DEF Orderly
  <2>3. ASSUME NEW u \in User, Submission(u) PROVE Ledger'
    BY <2>2, <2>3, LedgerDelete, LedgerPark, LedgerInsert
       DEF Submission, ReadRequest, GiveUp, DeleteDraft, FindNothingInFlight
  <2>4. CASE PromoteOrphan
    BY <2>1, <2>4, PromotedRows, SameOutcomes, SameSteps, SameWorkers DEF PromoteOrphan, Orderly
  <2>5. ASSUME NEW p \in Worker, NEW w \in Op, Claim(p, w) PROVE Ledger'
    BY <2>1, <2>5, OrderlyClaim
  <2>6. ASSUME NEW p \in Worker, Engine(p) PROVE Ledger'
    BY <2>1, <2>6, OrderlyEngine
  <2>7. ASSUME NEW p \in Worker,
               Timeout(p) \/ StepThrows(p) \/ Throw(p) \/ Heartbeat(p) \/ BudgetSpent(p)
        PROVE  Ledger'
    BY <2>1, <2>7, OrderlyFaults
  <2>8. ASSUME NEW w \in Op,
               \/ BackoffElapses(w) \/ LeaseLapses(w) \/ LeaseLost(w)
               \/ \E e \in Env : LateApply(w, e)
        PROVE  Ledger'
    BY <2>1, <2>8, OrderlyTable
  <2>9. ASSUME NEW pod \in Pod, Crash(pod) PROVE Ledger'
    BY <2>1, <2>9, OrderlyCrash
  <2>10. CASE UNCHANGED vars
    BY <2>2, <2>10 DEF vars
  <2> QED BY <2>3, <2>4, <2>5, <2>6, <2>7, <2>8, <2>9, <2>10 DEF Next
<1> QED BY <1>1, <1>2, TypeCorrect, PTL DEF Spec

(* No submission is ever silently lost: its outcome is on record, or a row that
   is active, or failed and about to be recorded, carries it. *)
THEOREM NothingLost == Spec => []EveryOperationAccounted
<1>1. Ledger => EveryOperationAccounted
  BY DEF Ledger
<1> QED BY <1>1, LedgerHolds, PTL

(* A parked submission is untouched: overwriting it never changes work under
   way. *)
THEOREM ParkedUntouched == Spec => []QueuedIsUntouched
<1>1. Ledger => QueuedIsUntouched
  BY DEF Ledger, WorkersHoldStartedRows, ParkedRowsFresh, QueuedIsUntouched, Rows
<1> QED BY <1>1, LedgerHolds, PTL
=============================================================================
