--------------------------- MODULE RequestWorkflow ---------------------------
(***************************************************************************)
(* The workflow engine of app/workflow for ONE integration: the rows of    *)
(* request_workflows and their steps, the workers (one per call of         *)
(* runWorkflow or per tick of drainWorkflows) interleaved at every         *)
(* statement they send to Postgres, the users whose submissions enqueue    *)
(* work, and the Keycloak clients the steps converge.                      *)
(*                                                                         *)
(* Rows of different integrations only share the claim query, which picks  *)
(* one row; so one integration is enough.  A row is numbered by the        *)
(* operation that inserted it; row.op differs from it once a newer         *)
(* submission has overwritten a QUEUED row.                                *)
(***************************************************************************)
EXTENDS Integers, FiniteSets

CONSTANTS
  Worker,       \* concurrent runs of the engine
  Pod,          \* processes, each with its own WORKER_ID
  PodOf,        \* the pod a worker runs in
  User,         \* concurrent submissions
  NEnv,         \* environments: the first NEnv of dev, test, prod
  EnvChoices,   \* environment sets a submission may carry
  Intents,      \* what users ask for: subset of AllIntents
  OmitsNull,    \* Sequelize's omitNull: TRUE in production, FALSE elsewhere
  Faults,       \* which faults the environment may inject: subset of AllFaults
  MaxOps,       \* bound on submissions
  MaxAttempts,  \* MAX_STEP_ATTEMPTS
  AttemptCap,   \* where the model stops counting attempts
  MaxFaults     \* bound on injected faults

AllIntents == {"submit", "resubmit", "delete", "restore"}
AllFaults == {"crash", "throw", "stall", "timeout"}
NoPod == "nobody"

ASSUME ConstantsOK ==
  /\ PodOf \in [Worker -> Pod]
  /\ NoPod \notin Pod
  /\ NEnv \in 1..3
  /\ EnvChoices \subseteq SUBSET (1..NEnv)
  /\ Intents \subseteq AllIntents
  /\ OmitsNull \in BOOLEAN
  /\ Faults \subseteq AllFaults
  /\ MaxOps \in Nat
  /\ MaxAttempts \in Nat \ {0}
  /\ AttemptCap \in Nat /\ AttemptCap >= MaxAttempts
  /\ MaxFaults \in Nat

VARIABLES
  request,  \* the requests row
  wf,       \* request_workflows
  steps,    \* request_workflow_steps
  outcome,  \* terminal audit outcome of each operation
  dead,     \* workflows with a row in request_workflow_failures
  kc,       \* Keycloak client per environment: 0 absent, else payload version
  late,     \* apply calls that outlived their step's timeout
  at,       \* workers
  sub,      \* users
  nOps,     \* operations submitted so far
  nFaults   \* faults injected so far

vars == <<request, wf, steps, outcome, dead, kc, late, at, sub, nOps, nFaults>>

-----------------------------------------------------------------------------
(* Data *)

Op == 1..MaxOps
Env == 1..NEnv
Active == {"QUEUED", "PENDING", "RUNNING"}
Claimable == {"PENDING", "RUNNING"}
Terminal == {"COMPLETED", "FAILED", "SUPERSEDED"}
WorkflowState == Active \cup Terminal
WorkflowType == {"APPLY", "DELETE", "RESTORE"}
StepState == {"PENDING", "RUNNING", "COMPLETED", "FAILED", "SKIPPED"}
Finished == {"COMPLETED", "SKIPPED"}
Outcome == {"success", "failure", "planFailure", "superseded"}
Resting == {"draft", "applied", "planFailed", "applyFailed"}
Status == Resting \cup {"submitted", "planned"}

(* Steps are numbered by their position: APPLY_<env e> is step e. *)
PLAN == 0
RESTORE_ROLES == NEnv + 1
FINALIZE == NEnv + 2
NOTIFY == NEnv + 3
Step == PLAN..NOTIFY
Done == NOTIFY + 1

NoRow == [state |-> "NONE", type |-> "APPLY", op |-> 0, version |-> 0,
          envs |-> {}, holder |-> NoPod, lease |-> "none", due |-> FALSE]
NoStep == [state |-> "ABSENT", attempts |-> 0]
Idle == [pc |-> "idle", w |-> 0, step |-> 0, attempt |-> 0]
Away == [pc |-> "away", intent |-> "submit", status |-> "draft",
         archived |-> FALSE, version |-> 0, envs |-> {}]

(* claimedBy: null, claimedAt: null in an update.  With omitNull Sequelize
   drops the nulls from the statement, and the lease stays. *)
Released(row) ==
  IF OmitsNull THEN row ELSE [row EXCEPT !.holder = NoPod, !.lease = "none"]

Rows(S) == {w \in Op : wf[w].state \in S}

(* orderedEnvironments: a delete sweeps every environment. *)
OrderedEnvironments(type, envs) == IF type = "DELETE" THEN Env ELSE envs

(* Mutant: a delete sweeps only the environments of its payload. *)
PlanWithoutSweep(type, envs) ==
  {PLAN, FINALIZE, NOTIFY} \cup envs
    \cup (IF type = "RESTORE" THEN {RESTORE_ROLES} ELSE {})

(* buildIntegrationWorkflowSteps *)
PlanOf(type, envs) ==
  {PLAN, FINALIZE, NOTIFY}
    \cup OrderedEnvironments(type, envs)
    \cup (IF type = "RESTORE" THEN {RESTORE_ROLES} ELSE {})

WriteStepPlan(type, envs) ==
  [s \in Step |-> IF s \in PlanOf(type, envs)
                  THEN [state |-> "PENDING", attempts |-> 0] ELSE NoStep]

NewRow(state, type, op, version, envs) ==
  [state |-> state, type |-> type, op |-> op, version |-> version,
   envs |-> envs, holder |-> NoPod, lease |-> "none", due |-> TRUE]

Unfinished(w, s) == steps[w][s].state \notin Finished \cup {"ABSENT"}

(* Beyond MaxAttempts the engine no longer tells attempts apart: the model's
   count stops at AttemptCap. *)
NextAttempt(n) == IF n < AttemptCap THEN n + 1 ELSE n

(* Mutant: the next step is whichever unfinished one comes back first. *)
AnyUnfinished(w, s) ==
  IF s = Done THEN \A r \in Step : ~Unfinished(w, r) ELSE Unfinished(w, s)

(* Step s is the first unfinished one of w, or Done when none is left. *)
IsNextStep(w, s) ==
  /\ s # Done => Unfinished(w, s)
  /\ \A r \in Step : r < s => ~Unfinished(w, r)

(* recordWorkflowEvent: a terminal outcome is written at most once. *)
Recorded(out, o, x) == IF out[o] = "none" THEN [out EXCEPT ![o] = x] ELSE out

(* checkIfRequestMerged: an apply got past planning at least once. *)
Merged == \E w \in Op : /\ wf[w].type = "APPLY"
                        /\ wf[w].op \in Op
                        /\ outcome[wf[w].op] \in {"success", "failure"}

(* An open submission has updated the requests row: nobody else can. *)
RowLocked == \E u \in User : sub[u].pc = "insert"

-----------------------------------------------------------------------------
(* The initial state: a draft that never reached Keycloak. *)

Init ==
  /\ request = [status |-> "draft", archived |-> FALSE, version |-> 0, envs |-> {}]
  /\ wf = [w \in Op |-> NoRow]
  /\ steps = [w \in Op |-> [s \in Step |-> NoStep]]
  /\ outcome = [o \in Op |-> "none"]
  /\ dead = {}
  /\ kc = [e \in Env |-> 0]
  /\ late = {}
  /\ at = [p \in Worker |-> Idle]
  /\ sub = [u \in User |-> Away]
  /\ nOps = 0
  /\ nFaults = 0

-----------------------------------------------------------------------------
(* Submissions: updateRequest, resubmitRequest, deleteRequest and          *)
(* restoreRequest read the integration and authorize the transition on     *)
(* that copy; the transaction that saves it and enqueues comes later.      *)

MayAsk(intent) ==
  CASE intent = "submit"   -> ~request.archived /\ request.status \in Resting
    [] intent = "resubmit" -> /\ Merged
                              /\ ~request.archived
                              /\ request.status \notin {"draft", "applied"}
    [] intent = "delete"   -> ~request.archived
    [] intent = "restore"  -> /\ Merged
                              /\ request.archived \/ request.status = "submitted"

ReadRequest(u, intent) ==
  /\ sub[u].pc = "away"
  /\ nOps < MaxOps
  /\ MayAsk(intent)
  /\ \E envs \in (IF intent = "submit" THEN EnvChoices ELSE {request.envs}) :
       sub' = [sub EXCEPT ![u] =
                 [pc |-> "read", intent |-> intent, status |-> request.status,
                  archived |-> request.archived, version |-> request.version,
                  envs |-> envs]]
  /\ UNCHANGED <<request, wf, steps, outcome, dead, kc, late, at, nOps, nFaults>>

(* The request is refused, or its pod dies, before its transaction commits. *)
GiveUp(u) ==
  /\ sub[u].pc # "away"
  /\ sub' = [sub EXCEPT ![u] = Away]
  /\ UNCHANGED <<request, wf, steps, outcome, dead, kc, late, at, nOps, nFaults>>

(* model.save(): only the columns changed on the copy are written. *)
Saved(u, n) ==
  LET c == sub[u]
      submits == c.intent = "submit"
      deletes == c.intent = "delete"
  IN [request EXCEPT
        !.status = IF submits \/ (deletes /\ c.status \notin {"submitted", "draft"})
                   THEN "submitted" ELSE @,
        !.archived = deletes \/ (@ /\ ~(c.intent = "restore" /\ c.archived)),
        !.version = IF submits THEN n ELSE @,
        !.envs = IF submits THEN c.envs ELSE @]

PayloadVersion(u, n) == IF sub[u].intent = "submit" THEN n ELSE sub[u].version
TypeFor(u) == IF sub[u].intent = "restore" THEN "RESTORE" ELSE "APPLY"

(* deleteRequest on a draft: archived in place, nothing to tear down. *)
DeleteDraft(u) ==
  /\ sub[u].pc = "read" /\ sub[u].intent = "delete" /\ sub[u].status = "draft"
  /\ ~RowLocked
  /\ request' = Saved(u, nOps)
  /\ sub' = [sub EXCEPT ![u] = Away]
  /\ UNCHANGED <<wf, steps, outcome, dead, kc, late, at, nOps, nFaults>>

(* deleteRequest, enqueueRequestWorkflow and supersedeActiveWorkflows in one
   transaction: every active row is closed with its outcome, then the delete
   is inserted with nothing ahead of it. *)
Delete(u) ==
  /\ sub[u].pc = "read" /\ sub[u].intent = "delete" /\ sub[u].status # "draft"
  /\ ~RowLocked
  /\ nOps < MaxOps
  /\ LET n == nOps + 1
         ops == {wf[w].op : w \in Rows(Active)}
     IN /\ nOps' = n
        /\ request' = Saved(u, n)
        /\ wf' = [w \in Op |->
                    IF w = n THEN NewRow("PENDING", "DELETE", n, sub[u].version, sub[u].envs)
                    ELSE IF wf[w].state \in Active
                    THEN [Released(wf[w]) EXCEPT !.state = "SUPERSEDED"]
                    ELSE wf[w]]
        /\ outcome' = [o \in Op |-> IF o \in ops /\ outcome[o] = "none"
                                    THEN "superseded" ELSE outcome[o]]
        /\ steps' = [steps EXCEPT ![n] = WriteStepPlan("DELETE", sub[u].envs)]
  /\ sub' = [sub EXCEPT ![u] = Away]
  /\ UNCHANGED <<dead, kc, late, at, nFaults>>

(* createWorkflow finds a claimable row and locks it: the submission is
   parked, in the QUEUED row of an earlier one if there is one. *)
Park(u) ==
  /\ sub[u].pc = "read" /\ sub[u].intent # "delete"
  /\ ~RowLocked
  /\ nOps < MaxOps
  /\ Rows(Claimable) # {}
  /\ LET n == nOps + 1
         row == NewRow("QUEUED", TypeFor(u), n, PayloadVersion(u, n), sub[u].envs)
     IN /\ nOps' = n
        /\ request' = Saved(u, n)
        /\ \/ \E q \in Rows({"QUEUED"}) :
                /\ outcome' = Recorded(outcome, wf[q].op, "superseded")
                /\ wf' = [wf EXCEPT ![q] = row]
                /\ steps' = [steps EXCEPT ![q] = WriteStepPlan(TypeFor(u), sub[u].envs)]
           \/ /\ Rows({"QUEUED"}) = {}
              /\ wf' = [wf EXCEPT ![n] = row]
              /\ steps' = [steps EXCEPT ![n] = WriteStepPlan(TypeFor(u), sub[u].envs)]
              /\ UNCHANGED outcome
  /\ sub' = [sub EXCEPT ![u] = Away]
  /\ UNCHANGED <<dead, kc, late, at, nFaults>>

(* createWorkflow finds nothing claimable: no lock protects it from a
   promotion that commits before its insert. *)
FindNothingInFlight(u) ==
  /\ sub[u].pc = "read" /\ sub[u].intent # "delete"
  /\ ~RowLocked
  /\ nOps < MaxOps
  /\ Rows(Claimable) = {}
  /\ sub' = [sub EXCEPT ![u].pc = "insert"]
  /\ UNCHANGED <<request, wf, steps, outcome, dead, kc, late, at, nOps, nFaults>>

(* The insert: PENDING, or refused by the one-claimable-row index, in which
   case the submission adopts the row that won and ends superseded by it. *)
Insert(u) ==
  /\ sub[u].pc = "insert"
  /\ nOps < MaxOps
  /\ LET n == nOps + 1
     IN /\ nOps' = n
        /\ request' = Saved(u, n)
        /\ \/ /\ Rows(Claimable) = {}
              /\ wf' = [wf EXCEPT ![n] = NewRow("PENDING", TypeFor(u), n,
                                                PayloadVersion(u, n), sub[u].envs)]
              /\ steps' = [steps EXCEPT ![n] = WriteStepPlan(TypeFor(u), sub[u].envs)]
              /\ UNCHANGED outcome
           \/ /\ Rows(Claimable) # {}
              /\ outcome' = [outcome EXCEPT ![n] = "superseded"]
              /\ UNCHANGED <<wf, steps>>
  /\ sub' = [sub EXCEPT ![u] = Away]
  /\ UNCHANGED <<dead, kc, late, at, nFaults>>

(* The environment misbehaves, at most MaxFaults times. *)
Fault(kind) == kind \in Faults /\ nFaults < MaxFaults /\ nFaults' = nFaults + 1

-----------------------------------------------------------------------------
(* Promotion of the parked submission *)

(* Mutant: promotion asks neither the table nor its index for another row. *)
PromoteRegardless ==
  wf' = [w \in Op |-> IF wf[w].state = "QUEUED"
                      THEN [wf[w] EXCEPT !.state = "PENDING", !.due = TRUE]
                      ELSE wf[w]]

(* promoteQueuedWorkflow and promoteOrphanedQueuedWorkflows: one UPDATE. *)
PromoteQueued ==
  wf' = [w \in Op |-> IF wf[w].state = "QUEUED" /\ Rows(Claimable) = {}
                      THEN [wf[w] EXCEPT !.state = "PENDING", !.due = TRUE]
                      ELSE wf[w]]

(* The cron tick's recovery of a follow-up nobody promoted. *)
PromoteOrphan ==
  /\ Rows({"QUEUED"}) # {}
  /\ Rows(Claimable) = {}
  /\ PromoteQueued
  /\ UNCHANGED <<request, steps, outcome, dead, kc, late, at, sub, nOps, nFaults>>

-----------------------------------------------------------------------------
(* Workers: one action per statement that reads or writes shared state *)

GoTo(p, pc) == at' = [at EXCEPT ![p].pc = pc]
(* Mutant: a worker gives its row up and goes on. *)
LeaveTheRow(p) == at' = [at EXCEPT ![p].w = 0]

Leave(p) == at' = [at EXCEPT ![p] = Idle]

(* Mutants: the claim finds parked rows too; finds rows under a live lease;
   never takes an expired lease over. *)
ClaimsParked(w) == wf[w].state \in Active /\ wf[w].due /\ wf[w].lease # "live"
ClaimsLeased(w) == wf[w].state \in Claimable /\ wf[w].due
ClaimsUnheld(w) == wf[w].state \in Claimable /\ wf[w].due /\ wf[w].lease = "none"

(* claimQuery *)
MayClaim(w) ==
  /\ wf[w].state \in Claimable
  /\ wf[w].due
  /\ wf[w].lease # "live"

(* claimWorkflow, the UPDATE: whoever asked (the submission's own kick-off, a
   retry timer, the promotion of a follow-up or the cron tick). *)
Claim(p, w) ==
  /\ at[p].pc = "idle"
  /\ MayClaim(w)
  /\ wf' = [wf EXCEPT ![w] = [@ EXCEPT !.lease = "live", !.holder = PodOf[p]]]
  /\ at' = [at EXCEPT ![p] = [pc |-> "load", w |-> w, step |-> 0, attempt |-> 0]]
  /\ UNCHANGED <<request, steps, outcome, dead, kc, late, sub, nOps, nFaults>>

(* claimWorkflow, the read: execute works on this copy of the row. *)
Load(p) ==
  /\ at[p].pc = "load"
  /\ GoTo(p, IF wf[at[p].w].state = "PENDING" THEN "start" ELSE "probe")
  /\ UNCHANGED <<request, wf, steps, outcome, dead, kc, late, sub, nOps, nFaults>>

(* Mutant: no index refuses the start. *)
StartUnchecked(p) ==
  /\ at[p].pc = "start"
  /\ wf' = [wf EXCEPT ![at[p].w].state = "RUNNING"]
  /\ GoTo(p, "probe")
  /\ UNCHANGED <<request, steps, outcome, dead, kc, late, sub, nOps, nFaults>>

(* execute: PENDING -> RUNNING, by id alone.  Only the one-claimable-row
   index can refuse it. *)
Start(p) ==
  /\ at[p].pc = "start"
  /\ LET w == at[p].w
     IN \/ /\ Rows(Claimable) \subseteq {w}
           /\ wf' = [wf EXCEPT ![w].state = "RUNNING"]
           /\ GoTo(p, "probe")
        \/ /\ ~(Rows(Claimable) \subseteq {w})
           /\ GoTo(p, "error")
           /\ UNCHANGED wf
  /\ UNCHANGED <<request, steps, outcome, dead, kc, late, sub, nOps, nFaults>>

(* The head of runNextStep: read the steps, then the live state.  A step row
   is only written by a worker of the same workflow, so reading both at once
   loses no behaviour. *)
Probe(p) ==
  /\ at[p].pc = "probe"
  /\ LET w == at[p].w
     IN \/ /\ wf[w].state \notin Claimable
           /\ GoTo(p, IF wf[w].state = "SUPERSEDED" THEN "abandon" ELSE "release")
        \/ /\ wf[w].state \in Claimable
           /\ \E s \in Step :
                /\ IsNextStep(w, s)
                /\ at' = [at EXCEPT ![p] = [@ EXCEPT !.pc = "begin", !.step = s,
                                    !.attempt = NextAttempt(steps[w][s].attempts)]]
        \/ /\ wf[w].state \in Claimable
           /\ IsNextStep(w, Done)
           /\ GoTo(p, "complete")
  /\ UNCHANGED <<request, wf, steps, outcome, dead, kc, late, sub, nOps, nFaults>>

(* releaseWorkflow without a new run_after: after an abandoned or spent run,
   or after an exception.  It asks neither who holds the lease nor the state. *)
Release(p) ==
  /\ at[p].pc \in {"release", "abandon", "error"}
  /\ wf' = [wf EXCEPT ![at[p].w] = Released(@)]
  /\ IF at[p].pc = "abandon" THEN GoTo(p, "closeOut") ELSE Leave(p)
  /\ UNCHANGED <<request, steps, outcome, dead, kc, late, sub, nOps, nFaults>>

(* A worker that found its workflow superseded records it, best effort. *)
CloseOut(p) ==
  /\ at[p].pc = "closeOut"
  /\ outcome' = Recorded(outcome, wf[at[p].w].op, "superseded")
  /\ Leave(p)
  /\ UNCHANGED <<request, wf, steps, dead, kc, late, sub, nOps, nFaults>>

BeginStep(p) ==
  /\ at[p].pc = "begin"
  /\ steps' = [steps EXCEPT ![at[p].w][at[p].step] =
                 [state |-> "RUNNING", attempts |-> at[p].attempt]]
  /\ GoTo(p, "exec")
  /\ UNCHANGED <<request, wf, outcome, dead, kc, late, sub, nOps, nFaults>>

-----------------------------------------------------------------------------
(* The bodies of the steps (steps/integration.ts) *)

(* Mutant: a step applies the integration as it is now, not its snapshot. *)
DesiredNow(w) == IF wf[w].type = "DELETE" THEN 0 ELSE request.version

(* What keycloakClient converges an environment to. *)
Desired(w) == IF wf[w].type = "DELETE" THEN 0 ELSE wf[w].version

ExecPlan(p) ==
  /\ at[p].pc = "exec" /\ at[p].step = PLAN
  /\ ~RowLocked
  /\ request' = [request EXCEPT !.status = "planned"]
  /\ GoTo(p, "settle")
  /\ UNCHANGED <<wf, steps, outcome, dead, kc, late, sub, nOps, nFaults>>

ExecApply(p) ==
  /\ at[p].pc = "exec" /\ at[p].step \in Env
  /\ kc' = [kc EXCEPT ![at[p].step] = Desired(at[p].w)]
  /\ GoTo(p, "settle")
  /\ UNCHANGED <<request, wf, steps, outcome, dead, late, sub, nOps, nFaults>>

(* RESTORE_ROLES and NOTIFY touch nothing this module keeps. *)
ExecOther(p) ==
  /\ at[p].pc = "exec" /\ at[p].step \in {RESTORE_ROLES, NOTIFY}
  /\ GoTo(p, "settle")
  /\ UNCHANGED <<request, wf, steps, outcome, dead, kc, late, sub, nOps, nFaults>>

(* finalizeStep: the outcome first, then the status. *)
FinalizeOutcome(p) ==
  /\ at[p].pc = "exec" /\ at[p].step = FINALIZE
  /\ outcome' = Recorded(outcome, wf[at[p].w].op, "success")
  /\ GoTo(p, "finalize")
  /\ UNCHANGED <<request, wf, steps, dead, kc, late, sub, nOps, nFaults>>

FinalizeStatus(p) ==
  /\ at[p].pc = "finalize"
  /\ ~RowLocked
  /\ request' = [request EXCEPT !.status = "applied"]
  /\ GoTo(p, "settle")
  /\ UNCHANGED <<wf, steps, outcome, dead, kc, late, sub, nOps, nFaults>>

(* withTimeout: the step is told it failed, its Keycloak call goes on. *)
Timeout(p) ==
  /\ Fault("timeout")
  /\ at[p].pc = "exec" /\ at[p].step \in Env
  /\ late' = late \cup {<<at[p].w, at[p].step>>}
  /\ GoTo(p, "failed")
  /\ UNCHANGED <<request, wf, steps, outcome, dead, kc, sub, nOps>>

LateApply(w, e) ==
  /\ <<w, e>> \in late
  /\ late' = late \ {<<w, e>>}
  /\ kc' = [kc EXCEPT ![e] = Desired(w)]
  /\ UNCHANGED <<request, wf, steps, outcome, dead, at, sub, nOps, nFaults>>

(* Any statement of a step, its COMPLETED write included, can throw. *)
StepThrows(p) ==
  /\ at[p].pc \in {"exec", "finalize", "settle"}
  /\ GoTo(p, "failed")
  /\ UNCHANGED <<request, wf, steps, outcome, dead, kc, late, sub, nOps, nFaults>>

-----------------------------------------------------------------------------
(* What follows a step *)

NextIteration(p) ==
  at' = [at EXCEPT ![p] = [@ EXCEPT !.pc = "probe", !.step = 0, !.attempt = 0]]

SetStep(p, state) == steps' = [steps EXCEPT ![at[p].w][at[p].step].state = state]

CompleteStep(p) ==
  /\ at[p].pc = "settle"
  /\ SetStep(p, "COMPLETED")
  /\ NextIteration(p)
  /\ UNCHANGED <<request, wf, outcome, dead, kc, late, sub, nOps, nFaults>>

(* Mutant: every step is optional. *)
AfterOptional(attempt, step) == IF attempt < MaxAttempts THEN "retry" ELSE "skip"

(* Only NOTIFY is optional. *)
AfterFailure(attempt, step) ==
  IF attempt < MaxAttempts THEN "retry" ELSE IF step = NOTIFY THEN "skip" ELSE "fail"

FailStep(p) ==
  /\ at[p].pc = "failed"
  /\ SetStep(p, "FAILED")
  /\ GoTo(p, AfterFailure(at[p].attempt, at[p].step))
  /\ UNCHANGED <<request, wf, outcome, dead, kc, late, sub, nOps, nFaults>>

SkipStep(p) ==
  /\ at[p].pc = "skip"
  /\ SetStep(p, "SKIPPED")
  /\ NextIteration(p)
  /\ UNCHANGED <<request, wf, outcome, dead, kc, late, sub, nOps, nFaults>>

(* releaseWorkflow with the backoff's run_after. *)
Retry(p) ==
  /\ at[p].pc = "retry"
  /\ wf' = [wf EXCEPT ![at[p].w] = [Released(@) EXCEPT !.due = FALSE]]
  /\ Leave(p)
  /\ UNCHANGED <<request, steps, outcome, dead, kc, late, sub, nOps, nFaults>>

BackoffElapses(w) ==
  /\ wf[w].state \in Claimable /\ ~wf[w].due
  /\ wf' = [wf EXCEPT ![w].due = TRUE]
  /\ UNCHANGED <<request, steps, outcome, dead, kc, late, at, sub, nOps, nFaults>>

(* releaseWorkflowIfActive: the terminal write, lost if a delete was faster. *)
Terminate(p, state, won, lost) ==
  LET w == at[p].w
  IN \/ /\ wf[w].state \in Claimable
        /\ wf' = [wf EXCEPT ![w] = [Released(@) EXCEPT !.state = state]]
        /\ won
     \/ /\ wf[w].state \notin Claimable
        /\ lost
        /\ UNCHANGED wf

CompleteWorkflow(p) ==
  /\ at[p].pc = "complete"
  /\ Terminate(p, "COMPLETED", GoTo(p, "promote"), Leave(p))
  /\ UNCHANGED <<request, steps, outcome, dead, kc, late, sub, nOps, nFaults>>

FailWorkflow(p) ==
  /\ at[p].pc = "fail"
  /\ Terminate(p, "FAILED", GoTo(p, "failStatus"), GoTo(p, "closeOut"))
  /\ UNCHANGED <<request, steps, outcome, dead, kc, late, sub, nOps, nFaults>>

FailStatus(p) ==
  /\ at[p].pc = "failStatus"
  /\ ~RowLocked
  /\ request' = [request EXCEPT !.status = IF at[p].step = PLAN THEN "planFailed"
                                           ELSE "applyFailed"]
  /\ GoTo(p, "failOutcome")
  /\ UNCHANGED <<wf, steps, outcome, dead, kc, late, sub, nOps, nFaults>>

(* Mutant: a recorded failure leaves no dead letter. *)
FailOutcomeOnly(p) ==
  /\ at[p].pc = "failOutcome"
  /\ outcome' = Recorded(outcome, wf[at[p].w].op,
                         IF at[p].step = PLAN THEN "planFailure" ELSE "failure")
  /\ GoTo(p, "promote")
  /\ UNCHANGED <<request, wf, steps, dead, kc, late, sub, nOps, nFaults>>

FailOutcome(p) ==
  /\ at[p].pc = "failOutcome"
  /\ outcome' = Recorded(outcome, wf[at[p].w].op,
                         IF at[p].step = PLAN THEN "planFailure" ELSE "failure")
  /\ GoTo(p, "deadLetter")
  /\ UNCHANGED <<request, wf, steps, dead, kc, late, sub, nOps, nFaults>>

DeadLetter(p) ==
  /\ at[p].pc = "deadLetter"
  /\ dead' = dead \cup {at[p].w}
  /\ GoTo(p, "promote")
  /\ UNCHANGED <<request, wf, steps, outcome, kc, late, sub, nOps, nFaults>>

StartQueued(p) ==
  /\ at[p].pc = "promote"
  /\ PromoteQueued
  /\ Leave(p)
  /\ UNCHANGED <<request, steps, outcome, dead, kc, late, sub, nOps, nFaults>>

-----------------------------------------------------------------------------
(* Faults and the lease *)

(* A pod dies with every worker in it. *)
Crash(pod) ==
  /\ Fault("crash")
  /\ \E p \in Worker : PodOf[p] = pod /\ at[p].pc # "idle"
  /\ at' = [p \in Worker |-> IF PodOf[p] = pod THEN Idle ELSE at[p]]
  /\ UNCHANGED <<request, wf, steps, outcome, dead, kc, late, sub, nOps>>

(* A statement outside the steps throws: runClaimedWorkflow releases, except
   around the claim itself and for its own release.  The audit writes of
   CloseOut and FailOutcome are best effort: they swallow the exception. *)
Throw(p) ==
  /\ Fault("throw")
  /\ \/ /\ at[p].pc \in {"load", "error"}
        /\ Leave(p)
     \/ /\ at[p].pc \in {"start", "probe", "begin", "failed", "skip", "retry", "fail",
                         "failStatus", "deadLetter", "promote", "complete", "release",
                         "abandon"}
        /\ GoTo(p, "error")
     \/ /\ at[p].pc = "closeOut"
        /\ Leave(p)
     \/ /\ at[p].pc = "failOutcome"
        /\ GoTo(p, "deadLetter")
  /\ UNCHANGED <<request, wf, steps, outcome, dead, kc, late, sub, nOps>>

Works(p, w) == at[p].pc # "idle" /\ at[p].w = w

(* CLAIM_LEASE_SECONDS pass with no worker left to renew the lease.  Only the
   lease of a claimable row is ever looked at. *)
LeaseLapses(w) ==
  /\ wf[w].state \in Claimable /\ wf[w].lease = "live"
  /\ \A p \in Worker : ~Works(p, w)
  /\ wf' = [wf EXCEPT ![w].lease = "expired"]
  /\ UNCHANGED <<request, steps, outcome, dead, kc, late, at, sub, nOps, nFaults>>

(* They pass under a worker slower than its lease.  The heartbeat is no help:
   its period, a third of the lease (333 s), is longer than the longest step
   (STEP_TIMEOUT_MS, 300 s), so with the default settings it never beats. *)
LeaseLost(w) ==
  /\ wf[w].state \in Claimable /\ wf[w].lease = "live"
  /\ \E p \in Worker : Works(p, w)
  /\ Fault("stall")
  /\ wf' = [wf EXCEPT ![w].lease = "expired"]
  /\ UNCHANGED <<request, steps, outcome, dead, kc, late, at, sub, nOps>>

(* execute spent its iteration budget, which takes another worker undoing
   the steps this one finished: it hands the workflow back. *)
BudgetSpent(p) ==
  /\ at[p].pc = "probe"
  /\ Fault("stall")
  /\ GoTo(p, "release")
  /\ UNCHANGED <<request, wf, steps, outcome, dead, kc, late, sub, nOps>>

Heartbeat(p) ==
  /\ at[p].pc \in {"exec", "finalize"}
  /\ LET w == at[p].w
     IN /\ wf[w].holder = PodOf[p]
        /\ wf[w].state \in Claimable
        /\ wf[w].lease = "expired"
        /\ wf' = [wf EXCEPT ![w].lease = "live"]
  /\ UNCHANGED <<request, steps, outcome, dead, kc, late, at, sub, nOps, nFaults>>

-----------------------------------------------------------------------------

Submission(u) ==
  \/ \E intent \in Intents : ReadRequest(u, intent)
  \/ GiveUp(u)
  \/ DeleteDraft(u)
  \/ Delete(u)
  \/ Park(u)
  \/ FindNothingInFlight(u)
  \/ Insert(u)

StepBody(p) ==
  \/ ExecPlan(p)
  \/ ExecApply(p)
  \/ ExecOther(p)
  \/ FinalizeOutcome(p)
  \/ FinalizeStatus(p)

Engine(p) ==
  \/ Load(p)
  \/ Start(p)
  \/ Probe(p)
  \/ Release(p)
  \/ CloseOut(p)
  \/ BeginStep(p)
  \/ StepBody(p)
  \/ CompleteStep(p)
  \/ FailStep(p)
  \/ SkipStep(p)
  \/ Retry(p)
  \/ CompleteWorkflow(p)
  \/ FailWorkflow(p)
  \/ FailStatus(p)
  \/ FailOutcome(p)
  \/ DeadLetter(p)
  \/ StartQueued(p)

Next ==
  \/ \E u \in User : Submission(u)
  \/ PromoteOrphan
  \/ \E p \in Worker : \/ \E w \in Op : Claim(p, w)
                       \/ Engine(p)
                       \/ Timeout(p)
                       \/ StepThrows(p)
                       \/ Throw(p)
                       \/ Heartbeat(p)
                       \/ BudgetSpent(p)
  \/ \E w \in Op : \/ BackoffElapses(w)
                   \/ LeaseLapses(w)
                   \/ LeaseLost(w)
                   \/ \E e \in Env : LateApply(w, e)
  \/ \E pod \in Pod : Crash(pod)

Spec == Init /\ [][Next]_vars

(* The cron tick claims and promotes every minute, timers and the lease run
   out, a worker that is not killed goes on, and a transaction ends.  Users
   owe nothing.  Postgres serves the waiters of a row lock in turn, so a
   status write blocked by submissions time and again gets through. *)
Fairness ==
  /\ \A p \in Worker : WF_vars(Engine(p)) /\ SF_vars(FailStatus(p))
  /\ WF_vars(\E p \in Worker, w \in Op : Claim(p, w))
  /\ WF_vars(PromoteOrphan)
  /\ \A w \in Op : WF_vars(BackoffElapses(w)) /\ WF_vars(LeaseLapses(w))
  /\ \A u \in User : WF_vars(Insert(u))

FairSpec == Spec /\ Fairness

-----------------------------------------------------------------------------
(* Properties *)

Pc == {"idle", "load", "start", "probe", "release", "abandon", "error", "closeOut",
       "begin", "exec", "finalize", "settle", "failed", "retry", "skip", "complete",
       "fail", "failStatus", "failOutcome", "deadLetter", "promote"}

RowType ==
  [state : WorkflowState \cup {"NONE"}, type : WorkflowType, op : 0..MaxOps,
   version : 0..MaxOps, envs : SUBSET Env, holder : Pod \cup {NoPod},
   lease : {"none", "live", "expired"}, due : BOOLEAN]

StepType == [state : StepState \cup {"ABSENT"}, attempts : 0..AttemptCap]

RequestType ==
  [status : Status, archived : BOOLEAN, version : 0..MaxOps, envs : SUBSET Env]

WorkerType ==
  [pc : Pc, w : 0..MaxOps, step : Step \cup {Done}, attempt : 0..AttemptCap]

UserType ==
  [pc : {"away", "read", "insert"}, intent : AllIntents, status : Status,
   archived : BOOLEAN, version : 0..MaxOps, envs : SUBSET Env]

WorkersTyped ==
  /\ at \in [Worker -> WorkerType]
  /\ \A p \in Worker : at[p].pc # "idle" => at[p].w \in Op

(* The variables hold values of their types; a worker that is not idle works
   on a row. *)
TypeOK ==
  /\ request \in RequestType
  /\ wf \in [Op -> RowType]
  /\ steps \in [Op -> [Step -> StepType]]
  /\ outcome \in [Op -> Outcome \cup {"none"}]
  /\ dead \subseteq Op
  /\ kc \in [Env -> 0..MaxOps]
  /\ late \subseteq Op \X Env
  /\ WorkersTyped
  /\ sub \in [User -> UserType]
  /\ nOps \in 0..MaxOps
  /\ nFaults \in 0..MaxFaults

(* At most one row of the integration is claimable and at most one is parked,
   whatever races: the Start of a row a delete closed, a promotion against a
   submission's insert (createWorkflow, promoteQueuedWorkflow, execute). *)
OneClaimableOneQueued ==
  \A v, w \in Op : v # w => /\ ~({wf[v].state, wf[w].state} \subseteq Claimable)
                           /\ ~(wf[v].state = "QUEUED" /\ wf[w].state = "QUEUED")

(* No submission is silently lost: each one is carried by a row that is still
   active, or failed and not yet recorded, or its outcome is on record.  So
   rows closed as SUPERSEDED or COMPLETED, overwritten while QUEUED, or adopted
   by another submission always left an outcome (createWorkflow,
   supersedeActiveWorkflows, recordAdoptedSubmission, finalizeStep). *)
EveryOperationAccounted ==
  \A o \in 1..nOps :
    outcome[o] = "none" => \E w \in Op : /\ wf[w].op = o
                                        /\ wf[w].state \in Active \cup {"FAILED"}

(* A parked submission is untouched until it is promoted: no worker holds or
   runs it and none of its steps was begun, so overwriting its payload and plan
   never changes work under way (createWorkflow, claimWorkflow). *)
QueuedIsUntouched ==
  \A q \in Rows({"QUEUED"}) :
    /\ \A p \in Worker : at[p].pc # "idle" => at[p].w # q
    /\ \A s \in Step : steps[q][s].attempts = 0
    /\ wf[q].lease = "none"

(* success is recorded for an operation only once each environment of the
   payload that carried it was attempted, however many workers shared, lost and
   resumed its row (runNextStep, finalizeStep). *)
SuccessWasApplied ==
  \A o \in Op :
    outcome[o] = "success" =>
      \E w \in Op : /\ wf[w].op = o
                    /\ \A e \in OrderedEnvironments(wf[w].type, wf[w].envs) :
                         steps[w][e].attempts > 0

-----------------------------------------------------------------------------
(* Why no submission is lost and a parked one is untouched: what the table,   *)
(* the steps, the audit and the workers know of each other.                   *)

(* A worker past this point has seen the outcome of its operation recorded. *)
Tells(p) == \/ at[p].pc \in {"finalize", "complete"}
            \/ at[p].pc = "settle" /\ at[p].step = FINALIZE

FreshRows == \A w \in Op : w > nOps => wf[w].state = "NONE"

RowsCarry ==
  \A w \in Op : wf[w].state # "NONE" =>
    wf[w].op \in 1..nOps /\ steps[w][FINALIZE].state # "ABSENT"

WorkersHoldStartedRows ==
  \A p \in Worker : at[p].pc # "idle" => wf[at[p].w].state \notin {"NONE", "QUEUED"}

FinalizeAnswers ==
  \A w \in Op : wf[w].state # "NONE" /\ steps[w][FINALIZE].state \in Finished =>
    outcome[wf[w].op] # "none"

WorkersAnswer ==
  \A p \in Worker : /\ Tells(p) => outcome[wf[at[p].w].op] # "none"
                    /\ at[p].pc = "skip" => at[p].step = NOTIFY

ParkedRowsFresh ==
  \A q \in Op : wf[q].state = "QUEUED" =>
    wf[q].lease = "none" /\ \A s \in Step : steps[q][s].attempts = 0

Ledger ==
  /\ FreshRows
  /\ RowsCarry
  /\ WorkersHoldStartedRows
  /\ FinalizeAnswers
  /\ WorkersAnswer
  /\ ParkedRowsFresh
  /\ EveryOperationAccounted

-----------------------------------------------------------------------------
(* What holds as long as a lease is not lost and nothing is superseded *)

(* One worker at a time drives a workflow (claimWorkflow, releaseWorkflow). *)
SingleOwner ==
  \A p, q \in Worker :
    p # q /\ at[p].pc # "idle" /\ at[q].pc # "idle" => at[p].w # at[q].w

(* Steps run in the order of the plan, and a workflow is COMPLETED only once
   every step is: crashes, retries and resumes included (runNextStep). *)
StepsInOrder ==
  \A w \in Op :
    /\ \A r, s \in Step : r < s /\ Unfinished(w, r) => steps[w][s].attempts = 0
    /\ wf[w].state = "COMPLETED" => \A s \in Step : ~Unfinished(w, s)

(* What a claimable workflow has applied stays applied under it: nobody else
   writes its environments (promoteQueuedWorkflow, applyEnvironmentStep). *)
AppliedStaysApplied ==
  \A w \in Rows(Claimable), e \in Env :
    steps[w][e].state = "COMPLETED" => kc[e] = wf[w].version

(* A terminal state is never left: COMPLETED, FAILED and SUPERSEDED rows are
   closed for good (types.ts). *)
TerminalIsFinal ==
  [][\A w \in Op : wf[w].state \in Terminal => wf'[w].state = wf[w].state]_vars

(* "Drops the lease so another worker (or the cron tick) can pick the workflow
   up at runAfter" (releaseWorkflow): while no worker dies or loses a write, a
   due workflow that nobody works on can be claimed at once.  It holds where
   Sequelize writes nulls, and not in production, where it omits them. *)
ReleasedIsClaimable ==
  nFaults = 0 =>
    \A w \in Rows(Claimable) :
      wf[w].due /\ (\A p \in Worker : ~Works(p, w)) => wf[w].lease # "live"

-----------------------------------------------------------------------------
(* What the documentation says and the code does not ensure *)

(* Nothing runs, waits or is on its way to Keycloak. *)
Quiet ==
  /\ Rows(Active) = {}
  /\ late = {}
  /\ \A p \in Worker : at[p].pc = "idle"
  /\ \A u \in User : sub[u].pc = "away"

Succeeded(w) == wf[w].op \in Op /\ outcome[wf[w].op] = "success"

LatestDelete(w) ==
  /\ wf[w].type = "DELETE"
  /\ \A v \in Op : wf[v].type = "DELETE" => wf[v].op <= wf[w].op

(* "latest desired state wins" (store.ts, ADR 0001): once all is quiet and the
   last submission succeeded, Keycloak holds what it asked for. *)
LatestStateWins ==
  \A w \in Op :
    Quiet /\ Succeeded(w) /\ wf[w].op = nOps /\ wf[w].type = "APPLY" =>
      \A e \in wf[w].envs : kc[e] = wf[w].version

(* "a superseded workflow stops instead of re-creating what the delete just
   removed" (ADR 0001): once all is quiet and the last submission was a delete
   that succeeded, no client is left. *)
DeleteWins ==
  \A w \in Op :
    Quiet /\ Succeeded(w) /\ wf[w].op = nOps /\ wf[w].type = "DELETE" =>
      \A e \in Env : kc[e] = 0

(* "A delete must win over an in-flight update, otherwise the older snapshot
   would be re-applied and resurrect the integration" (request-workflow.ts):
   once all is quiet and the latest delete succeeded, an integration that is
   still archived has no client. *)
ArchivedIsGone ==
  \A w \in Op :
    Quiet /\ Succeeded(w) /\ LatestDelete(w) /\ request.archived =>
      \A e \in Env : kc[e] = 0

-----------------------------------------------------------------------------
(* What eventually happens *)

(* Every submission's workflow is closed: parked, crashed, retried or orphaned,
   it ends COMPLETED, FAILED or SUPERSEDED (drainWorkflows and its recovery). *)
EveryWorkflowCloses ==
  \A w \in Op : wf[w].state \in Active ~> wf[w].state \in Terminal

(* Unless a worker dies or loses a write on the way, every submission gets its
   outcome (docs/events.md) and every failed workflow its dead letter. *)
EveryOperationAnswered ==
  [](nFaults = 0) =>
    /\ \A o \in Op : nOps >= o ~> outcome[o] # "none"
    /\ \A w \in Op : wf[w].state = "FAILED" ~> w \in dead

-----------------------------------------------------------------------------
(* The rows, seen as the lifecycle types.ts promises *)

Lifecycle == INSTANCE WorkflowLifecycle
               WITH state <- [w \in Op |-> wf[w].state],
                    carries <- [w \in Op |-> wf[w].op]

(* The engine implements the promised lifecycle while no lease is lost and no
   worker starts a row a delete has closed. *)
ImplementsLifecycle == Lifecycle!Spec
=============================================================================
