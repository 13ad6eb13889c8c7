-------------------------- MODULE WorkflowLifecycle --------------------------
(***************************************************************************)
(* What the engine promises of the request_workflows rows of one           *)
(* integration, as app/workflow/types.ts states it: one submission owns    *)
(* the integration, at most one waits behind it and is replaced by a newer *)
(* one, a terminal row stays closed, and a delete takes over from all.     *)
(***************************************************************************)
EXTENDS Integers

CONSTANT MaxOps

VARIABLES
  state,    \* state of each row
  carries   \* operation each row carries, 0 before it exists

Op == 1..MaxOps
Claimable == {"PENDING", "RUNNING"}
Active == Claimable \cup {"QUEUED"}

Init ==
  /\ state = [w \in Op |-> "NONE"]
  /\ carries = [w \in Op |-> 0]

Fresh(n) == \A w \in Op : carries[w] < n
Owned == \E w \in Op : state[w] \in Claimable
Waiting == \E w \in Op : state[w] = "QUEUED"

Enter(w, n, s) ==
  /\ state[w] = "NONE" /\ Fresh(n)
  /\ state' = [state EXCEPT ![w] = s]
  /\ carries' = [carries EXCEPT ![w] = n]

Submit(w, n) == ~Owned /\ Enter(w, n, "PENDING")
Queue(w, n) == Owned /\ ~Waiting /\ Enter(w, n, "QUEUED")

(* A newer submission takes the place of the one that waits. *)
Replace(w, n) ==
  /\ Owned /\ state[w] = "QUEUED" /\ Fresh(n)
  /\ carries' = [carries EXCEPT ![w] = n]
  /\ UNCHANGED state

(* A delete closes every active row and owns the integration. *)
TakeOver(w, n) ==
  /\ state[w] = "NONE" /\ Fresh(n)
  /\ state' = [v \in Op |-> IF v = w THEN "PENDING"
                            ELSE IF state[v] \in Active THEN "SUPERSEDED" ELSE state[v]]
  /\ carries' = [carries EXCEPT ![w] = n]

Move(w, from, to) ==
  /\ state[w] = from
  /\ state' = [state EXCEPT ![w] = to]
  /\ UNCHANGED carries

Promote(w) == ~Owned /\ Move(w, "QUEUED", "PENDING")
Start(w) == Move(w, "PENDING", "RUNNING")
Complete(w) == Move(w, "RUNNING", "COMPLETED")
Fail(w) == Move(w, "RUNNING", "FAILED")

Next ==
  \E w \in Op :
    \/ \E n \in Op : Submit(w, n) \/ Queue(w, n) \/ Replace(w, n) \/ TakeOver(w, n)
    \/ Promote(w) \/ Start(w) \/ Complete(w) \/ Fail(w)

Spec == Init /\ [][Next]_<<state, carries>>
=============================================================================
