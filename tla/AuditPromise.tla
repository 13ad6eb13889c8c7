---------------------------- MODULE AuditPromise ----------------------------
(***************************************************************************)
(* What the audit log promises of operations against an outside system,    *)
(* whatever writes it: nothing is done before it was requested on record,  *)
(* every operation of a batch is on record before the first is done, each  *)
(* gets at most one outcome, and a success is only recorded of what was    *)
(* done.  An operation may stay without an outcome, which is how a crash   *)
(* shows.                                                                  *)
(***************************************************************************)
CONSTANT Item
VARIABLES row, made   \* the events of each operation; those carried out

Start ==
  /\ row = [i \in Item |-> "none"]
  /\ made = {}

\* The operations of a batch are requested together.
Request(batch) ==
  /\ \A i \in Item : row[i] = "none"
  /\ row' = [i \in Item |-> IF i \in batch THEN "requested" ELSE "none"]
  /\ UNCHANGED made

Do(i) ==
  /\ row[i] = "requested" /\ i \notin made
  /\ made' = made \cup {i}
  /\ UNCHANGED row

Answer(i, outcome) ==
  /\ row[i] = "requested"
  /\ outcome = "success" => i \in made
  /\ row' = [row EXCEPT ![i] = outcome]
  /\ UNCHANGED made

Step ==
  \/ \E batch \in SUBSET Item : Request(batch)
  \/ \E i \in Item : Do(i) \/ \E o \in {"success", "failure"} : Answer(i, o)

Spec == Start /\ [][Step]_<<row, made>>
=============================================================================
