------------------------- MODULE MCRequestWorkflow -------------------------
EXTENDS RequestWorkflow, TLC
MCPodOf == [p \in Worker |-> p]
Perms == Permutations(Worker) \cup Permutations(User)
=============================================================================
