SPECIFICATION Spec
CONSTANTS
  Worker = {p1, p2}
  Pod = {p1, p2}
  PodOf <- MCPodOf
  User = {u1, u2}
  NEnv = 1
  EnvChoices = {{1}}
  Intents = {"submit", "resubmit"}
  OmitsNull = FALSE
  Faults = {"crash", "throw"}
  MaxOps = 2
  MaxAttempts = 2
  AttemptCap = 4
  MaxFaults = 1
SYMMETRY Perms
INVARIANT SingleOwner
INVARIANT StepsInOrder
INVARIANT AppliedStaysApplied
CHECK_DEADLOCK FALSE
