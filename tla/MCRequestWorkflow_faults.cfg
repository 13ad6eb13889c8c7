SPECIFICATION Spec
CONSTANTS
  Worker = {p1, p2}
  Pod = {p1, p2}
  PodOf <- MCPodOf
  User = {u1}
  NEnv = 2
  EnvChoices = {{1}}
  Intents = {"submit", "delete"}
  OmitsNull = TRUE
  Faults = {"crash", "throw", "stall", "timeout"}
  MaxOps = 2
  MaxAttempts = 1
  AttemptCap = 1
  MaxFaults = 1
SYMMETRY Perms
INVARIANT TypeOK
INVARIANT OneClaimableOneQueued
INVARIANT EveryOperationAccounted
INVARIANT SuccessWasApplied
CHECK_DEADLOCK FALSE
