SPECIFICATION Spec
CONSTANTS
  Worker = {p1, p2}
  Pod = {p1, p2}
  PodOf <- MCPodOf
  User = {u1, u2}
  NEnv = 1
  EnvChoices = {{1}}
  Intents = {"submit"}
  OmitsNull = TRUE
  Faults = {}
  MaxOps = 2
  MaxAttempts = 2
  AttemptCap = 4
  MaxFaults = 0
INVARIANT ReleasedIsClaimable
CHECK_DEADLOCK FALSE
