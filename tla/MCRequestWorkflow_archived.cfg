SPECIFICATION Spec
CONSTANTS
  Worker = {p1}
  Pod = {p1}
  PodOf <- MCPodOf
  User = {u1, u2}
  NEnv = 1
  EnvChoices = {{1}}
  Intents = {"submit", "delete"}
  OmitsNull = TRUE
  Faults = {}
  MaxOps = 3
  MaxAttempts = 1
  AttemptCap = 1
  MaxFaults = 0
INVARIANT ArchivedIsGone
CHECK_DEADLOCK FALSE
