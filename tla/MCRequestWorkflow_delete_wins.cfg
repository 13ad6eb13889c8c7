SPECIFICATION Spec
CONSTANTS
  Worker = {p1, p2}
  Pod = {p1, p2}
  PodOf <- MCPodOf
  User = {u1}
  NEnv = 1
  EnvChoices = {{1}}
  Intents = {"submit", "delete"}
  OmitsNull = TRUE
  Faults = {}
  MaxOps = 2
  MaxAttempts = 1
  AttemptCap = 1
  MaxFaults = 0
INVARIANT DeleteWins
CHECK_DEADLOCK FALSE
