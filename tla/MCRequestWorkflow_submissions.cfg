SPECIFICATION Spec
CONSTANTS
  Worker = {p1}
  Pod = {p1}
  PodOf <- MCPodOf
  User = {u1, u2}
  NEnv = 1
  EnvChoices = {{1}}
  Intents = {"submit", "resubmit", "delete", "restore"}
  OmitsNull = TRUE
  Faults = {}
  MaxOps = 3
  MaxAttempts = 1
  AttemptCap = 1
  MaxFaults = 0
SYMMETRY Perms
INVARIANT QueuedIsUntouched
PROPERTY ImplementsLifecycle
CHECK_DEADLOCK FALSE
