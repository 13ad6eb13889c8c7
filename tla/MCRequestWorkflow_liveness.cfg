SPECIFICATION FairSpec
CONSTANTS
  Worker = {p1}
  Pod = {p1}
  PodOf <- MCPodOf
  User = {u1}
  NEnv = 1
  EnvChoices = {{1}}
  Intents = {"submit"}
  OmitsNull = TRUE
  Faults = {"crash", "throw"}
  MaxOps = 3
  MaxAttempts = 1
  AttemptCap = 1
  MaxFaults = 1
PROPERTY EveryWorkflowCloses
PROPERTY EveryOperationAnswered
CHECK_DEADLOCK FALSE
