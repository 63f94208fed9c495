SPECIFICATION Spec
CONSTANTS
  m1 = m1
  m2 = m2
  None = None
  KnownAgent <- Agents
  Answers <- Replies
  MaxWorkflowSteps = 3
  Definitions <- PairAndChain
  Manager <- TwoManagers
  RecoversRuns <- TwoManagers
  Concurrency = 1
  Kind = {"start"}
  Watched = TRUE
  FaultKinds = {"pause", "renew", "crash", "call", "cache", "requeue", "cancelRun", "disconnect"}
  MaxFaults = 1
SYMMETRY Symmetric
INVARIANTS
  StepsFollowDependencies
  OneRunPerStep
  ConcurrencyIsBounded
  
PROPERTY
  WorkflowSpec
CHECK_DEADLOCK FALSE
