SPECIFICATION FairSpec
CONSTANTS
  m1 = m1
  m2 = m2
  None = None
  KnownAgent <- Agents
  Answers <- Replies
  MaxWorkflowSteps = 3
  Definitions <- AllDefinitions
  Manager <- OneManager
  RecoversRuns <- OneManager
  Concurrency = 2
  Kind = {"start", "cancel"}
  Watched = FALSE
  FaultKinds = {"crash"}
  MaxFaults = 1
INVARIANTS
  KahnIsExact
  BranchesFollowConditions
  InputsAreFinalOutputs

  
CHECK_DEADLOCK FALSE
