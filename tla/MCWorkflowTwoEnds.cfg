SPECIFICATION Spec
CONSTANTS
  m1 = m1
  m2 = m2
  None = None
  KnownAgent <- Agents
  Answers <- Replies
  MaxWorkflowSteps = 3
  Definitions <- SingleOnly
  Manager <- OneManager
  RecoversRuns <- OneManager
  Concurrency = 1
  Kind = {"start", "cancel"}
  Watched = FALSE
  FaultKinds = {}
  MaxFaults = 0
INVARIANT
  OneEndIsAnnounced
CHECK_DEADLOCK FALSE
