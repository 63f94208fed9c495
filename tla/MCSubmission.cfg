SPECIFICATION Spec
CONSTANTS
  h1 = h1
  h2 = h2
  Handler <- Handlers
  Agent <- Agents
  Profile <- Profiles
  InitialHealth <- Healths
  InitialRuns <- Family
  Requests <- Mixed
  MaxRequests = 2
  MaxDepth = 2
  MaxChildren = 2
  FaultKinds = {"enqueue", "interrupt", "cancel", "delete", "health"}
  MaxFaults = 1
INVARIANTS
  KeyNamesOneRun
  SubmissionGetsItsRun
  
  
  NoRunIsStranded
SYMMETRY
  Symmetric
CHECK_DEADLOCK FALSE
