SPECIFICATION FairSpec
CONSTANTS
  Handler = {"h1", "h2"}
  Scheduler = "s"
  Worker = {"w"}
  Target = {"x", "y", "demo"}
  Probeable = {"x", "y"}
  InitialRows <- Rows
  QueueSize = 1
  Requests <- Asked
  MaxRequests = 2
  FaultKinds = {"cache", "busy"}
  MaxFaults = 1
  None = None
INVARIANTS
  UpdatesAreSerial
  PendingIsUnderWay
PROPERTIES
  CacheConverges
  
CHECK_DEADLOCK FALSE
