SPECIFICATION FairSpec
CONSTANTS
  Replica = {"A", "B"}
  Publisher = {"worker", "api"}
  Home <- Homes
  Count <- Counts
  Ending = "worker"
  Client = {"c"}
  Limit = 3
  Room = 1
  FaultKinds = {"retention", "append", "lose", "list", "restart"}
  MaxFaults = 1
INVARIANTS
  EventsAreToldOnce
  StreamFollowsPublisher
  EndedStreamHasNoGaps
PROPERTIES
  StreamEnds
CHECK_DEADLOCK FALSE
