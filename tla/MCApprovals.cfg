SPECIFICATION Spec
CONSTANTS
  h1 = h1
  h2 = h2
  Handler <- Handlers
  Operation <- Operations
  Requests <- Asked
  Policy <- ServerPolicy
  TTL = 1
  Retention = 1
  AuditRetention = 2
  AuditMax = 1
  InitialRequests <- History
  InitialApprovals <- Stored
  InitialAudit <- Audited
  MaxTime = 3
  MaxRequests = 5
  MaxFaults = 1
INVARIANTS
  ApprovalIsUsedOnce
  ToolCallsAreAuthorized
  OneDecision
  RefusalsAreTrue
  AuditKeepsTheLatest
SYMMETRY
  Symmetric
CHECK_DEADLOCK FALSE
