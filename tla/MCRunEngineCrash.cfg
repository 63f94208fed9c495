SPECIFICATION Spec
CONSTANTS
  r1 = r1
  p1 = p1
  p2 = p2
  w1 = w1
  w2 = w2
  None = None
  Run = {r1}
  Proc = {p1, p2}
  Worker = {w1, w2}
  ProcOf <- TwoProcesses
  MaxAttempts = 1
  MaxToken = 2
  MaxMessages = 2
  MaxFaults = 2
  FaultKinds = {"crash", "call"}
SYMMETRY SlotSymmetry
INVARIANTS
  EnqueuedRunIsNotLost
  ExclusiveExecution
  DeadLettersHaveFailed
CHECK_DEADLOCK FALSE
