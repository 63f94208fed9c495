SPECIFICATION Spec
CONSTANTS
  r1 = r1
  p1 = p1
  p2 = p2
  w1 = w1
  w2 = w2
  None = None
  Run = {r1}
  Proc = {p1, p2}
  Worker = {w1, w2}
  ProcOf <- TwoProcesses
  MaxAttempts = 2
  MaxToken = 3
  MaxMessages = 1
  MaxFaults = 1
  FaultKinds = {"pause"}
SYMMETRY SlotSymmetry
INVARIANTS
  LostLeaseIsRedelivered
CHECK_DEADLOCK FALSE
