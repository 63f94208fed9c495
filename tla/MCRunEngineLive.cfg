SPECIFICATION FairSpec
CONSTANTS
  r1 = r1
  p1 = p1
  p2 = p2
  w1 = w1
  w2 = w2
  None = None
  Run = {r1}
  Proc = {p1}
  Worker = {w1, w2}
  ProcOf <- OneProcess
  MaxAttempts = 2
  MaxToken = 4
  MaxMessages = 1
  MaxFaults = 1
  FaultKinds = {"crash", "call"}
INVARIANTS
  ActiveEntriesAreLive
PROPERTIES
  CancelInterruptsExecutions
  EnqueuedRunFinishes
  FinishedRunDrains
CHECK_DEADLOCK FALSE
