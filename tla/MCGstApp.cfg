CONSTANTS
  p1 = p1
  p2 = p2
  Procs = {p1, p2}
  NoProc = NoProc
  MaxRetry = 2
  MaxSignals = 1
  MaxFaults = 1
SPECIFICATION FairSpec
INVARIANTS NothingFreedIsUsed OneSender SessionLeft
PROPERTIES ExitIsReached
CHECK_DEADLOCK FALSE
