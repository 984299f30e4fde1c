CONSTANTS
  None = None
  Sessions = {s1, s2}
  Capacity = 5
  MaxBatch = 2
  MaxFrames = 2
  Limits = {0, 2}
  MaxAttempts = 2
  MaxFaults = 1
  MaxSignals = 2
SPECIFICATION FairSpec
INVARIANTS NoUseAfterFree LeftBehind ResultIsOwn
PROPERTIES SessionEnds
CHECK_DEADLOCK FALSE
