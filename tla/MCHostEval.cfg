CONSTANTS
  ImgH = 32
  ImgW = 64
  Hot <- HotChain
  Raw <- Outputs
  MaxScore = 2
  ScoreThr = 0
  NTest = 2
  NCalib = 2
  MaxRuns = 3
  MaxFaults = 2
SPECIFICATION Spec
INVARIANTS CentredOnCell KeptApart SuppressedByBetter AnnotationIsOwn DiskIsOfOneRun EveryImageWritten
CHECK_DEADLOCK FALSE
