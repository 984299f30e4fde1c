CONSTANTS
  ImgH = 32
  ImgW = 64
  Hot <- HotChain
  Raw <- Outputs
  MaxScore = 2
  ScoreThr = 0
  NTest = 2
  NCalib = 2
  MaxRuns = 2
  MaxFaults = 1
SPECIFICATION Spec
INVARIANTS EveryCalibrationImageSeen
CHECK_DEADLOCK FALSE
