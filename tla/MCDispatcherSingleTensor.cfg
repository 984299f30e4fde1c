CONSTANTS
  Configs <- SingleTensor
  InTensor = 1
  OutTensor = 2
  NFrames = 3
  NBufs = 2
  Metas = {1, 4}
  Offsets = {0}
  AddrSpace = 1000
  DumpData = TRUE
  MaxFaults = 2
  MaxMetaFaults = 0
SPECIFICATION Spec
INVARIANTS ResultIsOwn
CHECK_DEADLOCK FALSE
