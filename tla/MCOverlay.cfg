CONSTANTS
  NFrames = 3
  QueueSize = 1
  MlaBuffers = 2
  Fields = {"frame_id", "stream_id"}
  MaxMissing = 1
  MaxFaults = 2
  MaxBlank = 2
SPECIFICATION FairSpec
INVARIANTS BoxesAreNextInLine EveryFrameOnceInOrder LabelIsOwn NoMapLeft
PROPERTIES EveryFrameShown
CHECK_DEADLOCK FALSE
