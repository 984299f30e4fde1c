CONSTANTS
  dec = dec
  cvu = cvu
  pcie = pcie
  s1 = s1
  s2 = s2
  Elements = {dec, cvu}
  Streams = {s1, s2}
  NFrames = 1
  PluginsCount = 2
  Threshold = 1
  MaxGap = 2
  MaxCommands = 2
  MaxLost = 1
  MayFinalize = FALSE
  NoStream = NoStream
  StreamOf <- TwoStreams
  KindOf <- Kind
SPECIFICATION FairSpec
INVARIANTS WellLabelled
PROPERTIES EventuallyPublished
