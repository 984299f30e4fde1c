CONSTANTS
  dec = dec
  cvu = cvu
  pcie = pcie
  s1 = s1
  s2 = s2
  Elements = {dec, pcie}
  Streams = {s1}
  NFrames = 2
  PluginsCount = 2
  Threshold = 1
  MaxGap = 2
  MaxCommands = 3
  MaxLost = 0
  MayFinalize = FALSE
  NoStream = NoStream
  StreamOf <- OneStream
  KindOf <- Kind
SPECIFICATION Spec
INVARIANTS StartIsOwn
