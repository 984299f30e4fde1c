CONSTANTS
  dec = dec
  cvu = cvu
  pcie = pcie
  s1 = s1
  s2 = s2
  Elements = {cvu, pcie}
  Streams = {s1}
  NFrames = 2
  PluginsCount = 2
  Threshold = 1
  MaxGap = 1
  MaxCommands = 1
  MaxLost = 0
  MayFinalize = TRUE
  NoStream = NoStream
  StreamOf <- OneStream
  KindOf <- Kind
SPECIFICATION FairSpec
INVARIANTS StartIsOwn SingleMessage NothingRunsAfterFree PublishedListExists ReportedOnce CompleteIsReported
PROPERTIES FinalizeReturns ImplementsReport
CHECK_DEADLOCK FALSE
