\* Calls, lines and acts are bounded: a machine may come to its end.
SPECIFICATION AnySpec
CONSTANTS
  RingCap = 2
  RingBytes = 2
  RingPrints = 1
  PanelFrames = 2
  PanelCalls = 2
  PanelFaults = 1
  ScreenEvents = 3
  LineLen = 3
  OlderLines = 2
  NameLens = {1, 2}
  ByteWrap = 8
  Cap = 2
  Text = 3
  Note = 1
  Repeats = 2
  Limit = 2
  MaxLines = 4
  MirrorCap = 2
  MirrorActs = 2
  MirrorLosses = 1
INVARIANTS TypeOK 
PROPERTIES LockoutHolds 
CHECK_DEADLOCK FALSE
