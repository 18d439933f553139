SPECIFICATION ClientFairSpec
CONSTANTS
  NoConn = NoConn
  NoPage = NoPage
  Conns = {c1, c2}
  Pages = {p1}
  MaxBuffered = 2
  Sizes = {1}
  FrameDuration = 2
  BufferFrames = 1
  StallThreshold = 1
  MaxTime = 4
  MaxAudio = 4
  MaxStarts = 0
INVARIANTS
  HeardInOrder
PROPERTIES
  ReadyFlows
CHECK_DEADLOCK FALSE
