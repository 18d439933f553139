SPECIFICATION Spec
CONSTANTS
  NoConn = NoConn
  Conns = {c1, c2}
  Sizes = {1, 2}
  FrameDuration = 2
  BufferFrames = 1
  StallThreshold = 1
  MaxTime = 4
  MaxAudio = 2
  MaxStarts = 1
INVARIANTS
  NoLostWakeup
PROPERTIES
  FramesKept
CHECK_DEADLOCK FALSE
