SPECIFICATION FairSpec
CONSTANTS
  FallbackOn = TRUE
  MaxAttempts = 1
  AfterRestarts = 1
  InputBuffer = 1
  MaxFrames = 2
  MaxSwitches = 1
  Troubles <- FewTroubles
INVARIANTS
  StreamsApart
  AudioAccounted
PROPERTIES
  RunEnds
CHECK_DEADLOCK FALSE
