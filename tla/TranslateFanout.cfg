SPECIFICATION FairSpec
CONSTANTS
  HistorySize = 2
  Segments = {1, 2, 3}
  Texts = {1, 2}
  Targets = {"es"}
  Languages = {"en", "es"}
  ContextSentences = 1
  Streaming = TRUE
  MaxPushes = 5
PROPERTIES
  TrackKept
  CloseReturns
CHECK_DEADLOCK FALSE
