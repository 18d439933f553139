SPECIFICATION ViewerSpec
CONSTANTS
  t1 = t1
  t2 = t2
  HistorySize = 2
  HistoryN = 1
  Segments = {1, 2}
  Texts <- TwoTexts
  Languages = {"source"}
  Track = "source"
  Subscribers = {b1, b2}
  Publishers = {p1}
  Published <- Reduced
  Buffer = 1
  Objects = 2
  MaxPublished = 3
  MaxFinals = 2
INVARIANTS
  RecentShown
  Reachable
  ViewersTold
CHECK_DEADLOCK FALSE
