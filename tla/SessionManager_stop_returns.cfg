SPECIFICATION FairSpec
CONSTANTS
  Sessions = {s1}
  Clients = {c1}
  Options = {}
  MaxRuns = 1
  MaxAudio = 0
  MaxBoots = 1
PROPERTIES
  StopReturns
CHECK_DEADLOCK FALSE
