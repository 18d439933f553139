SPECIFICATION Spec
CONSTANTS
  Sessions = {s1}
  Clients = {c1, c2}
  Options = {}
  MaxRuns = 2
  MaxAudio = 0
  MaxBoots = 0
INVARIANTS
  OnePipeline
  DoneSettled
PROPERTIES
  StopWins
  LifecycleSpec
CHECK_DEADLOCK FALSE
