SPECIFICATION Spec
CONSTANTS
  Sessions = {s1}
  Clients = {c1}
  Options = {"captions"}
  MaxRuns = 2
  MaxAudio = 1
  MaxBoots = 1
INVARIANTS
  ClockSound
  CloseDrains
CHECK_DEADLOCK FALSE
