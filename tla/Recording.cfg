SPECIFICATION Spec
CONSTANTS
  Deleters = {d1, d2}
  Chunk = 3
  MaxGap = 1
  Buffer = 1
  ProbeWorks = TRUE
  MaxSkip = 2
  MaxTime = 6
  MaxRuns = 2
  MaxChunks = 3
  Plans <- FewPlans
SYMMETRY Alike
INVARIANTS
  RecordingsTrue
  FoundIsStopped
CHECK_DEADLOCK FALSE
