INIT Init
NEXT Next
CONSTANTS
  t1 = t1
  t2 = t2
  HistorySize = 3
  Segments <- FourSegments
  Texts <- TwoTexts
  Editors = {a1}
  Lag = 1
  MaxEvents = 5
  MaxEdits = 1
  MaxBoots = 1
  PageSegments <- ThreeSegments
  PageLimit = 1
  MaxPages = 3
  StartTimes <- ThreeStarts
  MaxPageWrites = 1
  AdminRequests = {q1, q2}
  AdminSessions = {s1, s2}
  Glossaries = {g1}
  NoGlossary = none
  SrtPorts = {1, 2}
  DefaultPort = 1
  LastPort = 2
  MaxPorts = 2
  MaxAdminCalls = 3
  SecretCalls = {c1, c2}
  SecretNames = {n1, n2}
  MaxSecretSaves = 3
  GemmaCalls = {d1, d2}
  GemmaModels = {m1, m2}
  Concurrency = 1
  Retries = 1
  GeminiCalls = {e1, e2}
  GoogleKeys = {k1, k2}
  NoKey = nokey
  ConfigTTL = 2
  MaxTranslateTime = 3
  BenchCalls = {b1, b2}
  RuntimeCalls = {h1, h2}
  ClipFrames = 2
  RuntimesTTL = 2
  ProbeTime = 1
  MaxBenchmarks = 3
  MaxCheckTime = 5
  MaxRequests = 2
  LiveConns = {l1, l2}
  Transcripts <- TwoHeard
  PinnedLanguage = ""
  MinSentenceChars = 4
  MaxSegmentChars = 8
  FirstWordsLag = 1
  PerWord = 0
  MaxAudioClock = 2
  MaxSegments = 3
  HttpRequests = {r1}
  ScrapeCalls = {u1, u2}
  Families <- FourFamilies
  BucketBounds <- TwoBounds
  Durations = {1, 3}
  MaxObserved = 1
  PresetCalls = {x1, x2, x3}
  PresetNames <- Boxes
  PresetSymbols = {"!", "-"}
  MaxSlugWords = 3
  Numerals <- SixNumerals
  o1 = o1
  o2 = o2
  Openers = {o1, o2}
  Embedded <- TwoReleases
  MaxReopens = 2
INVARIANTS
  BusShowsStore
  PagesWhole
  SavedSound
  SecretsWhole
  CallsFit
  ProcessSound
  SegmentsWhole
PROPERTIES
  HistorySpec
CHECK_DEADLOCK FALSE
