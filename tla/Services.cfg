INIT Init
NEXT Next

CONSTANTS
  AsrSendEvery = 2
  AsrResend = 2
  AsrMaxBuffer = 3
  AsrMaxRetries = 1
  AsrMaxFrames = 5
  AsrMaxConns = 4
  AsrMaxFails = 2
  PreRoll = 1
  Pause = 2
  SilenceTail = 1
  MinSpeech = 2
  MaxUtterance = 4
  InterimEvery = 1
  CutSearch = 2
  CutKeep = 1
  FinalRetries = 1
  MaxWindows = 7
  ApiKeys = {good, bad}
  GoodKeys = {good}
  NoKey = none
  HasKeychain = TRUE
  HasFile = TRUE
  KeyRequests = {q1, q2}
  MaxKeyCalls = 2
  MaxFaults = 1
  Downloaders = {r1, r2}
  ModelBlocks = 2
  MaxAttempts = 2
  MaxFetches = 2
  MaxRestarts = 1
  CALife = 2
  LeafLife = 1
  MaxTime = 2
  MaxPairs = 5
  MaxVersions = 3
  Publishers = {p1, p2}
  EventBuffer = 2
  MaxChanges = 3
  MaxPages = 2
  Words <- FiveWords
  MaxCharsPerLine = 5
  MaxLines = 2
  MinDuration = 833
  MaxDuration = 7000
  CaptionTimes <- FourCaptionTimes
  MaxWords = 4
  QuickFailure = 2
  MaxOpens = 4
  MaxSrtFrames = 2
  MaxSrtTime = 2
  ObsSenders = {o1, o2}
  ObsCues = 2
  CueSteps = {0, 3}
  MinGap = 2
  MaxGap = 3
  MaxObsItems = 1
  MaxSent = 3
  MaxObsTime = 4
  LoginRequests = {l1, l2}
  Pins = {pinA, pinB}
  NoPin = noPin
  SessionTTL = 2
  MaxFailures = 2
  FailureWindow = 2
  MaxLogins = 3
  MaxLoginTime = 3

INVARIANTS
  StreamSound
  InterimsEnd
  VerdictsTrue
  VerifiedFetch
  TrustKept
  ReloadMissesNothing
  PageNotBehind
  CuesSound
  SourceGoesOn
  ShownInTurn
  LoginsHold

CHECK_DEADLOCK FALSE
