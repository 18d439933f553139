SPECIFICATION Spec
CONSTANTS
  Urls = {u1}
  NoUrl = noUrl
  MaxRuns = 2
  Plans <- FewPlans
  QueueSize = 2
  SeenSize = 1
  MaxReceived = 2
INVARIANTS
  CaptionsDelivered
CHECK_DEADLOCK FALSE
