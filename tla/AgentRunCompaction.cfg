\* Long conversations: every compaction trigger, notice and the input guard.
SPECIFICATION Spec
CONSTANTS
  MaxRetries = 1
  StreakLimit = 1
  NoticeInterval = 1
  Deadline = TRUE
  CanCancel = TRUE
  CanDrop = FALSE
  MaxCalls = 1
  MaxRequests = 3
  MaxRuns = 1
  MaxPressure = 3
INVARIANTS
  ServerSeesConversation
CHECK_DEADLOCK FALSE
