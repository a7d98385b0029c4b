\* Two prompts on one runner, the first of which is dropped while it waits.
SPECIFICATION Spec
CONSTANTS
  MaxRetries = 0
  StreakLimit = 0
  NoticeInterval = 0
  Deadline = FALSE
  CanCancel = FALSE
  CanDrop = TRUE
  MaxCalls = 1
  MaxRequests = 3
  MaxRuns = 2
  MaxPressure = 0
INVARIANT ServerSeesConversation
CHECK_DEADLOCK FALSE
