\* The terminal interface: prompts on one runner, whose future may be dropped, with compaction by size.
SPECIFICATION Spec
CONSTANTS
  MaxRetries = 1
  StreakLimit = 0
  NoticeInterval = 6
  Deadline = TRUE
  CanCancel = FALSE
  CanDrop = TRUE
  MaxCalls = 2
  MaxRequests = 2
  MaxRuns = 2
  MaxPressure = 2
INVARIANTS
  ConversationWellFormed
CHECK_DEADLOCK FALSE
