\* One run per client, as the desktop server and one-shot runs use it, with compaction by size.
SPECIFICATION FairSpec
CONSTANTS
  MaxRetries = 1
  StreakLimit = 0
  NoticeInterval = 6
  Deadline = TRUE
  CanCancel = TRUE
  CanDrop = FALSE
  MaxCalls = 2
  MaxRequests = 2
  MaxRuns = 1
  MaxPressure = 2
INVARIANTS
  TypeOK
  AttemptsBounded
PROPERTIES
  AnswerIsForThisRequest
  NoRetryAfterText
  CancelledStartsNothing
  ImplementsProtocol
  RunEnds
\* The system stops when its one prompt was worked on.
CHECK_DEADLOCK FALSE
