\* Two run ids for two requests; input ends or fails at any time.
SPECIFICATION FairSpec
CONSTANTS
  RunIds = {a, b}
  CanPanic = TRUE
  MaxRequests = 2
  MaxCancels = 2
  MaxDeltas = 1
INVARIANTS
  StreamsWellFormed
  CompletedRunsAreKept
  ShutdownIsClean
PROPERTY EveryRequestIsAnswered
\* A server that stopped or failed does nothing.
CHECK_DEADLOCK FALSE
