\* The programs end, and the bounds stop the others.
SPECIFICATION Spec
CONSTANTS
    Servers = {"a", "b"}
    Tools = {"t.x", "t_x"}
    Local <- LocalName
    Http = {"b"}
    MaxIds = 2
    Ids = {1, 2}
    MaxInput = 2
    MaxFaults = 2
    MaxBody = 2
    Logins = {1}
    Runners = {3, 4}
    MaxTokens = 3
    Skills = {"a", "b"}
    MaxRuns = 2
    MaxTurns = 2
    MaxHistory = 4
    MaxScanned = 3
    Stored <- StoredSessions
    MaxFiles = 6
    MaxRestarts = 1
    MaxDay = 3
    Limit = 2
    MaxMoves = 1
INVARIANTS
    AnswersAreToTheCall
    CancelledCallsAreToldAndAnswered
    ReportTellsTheRun
    EachTurnCountsOnce
    AnalysisTellsTheRun
    PurgeKeepsTheRest
PROPERTIES
    UnspentIsSaved
    UsersFilesAreKept
CHECK_DEADLOCK FALSE
