\* The parts may stop.
SPECIFICATION Spec
CONSTANTS
    MaxEdits = 2
    MaxSeq = 2
    MaxRequests = 3
    MaxLog = 3
    MaxRun = 2
    Agents = {"agent", "worker"}
    Limit = 2
    PageChars = 6
    MaxCalls = 2
    MaxLines = 3
    Paths <- WorkspacePaths
    Trees <- WorkspaceTrees
    Matching <- MatchingLines
    Ignored <- IgnoredPaths
    Linked <- LinkedFile
    Reference <- ReferencePaths
    Moves <- WorkspaceMoves
    MaxLimit = 3
    MaxDepth = 2
    MaxDirs = 4
    MaxFiles = 2
    MaxChanges = 1
INVARIANTS
    RunnerIsConsistent
    GoalRunIsCounted
    PagesCoverTheFile
    ChangesAreAsPlanned
    NothingIsLeftOutSilently
CHECK_DEADLOCK FALSE
