\* The parts may stop.
SPECIFICATION Spec
CONSTANTS
    MaxEvents = 7
    MaxRetries = 1
    MaxCalls = 2
    Prompts = {"fix", "test"}
    HistoryLimit = 2
    MaxScroll = 1
    Heights = {0, 1, 4, 7, 12}
    MaxMessages = 3
    MaxBack = 3
INVARIANTS
    PartsAreWellFormed
    PositionsNameTheirRow
    StatsBelongToAnswer
    ClickTakesWhatIsSeen
CHECK_DEADLOCK FALSE
