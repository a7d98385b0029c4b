SPECIFICATION Spec
CONSTANTS
    Names = {1, 2}
    Procs = {p1}
    p1 = p1
    Retention = 0
    BackupRetention = 1
    MinKeep = 1
    MaxTime = 2
    MaxTurns = 3
INVARIANTS
    StoredAsShown
    TurnsAreKept
