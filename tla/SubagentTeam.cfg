\* Three ids for two slots, with dropped waits.
SPECIFICATION FairSpec
CONSTANTS
  MaxConcurrency = 2
  CanDrop = TRUE
  MaxSpawns = 3
INVARIANTS
  StateTellsTask
PROPERTIES
  VerdictsAreFinal
  ClosedTeamStops
  ImplementsPool
\* A closed team whose tasks ended does nothing.
CHECK_DEADLOCK FALSE
