\* Every kind of runner, two files, one change of each place.
SPECIFICATION Spec
CONSTANTS
  f1 = f1
  f2 = f2
  Files = {f1, f2}
  Fleet <- Everyone
  CanDrop = TRUE
  Others = TRUE
  MaxVersion = 1
INVARIANTS
  CacheFresh
  BudgetRespected
  OfferedToolsAreUsable
PROPERTY WritesAreAuthorised
