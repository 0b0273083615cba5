SPECIFICATION MCSpec
CONSTANTS
  Orgs = {"o1", "o2"}
  Replicas <- Pair
  MaxPerTick = 1
  LongScans = FALSE
  TokenErrors = TRUE
  MaxChanges = 2
  MaxManual = 0
  MaxCrashes = 1
INVARIANTS
  OneScan
  DropIsReal
  SettingsAreRecent
PROPERTIES
  SweepsTakeTurns
