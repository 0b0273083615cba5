SPECIFICATION MCSpec
CONSTANTS
  Tabs = {"left", "right"}
  AskedSaves = FALSE
  MaxAttempts = 1
  NoRunner = FALSE
  MaxSaves = 3
  MaxCommits = 3
  MaxRollbacks = 0
  MaxReloads = 0
  MaxDiscards = 1
CHECK_DEADLOCK FALSE
INVARIANTS
  CountIsStaged
  ControlsFit
PROPERTIES
  ApplyingEnds
