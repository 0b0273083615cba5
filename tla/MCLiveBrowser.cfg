SPECIFICATION MCSpec
CONSTANTS
  Sessions = {"one", "two"}
  Steers = {"steer"}
  Count = 2
  MaxToggles = 2
  MaxReloads = 0
  MaxDrops = 0
  MaxFailures = 0
  MaxErrors = 1
  MaxBare = 0
  HotUpdates = TRUE
  MaxTimeouts = 0
CHECK_DEADLOCK FALSE
PROPERTIES
  UndecidedStays
  DecidedStays
  WaitsAreDue
  WaitsEnd
