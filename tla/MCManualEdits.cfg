SPECIFICATION MCSpec
CONSTANTS
  Pages = {"home"}
  Refs <- TwoRefs
  PageOf <- OnePage
  FileOf <- OneFile
  MaxText = 1
  ChunkOps = 1
  MaxAttempts = 1
  LateTab = FALSE
  Careless = TRUE
  MaxHeld = 1
  MaxSaves = 2
  MaxCommits = 2
  MaxTimeouts = 6
  MaxDiscards = 0
  MaxRestarts = 0
CHECK_DEADLOCK FALSE
INVARIANTS
  SourceIsAsAgreed
PROPERTIES
  EditsLeaveWhenWritten
  CommitsEnd
