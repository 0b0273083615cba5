SPECIFICATION MCSpec
CONSTANTS
  Sessions = {1, 2, 3}
  Inserting <- Third
  Styled <- Odd
  Jsx = FALSE
  Source <- Siblings
  Picked = {1, 2}
  Nesting = FALSE
  Count = 2
  Edits = {}
CHECK_DEADLOCK FALSE
INVARIANTS
  FileComesBack
  HooksTell
PROPERTIES
  OthersEditsStay
  GateLetsGo
