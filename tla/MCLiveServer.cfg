SPECIFICATION MCSpec
CONSTANTS
  s1 = s1
  Sessions = {s1}
  Steers = {m1}
  Variants = {1}
  Clients = {c1}
  Lease = 1
  MaxHeld = 2
  MaxForgets = 0
  MaxLost = 0
  MaxRevision = 0
  MaxAnonymous = 1
  MaxRestarts = 1
CHECK_DEADLOCK FALSE
INVARIANTS
  PendingIsInQueue
PROPERTIES
  AgentGetsEvents
