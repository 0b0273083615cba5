CONSTANTS
  JobIds = {1}
  Workers = {w1, w2}
  MaxRetries = 2
  MaxFaults = 2
  NoJob = NoJob
  NoOwner = NoOwner
  DeadSession = DeadSession
SPECIFICATION FairSpec
INVARIANTS
  LiveHandlersExclusive
  ResultOfLastClaim
PROPERTIES
  ImplementsLifecycle
  EveryJobSettles
