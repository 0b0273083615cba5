SPECIFICATION MCSpec
CONSTANTS
  c1 = c1
  c2 = c2
  Deliveries <- TwinDeliveries
  Kind <- KindOf
  Guid <- GuidOf
  Tenant <- TenantOf
  Tenants = {"t"}
  NoTenant = NoTenant
  Consumers = {c1}
  MaxAttempts = 2
  BatchSize = 1
  StreamCap = 2
  MaxFaults = 2
  MaxCopies = 0
  MaxAge = 2
  MaxReconciles = 0
INVARIANTS
  CountMatchesEvents
  AckAfterCommit
  NewestEventWins
PROPERTIES
  NothingGoesBack
  AllSettle
