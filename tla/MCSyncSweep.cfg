SPECIFICATION Spec
CONSTANTS
  Tenants = {"t1"}
  Replicas = {"r1"}
  Healthy = {"t1"}
  Kind = "activity"
  MaxTries = 1
  MaxInstalls = 0
  MaxUninstalls = 1
  MaxCrashes = 0
INVARIANT PurgedStaysPurged
