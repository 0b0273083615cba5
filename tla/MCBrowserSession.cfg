SPECIFICATION MCSpec
CONSTANTS
  t1 = t1
  t2 = t2
  Tabs = {t1}
  Users = {u1, u2}
  NoUser = NoUser
  SignIns = {"password"}
  Calls = {"query"}
  MaxTokens = 2
  MaxRequests = 2
  MaxLoads = 2
  MaxFailures = 2
  MaxRevokes = 1
CHECK_DEADLOCK FALSE
INVARIANTS
  CacheBelongsToUser
  TabsShowTheChosen
PROPERTIES
  OneSignInWorks
