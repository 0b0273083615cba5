SPECIFICATION MCSpec
CONSTANTS
  Repos <- One
  First = 1
  Installed = {}
  Stored = {}
  Cached <- CachedOne
  PageSize = 1
  MaxRetries = 1
  MaxClears = 2
  MaxSwitches = 0
  MaxTyped = 0
  MaxTabs = 0
  MaxLists = 2
  MaxFaults = 1
  MaxPollFails = 0
  MaxAdds = 1
  MaxTouches = 0
  MaxEvictions = 0
CHECK_DEADLOCK FALSE
INVARIANTS
  AllIsCleared
  DoneIsShown
PROPERTIES
  RoutesStayApart
  ClearIsSeenToEnd
