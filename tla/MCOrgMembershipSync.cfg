SPECIFICATION MCSpec
CONSTANTS
  Logins = {1, 2}
  PageSize = 2
  InOrder = TRUE
  MayLose = FALSE
  MaxChanges = 3
  MaxJobs = 2
CHECK_DEADLOCK FALSE
INVARIANTS
  TableInStep
PROPERTIES
  RosterMends
  InvitesLetIn
  LoginsFollowGithub
