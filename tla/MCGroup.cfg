SPECIFICATION FairSpec
CONSTANTS
  None = None
  Bare = Bare
  Endings <- Ends
  MaxRequests = 2
  MaxCrashes = 1
INVARIANTS
  GroupTypeOK
PROPERTIES
  FinishesOnFreshReport
  LaunchesAsAsked
  RunningGroupsSettle
CHECK_DEADLOCK FALSE
