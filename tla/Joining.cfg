\* Three requests about the agreement, one query, one start or stop of the task.
SPECIFICATION Spec
CONSTANTS
  home = home
  m1 = m1
  m2 = m2
  Home = home
  Members <- MCMembers
  Leavers = {m1}
  MaxRequests = 3
  MaxOpen = 2
  MaxQueries = 1
  MaxChanges = 1
INVARIANTS DeleteHolds OnlyCrossingCrashes
PROPERTIES FollowsTheMembers JoinEnds
CHECK_DEADLOCK FALSE
