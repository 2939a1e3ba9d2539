CONSTANTS
  Pools = {1, 2}
  Requests <- NoRequests
  Limits <- SomeLimits
  Loads <- SomeLoads
  Fleets <- SomeFleets
  Queues <- SomeQueues
  Interval = 1
  PassTime = 1
SPECIFICATION ViewSpec
INVARIANTS RowsAgree BlameIsTrue  ViewIsHonest
CHECK_DEADLOCK FALSE
