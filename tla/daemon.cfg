CONSTANTS
  p1 = p1
  p2 = p2
  r1 = r1
  r2 = r2
  Pools = {p1, p2}
  Runners = {r2}
  PoolOf <- OneEach
  Files <- Edits
  Rounds <- EitherWay
  HasApi = TRUE
  HasDefault = FALSE
  MaxFaults = 1
SPECIFICATION FairSpec
INVARIANTS ContainersAreAccounted FleetGoesWithDaemon
PROPERTIES StopIsHeeded SignalledFileIsInForce
