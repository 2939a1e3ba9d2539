CONSTANTS
  p1 = p1
  p2 = p2
  r1 = r1
  r2 = r2
  Pools = {p1}
  Runners = {r1, r2}
  PoolOf <- OnePoolOf
  TargetOf <- OwnTarget
  PoolSpec <- SpecTwo
  MaxContainers = 3
  Tickers = {"daemon"}
  Operators = {}
  MaxQueued = 1
  MaxFaults = 2
  StoreLoss = TRUE
  NoPool = NoPool
  NoRunner = NoRunner
SPECIFICATION Spec
INVARIANTS BuildsSurvive SweepSparesTracked LaunchWithinPool
PROPERTIES ContainersAreOnRecord RowsFollowLifecycle
SYMMETRY SameIds
