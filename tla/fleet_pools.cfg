CONSTANTS
  p1 = p1
  p2 = p2
  r1 = r1
  r2 = r2
  Pools = {p1, p2}
  Runners = {r1, r2}
  PoolOf <- TwoPoolsOf
  TargetOf <- SharedTarget
  PoolSpec <- SpecOne
  MaxContainers = 1
  Tickers = {"daemon"}
  Operators = {"operator"}
  MaxQueued = 1
  MaxFaults = 0
  StoreLoss = FALSE
  NoPool = NoPool
  NoRunner = NoRunner
SPECIFICATION Spec
INVARIANTS Safety CeilingWithoutFaults
SYMMETRY SamePools
