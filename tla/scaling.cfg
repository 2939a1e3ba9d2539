CONSTANTS
  Ids = {r1, r2, r3}
  Specs <- SomeSpecs
  MaxAge = 2
  MaxJobs = 3
SPECIFICATION SnapshotSpec
INVARIANTS FloorIsKept QueueIsCovered PlanFitsPool PlanSettles
SYMMETRY SameIds
