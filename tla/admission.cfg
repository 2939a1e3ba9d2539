CONSTANTS
  Pools = {1, 2, 3}
  Requests <- SomeRequests
  Limits <- SomeLimits
  Loads <- SomeLoads
SPECIFICATION FairSpec
INVARIANTS CeilingsHold NothingIsWasted SharesAreProportional RoomIsUsedUp
PROPERTIES CallEnds
CHECK_DEADLOCK FALSE
