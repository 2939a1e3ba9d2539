CONSTANTS
  r1 = r1
  t1 = t1
  t2 = t2
  nobody = nobody
  Runners = {r1}
  Nobody = nobody
  Tasks = {t1, t2}
  KeepLast = 0
  MaxTime = 1
  MaxEvents = 3
  MaxFaults = 1
SYMMETRY Alike
SPECIFICATION Spec
INVARIANTS StoryIsTold ReportAddsUp
PROPERTIES LogsAreKept OnlyStaleSavesReopen
