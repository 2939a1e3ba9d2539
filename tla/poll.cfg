CONSTANTS
  j1 = j1
  j2 = j2
  j3 = j3
  j4 = j4
  Runs = {1, 2}
  Jobs = {j1, j2, j3, j4}
  RunOf <- FourJobs
  Roots = {j1, j2, j4}
  Labelled = {j1, j3, j4}
  PullRequests = {1}
  BranchOf <- SameName
  Registered <- Five
  MaxRuns = 1
  PerPage = 2
  MaxReruns = 1
  MaxFaults = 1
SPECIFICATION Spec
INVARIANTS QueueIsRead TakenJobIsFound NoRunnerIsSkipped
