----------------------------- MODULE MCScaling -----------------------------
(* An instance of PoolSnapshots for TLC: three runners, and a spec for     *)
(* each process manager, with and without a warm ceiling.                  *)
EXTENDS PoolSnapshots, TLC

Managed(manager, most, least, warm, burst) ==
  [ pm |-> manager, max_runners |-> most, min_idle |-> least, max_idle |-> warm,
    max_launch_per_tick |-> burst, idle_timeout |-> 1, max_job_duration |-> 1 ]

SomeSpecs ==
  { Managed("dynamic", 3, 1, NoCeiling, 3), Managed("dynamic", 3, 1, 2, 1),
    Managed("dynamic", 2, 0, 0, 2), Managed("ondemand", 3, 1, NoCeiling, 2),
    Managed("static", 2, 0, 1, 2) }

SameIds == Permutations(Ids)
=============================================================================
