------------------------------ MODULE MCFleet ------------------------------
(* Instances of Fleet for TLC.                                             *)
EXTENDS FleetProperties, TLC

CONSTANTS p1, p2, r1, r2

(* One pool, which all ids are drawn for. *)
OnePoolOf == [r \in Runners |-> p1]

(* Two pools with an id each. *)
TwoPoolsOf == [r \in Runners |-> IF r = r1 THEN p1 ELSE p2]

OwnTarget == [p \in Pools |-> p]

(* The shipped example: two pools on one repository. *)
SharedTarget == [p \in Pools |-> p1]

Dynamic(most, least, warm) ==
  [ pm |-> "dynamic", max_runners |-> most, min_idle |-> least, max_idle |-> warm,
    max_launch_per_tick |-> 2, idle_timeout |-> 0, max_job_duration |-> 0 ]

SpecOne == [p \in Pools |-> Dynamic(1, 0, NoCeiling)]
SpecTwo == [p \in Pools |-> Dynamic(2, 1, 1)]

SameIds == Permutations(Runners)

(* The two pools are alike, and each takes its id along. *)
SamePools ==
  {f \in Permutations(Pools \cup Runners) :
     \A r \in Runners : f[r] \in Runners /\ PoolOf[f[r]] = f[PoolOf[r]]}
=============================================================================
