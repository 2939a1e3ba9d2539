--------------------------- MODULE ScalingPolicy ---------------------------
(***************************************************************************)
(* plan_scaling (domain/policy/scaling.py): how many runners one pool      *)
(* should start, and which it should take down, from one snapshot.         *)
(*                                                                         *)
(* A pool is a view v: v.state gives each of its runners a state, v.age    *)
(* the time it has spent there.  A spec is the part of PoolSpec the policy *)
(* reads.  Sorting by idle_for leaves ties to the order of a dict, so a    *)
(* choice among the longest idle is a SET of possible choices here.        *)
(***************************************************************************)
EXTENDS RunnerStates, Integers, FiniteSets

(* max_idle = None: the pool has no warm ceiling.                          *)
NoCeiling == -1

ProcessManager == {"static", "dynamic", "ondemand"}

(* What PoolSpec.__post_init__ and the settings parser let through.        *)
IsPoolSpec(spec) ==
  /\ spec.pm \in ProcessManager
  /\ spec.max_runners \in Nat \ {0}
  /\ spec.min_idle \in 0 .. spec.max_runners
  /\ spec.max_idle \in Int
  /\ spec.max_idle = NoCeiling \/ spec.max_idle >= spec.min_idle
  /\ spec.max_launch_per_tick \in Nat \ {0}
  /\ spec.idle_timeout \in Nat
  /\ spec.max_job_duration \in Nat

IsPoolView(v) ==
  /\ IsFiniteSet(DOMAIN v.state)
  /\ v.state \in [DOMAIN v.state -> RunnerState]
  /\ v.age \in [DOMAIN v.state -> Nat]

AtLeastZero(n) == IF n < 0 THEN 0 ELSE n
LesserOf(m, n) == IF m < n THEN m ELSE n

-----------------------------------------------------------------------------
(* _warm_band *)
Floor(spec) ==
  CASE spec.pm = "static"   -> spec.max_runners
    [] spec.pm = "ondemand" -> 0
    [] spec.pm = "dynamic"  -> spec.min_idle

WarmCeiling(spec) == IF spec.pm = "dynamic" THEN spec.max_idle ELSE NoCeiling

ReapsIdle(spec) == spec.pm # "static"

InState(v, S) == {r \in DOMAIN v.state : v.state[r] \in S}

Overrunning(spec, v) ==
  {r \in InState(v, {"busy", "draining"}) : v.age[r] > spec.max_job_duration}

Available(spec, v) == InState(v, AvailableStates) \ Overrunning(spec, v)

Active(v) == InState(v, ActiveStates)

Idle(v) == InState(v, {"idle"})

-----------------------------------------------------------------------------
(* The launch half of the plan; servable is how many queued jobs the pool  *)
(* can serve.                                                              *)
Uncovered(spec, v, servable) ==
  AtLeastZero(servable - Cardinality(Available(spec, v)))

WarmShortfall(spec, v, servable) ==
  LET spare == Cardinality(Available(spec, v)) + Uncovered(spec, v, servable) - servable
  IN  AtLeastZero(Floor(spec) - spare)

(* As a bug would have it: the queue is forgotten.                         *)
WarmWanted(spec, v, servable) == WarmShortfall(spec, v, servable)

Wanted(spec, v, servable) ==
  Uncovered(spec, v, servable) + WarmShortfall(spec, v, servable)

(* As a bug would have it: a runner on a job takes no place.               *)
AvailableHeadroom(spec, v) ==
  AtLeastZero(spec.max_runners - Cardinality(Available(spec, v)))

Headroom(spec, v) ==
  AtLeastZero(spec.max_runners
              - (Cardinality(Active(v)) - Cardinality(Overrunning(spec, v))))

Launch(spec, v, servable) ==
  LesserOf(LesserOf(Wanted(spec, v, servable), Headroom(spec, v)),
           spec.max_launch_per_tick)

-----------------------------------------------------------------------------
(* The n members of R idle the longest; and, as a bug would have it, the   *)
(* sort the other way round.                                               *)
ShortestIdle(v, R, n) ==
  {T \in SUBSET R :
     /\ Cardinality(T) = n
     /\ \A r \in T, s \in R \ T : v.age[r] <= v.age[s]}

LongestIdle(v, R, n) ==
  {T \in SUBSET R :
     /\ Cardinality(T) = n
     /\ \A r \in T, s \in R \ T : v.age[r] >= v.age[s]}

(* How many idle runners the floor can spare; and one too many.            *)
OneTooMany(spec, v) == AtLeastZero(Cardinality(Idle(v)) - Floor(spec) + 1)

Disposable(spec, v) == AtLeastZero(Cardinality(Idle(v)) - Floor(spec))

(* _idle_beyond_timeout: of the longest idle, all but the floor, those past *)
(* the timeout.                                                            *)
BeyondTimeout(spec, v) ==
  {{r \in T : v.age[r] > spec.idle_timeout} :
     T \in LongestIdle(v, Idle(v), Disposable(spec, v))}

(* _above_the_warm_ceiling, given those already going.                     *)
AboveCeiling(spec, v, going) ==
  LET warm == Idle(v) \ going
  IN  IF WarmCeiling(spec) = NoCeiling
        THEN {{}}
        ELSE LongestIdle(v, warm, AtLeastZero(Cardinality(warm) - WarmCeiling(spec)))

(* Nothing is reaped while jobs wait.                                      *)
MayReap(spec, servable) == servable = 0 /\ ReapsIdle(spec)

(* Every set of idle runners plan_scaling may retire.                      *)
Retire(spec, v, servable) ==
  IF MayReap(spec, servable)
    THEN UNION {{going \cup surplus : surplus \in AboveCeiling(spec, v, going)} :
                  going \in BeyondTimeout(spec, v)}
    ELSE {{}}

Terminate(spec, v) == Overrunning(spec, v)
=============================================================================
