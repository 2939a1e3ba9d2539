--------------------------- MODULE PoolSnapshots ---------------------------
(***************************************************************************)
(* The scaling policy over every snapshot a pool can show it: runners come *)
(* up, move along their state table, grow old and go, jobs queue and are   *)
(* taken, and a reload changes the spec under the pool.  The properties    *)
(* are the policy's promises (docs/reference/architecture/scaling.md and   *)
(* the docstring of plan_scaling), each for every plan it may make.        *)
(***************************************************************************)
EXTENDS ScalingPolicy

CONSTANTS
  Ids,       (* the runners a pool may hold                                *)
  Specs,     (* the pool specs under test                                  *)
  MaxAge,    (* bound on a runner's time in its state                      *)
  MaxJobs    (* bound on the queue                                         *)

ASSUME SnapshotAssumption ==
  /\ IsFiniteSet(Ids)
  /\ \A s \in Specs : IsPoolSpec(s)
  /\ MaxAge \in Nat
  /\ MaxJobs \in Nat

VARIABLES
  spec,      (* the configured spec                                        *)
  view,      (* the pool: a state and an age for each of its runners       *)
  jobs       (* queued jobs this pool can serve                            *)

snapshotVars == <<spec, view, jobs>>

Known == DOMAIN view.state

(* RunnerPool.admit lets no pool be assembled with more.                   *)
FitsPool(s, v) == Cardinality(Active(v)) <= s.max_runners

Views == UNION {[state : [K -> RunnerState], age : [K -> 0 .. MaxAge]] : K \in SUBSET Ids}

SnapshotInit ==
  /\ spec \in Specs
  /\ view = [state |-> <<>>, age |-> <<>>]
  /\ jobs = 0

(* A runner is admitted to the pool, in whatever state it was found.       *)
Appear(r) ==
  /\ r \in Ids \ Known
  /\ \E s \in RunnerState :
       LET v == [ state |-> [i \in Known \cup {r} |-> IF i = r THEN s ELSE view.state[i]],
                  age   |-> [i \in Known \cup {r} |-> IF i = r THEN 0 ELSE view.age[i]] ]
       IN  FitsPool(spec, v) /\ view' = v
  /\ UNCHANGED <<spec, jobs>>

Move(r) ==
  /\ r \in Known
  /\ \E s \in Transitions[view.state[r]] :
       view' = [view EXCEPT !.state[r] = s, !.age[r] = 0]
  /\ UNCHANGED <<spec, jobs>>

GrowOld(r) ==
  /\ r \in Known
  /\ view.age[r] < MaxAge
  /\ view' = [view EXCEPT !.age[r] = @ + 1]
  /\ UNCHANGED <<spec, jobs>>

(* The snapshot without R.                                                 *)
Without(v, R) ==
  [ state |-> [r \in DOMAIN v.state \ R |-> v.state[r]],
    age   |-> [r \in DOMAIN v.state \ R |-> v.age[r]] ]

Leave(r) ==
  /\ r \in Known
  /\ view' = Without(view, {r})
  /\ UNCHANGED <<spec, jobs>>

Queue ==
  /\ jobs < MaxJobs
  /\ jobs' = jobs + 1
  /\ UNCHANGED <<spec, view>>

Unqueue ==
  /\ jobs > 0
  /\ jobs' = jobs - 1
  /\ UNCHANGED <<spec, view>>

Reload ==
  /\ \E s \in Specs : FitsPool(s, view) /\ spec' = s
  /\ UNCHANGED <<view, jobs>>

SnapshotNext ==
  \/ \E r \in Ids : Appear(r) \/ Move(r) \/ GrowOld(r) \/ Leave(r)
  \/ Queue \/ Unqueue \/ Reload

SnapshotSpec == SnapshotInit /\ [][SnapshotNext]_snapshotVars

-----------------------------------------------------------------------------
(* The snapshot is one the policy is made for.                             *)
TypeOK ==
  /\ spec \in Specs
  /\ view \in Views
  /\ jobs \in 0 .. MaxJobs
  /\ FitsPool(spec, view)

(* "A plan never launches and reaps at once" (scaling.md): whichever of    *)
(* the idle it may choose to reap, it starts none in the same plan.        *)
NeverLaunchesAndReaps ==
  \A R \in Retire(spec, view, jobs) : R # {} => Launch(spec, view, jobs) = 0

(* Reaping never takes the warm runners below the floor, by timeout and    *)
(* ceiling together, and never takes one that is not idle.                 *)
FloorIsKept ==
  \A R \in Retire(spec, view, jobs) :
    /\ R \subseteq Idle(view)
    /\ R # {} => Cardinality(Idle(view)) - Cardinality(R) >= Floor(spec)

(* Every queued job and the floor on top of it are covered, as far as      *)
(* max_runners and max_launch_per_tick let them be.                        *)
QueueIsCovered ==
  LET n == Launch(spec, view, jobs) IN
  \/ n + Cardinality(Available(spec, view)) >= jobs + Floor(spec)
  \/ n = spec.max_launch_per_tick
  \/ n + Cardinality(Active(view) \ Terminate(spec, view)) >= spec.max_runners

(* Once the plan is carried out the pool is within max_runners: a place    *)
(* is counted as free only when its runner is being terminated.            *)
PlanFitsPool ==
  Launch(spec, view, jobs) + Cardinality(Active(view) \ Terminate(spec, view))
    <= spec.max_runners

(* A plan carried out leaves nothing to undo: on the pool without those it *)
(* took down, the next plan starts no replacement for them, reaps nothing  *)
(* more, and nobody above the floor stays warm past the timeout.           *)
PlanSettles ==
  \A R \in Retire(spec, view, jobs) :
    LET rest == Without(view, R \cup Terminate(spec, view)) IN
    /\ Launch(spec, rest, jobs) = Launch(spec, view, jobs)
    /\ Retire(spec, rest, jobs) = {{}}
    /\ MayReap(spec, jobs) =>
         \/ Cardinality(Idle(rest)) <= Floor(spec)
         \/ \A r \in Idle(rest) : rest.age[r] <= spec.idle_timeout
=============================================================================
