--------------------------- MODULE ScalingProofs ---------------------------
(***************************************************************************)
(* The scaling policy's promises, for every spec the configuration lets    *)
(* through, any number of runners, any ages and any queue (SnapshotSpec,   *)
(* of PoolSnapshots); and then that what the configuration lets through is *)
(* such a spec, however the file is edited (Spec, of Settings).            *)
(***************************************************************************)
EXTENDS PoolSnapshots, Settings, PolicyLemmas, SequenceTheorems, WellFoundedInduction

(* A typed snapshot is a view and a spec plan_scaling is defined for.      *)
LEMMA ViewIsPoolView ==
  ASSUME TypeOK
  PROVE  /\ IsPoolView(view)
         /\ IsPoolSpec(spec)
         /\ jobs \in Nat
         /\ Known \subseteq Ids
         /\ view \in [state : [Known -> RunnerState], age : [Known -> 0 .. MaxAge]]
<1>1. PICK K \in SUBSET Ids : view \in [state : [K -> RunnerState], age : [K -> 0 .. MaxAge]]
  BY DEF TypeOK, Views
<1>2. Known = K
  BY <1>1 DEF Known
<1>3. IsFiniteSet(K)
  BY <1>1, FS_Subset, SnapshotAssumption
<1>4. view.age \in [K -> Nat]
  BY <1>1, SnapshotAssumption
<1> QED BY <1>1, <1>2, <1>3, <1>4, SnapshotAssumption DEF TypeOK, IsPoolView, Known

(* A pool that loses active runners still fits its ceiling.                *)
LEMMA FewerStillFit ==
  ASSUME NEW s, IsPoolSpec(s), NEW v, IsPoolView(v), NEW w, FitsPool(s, v),
         Active(w) \subseteq Active(v)
  PROVE  FitsPool(s, w)
<1>1. IsFiniteSet(Active(v)) /\ Cardinality(Active(v)) \in Nat
  BY GroupsNest
<1>2. Active(w) \in SUBSET Active(v)
  OBVIOUS
<1>3. Cardinality(Active(w)) <= Cardinality(Active(v)) /\ Cardinality(Active(w)) \in Nat
  BY <1>1, <1>2, FS_Subset, FS_CardinalityType
<1>4. s.max_runners \in Nat
  BY SpecIsTyped
<1> QED BY <1>1, <1>3, <1>4 DEF FitsPool

(* Every snapshot the policy is shown is one of a pool within its ceiling  *)
(* (RunnerPool.admit), whatever comes, moves, goes or is reloaded.         *)
THEOREM SnapshotsAreTyped == SnapshotSpec => []TypeOK
<1>1. SnapshotInit => TypeOK
  <2> SUFFICES ASSUME SnapshotInit PROVE TypeOK
    OBVIOUS
  <2>1. view \in [state : [{} -> RunnerState], age : [{} -> 0 .. MaxAge]]
    BY DEF SnapshotInit
  <2>2. view \in Views
    BY <2>1 DEF Views
  <2>3. Active(view) = {}
    BY DEF SnapshotInit, Active, InState
  <2>4. spec.max_runners \in Nat
    BY SpecIsTyped, SnapshotAssumption DEF SnapshotInit
  <2>5. FitsPool(spec, view)
    BY <2>3, <2>4, FS_EmptySet DEF FitsPool
  <2>6. jobs \in 0 .. MaxJobs
    BY SnapshotAssumption DEF SnapshotInit
  <2> QED BY <2>2, <2>5, <2>6 DEF SnapshotInit, TypeOK
<1>2. TypeOK /\ [SnapshotNext]_snapshotVars => TypeOK'
  <2> SUFFICES ASSUME TypeOK, [SnapshotNext]_snapshotVars PROVE TypeOK'
    OBVIOUS
  <2>1. /\ IsPoolView(view)
        /\ IsPoolSpec(spec)
        /\ Known \subseteq Ids
        /\ view \in [state : [Known -> RunnerState], age : [Known -> 0 .. MaxAge]]
    BY ViewIsPoolView
  <2>2. \A K \in SUBSET Ids :
          [state : [K -> RunnerState], age : [K -> 0 .. MaxAge]] \subseteq Views
    BY DEF Views
  <2>3. MaxAge \in Nat /\ MaxJobs \in Nat
    BY SnapshotAssumption
  <2>4. ASSUME NEW r \in Ids, Appear(r) PROVE TypeOK'
    <3>1. Known \cup {r} \in SUBSET Ids
      BY <2>1
    <3>2. PICK s \in RunnerState :
            view' = [ state |-> [i \in Known \cup {r} |-> IF i = r THEN s ELSE view.state[i]],
                      age   |-> [i \in Known \cup {r} |-> IF i = r THEN 0 ELSE view.age[i]] ]
      BY <2>4 DEF Appear
    <3>3. view' \in [ state : [Known \cup {r} -> RunnerState],
                      age : [Known \cup {r} -> 0 .. MaxAge] ]
      BY <3>2, <2>1, <2>3
    <3>4. view' \in Views
      BY <3>1, <3>3, <2>2
    <3> QED BY <2>4, <3>4 DEF Appear, TypeOK
  <2>5. ASSUME NEW r \in Ids, Move(r) PROVE TypeOK'
    <3>1. PICK s \in Transitions[view.state[r]] :
            view' = [view EXCEPT !.state[r] = s, !.age[r] = 0]
      BY <2>5 DEF Move
    <3>2. r \in Known /\ view.state[r] \in RunnerState
      BY <2>5, <2>1 DEF Move
    <3>3. s \in RunnerState /\ (s \in ActiveStates => view.state[r] \in ActiveStates)
      BY <3>2, MovesStayActive
    <3>4. view' \in [state : [Known -> RunnerState], age : [Known -> 0 .. MaxAge]]
      <4>1. view' = [ state |-> [view.state EXCEPT ![r] = s], age |-> [view.age EXCEPT ![r] = 0] ]
        BY <2>1, <3>1
      <4>2. [view.state EXCEPT ![r] = s] \in [Known -> RunnerState]
        BY <2>1, <3>3
      <4>3. [view.age EXCEPT ![r] = 0] \in [Known -> 0 .. MaxAge]
        <5>1. 0 \in 0 .. MaxAge
          BY <2>3
        <5>2. view.age \in [Known -> 0 .. MaxAge]
          BY <2>1
        <5> HIDE DEF Known
        <5> QED BY <5>1, <5>2
      <4> QED BY <4>1, <4>2, <4>3
    <3>5. Active(view') \subseteq Active(view)
      BY <2>1, <3>1, <3>2, <3>3, <3>4 DEF Active, InState
    <3>6. FitsPool(spec, view')
      BY <2>1, <3>5, FewerStillFit DEF TypeOK
    <3> QED BY <2>1, <2>2, <2>5, <3>4, <3>6 DEF Move, TypeOK
  <2>6. ASSUME NEW r \in Ids, GrowOld(r) PROVE TypeOK'
    <3>1. view' = [view EXCEPT !.age[r] = view.age[r] + 1] /\ r \in Known /\ view.age[r] < MaxAge
      BY <2>6 DEF GrowOld
    <3>2. view' \in [state : [Known -> RunnerState], age : [Known -> 0 .. MaxAge]]
      BY <2>1, <2>3, <3>1
    <3>3. Active(view') \subseteq Active(view)
      BY <2>1, <3>1 DEF Active, InState
    <3>4. FitsPool(spec, view')
      BY <2>1, <3>3, FewerStillFit DEF TypeOK
    <3> QED BY <2>1, <2>2, <2>6, <3>2, <3>4 DEF GrowOld, TypeOK
  <2>7. ASSUME NEW r \in Ids, Leave(r) PROVE TypeOK'
    <3>1. view' \in [ state : [Known \ {r} -> RunnerState], age : [Known \ {r} -> 0 .. MaxAge] ]
      <4>1. view' = [ state |-> [i \in Known \ {r} |-> view.state[i]],
                      age   |-> [i \in Known \ {r} |-> view.age[i]] ]
        BY <2>7 DEF Leave, Without, Known
      <4> QED BY <2>1, <4>1
    <3>2. Active(view') \subseteq Active(view)
      BY <2>7 DEF Leave, Without, Active, InState
    <3>3. FitsPool(spec, view')
      BY <2>1, <3>2, FewerStillFit DEF TypeOK
    <3>4. Known \ {r} \in SUBSET Ids
      BY <2>1
    <3> QED BY <2>2, <2>7, <3>1, <3>3, <3>4 DEF Leave, TypeOK
  <2>8. CASE Queue
    BY <2>3, <2>8 DEF Queue, TypeOK
  <2>9. CASE Unqueue
    BY <2>3, <2>9 DEF Unqueue, TypeOK
  <2>10. CASE Reload
    BY <2>10 DEF Reload, TypeOK
  <2>11. CASE UNCHANGED snapshotVars
    BY <2>11 DEF snapshotVars, TypeOK
  <2> QED BY <2>4, <2>5, <2>6, <2>7, <2>8, <2>9, <2>10, <2>11 DEF SnapshotNext
<1> QED BY <1>1, <1>2, PTL DEF SnapshotSpec

(* plan_scaling never starts and reaps in one plan (scaling.md), whatever  *)
(* the spec, the ages and the queue.                                       *)
THEOREM PlansNeverContradict == SnapshotSpec => []NeverLaunchesAndReaps
<1>1. TypeOK => NeverLaunchesAndReaps
  <2> SUFFICES ASSUME TypeOK, NEW R \in Retire(spec, view, jobs), R # {}
               PROVE  Launch(spec, view, jobs) = 0
    BY DEF NeverLaunchesAndReaps
  <2>1. IsPoolView(view) /\ IsPoolSpec(spec) /\ jobs \in Nat
    BY ViewIsPoolView
  <2>2. jobs = 0 /\ Cardinality(Idle(view)) >= Floor(spec)
    BY <2>1, ReapingKeepsFloor
  <2>3. Cardinality(Available(spec, view)) >= Floor(spec)
    <3>1. /\ Cardinality(Idle(view)) \in Nat
          /\ Cardinality(Available(spec, view)) \in Nat
          /\ Cardinality(Idle(view)) <= Cardinality(Available(spec, view))
      BY <2>1, GroupsNest
    <3>2. Floor(spec) \in Nat
      BY <2>1, SpecIsTyped
    <3> QED BY <2>2, <3>1, <3>2
  <2> QED BY <2>1, <2>2, <2>3, LaunchIsBounded
<1> QED BY <1>1, SnapshotsAreTyped, PTL

(* The idle timeout and the warm ceiling together leave the floor alone.   *)
THEOREM FloorIsAlwaysKept == SnapshotSpec => []FloorIsKept
<1>1. TypeOK => FloorIsKept
  <2> SUFFICES ASSUME TypeOK, NEW R \in Retire(spec, view, jobs)
               PROVE  /\ R \subseteq Idle(view)
                      /\ R # {} => Cardinality(Idle(view)) - Cardinality(R) >= Floor(spec)
    BY DEF FloorIsKept
  <2> QED BY ViewIsPoolView, ReapingKeepsFloor
<1> QED BY <1>1, SnapshotsAreTyped, PTL

(* The queue and the floor are covered as far as the two ceilings on       *)
(* launching let them be (rules 1 and 2).                                  *)
THEOREM QueueIsAlwaysCovered == SnapshotSpec => []QueueIsCovered
<1>1. TypeOK => QueueIsCovered
  <2> SUFFICES ASSUME TypeOK PROVE QueueIsCovered
    OBVIOUS
  <2>1. IsPoolView(view) /\ IsPoolSpec(spec) /\ jobs \in Nat
    BY ViewIsPoolView
  <2> DEFINE n == Launch(spec, view, jobs)
             taken == Cardinality(Active(view) \ Overrunning(spec, view))
  <2>2. n \in Nat /\ (n = Wanted(spec, view, jobs) \/ n = Headroom(spec, view)
                      \/ n = spec.max_launch_per_tick)
    BY <2>1, LaunchIsBounded
  <2>3. Wanted(spec, view, jobs) + Cardinality(Available(spec, view)) >= jobs + Floor(spec)
    BY <2>1, LaunchIsBounded
  <2>4. Headroom(spec, view) + taken >= spec.max_runners
    <3>1. /\ taken = Cardinality(Active(view)) - Cardinality(Overrunning(spec, view))
          /\ Cardinality(Active(view)) \in Nat
          /\ Cardinality(Overrunning(spec, view)) \in Nat
          /\ spec.max_runners \in Nat
      BY <2>1, GroupsNest, SpecIsTyped
    <3> QED BY <3>1 DEF Headroom, AtLeastZero
  <2> QED BY <2>2, <2>3, <2>4 DEF QueueIsCovered, Terminate
<1> QED BY <1>1, SnapshotsAreTyped, PTL

(* A plan carried out leaves the pool within max_runners (rule 3).         *)
THEOREM PlansAlwaysFitPool == SnapshotSpec => []PlanFitsPool
<1>1. TypeOK => PlanFitsPool
  <2> SUFFICES ASSUME TypeOK PROVE PlanFitsPool
    OBVIOUS
  <2>1. IsPoolView(view) /\ IsPoolSpec(spec) /\ jobs \in Nat
    BY ViewIsPoolView
  <2>2. /\ Launch(spec, view, jobs) \in Nat
        /\ Launch(spec, view, jobs) <= Headroom(spec, view)
    BY <2>1, LaunchIsBounded
  <2>3. /\ Cardinality(Active(view) \ Overrunning(spec, view))
              = Cardinality(Active(view)) - Cardinality(Overrunning(spec, view))
        /\ Cardinality(Active(view)) \in Nat
        /\ Cardinality(Overrunning(spec, view)) \in Nat
        /\ spec.max_runners \in Nat
    BY <2>1, GroupsNest, SpecIsTyped
  <2>4. Cardinality(Active(view)) <= spec.max_runners
    BY DEF TypeOK, FitsPool
  <2> QED BY <2>2, <2>3, <2>4 DEF PlanFitsPool, Terminate, Headroom, AtLeastZero
<1> QED BY <1>1, SnapshotsAreTyped, PTL

-----------------------------------------------------------------------------
(* What is left of a pool once a plan is carried out.                      *)

(* A finite set has subsets of every smaller size.                         *)
LEMMA SubsetOfSize ==
  ASSUME NEW S, IsFiniteSet(S), NEW n \in Nat, n <= Cardinality(S)
  PROVE  \E T \in SUBSET S : Cardinality(T) = n
<1>1. Cardinality(S) \in Nat /\ ExistsBijection(1 .. Cardinality(S), S)
  BY FS_CardinalityType
<1>2. PICK f \in [1 .. Cardinality(S) -> S] :
        \A i, j \in 1 .. Cardinality(S) : f[i] = f[j] => i = j
  BY <1>1 DEF ExistsBijection, Bijection, Injection, IsInjective
<1> DEFINE T == {f[i] : i \in 1 .. n}
           g == [i \in 1 .. n |-> f[i]]
<1>3. 1 .. n \subseteq 1 .. Cardinality(S)
  BY <1>1
<1>4. T \subseteq S
  BY <1>2, <1>3
<1>5. g \in Bijection(1 .. n, T)
  <2>1. g \in [1 .. n -> T] /\ \A i \in 1 .. n : g[i] = f[i]
    OBVIOUS
  <2>2. \A i, j \in 1 .. n : g[i] = g[j] => i = j
    BY <1>2, <1>3, <2>1
  <2>3. \A t \in T : \E i \in 1 .. n : g[i] = t
    BY <2>1
  <2> HIDE DEF g, T
  <2>4. g \in Injection(1 .. n, T)
    BY <2>1, <2>2 DEF Injection, IsInjective
  <2>5. g \in Surjection(1 .. n, T)
    BY <2>1, <2>3 DEF Surjection
  <2> QED BY <2>4, <2>5 DEF Bijection
<1>6. IsFiniteSet(1 .. n) /\ Cardinality(1 .. n) = n
  BY FS_Interval
<1>7. Cardinality(T) = n
  <2> HIDE DEF g, T
  <2> QED BY <1>5, <1>6, FS_Bijection DEF ExistsBijection
<1> QED BY <1>4, <1>7

(* A pool once the plan is carried out that reaps R.                       *)
Rest(s, v, R) == Without(v, R \cup Terminate(s, v))

(* It is a pool the policy can be shown ...                                *)
LEMMA RestIsPool ==
  ASSUME NEW s, NEW v, IsPoolView(v), NEW R
  PROVE  IsPoolView(Rest(s, v, R))
<1> DEFINE D == DOMAIN v.state \ (R \cup Terminate(s, v))
           rest == Rest(s, v, R)
<1>1. DOMAIN rest.state = D
  BY DEF Rest, Without
<1>2. IsFiniteSet(D)
  BY FS_Difference DEF IsPoolView
<1>3. rest.state \in [D -> RunnerState] /\ rest.age \in [D -> Nat]
  BY DEF Without, IsPoolView, Rest
<1> HIDE DEF D, rest
<1>4. IsPoolView(rest)
  BY <1>1, <1>2, <1>3 DEF IsPoolView
<1> QED BY <1>4 DEF rest

(* ... in which nobody is who went, and nobody overruns.                   *)
LEMMA RestIsTheRest ==
  ASSUME NEW s, NEW v, NEW R
  PROVE  /\ Idle(Rest(s, v, R)) = Idle(v) \ R
         /\ Available(s, Rest(s, v, R)) = Available(s, v) \ R
         /\ Overrunning(s, Rest(s, v, R)) = {}
         /\ Active(Rest(s, v, R)) = (Active(v) \ Overrunning(s, v)) \ R
<1> DEFINE gone == R \cup Terminate(s, v)
           rest == Rest(s, v, R)
           D == DOMAIN v.state
<1>1. /\ DOMAIN rest.state = D \ gone
      /\ \A r \in D \ gone : rest.state[r] = v.state[r] /\ rest.age[r] = v.age[r]
  BY DEF Without, Rest
<1>2. \A r \in Terminate(s, v) : v.state[r] \in {"busy", "draining"}
  BY DEF Terminate, Overrunning, InState
<1> HIDE DEF rest
<1>3. Idle(rest) = Idle(v) \ R
  BY <1>1, <1>2 DEF Idle, InState
<1>4. Overrunning(s, rest) = {}
  BY <1>1 DEF Overrunning, InState, Terminate
<1>5. Available(s, rest) = Available(s, v) \ R
  BY <1>1, <1>4 DEF Available, InState, Terminate, Overrunning
<1>6. Active(rest) = (Active(v) \ Overrunning(s, v)) \ R
  BY <1>1 DEF Active, InState, Terminate
<1> QED BY <1>3, <1>4, <1>5, <1>6 DEF rest

(* ... and none is any older.                                              *)
LEMMA RestIsNoOlder ==
  ASSUME NEW s, NEW v, NEW R, NEW r \in Idle(Rest(s, v, R))
  PROVE  Rest(s, v, R).age[r] = v.age[r]
BY DEF Rest, Without, Idle, InState

(* What a plan that may reap leaves warm: as many as the floor wants, or   *)
(* only such as are not past the timeout; as many as the ceiling allows;   *)
(* and a longest idle can be told among them.                              *)
LEMMA RestIsWarm ==
  ASSUME NEW s, IsPoolSpec(s), NEW v, IsPoolView(v),
         NEW n \in Nat, MayReap(s, n), NEW R \in Retire(s, v, n)
  PROVE  LET rest == Rest(s, v, R) IN
         /\ \/ Cardinality(Idle(rest)) <= Floor(s)
            \/ \A r \in Idle(rest) : rest.age[r] <= s.idle_timeout
         /\ WarmCeiling(s) # NoCeiling => Cardinality(Idle(rest)) <= WarmCeiling(s)
         /\ LongestIdle(rest, Idle(rest), Disposable(s, rest)) # {}
<1> DEFINE rest == Rest(s, v, R)
           I == Idle(v)
           D == Disposable(s, v)
<1>17. Idle(rest) = Idle(v) \ R
  BY RestIsTheRest
<1>18. \A r \in Idle(rest) : rest.age[r] = v.age[r]
  BY RestIsNoOlder
<1> HIDE DEF rest
<1>0. PICK going \in BeyondTimeout(s, v) :
        \E surplus \in AboveCeiling(s, v, going) : R = going \cup surplus
  BY DEF Retire
<1>1. PICK surplus \in AboveCeiling(s, v, going) : R = going \cup surplus
  BY <1>0
<1>2. PICK T \in LongestIdle(v, I, D) : going = {r \in T : v.age[r] > s.idle_timeout}
  BY <1>0 DEF BeyondTimeout
<1>3. /\ Floor(s) \in Nat /\ s.idle_timeout \in Nat
      /\ WarmCeiling(s) \in Int
      /\ WarmCeiling(s) # NoCeiling => WarmCeiling(s) >= Floor(s)
  BY SpecIsTyped DEF IsPoolSpec
<1>4. IsFiniteSet(I) /\ Cardinality(I) \in Nat /\ \A r \in I : v.age[r] \in Nat
  BY GroupsNest DEF IsPoolView, Idle, InState
<1>5. /\ T \subseteq I /\ going \subseteq T
      /\ Cardinality(T) = D
      /\ \A r \in T, q \in I \ T : v.age[r] >= v.age[q]
      /\ D = AtLeastZero(Cardinality(I) - Floor(s))
  BY <1>2 DEF LongestIdle, Disposable
<1>6. /\ surplus \subseteq I \ going
      /\ \/ surplus = {}
         \/ \A a \in surplus, q \in (I \ going) \ surplus : v.age[a] >= v.age[q]
      /\ WarmCeiling(s) # NoCeiling =>
           Cardinality(surplus) = AtLeastZero(Cardinality(I \ going) - WarmCeiling(s))
  BY <1>1 DEF AboveCeiling, LongestIdle
<1>7. R \subseteq I
  BY <1>1, <1>5, <1>6
<1>8. Idle(rest) = I \ R /\ \A r \in I \ R : rest.age[r] = v.age[r]
  BY <1>17, <1>18
<1> HIDE DEF I, D
<1>9. /\ IsFiniteSet(T) /\ IsFiniteSet(going) /\ IsFiniteSet(surplus) /\ IsFiniteSet(R)
      /\ IsFiniteSet(I \ going) /\ IsFiniteSet(I \ R) /\ IsFiniteSet(T \ R)
      /\ {Cardinality(T), Cardinality(going), Cardinality(surplus), Cardinality(R),
          Cardinality(I \ going), Cardinality(I \ R), Cardinality(T \ R)} \subseteq Nat
  <2>1. T \in SUBSET I /\ going \in SUBSET I /\ surplus \in SUBSET I /\ R \in SUBSET I
        /\ I \ going \in SUBSET I /\ I \ R \in SUBSET I /\ T \ R \in SUBSET I
    BY <1>5, <1>6, <1>7
  <2> QED BY <2>1, <1>4, FS_Subset, FS_CardinalityType
<1>10. /\ Cardinality(I \ going) = Cardinality(I) - Cardinality(going)
       /\ Cardinality(I \ R) = Cardinality(I) - Cardinality(R)
       /\ Cardinality(I \ R) = Cardinality(I \ going) - Cardinality(surplus)
  <2>1. I \cap going = going /\ I \cap R = R /\ (I \ going) \cap surplus = surplus
        /\ I \ R = (I \ going) \ surplus
    BY <1>1, <1>5, <1>6, <1>7
  <2>2. Cardinality(I \ going) = Cardinality(I) - Cardinality(I \cap going)
    BY <1>4, FS_Difference
  <2>3. Cardinality(I \ R) = Cardinality(I) - Cardinality(I \cap R)
    BY <1>4, FS_Difference
  <2>4. Cardinality((I \ going) \ surplus)
          = Cardinality(I \ going) - Cardinality((I \ going) \cap surplus)
    BY <1>9, FS_Difference
  <2> QED BY ONLY <2>1, <2>2, <2>3, <2>4
<1>11. \/ Cardinality(I \ R) <= Floor(s)
       \/ \A r \in I \ R : v.age[r] <= s.idle_timeout
  <2> SUFFICES ASSUME NEW r \in I \ R, ~(v.age[r] <= s.idle_timeout)
               PROVE  Cardinality(I \ R) <= Floor(s)
    OBVIOUS
  <2>1. v.age[r] \in Nat /\ v.age[r] > s.idle_timeout
    BY <1>3, <1>4
  <2>2. r \notin T
    BY <2>1, <1>1, <1>2
  <2>3. T \subseteq going
    <3> SUFFICES ASSUME NEW t \in T PROVE v.age[t] > s.idle_timeout
      BY <1>2
    <3>1. v.age[t] >= v.age[r] /\ v.age[t] \in Nat
      BY <2>2, <1>4, <1>5
    <3> QED BY <2>1, <3>1, <1>3
  <2>4. Cardinality(going) = D
    BY <2>3, <1>5
  <2>5. Cardinality(I \ R) <= Cardinality(I \ going)
    BY <1>9, <1>10
  <2>6. Cardinality(I \ going) <= Floor(s)
    BY <2>4, <1>3, <1>4, <1>5, <1>9, <1>10 DEF AtLeastZero
  <2> QED BY <2>5, <2>6, <1>3, <1>9
<1>12. WarmCeiling(s) # NoCeiling => Cardinality(I \ R) <= WarmCeiling(s)
  BY <1>3, <1>6, <1>9, <1>10 DEF AtLeastZero
<1>13. R # {} => Cardinality(I) >= Floor(s) /\ Cardinality(I) - Cardinality(R) >= Floor(s)
  BY ReapingKeepsFloor DEF I
<1> DEFINE k == AtLeastZero(Cardinality(I \ R) - Floor(s))
<1>14. \E Q \in SUBSET (I \ R) :
         Cardinality(Q) = k /\ \A r \in Q, q \in (I \ R) \ Q : v.age[r] >= v.age[q]
  <2>1. CASE R = {}
    <3>1. T \subseteq I \ R /\ I \ R = I
      BY <2>1, <1>5
    <3> QED BY <3>1, <1>5
  <2>2. CASE R # {}
    <3>1. k \in Nat /\ k + Cardinality(R) = Cardinality(T)
      BY <2>2, <1>3, <1>4, <1>5, <1>9, <1>10, <1>13 DEF AtLeastZero
    <3>2. k <= Cardinality(T \ R)
      <4>1. Cardinality(T \ R) = Cardinality(T) - Cardinality(T \cap R)
        BY <1>9, FS_Difference
      <4>2. Cardinality(T \cap R) <= Cardinality(R) /\ Cardinality(T \cap R) \in Nat
        BY <1>9, FS_Intersection, FS_CardinalityType
      <4> HIDE DEF k
      <4> QED BY <3>1, <4>1, <4>2, <1>9
    <3> HIDE DEF k
    <3>3. PICK Q \in SUBSET (T \ R) : Cardinality(Q) = k
      BY <3>1, <3>2, <1>9, SubsetOfSize
    <3>4. Q \subseteq I \ R
      BY <1>5
    <3>5. ASSUME NEW r \in Q, NEW q \in (I \ R) \ Q PROVE v.age[r] >= v.age[q]
      <4>1. CASE q \notin T
        BY <4>1, <1>5
      <4>2. CASE q \in T
        <5>1. surplus # {} /\ ~(surplus \subseteq T)
          <6> SUFFICES ASSUME surplus \subseteq T PROVE FALSE
            OBVIOUS
          <6>1. R \subseteq T /\ T \cap R = R
            BY <1>1, <1>5
          <6>2. Cardinality(T \ R) = k
            <7>1. Cardinality(T \ R) = Cardinality(T) - Cardinality(R)
              BY <6>1, <1>9, FS_Difference
            <7> QED BY <7>1, <3>1, <1>9
          <6>3. Q = T \ R
            BY <6>2, <3>3, <1>9, FS_Subset
          <6> QED BY <6>3, <4>2
        <5>2. PICK a \in surplus : a \notin T
          BY <5>1
        <5>3. v.age[a] >= v.age[q]
          BY <5>1, <5>2, <1>1, <1>6
        <5>4. v.age[r] >= v.age[a]
          BY <5>2, <1>5, <1>6
        <5>5. v.age[a] \in Nat /\ v.age[q] \in Nat /\ v.age[r] \in Nat
          BY <5>2, <1>4, <1>5, <1>6
        <5> QED BY <5>3, <5>4, <5>5
      <4> QED BY <4>1, <4>2
    <3> QED BY <3>3, <3>4, <3>5
  <2> QED BY <2>1, <2>2
<1>15. LongestIdle(rest, Idle(rest), Disposable(s, rest)) # {}
  <2>1. Disposable(s, rest) = k
    BY <1>8 DEF Disposable
  <2>2. PICK Q \in SUBSET (I \ R) :
          Cardinality(Q) = k /\ \A r \in Q, q \in (I \ R) \ Q : v.age[r] >= v.age[q]
    BY <1>14
  <2> HIDE DEF k
  <2>3. \A r \in Q, q \in (I \ R) \ Q : rest.age[r] >= rest.age[q]
    BY <2>2, <1>8
  <2>4. Q \in LongestIdle(rest, Idle(rest), Disposable(s, rest))
    BY <2>1, <2>2, <2>3, <1>8 DEF LongestIdle
  <2> QED BY <2>4
<1> QED BY <1>8, <1>11, <1>12, <1>15 DEF rest

(* So there is nothing left to reap.                                       *)
LEMMA NothingMoreToReap ==
  ASSUME NEW s, IsPoolSpec(s), NEW v, IsPoolView(v), NEW n \in Nat, NEW R \in Retire(s, v, n)
  PROVE  Retire(s, Rest(s, v, R), n) = {{}}
<1> DEFINE rest == Rest(s, v, R)
           I == Idle(rest)
<1>1. CASE ~MayReap(s, n)
  BY <1>1 DEF Retire
<1>2. CASE MayReap(s, n)
  <2>1. n = 0
    BY <1>2 DEF MayReap
  <2>3. IsPoolView(rest)
    BY RestIsPool
  <2>4. IsFiniteSet(I) /\ Cardinality(I) \in Nat /\ \A r \in I : rest.age[r] \in Nat
    <3> HIDE DEF rest
    <3> QED BY <2>3, GroupsNest DEF IsPoolView, Idle, InState
  <2>5. /\ Cardinality(I) <= Floor(s) \/ \A r \in I : rest.age[r] <= s.idle_timeout
        /\ WarmCeiling(s) # NoCeiling => Cardinality(I) <= WarmCeiling(s)
        /\ LongestIdle(rest, I, Disposable(s, rest)) # {}
    BY <1>2, RestIsWarm
  <2>6. Floor(s) \in Nat /\ WarmCeiling(s) \in Int /\ s.idle_timeout \in Nat
    BY SpecIsTyped DEF IsPoolSpec
  <2> HIDE DEF rest
  <2>7. ASSUME NEW T \in LongestIdle(rest, I, Disposable(s, rest))
        PROVE  {r \in T : rest.age[r] > s.idle_timeout} = {}
    <3>1. T \subseteq I /\ Cardinality(T) = AtLeastZero(Cardinality(I) - Floor(s))
      BY DEF LongestIdle, Disposable
    <3>2. IsFiniteSet(T)
      BY <3>1, <2>4, FS_Subset
    <3>3. CASE Cardinality(I) <= Floor(s)
      <4>1. Cardinality(T) = 0
        BY <3>1, <3>3, <2>4, <2>6 DEF AtLeastZero
      <4> QED BY <3>2, <4>1, FS_EmptySet
    <3>4. CASE \A r \in I : rest.age[r] <= s.idle_timeout
      BY <3>1, <3>4, <2>4, <2>6
    <3> QED BY <3>3, <3>4, <2>5
  <2>8. BeyondTimeout(s, rest) = {{}}
    <3>1. PICK T \in LongestIdle(rest, I, Disposable(s, rest)) : TRUE
      BY <2>5
    <3> QED BY <2>7, <3>1 DEF BeyondTimeout
  <2>9. AboveCeiling(s, rest, {}) = {{}}
    <3>1. I \ {} = I
      OBVIOUS
    <3>2. CASE WarmCeiling(s) = NoCeiling
      BY <3>2 DEF AboveCeiling
    <3>3. CASE WarmCeiling(s) # NoCeiling
      <4>1. AtLeastZero(Cardinality(I) - WarmCeiling(s)) = 0
        BY <3>3, <2>4, <2>5, <2>6 DEF AtLeastZero
      <4>2. AboveCeiling(s, rest, {}) = LongestIdle(rest, I, 0)
        BY <3>1, <3>3, <4>1 DEF AboveCeiling
      <4>3. \A T \in SUBSET I : Cardinality(T) = 0 <=> T = {}
        BY <2>4, FS_Subset, FS_EmptySet
      <4> QED BY <4>2, <4>3 DEF LongestIdle
    <3> QED BY <3>2, <3>3
  <2>10. Retire(s, rest, n) = {{}}
    <3>1. Retire(s, rest, n) = {{} \cup x : x \in AboveCeiling(s, rest, {})}
      BY <1>2, <2>8 DEF Retire
    <3> QED BY <2>9, <3>1
  <2> QED BY <2>10 DEF rest
<1> QED BY <1>1, <1>2

(* ... nor more, or fewer, to launch.                                      *)
LEMMA NothingElseToLaunch ==
  ASSUME NEW s, IsPoolSpec(s), NEW v, IsPoolView(v), NEW n \in Nat, NEW R \in Retire(s, v, n)
  PROVE  Launch(s, Rest(s, v, R), n) = Launch(s, v, n)
<1> DEFINE rest == Rest(s, v, R)
<1>0. R \subseteq Idle(v)
  BY ReapingKeepsFloor
<1>1. /\ IsPoolView(rest)
      /\ Idle(rest) = Idle(v) \ R
      /\ Available(s, rest) = Available(s, v) \ R
      /\ Overrunning(s, rest) = {}
      /\ Active(rest) = (Active(v) \ Overrunning(s, v)) \ R
  BY RestIsPool, RestIsTheRest
<1> HIDE DEF rest
<1>2. CASE R = {}
  <2>1. Available(s, rest) = Available(s, v) /\ Active(rest) = Active(v) \ Overrunning(s, v)
    BY <1>1, <1>2
  <2>2. /\ Cardinality(Active(rest)) = Cardinality(Active(v)) - Cardinality(Overrunning(s, v))
        /\ Cardinality(Active(rest)) \in Nat
    BY <2>1, <1>1, GroupsNest
  <2>3. Cardinality(Overrunning(s, rest)) = 0
    BY <1>1, FS_EmptySet
  <2>4. Cardinality(Active(rest)) - Cardinality(Overrunning(s, rest))
          = Cardinality(Active(v)) - Cardinality(Overrunning(s, v))
    BY <2>2, <2>3
  <2>5. Headroom(s, rest) = Headroom(s, v)
    BY <2>4 DEF Headroom
  <2>6. Wanted(s, rest, n) = Wanted(s, v, n)
    BY <2>1 DEF Wanted, Uncovered, WarmShortfall
  <2> QED BY <2>5, <2>6 DEF Launch, rest
<1>3. CASE R # {}
  <2>1. n = 0 /\ Cardinality(Idle(v)) >= Floor(s)
        /\ Cardinality(Idle(v)) - Cardinality(R) >= Floor(s)
    BY <1>3, ReapingKeepsFloor
  <2>2. Floor(s) \in Nat
    BY SpecIsTyped
  <2>3. Cardinality(Idle(rest)) = Cardinality(Idle(v)) - Cardinality(R)
    <3>1. Idle(v) \cap R = R
      BY <1>0
    <3>2. Cardinality(Idle(v) \ R) = Cardinality(Idle(v)) - Cardinality(Idle(v) \cap R)
      BY GroupsNest, FS_Difference
    <3> QED BY <3>1, <3>2, <1>1
  <2>4. Cardinality(Available(s, rest)) >= Floor(s)
    <3>1. /\ Cardinality(Idle(rest)) <= Cardinality(Available(s, rest))
          /\ Cardinality(Idle(rest)) \in Nat /\ Cardinality(Available(s, rest)) \in Nat
      BY <1>1, GroupsNest
    <3> QED BY <2>1, <2>2, <2>3, <3>1
  <2>5. Cardinality(Available(s, v)) >= Floor(s)
    <3>1. /\ Cardinality(Idle(v)) <= Cardinality(Available(s, v))
          /\ Cardinality(Idle(v)) \in Nat /\ Cardinality(Available(s, v)) \in Nat
      BY GroupsNest
    <3> QED BY <2>1, <2>2, <3>1
  <2>6. Launch(s, rest, n) = 0 /\ Launch(s, v, n) = 0
    BY <1>1, <2>1, <2>4, <2>5, LaunchIsBounded
  <2> QED BY <2>6 DEF rest
<1> QED BY <1>2, <1>3

(* plan_scaling has a fixed point after one plan: carried out, and with    *)
(* nothing else having changed, it is followed by a plan that reaps nobody *)
(* and starts no replacement, for any pool, any ages and any spec.         *)
THEOREM PlansAlwaysSettle == SnapshotSpec => []PlanSettles
<1>1. TypeOK => PlanSettles
  <2> SUFFICES ASSUME TypeOK, NEW R \in Retire(spec, view, jobs)
               PROVE  LET rest == Rest(spec, view, R) IN
                      /\ Launch(spec, rest, jobs) = Launch(spec, view, jobs)
                      /\ Retire(spec, rest, jobs) = {{}}
                      /\ MayReap(spec, jobs) =>
                           \/ Cardinality(Idle(rest)) <= Floor(spec)
                           \/ \A r \in Idle(rest) : rest.age[r] <= spec.idle_timeout
    BY DEF PlanSettles, Rest
  <2> DEFINE rest == Rest(spec, view, R)
  <2>1. IsPoolView(view) /\ IsPoolSpec(spec) /\ jobs \in Nat
    BY ViewIsPoolView
  <2>2. Launch(spec, rest, jobs) = Launch(spec, view, jobs)
    BY <2>1, NothingElseToLaunch
  <2>3. Retire(spec, rest, jobs) = {{}}
    BY <2>1, NothingMoreToReap
  <2>4. ASSUME MayReap(spec, jobs)
        PROVE  \/ Cardinality(Idle(rest)) <= Floor(spec)
               \/ \A r \in Idle(rest) : rest.age[r] <= spec.idle_timeout
    <3>1. jobs = 0
      BY <2>4 DEF MayReap
    <3> QED BY <2>1, <2>4, <3>1, RestIsWarm
  <2> HIDE DEF rest
  <2> QED BY <2>2, <2>3, <2>4 DEF rest
<1> QED BY <1>1, SnapshotsAreTyped, PTL

-----------------------------------------------------------------------------
(* The configuration: lists.                                               *)

(* Some number of a set of them is the least.                              *)
LEMMA LeastNumber ==
  ASSUME NEW S \in SUBSET Nat, S # {}
  PROVE  \E n \in S : \A m \in S : n <= m
<1>1. PICK n \in S : \A m \in S : ~(<<m, n>> \in OpToRel(<, Nat))
  BY NatLessThanWellFounded, WFMin
<1>2. ASSUME NEW m \in S PROVE n <= m
  <2>1. n \in Nat /\ m \in Nat
    OBVIOUS
  <2>2. ~(m < n)
    BY <1>1, <2>1 DEF OpToRel
  <2> QED BY <2>1, <2>2
<1> QED BY <1>2

(* FlattenSeq puts lists one after the other.                              *)
LEMMA FlatListsAreLists ==
  ASSUME NEW T, NEW seqs \in Seq(Seq(T))
  PROVE  FlattenSeq(seqs) \in Seq(T)
<1> DEFINE n == Len(seqs)
           Step(g, i) == IF i = 1 THEN seqs[i] ELSE g[i-1] \o seqs[i]
           IsFlat(m, g) == g = [i \in 1..m |-> IF i = 1 THEN seqs[i] ELSE g[i-1] \o seqs[i]]
<1>1. \A m \in Nat : \E g : IsFlat(m, g)
  <2> DEFINE B == {m \in Nat : ~\E g : IsFlat(m, g)}
  <2> SUFFICES ASSUME B # {} PROVE FALSE
    OBVIOUS
  <2>1. PICK m \in B : \A k \in B : m <= k
    <3> HIDE DEF B
    <3>1. B \in SUBSET Nat
      BY DEF B
    <3> QED BY <3>1, LeastNumber
  <2>2. m \in Nat /\ \A g : ~IsFlat(m, g)
    BY <2>1
  <2>3. CASE m = 0
    <3> DEFINE g == [i \in {} |-> {}]
    <3>1. 1..m = {}
      BY <2>3
    <3>2. IsFlat(m, g)
      BY <3>1
    <3> QED BY <2>2, <3>2
  <2>4. CASE m # 0
    <3>1. m - 1 \in Nat /\ ~(m <= m - 1)
      BY <2>2, <2>4
    <3>2. PICK g : IsFlat(m - 1, g)
      BY <2>1, <3>1
    <3> DEFINE h == [i \in 1..m |-> IF i <= m - 1 THEN g[i] ELSE Step(g, i)]
    <3>3. ASSUME NEW i \in 1..m PROVE h[i] = Step(h, i)
      <4>1. i \in 1..(m - 1) => g[i] = Step(g, i)
        BY <3>2
      <4>2. h[i] = Step(g, i)
        BY <3>1, <4>1
      <4>3. i # 1 => i - 1 \in 1..m /\ i - 1 <= m - 1
        BY <3>1
      <4>4. i # 1 => h[i-1] = g[i-1]
        BY <4>3
      <4> HIDE DEF h
      <4> QED BY <4>2, <4>4
    <3>4. DOMAIN h = 1..m /\ h = [i \in 1..m |-> h[i]]
      OBVIOUS
    <3> HIDE DEF h
    <3>5. IsFlat(m, h)
      BY <3>3, <3>4
    <3> QED BY <2>2, <3>5
  <2> QED BY <2>3, <2>4
<1>2. ASSUME NEW g, IsFlat(n, g), NEW i \in 1..n PROVE g[i] \in Seq(T)
  <2> DEFINE B == {k \in 1..n : g[k] \notin Seq(T)}
  <2> SUFFICES ASSUME B # {} PROVE FALSE
    OBVIOUS
  <2>1. PICK k \in B : \A l \in B : k <= l
    <3>1. B \in SUBSET Nat
      OBVIOUS
    <3> HIDE DEF B
    <3> QED BY <3>1, LeastNumber
  <2>2. k \in 1..n /\ g[k] \notin Seq(T) /\ n \in Nat
    BY <2>1
  <2>3. g[k] = Step(g, k)
    <3>1. \A f : IsFlat(n, f) => f[k] = Step(f, k)
      BY <2>2
    <3> QED BY <1>2, <3>1
  <2>4. k # 1 => k - 1 \in 1..n /\ ~(k <= k - 1)
    BY <2>2
  <2>5. k # 1 => g[k-1] \in Seq(T)
    BY <2>1, <2>4
  <2>6. seqs[k] \in Seq(T)
    BY <2>2
  <2>7. k # 1 => g[k-1] \o seqs[k] \in Seq(T)
    BY <2>5, <2>6
  <2> QED BY <2>2, <2>3, <2>6, <2>7
<1>3. CASE n = 0
  <2>1. seqs = <<>> /\ FlattenSeq(seqs) = seqs
    BY <1>3 DEF FlattenSeq
  <2>2. <<>> \in Seq(T)
    OBVIOUS
  <2> QED BY <2>1, <2>2
<1>4. CASE n # 0
  <2> DEFINE g == CHOOSE g : IsFlat(n, g)
  <2>1. n \in Nat /\ n \in 1..n
    BY <1>4
  <2>2. IsFlat(n, g)
    BY <1>1, <2>1
  <2>3. FlattenSeq(seqs) = g[n]
    BY <1>4 DEF FlattenSeq
  <2> HIDE DEF g, IsFlat
  <2>4. g[n] \in Seq(T)
    BY <1>2, <2>1, <2>2
  <2> QED BY <2>3, <2>4
<1> QED BY <1>3, <1>4

(* Of a chain of checks that lets something through, every check does.     *)
LEMMA AllAreAccepted ==
  ASSUME NEW vs, DOMAIN vs \subseteq Nat
  PROVE  FirstFailure(vs) = "accepted" <=> \A i \in DOMAIN vs : vs[i] = "accepted"
<1> DEFINE bad == {i \in DOMAIN vs : vs[i] # "accepted"}
<1>1. CASE bad = {}
  BY <1>1 DEF FirstFailure
<1>2. CASE bad # {}
  <2>1. bad \in SUBSET Nat
    OBVIOUS
  <2>2. \E i \in bad : \A k \in bad : i <= k
    <3> HIDE DEF bad
    <3> QED BY <1>2, <2>1, LeastNumber
  <2> DEFINE first == CHOOSE i \in bad : \A k \in bad : i <= k
  <2>3. first \in bad
    <3> HIDE DEF bad
    <3> QED BY <2>2
  <2>4. FirstFailure(vs) = vs[first]
    BY <1>2 DEF FirstFailure
  <2> HIDE DEF first
  <2> QED BY <2>3, <2>4
<1> QED BY <1>1, <1>2

(* The pools of a file and of those it includes are one list, of what is   *)
(* written in one of them.                                                 *)
LEMMA TablesAreTables ==
  ASSUME NEW f, IsFile(f)
  PROVE  /\ Tables(f) \in Seq(Elements(Tables(f)))
         /\ \A t \in Elements(Tables(f)) : IsPoolTable(t)
<1> DEFINE lists == [i \in DOMAIN f.dropins |-> f.dropins[i].pools]
           T == {t \in Elements(f.pools)
                        \cup UNION {Elements(d.pools) : d \in Elements(f.dropins)} :
                  IsPoolTable(t)}
<1>1. ASSUME NEW ts, ArePools(ts), Elements(ts) \subseteq T PROVE ts \in Seq(T)
  BY <1>1 DEF ArePools
<1>2. f.pools \in Seq(T)
  <2>1. Elements(f.pools) \subseteq T
    BY DEF IsFile, ArePools
  <2> HIDE DEF T
  <2> QED BY <1>1, <2>1 DEF IsFile
<1>3. lists \in Seq(Seq(T))
  <2>1. ASSUME NEW i \in DOMAIN f.dropins PROVE f.dropins[i].pools \in Seq(T)
    <3>1. f.dropins[i] \in Elements(f.dropins)
      BY DEF Elements
    <3>2. ArePools(f.dropins[i].pools)
      BY <3>1 DEF IsFile, IsDropin
    <3>3. Elements(f.dropins[i].pools) \subseteq T
      BY <3>1, <3>2 DEF ArePools
    <3> HIDE DEF T
    <3> QED BY <1>1, <3>2, <3>3
  <2>2. f.dropins \in Seq(Elements(f.dropins))
    BY DEF IsFile
  <2>3. Len(f.dropins) \in Nat /\ DOMAIN f.dropins = 1..Len(f.dropins)
    BY <2>2
  <2>4. lists = [i \in 1..Len(f.dropins) |-> f.dropins[i].pools]
    BY <2>3
  <2> HIDE DEF T
  <2> QED BY <2>1, <2>3, <2>4
<1>4. FlattenSeq(lists) \in Seq(T)
  <2> HIDE DEF T, lists
  <2> QED BY <1>3, FlatListsAreLists
<1>5. Tables(f) \in Seq(T)
  <2>1. f.pools \o FlattenSeq(lists) \in Seq(T)
    <3> HIDE DEF T, lists
    <3> QED BY <1>2, <1>4
  <2> QED BY <1>2, <2>1 DEF Tables
<1>6. Tables(f) \in Seq(Elements(Tables(f))) /\ Elements(Tables(f)) \subseteq T
  <2> HIDE DEF T
  <2> QED BY <1>5 DEF Elements
<1> QED BY <1>6

-----------------------------------------------------------------------------
(* What an operator does to a file.                                        *)

(* A change to a table writes a key, drops one, or spoils the table.       *)
LEMMA ChangesAreOne ==
  ASSUME NEW t, NEW values, NEW u \in Changes(t, values)
  PROVE  \/ \E k \in DOMAIN values : \E v \in values[k] :
              u = Put(IF t = Scalar THEN <<>> ELSE t, k, v)
         \/ \E k \in DOMAIN t : u = Drop(t, k)
         \/ u = Scalar
<1> DEFINE s == IF t = Scalar THEN <<>> ELSE t
           written == {{Put(s, k, v) : v \in values[k]} : k \in DOMAIN values}
<1>1. CASE u \in UNION written
  <2>1. PICK S \in written : u \in S
    BY <1>1
  <2>2. PICK k \in DOMAIN values : S = {Put(s, k, v) : v \in values[k]}
    BY <2>1
  <2>3. PICK v \in values[k] : u = Put(s, k, v)
    BY <2>1, <2>2
  <2> QED BY <2>2, <2>3
<1>2. CASE u \in {Drop(t, k) : k \in DOMAIN t}
  BY <1>2
<1>3. u \in UNION written \/ u \in {Drop(t, k) : k \in DOMAIN t} \/ u = Scalar
  <2> DEFINE dropped == {Drop(t, k) : k \in DOMAIN t}
  <2>1. Changes(t, values) = dropped \cup {Scalar} \cup UNION written
    BY DEF Changes
  <2> HIDE DEF written, dropped
  <2>2. u \in UNION written \/ u \in dropped \/ u = Scalar
    BY <2>1
  <2> QED BY <2>2 DEF dropped
<1> QED BY <1>1, <1>2, <1>3

(* A pool's table stays one.                                               *)
LEMMA TableStaysTable ==
  ASSUME NEW t, IsPoolTable(t), NEW u \in Changes(t, PoolValues)
  PROVE  IsPoolTable(u)
<1>1. ASSUME NEW k \in DOMAIN PoolValues, NEW v \in PoolValues[k],
             u = Put(IF t = Scalar THEN <<>> ELSE t, k, v)
      PROVE  IsPoolTable(u)
  <2> DEFINE s == IF t = Scalar THEN <<>> ELSE t
  <2>1. /\ DOMAIN s \subseteq PoolKeys
        /\ \A j \in DOMAIN s \cap Numbered : s[j] \in Numbers
    BY DEF IsPoolTable
  <2>2. k \in PoolKeys /\ (k \in Numbered => v \in Numbers)
    BY SettingsAssumption
  <2> HIDE DEF s
  <2>3. u = [x \in DOMAIN s \cup {k} |-> IF x = k THEN v ELSE s[x]]
    BY <1>1 DEF s, Put
  <2> QED BY <2>1, <2>2, <2>3 DEF IsPoolTable
<1>2. ASSUME NEW k \in DOMAIN t, u = Drop(t, k) PROVE IsPoolTable(u)
  <2>1. CASE t = Scalar
    <3>1. DOMAIN u = {}
      BY <1>2, <2>1 DEF Drop, Scalar
    <3> QED BY <3>1 DEF IsPoolTable
  <2>2. CASE t # Scalar
    BY <1>2, <2>2 DEF Drop, IsPoolTable
  <2> QED BY <2>1, <2>2
<1>3. IsPoolTable(Scalar)
  BY DEF IsPoolTable
<1> QED BY <1>1, <1>2, <1>3, ChangesAreOne

(* The pools of a file stay pools.                                         *)
LEMMA PoolsStayPools ==
  ASSUME NEW ts, ArePools(ts), NEW us \in ChangesAt(ts, PoolValues)
  PROVE  ArePools(us)
<1> DEFINE T == {t \in Elements(ts) \cup UNION {Changes(ts[i], PoolValues) : i \in DOMAIN ts} :
                  IsPoolTable(t)}
<1>1. ASSUME NEW vs \in Seq(T) PROVE ArePools(vs)
  <2>1. vs \in Seq(Elements(vs)) /\ Elements(vs) \subseteq T
    <3> HIDE DEF T
    <3> QED BY DEF Elements
  <2> QED BY <2>1 DEF ArePools
<1>2. ts \in Seq(T)
  <2>1. Elements(ts) \subseteq T
    BY DEF ArePools
  <2> HIDE DEF T
  <2> QED BY <2>1 DEF ArePools
<1>3. ASSUME NEW i \in DOMAIN ts, NEW t \in Changes(ts[i], PoolValues)
      PROVE  t \in T
  <2>1. IsPoolTable(ts[i])
    BY DEF ArePools, Elements
  <2> QED BY <2>1, TableStaysTable
<1> HIDE DEF T
<1>4. ASSUME NEW i \in DOMAIN ts, NEW t \in T PROVE [ts EXCEPT ![i] = t] \in Seq(T)
  BY <1>2
<1>5. ASSUME NEW i \in DOMAIN ts PROVE RemoveAt(ts, i) \in Seq(T)
  <2>1. i \in 1..Len(ts) /\ Len(ts) \in Nat
    BY <1>2
  <2>2. SubSeq(ts, 1, i - 1) \in Seq(T) /\ SubSeq(ts, i + 1, Len(ts)) \in Seq(T)
    BY <1>2, <2>1, SubSeqProperties
  <2> QED BY <2>2 DEF RemoveAt
<1>6. ASSUME NEW i \in DOMAIN ts PROVE Append(ts, ts[i]) \in Seq(T)
  BY <1>2
<1>7. us \in Seq(T)
  <2> DEFINE changed == {{[ts EXCEPT ![i] = t] : t \in Changes(ts[i], PoolValues)} :
                        i \in DOMAIN ts}
  <2>1. CASE us \in UNION changed
    <3>1. PICK S \in changed : us \in S
      BY <2>1
    <3>2. PICK i \in DOMAIN ts : S = {[ts EXCEPT ![i] = t] : t \in Changes(ts[i], PoolValues)}
      BY <3>1
    <3>3. PICK t \in Changes(ts[i], PoolValues) : us = [ts EXCEPT ![i] = t]
      BY <3>1, <3>2
    <3> QED BY <1>3, <1>4, <3>3
  <2>2. \/ us \in UNION changed
        \/ us \in {RemoveAt(ts, i) : i \in DOMAIN ts}
        \/ us \in {Append(ts, ts[i]) : i \in DOMAIN ts}
    <3> DEFINE shorter == {RemoveAt(ts, i) : i \in DOMAIN ts}
               longer == {Append(ts, ts[i]) : i \in DOMAIN ts}
    <3>1. ChangesAt(ts, PoolValues) = shorter \cup longer \cup UNION changed
      BY DEF ChangesAt
    <3> HIDE DEF changed, shorter, longer
    <3>2. us \in UNION changed \/ us \in shorter \/ us \in longer
      BY <3>1
    <3> QED BY <3>2 DEF shorter, longer
  <2> HIDE DEF changed
  <2> QED BY <1>5, <1>6, <2>1, <2>2
<1> QED BY <1>1, <1>7

(* A drop-in stays one.                                                    *)
LEMMA DropinStaysDropin ==
  ASSUME NEW d, IsDropin(d), NEW e \in DropinChanges(d)
  PROVE  IsDropin(e)
<1>1. ArePools(d.pools) /\ DOMAIN d = {"parses", "global", "pools"}
  BY DEF IsDropin
<1>2. ArePools(<<>>)
  BY DEF ArePools, Elements
<1>3. ASSUME NEW ts, ArePools(ts) PROVE IsDropin([d EXCEPT !.pools = ts])
  BY <1>1, <1>3 DEF IsDropin
<1>4. \A v : IsDropin([d EXCEPT !.parses = v]) /\ IsDropin([d EXCEPT !.global = v])
  BY <1>1 DEF IsDropin
<1> QED BY <1>1, <1>2, <1>3, <1>4, PoolsStayPools DEF DropinChanges

(* However it is edited, a file is one.                                    *)
LEMMA FileStaysFile ==
  ASSUME IsFile(file), Edit
  PROVE  IsFile(file)'
<1> DEFINE Keys == Sections \cup {"parses", "legacy", "credentials", "include", "pools", "dropins"}
<1>0. /\ DOMAIN file = Keys /\ ArePools(file.pools) /\ IsCapacity(file.capacity)
      /\ file.dropins \in Seq(Elements(file.dropins))
      /\ \A d \in Elements(file.dropins) : IsDropin(d)
  BY DEF IsFile
<1>1. CASE EditPools
  <2>1. PICK ts \in ChangesAt(file.pools, PoolValues) : file' = [file EXCEPT !.pools = ts]
    BY <1>1 DEF EditPools
  <2>2. ArePools(ts)
    BY <1>0, PoolsStayPools
  <2> QED BY <1>0, <2>1, <2>2 DEF IsFile, Sections
<1>2. CASE EditCredentials \/ EditRest
  BY <1>0, <1>2 DEF EditCredentials, EditRest, IsFile, Sections
<1>3. CASE EditSection
  <2>0. PICK k \in Sections :
          \E t \in Changes(file[k], SectionValues[k]) : file' = [file EXCEPT ![k] = t]
    BY <1>3 DEF EditSection
  <2>1. PICK t \in Changes(file[k], SectionValues[k]) : file' = [file EXCEPT ![k] = t]
    BY <2>0
  <2>2. CASE k # "capacity"
    BY <1>0, <2>1, <2>2 DEF IsFile, Sections
  <2>3. CASE k = "capacity"
    <3>1. IsCapacity(t)
      <4>1. ASSUME NEW x, NEW v, NEW s, IsCapacity(s), t = Put(s, x, v),
                   x = "max_containers" => v \in Numbers
            PROVE  IsCapacity(t)
        BY <4>1 DEF Put, IsCapacity
      <4>2. ASSUME NEW x, t = Drop(file.capacity, x) PROVE IsCapacity(t)
        BY <1>0, <4>2 DEF Drop, IsCapacity
      <4>3. IsCapacity(<<>>) /\ IsCapacity(Scalar)
        BY DEF IsCapacity, Scalar
      <4>4. \A x \in DOMAIN SectionValues.capacity : \A v \in SectionValues.capacity[x] :
              x = "max_containers" => v \in Numbers
        BY SettingsAssumption
      <4> QED BY <1>0, <2>1, <2>3, <4>1, <4>2, <4>3, <4>4, ChangesAreOne
    <3> QED BY <1>0, <2>1, <2>3, <3>1 DEF IsFile, Sections
  <2> QED BY <2>2, <2>3
<1>4. CASE EditInclude
  <2>1. ASSUME NEW where, file' = [file EXCEPT !.include = where] PROVE IsFile(file)'
    BY <1>0, <2>1 DEF IsFile, Sections
  <2>2. ASSUME NEW i \in DOMAIN file.dropins, NEW d \in DropinChanges(file.dropins[i]),
               file' = [file EXCEPT !.dropins[i] = d]
        PROVE  IsFile(file)'
    <3> DEFINE ds == [file.dropins EXCEPT ![i] = d]
               T == {x \in Elements(file.dropins) \cup {d} : IsDropin(x)}
    <3>1. IsDropin(d)
      BY <1>0, DropinStaysDropin DEF Elements
    <3>2. file.dropins \in Seq(T) /\ d \in T
      <4>1. Elements(file.dropins) \subseteq T /\ d \in T
        BY <1>0, <3>1
      <4> HIDE DEF T
      <4> QED BY <1>0, <4>1
    <3>3. ds \in Seq(T)
      <4> HIDE DEF T
      <4> QED BY <3>2
    <3>4. ds \in Seq(Elements(ds)) /\ Elements(ds) \subseteq T
      <4> HIDE DEF T, ds
      <4> QED BY <3>3 DEF Elements
    <3>5. file' = [file EXCEPT !.dropins = ds]
      BY <2>2
    <3>6. \A x \in Elements(ds) : IsDropin(x)
      BY <3>4
    <3> HIDE DEF ds, T
    <3> QED BY <1>0, <3>4, <3>5, <3>6 DEF IsFile, Sections
  <2> QED BY <1>4, <2>1, <2>2 DEF EditInclude
<1> QED BY <1>1, <1>2, <1>3, <1>4 DEF Edit

-----------------------------------------------------------------------------
(* What the loader lets through.                                           *)

(* A pool that is accepted passed every check.                             *)
LEMMA AcceptedPool ==
  ASSUME NEW t, NEW names, PoolVerdict(t, names) = "accepted"
  PROVE  /\ t # Scalar
         /\ ArgumentsAreSound(t) /\ TargetIsSound(t) /\ CredentialIsKnown(t, names)
         /\ ModeIsSound(t) /\ SpecIsSound(SpecOf(t))
         /\ Get(t, "volumes", "table") = "table" /\ Get(t, "environment", "plain") = "plain"
         /\ "cpus" \in DOMAIN t => Get(t, "cpus", 1) \notin {Junk, Blank}
<1> DEFINE Sound == /\ ArgumentsAreSound(t) /\ TargetIsSound(t) /\ CredentialIsKnown(t, names)
                    /\ ModeIsSound(t) /\ SpecIsSound(SpecOf(t))
           first == Unless(~Sound, "refused")
<1>1. t # Scalar
  BY DEF PoolVerdict
<1>2. FirstFailure(<<first, TemplateVerdict(t)>>) = "accepted"
  BY <1>1 DEF PoolVerdict
<1>3. first = "accepted" /\ TemplateVerdict(t) = "accepted"
  <2> HIDE DEF first
  <2> DEFINE vs == <<first, TemplateVerdict(t)>>
  <2>1. DOMAIN vs = 1..2 /\ vs[1] = first /\ vs[2] = TemplateVerdict(t)
    OBVIOUS
  <2>2. DOMAIN vs \subseteq Nat /\ 1 \in DOMAIN vs /\ 2 \in DOMAIN vs
    BY <2>1
  <2> HIDE DEF vs
  <2>3. \A i \in DOMAIN vs : vs[i] = "accepted"
    BY <1>2, <2>2, AllAreAccepted DEF vs
  <2> QED BY <2>1, <2>2, <2>3
<1>4. Sound
  <2> HIDE DEF Sound
  <2> QED BY <1>3 DEF Unless
<1> DEFINE v1 == Unless(Get(t, "volumes", "table") # "table", "refused")
           v2 == Unless(Get(t, "environment", "plain") # "plain", "refused")
           v3 == Unless(Get(t, "gpus", Blank) \in {Junk, -1}, "refused")
           v4 == Unless("cpus" \in DOMAIN t /\ Get(t, "cpus", 1) \in {Junk, Blank}, "raised")
           vs == <<v1, v2, v3, v4>>
<1>5. TemplateVerdict(t) = FirstFailure(vs)
  BY DEF TemplateVerdict
<1>6. v1 = "accepted" /\ v2 = "accepted" /\ v4 = "accepted"
  <2> HIDE DEF v1, v2, v3, v4
  <2>1. DOMAIN vs = 1..4 /\ vs[1] = v1 /\ vs[2] = v2 /\ vs[4] = v4
    OBVIOUS
  <2>2. DOMAIN vs \subseteq Nat /\ 1 \in DOMAIN vs /\ 2 \in DOMAIN vs /\ 4 \in DOMAIN vs
    BY <2>1
  <2> HIDE DEF vs
  <2>3. \A i \in DOMAIN vs : vs[i] = "accepted"
    BY <1>3, <1>5, <2>2, AllAreAccepted
  <2> QED BY <2>1, <2>2, <2>3
<1> QED BY <1>1, <1>4, <1>6 DEF Unless

(* A file that is accepted: its pools are, and no two have one name.       *)
LEMMA AcceptedFile ==
  ASSUME NEW f, IsFile(f), Load(f) = "accepted"
  PROVE  /\ \A t \in Elements(Tables(f)) : PoolVerdict(t, Names(f.credentials)) = "accepted"
         /\ NamesDiffer(f) /\ Tables(f) # <<>>
         /\ CapacityVerdict(f.capacity) = "accepted"
<1> DEFINE v3 == Unless(Tables(f) = <<>>, "refused")
           vs == <<DaemonVerdict(f.daemon), HousekeepingVerdict(f.housekeeping), v3,
                   PoolsVerdict(f), CapacityVerdict(f.capacity)>>
<1>1. FirstFailure(vs) = "accepted"
  BY DEF Load
<1>2. v3 = "accepted" /\ PoolsVerdict(f) = "accepted" /\ CapacityVerdict(f.capacity) = "accepted"
  <2> HIDE DEF v3
  <2>1. /\ DOMAIN vs = 1..5 /\ vs[3] = v3 /\ vs[4] = PoolsVerdict(f)
        /\ vs[5] = CapacityVerdict(f.capacity)
    OBVIOUS
  <2>2. DOMAIN vs \subseteq Nat /\ 3 \in DOMAIN vs /\ 4 \in DOMAIN vs /\ 5 \in DOMAIN vs
    BY <2>1
  <2> HIDE DEF vs
  <2>3. \A i \in DOMAIN vs : vs[i] = "accepted"
    BY <1>1, <2>2, AllAreAccepted
  <2> QED BY <2>1, <2>2, <2>3
<1>3. Tables(f) # <<>>
  BY <1>2 DEF Unless
<1> DEFINE each == [i \in DOMAIN Tables(f) |-> PoolVerdict(Tables(f)[i], Names(f.credentials))]
<1>4. FirstFailure(each) = "accepted" /\ NamesDiffer(f)
  <2>1. PoolsVerdict(f) = IF FirstFailure(each) # "accepted" THEN FirstFailure(each)
                            ELSE Unless(~NamesDiffer(f), "refused")
    BY DEF PoolsVerdict
  <2> HIDE DEF each
  <2> QED BY <1>2, <2>1 DEF Unless
<1>5. DOMAIN each \subseteq Nat
  BY TablesAreTables
<1>6. \A i \in DOMAIN each : each[i] = "accepted"
  <2> HIDE DEF each
  <2> QED BY <1>4, <1>5, AllAreAccepted
<1>7. \A t \in Elements(Tables(f)) : PoolVerdict(t, Names(f.credentials)) = "accepted"
  BY <1>6 DEF Elements
<1> QED BY <1>2, <1>3, <1>4, <1>7

(* The numbers of a table are numbers, or what may stand in their place.   *)
LEMMA NumbersAreRead ==
  ASSUME NEW t, IsPoolTable(t), t # Scalar, NEW k \in Numbered, NEW default \in Int
  PROVE  Get(t, k, default) \in Int
BY DEF Get, IsPoolTable, Numbers, Junk, Blank, Unlimited

(* What PoolSpec lets through is what the policies are made for.           *)
LEMMA AcceptedSpec ==
  ASSUME NEW t, IsPoolTable(t), NEW names, PoolVerdict(t, names) = "accepted"
  PROVE  LET s == SpecOf(t) IN
         /\ IsPoolSpec(s)
         /\ WarmCeiling(s) # NoCeiling => Floor(s) <= WarmCeiling(s)
         /\ s.organization # Empty => (s.repositories = Empty) = s.discover
         /\ s.priority >= 1
<1>1. /\ t # Scalar /\ ArgumentsAreSound(t) /\ ModeIsSound(t) /\ SpecIsSound(SpecOf(t))
  BY AcceptedPool
<1> DEFINE s == SpecOf(t)
<1>2. /\ s.pm = Mode(t) /\ s.min_idle = MinIdle(t) /\ s.max_idle = MaxIdle(t)
      /\ s.max_runners = Get(t, "max_runners", 2)
      /\ s.max_launch_per_tick = Get(t, "max_launch_per_tick", 2)
      /\ s.idle_timeout = Get(t, "idle_timeout", 600)
      /\ s.max_job_duration = Get(t, "max_job_duration", 7200)
      /\ s.priority = Priority(t)
  BY DEF SpecOf
<1> HIDE DEF s
<1>3. /\ s.max_runners \in Int /\ s.max_launch_per_tick \in Int
      /\ s.idle_timeout \in Int /\ s.max_job_duration \in Int
  BY <1>1, <1>2, NumbersAreRead DEF Numbered
<1>4. s.min_idle \in Int
  BY <1>1, <1>2, NumbersAreRead DEF Numbered, MinIdle
<1>5. Get(t, "max_idle", Blank) \in Int
  BY <1>1, NumbersAreRead DEF Numbered, Blank
<1>6. "max_idle" \in DOMAIN t => Get(t, "max_idle", Blank) = t["max_idle"]
  BY DEF Get
<1>7. "max_idle" \notin DOMAIN t => Get(t, "max_idle", Blank) = Blank
  BY DEF Get
<1>8. \/ s.max_idle = NoCeiling
      \/ s.pm = "dynamic" /\ s.max_idle \in Int /\ s.max_idle >= s.min_idle
  BY <1>1, <1>2, <1>5, <1>6, <1>7 DEF MaxIdle, ModeIsSound
<1>9. s.pm \in ProcessManager
  BY <1>1, <1>2 DEF ModeIsSound
<1>10. /\ 0 <= s.min_idle /\ s.min_idle <= s.max_runners /\ 1 <= s.max_runners
       /\ 0 < s.idle_timeout /\ 0 < s.max_job_duration /\ 1 <= s.max_launch_per_tick
  BY <1>1 DEF SpecIsSound, s
<1>14. s.organization # Empty => (s.repositories = Empty) = s.discover
  BY <1>1 DEF SpecIsSound, s
<1>11. s.priority >= 1
  <2>1. Priority(t) >= 1
    BY <1>1 DEF ArgumentsAreSound
  <2> QED BY <1>2, <2>1
<1>12. IsPoolSpec(s)
  <2>1. s.max_runners \in Nat \ {0} /\ s.max_launch_per_tick \in Nat \ {0}
    BY <1>3, <1>10
  <2>2. s.min_idle \in 0..s.max_runners
    BY <1>3, <1>4, <1>10
  <2>3. s.idle_timeout \in Nat /\ s.max_job_duration \in Nat
    BY <1>3, <1>10
  <2>4. s.max_idle \in Int /\ (s.max_idle = NoCeiling \/ s.max_idle >= s.min_idle)
    BY <1>8 DEF NoCeiling
  <2> QED BY <1>9, <2>1, <2>2, <2>3, <2>4 DEF IsPoolSpec
<1>13. WarmCeiling(s) # NoCeiling => Floor(s) <= WarmCeiling(s)
  BY <1>4, <1>8 DEF WarmCeiling, Floor
<1> QED BY <1>11, <1>12, <1>13, <1>14 DEF s

(* And what stands in the way of the containers can be met.                *)
LEMMA AcceptedCeiling ==
  ASSUME NEW c, IsCapacity(c), CapacityVerdict(c) = "accepted"
  PROVE  Capacity(c).containers \in {Unset} \cup (Nat \ {0})
<1> DEFINE written == Get(c, "max_containers", Blank)
           v1 == Unless(~IsSize(Get(c, "max_memory", Blank)), "refused")
           v2 == Unless(written = Junk, "raised")
           v3 == Unless(written \in {-1, 0}, "refused")
           v4 == Unless(\/ Get(c, "max_cpus", Blank) \in {Junk, Unlimited, -1, 0}
                        \/ \E k \in HighWater :
                             Get(c, k, Blank) # Blank /\ Get(c, k, Blank) \notin 1..100,
                        "refused")
           vs == <<v1, v2, v3, v4>>
<1>1. FirstFailure(vs) = "accepted"
  BY DEF CapacityVerdict
<1>2. v2 = "accepted" /\ v3 = "accepted"
  <2> HIDE DEF v1, v2, v3, v4
  <2>1. DOMAIN vs = 1..4 /\ vs[2] = v2 /\ vs[3] = v3
    OBVIOUS
  <2>2. DOMAIN vs \subseteq Nat /\ 2 \in DOMAIN vs /\ 3 \in DOMAIN vs
    BY <2>1
  <2> HIDE DEF vs
  <2>3. \A i \in DOMAIN vs : vs[i] = "accepted"
    BY <1>1, <2>2, AllAreAccepted
  <2> QED BY <2>1, <2>2, <2>3
<1>3. written \in Numbers
  BY DEF Get, IsCapacity, Numbers
<1>4. Capacity(c).containers = MaxContainers(c)
  BY DEF Capacity
<1>5. MaxContainers(c) = CASE written = Blank     -> HostCores
                           [] written = Unlimited -> Unset
                           [] OTHER               -> written
  BY DEF MaxContainers
<1>6. written \notin {Junk, -1, 0}
  <2> HIDE DEF written
  <2> QED BY <1>2 DEF Unless
<1> HIDE DEF written
<1> QED BY <1>3, <1>4, <1>5, <1>6, SettingsAssumption DEF Numbers, Blank, Unlimited, Junk, Unset

-----------------------------------------------------------------------------
(* What is in force.                                                       *)

(* The pools of a file that is accepted.                                   *)
UsablePools(pools) ==
  /\ \A p \in Elements(pools) :
       /\ IsPoolSpec(p.spec)
       /\ WarmCeiling(p.spec) # NoCeiling => Floor(p.spec) <= WarmCeiling(p.spec)
       /\ p.spec.organization # Empty => (p.spec.repositories = Empty) = p.spec.discover
       /\ p.spec.priority >= 1
  /\ Cardinality({p.spec.name : p \in Elements(pools)}) = Len(pools)
  /\ pools # <<>>

(* What the loader accepts can be used, and names a credential of the file.*)
LEMMA AcceptedSettings ==
  ASSUME NEW f, IsFile(f), Load(f) = "accepted"
  PROVE  /\ UsablePools(SettingsOf(f).pools)
         /\ SettingsOf(f).capacity.containers \in {Unset} \cup (Nat \ {0})
         /\ \A p \in Elements(SettingsOf(f).pools) : p.credential \in Names(f.credentials)
<1> DEFINE ts == Tables(f)
           pools == [i \in DOMAIN ts |-> Pool(ts[i])]
<1>1. /\ ts \in Seq(Elements(ts)) /\ \A t \in Elements(ts) : IsPoolTable(t)
      /\ \A t \in Elements(ts) : PoolVerdict(t, Names(f.credentials)) = "accepted"
      /\ NamesDiffer(f) /\ ts # <<>>
      /\ CapacityVerdict(f.capacity) = "accepted" /\ IsCapacity(f.capacity)
  BY TablesAreTables, AcceptedFile DEF IsFile
<1>2. SettingsOf(f).pools = pools /\ SettingsOf(f).capacity = Capacity(f.capacity)
  BY DEF SettingsOf
<1>3. Elements(pools) = {Pool(t) : t \in Elements(ts)}
  <2> HIDE DEF ts
  <2> QED BY DEF Elements
<1>4. \A t : /\ Pool(t).spec = SpecOf(t) /\ Pool(t).credential = Credential(t)
             /\ SpecOf(t).name = t["name"]
  BY DEF Pool, SpecOf
<1> HIDE DEF ts
<1>5. ASSUME NEW p \in Elements(pools)
      PROVE  /\ IsPoolSpec(p.spec)
             /\ WarmCeiling(p.spec) # NoCeiling => Floor(p.spec) <= WarmCeiling(p.spec)
             /\ p.spec.organization # Empty => (p.spec.repositories = Empty) = p.spec.discover
             /\ p.spec.priority >= 1
             /\ p.credential \in Names(f.credentials)
  <2>1. PICK t \in Elements(ts) : p = Pool(t)
    BY <1>3
  <2>2. p.spec = SpecOf(t) /\ p.credential = Credential(t)
    BY <1>4, <2>1
  <2>3. Credential(t) \in Names(f.credentials)
    BY <1>1, AcceptedPool DEF CredentialIsKnown
  <2> QED BY <1>1, <2>2, <2>3, AcceptedSpec
<1>6. Len(pools) = Len(ts) /\ pools # <<>>
  <2>1. Len(ts) \in Nat /\ DOMAIN ts = 1..Len(ts) /\ DOMAIN pools = DOMAIN ts
    BY <1>1
  <2>2. Len(ts) # 0
    BY <1>1
  <2>3. pools = [i \in 1..Len(ts) |-> Pool(ts[i])]
    BY <2>1
  <2>4. Len(pools) = Len(ts)
    BY <2>1, <2>3
  <2> HIDE DEF pools
  <2> QED BY <2>2, <2>4
<1>7. {p.spec.name : p \in Elements(pools)} = PoolNames(ts)
  <2> HIDE DEF pools
  <2>1. {p.spec.name : p \in Elements(pools)} = {t["name"] : t \in Elements(ts)}
    BY <1>3, <1>4
  <2> QED BY <2>1 DEF PoolNames, Elements
<1>8. Cardinality(PoolNames(ts)) = Len(ts)
  BY <1>1 DEF NamesDiffer, ts
<1>9. UsablePools(pools)
  <2> HIDE DEF pools
  <2> QED BY <1>5, <1>6, <1>7, <1>8 DEF UsablePools
<1>10. Capacity(f.capacity).containers \in {Unset} \cup (Nat \ {0})
  BY <1>1, AcceptedCeiling
<1> HIDE DEF pools
<1> QED BY <1>2, <1>5, <1>9, <1>10

(* A daemon that runs has such settings in force, each pool with a client; *)
(* and the file, whatever has become of it, is a file.                     *)
SettingsInv ==
  /\ IsFile(file)
  /\ Running =>
       /\ UsablePools(reconciler.pools)
       /\ reconciler.capacity.containers \in {Unset} \cup (Nat \ {0})
       /\ HasRoutes(reconciler.pools)
       /\ settings = reconciler

(* Nothing runs at first.                                                  *)
LEMMA SettingsInvStarts == Init => SettingsInv
BY SettingsAssumption DEF Init, SettingsInv, Running

(* Whatever is edited, started, stopped or put in force.                   *)
LEMMA SettingsInvIsKept == SettingsInv /\ [Next]_vars => SettingsInv'
<1> SUFFICES ASSUME SettingsInv, [Next]_vars PROVE SettingsInv'
  OBVIOUS
<1> USE DEF Running
<1>1. CASE Start
  <2>1. /\ file' = file /\ Load(file) = "accepted" /\ built' = Names(file.credentials)
        /\ settings' = SettingsOf(file) /\ reconciler' = SettingsOf(file)
    BY <1>1 DEF Start
  <2>2. IsFile(file)
    BY DEF SettingsInv
  <2>3. /\ UsablePools(SettingsOf(file).pools)
        /\ SettingsOf(file).capacity.containers \in {Unset} \cup (Nat \ {0})
        /\ \A p \in Elements(SettingsOf(file).pools) : p.credential \in Names(file.credentials)
    BY <2>1, <2>2, AcceptedSettings
  <2>4. HasRoutes(reconciler.pools)'
    BY <2>1, <2>3 DEF HasRoutes, Elements
  <2> QED BY <2>1, <2>2, <2>3, <2>4 DEF SettingsInv
<1>2. CASE ReloadApplied
  <2>1. /\ file' = file /\ Load(file) = "accepted" /\ built' = built
        /\ settings' = SettingsOf(file) /\ reconciler' = SettingsOf(file)
        /\ HasRoutes(SettingsOf(file).pools)
    BY <1>2 DEF ReloadApplied
  <2>2. IsFile(file)
    BY DEF SettingsInv
  <2>3. /\ UsablePools(SettingsOf(file).pools)
        /\ SettingsOf(file).capacity.containers \in {Unset} \cup (Nat \ {0})
    BY <2>1, <2>2, AcceptedSettings
  <2>4. HasRoutes(reconciler.pools)'
    BY <2>1 DEF HasRoutes
  <2> QED BY <2>1, <2>2, <2>3, <2>4 DEF SettingsInv
<1>3. CASE Stop \/ ReloadRejected \/ ReloadRaises
  BY <1>3 DEF Stop, ReloadRejected, ReloadRaises, SettingsInv, HasRoutes
<1>4. CASE Edit
  <2>1. IsFile(file)'
    BY <1>4, FileStaysFile DEF SettingsInv
  <2> QED BY <1>4, <2>1 DEF Edit, SettingsInv, HasRoutes
<1>5. CASE UNCHANGED vars
  BY <1>5 DEF vars, SettingsInv, HasRoutes
<1> QED BY <1>1, <1>2, <1>3, <1>4, <1>5 DEF Next

(* Every pool that a running daemon was ever given is one the policies are *)
(* made for, whatever stood in the file: it meets the assumption on specs  *)
(* that the theorems about plan_scaling and admit rest on.                 *)
THEOREM SpecsAreAlwaysUsable == Spec => []SpecsAreUsable
<1>1. SettingsInv => SpecsAreUsable
  BY DEF SettingsInv, SpecsAreUsable, UsablePools, PoolsInForce
<1> QED BY <1>1, SettingsInvStarts, SettingsInvIsKept, PTL DEF Spec

(* However the file is edited, refused and put in force, every pool that a *)
(* tick goes over has a client, and the two copies of the settings agree.  *)
THEOREM RoutesAlwaysExist == Spec => []RoutesExist
<1>1. SettingsInv => RoutesExist
  BY DEF SettingsInv, RoutesExist, HasRoutes, PoolsInForce, Elements
<1> QED BY <1>1, SettingsInvStarts, SettingsInvIsKept, PTL DEF Spec

(* What plan_scaling promises of a spec, on whichever pool it is shown.    *)
PlansAreSound(s) ==
  \A v, n : IsPoolView(v) /\ n \in Nat =>
    /\ \A R \in Retire(s, v, n) :
         /\ R # {} => Launch(s, v, n) = 0 /\ Cardinality(Idle(v)) - Cardinality(R) >= Floor(s)
         /\ Launch(s, Rest(s, v, R), n) = Launch(s, v, n)
         /\ Retire(s, Rest(s, v, R), n) = {{}}
    /\ FitsPool(s, v) =>
         Launch(s, v, n) + Cardinality(Active(v) \ Terminate(s, v)) <= s.max_runners

(* It is what the theorems on snapshots say of one state.                  *)
LEMMA EveryPlanIsSound ==
  ASSUME NEW s, IsPoolSpec(s)
  PROVE  PlansAreSound(s)
<1> SUFFICES ASSUME NEW v, NEW n, IsPoolView(v), n \in Nat
             PROVE  /\ \A R \in Retire(s, v, n) :
                         /\ R # {} => /\ Launch(s, v, n) = 0
                                      /\ Cardinality(Idle(v)) - Cardinality(R) >= Floor(s)
                         /\ Launch(s, Rest(s, v, R), n) = Launch(s, v, n)
                         /\ Retire(s, Rest(s, v, R), n) = {{}}
                    /\ FitsPool(s, v) =>
                         Launch(s, v, n) + Cardinality(Active(v) \ Terminate(s, v))
                           <= s.max_runners
  BY DEF PlansAreSound
<1>1. ASSUME NEW R \in Retire(s, v, n), R # {}
      PROVE  Launch(s, v, n) = 0 /\ Cardinality(Idle(v)) - Cardinality(R) >= Floor(s)
  <2>1. /\ n = 0 /\ Cardinality(Idle(v)) >= Floor(s)
        /\ Cardinality(Idle(v)) - Cardinality(R) >= Floor(s)
    BY <1>1, ReapingKeepsFloor
  <2>2. Cardinality(Available(s, v)) >= Floor(s)
    <3>1. /\ Cardinality(Idle(v)) \in Nat /\ Cardinality(Available(s, v)) \in Nat
          /\ Cardinality(Idle(v)) <= Cardinality(Available(s, v))
      BY GroupsNest
    <3> QED BY <2>1, <3>1, SpecIsTyped
  <2> QED BY <2>1, <2>2, LaunchIsBounded
<1>2. ASSUME NEW R \in Retire(s, v, n)
      PROVE  /\ Launch(s, Rest(s, v, R), n) = Launch(s, v, n)
             /\ Retire(s, Rest(s, v, R), n) = {{}}
  BY NothingElseToLaunch, NothingMoreToReap
<1>3. ASSUME FitsPool(s, v)
      PROVE  Launch(s, v, n) + Cardinality(Active(v) \ Terminate(s, v)) <= s.max_runners
  <2>1. Launch(s, v, n) \in Nat /\ Launch(s, v, n) <= Headroom(s, v)
    BY LaunchIsBounded
  <2>2. /\ Cardinality(Active(v) \ Overrunning(s, v))
              = Cardinality(Active(v)) - Cardinality(Overrunning(s, v))
        /\ Cardinality(Active(v)) \in Nat /\ Cardinality(Overrunning(s, v)) \in Nat
        /\ s.max_runners \in Nat
    BY GroupsNest, SpecIsTyped
  <2> QED BY <1>3, <2>1, <2>2 DEF FitsPool, Terminate, Headroom, AtLeastZero
<1> QED BY <1>1, <1>2, <1>3

(* Whatever is written, edited and put in force: the plans that are made   *)
(* of a pool in force are sound, so that the theorems on snapshots hold of *)
(* the daemon as it is configured (ReconciliationService._pools).          *)
THEOREM PlansInForceAreSound ==
  Spec => [](Running => \A p \in PoolsInForce : PlansAreSound(p.spec))
<1>1. SettingsInv => (Running => \A p \in PoolsInForce : PlansAreSound(p.spec))
  BY EveryPlanIsSound DEF SettingsInv, UsablePools, PoolsInForce
<1> QED BY <1>1, SettingsInvStarts, SettingsInvIsKept, PTL DEF Spec

-----------------------------------------------------------------------------
(* What is written and what it does.                                       *)

(* A key whose loss shows nowhere said what is the default.                *)
LEMMA KeyTells ==
  ASSUME NEW t, NEW k \in DOMAIN t, NEW default,
         Get(Drop(t, k), k, default) = Get(t, k, default)
  PROVE  t[k] = default
BY DEF Get, Drop

(* A table that lacks a key lacks no other.                                *)
LEMMA KeyIsGone ==
  ASSUME NEW t, NEW k
  PROVE  /\ \A j, default : j # k => Get(Drop(t, k), j, default) = Get(t, j, default)
         /\ \A default : Get(Drop(t, k), k, default) = default
BY DEF Get, Drop

(* What PoolSpec is given can be read off it.                              *)
LEMMA SpecTells ==
  ASSUME NEW t
  PROVE  /\ SpecOf(t).pm = Mode(t)
         /\ SpecOf(t).min_idle = MinIdle(t)
         /\ SpecOf(t).max_idle = MaxIdle(t)
         /\ SpecOf(t).max_runners = Get(t, "max_runners", 2)
         /\ SpecOf(t).max_launch_per_tick = Get(t, "max_launch_per_tick", 2)
         /\ SpecOf(t).idle_timeout = Get(t, "idle_timeout", 600)
         /\ SpecOf(t).max_job_duration = Get(t, "max_job_duration", 7200)
         /\ SpecOf(t).priority = Priority(t)
         /\ SpecOf(t).requires = Get(t, "requires_labels", Empty)
         /\ SpecOf(t).repository = Get(t, "repository", Empty)
         /\ SpecOf(t).organization = Get(t, "organization", Empty)
         /\ SpecOf(t).repositories = Get(t, "repositories", Empty)
         /\ SpecOf(t).group = Get(t, "runner_group", Empty)
BY DEF SpecOf, Required, Repository, Organization, Watched

(* And whether repositories are to be discovered.                          *)
LEMMA DiscoverTells ==
  ASSUME NEW t
  PROVE  SpecOf(t).discover = Get(t, "discover_repositories", FALSE)
<1> DEFINE d == Get(t, "discover_repositories", FALSE)
<1>1. SpecOf(t).discover = d
  <2> HIDE DEF d
  <2> QED BY DEF SpecOf, d
<1> QED BY <1>1

(* Pools that are alike.                                                   *)
LEMMA LikePools ==
  ASSUME NEW t, NEW u, Pool(u) = Pool(t)
  PROVE  /\ SpecOf(u) = SpecOf(t) /\ Credential(u) = Credential(t)
         /\ Get(u, "cpus", Blank) = Get(t, "cpus", Blank) /\ Gpus(u) = Gpus(t)
<1>1. Pool(u).spec = SpecOf(u) /\ Pool(t).spec = SpecOf(t)
  BY DEF Pool
<1>2. Pool(u).credential = Credential(u) /\ Pool(t).credential = Credential(t)
  BY DEF Pool
<1>3. /\ Pool(u).template.cpus = Get(u, "cpus", Blank)
      /\ Pool(t).template.cpus = Get(t, "cpus", Blank)
  BY DEF Pool
<1>4. Pool(u).template.gpus = Gpus(u) /\ Pool(t).template.gpus = Gpus(t)
  BY DEF Pool
<1> QED BY <1>1, <1>2, <1>3, <1>4

(* What is the default, and for which keys there is one.                   *)
LEMMA Defaults ==
  /\ DOMAIN Default = {"pm", "min_idle", "max_idle", "max_runners", "max_launch_per_tick",
       "idle_timeout", "max_job_duration", "priority", "credential", "requires_labels",
       "repository", "organization", "repositories", "discover_repositories", "runner_group",
       "gpus", "environment", "volumes"}
  /\ Default["pm"] = {Empty, "dynamic"} /\ Default["min_idle"] = {0}
  /\ Default["max_idle"] = {Blank} /\ Default["max_runners"] = {2}
  /\ Default["max_launch_per_tick"] = {2} /\ Default["idle_timeout"] = {600}
  /\ Default["max_job_duration"] = {7200} /\ Default["priority"] = {Blank, 1}
  /\ Default["credential"] = {Empty, "default"} /\ Default["requires_labels"] = {Empty}
  /\ Default["repository"] = {Empty} /\ Default["organization"] = {Empty}
  /\ Default["repositories"] = {Empty} /\ Default["runner_group"] = {Empty}
  /\ Default["gpus"] = {Blank, 0} /\ Default["environment"] = {"plain"}
  /\ Default["volumes"] = {"table"}
BY DEF Default

(* Which is also so where it is FALSE.                                     *)
LEMMA DefaultOfDiscover == FALSE \in Default["discover_repositories"]
BY DEF Default

(* Of a pool that is accepted, a key without which it is accepted and the  *)
(* same says what is the default: first the keys of which PoolSpec is told *)
(* what is written.                                                        *)
LEMMA PlainKeyIsDefault ==
  ASSUME NEW t, NEW k \in DOMAIN t, SpecOf(Drop(t, k)) = SpecOf(t),
         k \in {"max_runners", "max_launch_per_tick", "idle_timeout", "max_job_duration",
                "requires_labels", "repository", "organization", "repositories",
                "runner_group"}
  PROVE  k \in DOMAIN Default /\ t[k] \in Default[k]
<1> DEFINE u == Drop(t, k)
<1>1. SpecOf(u) = SpecOf(t)
  OBVIOUS
<1>2. ASSUME NEW default, Get(u, k, default) = Get(t, k, default)
      PROVE  t[k] = default
  BY <1>2, KeyTells
<1> HIDE DEF u
<1>3. CASE k = "max_runners"
  <2>1. Get(u, k, 2) = Get(t, k, 2)
    BY <1>1, <1>3, SpecTells
  <2> QED BY <1>2, <1>3, <2>1, Defaults
<1>4. CASE k = "max_launch_per_tick"
  <2>1. Get(u, k, 2) = Get(t, k, 2)
    BY <1>1, <1>4, SpecTells
  <2> QED BY <1>2, <1>4, <2>1, Defaults
<1>5. CASE k = "idle_timeout"
  <2>1. Get(u, k, 600) = Get(t, k, 600)
    BY <1>1, <1>5, SpecTells
  <2> QED BY <1>2, <1>5, <2>1, Defaults
<1>6. CASE k = "max_job_duration"
  <2>1. Get(u, k, 7200) = Get(t, k, 7200)
    BY <1>1, <1>6, SpecTells
  <2> QED BY <1>2, <1>6, <2>1, Defaults
<1>7. CASE k \in {"requires_labels", "repository", "organization", "repositories",
                  "runner_group"}
  <2>1. Get(u, k, Empty) = Get(t, k, Empty)
    BY <1>1, <1>7, SpecTells
  <2> QED BY <1>2, <1>7, <2>1, Defaults
<1> QED BY <1>3, <1>4, <1>5, <1>6, <1>7

(* Then the mode, under which a process manager is run.                    *)
LEMMA ModeIsDefault ==
  ASSUME NEW t, "pm" \in DOMAIN t, SpecOf(Drop(t, "pm")) = SpecOf(t)
  PROVE  t["pm"] \in {Empty, "dynamic"}
<1>1. Mode(Drop(t, "pm")) = Mode(t)
  BY SpecTells
<1>2. Mode(Drop(t, "pm")) = "dynamic"
  BY KeyIsGone DEF Mode
<1>3. Get(t, "pm", Empty) = t["pm"]
  BY DEF Get
<1> QED BY <1>1, <1>2, <1>3 DEF Mode

(* The idle runners that are kept, which only a dynamic pool may set.      *)
LEMMA IdleKnobsAreDefault ==
  ASSUME NEW t, IsPoolTable(t), t # Scalar, ModeIsSound(t), 0 <= MinIdle(t),
         NEW k \in {"min_idle", "max_idle"}, k \in DOMAIN t, SpecOf(Drop(t, k)) = SpecOf(t)
  PROVE  k \in DOMAIN Default /\ t[k] \in Default[k]
<1> DEFINE u == Drop(t, k)
<1>1. Mode(t) = "dynamic"
  BY DEF ModeIsSound, IdleKnobs, ProcessManager
<1>2. Mode(u) = "dynamic" /\ MinIdle(u) = MinIdle(t) /\ MaxIdle(u) = MaxIdle(t)
  BY <1>1, SpecTells
<1>3. \A default : Get(u, k, default) = default /\ Get(t, k, default) = t[k]
  BY KeyIsGone DEF Get
<1> HIDE DEF u
<1>4. CASE k = "min_idle"
  <2>1. MinIdle(u) = Get(u, k, 0) /\ MinIdle(t) = Get(t, k, 0)
    BY <1>1, <1>2, <1>4 DEF MinIdle
  <2>2. t[k] = 0
    BY <1>2, <1>3, <2>1
  <2> QED BY <1>4, <2>2, Defaults
<1>5. CASE k = "max_idle"
  <2>1. Get(u, "max_idle", Blank) = Blank /\ Get(t, "max_idle", Blank) = t["max_idle"]
    BY <1>3, <1>5
  <2>2. MaxIdle(t) = NoCeiling
    BY <1>2, <2>1 DEF MaxIdle
  <2>3. ASSUME t["max_idle"] # Blank PROVE FALSE
    <3>1. MaxIdle(t) = t["max_idle"] /\ MaxIdle(t) >= MinIdle(t)
      BY <1>1, <2>1, <2>3 DEF MaxIdle, ModeIsSound
    <3>2. MinIdle(t) \in Int
      BY <1>1, NumbersAreRead DEF MinIdle, Numbered
    <3> QED BY <2>2, <3>1, <3>2 DEF NoCeiling
  <2> QED BY <1>5, <2>3, Defaults
<1> QED BY <1>4, <1>5

(* The keys that are mended when they say nothing.                         *)
LEMMA MendedKeyIsDefault ==
  ASSUME NEW t, NEW k \in {"priority", "credential", "gpus"}, k \in DOMAIN t,
         Pool(Drop(t, k)) = Pool(t)
  PROVE  k \in DOMAIN Default /\ t[k] \in Default[k]
<1> DEFINE u == Drop(t, k)
<1>1. /\ SpecOf(u) = SpecOf(t) /\ Credential(u) = Credential(t) /\ Gpus(u) = Gpus(t)
  BY LikePools
<1>2. Priority(u) = Priority(t)
  BY <1>1, SpecTells
<1>3. \A default : Get(u, k, default) = default /\ Get(t, k, default) = t[k]
  BY KeyIsGone DEF Get
<1> HIDE DEF u
<1>4. CASE k = "priority"
  <2>1. Get(u, "priority", Blank) = Blank /\ Get(t, "priority", Blank) = t["priority"]
    BY <1>3, <1>4
  <2>2. t["priority"] \in {Blank, 1}
    BY <1>2, <2>1 DEF Priority
  <2> QED BY <1>4, <2>2, Defaults
<1>5. CASE k = "credential"
  <2>1. Get(u, "credential", Empty) = Empty /\ Get(t, "credential", Empty) = t["credential"]
    BY <1>3, <1>5
  <2>2. t["credential"] \in {Empty, "default"}
    BY <1>1, <2>1 DEF Credential
  <2> QED BY <1>5, <2>2, Defaults
<1>6. CASE k = "gpus"
  <2>1. Get(u, "gpus", Blank) = Blank /\ Get(t, "gpus", Blank) = t["gpus"]
    BY <1>3, <1>6
  <2>2. t["gpus"] \in {Blank, 0}
    BY <1>1, <2>1 DEF Gpus, Blank
  <2> QED BY <1>6, <2>2, Defaults
<1> QED BY <1>4, <1>5, <1>6

(* And all of them: a name, labels or an image cannot be done without, and *)
(* a number of cores that is written is none that could be left out.       *)
LEMMA NoKeyIsIdle ==
  ASSUME NEW t, IsPoolTable(t), NEW names, PoolVerdict(t, names) = "accepted",
         NEW k \in DOMAIN t,
         PoolVerdict(Drop(t, k), names) = "accepted", Pool(Drop(t, k)) = Pool(t)
  PROVE  k \in DOMAIN Default /\ t[k] \in Default[k]
<1> DEFINE u == Drop(t, k)
<1>1. t # Scalar /\ ModeIsSound(t) /\ ArgumentsAreSound(u)
  BY AcceptedPool
<1>2. 0 <= MinIdle(t)
  <2>1. SpecIsSound(SpecOf(t))
    BY AcceptedPool
  <2>2. 0 <= SpecOf(t).min_idle
    BY <2>1 DEF SpecIsSound
  <2> QED BY <2>2, SpecTells
<1>3. k \in PoolKeys
  BY <1>1 DEF IsPoolTable
<1>4. SpecOf(u) = SpecOf(t) /\ Get(u, "cpus", Blank) = Get(t, "cpus", Blank)
  BY LikePools
<1>5. CASE k \in {"name", "labels", "image"}
  <2>1. Get(u, k, Empty) = Empty /\ Get(u, k, "none") = "none"
    BY KeyIsGone
  <2> HIDE DEF u
  <2>2. /\ Get(u, "name", Empty) # Empty /\ Get(u, "labels", "none") # "none"
        /\ Get(u, "image", Empty) # Empty
    BY <1>1 DEF ArgumentsAreSound
  <2> QED BY <1>5, <2>1, <2>2
<1>6. CASE k \in {"max_runners", "max_launch_per_tick", "idle_timeout", "max_job_duration",
                  "requires_labels", "repository", "organization", "repositories",
                  "runner_group"}
  BY <1>4, <1>6, PlainKeyIsDefault
<1>7. CASE k = "pm"
  BY <1>4, <1>7, ModeIsDefault, Defaults
<1>8. CASE k \in {"min_idle", "max_idle"}
  BY <1>1, <1>2, <1>4, <1>8, IdleKnobsAreDefault
<1>9. CASE k \in {"priority", "credential", "gpus"}
  BY <1>9, MendedKeyIsDefault
<1>10. CASE k = "discover_repositories"
  <2>1. Get(u, k, FALSE) = Get(t, k, FALSE)
    BY <1>4, <1>10, DiscoverTells
  <2>2. t[k] = FALSE
    BY <2>1, KeyTells
  <2>3. k \in DOMAIN Default
    BY <1>10, Defaults
  <2> QED BY <1>10, <2>2, <2>3, DefaultOfDiscover
<1>11. CASE k = "cpus"
  <2>1. Get(u, k, Blank) = Blank
    BY KeyIsGone
  <2>2. Get(t, k, Blank) = t[k] /\ Get(t, k, 1) = t[k]
    BY DEF Get
  <2>3. Get(t, k, 1) # Blank
    BY <1>11, AcceptedPool
  <2> HIDE DEF u
  <2> QED BY <1>4, <1>11, <2>1, <2>2, <2>3
<1>12. CASE k \in {"environment", "volumes"}
  <2>1. \A default : Get(t, k, default) = t[k]
    BY DEF Get
  <2>2. Get(t, "volumes", "table") = "table" /\ Get(t, "environment", "plain") = "plain"
    BY AcceptedPool
  <2> QED BY <1>12, <2>1, <2>2, Defaults
<1> HIDE DEF u
<1> QED BY <1>3, <1>5, <1>6, <1>7, <1>8, <1>9, <1>10, <1>11, <1>12 DEF PoolKeys, Numbered

(* However a file is edited: if it is accepted, each key that is written   *)
(* in one of its pools changes what is loaded or says what is the default. *)
THEOREM NothingWrittenIsEverIdle == Spec => []NothingWrittenIsIdle
<1>1. SettingsInv => NothingWrittenIsIdle
  <2> SUFFICES ASSUME SettingsInv, Load(file) = "accepted",
                      NEW t \in Elements(Tables(file)), NEW k \in DOMAIN t
               PROVE  \/ PoolVerdict(Drop(t, k), Names(file.credentials)) # "accepted"
                      \/ Pool(Drop(t, k)) # Pool(t)
                      \/ k \in DOMAIN Default /\ t[k] \in Default[k]
    BY DEF NothingWrittenIsIdle
  <2>1. IsFile(file)
    BY DEF SettingsInv
  <2>2. IsPoolTable(t) /\ PoolVerdict(t, Names(file.credentials)) = "accepted"
    BY <2>1, TablesAreTables, AcceptedFile
  <2> QED BY <2>2, NoKeyIsIdle
<1> QED BY <1>1, SettingsInvStarts, SettingsInvIsKept, PTL DEF Spec
=============================================================================
