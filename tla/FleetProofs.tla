---------------------------- MODULE FleetProofs ----------------------------
(***************************************************************************)
(* Why a lone pass tears down no build, sweeps away no registration that   *)
(* is tracked, and starts no container off the record: what a pass has     *)
(* read stays true enough of the world for as long as it acts on it,       *)
(* although the world moves and operators stop runners in the meantime.    *)
(***************************************************************************)
EXTENDS FleetProperties, PolicyLemmas

-----------------------------------------------------------------------------
(* Types: any number of concurrent passes and operators, any failures.     *)

(* _move_to keeps an object an object.                                     *)
LEMMA MovedIsTyped ==
  ASSUME NEW w \in Row, NEW s \in RunnerState \cup {Absent}
  PROVE  MovedTo(w, s) \in Row
BY DEF MovedTo, Row

(* save, likewise, keeps the store a store of rows.                        *)
LEMMA SavedIsTyped ==
  ASSUME row \in [Runners -> Row], NEW r \in Runners, NEW w \in Row
  PROVE  Saved(r, w) \in [Runners -> Row]
BY DEF Saved, Row

(* What GitHub lists after a deletion, or after a runner is gone.          *)
LEMMA RegistrationsAreTyped ==
  ASSUME reg \in [Runners -> RegState], NEW r \in Runners
  PROVE  Deleted(r) \in [Runners -> RegState] /\ Dropped(r) \in [Runners -> RegState]
BY DEF Deleted, Dropped, RegState

(* A verdict is to wait, to retire, or a state to be in.                   *)
LEMMA VerdictIsTyped ==
  ASSUME NEW w \in Row, NEW c \in ContainerState, NEW l \in RegState
  PROVE  Verdict(w, c, l) \in {"wait", "retire"} \cup RunnerState \cup {Absent}
BY DEF Verdict, Row, RegState, ContainerState, RunnerState

(* A call that works or fails keeps the count of failures within bounds.   *)
LEMMA FailuresAreCounted ==
  ASSUME TypeOK, Works \/ Fails
  PROVE  faults' \in 0 .. MaxFaults
BY FleetAssumption DEF TypeOK, Works, Fails

(* Initially there is nothing, which is typed.                             *)
LEMMA StartIsTyped == Init => TypeOK
BY FleetAssumption DEF Init, TypeOK, NoWork, NoRow, Row, Unseen, NoCount, NoRetirement,
   ContainerState, RegState, Phase, RetireStep, ProvStep

(* Giving a pool up leaves the memory typed.                               *)
LEMMA DroppingIsTyped ==
  ASSUME TypeOK, NEW t \in Activities, PoolDropped(t)
  PROVE  /\ pc' \in [Activities -> Phase]
         /\ seen' \in [Activities -> [Runners -> ContainerState]]
         /\ todo' \in [Activities -> SUBSET Pools]
         /\ cur' \in [Activities -> Pools \cup {NoPool}]
         /\ work' \in [Activities -> [Runners -> Row]]
         /\ listed' \in [Activities -> [Runners -> RegState]]
         /\ jobs' \in [Activities -> 0 .. MaxQueued]
         /\ todoR' \in [Activities -> SUBSET Runners]
         /\ ret' \in [Activities -> [runner : Runners \cup {NoRunner},
                                     step : RetireStep, force : BOOLEAN]]
         /\ \A u \in Activities : ret'[u].step # "none" => ret'[u].runner \in Runners
         /\ want' \in [Activities -> [Pools -> Nat]]
         /\ held' \in [Activities -> [Pools -> Nat]]
         /\ prov' \in [Runners -> ProvStep]
BY FleetAssumption DEF TypeOK, PoolDropped, NoWork, NoRow, Row, Unseen, NoRetirement,
   RegState, Phase, RetireStep

(* What happens outside the process.                                       *)
LEMMA WorldIsTyped ==
  ASSUME TypeOK, NEW r \in Runners, World(r)
  PROVE TypeOK'
<1>1. CASE Boot(r)
  BY <1>1 DEF Boot, TypeOK, memory, RegState
<1>2. CASE TakeJob(r)
  <2>1. PoolOf[r] \in Pools /\ MaxQueued \in Nat
    BY FleetAssumption
  <2>2. queued[PoolOf[r]] - 1 \in 0 .. MaxQueued
    BY <1>2, <2>1 DEF TakeJob, TypeOK
  <2>3. queued' \in [Pools -> 0 .. MaxQueued]
    BY <1>2, <2>1, <2>2 DEF TakeJob, TypeOK
  <2>4. reg' \in [Runners -> RegState]
    BY <1>2 DEF TakeJob, TypeOK, RegState
  <2> QED BY <1>2, <2>3, <2>4 DEF TakeJob, TypeOK, memory
<1>3. CASE FinishJob(r)
  BY <1>3 DEF FinishJob, TypeOK, memory, RegState
<1>4. CASE Exit(r)
  BY <1>4 DEF Exit, TypeOK, memory, ContainerState
<1>5. CASE Accident(r)
  BY <1>5, FailuresAreCounted, RegistrationsAreTyped
  DEF Accident, TypeOK, memory, ContainerState
<1>6. CASE Disconnect(r)
  BY <1>6, FailuresAreCounted DEF Disconnect, TypeOK, memory, RegState
<1>7. CASE Elapse(r)
  <2>1. row[r] \in Row
    BY DEF TypeOK
  <2>2. [row[r] EXCEPT !.aged = TRUE] \in Row
    BY <2>1 DEF Row
  <2>3. row' \in [Runners -> Row]
    BY <1>7, <2>2 DEF Elapse, TypeOK
  <2> QED BY <1>7, <2>3 DEF Elapse, TypeOK, memory
<1>8. CASE Prune(r)
  BY <1>8 DEF Prune, TypeOK, memory, Row, NoRow
<1> QED BY <1>1, <1>2, <1>3, <1>4, <1>5, <1>6, <1>7, <1>8 DEF World

(* A killed process forgets everything, which is typed too.                *)
LEMMA CrashIsTyped ==
  ASSUME TypeOK, Crash
  PROVE  TypeOK'
<1>1. row' \in [Runners -> Row]
  <2>1. NoWork \in [Runners -> Row]
    BY DEF NoWork, NoRow, Row
  <2>2. row' = row \/ row' = NoWork
    BY DEF Crash
  <2> QED BY <2>1, <2>2 DEF TypeOK
<1>2. faults' \in 0 .. MaxFaults
  BY FailuresAreCounted DEF Crash
<1> QED BY <1>1, <1>2, FleetAssumption
  DEF Crash, TypeOK, NoWork, NoRow, Row, Unseen, NoCount, NoRetirement,
      ContainerState, RegState, Phase, RetireStep, ProvStep

(* A retirement starts at the first call there is something to do for.     *)
LEMMA RetiringIsTyped ==
  ASSUME TypeOK, NEW t \in Activities, NEW r \in Runners, NEW w, NEW force \in BOOLEAN,
         Retiring(t, r, w, force)
  PROVE  /\ ret' \in [Activities -> [runner : Runners \cup {NoRunner},
                                     step : RetireStep, force : BOOLEAN]]
         /\ \A u \in Activities : ret'[u].step # "none" => ret'[u].runner \in Runners
BY DEF TypeOK, Retiring, FirstStep, RetireStep

(* A retirement goes from call to call for the same runner.                *)
LEMMA NextCallIsTyped ==
  ASSUME TypeOK, NEW t \in Activities, NEW s \in RetireStep,
         ret[t].step # "none", ret' = [ret EXCEPT ![t].step = s]
  PROVE  /\ ret' \in [Activities -> [runner : Runners \cup {NoRunner},
                                     step : RetireStep, force : BOOLEAN]]
         /\ \A u \in Activities : ret'[u].step # "none" => ret'[u].runner \in Runners
<1> DEFINE Ret == [runner : Runners \cup {NoRunner}, step : RetireStep, force : BOOLEAN]
<1>1. ret[t] \in Ret /\ ret[t].runner \in Runners
  BY DEF TypeOK
<1>2. [ret[t] EXCEPT !.step = s] \in Ret /\ [ret[t] EXCEPT !.step = s].runner \in Runners
  BY <1>1
<1>3. ret' = [ret EXCEPT ![t] = [ret[t] EXCEPT !.step = s]]
  BY <1>1 DEF TypeOK
<1> HIDE DEF Ret
<1>4. ret \in [Activities -> Ret]
  BY DEF TypeOK, Ret
<1>5. ret' \in [Activities -> Ret]
  BY <1>2, <1>3, <1>4
<1>6. \A u \in Activities : ret'[u].step # "none" => ret'[u].runner \in Runners
  BY <1>2, <1>3, <1>4 DEF TypeOK
<1> QED BY <1>5, <1>6 DEF Ret

(* RetireRunner, whoever runs it.                                          *)
LEMMA RetireIsTyped ==
  ASSUME TypeOK, NEW t \in Activities, RetireNext(t)
  PROVE  TypeOK'
<1>1. ASSUME ret[t].step # "none"
      PROVE  ret[t].runner \in Runners /\ work[t][ret[t].runner] \in Row
  BY <1>1 DEF TypeOK
<1>2. CASE RetireStop(t)
  <2> DEFINE r == ret[t].runner
  <2>1. r \in Runners /\ ret[t].step # "none"
    BY <1>1, <1>2 DEF RetireStop
  <2>2. ctr' \in [Runners -> ContainerState]
    BY <1>2, <2>1, ZenonT(20) DEF RetireStop, TypeOK, ContainerState
  <2>3. reg' \in {reg, Dropped(r)}
    BY <1>2 DEF RetireStop
  <2>4. reg' \in [Runners -> RegState]
    BY <2>1, <2>3, RegistrationsAreTyped DEF TypeOK
  <2>5. faults' \in 0 .. MaxFaults
    BY <1>2, FailuresAreCounted DEF RetireStop
  <2>6. \E s \in RetireStep : ret' = [ret EXCEPT ![t].step = s]
    BY <1>2 DEF RetireStop, RetireStep
  <2>7. /\ ret' \in [Activities -> [runner : Runners \cup {NoRunner},
                                    step : RetireStep, force : BOOLEAN]]
        /\ \A u \in Activities : ret'[u].step # "none" => ret'[u].runner \in Runners
    BY <2>1, <2>6, NextCallIsTyped
  <2> QED BY <1>2, <2>2, <2>4, <2>5, <2>7 DEF RetireStop, TypeOK
<1>3. CASE RetireRemove(t)
  <2> DEFINE r == ret[t].runner
  <2>1. r \in Runners /\ ret[t].step # "none"
    BY <1>1, <1>3 DEF RetireRemove
  <2>2. ctr' \in [Runners -> ContainerState]
    BY <1>3, <2>1 DEF RetireRemove, TypeOK, ContainerState
  <2>3. reg' \in {reg, Dropped(r)}
    BY <1>3 DEF RetireRemove
  <2>4. reg' \in [Runners -> RegState]
    BY <2>1, <2>3, RegistrationsAreTyped DEF TypeOK
  <2>5. faults' \in 0 .. MaxFaults
    BY <1>3, FailuresAreCounted DEF RetireRemove
  <2>6. \E s \in RetireStep : ret' = [ret EXCEPT ![t].step = s]
    BY <1>3 DEF RetireRemove, RetireStep
  <2>7. /\ ret' \in [Activities -> [runner : Runners \cup {NoRunner},
                                    step : RetireStep, force : BOOLEAN]]
        /\ \A u \in Activities : ret'[u].step # "none" => ret'[u].runner \in Runners
    BY <2>1, <2>6, NextCallIsTyped
  <2> QED BY <1>3, <2>2, <2>4, <2>5, <2>7 DEF RetireRemove, TypeOK
<1>4. CASE RetireDereg(t)
  <2> DEFINE r == ret[t].runner
  <2>1. r \in Runners /\ ret[t].step # "none"
    BY <1>1, <1>4 DEF RetireDereg
  <2>3. reg' \in {reg, Deleted(r)}
    BY <1>4 DEF RetireDereg
  <2>4. reg' \in [Runners -> RegState]
    BY <2>1, <2>3, RegistrationsAreTyped DEF TypeOK
  <2>5. faults' \in 0 .. MaxFaults
    BY <1>4, FailuresAreCounted DEF RetireDereg
  <2>6. \E s \in RetireStep : ret' = [ret EXCEPT ![t].step = s]
    BY <1>4 DEF RetireDereg, RetireStep
  <2>7. /\ ret' \in [Activities -> [runner : Runners \cup {NoRunner},
                                    step : RetireStep, force : BOOLEAN]]
        /\ \A u \in Activities : ret'[u].step # "none" => ret'[u].runner \in Runners
    BY <2>1, <2>6, NextCallIsTyped
  <2> QED BY <1>4, <2>4, <2>5, <2>7 DEF RetireDereg, TypeOK
<1>5. CASE RetireSave(t)
  <2> DEFINE r == ret[t].runner
             w == MovedTo(work[t][r], "retired")
  <2>1. r \in Runners /\ w \in Row
    BY <1>1, <1>5, MovedIsTyped DEF RetireSave, RunnerState
  <2>2. row' = Saved(r, w) /\ UNCHANGED <<ctr, reg, queued, faults>>
    BY <1>5 DEF RetireSave
  <2>3. row' \in [Runners -> Row]
    BY <2>1, <2>2, SavedIsTyped DEF TypeOK
  <2>4. CASE pc[t] = "stop"
    <3>1. PoolDropped(t)
      BY <1>5, <2>4 DEF RetireSave
    <3> QED BY <2>2, <2>3, <3>1, DroppingIsTyped DEF TypeOK
  <2>5. CASE pc[t] # "stop"
    <3>1. /\ work' = [work EXCEPT ![t][r] = w]
          /\ todoR' = [todoR EXCEPT ![t] = @ \ {r}]
          /\ ret' = [ret EXCEPT ![t] = NoRetirement]
          /\ UNCHANGED <<pc, seen, todo, cur, listed, jobs, want, held, prov>>
      BY <1>5, <2>5 DEF RetireSave
    <3> HIDE DEF r, w
    <3> QED BY <2>1, <2>2, <2>3, <3>1 DEF TypeOK, NoRetirement, RetireStep
  <2> QED BY <2>4, <2>5
<1>6. CASE RetireRefused(t)
  BY <1>6, DroppingIsTyped DEF RetireRefused, world, TypeOK
<1> QED BY <1>2, <1>3, <1>4, <1>5, <1>6 DEF RetireNext

(* What Adopt writes for each runner it has no row of.                     *)
LEMMA AdoptedIsTyped ==
  ASSUME row \in [Runners -> Row], work \in [Activities -> [Runners -> Row]],
         NEW t \in Activities, Adopt(t)
  PROVE  row' \in [Runners -> Row] /\ work' \in [Activities -> [Runners -> Row]]
<1> DEFINE unknown == {r \in Runners : /\ PoolOf[r] = cur[t]
                                       /\ seen[t][r] # "none"
                                       /\ work[t][r].state = Absent}
           new(old) == [r \in unknown |->
             IF seen[t][r] = "running"
               THEN [state |-> "idle", aged |-> r \in old, gid |-> TRUE, cid |-> TRUE]
               ELSE [state |-> "failed", aged |-> FALSE, gid |-> TRUE, cid |-> TRUE]]
<1>1. PICK old \in SUBSET {r \in unknown : seen[t][r] = "running"} :
        /\ row' = [r \in Runners |-> IF r \in unknown THEN new(old)[r] ELSE row[r]]
        /\ work' = [work EXCEPT ![t] =
             [r \in Runners |-> IF r \in unknown THEN new(old)[r] ELSE work[t][r]]]
  BY DEF Adopt
<1>2. \A r \in unknown : new(old)[r] \in Row
  BY DEF Row, RunnerState
<1> HIDE DEF unknown, new
<1>3. row' \in [Runners -> Row]
  BY <1>1, <1>2
<1>4. [r \in Runners |-> IF r \in unknown THEN new(old)[r] ELSE work[t][r]]
        \in [Runners -> Row]
  BY <1>2
<1>5. work' \in [Activities -> [Runners -> Row]]
  BY <1>1, <1>4
<1> QED BY <1>3, <1>5

(* A pass observing one pool.                                              *)
LEMMA ObservingIsTyped ==
  ASSUME TypeOK, NEW t \in Tickers,
         \/ BeginTick(t) \/ ReadForge(t) \/ Adopt(t) \/ EndSettle(t)
         \/ \E p \in Pools : ReadRows(t, p)
         \/ \E r \in Runners : Settle(t, r) \/ Sweep(t, r)
  PROVE  TypeOK'
<1>0. t \in Activities
  BY DEF Activities
<1>1. CASE BeginTick(t)
  <2>1. faults' \in 0 .. MaxFaults
    BY <1>1, FailuresAreCounted DEF BeginTick
  <2>2. pc' \in [Activities -> Phase]
    <3>1. pc' = [pc EXCEPT ![t] = "pools"] \/ pc' = pc
      BY <1>1 DEF BeginTick
    <3> QED BY <1>0, <3>1 DEF TypeOK, Phase
  <2>3. seen' \in [Activities -> [Runners -> ContainerState]]
    BY <1>0, <1>1 DEF BeginTick, TypeOK
  <2>4. todo' \in [Activities -> SUBSET Pools]
    BY <1>0, <1>1, ZenonT(20) DEF BeginTick, TypeOK
  <2> QED BY <1>1, <2>1, <2>2, <2>3, <2>4 DEF BeginTick, TypeOK
<1>2. CASE \E p \in Pools : ReadRows(t, p)
  <2>1. PICK p \in Pools : ReadRows(t, p)
    BY <1>2
  <2>2. faults' \in 0 .. MaxFaults
    BY <2>1, FailuresAreCounted DEF ReadRows
  <2>3. [r \in Runners |-> IF PoolOf[r] = p /\ IsLive(row[r]) THEN row[r] ELSE NoRow]
          \in [Runners -> Row]
    BY DEF TypeOK, NoRow, Row
  <2>4. work' \in [Activities -> [Runners -> Row]]
    BY <1>0, <2>1, <2>3 DEF ReadRows, TypeOK
  <2>5. pc' \in [Activities -> Phase]
    BY <1>0, <2>1 DEF ReadRows, TypeOK, Phase
  <2>6. todo' \in [Activities -> SUBSET Pools]
    BY <1>0, <2>1 DEF ReadRows, TypeOK
  <2>7. cur' \in [Activities -> Pools \cup {NoPool}]
    BY <1>0, <2>1, SMTT(20) DEF ReadRows, TypeOK
  <2>8. jobs' \in [Activities -> 0 .. MaxQueued]
    <3>1. queued[p] \in 0 .. MaxQueued
      BY DEF TypeOK
    <3> QED BY <1>0, <2>1, <3>1 DEF ReadRows, TypeOK
  <2> QED BY <2>1, <2>2, <2>4, <2>5, <2>6, <2>7, <2>8 DEF ReadRows, TypeOK
<1>3. CASE ReadForge(t)
  <2>1. faults' \in 0 .. MaxFaults
    BY <1>3, FailuresAreCounted DEF ReadForge
  <2>2. CASE PoolDropped(t)
    BY <1>0, <1>3, <2>1, <2>2, DroppingIsTyped DEF ReadForge, TypeOK
  <2>3. CASE ~PoolDropped(t)
    <3>1. [r \in Runners |-> IF TargetOf[PoolOf[r]] = TargetOf[cur[t]]
                                THEN reg[r] ELSE "none"] \in [Runners -> RegState]
      BY DEF TypeOK, RegState
    <3>2. listed' \in [Activities -> [Runners -> RegState]]
      BY <1>0, <1>3, <2>3, <3>1 DEF ReadForge, TypeOK
    <3>3. pc' \in [Activities -> Phase]
      BY <1>0, <1>3, <2>3 DEF ReadForge, TypeOK, Phase
    <3> QED BY <1>3, <2>1, <2>3, <3>2, <3>3 DEF ReadForge, TypeOK
  <2> QED BY <2>2, <2>3
<1>4. CASE Adopt(t)
  <2>1. /\ row' \in [Runners -> Row]
        /\ work' \in [Activities -> [Runners -> Row]]
    BY <1>0, <1>4, AdoptedIsTyped DEF TypeOK
  <2>2. pc' \in [Activities -> Phase] /\ todoR' \in [Activities -> SUBSET Runners]
    BY <1>0, <1>4 DEF Adopt, TypeOK, Phase
  <2> QED BY <1>4, <2>1, <2>2 DEF Adopt, TypeOK
<1>5. CASE EndSettle(t)
  <2>1. pc' \in [Activities -> Phase] /\ todoR' \in [Activities -> SUBSET Runners]
    BY <1>0, <1>5 DEF EndSettle, TypeOK, Strays, Phase
  <2> QED BY <1>5, <2>1 DEF EndSettle, TypeOK, world
<1>6. CASE \E r \in Runners : Settle(t, r)
  <2>1. PICK r \in Runners : Settle(t, r)
    BY <1>6
  <2> DEFINE w == MovedTo(work[t][r], VerdictOn(t, r))
  <2>2. CASE SettleWait(t, r)
    <3>1. CASE PoolDropped(t)
      BY <1>0, <2>2, <3>1, DroppingIsTyped DEF SettleWait, world, TypeOK
    <3>2. CASE ~PoolDropped(t)
      <4>1. todoR' = [todoR EXCEPT ![t] = @ \ {r}]
        BY <2>2, <3>2 DEF SettleWait
      <4>2. todoR' \in [Activities -> SUBSET Runners]
        BY <1>0, <4>1 DEF TypeOK
      <4> QED BY <2>2, <3>2, <4>2 DEF SettleWait, world, TypeOK
    <3> QED BY <3>1, <3>2
  <2>3. CASE SettleRetire(t, r)
    BY <1>0, <2>3, RetiringIsTyped DEF SettleRetire, world, TypeOK
  <2>4. CASE SettleMove(t, r)
    <3>1. w \in Row
      BY <1>0, <2>4, VerdictIsTyped, MovedIsTyped DEF SettleMove, VerdictOn, TypeOK
    <3>2. row' \in [Runners -> Row]
      BY <2>4, <3>1, SavedIsTyped DEF SettleMove, TypeOK
    <3>3. CASE PoolDropped(t)
      BY <1>0, <2>4, <3>2, <3>3, DroppingIsTyped DEF SettleMove, TypeOK
    <3>4. CASE ~PoolDropped(t)
      <4>1. /\ work' = [work EXCEPT ![t][r] = w]
            /\ todoR' = [todoR EXCEPT ![t] = @ \ {r}]
            /\ UNCHANGED <<ctr, reg, queued, faults, pc, seen, todo, cur, listed,
                           jobs, ret, want, held, prov>>
        BY <2>4, <3>4 DEF SettleMove
      <4> HIDE DEF w
      <4> QED BY <1>0, <3>1, <3>2, <4>1 DEF TypeOK
    <3> QED BY <3>3, <3>4
  <2>5. CASE SettleRefused(t, r)
    BY <1>0, <2>5, DroppingIsTyped DEF SettleRefused, world, TypeOK
  <2> QED BY <2>1, <2>2, <2>3, <2>4, <2>5 DEF Settle
<1>7. CASE \E r \in Runners : Sweep(t, r)
  <2>1. PICK r \in Runners : Sweep(t, r)
    BY <1>7
  <2>2. faults' \in 0 .. MaxFaults
    BY <2>1, FailuresAreCounted DEF Sweep
  <2>3. reg' \in [Runners -> RegState]
    BY <2>1, RegistrationsAreTyped DEF Sweep, TypeOK
  <2> QED BY <1>0, <2>1, <2>2, <2>3 DEF Sweep, TypeOK
<1> QED BY <1>1, <1>2, <1>3, <1>4, <1>5, <1>6, <1>7

(* Whom plan_scaling retires is idle, whatever the spec says.              *)
LEMMA RetiredAreIdle ==
  ASSUME NEW s, NEW v, NEW n, NEW R \in Retire(s, v, n)
  PROVE  R \subseteq Idle(v)
<1>1. CASE MayReap(s, n)
  <2>1. PICK going \in BeyondTimeout(s, v) :
          \E surplus \in AboveCeiling(s, v, going) : R = going \cup surplus
    BY <1>1 DEF Retire
  <2>2. going \subseteq Idle(v)
    BY <2>1 DEF BeyondTimeout, LongestIdle
  <2>3. \A surplus \in AboveCeiling(s, v, going) : surplus \subseteq Idle(v)
    BY DEF AboveCeiling, LongestIdle
  <2> QED BY <2>1, <2>2, <2>3
<1>2. CASE ~MayReap(s, n)
  BY <1>2 DEF Retire
<1> QED BY <1>1, <1>2

(* plan_scaling on what a pass has settled: whom it takes down is known,   *)
(* and what it launches is a number.                                       *)
LEMMA PlanIsTyped ==
  ASSUME TypeOK, NEW t \in Tickers, PlanPool(t)
  PROVE  TypeOK'
<1> DEFINE known == {r \in Runners : IsLive(work[t][r])}
           spec == PoolSpec[cur[t]]
<1>0. t \in Activities
  BY DEF Activities
<1>1. DOMAIN View(t).state = known
  BY DEF View
<1>2. Terminate(spec, View(t)) \subseteq Runners /\ Idle(View(t)) \subseteq Runners
  BY <1>1 DEF Terminate, Overrunning, Idle, InState
<1>3. ASSUME NEW idle \in Retire(spec, View(t), jobs[t]) PROVE idle \subseteq Runners
  <2>1. idle \subseteq Idle(View(t))
    BY RetiredAreIdle
  <2> QED BY <2>1, <1>2
<1>4. todoR' \in [Activities -> SUBSET Runners]
  BY <1>0, <1>2, <1>3 DEF PlanPool, TypeOK
<1>5. want' \in [Activities -> [Pools -> Nat]]
  <2>1. CASE cur[t] \in Pools
    <3>1. IsPoolView(View(t))
      <4>1. IsFiniteSet(known)
        BY FleetAssumption, FS_Subset
      <4>2. View(t).state \in [known -> RunnerState]
        BY <1>0 DEF View, TypeOK, Row, IsLive
      <4>3. View(t).age \in [known -> Nat]
        BY DEF View
      <4> QED BY <1>1, <4>1, <4>2, <4>3 DEF IsPoolView
    <3>2. IsPoolSpec(spec)
      BY <2>1, FleetAssumption
    <3>3. jobs[t] \in Nat
      BY <1>0, FleetAssumption DEF TypeOK
    <3>4. Launch(spec, View(t), jobs[t]) \in Nat
      BY <3>1, <3>2, <3>3, LaunchIsBounded
    <3>5. want' = [want EXCEPT ![t] = [want[t] EXCEPT ![cur[t]] = Launch(spec, View(t), jobs[t])]]
      BY <1>0 DEF PlanPool, TypeOK
    <3> HIDE DEF spec
    <3> QED BY <1>0, <2>1, <3>4, <3>5 DEF TypeOK
  <2>2. CASE cur[t] \notin Pools
    <3>1. want' = want
      <4>1. want[t] \in [Pools -> Nat]
        BY <1>0 DEF TypeOK
      <4>2. \A n : [want[t] EXCEPT ![cur[t]] = n] = want[t]
        BY <2>2, <4>1
      <4>3. want' = [want EXCEPT ![t] = [want[t] EXCEPT ![cur[t]] = Launch(spec, View(t), jobs[t])]]
        BY <1>0 DEF PlanPool, TypeOK
      <4> QED BY <1>0, <4>2, <4>3 DEF TypeOK
    <3> QED BY <3>1 DEF TypeOK
  <2> QED BY <2>1, <2>2
<1>6. pc' \in [Activities -> Phase]
  BY <1>0 DEF PlanPool, TypeOK, Phase
<1> QED BY <1>4, <1>5, <1>6 DEF PlanPool, TypeOK, world

(* The rest of a pass: take down, admit, launch.                           *)
LEMMA ActingIsTyped ==
  ASSUME TypeOK, NEW t \in Tickers,
         \/ EndPool(t) \/ Admit(t) \/ EndTick(t)
         \/ \E p \in Pools : LaunchPool(t, p)
         \/ \E r \in Runners : Apply(t, r)
  PROVE  TypeOK'
<1>0. t \in Activities
  BY DEF Activities
<1>1. CASE EndPool(t)
  <2>1. Committed(t) \in Nat
    <3>1. IsFiniteSet({r \in Runners : IsActive(work[t][r])})
      BY FleetAssumption, FS_Subset
    <3> QED BY <3>1, FS_CardinalityType DEF Committed
  <2>2. [held[t] EXCEPT ![cur[t]] = Committed(t)] \in [Pools -> Nat]
    BY <1>0, <2>1 DEF TypeOK
  <2>3. held' = [held EXCEPT ![t] = [held[t] EXCEPT ![cur[t]] = Committed(t)]]
    BY <1>0, <1>1 DEF EndPool, TypeOK
  <2>4. held' \in [Activities -> [Pools -> Nat]]
    BY <1>0, <2>2, <2>3 DEF TypeOK
  <2>5. pc' \in [Activities -> Phase] /\ cur' \in [Activities -> Pools \cup {NoPool}]
    BY <1>0, <1>1 DEF EndPool, TypeOK, Phase
  <2>6. work' \in [Activities -> [Runners -> Row]]
    BY <1>0, <1>1 DEF EndPool, TypeOK, NoWork, NoRow, Row
  <2>7. listed' \in [Activities -> [Runners -> RegState]]
    BY <1>0, <1>1 DEF EndPool, TypeOK, Unseen, RegState
  <2>8. jobs' \in [Activities -> 0 .. MaxQueued]
    BY <1>0, <1>1, FleetAssumption DEF EndPool, TypeOK
  <2> QED BY <1>1, <2>4, <2>5, <2>6, <2>7, <2>8 DEF EndPool, TypeOK, world
<1>2. CASE Admit(t)
  <2>1. faults' \in 0 .. MaxFaults
    BY <1>2, FailuresAreCounted DEF Admit
  <2>2. Total(held[t]) \in Nat /\ Total(want[t]) \in Nat
    BY <1>0, FleetAssumption, TotalIsNatural DEF TypeOK
  <2>3. Room(t) \in Nat
    BY <2>2, FleetAssumption DEF Room, AtLeastZero
  <2>4. LesserOf(Total(want[t]), Room(t)) \in Nat
    BY <2>2, <2>3 DEF LesserOf
  <2>5. NoCount \in [Pools -> Nat]
    BY DEF NoCount
  <2>6. \E g \in [Pools -> Nat] : want' = [want EXCEPT ![t] = g]
    <3>1. CASE want' = [want EXCEPT ![t] = NoCount]
      BY <2>5, <3>1
    <3>2. CASE want' # [want EXCEPT ![t] = NoCount]
      <4> DEFINE granted == LesserOf(Total(want[t]), Room(t))
      <4>1. \E g \in [Pools -> 0 .. granted] : want' = [want EXCEPT ![t] = g]
        BY <1>2, <3>2 DEF Admit
      <4> HIDE DEF granted
      <4>2. [Pools -> 0 .. granted] \subseteq [Pools -> Nat]
        OBVIOUS
      <4> QED BY <4>1, <4>2
    <3> QED BY <3>1, <3>2
  <2>7. want' \in [Activities -> [Pools -> Nat]]
    BY <1>0, <2>6 DEF TypeOK
  <2>8. pc' \in [Activities -> Phase]
    BY <1>0, <1>2 DEF Admit, TypeOK, Phase
  <2>9. seen' \in [Activities -> [Runners -> ContainerState]]
    BY <1>0, <1>2 DEF Admit, TypeOK, Unseen, ContainerState
  <2>10. held' \in [Activities -> [Pools -> Nat]]
    BY <1>0, <1>2, <2>5 DEF Admit, TypeOK
  <2> QED BY <1>2, <2>1, <2>7, <2>8, <2>9, <2>10 DEF Admit, TypeOK
<1>3. CASE EndTick(t)
  <2>1. pc' \in [Activities -> Phase]
    BY <1>0, <1>3 DEF EndTick, TypeOK, Phase
  <2> QED BY <1>3, <2>1 DEF EndTick, TypeOK, world
<1>4. CASE \E p \in Pools : LaunchPool(t, p)
  <2>1. PICK p \in Pools : LaunchPool(t, p)
    BY <1>4
  <2>2. PICK R \in SUBSET Runners :
          /\ prov' = [r \in Runners |-> IF r \in R THEN "new" ELSE prov[r]]
          /\ todoR' = [todoR EXCEPT ![t] = R]
    BY <2>1 DEF LaunchPool
  <2>3. prov' \in [Runners -> ProvStep]
    BY <2>2 DEF TypeOK, ProvStep
  <2>4. todoR' \in [Activities -> SUBSET Runners]
    BY <1>0, <2>2 DEF TypeOK
  <2>5. want' \in [Activities -> [Pools -> Nat]]
    <3>1. want' = [want EXCEPT ![t] = [want[t] EXCEPT ![p] = 0]]
      BY <1>0, <2>1 DEF LaunchPool, TypeOK
    <3> QED BY <1>0, <3>1 DEF TypeOK
  <2> QED BY <2>1, <2>3, <2>4, <2>5 DEF LaunchPool, TypeOK, world
<1>5. CASE \E r \in Runners : Apply(t, r)
  <2>1. PICK r \in Runners : Apply(t, r)
    BY <1>5
  <2> DEFINE force == r \in {q \in todoR[t] : work[t][q].state # "idle"}
  <2>2. Retiring(t, r, work[t][r], force) /\ force \in BOOLEAN
    BY <2>1 DEF Apply
  <2>3. UNCHANGED <<world, pc, seen, todo, cur, work, listed, jobs, todoR, want, held, prov>>
    BY <2>1 DEF Apply
  <2> HIDE DEF force
  <2> QED BY <1>0, <2>2, <2>3, RetiringIsTyped DEF TypeOK, world
<1> QED BY <1>1, <1>2, <1>3, <1>4, <1>5

(* ProvisionRunner, for one runner of a launch.                            *)
LEMMA ProvisionIsTyped ==
  ASSUME TypeOK, NEW t \in Tickers, NEW r \in Runners, Provision(t, r)
  PROVE  TypeOK'
<1>0. t \in Activities
  BY DEF Activities
<1> DEFINE pending == [NoRow EXCEPT !.state = "pending"]
           starting == [Registered EXCEPT !.state = "starting", !.cid = TRUE]
           failed == [Registered EXCEPT !.state = "failed"]
<1>1. /\ pending \in Row
      /\ Registered \in Row
      /\ starting \in Row
      /\ failed \in Row
  BY DEF Registered, NoRow, Row, RunnerState
<1> HIDE DEF pending, starting, failed
<1>2. ASSUME NEW to \in ProvStep, NEW from, Step(r, from, to)
      PROVE  prov' \in [Runners -> ProvStep]
  BY <1>2 DEF Step, TypeOK
<1>3. ASSUME Ends(t, r) PROVE todoR' \in [Activities -> SUBSET Runners]
  BY <1>0, <1>3 DEF Ends, TypeOK
<1>4. CASE SavePending(t, r)
  <2>1. Step(r, "new", "saved") /\ row' = Saved(r, pending)
    BY <1>4 DEF SavePending, pending
  <2>2. row' \in [Runners -> Row]
    BY <1>1, <2>1, SavedIsTyped DEF TypeOK
  <2> QED BY <1>2, <1>4, <2>1, <2>2 DEF SavePending, provMemory, TypeOK, ProvStep
<1>5. CASE Mint(t, r)
  <2>1. faults' \in 0 .. MaxFaults
    BY <1>5, FailuresAreCounted DEF Mint
  <2>2. reg' \in [Runners -> RegState]
    BY <1>5 DEF Mint, TypeOK, RegState
  <2>3. prov' \in [Runners -> ProvStep]
    BY <1>5 DEF Mint, Step, TypeOK, ProvStep
  <2>4. todoR' \in [Activities -> SUBSET Runners]
    BY <1>3, <1>5 DEF Mint, TypeOK
  <2> QED BY <1>5, <2>1, <2>2, <2>3, <2>4 DEF Mint, provMemory, TypeOK
<1>6. CASE SaveRegistered(t, r)
  <2>1. row' \in [Runners -> Row]
    BY <1>1, <1>6, SavedIsTyped DEF SaveRegistered, TypeOK
  <2> QED BY <1>2, <1>6, <2>1 DEF SaveRegistered, provMemory, TypeOK, ProvStep
<1>7. CASE CreateContainer(t, r)
  <2>1. faults' \in 0 .. MaxFaults
    BY <1>7, FailuresAreCounted DEF CreateContainer
  <2>2. ctr' \in [Runners -> ContainerState]
    BY <1>7 DEF CreateContainer, TypeOK, ContainerState
  <2>3. prov' \in [Runners -> ProvStep]
    BY <1>7 DEF CreateContainer, Step, TypeOK, ProvStep
  <2> QED BY <1>7, <2>1, <2>2, <2>3 DEF CreateContainer, provMemory, TypeOK
<1>8. CASE SaveStarting(t, r)
  <2>1. row' = Saved(r, starting)
    BY <1>8 DEF SaveStarting, starting
  <2>2. row' \in [Runners -> Row]
    BY <1>1, <2>1, SavedIsTyped DEF TypeOK
  <2> QED BY <1>2, <1>3, <1>8, <2>2 DEF SaveStarting, provMemory, TypeOK, ProvStep
<1>9. CASE Abandon(t, r)
  <2>1. faults' \in 0 .. MaxFaults
    BY <1>9, FailuresAreCounted DEF Abandon
  <2>2. reg' \in [Runners -> RegState]
    BY <1>9, RegistrationsAreTyped DEF Abandon, TypeOK
  <2> QED BY <1>2, <1>9, <2>1, <2>2 DEF Abandon, provMemory, TypeOK, ProvStep
<1>10. CASE SaveFailed(t, r)
  <2>1. row' = Saved(r, failed)
    BY <1>10 DEF SaveFailed, failed
  <2>2. row' \in [Runners -> Row]
    BY <1>1, <2>1, SavedIsTyped DEF TypeOK
  <2> QED BY <1>2, <1>3, <1>10, <2>2 DEF SaveFailed, provMemory, TypeOK, ProvStep
<1> QED BY <1>4, <1>5, <1>6, <1>7, <1>8, <1>9, <1>10 DEF Provision

(* An operator's command starts on the row it read.                        *)
LEMMA OperatorIsTyped ==
  ASSUME TypeOK, NEW t \in Operators, NEW r \in Runners, OperatorStop(t, r)
  PROVE  TypeOK'
<1>0. t \in Activities
  BY DEF Activities
<1>1. PICK force \in BOOLEAN : Retiring(t, r, row[r], force)
  BY DEF OperatorStop
<1>2. pc' \in [Activities -> Phase]
  BY <1>0 DEF OperatorStop, TypeOK, Phase
<1>3. work' \in [Activities -> [Runners -> Row]]
  <2>1. row[r] \in Row
    BY DEF TypeOK
  <2>2. work' = [work EXCEPT ![t] = [work[t] EXCEPT ![r] = row[r]]]
    BY <1>0 DEF OperatorStop, TypeOK
  <2> QED BY <1>0, <2>1, <2>2 DEF TypeOK
<1> QED BY <1>0, <1>1, <1>2, <1>3, RetiringIsTyped DEF OperatorStop, TypeOK, world

(* One more job in a queue that has room for it.                           *)
LEMMA ArrivalIsTyped ==
  ASSUME TypeOK, NEW p \in Pools, Arrive(p)
  PROVE  TypeOK'
<1>1. queued[p] + 1 \in 0 .. MaxQueued
  BY FleetAssumption DEF Arrive, TypeOK
<1>2. queued' \in [Pools -> 0 .. MaxQueued]
  BY <1>1 DEF Arrive, TypeOK
<1> QED BY <1>2 DEF Arrive, memory, TypeOK

(* No step leaves the types.                                               *)
LEMMA StepIsTyped ==
  ASSUME TypeOK, [Next]_vars
  PROVE  TypeOK'
<1>1. CASE UNCHANGED vars
  BY <1>1 DEF vars, world, memory, TypeOK
<1>2. ASSUME NEW t \in Tickers, Tick(t) PROVE TypeOK'
  BY <1>2, ObservingIsTyped, PlanIsTyped, ActingIsTyped, ProvisionIsTyped DEF Tick
<1> QED BY <1>1, <1>2, WorldIsTyped, ArrivalIsTyped, CrashIsTyped, RetireIsTyped,
           OperatorIsTyped DEF Next

(* The store, GitHub, Docker and the process's memory always hold what the *)
(* code's types say, however many passes and operators run at once.        *)
THEOREM FleetIsTyped == Spec => []TypeOK
BY StartIsTyped, StepIsTyped, PTL DEF Spec

-----------------------------------------------------------------------------
(* What a lone pass may rely on.                                           *)

(* The daemon's loop runs one pass after another.                          *)
OnePass == \A t, u \in Tickers : t = u

Judging == {"adopt", "settle", "sweep", "apply"}

Observing == {"pools", "forge"} \cup Judging

(* A row with Docker's id has GitHub's, and a pending one has neither.     *)
Sound(w) == (w.cid => w.gid) /\ (w.state = "pending" => ~w.cid)

RowsAreSound ==
  \A r \in Runners : Sound(row[r]) /\ \A t \in Activities : Sound(work[t][r])

(* A pass retires only while it settles or takes down, and observes a pool.*)
PassesNest ==
  \A t \in Tickers :
    /\ pc[t] # "stop"
    /\ ret[t].step # "none" => pc[t] \in {"settle", "apply"}
    /\ pc[t] \in {"forge"} \cup Judging => cur[t] \in Pools

(* What was not running when the pass began is not running now.            *)
SeenDownIsDown ==
  \A t \in Tickers, r \in Runners :
    pc[t] \in Observing /\ seen[t][r] \in {"none", "exited"}
      => ctr[r] # "running"

(* Whom GitHub did not list for the pool is not registered now.            *)
UnlistedIsGone ==
  \A t \in Tickers, r \in Runners :
    pc[t] \in Judging /\ PoolOf[r] = cur[t] /\ listed[t][r] = "none" => reg[r] = "none"

(* A pass works on the pool's own runners.                                 *)
WorkIsOwn ==
  \A t \in Tickers, r \in Runners :
    /\ pc[t] \in {"forge", "adopt"} /\ work[t][r].state # Absent => PoolOf[r] = cur[t]
    /\ pc[t] = "settle" /\ r \in todoR[t] => PoolOf[r] = cur[t]

(* Whoever is settled as idle was listed, and not as busy.                 *)
IdleIsListed ==
  \A t \in Tickers, r \in Runners :
    /\ pc[t] \in {"sweep", "apply"} \/ (pc[t] = "settle" /\ r \notin todoR[t])
    /\ work[t][r].state = "idle"
    => listed[t][r] \in {"online", "offline"}

(* Whoever a plan takes down is idle, or overran.                          *)
OverranOrIdle(w) == w.state = "idle" \/ (w.state \in {"busy", "draining"} /\ w.aged)

PlansAreHeeded ==
  \A t \in Tickers, r \in Runners :
    pc[t] = "apply" /\ r \in todoR[t] => OverranOrIdle(work[t][r])

(* Why a container may be stopped or removed.                              *)
RetiringForCause ==
  \A t \in Tickers :
    LET r == ret[t].runner
        w == work[t][r]
    IN
    ret[t].step \in {"stop", "remove"} =>
      \/ ctr[r] # "running" \/ reg[r] = "none"
      \/ ret[t].force /\ w.state \in {"busy", "draining"} /\ w.aged
      \/ w.state = "idle" /\ listed[t][r] \in {"online", "offline"}

PassInv ==
  /\ TypeOK /\ RowsAreSound /\ PassesNest
  /\ SeenDownIsDown /\ UnlistedIsGone /\ WorkIsOwn
  /\ IdleIsListed /\ PlansAreHeeded /\ RetiringForCause

(* Provisioning happens only inside a launch, for the runners launched.    *)
LaunchesNest ==
  \A t \in Tickers, r \in Runners :
    prov[r] # "none" => pc[t] = "launch" /\ r \in todoR[t]

(* A live row's claim on its registration is one the pass knows of.        *)
ClaimsAreKnown ==
  \A t \in Tickers, r \in Runners :
    /\ pc[t] \in {"forge", "adopt", "settle", "sweep"}
    /\ PoolOf[r] = cur[t]
    /\ IsLive(row[r]) /\ row[r].gid
    => work[t][r].gid

SweepsAreOfStrays ==
  \A t \in Tickers, r \in Runners :
    pc[t] = "sweep" /\ r \in todoR[t] => listed[t][r] # "none" /\ ~work[t][r].gid

SweepInv == LaunchesNest /\ ClaimsAreKnown /\ SweepsAreOfStrays

(* Between the two writes of a launch the row says so.                     *)
RegisteredOnRecord ==
  \A r \in Runners :
    prov[r] = "registered" => row[r].state = "registered" /\ row[r].gid

-----------------------------------------------------------------------------
(* The steps a lone pass sees.                                             *)

(* Nothing of the pass's own changes, and nothing is provisioned.          *)
Aside(t) ==
  /\ pc'[t] = pc[t] /\ seen'[t] = seen[t] /\ cur'[t] = cur[t] /\ work'[t] = work[t]
  /\ listed'[t] = listed[t] /\ todoR'[t] = todoR[t] /\ ret'[t] = ret[t]
  /\ todo'[t] = todo[t] /\ want'[t] = want[t] /\ prov' = prov

(* The pass is between pools, in its launches, or over.                    *)
Elsewhere(t) ==
  /\ pc'[t] \in {"idle", "pools", "launch"}
  /\ ret'[t].step = "none"
  /\ pc'[t] = "pools" =>
       /\ pc[t] # "launch"
       /\ seen'[t] = ctr \/ (seen'[t] = seen[t] /\ pc[t] \in Observing)

(* One runner is settled, or its retirement begins.                        *)
Settles(t, r) ==
  \/ SettleWait(t, r) \/ SettleRetire(t, r) \/ SettleMove(t, r)

(* A call of a retirement is made, and the retirement goes on.             *)
Calls(t) == RetireStop(t) \/ RetireRemove(t) \/ RetireDereg(t)

PassStep(t) ==
  \/ Aside(t)
  \/ Elsewhere(t)
  \/ pc'[t] = "forge" /\ \E p \in Pools : ReadRows(t, p)
  \/ pc'[t] = "adopt" /\ ReadForge(t)
  \/ pc'[t] = "settle" /\ Adopt(t)
  \/ pc'[t] = "settle" /\ \E r \in Runners : Settles(t, r)
  \/ pc'[t] = "sweep" /\ EndSettle(t)
  \/ pc'[t] = "sweep" /\ \E r \in Runners : Sweep(t, r)
  \/ pc'[t] = "apply" /\ PlanPool(t)
  \/ pc'[t] = "apply" /\ \E r \in Runners : Apply(t, r)
  \/ pc'[t] = pc[t] /\ Calls(t)
  \/ pc'[t] = pc[t] /\ RetireSave(t)

(* What somebody else does leaves the pass alone.                          *)
LEMMA OthersStandAside ==
  ASSUME TypeOK, OnePass, NEW t \in Tickers,
         \/ \E r \in Runners : World(r)
         \/ \E p \in Pools : Arrive(p)
         \/ \E u \in Operators : RetireNext(u)
         \/ \E u \in Operators, r \in Runners : OperatorStop(u, r)
  PROVE  Aside(t)
<1>0. t \in Activities
  BY DEF Activities
<1>1. ASSUME NEW r \in Runners, World(r) PROVE Aside(t)
  BY <1>1 DEF World, Boot, TakeJob, FinishJob, Exit, Accident, Disconnect, Elapse, Prune,
     memory, Aside
<1>2. ASSUME NEW p \in Pools, Arrive(p) PROVE Aside(t)
  BY <1>2 DEF Arrive, memory, Aside
<1>3. ASSUME NEW u \in Operators PROVE u # t
  BY FleetAssumption
<1>4. ASSUME NEW u \in Operators, PoolDropped(u) PROVE Aside(t)
  BY <1>0, <1>3, <1>4 DEF PoolDropped, Aside, TypeOK
<1>5. ASSUME NEW u \in Operators, RetireNext(u) PROVE Aside(t)
  <2>0. u # t
    BY <1>3
  <2>1. CASE RetireStop(u)
    BY <1>0, <2>0, <2>1 DEF RetireStop, Aside, TypeOK
  <2>2. CASE RetireRemove(u)
    BY <1>0, <2>0, <2>2 DEF RetireRemove, Aside, TypeOK
  <2>3. CASE RetireDereg(u)
    BY <1>0, <2>0, <2>3 DEF RetireDereg, Aside, TypeOK
  <2>4. CASE RetireSave(u)
    <3>1. CASE PoolDropped(u)
      BY <1>4, <3>1
    <3>2. CASE ~PoolDropped(u)
      BY <1>0, <2>0, <2>4, <3>2 DEF RetireSave, Aside, TypeOK
    <3> QED BY <3>1, <3>2
  <2>5. CASE RetireRefused(u)
    BY <1>4, <2>5 DEF RetireRefused
  <2> QED BY <1>5, <2>1, <2>2, <2>3, <2>4, <2>5 DEF RetireNext
<1>6. ASSUME NEW u \in Operators, NEW r \in Runners, OperatorStop(u, r) PROVE Aside(t)
  <2>1. u # t
    BY <1>3
  <2> QED BY <1>0, <1>6, <2>1 DEF OperatorStop, Retiring, Aside, TypeOK
<1> QED BY <1>1, <1>2, <1>5, <1>6

(* A pool that is given up leaves the pass between pools.                  *)
LEMMA DroppingLeaves ==
  ASSUME TypeOK, NEW t \in Tickers, PoolDropped(t), pc[t] \notin {"idle", "launch", "stop"}
  PROVE  Elsewhere(t)
BY DEF PoolDropped, Elsewhere, NoRetirement, TypeOK, Activities, Phase, Observing, Judging

(* The whole of the next-state relation, as the lone pass t sees it.       *)
LEMMA StepsOfAPass ==
  ASSUME TypeOK, PassesNest, OnePass, NEW t \in Tickers, Next
  PROVE  PassStep(t)
<1>0. t \in Activities /\ \A u \in Tickers : u = t
  BY DEF Activities, OnePass
<1>1. CASE Crash
  <2>1. Elsewhere(t)
    BY <1>0, <1>1 DEF Crash, Elsewhere, NoRetirement
  <2> QED BY <2>1 DEF PassStep
<1>2. CASE RetireNext(t)
  <2>1. ret[t].step # "none"
    BY <1>2 DEF RetireNext, RetireStop, RetireRemove, RetireDereg, RetireSave, RetireRefused
  <2>2. pc[t] \in {"settle", "apply"}
    BY <2>1 DEF PassesNest
  <2>3. CASE RetireRefused(t)
    BY <2>2, <2>3, DroppingLeaves DEF RetireRefused, PassStep
  <2>4. CASE RetireSave(t)
    BY <2>2, <2>4 DEF RetireSave, PassStep
  <2>5. CASE Calls(t)
    BY <2>5 DEF Calls, RetireStop, RetireRemove, RetireDereg, PassStep
  <2> QED BY <1>2, <2>3, <2>4, <2>5 DEF RetireNext, Calls
<1>3. CASE Tick(t)
  <2>1. ASSUME pc[t] \notin {"settle", "apply"} PROVE ret[t].step = "none"
    BY <2>1 DEF PassesNest
  <2>2. CASE BeginTick(t) \/ Admit(t) \/ EndTick(t) \/ \E p \in Pools : LaunchPool(t, p)
    <3>1. Elsewhere(t)
      BY <1>0, <2>1, <2>2 DEF BeginTick, Admit, EndTick, LaunchPool, Elsewhere, TypeOK, Observing
    <3> QED BY <3>1 DEF PassStep
  <2>3. CASE EndPool(t)
    <3>1. Elsewhere(t)
      BY <1>0, <2>3 DEF EndPool, Elsewhere, TypeOK, Observing, Judging
    <3> QED BY <3>1 DEF PassStep
  <2>4. ASSUME NEW r \in Runners, Provision(t, r) PROVE Elsewhere(t)
    <3>1. pc[t] = "launch"
      BY <2>4 DEF Provision
    <3>2. ret[t].step = "none"
      BY <2>1, <3>1
    <3>3. pc' = pc /\ ret' = ret
      BY <2>4 DEF Provision, SavePending, Mint, SaveRegistered, CreateContainer,
         SaveStarting, Abandon, SaveFailed, provMemory
    <3> QED BY <3>1, <3>2, <3>3 DEF Elsewhere
  <2>5. CASE \E r \in Runners : Provision(t, r)
    BY <2>4, <2>5 DEF PassStep
  <2>6. CASE \E p \in Pools : ReadRows(t, p)
    <3>1. PICK p \in Pools : ReadRows(t, p)
      BY <2>6
    <3>2. pc'[t] = "forge" \/ Elsewhere(t)
      BY <1>0, <2>1, <3>1 DEF ReadRows, Elsewhere, TypeOK, Observing
    <3> QED BY <2>6, <3>2 DEF PassStep
  <2>7. CASE ReadForge(t)
    <3>1. CASE PoolDropped(t)
      BY <2>7, <3>1, DroppingLeaves DEF ReadForge, PassStep
    <3>2. CASE ~PoolDropped(t)
      <4>1. pc'[t] = "adopt"
        BY <1>0, <2>7, <3>2 DEF ReadForge, TypeOK
      <4> QED BY <2>7, <4>1 DEF PassStep
    <3> QED BY <3>1, <3>2
  <2>8. CASE Adopt(t)
    <3>1. pc'[t] = "settle"
      BY <1>0, <2>8 DEF Adopt, TypeOK
    <3> QED BY <2>8, <3>1 DEF PassStep
  <2>9. ASSUME NEW r \in Runners, Settle(t, r) PROVE PassStep(t)
    <3>1. pc[t] = "settle"
      BY <2>9 DEF Settle, SettleWait, SettleRetire, SettleMove, SettleRefused, Settling
    <3>2. CASE PoolDropped(t)
      BY <3>1, <3>2, DroppingLeaves DEF PassStep
    <3>3. CASE ~PoolDropped(t)
      <4>1. pc' = pc /\ Settles(t, r)
        BY <2>9, <3>3 DEF Settle, SettleWait, SettleRetire, SettleMove, SettleRefused, Settles
      <4> QED BY <3>1, <4>1 DEF PassStep
    <3> QED BY <3>2, <3>3
  <2>10. CASE EndSettle(t)
    <3>1. pc'[t] = "sweep"
      BY <1>0, <2>10 DEF EndSettle, TypeOK
    <3> QED BY <2>10, <3>1 DEF PassStep
  <2>11. ASSUME NEW r \in Runners, Sweep(t, r) PROVE PassStep(t)
    BY <2>11 DEF Sweep, PassStep
  <2>12. CASE PlanPool(t)
    <3>1. pc'[t] = "apply"
      BY <1>0, <2>12 DEF PlanPool, TypeOK
    <3> QED BY <2>12, <3>1 DEF PassStep
  <2>13. ASSUME NEW r \in Runners, Apply(t, r) PROVE PassStep(t)
    BY <2>13 DEF Apply, PassStep
  <2> QED BY <1>3, <2>2, <2>3, <2>5, <2>6, <2>7, <2>8, <2>9, <2>10, <2>11, <2>12, <2>13
          DEF Tick
<1>4. ASSUME Aside(t) PROVE PassStep(t)
  BY <1>4 DEF PassStep
<1> QED BY <1>0, <1>1, <1>2, <1>3, <1>4, OthersStandAside DEF Next, Activities

(* Containers and registrations only begin inside a launch.                *)
LEMMA NothingBeginsElsewhere ==
  ASSUME TypeOK, OnePass, NEW t \in Tickers, pc[t] # "launch", Next, NEW r \in Runners
  PROVE  /\ ctr'[r] = "running" => ctr[r] = "running"
         /\ reg[r] = "none" => reg'[r] = "none"
<1> DEFINE Goal == /\ ctr'[r] = "running" => ctr[r] = "running"
                   /\ reg[r] = "none" => reg'[r] = "none"
<1>0. \A u \in Tickers : pc[u] # "launch"
  BY DEF OnePass
<1>1. ASSUME NEW q \in Runners, World(q) PROVE Goal
  BY <1>1 DEF World, Boot, TakeJob, FinishJob, Exit, Accident, Disconnect, Elapse, Prune,
     Dropped, TypeOK
<1>2. ASSUME NEW p \in Pools, Arrive(p) PROVE Goal
  BY <1>2 DEF Arrive
<1>3. CASE Crash
  BY <1>3 DEF Crash
<1>4. ASSUME NEW u \in Activities, RetireNext(u) PROVE Goal
  BY <1>4 DEF RetireNext, RetireStop, RetireRemove, RetireDereg, RetireSave, RetireRefused,
     Dropped, Deleted, world, TypeOK
<1>5. ASSUME NEW u \in Operators, NEW q \in Runners, OperatorStop(u, q) PROVE Goal
  BY <1>5 DEF OperatorStop, world
<1>6. ASSUME NEW u \in Tickers, Tick(u) PROVE Goal
  <2>1. CASE \/ BeginTick(u) \/ ReadForge(u) \/ Adopt(u) \/ EndSettle(u) \/ PlanPool(u)
             \/ EndPool(u) \/ Admit(u) \/ EndTick(u)
             \/ \E p \in Pools : ReadRows(u, p) \/ LaunchPool(u, p)
    BY <2>1 DEF BeginTick, ReadForge, Adopt, EndSettle, PlanPool, EndPool, Admit, EndTick,
       ReadRows, LaunchPool, world
  <2>2. ASSUME NEW q \in Runners, Settle(u, q) \/ Apply(u, q) PROVE Goal
    BY <2>2 DEF Settle, SettleWait, SettleRetire, SettleMove, SettleRefused, Apply, world
  <2>3. ASSUME NEW q \in Runners, Sweep(u, q) PROVE Goal
    BY <2>3 DEF Sweep, Deleted, TypeOK
  <2>4. ASSUME NEW q \in Runners PROVE ~Provision(u, q)
    BY <1>0 DEF Provision
  <2> QED BY <1>6, <2>1, <2>2, <2>3, <2>4 DEF Tick
<1> QED BY <1>1, <1>2, <1>3, <1>4, <1>5, <1>6 DEF Next

(* Whatever is written keeps Docker's id behind GitHub's.                  *)
LEMMA MovedIsSound ==
  ASSUME NEW w \in Row, Sound(w), NEW s, s # "pending" \/ s = w.state
  PROVE  Sound(MovedTo(w, s)) /\ MovedTo(w, s).gid = w.gid
                              /\ MovedTo(w, s).state = s
BY DEF MovedTo, Sound, Row

(* The store stays sound when it is given a sound row.                     *)
LEMMA SavedIsSound ==
  ASSUME row \in [Runners -> Row], \A r \in Runners : Sound(row[r]),
         NEW q \in Runners, NEW w \in Row, Sound(w), row' = Saved(q, w)
  PROVE  \A r \in Runners : Sound(row'[r])
BY DEF Saved, Sound, Row

(* No row at all is sound.                                                 *)
LEMMA NoRowIsSound == Sound(NoRow)
BY DEF Sound, NoRow

(* No verdict is to be pending.                                            *)
LEMMA NobodyIsMadePending ==
  ASSUME NEW w \in Row, NEW c \in ContainerState, NEW l \in RegState
  PROVE  Verdict(w, c, l) # "pending"
BY DEF Verdict, Row, RegState, ContainerState

(* The containers of its pool a pass knows no live row of.                 *)
Unknown(t) ==
  {r \in Runners : PoolOf[r] = cur[t] /\ seen[t][r] # "none" /\ work[t][r].state = Absent}

(* Each of them is given a sound row that claims its registration.         *)
Adopts(t, new) ==
  /\ \A r \in Unknown(t) : /\ Sound(new[r]) /\ new[r].gid
                            /\ new[r].state \in {"idle", "failed"}
  /\ row' = [r \in Runners |-> IF r \in Unknown(t) THEN new[r] ELSE row[r]]
  /\ work' = [work EXCEPT ![t] =
       [r \in Runners |-> IF r \in Unknown(t) THEN new[r] ELSE work[t][r]]]

(* That is what Adopt writes.                                              *)
LEMMA AdoptionWrites ==
  ASSUME NEW t, Adopt(t)
  PROVE  \E new : Adopts(t, new)
<1> DEFINE unknown == {r \in Runners : /\ PoolOf[r] = cur[t]
                                       /\ seen[t][r] # "none"
                                       /\ work[t][r].state = Absent}
           adopted(old) == [r \in unknown |->
             IF seen[t][r] = "running"
               THEN [state |-> "idle", aged |-> r \in old, gid |-> TRUE, cid |-> TRUE]
               ELSE [state |-> "failed", aged |-> FALSE, gid |-> TRUE, cid |-> TRUE]]
<1>1. PICK old \in SUBSET {r \in unknown : seen[t][r] = "running"} :
        /\ row' = [r \in Runners |-> IF r \in unknown THEN adopted(old)[r] ELSE row[r]]
        /\ work' = [work EXCEPT ![t] =
             [r \in Runners |-> IF r \in unknown THEN adopted(old)[r] ELSE work[t][r]]]
  BY DEF Adopt
<1>2. \A r \in unknown : /\ Sound(adopted(old)[r]) /\ adopted(old)[r].gid
                          /\ adopted(old)[r].state \in {"idle", "failed"}
  BY DEF Sound
<1>3. unknown = Unknown(t)
  BY DEF Unknown
<1> HIDE DEF unknown, adopted
<1>4. Adopts(t, adopted(old))
  BY <1>1, <1>2, <1>3 DEF Adopts
<1> QED BY <1>4

(* Every row and every object in memory stays sound.                       *)
LEMMA SoundIsKept ==
  ASSUME TypeOK, RowsAreSound, Next
  PROVE  RowsAreSound'
<1> DEFINE RowsOK == \A r \in Runners : Sound(row'[r])
           WorkOK == \A r \in Runners : \A t \in Activities : Sound(work'[t][r])
<1>0. ASSUME RowsOK, WorkOK PROVE RowsAreSound'
  BY <1>0 DEF RowsAreSound, Sound
<1>1. ASSUME UNCHANGED row PROVE RowsOK
  BY <1>1 DEF RowsAreSound
<1>2. ASSUME UNCHANGED work PROVE WorkOK
  BY <1>2 DEF RowsAreSound
<1>3. ASSUME NEW t \in Activities, work' = [work EXCEPT ![t] = NoWork] PROVE WorkOK
  BY <1>3, NoRowIsSound DEF RowsAreSound, NoWork, TypeOK
<1>4. ASSUME NEW t \in Activities, NEW q \in Runners, NEW w, Sound(w),
             work' = [work EXCEPT ![t][q] = w]
      PROVE  WorkOK
  BY <1>4 DEF RowsAreSound, TypeOK
<1>5. ASSUME NEW r \in Runners, World(r) PROVE RowsOK /\ WorkOK
  <2>1. UNCHANGED work
    BY <1>5 DEF World, Boot, TakeJob, FinishJob, Exit, Accident, Disconnect, Elapse, Prune, memory
  <2>2. CASE Elapse(r)
    BY <1>2, <2>1, <2>2 DEF Elapse, RowsAreSound, Sound, TypeOK, Row
  <2>3. CASE Prune(r)
    BY <1>2, <2>1, <2>3, NoRowIsSound DEF Prune, RowsAreSound, TypeOK
  <2>4. CASE ~Elapse(r) /\ ~Prune(r)
    <3>1. UNCHANGED row
      BY <1>5, <2>4 DEF World, Boot, TakeJob, FinishJob, Exit, Accident, Disconnect
    <3> QED BY <1>1, <1>2, <2>1, <3>1
  <2> QED BY <2>2, <2>3, <2>4
<1>6. ASSUME NEW p \in Pools, Arrive(p) PROVE RowsOK /\ WorkOK
  BY <1>1, <1>2, <1>6 DEF Arrive, memory
<1>7. CASE Crash
  BY <1>7, NoRowIsSound DEF Crash, RowsAreSound, NoWork
<1>8. ASSUME NEW t \in Activities, RetireNext(t) PROVE RowsOK /\ WorkOK
  <2>1. CASE RetireSave(t)
    <3> DEFINE q == ret[t].runner
               w == MovedTo(work[t][q], "retired")
    <3>1. q \in Runners /\ work[t][q] \in Row
      BY <2>1 DEF RetireSave, TypeOK
    <3>2. w \in Row /\ Sound(w)
      BY <3>1, MovedIsTyped, MovedIsSound DEF RowsAreSound, RunnerState
    <3>3. row' = Saved(q, w)
      BY <2>1 DEF RetireSave
    <3>4. work' = [work EXCEPT ![t] = NoWork] \/ work' = [work EXCEPT ![t][q] = w]
      BY <2>1 DEF RetireSave, PoolDropped
    <3> HIDE DEF q, w
    <3>5. RowsOK
      BY <3>1, <3>2, <3>3, SavedIsSound DEF RowsAreSound, TypeOK
    <3> QED BY <1>3, <1>4, <3>1, <3>2, <3>4, <3>5
  <2>2. CASE RetireRefused(t)
    BY <1>1, <1>3, <2>2 DEF RetireRefused, PoolDropped, world
  <2>3. CASE RetireStop(t) \/ RetireRemove(t) \/ RetireDereg(t)
    BY <1>1, <1>2, <2>3 DEF RetireStop, RetireRemove, RetireDereg
  <2> QED BY <1>8, <2>1, <2>2, <2>3 DEF RetireNext
<1>9. ASSUME NEW t \in Operators, NEW r \in Runners, OperatorStop(t, r) PROVE RowsOK /\ WorkOK
  <2>1. Sound(row[r]) /\ t \in Activities
    BY DEF RowsAreSound, Activities
  <2> QED BY <1>1, <1>4, <1>9, <2>1 DEF OperatorStop, world
<1>10. ASSUME NEW t \in Tickers, Tick(t) PROVE RowsOK /\ WorkOK
  <2>0. t \in Activities
    BY DEF Activities
  <2>1. CASE \/ BeginTick(t) \/ EndSettle(t) \/ PlanPool(t) \/ Admit(t) \/ EndTick(t)
             \/ \E p \in Pools : LaunchPool(t, p)
    BY <1>1, <1>2, <2>1 DEF BeginTick, EndSettle, PlanPool, Admit, EndTick, LaunchPool, world
  <2>2. CASE ReadForge(t) \/ EndPool(t)
    BY <1>1, <1>2, <1>3, <2>0, <2>2 DEF ReadForge, EndPool, PoolDropped, world
  <2>3. ASSUME NEW p \in Pools, ReadRows(t, p) PROVE RowsOK /\ WorkOK
    <3>1. UNCHANGED row
      BY <2>3 DEF ReadRows
    <3>2. UNCHANGED work \/ work' = [work EXCEPT ![t] =
            [r \in Runners |-> IF PoolOf[r] = p /\ IsLive(row[r]) THEN row[r] ELSE NoRow]]
      BY <2>3 DEF ReadRows
    <3> DEFINE rows == [r \in Runners |->
                         IF PoolOf[r] = p /\ IsLive(row[r]) THEN row[r] ELSE NoRow]
    <3>3. \A r \in Runners : Sound(rows[r])
      BY NoRowIsSound DEF RowsAreSound
    <3> HIDE DEF rows
    <3>4. CASE work' = [work EXCEPT ![t] = rows]
      BY <1>1, <2>0, <3>1, <3>3, <3>4 DEF RowsAreSound, TypeOK
    <3>5. CASE UNCHANGED work
      BY <1>1, <1>2, <3>1, <3>5
    <3> QED BY <3>2, <3>4, <3>5 DEF rows
  <2>4. CASE Adopt(t)
    <3>1. PICK new : Adopts(t, new)
      BY <2>4, AdoptionWrites
    <3>2. RowsOK
      BY <3>1 DEF RowsAreSound, Adopts
    <3>3. WorkOK
      <4>1. work' = [work EXCEPT ![t] =
              [r \in Runners |-> IF r \in Unknown(t) THEN new[r] ELSE work[t][r]]]
        BY <3>1 DEF Adopts
      <4>2. \A r \in Unknown(t) : Sound(new[r])
        BY <3>1 DEF Adopts
      <4> QED BY <2>0, <4>1, <4>2 DEF RowsAreSound, TypeOK
    <3> QED BY <3>2, <3>3
  <2>5. ASSUME NEW r \in Runners, Settle(t, r) PROVE RowsOK /\ WorkOK
    <3>1. CASE SettleMove(t, r)
      <4> DEFINE w == MovedTo(work[t][r], VerdictOn(t, r))
      <4>1. work[t][r] \in Row
        BY <2>0 DEF TypeOK
      <4>2. /\ VerdictOn(t, r) \in RunnerState \cup {Absent}
            /\ VerdictOn(t, r) # "pending"
        <5>1. seen[t][r] \in ContainerState /\ listed[t][r] \in RegState
          BY <2>0 DEF TypeOK
        <5>2. VerdictOn(t, r) # "pending"
          BY <4>1, <5>1, NobodyIsMadePending DEF VerdictOn
        <5>3. VerdictOn(t, r) \notin {"wait", "retire"}
          BY <3>1 DEF SettleMove
        <5> QED BY <4>1, <5>1, <5>2, <5>3, VerdictIsTyped DEF VerdictOn
      <4>3. w \in Row /\ Sound(w)
        BY <2>0, <4>1, <4>2, MovedIsTyped, MovedIsSound DEF RowsAreSound
      <4>4. row' = Saved(r, w)
        BY <3>1 DEF SettleMove
      <4>5. work' = [work EXCEPT ![t] = NoWork] \/ work' = [work EXCEPT ![t][r] = w]
        BY <3>1 DEF SettleMove, PoolDropped
      <4> HIDE DEF w
      <4>6. RowsOK
        BY <4>3, <4>4, SavedIsSound DEF RowsAreSound, TypeOK
      <4> QED BY <1>3, <1>4, <2>0, <4>3, <4>5, <4>6
    <3>2. CASE SettleWait(t, r) \/ SettleRetire(t, r) \/ SettleRefused(t, r)
      BY <1>1, <1>2, <1>3, <2>0, <3>2
      DEF SettleWait, SettleRetire, SettleRefused, PoolDropped, world
    <3> QED BY <2>5, <3>1, <3>2 DEF Settle
  <2>6. ASSUME NEW r \in Runners, Sweep(t, r) \/ Apply(t, r) PROVE RowsOK /\ WorkOK
    BY <1>1, <1>2, <2>6 DEF Sweep, Apply, world
  <2>7. ASSUME NEW r \in Runners, Provision(t, r) PROVE RowsOK /\ WorkOK
    <3>1. UNCHANGED work
      BY <2>7 DEF Provision, SavePending, Mint, SaveRegistered, CreateContainer,
         SaveStarting, Abandon, SaveFailed, provMemory
    <3>2. \/ UNCHANGED row
          \/ \E w \in Row : Sound(w) /\ row' = Saved(r, w)
      BY <2>7 DEF Provision, SavePending, Mint, SaveRegistered, CreateContainer,
         SaveStarting, Abandon, SaveFailed, world, Registered, NoRow, Row, RunnerState, Sound
    <3>3. RowsOK
      BY <1>1, <3>2, SavedIsSound DEF RowsAreSound, TypeOK
    <3> QED BY <1>2, <3>1, <3>3
  <2> QED BY <1>10, <2>1, <2>2, <2>3, <2>4, <2>5, <2>6, <2>7 DEF Tick
<1> QED BY <1>0, <1>5, <1>6, <1>7, <1>8, <1>9, <1>10 DEF Next

-----------------------------------------------------------------------------
(* What a pass keeps while it observes.                                    *)

(* Between the phases of its observing, a pass keeps what it has read.     *)
LEMMA ObservationLasts ==
  ASSUME TypeOK, PassesNest, NEW t \in Tickers, PassStep(t)
  PROVE  /\ pc'[t] \in {"forge"} \cup Judging
              => /\ pc[t] \in Observing
                 /\ seen'[t] = seen[t]
                 /\ cur'[t] \in Pools
         /\ pc'[t] \in Judging
              => /\ pc[t] \in {"forge"} \cup Judging
                 /\ cur'[t] = cur[t]
         /\ pc'[t] \in Judging \ {"adopt"}
              => /\ pc[t] \in Judging
                 /\ listed'[t] = listed[t]
<1>0. t \in Activities
  BY DEF Activities
<1>1. CASE Aside(t)
  BY <1>1 DEF Aside, PassesNest, Observing
<1>2. CASE Elsewhere(t)
  BY <1>2 DEF Elsewhere, Judging
<1>3. CASE pc'[t] = "forge" /\ \E p \in Pools : ReadRows(t, p)
  BY <1>0, <1>3 DEF ReadRows, Observing, Judging, TypeOK
<1>4. CASE pc'[t] = "adopt" /\ ReadForge(t)
  <2>1. ~PoolDropped(t)
    BY <1>0, <1>4 DEF PoolDropped, TypeOK
  <2> QED BY <1>4, <2>1 DEF ReadForge, Observing, Judging, PassesNest
<1>5. CASE pc'[t] = "settle" /\ (Adopt(t) \/ \E r \in Runners : Settles(t, r))
  <2>1. ~PoolDropped(t)
    BY <1>0, <1>5 DEF PoolDropped, TypeOK
  <2> QED BY <1>5, <2>1 DEF Adopt, Settles, SettleWait, SettleRetire, SettleMove, Settling,
        Observing, Judging, PassesNest
<1>6. CASE pc'[t] = "sweep" /\ (EndSettle(t) \/ \E r \in Runners : Sweep(t, r))
  BY <1>6 DEF EndSettle, Sweep, Observing, Judging, PassesNest
<1>7. CASE pc'[t] = "apply" /\ (PlanPool(t) \/ \E r \in Runners : Apply(t, r))
  BY <1>7 DEF PlanPool, Apply, Observing, Judging, PassesNest
<1>8. CASE pc'[t] = pc[t] /\ (Calls(t) \/ RetireSave(t))
  <2>1. ret[t].step # "none"
    BY <1>8 DEF Calls, RetireStop, RetireRemove, RetireDereg, RetireSave
  <2>2. pc[t] \in {"settle", "apply"}
    BY <2>1 DEF PassesNest
  <2>3. ~PoolDropped(t)
    BY <1>0, <1>8, <2>2 DEF PoolDropped, TypeOK
  <2> QED BY <1>8, <2>2, <2>3 DEF Calls, RetireStop, RetireRemove, RetireDereg, RetireSave,
        Observing, Judging, PassesNest
<1> QED BY <1>1, <1>2, <1>3, <1>4, <1>5, <1>6, <1>7, <1>8 DEF PassStep

(* A retirement runs inside the settling or the taking down it belongs to. *)
LEMMA NestingIsKept ==
  ASSUME TypeOK, PassesNest, OnePass, Next
  PROVE  PassesNest'
<1> SUFFICES ASSUME NEW t \in Tickers
             PROVE  /\ pc'[t] # "stop"
                    /\ ret'[t].step # "none" => pc'[t] \in {"settle", "apply"}
                    /\ pc'[t] \in {"forge"} \cup Judging => cur'[t] \in Pools
  BY DEF PassesNest
<1>0. PassStep(t)
  BY StepsOfAPass
<1>1. pc'[t] \in {"forge"} \cup Judging => cur'[t] \in Pools
  BY <1>0, ObservationLasts
<1>2. pc'[t] # "stop"
  BY <1>0 DEF PassStep, Aside, Elsewhere, PassesNest
<1>3. pc[t] \notin {"settle", "apply"} => ret[t].step = "none"
  BY DEF PassesNest
<1>4. ret'[t].step # "none" => pc'[t] \in {"settle", "apply"}
  <2>1. CASE Aside(t) \/ Elsewhere(t)
    BY <1>3, <2>1 DEF Aside, Elsewhere
  <2>2. CASE pc'[t] = pc[t] /\ (Calls(t) \/ RetireSave(t))
    <3>1. ret[t].step # "none"
      BY <2>2 DEF Calls, RetireStop, RetireRemove, RetireDereg, RetireSave
    <3> QED BY <1>3, <2>2, <3>1
  <2>3. CASE pc'[t] = "forge" /\ \E p \in Pools : ReadRows(t, p)
    BY <1>3, <2>3 DEF ReadRows
  <2>4. CASE pc'[t] = "adopt" /\ ReadForge(t)
    BY <1>3, <2>4 DEF ReadForge, PoolDropped, NoRetirement, TypeOK, Activities
  <2>5. CASE pc'[t] = "sweep" /\ (EndSettle(t) \/ \E r \in Runners : Sweep(t, r))
    BY <1>3, <2>5 DEF EndSettle, Sweep
  <2>6. CASE pc'[t] \in {"settle", "apply"}
    BY <2>6
  <2> QED BY <1>0, <2>1, <2>2, <2>3, <2>4, <2>5, <2>6 DEF PassStep
<1> QED BY <1>1, <1>2, <1>4

(* What a pass saw down stays down while it observes.                      *)
LEMMA SeenDownIsKept ==
  ASSUME TypeOK, PassesNest, OnePass, SeenDownIsDown, Next
  PROVE  SeenDownIsDown'
<1> SUFFICES ASSUME NEW t \in Tickers, NEW r \in Runners,
                    pc'[t] \in Observing, seen'[t][r] \in {"none", "exited"}
             PROVE  ctr'[r] # "running"
  BY DEF SeenDownIsDown
<1>0. PassStep(t)
  BY StepsOfAPass
<1>1. \/ pc'[t] = "pools" /\ seen'[t] = ctr /\ pc[t] # "launch"
      \/ pc[t] \in Observing /\ seen'[t] = seen[t]
  <2>1. CASE pc'[t] \in {"forge"} \cup Judging
    BY <1>0, <2>1, ObservationLasts
  <2>2. CASE pc'[t] = "pools"
    <3>1. CASE Aside(t) \/ Elsewhere(t)
      BY <2>2, <3>1 DEF Aside, Elsewhere, Observing
    <3>2. CASE pc'[t] = pc[t] /\ (Calls(t) \/ RetireSave(t))
      <4>1. ret[t].step # "none"
        BY <3>2 DEF Calls, RetireStop, RetireRemove, RetireDereg, RetireSave
      <4> QED BY <2>2, <3>2, <4>1 DEF PassesNest
    <3> QED BY <1>0, <2>2, <3>1, <3>2 DEF PassStep
  <2> QED BY <2>1, <2>2 DEF Observing
<1>2. pc[t] # "launch"
  BY <1>1 DEF Observing, Judging
<1>3. ctr[r] # "running"
  BY <1>1 DEF SeenDownIsDown
<1> QED BY <1>2, <1>3, NothingBeginsElsewhere

(* Whom GitHub did not list does not turn up while the pass judges.        *)
LEMMA UnlistedIsKept ==
  ASSUME TypeOK, PassesNest, OnePass, UnlistedIsGone, Next
  PROVE  UnlistedIsGone'
<1> SUFFICES ASSUME NEW t \in Tickers, NEW r \in Runners,
                    pc'[t] \in Judging, PoolOf[r] = cur'[t], listed'[t][r] = "none"
             PROVE  reg'[r] = "none"
  BY DEF UnlistedIsGone
<1>0. PassStep(t) /\ t \in Activities
  BY StepsOfAPass DEF Activities
<1>1. pc[t] \in {"forge"} \cup Judging /\ cur'[t] = cur[t]
  BY <1>0, ObservationLasts
<1>2. pc[t] # "launch"
  BY <1>1 DEF Judging
<1>3. reg[r] = "none"
  <2>1. CASE pc'[t] = "adopt" /\ ReadForge(t)
    <3>1. ~PoolDropped(t)
      BY <1>0, <2>1 DEF PoolDropped, TypeOK
    <3>2. listed' = [listed EXCEPT ![t] =
            [q \in Runners |-> IF TargetOf[PoolOf[q]] = TargetOf[cur[t]] THEN reg[q] ELSE "none"]]
      BY <2>1, <3>1 DEF ReadForge
    <3>3. listed'[t][r] = reg[r]
      BY <1>0, <1>1, <3>2 DEF TypeOK
    <3> QED BY <3>3
  <2>2. CASE pc'[t] # "adopt"
    BY <1>0, <1>1, <2>2, ObservationLasts DEF UnlistedIsGone
  <2>3. CASE Aside(t)
    BY <1>1, <2>3 DEF Aside, UnlistedIsGone
  <2>4. CASE pc'[t] = pc[t] /\ (Calls(t) \/ RetireSave(t)) /\ pc'[t] = "adopt"
    <3>1. ret[t].step # "none"
      BY <2>4 DEF Calls, RetireStop, RetireRemove, RetireDereg, RetireSave
    <3> QED BY <2>4, <3>1 DEF PassesNest
  <2> QED BY <1>0, <2>1, <2>2, <2>3, <2>4 DEF PassStep, Elsewhere
<1> QED BY <1>2, <1>3, NothingBeginsElsewhere

(* A call of a retirement is made while settling or taking down, and       *)
(* touches of the pass's memory only what it knows of that runner.         *)
LEMMA RetiringStaysPut ==
  ASSUME TypeOK, PassesNest, NEW t \in Tickers,
         pc'[t] = pc[t], Calls(t) \/ RetireSave(t)
  PROVE  /\ pc[t] \in {"settle", "apply"}
         /\ listed' = listed /\ cur' = cur
         /\ \/ work' = work /\ todoR' = todoR
            \/ \E q \in Runners, w \in Row :
                 /\ w.state = "retired"
                 /\ work' = [work EXCEPT ![t][q] = w]
                 /\ todoR' = [todoR EXCEPT ![t] = @ \ {q}]
<1>0. t \in Activities
  BY DEF Activities
<1>1. ret[t].step # "none"
  BY DEF Calls, RetireStop, RetireRemove, RetireDereg, RetireSave
<1>2. pc[t] \in {"settle", "apply"}
  BY <1>1 DEF PassesNest
<1>3. ~PoolDropped(t)
  BY <1>0, <1>2 DEF PoolDropped, TypeOK
<1>4. CASE Calls(t)
  BY <1>2, <1>4 DEF Calls, RetireStop, RetireRemove, RetireDereg
<1>5. CASE RetireSave(t)
  <2> DEFINE q == ret[t].runner
             w == MovedTo(work[t][q], "retired")
  <2>1. q \in Runners /\ work[t][q] \in Row
    BY <1>0, <1>1 DEF TypeOK
  <2>2. w \in Row /\ w.state = "retired"
    BY <2>1 DEF MovedTo, Row, RunnerState
  <2>3. /\ work' = [work EXCEPT ![t][q] = w]
        /\ todoR' = [todoR EXCEPT ![t] = @ \ {q}]
        /\ listed' = listed /\ cur' = cur
    BY <1>2, <1>3, <1>5 DEF RetireSave
  <2> HIDE DEF q, w
  <2> QED BY <1>2, <2>1, <2>2, <2>3
<1> QED BY <1>4, <1>5

(* What a pass works on is its pool's.                                     *)
LEMMA WorkStaysOwn ==
  ASSUME TypeOK, PassesNest, OnePass, WorkIsOwn, Next
  PROVE  WorkIsOwn'
<1> SUFFICES ASSUME NEW t \in Tickers, NEW r \in Runners,
                    \/ pc'[t] \in {"forge", "adopt"} /\ work'[t][r].state # Absent
                    \/ pc'[t] = "settle" /\ r \in todoR'[t]
             PROVE  PoolOf[r] = cur'[t]
  BY DEF WorkIsOwn
<1>0. PassStep(t) /\ t \in Activities
  BY StepsOfAPass DEF Activities
<1>1. CASE Aside(t)
  BY <1>1 DEF Aside, WorkIsOwn
<1>2. CASE pc'[t] = "forge" /\ \E p \in Pools : ReadRows(t, p)
  <2>1. PICK p \in Pools : ReadRows(t, p)
    BY <1>2
  <2> DEFINE rows == [q \in Runners |->
                       IF PoolOf[q] = p /\ IsLive(row[q]) THEN row[q] ELSE NoRow]
  <2>2. pc[t] # "forge"
    BY <2>1 DEF ReadRows
  <2>3. cur' = [cur EXCEPT ![t] = p] /\ work' = [work EXCEPT ![t] = rows]
    BY <1>2, <2>1, <2>2 DEF ReadRows
  <2>4. rows[r].state # Absent => PoolOf[r] = p
    BY DEF NoRow
  <2> HIDE DEF rows
  <2> QED BY <1>0, <1>2, <2>3, <2>4 DEF TypeOK
<1>3. CASE pc'[t] = "adopt" /\ ReadForge(t)
  <2>1. ~PoolDropped(t)
    BY <1>0, <1>3 DEF PoolDropped, TypeOK
  <2> QED BY <1>3, <2>1 DEF ReadForge, WorkIsOwn
<1>4. CASE pc'[t] = "settle" /\ Adopt(t)
  <2>1. pc[t] = "adopt" /\ cur' = cur
    BY <1>4 DEF Adopt
  <2>2. todoR'[t] = Unknown(t) \cup {q \in Runners : work[t][q].state # Absent}
    BY <1>0, <1>4 DEF Adopt, Unknown, TypeOK
  <2>3. PoolOf[r] = cur[t] \/ work[t][r].state # Absent
    <3>1. pc'[t] = "settle"
      BY <1>4
    <3>2. r \in todoR'[t]
      BY <3>1
    <3> QED BY <2>2, <3>2 DEF Unknown
  <2> QED BY <2>1, <2>3 DEF WorkIsOwn
<1>5. CASE pc'[t] = "settle" /\ \E q \in Runners : Settles(t, q)
  <2>1. ~PoolDropped(t)
    BY <1>0, <1>5 DEF PoolDropped, TypeOK
  <2>2. pc[t] = "settle" /\ cur' = cur
    BY <1>5, <2>1 DEF Settles, SettleWait, SettleRetire, SettleMove, Settling
  <2>3. todoR' = todoR \/ \E q \in Runners : todoR' = [todoR EXCEPT ![t] = @ \ {q}]
    BY <1>5, <2>1 DEF Settles, SettleWait, SettleRetire, SettleMove
  <2>4. todoR'[t] \subseteq todoR[t]
    BY <1>0, <2>3 DEF TypeOK
  <2> QED BY <1>5, <2>2, <2>4 DEF WorkIsOwn
<1>6. CASE pc'[t] = pc[t] /\ (Calls(t) \/ RetireSave(t))
  <2>1. /\ pc[t] \in {"settle", "apply"} /\ cur' = cur
        /\ todoR' = todoR \/ \E q : todoR' = [todoR EXCEPT ![t] = @ \ {q}]
    BY <1>6, RetiringStaysPut
  <2>2. todoR'[t] \subseteq todoR[t]
    BY <1>0, <2>1 DEF TypeOK
  <2> QED BY <1>6, <2>1, <2>2 DEF WorkIsOwn
<1> QED BY <1>0, <1>1, <1>2, <1>3, <1>4, <1>5, <1>6 DEF PassStep, Elsewhere

(* A runner is left, or moved, to idle only if GitHub listed it.           *)
LEMMA IdleVerdict ==
  ASSUME NEW w \in Row, NEW c \in ContainerState, NEW l \in RegState
  PROVE  /\ Verdict(w, c, l) = "idle" => l \in {"online", "offline"}
         /\ Verdict(w, c, l) = "wait" => w.state # "idle"
BY DEF Verdict, Row, RegState, ContainerState

(* Idle runners have been listed, from their settling to the end.          *)
LEMMA IdleStaysListed ==
  ASSUME TypeOK, PassesNest, OnePass, IdleIsListed, Next
  PROVE  IdleIsListed'
<1> SUFFICES ASSUME NEW t \in Tickers, NEW r \in Runners,
                    pc'[t] \in {"sweep", "apply"} \/ (pc'[t] = "settle" /\ r \notin todoR'[t]),
                    work'[t][r].state = "idle"
             PROVE  listed'[t][r] \in {"online", "offline"}
  BY DEF IdleIsListed
<1>0. PassStep(t) /\ t \in Activities
  BY StepsOfAPass DEF Activities
<1>1. CASE Aside(t)
  BY <1>1 DEF Aside, IdleIsListed
<1>2. CASE pc'[t] = "settle" /\ Adopt(t)
  <2>1. PICK new : Adopts(t, new)
    BY <1>2, AdoptionWrites
  <2>2. todoR'[t] = Unknown(t) \cup {q \in Runners : work[t][q].state # Absent}
    BY <1>0, <1>2 DEF Adopt, Unknown, TypeOK
  <2>3. r \notin Unknown(t) /\ work[t][r].state = Absent
    BY <1>2, <2>2
  <2>4. work' = [work EXCEPT ![t] =
          [q \in Runners |-> IF q \in Unknown(t) THEN new[q] ELSE work[t][q]]]
    BY <2>1 DEF Adopts
  <2>5. work'[t][r] = work[t][r]
    BY <1>0, <2>3, <2>4 DEF TypeOK
  <2> QED BY <2>3, <2>5 DEF Absent
<1>3. CASE pc'[t] = "settle" /\ \E q \in Runners : Settles(t, q)
  <2>0. PICK q \in Runners : Settles(t, q)
    BY <1>3
  <2>1. ~PoolDropped(t)
    BY <1>0, <1>3 DEF PoolDropped, TypeOK
  <2>2. pc[t] = "settle" /\ listed' = listed
    BY <2>0, <2>1 DEF Settles, SettleWait, SettleRetire, SettleMove, Settling
  <2>3. /\ work[t][q] \in Row /\ seen[t][q] \in ContainerState
        /\ listed[t][q] \in RegState
    BY <1>0 DEF TypeOK
  <2>4. CASE SettleWait(t, q)
    <3>1. todoR' = [todoR EXCEPT ![t] = @ \ {q}] /\ work' = work
      BY <2>1, <2>4 DEF SettleWait
    <3>2. r # q
      BY <2>3, <2>4, <3>1, IdleVerdict DEF SettleWait, VerdictOn
    <3> QED BY <1>0, <1>3, <2>2, <3>1, <3>2 DEF IdleIsListed, TypeOK
  <2>5. CASE SettleRetire(t, q)
    BY <1>3, <2>2, <2>5 DEF SettleRetire, IdleIsListed
  <2>6. CASE SettleMove(t, q)
    <3> DEFINE w == MovedTo(work[t][q], VerdictOn(t, q))
    <3>1. todoR' = [todoR EXCEPT ![t] = @ \ {q}] /\ work' = [work EXCEPT ![t][q] = w]
      BY <2>1, <2>6 DEF SettleMove
    <3>2. w.state = VerdictOn(t, q)
      BY <2>3 DEF MovedTo, Row
    <3> HIDE DEF w
    <3>3. CASE r = q
      <4>1. VerdictOn(t, q) = "idle"
        BY <1>0, <3>1, <3>2, <3>3 DEF TypeOK
      <4> QED BY <2>2, <2>3, <3>3, <4>1, IdleVerdict DEF VerdictOn
    <3>4. CASE r # q
      BY <1>0, <1>3, <2>2, <3>1, <3>4 DEF IdleIsListed, TypeOK
    <3> QED BY <3>3, <3>4
  <2> QED BY <2>0, <2>4, <2>5, <2>6 DEF Settles
<1>4. CASE pc'[t] = "sweep" /\ EndSettle(t)
  BY <1>4 DEF EndSettle, IdleIsListed
<1>5. CASE pc'[t] = "sweep" /\ \E q \in Runners : Sweep(t, q)
  BY <1>5 DEF Sweep, IdleIsListed
<1>6. CASE pc'[t] = "apply" /\ (PlanPool(t) \/ \E q \in Runners : Apply(t, q))
  BY <1>6 DEF PlanPool, Apply, IdleIsListed
<1>7. CASE pc'[t] = pc[t] /\ (Calls(t) \/ RetireSave(t))
  <2>1. CASE work' = work /\ todoR' = todoR
    BY <1>7, <2>1, RetiringStaysPut DEF IdleIsListed
  <2>2. CASE ~(work' = work /\ todoR' = todoR)
    <3>1. PICK q \in Runners, w \in Row :
            /\ w.state = "retired"
            /\ work' = [work EXCEPT ![t][q] = w]
            /\ todoR' = [todoR EXCEPT ![t] = @ \ {q}]
      BY <1>7, <2>2, RetiringStaysPut
    <3>2. r # q
      BY <1>0, <3>1 DEF TypeOK
    <3>3. work'[t][r] = work[t][r] /\ (r \in todoR'[t] <=> r \in todoR[t])
      BY <1>0, <3>1, <3>2 DEF TypeOK
    <3>4. listed' = listed
      BY <1>7, RetiringStaysPut
    <3> QED BY <1>7, <3>3, <3>4 DEF IdleIsListed
  <2> QED BY <2>1, <2>2
<1> QED BY <1>0, <1>1, <1>2, <1>3, <1>4, <1>5, <1>6, <1>7 DEF PassStep, Elsewhere

(* A plan takes down the idle and those that overran.                      *)
LEMMA PlansStayHeeded ==
  ASSUME TypeOK, PassesNest, OnePass, PlansAreHeeded, Next
  PROVE  PlansAreHeeded'
<1> SUFFICES ASSUME NEW t \in Tickers, NEW r \in Runners, pc'[t] = "apply", r \in todoR'[t]
             PROVE  OverranOrIdle(work'[t][r])
  BY DEF PlansAreHeeded, OverranOrIdle
<1>0. PassStep(t) /\ t \in Activities
  BY StepsOfAPass DEF Activities
<1>1. CASE Aside(t)
  BY <1>1 DEF Aside, PlansAreHeeded
<1>2. CASE PlanPool(t)
  <2> DEFINE spec == PoolSpec[cur[t]]
             v == View(t)
  <2>1. pc[t] = "sweep" /\ work' = work
    BY <1>2 DEF PlanPool
  <2>2. spec.max_job_duration = 0
    <3>1. cur[t] \in Pools
      BY <2>1 DEF PassesNest, Judging
    <3> QED BY <3>1, FleetAssumption
  <2>3. PICK idle \in Retire(spec, v, jobs[t]) :
          todoR' = [todoR EXCEPT ![t] = idle \cup Terminate(spec, v)]
    BY <1>2 DEF PlanPool
  <2>4. r \in idle \/ r \in Terminate(spec, v)
    BY <1>0, <2>3 DEF TypeOK
  <2>5. ASSUME NEW q \in DOMAIN v.state
        PROVE  /\ v.state[q] = work[t][q].state
               /\ v.age[q] > 0 => work[t][q].aged
    BY <2>5 DEF View
  <2>6. CASE r \in idle
    <3>1. r \in DOMAIN v.state /\ v.state[r] = "idle"
      BY <2>3, <2>6, RetiredAreIdle DEF Idle, InState
    <3> QED BY <2>1, <2>5, <3>1 DEF OverranOrIdle
  <2>7. CASE r \in Terminate(spec, v)
    <3>1. /\ r \in DOMAIN v.state /\ v.state[r] \in {"busy", "draining"}
          /\ v.age[r] > 0
      BY <2>2, <2>7 DEF Terminate, Overrunning, InState
    <3> QED BY <2>1, <2>5, <3>1 DEF OverranOrIdle
  <2> QED BY <2>4, <2>6, <2>7
<1>3. CASE \E q \in Runners : Apply(t, q)
  BY <1>3 DEF Apply, PlansAreHeeded
<1>4. CASE pc'[t] = pc[t] /\ (Calls(t) \/ RetireSave(t))
  <2>1. CASE work' = work /\ todoR' = todoR
    BY <1>4, <2>1 DEF PlansAreHeeded
  <2>2. CASE ~(work' = work /\ todoR' = todoR)
    <3>1. PICK q \in Runners, w \in Row :
            /\ work' = [work EXCEPT ![t][q] = w]
            /\ todoR' = [todoR EXCEPT ![t] = @ \ {q}]
      BY <1>4, <2>2, RetiringStaysPut
    <3>2. r # q /\ r \in todoR[t]
      BY <1>0, <3>1 DEF TypeOK
    <3>3. work'[t][r] = work[t][r]
      BY <1>0, <3>1, <3>2 DEF TypeOK
    <3> QED BY <1>4, <3>2, <3>3 DEF PlansAreHeeded
  <2> QED BY <2>1, <2>2
<1> QED BY <1>0, <1>1, <1>2, <1>3, <1>4 DEF PassStep, Elsewhere

(* A verdict that ends in a call to Docker is one on a container that was  *)
(* seen down, or on a runner GitHub did not list.                          *)
LEMMA RetireVerdict ==
  ASSUME NEW w \in Row, Sound(w), NEW c \in ContainerState, NEW l \in RegState,
         Verdict(w, c, l) = "retire", FirstStep(w) \in {"stop", "remove"}
  PROVE  c \in {"none", "exited"} \/ l = "none"
<1>1. w.cid /\ w.gid /\ w.state # "pending"
  BY DEF FirstStep, Sound, Row
<1>2. CASE w.state = "registered" /\ c = "none"
  BY <1>2
<1>3. CASE ~(w.state = "registered" /\ c = "none")
  <2>1. \/ c \in {"none", "exited"} \/ l = "none"
        \/ Verdict(w, c, l) \in {"busy", "idle", w.state}
    BY <1>1, <1>3 DEF Verdict, RegState, ContainerState
  <2> QED BY <2>1 DEF Row, RunnerState, Absent
<1> QED BY <1>2, <1>3

(* A retirement keeps its cause until its container is gone.               *)
LEMMA CausesAreKept ==
  ASSUME PassInv, OnePass, Next
  PROVE  RetiringForCause'
<1> USE DEF PassInv
<1> SUFFICES ASSUME NEW t \in Tickers, ret'[t].step \in {"stop", "remove"}
             PROVE  \/ ctr'[ret'[t].runner] # "running" \/ reg'[ret'[t].runner] = "none"
                    \/ /\ ret'[t].force
                       /\ work'[t][ret'[t].runner].state \in {"busy", "draining"}
                       /\ work'[t][ret'[t].runner].aged
                    \/ /\ work'[t][ret'[t].runner].state = "idle"
                       /\ listed'[t][ret'[t].runner] \in {"online", "offline"}
  BY DEF RetiringForCause
<1>0. PassStep(t) /\ t \in Activities
  BY StepsOfAPass DEF Activities
<1>1. ret[t].step # "none" => pc[t] \in {"settle", "apply"}
  BY DEF PassesNest
<1>2. ASSUME ret[t].step \in {"stop", "remove"}, ret'[t].runner = ret[t].runner,
             ret'[t].force = ret[t].force, work'[t] = work[t], listed'[t] = listed[t]
      PROVE  \/ ctr'[ret'[t].runner] # "running" \/ reg'[ret'[t].runner] = "none"
             \/ /\ ret'[t].force
                /\ work'[t][ret'[t].runner].state \in {"busy", "draining"}
                /\ work'[t][ret'[t].runner].aged
             \/ /\ work'[t][ret'[t].runner].state = "idle"
                /\ listed'[t][ret'[t].runner] \in {"online", "offline"}
  <2>1. pc[t] # "launch" /\ ret[t].runner \in Runners
    BY <1>0, <1>1, <1>2 DEF TypeOK
  <2>2. /\ ctr'[ret[t].runner] = "running" => ctr[ret[t].runner] = "running"
        /\ reg[ret[t].runner] = "none" => reg'[ret[t].runner] = "none"
    BY <2>1, NothingBeginsElsewhere
  <2> QED BY <1>2, <2>2 DEF RetiringForCause
<1>3. CASE Aside(t)
  BY <1>2, <1>3 DEF Aside
<1>4. CASE pc'[t] = pc[t] /\ Calls(t)
  <2>1. RetireStop(t)
    <3>1. CASE RetireRemove(t)
      BY <1>0, <3>1 DEF RetireRemove, TypeOK
    <3>2. CASE RetireDereg(t)
      BY <1>0, <3>2 DEF RetireDereg, TypeOK
    <3> QED BY <1>4, <3>1, <3>2 DEF Calls
  <2>2. ret[t].step = "stop" /\ work' = work /\ listed' = listed
    BY <2>1 DEF RetireStop
  <2>3. ret'[t].runner = ret[t].runner /\ ret'[t].force = ret[t].force
    BY <1>0, <2>1 DEF RetireStop, TypeOK
  <2> QED BY <1>2, <2>2, <2>3
<1>5. CASE pc'[t] = pc[t] /\ RetireSave(t)
  BY <1>0, <1>5 DEF RetireSave, PoolDropped, NoRetirement, TypeOK
<1>6. ASSUME NEW r \in Runners, pc'[t] = "settle", SettleRetire(t, r)
      PROVE  ctr'[ret'[t].runner] # "running" \/ reg'[ret'[t].runner] = "none"
  <2>1. ret'[t].runner = r /\ ret'[t].step = FirstStep(work[t][r])
    BY <1>0, <1>6 DEF SettleRetire, Retiring, TypeOK
  <2>2. /\ work[t][r] \in Row /\ Sound(work[t][r])
        /\ seen[t][r] \in ContainerState /\ listed[t][r] \in RegState
    BY <1>0 DEF TypeOK, RowsAreSound
  <2>3. /\ pc[t] = "settle" /\ r \in todoR[t]
        /\ Verdict(work[t][r], seen[t][r], listed[t][r]) = "retire"
    BY <1>6 DEF SettleRetire, Settling, VerdictOn
  <2>4. seen[t][r] \in {"none", "exited"} \/ listed[t][r] = "none"
    BY <2>1, <2>2, <2>3, RetireVerdict
  <2>5. ctr[r] # "running" \/ reg[r] = "none"
    BY <2>3, <2>4 DEF SeenDownIsDown, UnlistedIsGone, WorkIsOwn, Observing, Judging
  <2>6. ctr' = ctr /\ reg' = reg
    BY <1>6 DEF SettleRetire, world
  <2> QED BY <2>1, <2>5, <2>6
<1>7. ASSUME NEW r \in Runners, Apply(t, r)
      PROVE  \/ /\ ret'[t].force
                /\ work'[t][ret'[t].runner].state \in {"busy", "draining"}
                /\ work'[t][ret'[t].runner].aged
             \/ /\ work'[t][ret'[t].runner].state = "idle"
                /\ listed'[t][ret'[t].runner] \in {"online", "offline"}
  <2> DEFINE overran == {q \in todoR[t] : work[t][q].state # "idle"}
             forced == r \in overran
  <2>1. ret'[t].runner = r /\ ret'[t].force = forced
    BY <1>0, <1>7 DEF Apply, Retiring, TypeOK
  <2>2. pc[t] = "apply" /\ r \in todoR[t] /\ work' = work /\ listed' = listed
    BY <1>7 DEF Apply
  <2>3. OverranOrIdle(work[t][r])
    BY <2>2 DEF PlansAreHeeded
  <2>4. work[t][r].state = "idle" => listed[t][r] \in {"online", "offline"}
    BY <2>2 DEF IdleIsListed
  <2>5. work[t][r].state # "idle" => forced
    BY <2>2
  <2> HIDE DEF forced
  <2> QED BY <2>1, <2>2, <2>3, <2>4, <2>5 DEF OverranOrIdle
<1>8. CASE pc'[t] = "settle" /\ \E r \in Runners : Settles(t, r)
  <2>1. PICK r \in Runners : Settles(t, r)
    BY <1>8
  <2>2. CASE SettleRetire(t, r)
    BY <1>6, <1>8, <2>2
  <2>3. CASE SettleWait(t, r) \/ SettleMove(t, r)
    <3>1. ret[t].step = "none"
      BY <2>3 DEF SettleWait, SettleMove, Settling
    <3> QED BY <1>0, <2>3, <3>1 DEF SettleWait, SettleMove, PoolDropped, NoRetirement, TypeOK
  <2> QED BY <2>1, <2>2, <2>3 DEF Settles
<1>9. CASE pc[t] \notin {"settle", "apply"} /\ ret' = ret
  BY <1>1, <1>9
<1>10. CASE ret'[t] = NoRetirement
  BY <1>10 DEF NoRetirement
<1>11. CASE \/ \E p \in Pools : ReadRows(t, p)
            \/ ReadForge(t) \/ Adopt(t) \/ EndSettle(t) \/ PlanPool(t)
            \/ \E r \in Runners : Sweep(t, r)
  <2>1. ret[t].step = "none"
    BY <1>1, <1>11 DEF ReadRows, ReadForge, Adopt, EndSettle, PlanPool, Sweep
  <2>2. ret' = ret \/ ret'[t] = NoRetirement
    BY <1>0, <1>11 DEF ReadRows, ReadForge, Adopt, EndSettle, PlanPool, Sweep, PoolDropped, TypeOK
  <2> QED BY <1>10, <2>1, <2>2
<1> QED BY <1>0, <1>3, <1>4, <1>5, <1>7, <1>8, <1>11 DEF PassStep, Elsewhere

(* The invariant holds at the start, when nothing runs ...                 *)
LEMMA PassInvStarts == Init => PassInv
<1> SUFFICES ASSUME Init PROVE PassInv
  OBVIOUS
<1>1. TypeOK
  BY StartIsTyped
<1>2. RowsAreSound
  BY DEF Init, RowsAreSound, Sound, NoWork, NoRow
<1>3. \A t \in Tickers : pc[t] = "idle" /\ ret[t].step = "none"
  BY DEF Init, Activities, NoRetirement
<1> QED BY <1>1, <1>2, <1>3 DEF PassInv, PassesNest, SeenDownIsDown, UnlistedIsGone,
      WorkIsOwn, IdleIsListed, PlansAreHeeded, RetiringForCause, Observing, Judging

(* ... and every step keeps it.                                            *)
LEMMA PassInvIsKept ==
  ASSUME OnePass, PassInv, [Next]_vars
  PROVE  PassInv'
<1>1. CASE Next
  <2>1. TypeOK'
    BY StepIsTyped DEF PassInv
  <2>2. RowsAreSound' /\ PassesNest'
    BY <1>1, SoundIsKept, NestingIsKept DEF PassInv
  <2>3. SeenDownIsDown' /\ UnlistedIsGone'
    BY <1>1, SeenDownIsKept, UnlistedIsKept DEF PassInv
  <2>4. WorkIsOwn' /\ IdleIsListed' /\ PlansAreHeeded'
    BY <1>1, WorkStaysOwn, IdleStaysListed, PlansStayHeeded DEF PassInv
  <2>5. RetiringForCause'
    BY <1>1, CausesAreKept
  <2> QED BY <2>1, <2>2, <2>3, <2>4, <2>5 DEF PassInv
<1>2. CASE UNCHANGED vars
  BY <1>2 DEF vars, world, memory, PassInv, TypeOK, RowsAreSound, Sound, PassesNest,
     SeenDownIsDown, UnlistedIsGone, WorkIsOwn, IdleIsListed, PlansAreHeeded,
     OverranOrIdle, RetiringForCause
<1> QED BY <1>1, <1>2

(* No build is torn down by a lone pass that misjudges it, whatever        *)
(* operators do at the same time.                                          *)
THEOREM BuildsAlwaysSurvive ==
  ASSUME OnePass
  PROVE  Spec => []BuildsSurvive
<1>1. PassInv => BuildsSurvive
  BY DEF PassInv, RetiringForCause, BuildsSurvive
<1>2. PassInv /\ [Next]_vars => PassInv'
  BY PassInvIsKept
<1> QED BY <1>1, <1>2, PassInvStarts, PTL DEF Spec

-----------------------------------------------------------------------------
(* The sweep, and the record of a launch.                                  *)

(* Outside its launches a pass provisions nothing, and nothing changes how *)
(* far a provisioning is.                                                  *)
LEMMA OnlyLaunchesProvision ==
  ASSUME TypeOK, PassesNest, LaunchesNest, OnePass, NEW t \in Tickers,
         pc[t] # "launch", Next, NEW r \in Runners
  PROVE  prov[r] = "none" /\ prov'[r] = "none"
<1>0. prov[r] = "none"
  BY DEF LaunchesNest
<1>1. \A u \in Tickers : u = t
  BY DEF OnePass
<1>2. CASE Crash
  BY <1>0, <1>2 DEF Crash
<1>3. CASE \E u \in Activities : RetireNext(u)
  BY <1>0, <1>3 DEF RetireNext, RetireStop, RetireRemove, RetireDereg, RetireSave,
     RetireRefused, PoolDropped
<1>4. CASE \/ \E q \in Runners : World(q)
           \/ \E p \in Pools : Arrive(p)
           \/ \E u \in Operators, q \in Runners : OperatorStop(u, q)
  BY <1>0, <1>4, OthersStandAside DEF Aside
<1>5. CASE Tick(t)
  <2>1. CASE \/ BeginTick(t) \/ ReadForge(t) \/ Adopt(t) \/ EndSettle(t) \/ PlanPool(t)
             \/ EndPool(t) \/ Admit(t)
             \/ \E p \in Pools : ReadRows(t, p)
             \/ \E q \in Runners : Settle(t, q) \/ Sweep(t, q) \/ Apply(t, q)
    BY <1>0, <2>1 DEF BeginTick, ReadForge, Adopt, EndSettle, PlanPool, EndPool, Admit,
       ReadRows, Settle, SettleWait, SettleRetire, SettleMove, SettleRefused, Sweep, Apply,
       PoolDropped
  <2> QED BY <1>5, <2>1 DEF Tick, EndTick, LaunchPool, Provision
<1> QED BY <1>1, <1>2, <1>3, <1>4, <1>5 DEF Next

(* What one step of a provisioning does to the others, and when it ends.   *)
LEMMA ProvisioningSteps ==
  ASSUME TypeOK, NEW t \in Tickers, NEW q \in Runners, Provision(t, q)
  PROVE  /\ pc[t] = "launch" /\ pc' = pc /\ q \in todoR[t]
         /\ \E s : prov' = [prov EXCEPT ![q] = s]
         /\ \/ todoR' = todoR
            \/ prov'[q] = "none" /\ todoR' = [todoR EXCEPT ![t] = @ \ {q}]
         /\ \A r \in Runners \ {q} : row'[r] = row[r]
         /\ prov'[q] = "registered" => row'[q].state = "registered" /\ row'[q].gid
<1>1. pc[t] = "launch" /\ q \in todoR[t]
  BY DEF Provision
<1>2. pc' = pc
  BY DEF Provision, SavePending, Mint, SaveRegistered, CreateContainer, SaveStarting,
     Abandon, SaveFailed, provMemory
<1>3. \E s : prov' = [prov EXCEPT ![q] = s]
  BY DEF Provision, SavePending, Mint, SaveRegistered, CreateContainer, SaveStarting,
     Abandon, SaveFailed, Step
<1>4. \/ todoR' = todoR
      \/ prov'[q] = "none" /\ todoR' = [todoR EXCEPT ![t] = @ \ {q}]
  BY DEF Provision, SavePending, Mint, SaveRegistered, CreateContainer, SaveStarting,
     Abandon, SaveFailed, Step, Ends, TypeOK
<1>5. \A r \in Runners \ {q} : row'[r] = row[r]
  BY DEF Provision, SavePending, Mint, SaveRegistered, CreateContainer, SaveStarting,
     Abandon, SaveFailed, Saved, world, TypeOK
<1>6. ASSUME prov'[q] = "registered" PROVE row'[q].state = "registered" /\ row'[q].gid
  <2>1. SaveRegistered(t, q)
    BY <1>6 DEF Provision, SavePending, Mint, CreateContainer, SaveStarting,
       Abandon, SaveFailed, Step, TypeOK
  <2> QED BY <2>1 DEF SaveRegistered, Saved, Registered, TypeOK
<1> QED BY <1>1, <1>2, <1>3, <1>4, <1>5, <1>6

(* Provisioning stays inside the launches.                                 *)
LEMMA LaunchesStayNested ==
  ASSUME TypeOK, PassesNest, LaunchesNest, OnePass, Next
  PROVE  LaunchesNest'
<1> SUFFICES ASSUME NEW t \in Tickers, NEW r \in Runners, prov'[r] # "none"
             PROVE  pc'[t] = "launch" /\ r \in todoR'[t]
  BY DEF LaunchesNest
<1>0. t \in Activities /\ \A u \in Tickers : u = t
  BY DEF Activities, OnePass
<1>1. pc[t] = "launch"
  BY OnlyLaunchesProvision
<1>2. prov[r] # "none" => r \in todoR[t]
  BY DEF LaunchesNest
<1>3. CASE Crash
  BY <1>3 DEF Crash
<1>4. CASE Aside(t)
  BY <1>1, <1>2, <1>4 DEF Aside
<1>5. CASE RetireNext(t)
  <2>1. ret[t].step # "none"
    BY <1>5 DEF RetireNext, RetireStop, RetireRemove, RetireDereg, RetireSave, RetireRefused
  <2> QED BY <1>1, <2>1 DEF PassesNest
<1>6. CASE Tick(t)
  <2>1. CASE \E p \in Pools : LaunchPool(t, p)
    <3>1. PICK p \in Pools : LaunchPool(t, p)
      BY <2>1
    <3>2. prov[r] = "none" /\ pc' = pc
      BY <1>2, <3>1 DEF LaunchPool
    <3>3. PICK R \in SUBSET Runners :
            /\ prov' = [q \in Runners |-> IF q \in R THEN "new" ELSE prov[q]]
            /\ todoR' = [todoR EXCEPT ![t] = R]
      BY <3>1 DEF LaunchPool
    <3>4. r \in R
      BY <3>2, <3>3
    <3> QED BY <1>0, <1>1, <3>2, <3>3, <3>4 DEF TypeOK
  <2>2. CASE EndTick(t)
    BY <1>2, <2>2 DEF EndTick
  <2>3. ASSUME NEW q \in Runners, Provision(t, q)
        PROVE  pc'[t] = "launch" /\ r \in todoR'[t]
    <3>1. PICK s : prov' = [prov EXCEPT ![q] = s]
      BY <2>3, ProvisioningSteps
    <3>2. /\ pc' = pc /\ q \in todoR[t]
          /\ \/ todoR' = todoR
             \/ prov'[q] = "none" /\ todoR' = [todoR EXCEPT ![t] = @ \ {q}]
      BY <2>3, ProvisioningSteps
    <3>3. r \in todoR[t]
      BY <1>2, <3>1, <3>2 DEF TypeOK
    <3> QED BY <1>0, <1>1, <3>2, <3>3 DEF TypeOK
  <2> QED BY <1>1, <1>6, <2>1, <2>2, <2>3
      DEF Tick, BeginTick, ReadRows, ReadForge, Adopt, EndSettle, PlanPool, EndPool, Admit,
          Settle, SettleWait, SettleRetire, SettleMove, SettleRefused, Settling, Sweep, Apply
<1> QED BY <1>0, <1>3, <1>4, <1>5, <1>6, OthersStandAside DEF Next, Activities

(* Strays are listed, and not held by any of the pool's rows.              *)
LEMMA SweepsStayOfStrays ==
  ASSUME TypeOK, PassesNest, SweepsAreOfStrays, OnePass, Next
  PROVE  SweepsAreOfStrays'
<1> SUFFICES ASSUME NEW t \in Tickers, NEW r \in Runners, pc'[t] = "sweep", r \in todoR'[t]
             PROVE  listed'[t][r] # "none" /\ ~work'[t][r].gid
  BY DEF SweepsAreOfStrays
<1>0. PassStep(t) /\ t \in Activities
  BY StepsOfAPass DEF Activities
<1>1. CASE Aside(t)
  BY <1>1 DEF Aside, SweepsAreOfStrays
<1>2. CASE EndSettle(t)
  <2>1. r \in Strays(t)
    BY <1>0, <1>2 DEF EndSettle, TypeOK
  <2> QED BY <1>2, <2>1 DEF EndSettle, Strays
<1>3. CASE \E q \in Runners : Sweep(t, q)
  <2>1. PICK q \in Runners : Sweep(t, q)
    BY <1>3
  <2>2. r \in todoR[t]
    BY <1>0, <2>1 DEF Sweep, TypeOK
  <2> QED BY <2>1, <2>2 DEF Sweep, SweepsAreOfStrays
<1>4. CASE pc'[t] = pc[t] /\ (Calls(t) \/ RetireSave(t))
  BY <1>4, RetiringStaysPut
<1> QED BY <1>0, <1>1, <1>2, <1>3, <1>4 DEF PassStep, Elsewhere

(* A saved retirement leaves its row dead and the other rows alone.        *)
LEMMA RetiredRowsAreDead ==
  ASSUME TypeOK, NEW u \in Activities, RetireNext(u), NEW r \in Runners, IsLive(row'[r])
  PROVE  row'[r] = row[r]
<1>1. CASE RetireSave(u)
  <2> DEFINE q == ret[u].runner
             w == MovedTo(work[u][q], "retired")
  <2>1. q \in Runners /\ work[u][q] \in Row
    BY <1>1 DEF RetireSave, TypeOK
  <2>2. w \in Row /\ w.state = "retired"
    BY <2>1 DEF MovedTo, Row, RunnerState
  <2>3. row' = Saved(q, w)
    BY <1>1 DEF RetireSave
  <2> HIDE DEF q, w
  <2>4. ~IsLive(row'[q])
    BY <2>1, <2>2, <2>3 DEF Saved, IsLive, TerminalStates, TypeOK, Row
  <2>5. r # q
    BY <2>4
  <2> QED BY <2>1, <2>3, <2>5 DEF Saved, TypeOK
<1>2. CASE ~RetireSave(u)
  BY <1>2 DEF RetireNext, RetireStop, RetireRemove, RetireDereg, RetireRefused, world
<1> QED BY <1>1, <1>2

(* Nobody but the pass makes a row live, or has it claim a registration.   *)
LEMMA OthersMakeNoClaims ==
  ASSUME TypeOK, NEW t \in Tickers, NEW r \in Runners, Aside(t), Next, ~Tick(t), OnePass,
         IsLive(row'[r]), row'[r].gid
  PROVE  \/ IsLive(row[r]) /\ row[r].gid
         \/ pc[t] = "idle"
<1>0. \A u \in Tickers : u = t
  BY DEF OnePass
<1>1. ASSUME NEW q \in Runners, World(q) PROVE IsLive(row[r]) /\ row[r].gid
  <2>1. CASE Elapse(q)
    BY <1>1, <2>1 DEF Elapse, IsLive, TypeOK, Row
  <2>2. CASE Prune(q)
    BY <1>1, <2>2 DEF Prune, IsLive, TypeOK, NoRow
  <2>3. CASE ~Elapse(q) /\ ~Prune(q)
    BY <1>1, <2>3 DEF World, Boot, TakeJob, FinishJob, Exit, Accident, Disconnect
  <2> QED BY <2>1, <2>2, <2>3
<1>2. CASE Crash
  BY <1>2 DEF Crash, Aside, Activities
<1>3. ASSUME NEW u \in Activities, RetireNext(u) PROVE IsLive(row[r]) /\ row[r].gid
  <2>1. row'[r] = row[r]
    BY <1>3, RetiredRowsAreDead
  <2> QED BY <2>1 DEF IsLive
<1>4. CASE \/ \E p \in Pools : Arrive(p)
           \/ \E u \in Operators, q \in Runners : OperatorStop(u, q)
  BY <1>4 DEF Arrive, OperatorStop, world
<1> QED BY <1>0, <1>1, <1>2, <1>3, <1>4 DEF Next

(* What claims a registration in the store is known to the pass.           *)
LEMMA ClaimsStayKnown ==
  ASSUME TypeOK, PassesNest, WorkIsOwn, ClaimsAreKnown, OnePass, Next
  PROVE  ClaimsAreKnown'
<1> SUFFICES ASSUME NEW t \in Tickers, NEW r \in Runners,
                    pc'[t] \in {"forge", "adopt", "settle", "sweep"},
                    PoolOf[r] = cur'[t], IsLive(row'[r]), row'[r].gid
             PROVE  work'[t][r].gid
  BY DEF ClaimsAreKnown, IsLive
<1>0. PassStep(t) /\ t \in Activities
  BY StepsOfAPass DEF Activities
<1>1. CASE pc'[t] = "forge" /\ \E p \in Pools : ReadRows(t, p)
  <2>1. PICK p \in Pools : ReadRows(t, p)
    BY <1>1
  <2> DEFINE rows == [q \in Runners |->
                       IF PoolOf[q] = p /\ IsLive(row[q]) THEN row[q] ELSE NoRow]
  <2>2. pc[t] # "forge"
    BY <2>1 DEF ReadRows
  <2>3. cur' = [cur EXCEPT ![t] = p] /\ work' = [work EXCEPT ![t] = rows] /\ row' = row
    BY <1>1, <2>1, <2>2 DEF ReadRows
  <2>4. PoolOf[r] = p
    BY <1>0, <2>3 DEF TypeOK
  <2>5. IsLive(row[r])
    BY <2>3 DEF IsLive
  <2>6. rows[r] = row[r]
    BY <2>4, <2>5
  <2> HIDE DEF rows
  <2> QED BY <1>0, <2>3, <2>6 DEF TypeOK
<1>2. CASE pc'[t] = "adopt" /\ ReadForge(t)
  <2>1. ~PoolDropped(t)
    BY <1>0, <1>2 DEF PoolDropped, TypeOK
  <2> QED BY <1>2, <2>1 DEF ReadForge, ClaimsAreKnown, IsLive
<1>3. CASE pc'[t] = "settle" /\ Adopt(t)
  <2>1. PICK new : Adopts(t, new)
    BY <1>3, AdoptionWrites
  <2>2. /\ pc[t] = "adopt" /\ cur' = cur
        /\ row' = [q \in Runners |-> IF q \in Unknown(t) THEN new[q] ELSE row[q]]
        /\ work' = [work EXCEPT ![t] =
             [q \in Runners |-> IF q \in Unknown(t) THEN new[q] ELSE work[t][q]]]
    BY <1>3, <2>1 DEF Adopt, Adopts
  <2>3. CASE r \in Unknown(t)
    <3>1. new[r].gid
      BY <2>1, <2>3 DEF Adopts
    <3> QED BY <1>0, <2>2, <2>3, <3>1 DEF TypeOK
  <2>4. CASE r \notin Unknown(t)
    <3>1. row'[r] = row[r] /\ work'[t][r] = work[t][r]
      BY <1>0, <2>2, <2>4 DEF TypeOK
    <3> QED BY <2>2, <3>1 DEF ClaimsAreKnown, IsLive
  <2> QED BY <2>3, <2>4
<1>4. CASE pc'[t] = "settle" /\ \E q \in Runners : Settles(t, q)
  <2>1. PICK q \in Runners : Settles(t, q)
    BY <1>4
  <2>2. ~PoolDropped(t)
    BY <1>0, <1>4 DEF PoolDropped, TypeOK
  <2>3. pc[t] = "settle" /\ cur' = cur
    BY <2>1, <2>2 DEF Settles, SettleWait, SettleRetire, SettleMove, Settling
  <2>4. CASE SettleWait(t, q) \/ SettleRetire(t, q)
    BY <2>2, <2>3, <2>4 DEF SettleWait, SettleRetire, world, ClaimsAreKnown, IsLive
  <2>5. CASE SettleMove(t, q)
    <3> DEFINE w == MovedTo(work[t][q], VerdictOn(t, q))
    <3>1. row' = Saved(q, w) /\ work' = [work EXCEPT ![t][q] = w]
      BY <2>2, <2>5 DEF SettleMove
    <3>0. w \in Row
      <4>1. /\ work[t][q] \in Row /\ seen[t][q] \in ContainerState
            /\ listed[t][q] \in RegState
        BY <1>0 DEF TypeOK
      <4>2. VerdictOn(t, q) \notin {"wait", "retire"}
        BY <2>5 DEF SettleMove
      <4> QED BY <4>1, <4>2, VerdictIsTyped, MovedIsTyped DEF VerdictOn
    <3> HIDE DEF w
    <3>2. CASE r = q
      <4>1. row'[r].gid = w.gid
        BY <3>0, <3>1, <3>2 DEF Saved, TypeOK, Row
      <4>2. work'[t][r] = w
        BY <1>0, <3>1, <3>2 DEF TypeOK
      <4> QED BY <4>1, <4>2
    <3>3. CASE r # q
      <4>1. row'[r] = row[r] /\ work'[t][r] = work[t][r]
        BY <1>0, <3>1, <3>3 DEF Saved, TypeOK
      <4> QED BY <2>3, <4>1 DEF ClaimsAreKnown, IsLive
    <3> QED BY <3>2, <3>3
  <2> QED BY <2>1, <2>4, <2>5 DEF Settles
<1>5. CASE pc'[t] = "sweep" /\ (EndSettle(t) \/ \E q \in Runners : Sweep(t, q))
  BY <1>5 DEF EndSettle, Sweep, world, ClaimsAreKnown, IsLive
<1>6. CASE pc'[t] = pc[t] /\ (Calls(t) \/ RetireSave(t))
  <2>1. RetireNext(t)
    BY <1>6 DEF Calls, RetireNext
  <2>2. row'[r] = row[r]
    BY <1>0, <2>1, RetiredRowsAreDead
  <2>3. work[t][r].gid
    <3>1. cur' = cur
      BY <1>6, RetiringStaysPut
    <3> QED BY <1>6, <2>2, <3>1 DEF ClaimsAreKnown, IsLive
  <2>4. CASE work' = work
    BY <2>3, <2>4
  <2>5. CASE RetireSave(t)
    <3> DEFINE q == ret[t].runner
               w == MovedTo(work[t][q], "retired")
    <3>1. work' = [work EXCEPT ![t] = NoWork] \/ work' = [work EXCEPT ![t][q] = w]
      BY <2>5 DEF RetireSave, PoolDropped
    <3>2. ~PoolDropped(t)
      <4>1. pc[t] \in {"settle", "apply"}
        BY <1>6, RetiringStaysPut
      <4> QED BY <1>0, <1>6, <4>1 DEF PoolDropped, TypeOK
    <3>3. work' = [work EXCEPT ![t][q] = w]
      BY <2>5, <3>2 DEF RetireSave
    <3>4. q \in Runners /\ work[t][q] \in Row
      BY <1>0, <2>5 DEF RetireSave, TypeOK
    <3>5. w.gid = work[t][q].gid
      BY <3>4 DEF MovedTo, Row
    <3> HIDE DEF q, w
    <3> QED BY <1>0, <2>3, <3>3, <3>4, <3>5 DEF TypeOK
  <2> QED BY <1>6, <2>4, <2>5 DEF Calls, RetireStop, RetireRemove, RetireDereg
<1>7. CASE Aside(t) /\ ~Tick(t)
  <2>1. IsLive(row[r]) /\ row[r].gid
    BY <1>7, OthersMakeNoClaims DEF Aside
  <2> QED BY <1>7, <2>1 DEF Aside, ClaimsAreKnown
<1>8. CASE Aside(t) /\ Tick(t)
  <2>1. pc[t] \in {"forge", "adopt", "settle", "sweep"} /\ cur'[t] = cur[t]
    BY <1>8 DEF Aside
  <2>2. CASE \E q \in Runners : SettleMove(t, q)
    <3>1. PICK q \in Runners : SettleMove(t, q)
      BY <2>2
    <3>2. ~PoolDropped(t)
      BY <1>0, <1>8, <3>1 DEF PoolDropped, Aside, TypeOK, SettleMove, Settling
    <3> QED BY <1>0, <1>4, <1>8, <3>1, <3>2 DEF Aside, SettleMove, Settling, Settles, TypeOK
  <2>3. CASE Adopt(t)
    BY <1>0, <1>8, <2>3 DEF Adopt, Aside, TypeOK
  <2>4. CASE ~Adopt(t) /\ ~\E q \in Runners : SettleMove(t, q)
    <3>1. row' = row
      BY <1>8, <2>1, <2>4
      DEF Tick, BeginTick, ReadRows, ReadForge, EndSettle, PlanPool, EndPool, Admit, EndTick,
          LaunchPool, Settle, SettleWait, SettleRetire, SettleRefused, Sweep, Apply,
          Provision, world
    <3> QED BY <1>8, <2>1, <3>1 DEF Aside, ClaimsAreKnown, IsLive
  <2> QED BY <2>2, <2>3, <2>4
<1> QED BY <1>0, <1>1, <1>2, <1>3, <1>4, <1>5, <1>6, <1>7, <1>8 DEF PassStep, Elsewhere

(* The row of a runner about to get its container stays on record.         *)
LEMMA RegisteredStaysOnRecord ==
  ASSUME TypeOK, PassesNest, LaunchesNest, RegisteredOnRecord, OnePass, Operators = {}, Next
  PROVE  RegisteredOnRecord'
<1> SUFFICES ASSUME NEW r \in Runners, prov'[r] = "registered"
             PROVE  row'[r].state = "registered" /\ row'[r].gid
  BY DEF RegisteredOnRecord
<1>0. prov[r] = "registered" => row[r].state = "registered" /\ row[r].gid
  BY DEF RegisteredOnRecord
<1>1. CASE Crash
  BY <1>1 DEF Crash
<1>2. ASSUME NEW q \in Runners, World(q) PROVE row'[r].state = "registered" /\ row'[r].gid
  <2>1. prov' = prov
    BY <1>2 DEF World, Boot, TakeJob, FinishJob, Exit, Accident, Disconnect, Elapse, Prune, memory
  <2>2. CASE Elapse(q)
    BY <1>0, <2>1, <2>2 DEF Elapse, TypeOK, Row
  <2>3. CASE Prune(q)
    BY <1>0, <2>1, <2>3 DEF Prune, IsTerminal, TerminalStates, TypeOK
  <2>4. CASE ~Elapse(q) /\ ~Prune(q)
    BY <1>0, <1>2, <2>1, <2>4 DEF World, Boot, TakeJob, FinishJob, Exit, Accident, Disconnect
  <2> QED BY <2>2, <2>3, <2>4
<1>3. CASE \E p \in Pools : Arrive(p)
  BY <1>0, <1>3 DEF Arrive, memory
<1>4. ASSUME NEW t \in Tickers, Tick(t) \/ RetireNext(t)
      PROVE  row'[r].state = "registered" /\ row'[r].gid
  <2>1. pc[t] = "launch"
    BY OnlyLaunchesProvision
  <2>2. ~RetireNext(t)
    <3>1. ret[t].step = "none"
      BY <2>1 DEF PassesNest
    <3> QED BY <3>1 DEF RetireNext, RetireStop, RetireRemove, RetireDereg, RetireSave, RetireRefused
  <2>3. CASE EndTick(t)
    BY <1>0, <2>3 DEF EndTick, world
  <2>4. CASE \E p \in Pools : LaunchPool(t, p)
    BY <1>0, <2>4 DEF LaunchPool, world
  <2>5. ASSUME NEW q \in Runners, Provision(t, q)
        PROVE  row'[r].state = "registered" /\ row'[r].gid
    <3>1. /\ \E s : prov' = [prov EXCEPT ![q] = s]
          /\ \A i \in Runners \ {q} : row'[i] = row[i]
          /\ prov'[q] = "registered" => row'[q].state = "registered" /\ row'[q].gid
      BY <2>5, ProvisioningSteps
    <3>2. CASE r = q
      BY <3>1, <3>2
    <3>3. CASE r # q
      BY <1>0, <3>1, <3>3 DEF TypeOK
    <3> QED BY <3>2, <3>3
  <2> QED BY <1>4, <2>1, <2>2, <2>3, <2>4, <2>5
      DEF Tick, BeginTick, ReadRows, ReadForge, Adopt, EndSettle, PlanPool, EndPool, Admit,
          Settle, SettleWait, SettleRetire, SettleMove, SettleRefused, Settling, Sweep, Apply
<1> QED BY <1>1, <1>2, <1>3, <1>4 DEF Next, Activities

(* A container comes to be in one way only: it is created for a runner     *)
(* that is registered.                                                     *)
LEMMA OnlyCreateContainerCreates ==
  ASSUME TypeOK, Next, NEW r \in Runners, ctr[r] = "none", ctr'[r] # "none"
  PROVE  prov[r] = "registered"
<1>1. ASSUME NEW q \in Runners, World(q) PROVE FALSE
  BY <1>1 DEF World, Boot, TakeJob, FinishJob, Exit, Accident, Disconnect, Elapse, Prune, TypeOK
<1>2. ASSUME NEW p \in Pools, Arrive(p) PROVE FALSE
  BY <1>2 DEF Arrive
<1>3. ASSUME Crash PROVE FALSE
  BY <1>3 DEF Crash
<1>4. ASSUME NEW u \in Activities, RetireNext(u) PROVE FALSE
  BY <1>4 DEF RetireNext, RetireStop, RetireRemove, RetireDereg, RetireSave, RetireRefused,
     world, TypeOK
<1>5. ASSUME NEW u \in Operators, NEW q \in Runners, OperatorStop(u, q) PROVE FALSE
  BY <1>5 DEF OperatorStop, world
<1>6. ASSUME NEW u \in Tickers, Tick(u) PROVE prov[r] = "registered"
  <2>1. ASSUME NEW q \in Runners, Provision(u, q) PROVE prov[r] = "registered"
    <3>1. CreateContainer(u, q)
      BY <2>1 DEF Provision, SavePending, Mint, SaveRegistered, SaveStarting, Abandon,
         SaveFailed, world
    <3>2. prov[q] = "registered" /\ \E c : ctr' = [ctr EXCEPT ![q] = c]
      BY <3>1 DEF CreateContainer, Step
    <3> QED BY <3>2 DEF TypeOK
  <2> QED BY <1>6, <2>1
      DEF Tick, BeginTick, ReadRows, ReadForge, Adopt, EndSettle, PlanPool, EndPool, Admit,
          EndTick, LaunchPool, Settle, SettleWait, SettleRetire, SettleMove, SettleRefused,
          Sweep, Apply, world
<1> QED BY <1>1, <1>2, <1>3, <1>4, <1>5, <1>6 DEF Next

(* The sweep's invariant, at the start and after every step.               *)
LEMMA SweepInvStarts == Init => SweepInv
BY DEF Init, SweepInv, LaunchesNest, ClaimsAreKnown, SweepsAreOfStrays,
   Activities, Judging

(* Every step keeps it.                                                    *)
LEMMA SweepInvIsKept ==
  ASSUME OnePass, PassInv, SweepInv, [Next]_vars
  PROVE  SweepInv'
<1>1. CASE Next
  <2>1. LaunchesNest'
    BY <1>1, LaunchesStayNested DEF PassInv, SweepInv
  <2>2. ClaimsAreKnown' /\ SweepsAreOfStrays'
    BY <1>1, ClaimsStayKnown, SweepsStayOfStrays DEF PassInv, SweepInv
  <2> QED BY <2>1, <2>2 DEF SweepInv
<1>2. CASE UNCHANGED vars
  BY <1>2 DEF vars, world, memory, SweepInv, LaunchesNest, ClaimsAreKnown,
     SweepsAreOfStrays, IsLive
<1> QED BY <1>1, <1>2

(* The stray sweep of a lone pass never deletes the registration of a live *)
(* row of its pool or of a runner being provisioned, however many pools    *)
(* watch one target.                                                       *)
THEOREM SweepsAlwaysSpareTracked ==
  ASSUME OnePass
  PROVE  Spec => []SweepSparesTracked
<1> DEFINE Inv == PassInv /\ SweepInv
<1>1. Init => Inv
  BY PassInvStarts, SweepInvStarts
<1>2. Inv /\ [Next]_vars => Inv'
  BY PassInvIsKept, SweepInvIsKept
<1>3. Inv => SweepSparesTracked
  <2> SUFFICES ASSUME Inv, NEW t \in Tickers, NEW r \in Runners, pc[t] = "sweep", r \in todoR[t]
               PROVE  /\ PoolOf[r] = cur[t] => ~(row[r].gid /\ IsLive(row[r]))
                      /\ prov[r] = "none"
    BY DEF SweepSparesTracked, PassInv, TypeOK, Activities
  <2>1. ~work[t][r].gid
    BY DEF SweepInv, SweepsAreOfStrays
  <2>2. prov[r] = "none"
    BY DEF SweepInv, LaunchesNest
  <2> QED BY <2>1, <2>2 DEF SweepInv, ClaimsAreKnown
<1> HIDE DEF Inv
<1> QED BY <1>1, <1>2, <1>3, PTL DEF Spec

(* A lone pass without operators never starts a container whose row does   *)
(* not say registered, with GitHub's id, at that moment; with one who      *)
(* stops a runner that is being provisioned, it does.                      *)
THEOREM ContainersAreAlwaysOnRecord ==
  ASSUME OnePass, Operators = {}
  PROVE  Spec => ContainersAreOnRecord
<1> DEFINE Inv == PassInv /\ LaunchesNest /\ RegisteredOnRecord
<1>1. Init => Inv
  BY PassInvStarts, SweepInvStarts DEF SweepInv, Init, RegisteredOnRecord
<1>2. Inv /\ [Next]_vars => Inv'
  <2> SUFFICES ASSUME Inv, [Next]_vars PROVE Inv'
    OBVIOUS
  <2>1. PassInv'
    BY PassInvIsKept
  <2>2. CASE Next
    BY <2>1, <2>2, LaunchesStayNested, RegisteredStaysOnRecord DEF PassInv
  <2>3. CASE UNCHANGED vars
    BY <2>1, <2>3 DEF vars, world, memory, LaunchesNest, RegisteredOnRecord
  <2> QED BY <2>2, <2>3
<1>3. Inv /\ [Next]_vars
        => [\A r \in Runners : ctr[r] = "none" /\ ctr'[r] # "none"
              => row[r].state = "registered" /\ row[r].gid]_vars
  <2> SUFFICES ASSUME Inv, Next, NEW r \in Runners, ctr[r] = "none", ctr'[r] # "none"
               PROVE  row[r].state = "registered" /\ row[r].gid
    OBVIOUS
  <2>1. prov[r] = "registered"
    BY OnlyCreateContainerCreates DEF PassInv
  <2> QED BY <2>1 DEF RegisteredOnRecord
<1> HIDE DEF Inv
<1> QED BY <1>1, <1>2, <1>3, PTL DEF Spec, ContainersAreOnRecord

-----------------------------------------------------------------------------
(***************************************************************************)
(* What a lone pass guarantees (OnePass: the daemon's loop, which the      *)
(* documentation says to run once).  First that what it launches fits:     *)
(* between the planning of a pool and the launch of what was planned for   *)
(* it, nothing but that launch adds to the runners the pool has up.  Then  *)
(* that the rows live the life RunnerLifecycle allows: an object in memory *)
(* is in the state its row is in, so that what the aggregate lets the      *)
(* object do, the row does.                                                *)
(***************************************************************************)

(* Room.                                                                   *)

(* What a pool has up, as the store says.                                  *)
Up(p) == {r \in Runners : PoolOf[r] = p /\ IsActive(row[r])}

(* Whom a pass that takes runners down leaves up for certain, or lets go   *)
(* only after all: everybody active whom it does not terminate.            *)
Staying(t) ==
  {r \in Runners : IsActive(work[t][r]) /\ ~(r \in todoR[t] /\ work[t][r].state # "idle")}

(* The phases of a pass open and close with nothing left to do.            *)
PlanningNests ==
  \A t \in Tickers :
    /\ pc[t] \notin {"forge"} \cup Judging => cur[t] = NoPool
    /\ cur[t] \notin todo[t]
    /\ pc[t] \in {"idle", "pools"} => todoR[t] = {}
    /\ pc[t] = "idle" => want[t] = NoCount
    /\ ret[t].step # "none" => ret[t].runner \in todoR[t]

(* Nothing is wanted for a pool before it is planned ...                   *)
PlannedOnce ==
  \A t \in Tickers, p \in Pools :
    /\ pc[t] \in Observing
    /\ p \in todo[t] \/ (p = cur[t] /\ pc[t] # "apply")
    => want[t][p] = 0

(* ... nor while what was granted to it is being launched.                 *)
LaunchedOnce ==
  \A t \in Tickers, r \in Runners :
    pc[t] = "launch" /\ r \in todoR[t] => want[t][PoolOf[r]] = 0

(* A pass knows of every runner its pool has up.                           *)
ActiveAreKnown ==
  \A t \in Tickers, r \in Runners :
    pc[t] \in {"forge"} \cup Judging /\ PoolOf[r] = cur[t] /\ IsActive(row[r])
      => IsActive(work[t][r])

(* What is planned fits beside those whom the plan leaves up ...           *)
RoomWhilePlanned ==
  \A t \in Tickers :
    pc[t] = "apply" /\ want[t][cur[t]] > 0
      => want[t][cur[t]] + Cardinality(Staying(t)) <= PoolSpec[cur[t]].max_runners

(* ... and, once the plan is carried out, beside those who are up.         *)
RoomOncePlanned ==
  \A t \in Tickers, p \in Pools :
    want[t][p] > 0 /\ ~(pc[t] = "apply" /\ p = cur[t])
      => want[t][p] + Cardinality(Up(p)) <= PoolSpec[p].max_runners

RoomInv ==
  /\ PlanningNests /\ PlannedOnce /\ LaunchedOnce
  /\ ActiveAreKnown /\ RoomWhilePlanned /\ RoomOncePlanned

-----------------------------------------------------------------------------
(* The steps a lone pass sees, once more: somebody else's leave it alone.  *)
LEMMA StepsAreOwn ==
  ASSUME TypeOK, OnePass, NEW t \in Tickers, Next
  PROVE  Crash \/ Aside(t) \/ RetireNext(t) \/ Tick(t)
BY OthersStandAside DEF Next, Activities, OnePass

(* A pass retires only while it settles or takes down.                     *)
LEMMA RetirementsAreInside ==
  ASSUME PassesNest, NEW t \in Tickers, RetireNext(t)
  PROVE  ret[t].step # "none" /\ pc[t] \in {"settle", "apply"}
BY DEF PassesNest, RetireNext, RetireStop, RetireRemove, RetireDereg, RetireSave, RetireRefused

(* What is active is live.                                                 *)
LEMMA ActiveIsLive ==
  ASSUME NEW w, IsActive(w)
  PROVE  IsLive(w) /\ w.state # Absent
BY DEF IsActive, IsLive, ActiveStates, TerminalStates, Absent

(* A runner comes up in the store only by being adopted or settled for the *)
(* pool that is observed, or launched.                                     *)
LEMMA NewlyActive ==
  ASSUME TypeOK, PassesNest, WorkIsOwn, OnePass, NEW t \in Tickers, Next,
         NEW r \in Runners, IsActive(row'[r]), ~IsActive(row[r])
  PROVE  \/ pc[t] \in {"adopt", "settle"} /\ PoolOf[r] = cur[t] /\ ~Aside(t)
         \/ pc[t] = "launch" /\ r \in todoR[t]
<1> DEFINE Goal == \/ pc[t] \in {"adopt", "settle"} /\ PoolOf[r] = cur[t] /\ ~Aside(t)
                   \/ pc[t] = "launch" /\ r \in todoR[t]
<1>0. t \in Activities /\ (\A u \in Tickers : u = t) /\ row'[r] # row[r]
  BY DEF Activities, OnePass
<1>1. CASE Crash
  BY <1>0, <1>1 DEF Crash, NoWork, NoRow, IsActive, ActiveStates, Absent
<1>2. ASSUME NEW q \in Runners, World(q) PROVE Goal
  <2>1. CASE Elapse(q)
    BY <2>1 DEF Elapse, IsActive, TypeOK, Row
  <2>2. CASE Prune(q)
    BY <2>2 DEF Prune, IsActive, NoRow, ActiveStates, Absent, TypeOK
  <2>3. CASE ~Elapse(q) /\ ~Prune(q)
    BY <1>0, <1>2, <2>3 DEF World, Boot, TakeJob, FinishJob, Exit, Accident, Disconnect
  <2> QED BY <2>1, <2>2, <2>3
<1>3. ASSUME NEW u \in Activities, RetireNext(u) PROVE Goal
  <2>1. IsLive(row'[r])
    BY ActiveIsLive
  <2> QED BY <1>0, <1>3, <2>1, RetiredRowsAreDead
<1>4. CASE \/ \E p \in Pools : Arrive(p)
           \/ \E u \in Operators, q \in Runners : OperatorStop(u, q)
  BY <1>0, <1>4 DEF Arrive, OperatorStop, world
<1>5. CASE Tick(t)
  <2>1. CASE Adopt(t)
    <3>1. PICK new : Adopts(t, new)
      BY <2>1, AdoptionWrites
    <3>2. r \in Unknown(t)
      BY <1>0, <3>1 DEF Adopts
    <3>3. pc[t] = "adopt" /\ pc'[t] = "settle"
      BY <1>0, <2>1 DEF Adopt, TypeOK
    <3> QED BY <3>2, <3>3 DEF Unknown, Aside
  <2>2. ASSUME NEW q \in Runners, SettleMove(t, q) PROVE Goal
    <3>1. pc[t] = "settle" /\ q \in todoR[t] /\ r = q
      BY <1>0, <2>2 DEF SettleMove, Settling, Saved, TypeOK
    <3>2. pc'[t] = "pools" \/ q \notin todoR'[t]
      BY <1>0, <2>2 DEF SettleMove, PoolDropped, TypeOK
    <3> QED BY <3>1, <3>2 DEF WorkIsOwn, Aside
  <2>3. ASSUME NEW q \in Runners, Provision(t, q) PROVE Goal
    <3>1. pc[t] = "launch" /\ q \in todoR[t] /\ r = q
      BY <1>0, <2>3, ProvisioningSteps
    <3> QED BY <3>1
  <2>4. CASE \/ BeginTick(t) \/ ReadForge(t) \/ EndSettle(t) \/ PlanPool(t)
             \/ EndPool(t) \/ Admit(t) \/ EndTick(t)
             \/ \E p \in Pools : ReadRows(t, p) \/ LaunchPool(t, p)
    BY <1>0, <2>4 DEF BeginTick, ReadForge, EndSettle, PlanPool, EndPool, Admit, EndTick,
       ReadRows, LaunchPool, world
  <2>5. CASE \E q \in Runners : \/ SettleWait(t, q) \/ SettleRetire(t, q)
                                \/ SettleRefused(t, q) \/ Sweep(t, q) \/ Apply(t, q)
    BY <1>0, <2>5 DEF SettleWait, SettleRetire, SettleRefused, Sweep, Apply, world
  <2> QED BY <1>5, <2>1, <2>2, <2>3, <2>4, <2>5 DEF Tick, Settle
<1> QED BY <1>0, <1>1, <1>2, <1>3, <1>4, <1>5 DEF Next

(* While something is wanted for a pool, nobody else of it comes up.       *)
LEMMA NobodyComesUp ==
  ASSUME TypeOK, PassesNest, WorkIsOwn, OnePass, PlannedOnce, LaunchedOnce,
         NEW t \in Tickers, NEW p \in Pools, want[t][p] > 0, Next
  PROVE  /\ Up(p)' \subseteq Up(p)
         /\ Cardinality(Up(p)') \in Nat /\ Cardinality(Up(p)) \in Nat
         /\ Cardinality(Up(p)') <= Cardinality(Up(p))
<1>1. ASSUME NEW r \in Runners, PoolOf[r] = p, IsActive(row'[r]) PROVE IsActive(row[r])
  <2>1. ~(pc[t] \in {"adopt", "settle"} /\ PoolOf[r] = cur[t])
    BY <1>1 DEF PlannedOnce, Observing, Judging
  <2>2. ~(pc[t] = "launch" /\ r \in todoR[t])
    BY <1>1 DEF LaunchedOnce
  <2> QED BY <1>1, <2>1, <2>2, NewlyActive
<1>2. Up(p)' \subseteq Up(p)
  BY <1>1 DEF Up, IsActive
<1>3. IsFiniteSet(Up(p))
  BY FleetAssumption, FS_Subset DEF Up
<1>4. IsFiniteSet(Up(p)') /\ Cardinality(Up(p)') <= Cardinality(Up(p))
  BY <1>2, <1>3, FS_Subset
<1> QED BY <1>2, <1>3, <1>4, FS_CardinalityType

(* Only a plan asks for more, and for the pool it is for.                  *)
LEMMA OnlyPlansWantMore ==
  ASSUME TypeOK, PassesNest, OnePass, NEW t \in Tickers, NEW p \in Pools, Next
  PROVE  \/ want'[t][p] <= want[t][p]
         \/ PlanPool(t) /\ p = cur[t]
<1> DEFINE Goal == \/ want'[t][p] <= want[t][p]
                   \/ PlanPool(t) /\ p = cur[t]
<1>0. t \in Activities /\ want[t] \in [Pools -> Nat] /\ want[t][p] \in Nat
  BY DEF Activities, TypeOK
<1>1. ASSUME want'[t] = want[t] PROVE Goal
  BY <1>0, <1>1
<1>2. ASSUME want'[t] = NoCount PROVE Goal
  BY <1>0, <1>2 DEF NoCount
<1>3. CASE Crash
  BY <1>0, <1>2, <1>3 DEF Crash
<1>4. CASE Aside(t)
  BY <1>1, <1>4 DEF Aside
<1>5. CASE RetireNext(t)
  BY <1>1, <1>5 DEF RetireNext, RetireStop, RetireRemove, RetireDereg, RetireSave,
     RetireRefused, PoolDropped
<1>6. CASE Tick(t)
  <2>1. CASE PlanPool(t)
    <3>1. p # cur[t] => want'[t][p] = want[t][p]
      BY <1>0, <2>1 DEF PlanPool, TypeOK
    <3> QED BY <1>0, <2>1, <3>1
  <2>2. CASE Admit(t)
    <3>1. CASE want' = [want EXCEPT ![t] = NoCount]
      BY <1>0, <1>2, <3>1 DEF TypeOK
    <3>2. CASE want' # [want EXCEPT ![t] = NoCount]
      <4>1. PICK g : want' = [want EXCEPT ![t] = g] /\ \A q \in Pools : g[q] <= want[t][q]
        BY <2>2, <3>2 DEF Admit
      <4> QED BY <1>0, <4>1 DEF TypeOK
    <3> QED BY <3>1, <3>2
  <2>3. CASE \E q \in Pools : LaunchPool(t, q)
    <3>1. PICK q \in Pools : want' = [want EXCEPT ![t][q] = 0]
      BY <2>3 DEF LaunchPool
    <3> QED BY <1>0, <3>1 DEF TypeOK
  <2>4. CASE \E r \in Runners : Provision(t, r)
    BY <1>1, <2>4 DEF Provision, SavePending, Mint, SaveRegistered, CreateContainer,
       SaveStarting, Abandon, SaveFailed, provMemory
  <2>5. CASE \/ BeginTick(t) \/ ReadForge(t) \/ Adopt(t) \/ EndSettle(t)
             \/ EndPool(t) \/ EndTick(t) \/ \E q \in Pools : ReadRows(t, q)
    BY <1>1, <2>5 DEF BeginTick, ReadForge, Adopt, EndSettle, EndPool, EndTick, ReadRows,
       PoolDropped
  <2>6. CASE \E r \in Runners : Settle(t, r) \/ Sweep(t, r) \/ Apply(t, r)
    BY <1>1, <2>6 DEF Settle, SettleWait, SettleRetire, SettleMove, SettleRefused, Sweep,
       Apply, PoolDropped
  <2> QED BY <1>6, <2>1, <2>2, <2>3, <2>4, <2>5, <2>6 DEF Tick
<1> QED BY <1>3, <1>4, <1>5, <1>6, StepsAreOwn

(* Giving a pool up leaves the pass between pools, with nothing under way. *)
LEMMA DroppingClears ==
  ASSUME TypeOK, NEW t \in Tickers, PoolDropped(t)
  PROVE  /\ pc'[t] = "pools" /\ cur'[t] = NoPool /\ todoR'[t] = {}
         /\ ret'[t] = NoRetirement /\ todo' = todo /\ want' = want
BY DEF PoolDropped, TypeOK, Activities

(* A pool is not observed twice in a pass, and what a loop goes through is *)
(* gone through before the next phase.                                     *)
LEMMA PlanningStaysNested ==
  ASSUME TypeOK, PassesNest, PlanningNests, OnePass, Next
  PROVE  PlanningNests'
<1> SUFFICES ASSUME NEW t \in Tickers
             PROVE  /\ pc'[t] \notin {"forge"} \cup Judging => cur'[t] = NoPool
                    /\ cur'[t] \notin todo'[t]
                    /\ pc'[t] \in {"idle", "pools"} => todoR'[t] = {}
                    /\ pc'[t] = "idle" => want'[t] = NoCount
                    /\ ret'[t].step # "none" => ret'[t].runner \in todoR'[t]
  BY DEF PlanningNests, NoCount
<1> DEFINE Goal == /\ pc'[t] \notin {"forge"} \cup Judging => cur'[t] = NoPool
                   /\ cur'[t] \notin todo'[t]
                   /\ pc'[t] \in {"idle", "pools"} => todoR'[t] = {}
                   /\ pc'[t] = "idle" => want'[t] = NoCount
                   /\ ret'[t].step # "none" => ret'[t].runner \in todoR'[t]
<1>0. t \in Activities /\ todo[t] \subseteq Pools /\ NoPool \notin todo[t]
  BY FleetAssumption DEF Activities, TypeOK
<1>1. /\ pc[t] \notin {"forge"} \cup Judging => cur[t] = NoPool
      /\ cur[t] \notin todo[t]
      /\ pc[t] \in {"idle", "pools"} => todoR[t] = {}
      /\ pc[t] = "idle" => want[t] = NoCount
      /\ ret[t].step # "none" => ret[t].runner \in todoR[t]
      /\ ret[t].step # "none" => pc[t] \in {"settle", "apply"}
  BY DEF PlanningNests, PassesNest
<1>2. ASSUME PoolDropped(t) PROVE Goal
  BY <1>0, <1>2, DroppingClears DEF NoRetirement
<1>3. CASE Crash
  BY <1>0, <1>3 DEF Crash, NoRetirement
<1>4. CASE Aside(t)
  BY <1>1, <1>4 DEF Aside
<1>5. CASE RetireNext(t)
  <2>0. ret[t].step # "none" /\ pc[t] \in {"settle", "apply"}
    BY <1>5, RetirementsAreInside
  <2>1. CASE Calls(t)
    <3>1. /\ pc' = pc /\ cur' = cur /\ todo' = todo /\ todoR' = todoR
          /\ \E s : ret' = [ret EXCEPT ![t].step = s]
      BY <2>1 DEF Calls, RetireStop, RetireRemove, RetireDereg
    <3>2. ret'[t].runner = ret[t].runner
      BY <1>0, <3>1 DEF TypeOK
    <3> QED BY <1>1, <2>0, <3>1, <3>2
  <2>2. CASE RetireSave(t)
    <3>1. CASE PoolDropped(t)
      BY <1>2, <3>1
    <3>2. CASE ~PoolDropped(t)
      <4>1. /\ pc' = pc /\ cur' = cur /\ todo' = todo
            /\ ret' = [ret EXCEPT ![t] = NoRetirement]
        BY <2>2, <3>2 DEF RetireSave
      <4>2. ret'[t].step = "none"
        BY <1>0, <4>1 DEF TypeOK, NoRetirement
      <4> QED BY <1>1, <2>0, <4>1, <4>2
    <3> QED BY <3>1, <3>2
  <2>3. CASE RetireRefused(t)
    BY <1>2, <2>3 DEF RetireRefused
  <2> QED BY <1>5, <2>1, <2>2, <2>3 DEF RetireNext, Calls
<1>6. CASE Tick(t)
  <2>1. CASE BeginTick(t)
    BY <1>0, <1>1, <2>1, FleetAssumption DEF BeginTick, TypeOK, Judging
  <2>2. ASSUME NEW p \in Pools, ReadRows(t, p) PROVE Goal
    <3>1. /\ pc[t] = "pools" /\ todo' = [todo EXCEPT ![t] = @ \ {p}]
          /\ todoR' = todoR /\ ret' = ret /\ want' = want
          /\ \/ pc' = [pc EXCEPT ![t] = "forge"] /\ cur' = [cur EXCEPT ![t] = p]
             \/ pc' = pc /\ cur' = cur
      BY <2>2 DEF ReadRows
    <3>2. todo'[t] = todo[t] \ {p}
      BY <1>0, <3>1 DEF TypeOK
    <3>3. CASE pc' = [pc EXCEPT ![t] = "forge"] /\ cur' = [cur EXCEPT ![t] = p]
      BY <1>0, <1>1, <3>1, <3>2, <3>3 DEF TypeOK
    <3>4. CASE pc' = pc /\ cur' = cur
      BY <1>1, <3>1, <3>2, <3>4
    <3> QED BY <3>1, <3>3, <3>4
  <2>3. CASE ReadForge(t)
    <3>1. CASE PoolDropped(t)
      BY <1>2, <3>1
    <3>2. CASE ~PoolDropped(t)
      BY <1>0, <1>1, <2>3, <3>2 DEF ReadForge, TypeOK, Judging
    <3> QED BY <3>1, <3>2
  <2>4. CASE Adopt(t)
    <3>1. /\ pc[t] = "adopt" /\ pc' = [pc EXCEPT ![t] = "settle"]
          /\ UNCHANGED <<todo, cur, ret, want>>
      BY <2>4 DEF Adopt
    <3> QED BY <1>0, <1>1, <3>1 DEF TypeOK, Judging
  <2>5. CASE EndSettle(t)
    BY <1>0, <1>1, <2>5 DEF EndSettle, TypeOK, Judging
  <2>6. CASE PlanPool(t)
    <3>1. /\ pc[t] = "sweep" /\ pc' = [pc EXCEPT ![t] = "apply"] /\ UNCHANGED <<todo, cur, ret>>
      BY <2>6 DEF PlanPool
    <3> QED BY <1>0, <1>1, <3>1 DEF TypeOK, Judging
  <2>7. CASE EndPool(t)
    BY <1>0, <1>1, <2>7 DEF EndPool, TypeOK
  <2>8. CASE Admit(t)
    <3>1. /\ pc[t] = "pools" /\ pc' = [pc EXCEPT ![t] = "launch"]
          /\ UNCHANGED <<todo, cur, todoR, ret>>
      BY <2>8 DEF Admit
    <3> QED BY <1>0, <1>1, <3>1 DEF TypeOK, Judging
  <2>9. CASE EndTick(t)
    BY <1>0, <1>1, <2>9 DEF EndTick, TypeOK, Judging
  <2>10. CASE \E p \in Pools : LaunchPool(t, p)
    <3>1. pc[t] = "launch" /\ UNCHANGED <<pc, todo, cur, ret>>
      BY <2>10 DEF LaunchPool
    <3> QED BY <1>1, <3>1 DEF Judging
  <2>11. ASSUME NEW r \in Runners, Settle(t, r) PROVE Goal
    <3>1. CASE PoolDropped(t)
      BY <1>2, <3>1
    <3>2. CASE ~PoolDropped(t)
      <4>1. pc[t] = "settle" /\ UNCHANGED <<pc, todo, cur>>
        BY <2>11, <3>2 DEF Settle, SettleWait, SettleRetire, SettleMove, SettleRefused, Settling
      <4>2. CASE SettleRetire(t, r)
        <5>1. ret'[t].runner = r /\ r \in todoR[t] /\ todoR' = todoR
          BY <1>0, <4>2 DEF SettleRetire, Settling, Retiring, TypeOK
        <5> QED BY <1>1, <4>1, <5>1 DEF Judging
      <4>3. CASE ~SettleRetire(t, r)
        <5>1. ret' = ret /\ ret[t].step = "none"
          BY <2>11, <3>2, <4>3 DEF Settle, SettleWait, SettleMove, SettleRefused, Settling
        <5> QED BY <1>1, <4>1, <5>1 DEF Judging
      <4> QED BY <4>2, <4>3
    <3> QED BY <3>1, <3>2
  <2>12. CASE \E r \in Runners : Sweep(t, r)
    <3>1. pc[t] = "sweep" /\ UNCHANGED <<pc, todo, cur, ret>>
      BY <2>12 DEF Sweep
    <3> QED BY <1>1, <3>1
  <2>13. ASSUME NEW r \in Runners, Apply(t, r) PROVE Goal
    <3>1. /\ pc[t] = "apply" /\ r \in todoR[t] /\ UNCHANGED <<pc, todo, cur, todoR, want>>
      BY <2>13 DEF Apply
    <3>2. ret'[t].runner = r
      BY <1>0, <2>13 DEF Apply, Retiring, TypeOK
    <3> QED BY <1>1, <3>1, <3>2
  <2>14. CASE \E r \in Runners : Provision(t, r)
    <3>1. pc[t] = "launch" /\ UNCHANGED <<pc, todo, cur, ret>>
      BY <2>14 DEF Provision, SavePending, Mint, SaveRegistered, CreateContainer,
         SaveStarting, Abandon, SaveFailed, provMemory
    <3> QED BY <1>1, <3>1 DEF Judging
  <2> QED BY <1>6, <2>1, <2>2, <2>3, <2>4, <2>5, <2>6, <2>7, <2>8, <2>9, <2>10, <2>11, <2>12,
             <2>13, <2>14 DEF Tick
<1> QED BY <1>3, <1>4, <1>5, <1>6, StepsAreOwn

(* Which pools a pass has still to plan: none comes back.                  *)
LEMMA PlannedStaysOnce ==
  ASSUME TypeOK, PassesNest, PlanningNests, PlanningNests', PlannedOnce, OnePass, Next
  PROVE  PlannedOnce'
<1> SUFFICES ASSUME NEW t \in Tickers, NEW p \in Pools, pc'[t] \in Observing,
                    p \in todo'[t] \/ (p = cur'[t] /\ pc'[t] # "apply"), want'[t][p] # 0
             PROVE  FALSE
  BY DEF PlannedOnce
<1>0. t \in Activities /\ want[t] \in [Pools -> Nat] /\ want'[t][p] \in Nat
  <2>1. t \in Activities
    BY DEF Activities
  <2>2. TypeOK'
    BY StepIsTyped
  <2> QED BY <2>1, <2>2 DEF TypeOK
<1>1. ASSUME PlanPool(t) PROVE FALSE
  <2>1. pc[t] = "sweep" /\ pc'[t] = "apply" /\ todo' = todo
    BY <1>0, <1>1 DEF PlanPool, TypeOK
  <2>2. p \in todo[t] /\ p # cur[t]
    BY <2>1 DEF PlanningNests
  <2>3. want'[t][p] = want[t][p]
    BY <1>0, <1>1, <2>2 DEF PlanPool, TypeOK
  <2> QED BY <2>1, <2>2, <2>3 DEF PlannedOnce, Observing, Judging
<1>2. want'[t][p] <= want[t][p] /\ want[t][p] # 0
  BY <1>0, <1>1, OnlyPlansWantMore
<1>3. ASSUME pc[t] \in Observing, p \in todo[t] \/ (p = cur[t] /\ pc[t] # "apply") PROVE FALSE
  BY <1>2, <1>3 DEF PlannedOnce
<1>4. cur'[t] \in Pools => pc'[t] \in {"forge"} \cup Judging
  BY FleetAssumption DEF PlanningNests
<1>5. CASE Crash
  BY <1>0, <1>5 DEF Crash, Observing, Judging
<1>6. CASE Aside(t)
  BY <1>3, <1>6 DEF Aside
<1>7. ASSUME PoolDropped(t), pc[t] \in Observing PROVE FALSE
  BY <1>0, <1>3, <1>4, <1>7, DroppingClears DEF Judging
<1>8. ASSUME pc[t] \in Observing, pc[t] # "apply", cur' = cur, todo' = todo PROVE FALSE
  BY <1>3, <1>8
<1>9. CASE RetireNext(t)
  <2>0. pc[t] \in {"settle", "apply"}
    BY <1>9, RetirementsAreInside
  <2>1. CASE PoolDropped(t)
    BY <1>7, <2>0, <2>1 DEF Observing, Judging
  <2>2. CASE ~PoolDropped(t)
    <3>1. pc' = pc /\ cur' = cur /\ todo' = todo
      BY <1>9, <2>2 DEF RetireNext, RetireStop, RetireRemove, RetireDereg, RetireSave, RetireRefused
    <3> QED BY <1>3, <2>0, <3>1 DEF Observing, Judging
  <2> QED BY <2>1, <2>2
<1>10. CASE Tick(t)
  <2>1. CASE BeginTick(t)
    <3>1. want[t] = NoCount
      BY <2>1 DEF BeginTick, PlanningNests
    <3> QED BY <1>2, <3>1 DEF NoCount
  <2>2. ASSUME NEW q \in Pools, ReadRows(t, q) PROVE FALSE
    <3>1. /\ pc[t] = "pools" /\ q \in todo[t] /\ todo' = [todo EXCEPT ![t] = @ \ {q}]
          /\ \/ cur' = [cur EXCEPT ![t] = q]
             \/ cur' = cur
      BY <2>2 DEF ReadRows
    <3>2. todo'[t] = todo[t] \ {q} /\ (cur'[t] = q \/ cur'[t] = cur[t])
      BY <1>0, <3>1 DEF TypeOK
    <3> QED BY <1>3, <3>1, <3>2 DEF Observing
  <2>3. CASE ReadForge(t)
    BY <1>7, <1>8, <2>3 DEF ReadForge, Observing
  <2>4. CASE Adopt(t) \/ EndSettle(t)
    BY <1>8, <2>4 DEF Adopt, EndSettle, Observing, Judging
  <2>5. CASE EndPool(t)
    <3>1. pc'[t] = "pools" /\ todo' = todo /\ pc[t] = "apply"
      BY <1>0, <2>5 DEF EndPool, TypeOK
    <3>2. p \in todo'[t]
      BY <1>4, <3>1 DEF Judging
    <3> QED BY <1>3, <3>1, <3>2 DEF Observing, Judging
  <2>6. CASE Admit(t)
    BY <1>0, <2>6 DEF Admit, TypeOK, Observing, Judging
  <2>7. CASE EndTick(t) \/ \E q \in Pools : LaunchPool(t, q)
    BY <1>0, <2>7 DEF EndTick, LaunchPool, TypeOK, Observing, Judging
  <2>8. ASSUME NEW r \in Runners, Settle(t, r) PROVE FALSE
    BY <1>7, <1>8, <2>8 DEF Settle, SettleWait, SettleRetire, SettleMove, SettleRefused,
       Settling, Observing, Judging
  <2>9. CASE \E r \in Runners : Sweep(t, r)
    BY <1>8, <2>9 DEF Sweep, Observing, Judging
  <2>10. CASE \E r \in Runners : Apply(t, r)
    BY <1>3, <2>10 DEF Apply, Observing, Judging
  <2>11. CASE \E r \in Runners : Provision(t, r)
    <3>1. pc'[t] = "launch"
      BY <2>11, ProvisioningSteps
    <3> QED BY <3>1 DEF Observing, Judging
  <2> QED BY <1>1, <1>10, <2>1, <2>2, <2>3, <2>4, <2>5, <2>6, <2>7, <2>8, <2>9, <2>10, <2>11
          DEF Tick
<1> QED BY <1>5, <1>6, <1>9, <1>10, StepsAreOwn

(* A grant is taken off before any of it is launched.                      *)
LEMMA LaunchedStaysOnce ==
  ASSUME TypeOK, PassesNest, PlanningNests, LaunchedOnce, OnePass, Next
  PROVE  LaunchedOnce'
<1> SUFFICES ASSUME NEW t \in Tickers, NEW r \in Runners, pc'[t] = "launch", r \in todoR'[t]
             PROVE  want'[t][PoolOf[r]] = 0
  BY DEF LaunchedOnce
<1>0. t \in Activities /\ PoolOf[r] \in Pools
  BY FleetAssumption DEF Activities
<1>1. pc[t] = "launch" /\ r \in todoR[t] => want[t][PoolOf[r]] = 0
  BY DEF LaunchedOnce
<1>2. CASE Crash
  BY <1>0, <1>2 DEF Crash
<1>3. CASE Aside(t)
  BY <1>1, <1>3 DEF Aside
<1>4. CASE RetireNext(t)
  <2>0. pc[t] \in {"settle", "apply"}
    BY <1>4, RetirementsAreInside
  <2>1. CASE PoolDropped(t)
    BY <2>1, DroppingClears
  <2>2. CASE ~PoolDropped(t)
    BY <1>4, <2>0, <2>2 DEF RetireNext, RetireStop, RetireRemove, RetireDereg, RetireSave, RetireRefused
  <2> QED BY <2>1, <2>2
<1>5. CASE Tick(t)
  <2>1. CASE Admit(t)
    <3>1. pc[t] = "pools" /\ todoR' = todoR
      BY <2>1 DEF Admit
    <3> QED BY <3>1 DEF PlanningNests
  <2>2. ASSUME NEW p \in Pools, LaunchPool(t, p) PROVE want'[t][PoolOf[r]] = 0
    <3>1. PICK R \in SUBSET {q \in Runners : PoolOf[q] = p /\ Fresh(q)} :
            todoR' = [todoR EXCEPT ![t] = R]
      BY <2>2 DEF LaunchPool
    <3>2. PoolOf[r] = p
      BY <1>0, <3>1 DEF TypeOK
    <3> QED BY <1>0, <2>2, <3>2 DEF LaunchPool, TypeOK
  <2>3. ASSUME NEW q \in Runners, Provision(t, q) PROVE want'[t][PoolOf[r]] = 0
    <3>1. /\ pc[t] = "launch"
          /\ \/ todoR' = todoR
             \/ todoR' = [todoR EXCEPT ![t] = @ \ {q}]
      BY <2>3, ProvisioningSteps
    <3>2. r \in todoR[t]
      BY <1>0, <3>1 DEF TypeOK
    <3>3. want' = want
      BY <2>3 DEF Provision, SavePending, Mint, SaveRegistered, CreateContainer,
         SaveStarting, Abandon, SaveFailed, provMemory
    <3> QED BY <1>1, <3>1, <3>2, <3>3
  <2>4. ASSUME PoolDropped(t) PROVE FALSE
    BY <2>4, DroppingClears
  <2>5. CASE \/ BeginTick(t) \/ ReadForge(t) \/ Adopt(t) \/ EndSettle(t) \/ PlanPool(t)
             \/ EndPool(t) \/ EndTick(t) \/ \E p \in Pools : ReadRows(t, p)
    BY <1>0, <2>4, <2>5 DEF BeginTick, ReadForge, Adopt, EndSettle, PlanPool, EndPool, EndTick,
       ReadRows, TypeOK
  <2>6. CASE \E q \in Runners : Settle(t, q) \/ Sweep(t, q) \/ Apply(t, q)
    BY <2>4, <2>6 DEF Settle, SettleWait, SettleRetire, SettleMove, SettleRefused, Settling,
       Sweep, Apply
  <2> QED BY <1>5, <2>1, <2>2, <2>3, <2>5, <2>6 DEF Tick
<1> QED BY <1>2, <1>3, <1>4, <1>5, StepsAreOwn

-----------------------------------------------------------------------------
(* Whom the pool has up, and whom the pass knows of.                       *)

(* What saving an object leaves in the store is active if the object is.   *)
LEMMA SavedIsAsActive ==
  ASSUME row \in [Runners -> Row], NEW q \in Runners, NEW w \in Row, row' = Saved(q, w)
  PROVE  row'[q].state = w.state /\ \A r \in Runners \ {q} : row'[r] = row[r]
BY DEF Saved, Row

(* Nobody of its pool is up without the pass knowing.                      *)
LEMMA ActiveStayKnown ==
  ASSUME TypeOK, PassesNest, WorkIsOwn, ActiveAreKnown, OnePass, Next
  PROVE  ActiveAreKnown'
<1> SUFFICES ASSUME NEW t \in Tickers, NEW r \in Runners,
                    pc'[t] \in {"forge"} \cup Judging, PoolOf[r] = cur'[t], IsActive(row'[r])
             PROVE  IsActive(work'[t][r])
  BY DEF ActiveAreKnown, IsActive
<1>0. t \in Activities /\ PassStep(t)
  BY StepsOfAPass DEF Activities
<1>1. ASSUME pc[t] \in {"forge"} \cup Judging, cur'[t] = cur[t], IsActive(row[r])
      PROVE  IsActive(work[t][r])
  BY <1>1 DEF ActiveAreKnown
<1>2. CASE pc'[t] = "forge" /\ \E p \in Pools : ReadRows(t, p)
  <2>1. PICK p \in Pools : ReadRows(t, p)
    BY <1>2
  <2> DEFINE rows == [q \in Runners |->
                       IF PoolOf[q] = p /\ IsLive(row[q]) THEN row[q] ELSE NoRow]
  <2>2. pc[t] # "forge"
    BY <2>1 DEF ReadRows
  <2>3. cur' = [cur EXCEPT ![t] = p] /\ work' = [work EXCEPT ![t] = rows] /\ row' = row
    BY <1>2, <2>1, <2>2 DEF ReadRows
  <2>4. PoolOf[r] = p
    BY <1>0, <2>3 DEF TypeOK
  <2>5. IsLive(row[r])
    BY <2>3, ActiveIsLive
  <2>6. rows[r] = row[r]
    BY <2>4, <2>5
  <2> HIDE DEF rows
  <2> QED BY <1>0, <2>3, <2>6 DEF TypeOK
<1>3. CASE pc'[t] = "adopt" /\ ReadForge(t)
  <2>1. ~PoolDropped(t)
    BY <1>0, <1>3 DEF PoolDropped, TypeOK
  <2> QED BY <1>1, <1>3, <2>1 DEF ReadForge
<1>4. CASE pc'[t] = "settle" /\ Adopt(t)
  <2>1. PICK new : Adopts(t, new)
    BY <1>4, AdoptionWrites
  <2>2. /\ pc[t] = "adopt" /\ cur' = cur
        /\ row' = [q \in Runners |-> IF q \in Unknown(t) THEN new[q] ELSE row[q]]
        /\ work' = [work EXCEPT ![t] =
             [q \in Runners |-> IF q \in Unknown(t) THEN new[q] ELSE work[t][q]]]
    BY <1>4, <2>1 DEF Adopt, Adopts
  <2>3. CASE r \in Unknown(t)
    BY <1>0, <2>2, <2>3 DEF TypeOK
  <2>4. CASE r \notin Unknown(t)
    <3>1. row'[r] = row[r] /\ work'[t][r] = work[t][r]
      BY <1>0, <2>2, <2>4 DEF TypeOK
    <3> QED BY <1>1, <2>2, <3>1 DEF Judging
  <2> QED BY <2>3, <2>4
<1>5. CASE pc'[t] = "settle" /\ \E q \in Runners : Settles(t, q)
  <2>1. PICK q \in Runners : Settles(t, q)
    BY <1>5
  <2>2. ~PoolDropped(t)
    BY <1>0, <1>5 DEF PoolDropped, TypeOK
  <2>3. pc[t] = "settle" /\ cur' = cur
    BY <2>1, <2>2 DEF Settles, SettleWait, SettleRetire, SettleMove, Settling
  <2>4. CASE SettleWait(t, q) \/ SettleRetire(t, q)
    BY <1>1, <2>2, <2>3, <2>4 DEF SettleWait, SettleRetire, world, Judging
  <2>5. CASE SettleMove(t, q)
    <3> DEFINE w == MovedTo(work[t][q], VerdictOn(t, q))
    <3>1. row' = Saved(q, w) /\ work' = [work EXCEPT ![t][q] = w]
      BY <2>2, <2>5 DEF SettleMove
    <3>2. w \in Row
      <4>1. /\ work[t][q] \in Row /\ seen[t][q] \in ContainerState
            /\ listed[t][q] \in RegState
        BY <1>0 DEF TypeOK
      <4>2. VerdictOn(t, q) \notin {"wait", "retire"}
        BY <2>5 DEF SettleMove
      <4> QED BY <4>1, <4>2, VerdictIsTyped, MovedIsTyped DEF VerdictOn
    <3> HIDE DEF w
    <3>3. row'[q].state = w.state /\ \A i \in Runners \ {q} : row'[i] = row[i]
      BY <3>1, <3>2, SavedIsAsActive DEF TypeOK
    <3>4. CASE r = q
      BY <1>0, <3>1, <3>3, <3>4 DEF TypeOK, IsActive
    <3>5. CASE r # q
      BY <1>0, <1>1, <2>3, <3>1, <3>3, <3>5 DEF TypeOK, Judging
    <3> QED BY <3>4, <3>5
  <2> QED BY <2>1, <2>4, <2>5 DEF Settles
<1>6. CASE pc'[t] = "sweep" /\ (EndSettle(t) \/ \E q \in Runners : Sweep(t, q))
  BY <1>1, <1>6 DEF EndSettle, Sweep, world, Judging
<1>7. CASE pc'[t] = "apply" /\ (PlanPool(t) \/ \E q \in Runners : Apply(t, q))
  BY <1>1, <1>7 DEF PlanPool, Apply, world, Judging
<1>8. CASE pc'[t] = pc[t] /\ (Calls(t) \/ RetireSave(t))
  <2>1. RetireNext(t)
    BY <1>8 DEF Calls, RetireNext
  <2>2. row'[r] = row[r]
    BY <1>0, <2>1, ActiveIsLive, RetiredRowsAreDead
  <2>3. IsActive(work[t][r])
    <3>1. cur' = cur
      BY <1>8, RetiringStaysPut
    <3> QED BY <1>1, <1>8, <2>2, <3>1
  <2>4. CASE Calls(t)
    BY <2>3, <2>4 DEF Calls, RetireStop, RetireRemove, RetireDereg
  <2>5. CASE RetireSave(t)
    <3> DEFINE q == ret[t].runner
               w == MovedTo(work[t][q], "retired")
    <3>1. q \in Runners /\ work[t][q] \in Row
      BY <1>0, <2>5 DEF RetireSave, TypeOK
    <3>2. w \in Row /\ w.state = "retired" /\ row' = Saved(q, w)
      BY <2>5, <3>1 DEF MovedTo, Row, RunnerState, RetireSave
    <3>3. ~PoolDropped(t)
      BY <1>0, <2>5, <1>8, RetirementsAreInside, <2>1 DEF PoolDropped, TypeOK
    <3>4. work' = [work EXCEPT ![t][q] = w]
      BY <2>5, <3>3 DEF RetireSave
    <3> HIDE DEF q, w
    <3>5. row'[q].state = "retired"
      BY <3>1, <3>2, SavedIsAsActive DEF TypeOK
    <3>6. r # q
      BY <3>5 DEF IsActive, ActiveStates
    <3> QED BY <1>0, <2>3, <3>1, <3>4, <3>6 DEF TypeOK
  <2> QED BY <1>8, <2>4, <2>5
<1>9. CASE Aside(t)
  <2>1. CASE IsActive(row[r])
    BY <1>1, <1>9, <2>1 DEF Aside
  <2>2. CASE ~IsActive(row[r])
    <3>1. pc[t] = "launch"
      BY <1>9, <2>2, NewlyActive
    <3> QED BY <1>9, <3>1 DEF Aside, Judging
  <2> QED BY <2>1, <2>2
<1> QED BY <1>0, <1>2, <1>3, <1>4, <1>5, <1>6, <1>7, <1>8, <1>9 DEF PassStep, Elsewhere, Judging

-----------------------------------------------------------------------------
(* The room a plan leaves, and keeps.                                      *)

(* Whoever a plan takes down may be retired.                               *)
LEMMA PlansAreNotRefused ==
  ASSUME TypeOK, PassesNest, PlanningNests, PlansAreHeeded, NEW t \in Tickers, pc[t] = "apply"
  PROVE  ~RetireRefused(t)
<1> SUFFICES ASSUME RetireRefused(t) PROVE FALSE
  OBVIOUS
<1>1. ret[t].runner \in todoR[t] /\ ret[t].runner \in Runners
  BY DEF RetireRefused, PlanningNests, TypeOK, Activities
<1>2. OverranOrIdle(work[t][ret[t].runner])
  BY <1>1 DEF PlansAreHeeded
<1>3. MayMove(work[t][ret[t].runner].state, "retired")
  BY <1>2 DEF OverranOrIdle, MayMove, Transitions
<1> QED BY <1>3 DEF RetireRefused

(* How the taking down of a pool ends: carried out, or forgotten.          *)
LEMMA LeavingApply ==
  ASSUME TypeOK, PassesNest, PlanningNests, PlansAreHeeded, OnePass, NEW t \in Tickers,
         pc[t] = "apply", Next
  PROVE  \/ EndPool(t)
         \/ want'[t] = NoCount /\ pc'[t] = "idle"
         \/ /\ pc'[t] = "apply" /\ cur'[t] = cur[t] /\ want'[t] = want[t]
            /\ Staying(t)' \subseteq Staying(t)
<1> DEFINE Goes == /\ pc'[t] = "apply" /\ cur'[t] = cur[t] /\ want'[t] = want[t]
                   /\ Staying(t)' \subseteq Staying(t)
<1>0. t \in Activities
  BY DEF Activities
<1>1. CASE Crash
  BY <1>0, <1>1 DEF Crash
<1>2. CASE Aside(t)
  BY <1>2 DEF Aside, Staying, IsActive
<1>3. CASE RetireNext(t)
  <2>1. ~PoolDropped(t) => pc' = pc /\ cur' = cur /\ want' = want
    BY <1>3 DEF RetireNext, RetireStop, RetireRemove, RetireDereg, RetireSave, RetireRefused
  <2>2. CASE Calls(t)
    <3>1. UNCHANGED <<pc, cur, want, work, todoR>>
      BY <2>2 DEF Calls, RetireStop, RetireRemove, RetireDereg
    <3> QED BY <3>1 DEF Staying, IsActive
  <2>3. CASE RetireSave(t)
    <3> DEFINE q == ret[t].runner
               w == MovedTo(work[t][q], "retired")
    <3>1. q \in Runners /\ work[t][q] \in Row
      BY <1>0, <2>3 DEF RetireSave, TypeOK
    <3>2. w.state = "retired"
      BY <3>1 DEF MovedTo, Row
    <3>3. /\ pc' = pc /\ cur' = cur /\ want' = want
          /\ work' = [work EXCEPT ![t][q] = w]
          /\ todoR' = [todoR EXCEPT ![t] = @ \ {q}]
      BY <2>3 DEF RetireSave
    <3> HIDE DEF q, w
    <3>4. ASSUME NEW r \in Runners, IsActive(work'[t][r]),
                 ~(r \in todoR'[t] /\ work'[t][r].state # "idle")
          PROVE  r \in Staying(t)
      <4>1. r # q
        BY <1>0, <3>1, <3>2, <3>3, <3>4 DEF TypeOK, IsActive, ActiveStates
      <4>2. work'[t][r] = work[t][r] /\ (r \in todoR'[t] <=> r \in todoR[t])
        BY <1>0, <3>1, <3>3, <4>1 DEF TypeOK
      <4> QED BY <3>4, <4>2 DEF Staying
    <3> QED BY <3>3, <3>4 DEF Staying, IsActive
  <2> QED BY <1>3, <2>2, <2>3, PlansAreNotRefused DEF RetireNext, Calls
<1>4. CASE Tick(t)
  <2>1. ASSUME NEW r \in Runners, Apply(t, r) PROVE Goes
    <3>1. UNCHANGED <<pc, cur, want, work, todoR>>
      BY <2>1 DEF Apply
    <3> QED BY <3>1 DEF Staying, IsActive
  <2> QED BY <1>4, <2>1 DEF Tick, BeginTick, ReadForge, Adopt, EndSettle, PlanPool, Admit,
        EndTick, ReadRows, LaunchPool, Settle, SettleWait, SettleRetire, SettleMove,
        SettleRefused, Settling, Sweep, Provision
<1> QED BY <1>1, <1>2, <1>3, <1>4, StepsAreOwn

(* What plan_scaling asks for fits beside those it does not terminate.     *)
LEMMA PlansFit ==
  ASSUME TypeOK, PassesNest, NEW t \in Tickers, PlanPool(t), want'[t][cur[t]] > 0
  PROVE  want'[t][cur[t]] + Cardinality(Staying(t)') <= PoolSpec[cur[t]].max_runners
<1> DEFINE spec == PoolSpec[cur[t]]
           v == View(t)
           known == {r \in Runners : IsLive(work[t][r])}
<1>0. /\ t \in Activities /\ pc[t] = "sweep" /\ cur[t] \in Pools /\ work' = work
      /\ want[t] \in [Pools -> Nat] /\ jobs[t] \in Nat
  BY FleetAssumption DEF PlanPool, PassesNest, Judging, Activities, TypeOK
<1>1. IsPoolView(v)
  <2>1. IsFiniteSet(known)
    BY FleetAssumption, FS_Subset
  <2>2. v.state \in [known -> RunnerState]
    BY <1>0 DEF View, TypeOK, Row, IsLive
  <2>3. v.age \in [known -> Nat]
    BY DEF View
  <2>4. DOMAIN v.state = known
    BY DEF View
  <2> QED BY <2>1, <2>2, <2>3, <2>4 DEF IsPoolView
<1>2. IsPoolSpec(spec)
  BY <1>0, FleetAssumption
<1>3. want'[t][cur[t]] = Launch(spec, v, jobs[t])
  BY <1>0 DEF PlanPool, TypeOK
<1>4. PICK idle \in Retire(spec, v, jobs[t]) : todoR'[t] = idle \cup Terminate(spec, v)
  BY <1>0 DEF PlanPool, TypeOK
<1>5. \A r \in DOMAIN v.state : r \in Runners /\ v.state[r] = work[t][r].state
  BY DEF View
<1>6. Staying(t)' \subseteq Active(v) \ Overrunning(spec, v)
  <2> SUFFICES ASSUME NEW r \in Runners, IsActive(work[t][r]),
                      ~(r \in todoR'[t] /\ work[t][r].state # "idle")
               PROVE  r \in Active(v) \ Overrunning(spec, v)
    BY <1>0 DEF Staying, IsActive
  <2>1. r \in DOMAIN v.state
    BY ActiveIsLive DEF View
  <2>2. r \in Active(v)
    BY <2>1, <1>5 DEF Active, InState, IsActive
  <2>3. ASSUME r \in Overrunning(spec, v) PROVE FALSE
    <3>1. work[t][r].state \in {"busy", "draining"}
      BY <1>5, <2>3 DEF Overrunning, InState
    <3> QED BY <1>4, <2>3, <3>1 DEF Terminate
  <2> QED BY <2>2, <2>3
<1> HIDE DEF spec, v
<1>7. /\ IsFiniteSet(Active(v) \ Overrunning(spec, v))
      /\ Cardinality(Active(v) \ Overrunning(spec, v))
           = Cardinality(Active(v)) - Cardinality(Overrunning(spec, v))
      /\ Cardinality(Active(v)) \in Nat /\ Cardinality(Overrunning(spec, v)) \in Nat
  BY <1>1, GroupsNest, FS_Difference
<1>8. Cardinality(Staying(t)') \in Nat
      /\ Cardinality(Staying(t)') <= Cardinality(Active(v) \ Overrunning(spec, v))
  BY <1>6, <1>7, FS_Subset, FS_CardinalityType
<1>9. /\ Launch(spec, v, jobs[t]) \in Nat
      /\ Launch(spec, v, jobs[t]) <= Headroom(spec, v)
      /\ spec.max_runners \in Nat
  BY <1>0, <1>1, <1>2, LaunchIsBounded, SpecIsTyped
<1>10. /\ Headroom(spec, v) > 0
       /\ Headroom(spec, v) = spec.max_runners
            - (Cardinality(Active(v)) - Cardinality(Overrunning(spec, v)))
  <2>1. Headroom(spec, v) >= 0 /\ Headroom(spec, v) \in Int
    BY <1>7, <1>9 DEF Headroom, AtLeastZero
  <2>2. Headroom(spec, v) > 0
    BY <1>3, <1>9, <2>1
  <2> QED BY <1>7, <1>9, <2>2 DEF Headroom, AtLeastZero
<1>11. want'[t][cur[t]] + Cardinality(Staying(t)') <= spec.max_runners
  BY <1>3, <1>7, <1>8, <1>9, <1>10
<1> QED BY <1>11 DEF spec

(* While the plan is carried out, its room does not shrink.                *)
LEMMA RoomStaysWhilePlanned ==
  ASSUME TypeOK, PassesNest, PlanningNests, PlansAreHeeded, RoomWhilePlanned, OnePass, Next
  PROVE  RoomWhilePlanned'
<1> SUFFICES ASSUME NEW t \in Tickers, pc'[t] = "apply", want'[t][cur'[t]] > 0
             PROVE  want'[t][cur'[t]] + Cardinality(Staying(t)') <= PoolSpec[cur'[t]].max_runners
  BY DEF RoomWhilePlanned
<1>0. t \in Activities /\ PassStep(t)
  BY StepsOfAPass DEF Activities
<1>1. CASE pc[t] = "apply"
  <2>1. /\ cur'[t] = cur[t] /\ want'[t] = want[t]
        /\ Staying(t)' \subseteq Staying(t)
    BY <1>0, <1>1, LeavingApply DEF EndPool, TypeOK
  <2>2. IsFiniteSet(Staying(t))
    BY FleetAssumption, FS_Subset DEF Staying
  <2>3. /\ Cardinality(Staying(t)) \in Nat /\ Cardinality(Staying(t)') \in Nat
        /\ Cardinality(Staying(t)') <= Cardinality(Staying(t))
    BY <2>1, <2>2, FS_Subset, FS_CardinalityType
  <2>4. cur[t] \in Pools /\ want[t][cur[t]] \in Nat /\ PoolSpec[cur[t]].max_runners \in Nat
    BY <1>0, <1>1, FleetAssumption DEF PassesNest, Judging, TypeOK, IsPoolSpec
  <2>5. want[t][cur[t]] + Cardinality(Staying(t)) <= PoolSpec[cur[t]].max_runners
    BY <1>1, <2>1 DEF RoomWhilePlanned
  <2> QED BY <2>1, <2>3, <2>4, <2>5
<1>2. CASE pc[t] # "apply"
  <2>1. PlanPool(t)
    BY <1>0, <1>2, RetirementsAreInside
    DEF PassStep, Aside, Elsewhere, Calls, Apply, RetireSave, RetireStop, RetireRemove, RetireDereg
  <2>2. cur' = cur
    BY <2>1 DEF PlanPool
  <2> QED BY <2>1, <2>2, PlansFit
<1> QED BY <1>1, <1>2

(* Once it is carried out, those who are up are among those it left up.    *)
LEMMA RoomStaysOncePlanned ==
  ASSUME TypeOK, PassesNest, WorkIsOwn, PlansAreHeeded, RoomInv, OnePass, Next
  PROVE  RoomOncePlanned'
<1> SUFFICES ASSUME NEW t \in Tickers, NEW p \in Pools, want'[t][p] > 0,
                    ~(pc'[t] = "apply" /\ p = cur'[t])
             PROVE  want'[t][p] + Cardinality(Up(p)') <= PoolSpec[p].max_runners
  BY DEF RoomOncePlanned
<1> USE DEF RoomInv
<1>0. /\ t \in Activities /\ want[t][p] \in Nat /\ want'[t][p] \in Nat
      /\ PoolSpec[p].max_runners \in Nat
  <2>1. t \in Activities
    BY DEF Activities
  <2>2. TypeOK'
    BY StepIsTyped
  <2> QED BY <2>1, <2>2, FleetAssumption DEF TypeOK, IsPoolSpec
<1>1. want'[t][p] <= want[t][p]
  <2>1. ASSUME PlanPool(t), p = cur[t] PROVE FALSE
    BY <1>0, <2>1 DEF PlanPool, TypeOK
  <2> QED BY <2>1, OnlyPlansWantMore
<1>2. /\ want[t][p] > 0
      /\ Cardinality(Up(p)') \in Nat /\ Cardinality(Up(p)) \in Nat
      /\ Cardinality(Up(p)') <= Cardinality(Up(p))
  <2>1. want[t][p] > 0
    BY <1>0, <1>1
  <2> QED BY <2>1, NobodyComesUp
<1>3. want[t][p] + Cardinality(Up(p)) <= PoolSpec[p].max_runners
  <2>1. CASE ~(pc[t] = "apply" /\ p = cur[t])
    BY <1>2, <2>1 DEF RoomOncePlanned
  <2>2. CASE pc[t] = "apply" /\ p = cur[t]
    <3>1. EndPool(t)
      BY <1>0, <2>2, LeavingApply DEF NoCount
    <3>2. Up(p) \subseteq Staying(t)
      BY <2>2, <3>1 DEF EndPool, Up, Staying, ActiveAreKnown, Judging
    <3>3. IsFiniteSet(Staying(t))
      BY FleetAssumption, FS_Subset DEF Staying
    <3>4. Cardinality(Staying(t)) \in Nat /\ Cardinality(Up(p)) <= Cardinality(Staying(t))
      BY <3>2, <3>3, FS_Subset, FS_CardinalityType
    <3>5. want[t][p] + Cardinality(Staying(t)) <= PoolSpec[p].max_runners
      BY <1>2, <2>2 DEF RoomWhilePlanned
    <3> QED BY <1>0, <1>2, <3>4, <3>5
  <2> QED BY <2>1, <2>2
<1> QED BY <1>0, <1>1, <1>2, <1>3

-----------------------------------------------------------------------------
(* Together.                                                               *)

(* The invariant holds when nothing runs ...                               *)
LEMMA RoomInvStarts == Init => RoomInv
BY FleetAssumption DEF Init, RoomInv, PlanningNests, PlannedOnce, LaunchedOnce, ActiveAreKnown,
   RoomWhilePlanned, RoomOncePlanned, Activities, Judging, NoCount, NoRetirement

(* ... and every step keeps it.                                            *)
LEMMA RoomInvIsKept ==
  ASSUME OnePass, PassInv, RoomInv, [Next]_vars
  PROVE  RoomInv'
<1>1. CASE Next
  <2>1. PlanningNests'
    BY <1>1, PlanningStaysNested DEF PassInv, RoomInv
  <2>2. PlannedOnce' /\ LaunchedOnce'
    BY <1>1, <2>1, PlannedStaysOnce, LaunchedStaysOnce DEF PassInv, RoomInv
  <2>3. ActiveAreKnown'
    BY <1>1, ActiveStayKnown DEF PassInv, RoomInv
  <2>4. RoomWhilePlanned' /\ RoomOncePlanned'
    BY <1>1, RoomStaysWhilePlanned, RoomStaysOncePlanned DEF PassInv, RoomInv
  <2> QED BY <2>1, <2>2, <2>3, <2>4 DEF RoomInv
<1>2. CASE UNCHANGED vars
  BY <1>2 DEF vars, world, memory, RoomInv, PlanningNests, PlannedOnce, LaunchedOnce,
     ActiveAreKnown, RoomWhilePlanned, RoomOncePlanned, IsActive, Up, Staying, NoCount
<1> QED BY <1>1, <1>2

(* What a lone pass launches fits into its pool: what the pool has up      *)
(* when the pass launches, with what it is still to launch, stays within   *)
(* max_runners, whatever failed, and whatever operators stop meanwhile.    *)
THEOREM LaunchesFitThePool ==
  ASSUME OnePass
  PROVE  Spec => []LaunchWithinPool
<1> DEFINE Inv == PassInv /\ RoomInv
<1>1. Init => Inv
  BY PassInvStarts, RoomInvStarts
<1>2. Inv /\ [Next]_vars => Inv'
  BY PassInvIsKept, RoomInvIsKept
<1>3. Inv => LaunchWithinPool
  BY DEF RoomInv, RoomOncePlanned, LaunchWithinPool, Up
<1> HIDE DEF Inv
<1> QED BY <1>1, <1>2, <1>3, PTL DEF Spec

(* The three together: what a lone pass may not do, whoever else is at     *)
(* work, however many pools watch one target.                              *)
THEOREM PassesAreSafe ==
  ASSUME OnePass
  PROVE  Spec => []Safety
BY BuildsAlwaysSurvive, SweepsAlwaysSpareTracked, LaunchesFitThePool, PTL DEF Safety

-----------------------------------------------------------------------------
(* Grants, once calls fail.                                                *)

(* Counts of runners are numbers, and fewer count for less.                *)
LEMMA FewerCountLess ==
  ASSUME NEW A, NEW B, A \subseteq B, B \subseteq Runners
  PROVE  /\ Cardinality(A) \in Nat /\ Cardinality(B) \in Nat
         /\ Cardinality(A) <= Cardinality(B)
<1>1. IsFiniteSet(B)
  BY FleetAssumption, FS_Subset
<1>2. IsFiniteSet(A) /\ Cardinality(A) <= Cardinality(B)
  BY <1>1, FS_Subset
<1> QED BY <1>1, <1>2, FS_CardinalityType

(* A pool that has somebody counted for it is behind the pass that counts, *)
(* and has no more up than was counted.                                    *)
CountsCover ==
  \A t \in Tickers, p \in Pools :
    held[t][p] > 0 =>
      /\ pc[t] \in Observing /\ p \notin todo[t] /\ p # cur[t]
      /\ Cardinality(Up(p)) <= held[t][p]

(* From one pool to the next a pass goes on, and does not come back to one.*)
GoesOn(t) ==
  pc[t] \in Observing =>
    /\ pc'[t] \in Observing
    /\ todo'[t] \subseteq todo[t]
    /\ cur'[t] \in {cur[t], NoPool} \cup todo[t]

(* Counts are taken at the end of a pool, and kept or dropped as a whole.  *)
LEMMA CountsAreKept ==
  ASSUME TypeOK, PassesNest, OnePass, NEW t \in Tickers, Next
  PROVE  \/ held'[t] = NoCount
         \/ held'[t] = held[t] /\ GoesOn(t)
         \/ EndPool(t)
<1> DEFINE Goal == held'[t] = held[t] /\ GoesOn(t)
<1>0. t \in Activities /\ (\A u \in Tickers : u = t)
  BY DEF Activities, OnePass
<1>1. CASE Crash
  BY <1>0, <1>1 DEF Crash
<1>2. ASSUME Aside(t), held' = held PROVE Goal
  BY <1>2 DEF Aside, GoesOn
<1>3. ASSUME PoolDropped(t), pc[t] \in Observing PROVE Goal
  <2>1. held' = held
    BY <1>3 DEF PoolDropped
  <2> QED BY <1>3, <2>1, DroppingClears DEF GoesOn, Observing
<1>4. ASSUME pc' = pc, todo' = todo, cur' = cur, held' = held PROVE Goal
  BY <1>4 DEF GoesOn
<1>5. CASE \/ \E r \in Runners : World(r)
           \/ \E p \in Pools : Arrive(p)
           \/ \E u \in Operators : RetireNext(u)
           \/ \E u \in Operators, r \in Runners : OperatorStop(u, r)
  <2>1. held' = held
    BY <1>5 DEF World, Boot, TakeJob, FinishJob, Exit, Accident, Disconnect, Elapse, Prune,
       Arrive, RetireNext, RetireStop, RetireRemove, RetireDereg, RetireSave, RetireRefused,
       OperatorStop, PoolDropped, memory
  <2>2. Aside(t)
    BY <1>5, OthersStandAside
  <2> QED BY <1>2, <2>1, <2>2
<1>6. CASE RetireNext(t)
  <2>1. pc[t] \in Observing
    BY <1>6, RetirementsAreInside DEF Observing, Judging
  <2>2. CASE PoolDropped(t)
    BY <1>3, <2>1, <2>2
  <2>3. CASE ~PoolDropped(t)
    BY <1>4, <1>6, <2>3 DEF RetireNext, RetireStop, RetireRemove, RetireDereg, RetireSave,
       RetireRefused
  <2> QED BY <2>2, <2>3
<1>7. CASE Tick(t)
  <2>1. CASE BeginTick(t)
    <3>1. held' = held /\ pc[t] \notin Observing
      BY <2>1 DEF BeginTick, Observing, Judging
    <3> QED BY <3>1 DEF GoesOn
  <2>2. ASSUME NEW p \in Pools, ReadRows(t, p) PROVE Goal
    <3>1. /\ p \in todo[t] /\ todo' = [todo EXCEPT ![t] = @ \ {p}] /\ held' = held
          /\ \/ pc' = [pc EXCEPT ![t] = "forge"] /\ cur' = [cur EXCEPT ![t] = p]
             \/ pc' = pc /\ cur' = cur
      BY <2>2 DEF ReadRows
    <3>2. /\ todo'[t] = todo[t] \ {p}
          /\ \/ pc'[t] = "forge" /\ cur'[t] = p
             \/ pc'[t] = pc[t] /\ cur'[t] = cur[t]
      BY <1>0, <3>1 DEF TypeOK
    <3> QED BY <3>1, <3>2 DEF GoesOn, Observing
  <2>3. CASE ReadForge(t)
    <3>1. pc[t] \in Observing
      BY <2>3 DEF ReadForge, Observing
    <3>2. CASE PoolDropped(t)
      BY <1>3, <3>1, <3>2
    <3>3. CASE ~PoolDropped(t)
      <4>1. /\ pc' = [pc EXCEPT ![t] = "adopt"]
            /\ todo' = todo /\ cur' = cur /\ held' = held
        BY <2>3, <3>3 DEF ReadForge
      <4> QED BY <1>0, <4>1 DEF GoesOn, Observing, Judging, TypeOK
    <3> QED BY <3>2, <3>3
  <2>4. CASE Adopt(t) \/ EndSettle(t) \/ PlanPool(t)
    <3>1. /\ \E s \in {"settle", "sweep", "apply"} : pc' = [pc EXCEPT ![t] = s]
          /\ todo' = todo /\ cur' = cur /\ held' = held
      BY <2>4 DEF Adopt, EndSettle, PlanPool
    <3> QED BY <1>0, <3>1 DEF GoesOn, Observing, Judging, TypeOK
  <2>5. CASE Admit(t)
    BY <1>0, <2>5 DEF Admit, TypeOK
  <2>6. CASE EndTick(t) \/ \E p \in Pools : LaunchPool(t, p)
    <3>1. held' = held /\ pc[t] \notin Observing
      BY <2>6 DEF EndTick, LaunchPool, Observing, Judging
    <3> QED BY <3>1 DEF GoesOn
  <2>7. CASE \E r \in Runners : Provision(t, r)
    <3>1. held' = held /\ pc[t] \notin Observing
      BY <2>7 DEF Provision, SavePending, Mint, SaveRegistered, CreateContainer, SaveStarting,
         Abandon, SaveFailed, provMemory, Observing, Judging
    <3> QED BY <3>1 DEF GoesOn
  <2>8. ASSUME NEW r \in Runners, Settle(t, r) PROVE Goal
    <3>1. pc[t] \in Observing
      BY <2>8 DEF Settle, SettleWait, SettleRetire, SettleMove, SettleRefused, Settling,
         Observing, Judging
    <3>2. CASE PoolDropped(t)
      BY <1>3, <3>1, <3>2
    <3>3. CASE ~PoolDropped(t)
      BY <1>4, <2>8, <3>3 DEF Settle, SettleWait, SettleRetire, SettleMove, SettleRefused
    <3> QED BY <3>2, <3>3
  <2>9. CASE \E r \in Runners : Sweep(t, r) \/ Apply(t, r)
    BY <1>4, <2>9 DEF Sweep, Apply
  <2> QED BY <1>7, <2>1, <2>2, <2>3, <2>4, <2>5, <2>6, <2>7, <2>8, <2>9 DEF Tick
<1> QED BY <1>0, <1>1, <1>5, <1>6, <1>7 DEF Next, Activities

(* While a pass observes another pool, nobody comes up in this one.        *)
LEMMA NobodyComesUpBehind ==
  ASSUME TypeOK, PassesNest, WorkIsOwn, OnePass, NEW t \in Tickers, NEW p \in Pools,
         pc[t] \in Observing, p # cur[t] \/ pc[t] = "apply", Next
  PROVE  Up(p)' \subseteq Up(p)
<1>1. ASSUME NEW r \in Runners, PoolOf[r] = p, IsActive(row'[r]) PROVE IsActive(row[r])
  BY <1>1, NewlyActive DEF Observing, Judging
<1> QED BY <1>1 DEF Up, IsActive

(* Counts stay true.                                                       *)
LEMMA CountsStayTrue ==
  ASSUME TypeOK, PassesNest, WorkIsOwn, PlanningNests, ActiveAreKnown, CountsCover, OnePass, Next
  PROVE  CountsCover'
<1> SUFFICES ASSUME NEW t \in Tickers, NEW p \in Pools, held'[t][p] > 0
             PROVE  /\ pc'[t] \in Observing /\ p \notin todo'[t] /\ p # cur'[t]
                    /\ Cardinality(Up(p)') <= held'[t][p]
  BY DEF CountsCover
<1>0. t \in Activities /\ NoPool \notin Pools /\ held[t][p] \in Nat
  BY FleetAssumption DEF Activities, TypeOK
<1>1. CASE held'[t] = NoCount
  BY <1>1 DEF NoCount
<1>2. CASE held'[t][p] = held[t][p] /\ GoesOn(t)
  <2>1. /\ pc[t] \in Observing /\ p \notin todo[t] /\ p # cur[t]
        /\ Cardinality(Up(p)) <= held[t][p]
    BY <1>2 DEF CountsCover
  <2>2. Up(p)' \subseteq Up(p)
    BY <2>1, NobodyComesUpBehind
  <2>3. /\ Cardinality(Up(p)') \in Nat /\ Cardinality(Up(p)) \in Nat
        /\ Cardinality(Up(p)') <= Cardinality(Up(p))
    BY <2>2, FewerCountLess DEF Up
  <2>4. pc'[t] \in Observing /\ p \notin todo'[t] /\ p # cur'[t]
    BY <1>0, <1>2, <2>1 DEF GoesOn
  <2> QED BY <1>0, <1>2, <2>1, <2>3, <2>4
<1>3. CASE EndPool(t)
  <2>1. /\ pc[t] = "apply" /\ pc'[t] = "pools" /\ cur'[t] = NoPool /\ todo' = todo
        /\ held'[t] = [held[t] EXCEPT ![cur[t]] = Committed(t)]
    BY <1>0, <1>3 DEF EndPool, TypeOK
  <2>2. CASE p = cur[t]
    <3>1. held'[t][p] = Committed(t)
      BY <1>0, <2>1, <2>2 DEF TypeOK
    <3>2. Up(p)' \subseteq {r \in Runners : IsActive(work[t][r])}
      <4>1. Up(p)' \subseteq Up(p)
        BY <2>1, NobodyComesUpBehind DEF Observing, Judging
      <4> QED BY <2>1, <2>2, <4>1 DEF Up, ActiveAreKnown, Judging
    <3>3. Cardinality(Up(p)') <= Committed(t)
      BY <3>2, FewerCountLess DEF Committed
    <3> QED BY <1>0, <2>1, <2>2, <3>1, <3>3 DEF Observing, PlanningNests
  <2>3. CASE p # cur[t]
    <3>1. held'[t][p] = held[t][p]
      BY <1>0, <2>1, <2>3 DEF TypeOK
    <3>2. GoesOn(t)
      BY <2>1 DEF GoesOn, Observing
    <3> QED BY <1>2, <3>1, <3>2
  <2> QED BY <2>2, <2>3
<1> QED BY <1>1, <1>2, <1>3, CountsAreKept

(* What is granted in total fits beside what was counted in total, unless  *)
(* nothing is.                                                             *)
LEMMA GrantsFitRoom ==
  ASSUME TypeOK, NEW t \in Tickers, Admit(t), Total(want'[t]) > 0
  PROVE  Total(want'[t]) + Total(held[t]) <= MaxContainers
<1> DEFINE granted == LesserOf(Total(want[t]), Room(t))
<1>0. /\ t \in Activities /\ IsFiniteSet(Pools) /\ MaxContainers \in Nat
      /\ Total(want[t]) \in Nat /\ Total(held[t]) \in Nat
  <2>1. t \in Activities /\ want[t] \in [Pools -> Nat] /\ held[t] \in [Pools -> Nat]
    BY DEF Activities, TypeOK
  <2> QED BY <2>1, FleetAssumption, TotalIsNatural
<1>1. CASE want' = [want EXCEPT ![t] = NoCount]
  <2>1. want'[t] = NoCount
    BY <1>0, <1>1 DEF TypeOK
  <2>2. NoCount = [p \in Pools |-> IF p \in {} THEN 0 ELSE 0]
    BY DEF NoCount
  <2>3. Total([p \in Pools |-> IF p \in {} THEN 0 ELSE 0]) = Cardinality({}) * 0
    BY <1>0, TotalOfEquals
  <2>4. Cardinality({}) = 0
    BY FS_EmptySet
  <2> QED BY <2>1, <2>2, <2>3, <2>4
<1>2. CASE want' # [want EXCEPT ![t] = NoCount]
  <2>1. PICK g \in [Pools -> 0 .. granted] : Total(g) = granted /\ want' = [want EXCEPT ![t] = g]
    BY <1>2 DEF Admit
  <2>2. Total(want'[t]) = granted
    <3> HIDE DEF granted
    <3> QED BY <1>0, <2>1 DEF TypeOK
  <2> QED BY <1>0, <2>2 DEF LesserOf, Room, AtLeastZero
<1> QED BY <1>1, <1>2

(* From observing to launching a pass comes by way of _admit.              *)
LEMMA LaunchesAreAdmitted ==
  ASSUME TypeOK, PassesNest, OnePass, NEW t \in Tickers, Next,
         pc[t] = "pools", pc'[t] = "launch"
  PROVE  Admit(t)
<1>0. t \in Activities
  BY DEF Activities
<1>1. ~(Crash \/ Aside(t) \/ RetireNext(t))
  BY <1>0, RetirementsAreInside DEF Crash, Aside
<1>2. CASE Tick(t)
  BY <1>0, <1>2 DEF Tick, BeginTick, ReadForge, Adopt, EndSettle, PlanPool, EndPool, EndTick,
     ReadRows, LaunchPool, Settle, SettleWait, SettleRetire, SettleMove, SettleRefused, Settling,
     Sweep, Apply, Provision, TypeOK
<1> QED BY <1>1, <1>2, StepsAreOwn

(* What a lone pass grants fits the host beside all that the pools it      *)
(* counted have up by then, whatever failed and whatever operators stop:   *)
(* the ceiling is missed only by what pools that were given up have up     *)
(* (tick() admits over `planned`, which they are not in).                  *)
THEOREM GrantsAlwaysFitCounted ==
  ASSUME OnePass
  PROVE  Spec => GrantsFitCounted
<1> DEFINE Inv == PassInv /\ RoomInv /\ CountsCover
           Fitting == \A t \in Tickers :
             pc[t] = "pools" /\ pc'[t] = "launch" /\ Total(want'[t]) > 0 =>
               Total(want'[t])
                 + Cardinality({r \in Runners : IsActive(row[r]) /\ held[t][PoolOf[r]] > 0})
                 <= MaxContainers
<1>1. Init => Inv
  <2>1. Init => CountsCover
    BY DEF Init, CountsCover, NoCount, Activities
  <2> QED BY <2>1, PassInvStarts, RoomInvStarts
<1>2. Inv /\ [Next]_vars => Inv'
  <2> SUFFICES ASSUME Inv, [Next]_vars PROVE Inv'
    OBVIOUS
  <2>1. PassInv' /\ RoomInv'
    BY PassInvIsKept, RoomInvIsKept
  <2>2. CASE Next
    BY <2>1, <2>2, CountsStayTrue DEF PassInv, RoomInv
  <2>3. CASE UNCHANGED vars
    BY <2>1, <2>3 DEF vars, world, memory, CountsCover, Up, IsActive
  <2> QED BY <2>2, <2>3
<1>3. Inv /\ [Next]_vars => [Fitting]_vars
  <2> SUFFICES ASSUME Inv, Next, NEW t \in Tickers, pc[t] = "pools", pc'[t] = "launch",
                      Total(want'[t]) > 0
               PROVE  Total(want'[t])
                        + Cardinality({r \in Runners : IsActive(row[r])
                                                         /\ held[t][PoolOf[r]] > 0})
                        <= MaxContainers
    OBVIOUS
  <2> DEFINE Counts == {r \in Runners : IsActive(row[r]) /\ held[t][PoolOf[r]] > 0}
             part == [r \in Counts |-> PoolOf[r]]
  <2>0. /\ TypeOK /\ TypeOK' /\ PassesNest /\ t \in Activities /\ IsFiniteSet(Pools)
        /\ held[t] \in [Pools -> Nat] /\ want'[t] \in [Pools -> Nat] /\ MaxContainers \in Nat
    <3>1. TypeOK /\ TypeOK' /\ t \in Activities
      BY StepIsTyped DEF PassInv, Activities
    <3> QED BY <3>1, FleetAssumption DEF PassInv, TypeOK
  <2>1. Total(want'[t]) + Total(held[t]) <= MaxContainers
    BY <2>0, LaunchesAreAdmitted, GrantsFitRoom
  <2>2. IsFiniteSet(Counts) /\ part \in [Counts -> Pools]
    BY FleetAssumption, FS_Subset
  <2>3. ASSUME NEW p \in Pools
        PROVE  Cardinality({r \in Counts : part[r] = p}) <= held[t][p]
    <3>1. CASE held[t][p] = 0
      <4>1. {r \in Counts : part[r] = p} = {}
        BY <3>1
      <4>2. Cardinality({r \in Counts : part[r] = p}) = 0
        BY <4>1, FS_EmptySet
      <4> HIDE DEF Counts, part
      <4> QED BY <3>1, <4>2
    <3>2. CASE held[t][p] # 0
      <4>1. Cardinality(Up(p)) <= held[t][p]
        BY <2>0, <3>2 DEF CountsCover
      <4>2. {r \in Counts : part[r] = p} = Up(p)
        BY <2>0, <3>2 DEF Up
      <4> QED BY <4>1, <4>2
    <3> QED BY <3>1, <3>2
  <2>4. Cardinality(Counts) <= Total(held[t])
    <3> HIDE DEF Counts, part
    <3> QED BY <2>0, <2>2, <2>3, PartsFitTotal
  <2>5. /\ Total(want'[t]) \in Nat /\ Total(held[t]) \in Nat
        /\ Cardinality(Counts) \in Nat
    <3> HIDE DEF Counts
    <3> QED BY <2>0, <2>2, TotalIsNatural, FS_CardinalityType
  <2> QED BY <2>0, <2>1, <2>4, <2>5
<1> HIDE DEF Inv
<1> QED BY <1>1, <1>2, <1>3, PTL DEF Spec, GrantsFitCounted

-----------------------------------------------------------------------------
(* Lives.                                                                  *)

(* A pass's objects are in the state of their rows.                        *)
ObjectsMatchRows ==
  \A t \in Tickers, r \in Runners :
    work[t][r].state # Absent => row[r].state = work[t][r].state

(* Between pools, and while it launches, a pass holds no object.           *)
HandsAreFree ==
  \A t \in Tickers : pc[t] \notin {"forge"} \cup Judging => work[t] = NoWork

(* What is to be settled is known.                                         *)
SettlingIsOfKnown ==
  \A t \in Tickers, r \in Runners :
    pc[t] = "settle" /\ r \in todoR[t] => work[t][r].state # Absent

(* The state a launch has left the row in, so far.                         *)
RecordOf(s) ==
  IF s = "new" THEN Absent ELSE IF s \in {"saved", "minted"} THEN "pending" ELSE "registered"

(* A launch writes ahead: its row says how far it is, and before the       *)
(* container is created nobody has seen one.                               *)
LaunchesAreOnRecord ==
  \A r \in Runners :
    prov[r] # "none" =>
      /\ row[r].state = RecordOf(prov[r])
      /\ prov[r] \in {"new", "saved", "minted", "registered"}
           => ctr[r] = "none" /\ \A t \in Activities : seen[t][r] = "none"

RecordInv == ObjectsMatchRows /\ HandsAreFree /\ SettlingIsOfKnown /\ LaunchesAreOnRecord

-----------------------------------------------------------------------------
(* What RunnerLifecycle speaks of.                                         *)

StatusOf == [r \in Runners |-> row[r].state]
Backed == {r \in Runners : ctr[r] # "none" \/ \E t \in Activities : seen[t][r] # "none"}

(* Whoever writes nothing and creates nothing leaves the rows' life alone, *)
(* or makes containers fewer.                                              *)
LEMMA QuietStep ==
  ASSUME UNCHANGED row, Backed' \subseteq Backed
  PROVE  [Lifecycle!LifecycleNext]_(Lifecycle!lifecycleVars)
<1>1. StatusOf' = StatusOf
  BY DEF StatusOf
<1>2. Lifecycle!Unback
  BY <1>1 DEF Lifecycle!Unback, StatusOf, Backed
<1> QED BY <1>2 DEF Lifecycle!LifecycleNext

(* A row moves along the table, or stays where it is.                      *)
LEMMA MovingStep ==
  ASSUME row \in [Runners -> Row], NEW r \in Runners, NEW w \in Row, row' = Saved(r, w),
         row[r].state # Absent, MayMove(row[r].state, w.state), Backed' = Backed
  PROVE  [Lifecycle!LifecycleNext]_(Lifecycle!lifecycleVars)
<1>1. StatusOf' = [StatusOf EXCEPT ![r] = w.state]
  BY SavedIsAsActive, ZenonT(20) DEF StatusOf, Saved
<1>2. CASE w.state = row[r].state
  <2>1. StatusOf' = StatusOf
    BY <1>1, <1>2 DEF StatusOf
  <2> QED BY <2>1 DEF Lifecycle!lifecycleVars, StatusOf, Backed
<1>3. CASE w.state # row[r].state
  <2>1. w.state \in Transitions[row[r].state] /\ StatusOf[r] = row[r].state
    BY <1>3 DEF MayMove, StatusOf
  <2>2. Transitions = Lifecycle!Transitions /\ Absent = Lifecycle!Absent
    BY DEF Transitions, Lifecycle!Transitions, Absent, Lifecycle!Absent
  <2>3. Lifecycle!Move(r)
    BY <1>1, <2>1, <2>2 DEF Lifecycle!Move, StatusOf, Backed
  <2> QED BY <2>3 DEF Lifecycle!LifecycleNext
<1> QED BY <1>2, <1>3

-----------------------------------------------------------------------------
(* Objects and rows.                                                       *)

(* A saved retirement, as a lone pass makes it.                            *)
LEMMA RetirementsSave ==
  ASSUME TypeOK, PassesNest, NEW t \in Tickers, RetireSave(t)
  PROVE  \E q \in Runners, w \in Row :
           /\ q = ret[t].runner
           /\ w.state = "retired" /\ MayMove(work[t][q].state, "retired")
           /\ row' = Saved(q, w) /\ ctr' = ctr /\ seen' = seen
           /\ work' = [work EXCEPT ![t][q] = w]
           /\ todoR' = [todoR EXCEPT ![t] = @ \ {q}]
           /\ pc' = pc
<1> DEFINE q == ret[t].runner
           w == MovedTo(work[t][q], "retired")
<1>0. t \in Activities
  BY DEF Activities
<1>1. q \in Runners /\ work[t][q] \in Row
  BY <1>0 DEF RetireSave, TypeOK
<1>2. w \in Row /\ w.state = "retired"
  BY <1>1 DEF MovedTo, Row, RunnerState
<1>3. pc[t] # "stop"
  BY DEF PassesNest
<1>4. /\ MayMove(work[t][q].state, "retired")
      /\ row' = Saved(q, w) /\ ctr' = ctr /\ seen' = seen
      /\ work' = [work EXCEPT ![t][q] = w]
      /\ todoR' = [todoR EXCEPT ![t] = @ \ {q}]
      /\ pc' = pc
  BY <1>3 DEF RetireSave
<1>5. q = ret[t].runner
  OBVIOUS
<1> HIDE DEF q, w
<1> QED BY <1>1, <1>2, <1>4, <1>5

(* A settled move, likewise: the pool may be given up right after it.      *)
LEMMA MovesSave ==
  ASSUME TypeOK, NEW t \in Tickers, NEW q \in Runners, SettleMove(t, q)
  PROVE  /\ pc[t] = "settle" /\ q \in todoR[t] /\ ctr' = ctr /\ seen' = seen
         /\ \E w \in Row :
              /\ MayMove(work[t][q].state, w.state)
              /\ row' = Saved(q, w)
              /\ \/ /\ work' = [work EXCEPT ![t][q] = w] /\ pc' = pc
                    /\ todoR' = [todoR EXCEPT ![t] = @ \ {q}]
                 \/ PoolDropped(t)
<1> DEFINE w == MovedTo(work[t][q], VerdictOn(t, q))
<1>1. /\ t \in Activities /\ work[t][q] \in Row /\ seen[t][q] \in ContainerState
      /\ listed[t][q] \in RegState
  BY DEF Activities, TypeOK
<1>2. VerdictOn(t, q) \notin {"wait", "retire"} /\ MayMove(work[t][q].state, VerdictOn(t, q))
  BY DEF SettleMove
<1>3. w \in Row
  BY <1>1, <1>2, VerdictIsTyped, MovedIsTyped DEF VerdictOn
<1>4. w.state = VerdictOn(t, q)
  BY <1>1 DEF MovedTo, Row
<1>5. /\ row' = Saved(q, w)
      /\ \/ /\ work' = [work EXCEPT ![t][q] = w] /\ pc' = pc
            /\ todoR' = [todoR EXCEPT ![t] = @ \ {q}]
         \/ PoolDropped(t)
  BY DEF SettleMove
<1>6. pc[t] = "settle" /\ q \in todoR[t] /\ ctr' = ctr /\ seen' = seen
  BY DEF SettleMove, Settling, PoolDropped
<1> HIDE DEF w
<1> QED BY <1>2, <1>3, <1>4, <1>5, <1>6

(* The objects are let go of with the pool.                                *)
LEMMA HandsStayFree ==
  ASSUME TypeOK, PassesNest, HandsAreFree, OnePass, Next
  PROVE  HandsAreFree'
<1> SUFFICES ASSUME NEW t \in Tickers, pc'[t] \notin {"forge"} \cup Judging
             PROVE  work'[t] = NoWork
  BY DEF HandsAreFree, NoWork, NoRow
<1>0. t \in Activities
  BY DEF Activities
<1>1. pc[t] \notin {"forge"} \cup Judging => work[t] = NoWork
  BY DEF HandsAreFree
<1>2. ASSUME work' = [work EXCEPT ![t] = NoWork] PROVE work'[t] = NoWork
  BY <1>0, <1>2 DEF TypeOK
<1>3. CASE Crash
  BY <1>0, <1>3 DEF Crash
<1>4. CASE Aside(t)
  BY <1>1, <1>4 DEF Aside
<1>5. CASE RetireNext(t)
  <2>1. pc[t] \in {"settle", "apply"}
    BY <1>5, RetirementsAreInside
  <2>2. PoolDropped(t)
    BY <1>5, <2>1 DEF RetireNext, RetireStop, RetireRemove, RetireDereg, RetireSave,
       RetireRefused, Judging
  <2> QED BY <1>2, <2>2 DEF PoolDropped
<1>6. CASE Tick(t)
  <2>1. CASE PoolDropped(t)
    BY <1>2, <2>1 DEF PoolDropped
  <2>2. CASE EndPool(t)
    BY <1>2, <2>2 DEF EndPool
  <2>3. CASE \E p \in Pools : ReadRows(t, p)
    BY <1>0, <1>1, <2>3 DEF ReadRows, TypeOK, Judging
  <2>4. CASE \/ BeginTick(t) \/ Admit(t) \/ EndTick(t) \/ \E p \in Pools : LaunchPool(t, p)
    BY <1>1, <2>4 DEF BeginTick, Admit, EndTick, LaunchPool, Judging
  <2>5. CASE \E r \in Runners : Provision(t, r)
    BY <1>1, <2>5 DEF Provision, SavePending, Mint, SaveRegistered, CreateContainer,
       SaveStarting, Abandon, SaveFailed, provMemory, Judging
  <2>6. CASE ReadForge(t) \/ Adopt(t) \/ EndSettle(t) \/ PlanPool(t)
    BY <1>0, <2>1, <2>6 DEF ReadForge, Adopt, EndSettle, PlanPool, TypeOK, Judging
  <2>7. CASE \E r \in Runners : Settle(t, r) \/ Sweep(t, r) \/ Apply(t, r)
    BY <2>1, <2>7 DEF Settle, SettleWait, SettleRetire, SettleMove, SettleRefused, Settling,
       Sweep, Apply, Judging
  <2> QED BY <1>6, <2>2, <2>3, <2>4, <2>5, <2>6, <2>7 DEF Tick
<1> QED BY <1>3, <1>4, <1>5, <1>6, StepsAreOwn

(* The objects of a pass and their rows move together.                     *)
LEMMA ObjectsStayMatched ==
  ASSUME TypeOK, PassesNest, LaunchesNest, ObjectsMatchRows, HandsAreFree,
         OnePass, Operators = {}, Next
  PROVE  ObjectsMatchRows'
<1> SUFFICES ASSUME NEW t \in Tickers, NEW r \in Runners, work'[t][r].state # Absent
             PROVE  row'[r].state = work'[t][r].state
  BY DEF ObjectsMatchRows
<1>0. t \in Activities /\ (\A u \in Activities : u = t)
  BY DEF Activities, OnePass
<1>1. ASSUME work'[t][r] = work[t][r], row'[r].state = row[r].state
      PROVE  row'[r].state = work'[t][r].state
  BY <1>1 DEF ObjectsMatchRows
<1>2. ASSUME work' = [work EXCEPT ![t] = NoWork] PROVE FALSE
  BY <1>0, <1>2 DEF TypeOK, NoWork, NoRow
<1>3. ASSUME NEW q \in Runners, NEW w \in Row, row' = Saved(q, w),
             work' = [work EXCEPT ![t][q] = w]
      PROVE  row'[r].state = work'[t][r].state
  <2>1. row'[q].state = w.state /\ \A i \in Runners \ {q} : row'[i] = row[i]
    BY <1>3, SavedIsAsActive DEF TypeOK
  <2>2. CASE r = q
    BY <1>0, <1>3, <2>1, <2>2 DEF TypeOK
  <2>3. CASE r # q
    <3>1. work'[t][r] = work[t][r]
      BY <1>0, <1>3, <2>3 DEF TypeOK
    <3> QED BY <1>1, <2>1, <2>3, <3>1
  <2> QED BY <2>2, <2>3
<1>4. CASE Crash
  BY <1>0, <1>4 DEF Crash, NoWork, NoRow
<1>5. ASSUME NEW q \in Runners, World(q) PROVE row'[r].state = work'[t][r].state
  <2>1. work' = work
    BY <1>5 DEF World, Boot, TakeJob, FinishJob, Exit, Accident, Disconnect, Elapse, Prune, memory
  <2>2. CASE Prune(q)
    <3>1. q # r
      BY <1>0, <2>1, <2>2 DEF Prune, NoRow
    <3> QED BY <1>1, <2>1, <2>2, <3>1 DEF Prune, TypeOK
  <2>3. CASE Elapse(q)
    BY <1>1, <2>1, <2>3 DEF Elapse, TypeOK, Row
  <2>4. CASE ~Prune(q) /\ ~Elapse(q)
    BY <1>1, <1>5, <2>1, <2>4 DEF World, Boot, TakeJob, FinishJob, Exit, Accident, Disconnect
  <2> QED BY <2>2, <2>3, <2>4
<1>6. CASE \E p \in Pools : Arrive(p)
  BY <1>1, <1>6 DEF Arrive, memory
<1>7. CASE RetireNext(t)
  <2>1. CASE RetireSave(t)
    BY <1>3, <2>1, RetirementsSave
  <2>2. CASE RetireRefused(t)
    BY <1>2, <2>2 DEF RetireRefused, PoolDropped
  <2>3. CASE Calls(t)
    BY <1>1, <2>3 DEF Calls, RetireStop, RetireRemove, RetireDereg
  <2> QED BY <1>7, <2>1, <2>2, <2>3 DEF RetireNext, Calls
<1>8. CASE Tick(t)
  <2>1. CASE ReadForge(t) \/ EndPool(t)
    BY <1>1, <1>2, <2>1 DEF ReadForge, EndPool, PoolDropped, world
  <2>2. ASSUME NEW p \in Pools, ReadRows(t, p) PROVE row'[r].state = work'[t][r].state
    <3> DEFINE rows == [q \in Runners |->
                         IF PoolOf[q] = p /\ IsLive(row[q]) THEN row[q] ELSE NoRow]
    <3>1. row' = row /\ (work' = work \/ work' = [work EXCEPT ![t] = rows])
      BY <2>2 DEF ReadRows
    <3>2. rows[r] = row[r] \/ rows[r].state = Absent
      BY DEF NoRow
    <3> HIDE DEF rows
    <3>3. CASE work' = work
      BY <1>1, <3>1, <3>3
    <3>4. CASE work' = [work EXCEPT ![t] = rows]
      BY <1>0, <3>1, <3>2, <3>4 DEF TypeOK
    <3> QED BY <3>1, <3>3, <3>4
  <2>3. CASE Adopt(t)
    <3>1. PICK new : Adopts(t, new)
      BY <2>3, AdoptionWrites
    <3>2. /\ row' = [q \in Runners |-> IF q \in Unknown(t) THEN new[q] ELSE row[q]]
          /\ work' = [work EXCEPT ![t] =
               [q \in Runners |-> IF q \in Unknown(t) THEN new[q] ELSE work[t][q]]]
      BY <3>1 DEF Adopts
    <3>3. CASE r \in Unknown(t)
      BY <1>0, <3>2, <3>3 DEF TypeOK
    <3>4. CASE r \notin Unknown(t)
      <4>1. row'[r] = row[r] /\ work'[t][r] = work[t][r]
        BY <1>0, <3>2, <3>4 DEF TypeOK
      <4> QED BY <1>1, <4>1
    <3> QED BY <3>3, <3>4
  <2>4. ASSUME NEW q \in Runners, Settle(t, q) PROVE row'[r].state = work'[t][r].state
    <3>1. CASE SettleMove(t, q)
      <4>1. PICK w \in Row :
              /\ row' = Saved(q, w)
              /\ work' = [work EXCEPT ![t][q] = w] \/ PoolDropped(t)
        BY <3>1, MovesSave
      <4> QED BY <1>2, <1>3, <4>1 DEF PoolDropped
    <3>2. CASE ~SettleMove(t, q)
      BY <1>1, <1>2, <2>4, <3>2 DEF Settle, SettleWait, SettleRetire, SettleRefused,
         PoolDropped, world
    <3> QED BY <3>1, <3>2
  <2>5. ASSUME NEW q \in Runners, Provision(t, q) PROVE row'[r].state = work'[t][r].state
    <3>1. /\ pc[t] = "launch" /\ q \in todoR[t]
          /\ \A i \in Runners \ {q} : row'[i] = row[i]
      BY <2>5, ProvisioningSteps
    <3>2. work' = work
      BY <2>5 DEF Provision, SavePending, Mint, SaveRegistered, CreateContainer,
         SaveStarting, Abandon, SaveFailed, provMemory
    <3>3. work[t][r].state = Absent
      BY <3>1 DEF HandsAreFree, NoWork, NoRow, Judging
    <3> QED BY <3>2, <3>3
  <2>6. CASE \/ BeginTick(t) \/ EndSettle(t) \/ PlanPool(t) \/ Admit(t) \/ EndTick(t)
             \/ \E p \in Pools : LaunchPool(t, p)
    BY <1>1, <2>6 DEF BeginTick, EndSettle, PlanPool, Admit, EndTick, LaunchPool, world
  <2>7. CASE \E q \in Runners : Sweep(t, q) \/ Apply(t, q)
    BY <1>1, <2>7 DEF Sweep, Apply, world
  <2> QED BY <1>8, <2>1, <2>2, <2>3, <2>4, <2>5, <2>6, <2>7 DEF Tick
<1>9. ~\E u \in Operators, q \in Runners : OperatorStop(u, q)
  OBVIOUS
<1> QED BY <1>0, <1>4, <1>5, <1>6, <1>7, <1>8, <1>9 DEF Next, Activities

(* What is still to be settled stays known.                                *)
LEMMA SettlingStaysOfKnown ==
  ASSUME TypeOK, PassesNest, SettlingIsOfKnown, OnePass, Next
  PROVE  SettlingIsOfKnown'
<1> SUFFICES ASSUME NEW t \in Tickers, NEW r \in Runners, pc'[t] = "settle", r \in todoR'[t]
             PROVE  work'[t][r].state # Absent
  BY DEF SettlingIsOfKnown
<1>0. PassStep(t) /\ t \in Activities
  BY StepsOfAPass DEF Activities
<1>1. CASE Aside(t)
  BY <1>1 DEF Aside, SettlingIsOfKnown
<1>2. CASE Adopt(t)
  <2>1. PICK new : Adopts(t, new)
    BY <1>2, AdoptionWrites
  <2>2. work' = [work EXCEPT ![t] =
          [q \in Runners |-> IF q \in Unknown(t) THEN new[q] ELSE work[t][q]]]
    BY <2>1 DEF Adopts
  <2>3. todoR'[t] = Unknown(t) \cup {q \in Runners : work[t][q].state # Absent}
    BY <1>0, <1>2 DEF Adopt, Unknown, TypeOK
  <2>4. CASE r \in Unknown(t)
    <3>1. new[r].state \in {"idle", "failed"}
      BY <2>1, <2>4 DEF Adopts
    <3>2. work'[t][r] = new[r]
      BY <1>0, <2>2, <2>4 DEF TypeOK
    <3> QED BY <3>1, <3>2 DEF Absent
  <2>5. CASE r \notin Unknown(t)
    BY <1>0, <2>2, <2>3, <2>5 DEF TypeOK
  <2> QED BY <2>4, <2>5
<1>3. CASE pc'[t] = "settle" /\ \E q \in Runners : Settles(t, q)
  <2>1. PICK q \in Runners : Settles(t, q)
    BY <1>3
  <2>2. ~PoolDropped(t)
    BY <1>0, <1>3 DEF PoolDropped, TypeOK
  <2>3. pc[t] = "settle"
    BY <2>1 DEF Settles, SettleWait, SettleRetire, SettleMove, Settling
  <2>4. /\ \/ work' = work
           \/ \E w \in Row : work' = [work EXCEPT ![t][q] = w]
                             /\ todoR' = [todoR EXCEPT ![t] = @ \ {q}]
        /\ todoR'[t] \subseteq todoR[t]
    <3>1. CASE SettleMove(t, q)
      <4>1. PICK w \in Row : /\ work' = [work EXCEPT ![t][q] = w]
                             /\ todoR' = [todoR EXCEPT ![t] = @ \ {q}]
        BY <2>2, <3>1, MovesSave
      <4> QED BY <1>0, <4>1 DEF TypeOK
    <3>2. CASE SettleWait(t, q) \/ SettleRetire(t, q)
      <4>1. work' = work
        BY <2>2, <3>2 DEF SettleWait, SettleRetire
      <4>2. todoR' = todoR \/ todoR' = [todoR EXCEPT ![t] = @ \ {q}]
        BY <2>2, <3>2 DEF SettleWait, SettleRetire
      <4>3. todoR'[t] \subseteq todoR[t]
        BY <1>0, <4>2 DEF TypeOK
      <4> QED BY <4>1, <4>3
    <3> QED BY <2>1, <3>1, <3>2 DEF Settles
  <2>5. work[t][r].state # Absent
    BY <2>3, <2>4 DEF SettlingIsOfKnown
  <2>6. CASE work' = work
    BY <2>5, <2>6
  <2>7. ASSUME NEW w \in Row, work' = [work EXCEPT ![t][q] = w],
               todoR' = [todoR EXCEPT ![t] = @ \ {q}]
        PROVE  work'[t][r].state # Absent
    <3>1. r # q
      BY <1>0, <2>7 DEF TypeOK
    <3> QED BY <1>0, <2>5, <2>7, <3>1 DEF TypeOK
  <2> QED BY <2>4, <2>6, <2>7
<1>4. CASE pc'[t] = pc[t] /\ (Calls(t) \/ RetireSave(t))
  <2>1. CASE RetireSave(t)
    <3>1. PICK q \in Runners, w \in Row : /\ work' = [work EXCEPT ![t][q] = w]
                                          /\ todoR' = [todoR EXCEPT ![t] = @ \ {q}]
      BY <2>1, RetirementsSave
    <3>2. r # q /\ r \in todoR[t]
      BY <1>0, <3>1 DEF TypeOK
    <3>3. work'[t][r] = work[t][r]
      BY <1>0, <3>1, <3>2 DEF TypeOK
    <3> QED BY <1>4, <3>2, <3>3 DEF SettlingIsOfKnown
  <2>2. CASE Calls(t)
    BY <1>4, <2>2 DEF Calls, RetireStop, RetireRemove, RetireDereg, SettlingIsOfKnown
  <2> QED BY <1>4, <2>1, <2>2
<1> QED BY <1>0, <1>1, <1>2, <1>3, <1>4 DEF PassStep, Elsewhere

(* What one step of a provisioning does to the runner itself.              *)
LEMMA ProvisioningRecords ==
  ASSUME TypeOK, NEW t \in Tickers, NEW r \in Runners, Provision(t, r),
         row[r].state = RecordOf(prov[r]),
         prov[r] \in {"new", "saved", "minted", "registered"}
           => ctr[r] = "none" /\ \A u \in Activities : seen[u][r] = "none"
  PROVE  prov'[r] # "none" =>
           /\ row'[r].state = RecordOf(prov'[r])
           /\ prov'[r] \in {"new", "saved", "minted", "registered"}
                => ctr'[r] = "none" /\ \A u \in Activities : seen'[u][r] = "none"
<1> DEFINE Goal == prov'[r] # "none" =>
             /\ row'[r].state = RecordOf(prov'[r])
             /\ prov'[r] \in {"new", "saved", "minted", "registered"}
                  => ctr'[r] = "none" /\ \A u \in Activities : seen'[u][r] = "none"
<1>1. CASE SavePending(t, r)
  <2>1. prov[r] = "new" /\ prov'[r] = "saved" /\ UNCHANGED <<ctr, seen>>
    BY <1>1 DEF SavePending, Step, TypeOK, provMemory
  <2>2. row'[r].state = "pending"
    BY <1>1 DEF SavePending, Saved, NoRow, TypeOK
  <2> QED BY <2>1, <2>2 DEF RecordOf
<1>2. CASE Mint(t, r)
  <2>1. prov[r] = "saved" /\ prov'[r] \in {"minted", "none"} /\ UNCHANGED <<row, ctr, seen>>
    BY <1>2 DEF Mint, Step, TypeOK, provMemory
  <2> QED BY <2>1 DEF RecordOf
<1>3. CASE SaveRegistered(t, r)
  <2>1. prov[r] = "minted" /\ prov'[r] = "registered" /\ UNCHANGED <<ctr, seen>>
    BY <1>3 DEF SaveRegistered, Step, TypeOK, provMemory
  <2>2. row'[r].state = "registered"
    BY <1>3 DEF SaveRegistered, Saved, Registered, TypeOK
  <2> QED BY <2>1, <2>2 DEF RecordOf
<1>4. CASE CreateContainer(t, r)
  <2>1. prov[r] = "registered" /\ prov'[r] \in {"created", "abandon"} /\ UNCHANGED row
    BY <1>4 DEF CreateContainer, Step, TypeOK
  <2> QED BY <2>1 DEF RecordOf
<1>5. CASE SaveStarting(t, r) \/ SaveFailed(t, r)
  BY <1>5 DEF SaveStarting, SaveFailed, Step, TypeOK
<1>6. CASE Abandon(t, r)
  <2>1. prov[r] = "abandon" /\ prov'[r] = "failing" /\ UNCHANGED row
    BY <1>6 DEF Abandon, Step, TypeOK
  <2> QED BY <2>1 DEF RecordOf
<1> QED BY <1>1, <1>2, <1>3, <1>4, <1>5, <1>6 DEF Provision

(* A step of one runner's provisioning does nothing to another's container.*)
LEMMA ProvisioningIsOfOne ==
  ASSUME TypeOK, NEW t \in Tickers, NEW q \in Runners, Provision(t, q)
  PROVE  /\ \A r \in Runners \ {q} : prov'[r] = prov[r] /\ ctr'[r] = ctr[r]
         /\ seen' = seen
<1>1. seen' = seen
  BY DEF Provision, SavePending, Mint, SaveRegistered, CreateContainer, SaveStarting,
     Abandon, SaveFailed, provMemory
<1>2. PICK s : prov' = [prov EXCEPT ![q] = s]
  BY ProvisioningSteps
<1>3. ctr' = ctr \/ \E c : ctr' = [ctr EXCEPT ![q] = c]
  BY DEF Provision, SavePending, Mint, SaveRegistered, CreateContainer, SaveStarting,
     Abandon, SaveFailed, world
<1> QED BY <1>1, <1>2, <1>3 DEF TypeOK

(* The row says how far a launch is, and it says so first.                 *)
LEMMA LaunchesStayOnRecord ==
  ASSUME TypeOK, PassesNest, LaunchesNest, LaunchesAreOnRecord, OnePass, Operators = {}, Next
  PROVE  LaunchesAreOnRecord'
<1> SUFFICES ASSUME NEW r \in Runners, prov'[r] # "none"
             PROVE  /\ row'[r].state = RecordOf(prov'[r])
                    /\ prov'[r] \in {"new", "saved", "minted", "registered"}
                         => ctr'[r] = "none" /\ \A t \in Activities : seen'[t][r] = "none"
  BY DEF LaunchesAreOnRecord, RecordOf
<1> DEFINE Goal == /\ row'[r].state = RecordOf(prov'[r])
                   /\ prov'[r] \in {"new", "saved", "minted", "registered"}
                        => ctr'[r] = "none" /\ \A t \in Activities : seen'[t][r] = "none"
<1>0. prov[r] # "none" =>
        /\ row[r].state = RecordOf(prov[r])
        /\ prov[r] \in {"new", "saved", "minted", "registered"}
             => ctr[r] = "none" /\ \A t \in Activities : seen[t][r] = "none"
  BY DEF LaunchesAreOnRecord
<1>1. CASE Crash
  BY <1>1 DEF Crash
<1>2. ASSUME NEW q \in Runners, World(q) PROVE Goal
  <2>1. prov' = prov /\ seen' = seen
    BY <1>2 DEF World, Boot, TakeJob, FinishJob, Exit, Accident, Disconnect, Elapse, Prune, memory
  <2>2. row'[r].state = row[r].state
    <3>1. CASE Elapse(q)
      BY <3>1 DEF Elapse, TypeOK, Row
    <3>2. CASE Prune(q)
      <4>1. row[r].state \notin TerminalStates
        BY <1>0, <2>1 DEF RecordOf, TerminalStates, Absent
      <4> QED BY <3>2, <4>1 DEF Prune, IsTerminal, TypeOK
    <3>3. CASE ~Elapse(q) /\ ~Prune(q)
      BY <1>2, <3>3 DEF World, Boot, TakeJob, FinishJob, Exit, Accident, Disconnect
    <3> QED BY <3>1, <3>2, <3>3
  <2>3. ctr[r] = "none" => ctr'[r] = "none"
    BY <1>2 DEF World, Boot, TakeJob, FinishJob, Exit, Accident, Disconnect, Elapse, Prune, TypeOK
  <2> QED BY <1>0, <2>1, <2>2, <2>3
<1>3. CASE \E p \in Pools : Arrive(p)
  BY <1>0, <1>3 DEF Arrive, memory
<1>4. ASSUME NEW t \in Tickers, Tick(t) \/ RetireNext(t) PROVE Goal
  <2>1. pc[t] = "launch"
    BY OnlyLaunchesProvision
  <2>2. ~RetireNext(t)
    BY <2>1, RetirementsAreInside
  <2>3. CASE EndTick(t)
    BY <1>0, <2>3 DEF EndTick, world
  <2>4. CASE \E p \in Pools : LaunchPool(t, p)
    <3>1. PICK p \in Pools : LaunchPool(t, p)
      BY <2>4
    <3>2. UNCHANGED <<row, ctr, seen>>
      BY <3>1 DEF LaunchPool, world
    <3>3. PICK R \in SUBSET {q \in Runners : PoolOf[q] = p /\ Fresh(q)} :
            prov' = [q \in Runners |-> IF q \in R THEN "new" ELSE prov[q]]
      BY <3>1 DEF LaunchPool
    <3>4. CASE r \in R
      <4>1. prov'[r] = "new" /\ Fresh(r)
        BY <3>3, <3>4
      <4>2. row[r].state = Absent /\ ctr[r] = "none" /\ \A u \in Activities : seen[u][r] = "none"
        BY <4>1 DEF Fresh, NoRow
      <4> QED BY <3>2, <4>1, <4>2 DEF RecordOf
    <3>5. CASE r \notin R
      BY <1>0, <3>2, <3>3, <3>5
    <3> QED BY <3>4, <3>5
  <2>5. ASSUME NEW q \in Runners, Provision(t, q) PROVE Goal
    <3>1. CASE r = q
      <4>1. prov[r] # "none"
        BY <2>5, <3>1 DEF Provision, SavePending, Mint, SaveRegistered, CreateContainer,
           SaveStarting, Abandon, SaveFailed, Step
      <4> QED BY <1>0, <2>5, <3>1, <4>1, ProvisioningRecords
    <3>2. CASE r # q
      <4>1. row'[r] = row[r]
        BY <2>5, <3>2, ProvisioningSteps
      <4>2. prov'[r] = prov[r] /\ ctr'[r] = ctr[r] /\ seen' = seen
        BY <2>5, <3>2, ProvisioningIsOfOne
      <4> QED BY <1>0, <4>1, <4>2
    <3> QED BY <3>1, <3>2
  <2> QED BY <1>4, <2>1, <2>2, <2>3, <2>4, <2>5
      DEF Tick, BeginTick, ReadRows, ReadForge, Adopt, EndSettle, PlanPool, EndPool, Admit,
          Settle, SettleWait, SettleRetire, SettleMove, SettleRefused, Settling, Sweep, Apply
<1> QED BY <1>1, <1>2, <1>3, <1>4 DEF Next, Activities

(* Nothing is held in memory, and nothing is under way, at first.          *)
LEMMA RecordInvStarts == Init => RecordInv
BY DEF Init, RecordInv, ObjectsMatchRows, HandsAreFree, SettlingIsOfKnown,
   LaunchesAreOnRecord, Activities, NoWork, NoRow, Unseen

(* The parts together, over every step.                                    *)
LEMMA RecordInvIsKept ==
  ASSUME OnePass, Operators = {}
  PROVE  PassInv /\ RoomInv /\ LaunchesNest /\ RecordInv /\ [Next]_vars => RecordInv'
<1> SUFFICES ASSUME PassInv, LaunchesNest, RecordInv, [Next]_vars
             PROVE  RecordInv'
  OBVIOUS
<1>1. CASE UNCHANGED vars
  <2>1. UNCHANGED <<row, ctr, pc, seen, work, todoR, prov>>
    BY <1>1 DEF vars, world, memory
  <2>2. ObjectsMatchRows' /\ HandsAreFree' /\ SettlingIsOfKnown'
    BY <2>1 DEF RecordInv, ObjectsMatchRows, HandsAreFree, SettlingIsOfKnown
  <2>3. LaunchesAreOnRecord'
    BY <2>1 DEF RecordInv, LaunchesAreOnRecord
  <2> QED BY <2>2, <2>3 DEF RecordInv
<1>2. CASE Next
  BY <1>2, HandsStayFree, ObjectsStayMatched, SettlingStaysOfKnown, LaunchesStayOnRecord
     DEF PassInv, RecordInv
<1> QED BY <1>1, <1>2

-----------------------------------------------------------------------------
(* Every step is one of a row's life.                                      *)

(* What runners, the forge and the daemon do by themselves leaves the rows *)
(* alone, and the clock and prune() do with a row only what the abstract   *)
(* life allows.                                                            *)
LEMMA WorldFollowsLifecycle ==
  ASSUME TypeOK, NEW r \in Runners, World(r)
  PROVE  [Lifecycle!LifecycleNext]_(Lifecycle!lifecycleVars)
<1>0. seen' = seen
  BY DEF World, Boot, TakeJob, FinishJob, Exit, Accident, Disconnect, Elapse, Prune, memory
<1>1. CASE Elapse(r)
  <2>1. StatusOf' = StatusOf /\ ctr' = ctr
    BY <1>1 DEF Elapse, StatusOf, TypeOK, Row
  <2>2. Backed' = Backed
    BY <1>0, <2>1 DEF Backed
  <2> QED BY <2>1, <2>2 DEF Lifecycle!lifecycleVars, StatusOf, Backed
<1>2. CASE Prune(r)
  <2>1. StatusOf' = [StatusOf EXCEPT ![r] = Absent] /\ ctr' = ctr
    BY <1>2 DEF Prune, StatusOf, TypeOK, NoRow
  <2>2. Backed' = Backed
    BY <1>0, <2>1 DEF Backed
  <2>3. StatusOf[r] \in TerminalStates
    BY <1>2 DEF Prune, IsTerminal, StatusOf
  <2>4. Absent = Lifecycle!Absent /\ TerminalStates = Lifecycle!TerminalStates
    BY DEF Absent, Lifecycle!Absent, TerminalStates, Lifecycle!TerminalStates
  <2>5. Lifecycle!Prune(r)
    BY <2>1, <2>2, <2>3, <2>4 DEF Lifecycle!Prune, StatusOf, Backed
  <2> QED BY <2>5 DEF Lifecycle!LifecycleNext
<1>3. CASE ~Elapse(r) /\ ~Prune(r)
  <2>1. row' = row
    BY <1>3 DEF World, Boot, TakeJob, FinishJob, Exit, Accident, Disconnect
  <2>2. \A q \in Runners : ctr[q] = "none" => ctr'[q] = "none"
    BY <1>3 DEF World, Boot, TakeJob, FinishJob, Exit, Accident, Disconnect, TypeOK
  <2>3. Backed' \subseteq Backed
    BY <1>0, <2>2 DEF Backed
  <2> QED BY <2>1, <2>3, QuietStep
<1> QED BY <1>1, <1>2, <1>3

(* A crash takes the memory of the process; it may take the database, all  *)
(* of it.                                                                  *)
LEMMA CrashFollowsLifecycle ==
  ASSUME Crash
  PROVE  [Lifecycle!LifecycleNext]_(Lifecycle!lifecycleVars)
<1>1. Backed' \subseteq Backed
  BY DEF Crash, Backed, Unseen
<1>2. CASE row' = row
  BY <1>1, <1>2, QuietStep
<1>3. CASE row' = NoWork
  <2>1. StatusOf' = [r \in Runners |-> Absent]
    BY <1>3 DEF StatusOf, NoWork, NoRow
  <2>2. Absent = Lifecycle!Absent
    BY DEF Absent, Lifecycle!Absent
  <2>3. Lifecycle!Wipe
    BY <1>1, <2>1, <2>2 DEF Lifecycle!Wipe, StatusOf, Backed
  <2> QED BY <2>3 DEF Lifecycle!LifecycleNext
<1> QED BY <1>2, <1>3 DEF Crash

(* Each await of RetireRunner takes its row one legal transition further,  *)
(* or leaves it.                                                           *)
LEMMA RetirementFollowsLifecycle ==
  ASSUME TypeOK, PassesNest, PlansAreHeeded, PlanningNests, ObjectsMatchRows,
         SettlingIsOfKnown, NEW t \in Tickers, RetireNext(t)
  PROVE  [Lifecycle!LifecycleNext]_(Lifecycle!lifecycleVars)
<1>0. t \in Activities
  BY DEF Activities
<1>1. CASE RetireSave(t)
  <2>1. PICK q \in Runners, w \in Row :
          /\ q = ret[t].runner
          /\ w.state = "retired" /\ MayMove(work[t][q].state, "retired")
          /\ row' = Saved(q, w) /\ ctr' = ctr /\ seen' = seen
    BY <1>1, RetirementsSave
  <2>2. q \in todoR[t]
    BY <1>1, <2>1 DEF RetireSave, PlanningNests
  <2>3. pc[t] \in {"settle", "apply"}
    BY <1>1 DEF RetireSave, PassesNest
  <2>4. work[t][q].state # Absent
    BY <2>2, <2>3 DEF SettlingIsOfKnown, PlansAreHeeded, OverranOrIdle, Absent
  <2>5. row[q].state = work[t][q].state
    BY <2>4 DEF ObjectsMatchRows
  <2>6. Backed' = Backed
    BY <2>1 DEF Backed
  <2> QED BY <2>1, <2>4, <2>5, <2>6, MovingStep DEF TypeOK
<1>2. CASE RetireRefused(t)
  <2>1. row' = row /\ ctr' = ctr /\ seen' = seen
    BY <1>2 DEF RetireRefused, world, PoolDropped
  <2> QED BY <2>1, QuietStep DEF Backed
<1>3. CASE Calls(t)
  <2>1. row' = row /\ seen' = seen
    BY <1>3 DEF Calls, RetireStop, RetireRemove, RetireDereg
  <2>2. \A q \in Runners : ctr[q] = "none" => ctr'[q] = "none"
    BY <1>3 DEF Calls, RetireStop, RetireRemove, RetireDereg, TypeOK
  <2> QED BY <2>1, <2>2, QuietStep DEF Backed
<1> QED BY <1>1, <1>2, <1>3 DEF RetireNext, Calls

(* A container that was seen stands behind every runner that is adopted.   *)
LEMMA AdoptionFollowsLifecycle ==
  ASSUME TypeOK, ActiveAreKnown, NEW t \in Tickers, Adopt(t)
  PROVE  [Lifecycle!LifecycleNext]_(Lifecycle!lifecycleVars)
<1>0. t \in Activities /\ pc[t] = "adopt" /\ ctr' = ctr /\ seen' = seen
  BY DEF Activities, Adopt
<1>1. PICK new : Adopts(t, new)
  BY AdoptionWrites
<1> DEFINE R == Unknown(t)
<1>2. row' = [r \in Runners |-> IF r \in R THEN new[r] ELSE row[r]]
  BY <1>1 DEF Adopts
<1>3. Backed' = Backed
  BY <1>0 DEF Backed
<1>4. R \in SUBSET Backed
  BY <1>0 DEF Unknown, Backed
<1>5. \A r \in R : StatusOf[r] \notin ActiveStates
  BY <1>0, ActiveIsLive DEF Unknown, ActiveAreKnown, StatusOf, IsActive, Judging
<1> DEFINE s == [r \in R |-> new[r].state]
<1>6. s \in [R -> {"idle", "failed"}]
  BY <1>1 DEF Adopts
<1>7. StatusOf' = [r \in Runners |-> IF r \in R THEN s[r] ELSE StatusOf[r]]
  <2>1. \A r \in Runners : StatusOf'[r] = IF r \in R THEN s[r] ELSE StatusOf[r]
    BY <1>2 DEF StatusOf
  <2> QED BY <2>1 DEF StatusOf
<1>8. CASE R = {}
  <2>1. StatusOf' = StatusOf
    BY <1>7, <1>8 DEF StatusOf
  <2> QED BY <1>3, <2>1 DEF Lifecycle!lifecycleVars, StatusOf, Backed
<1>9. CASE R # {}
  <2> HIDE DEF R, s
  <2>1. ActiveStates = Lifecycle!ActiveStates
    BY DEF ActiveStates, Lifecycle!ActiveStates
  <2>2. Lifecycle!Adopt
    BY <1>3, <1>4, <1>5, <1>6, <1>7, <1>9, <2>1 DEF Lifecycle!Adopt, StatusOf, Backed
  <2> QED BY <2>2 DEF Lifecycle!LifecycleNext
<1> QED BY <1>8, <1>9

(* Each await of ProvisionRunner does, too.                                *)
LEMMA ProvisioningFollowsLifecycle ==
  ASSUME TypeOK, LaunchesAreOnRecord, NEW t \in Tickers, NEW r \in Runners, Provision(t, r)
  PROVE  [Lifecycle!LifecycleNext]_(Lifecycle!lifecycleVars)
<1>1. seen' = seen
  BY DEF Provision, SavePending, Mint, SaveRegistered, CreateContainer, SaveStarting,
     Abandon, SaveFailed, provMemory
<1>2. CASE SavePending(t, r)
  <2>1. prov[r] = "new" /\ ctr' = ctr /\ row' = Saved(r, [NoRow EXCEPT !.state = "pending"])
    BY <1>2 DEF SavePending, Step
  <2>2. /\ row[r].state = Absent
        /\ ctr[r] = "none" /\ \A u \in Activities : seen[u][r] = "none"
    BY <2>1 DEF LaunchesAreOnRecord, RecordOf
  <2>3. StatusOf' = [StatusOf EXCEPT ![r] = "pending"]
    BY <2>1 DEF StatusOf, Saved, NoRow, TypeOK
  <2>4. Backed' = Backed /\ r \notin Backed /\ StatusOf[r] = Absent
    BY <1>1, <2>1, <2>2 DEF Backed, StatusOf
  <2>5. Absent = Lifecycle!Absent
    BY DEF Absent, Lifecycle!Absent
  <2>6. Lifecycle!Create(r)
    BY <2>3, <2>4, <2>5 DEF Lifecycle!Create, StatusOf, Backed
  <2> QED BY <2>6 DEF Lifecycle!LifecycleNext
<1>3. ASSUME NEW w \in Row, row' = Saved(r, w), ctr' = ctr, row[r].state # Absent,
             MayMove(row[r].state, w.state)
      PROVE  [Lifecycle!LifecycleNext]_(Lifecycle!lifecycleVars)
  <2>1. Backed' = Backed
    BY <1>1, <1>3 DEF Backed
  <2> QED BY <1>3, <2>1, MovingStep DEF TypeOK
<1>4. CASE SaveRegistered(t, r)
  <2>1. prov[r] = "minted" /\ ctr' = ctr /\ row' = Saved(r, Registered)
    BY <1>4 DEF SaveRegistered, Step
  <2>2. row[r].state = "pending"
    BY <2>1 DEF LaunchesAreOnRecord, RecordOf
  <2>3. Registered \in Row /\ Registered.state = "registered"
    BY DEF Registered, Row, RunnerState
  <2>4. MayMove("pending", "registered") /\ "pending" # Absent
    BY DEF MayMove, Transitions, Absent
  <2> QED BY <1>3, <2>1, <2>2, <2>3, <2>4
<1>5. CASE SaveStarting(t, r)
  <2> DEFINE w == [Registered EXCEPT !.state = "starting", !.cid = TRUE]
  <2>1. prov[r] = "created" /\ ctr' = ctr /\ row' = Saved(r, w)
    BY <1>5 DEF SaveStarting, Step
  <2>2. row[r].state = "registered"
    BY <2>1 DEF LaunchesAreOnRecord, RecordOf
  <2>3. w \in Row /\ w.state = "starting"
    BY DEF Registered, Row, RunnerState
  <2>4. MayMove("registered", "starting") /\ "registered" # Absent
    BY DEF MayMove, Transitions, Absent
  <2> HIDE DEF w
  <2> QED BY <1>3, <2>1, <2>2, <2>3, <2>4
<1>6. CASE SaveFailed(t, r)
  <2> DEFINE w == [Registered EXCEPT !.state = "failed"]
  <2>1. prov[r] = "failing" /\ ctr' = ctr /\ row' = Saved(r, w)
    BY <1>6 DEF SaveFailed, Step
  <2>2. row[r].state = "registered"
    BY <2>1 DEF LaunchesAreOnRecord, RecordOf
  <2>3. w \in Row /\ w.state = "failed"
    BY DEF Registered, Row, RunnerState
  <2>4. MayMove("registered", "failed") /\ "registered" # Absent
    BY DEF MayMove, Transitions, Absent
  <2> HIDE DEF w
  <2> QED BY <1>3, <2>1, <2>2, <2>3, <2>4
<1>7. CASE CreateContainer(t, r)
  <2>1. prov[r] = "registered" /\ row' = row
    BY <1>7 DEF CreateContainer, Step
  <2>2. PICK c : ctr' = [ctr EXCEPT ![r] = c]
    BY <1>7 DEF CreateContainer
  <2>3. /\ row[r].state = "registered"
        /\ ctr[r] = "none" /\ \A u \in Activities : seen[u][r] = "none"
    BY <2>1 DEF LaunchesAreOnRecord, RecordOf
  <2>4. CASE c = "none"
    <3>1. ctr' = ctr
      BY <2>2, <2>3, <2>4 DEF TypeOK
    <3> QED BY <1>1, <2>1, <3>1, QuietStep DEF Backed
  <2>5. CASE c # "none"
    <3>1. Backed' = Backed \cup {r}
      BY <1>1, <2>2, <2>5 DEF Backed, TypeOK
    <3>2. r \notin Backed /\ StatusOf[r] = "registered" /\ StatusOf' = StatusOf
      BY <2>1, <2>3 DEF Backed, StatusOf
    <3>3. Lifecycle!Back(r)
      BY <3>1, <3>2 DEF Lifecycle!Back, StatusOf, Backed
    <3> QED BY <3>3 DEF Lifecycle!LifecycleNext
  <2> QED BY <2>4, <2>5
<1>8. CASE Mint(t, r) \/ Abandon(t, r)
  <2>1. row' = row /\ ctr' = ctr
    BY <1>8 DEF Mint, Abandon
  <2> QED BY <1>1, <2>1, QuietStep DEF Backed
<1> QED BY <1>2, <1>4, <1>5, <1>6, <1>7, <1>8 DEF Provision

(* What a pass does itself: an adoption is a birth, a move is what apply() *)
(* allows.                                                                 *)
LEMMA TickFollowsLifecycle ==
  ASSUME TypeOK, PassesNest, ActiveAreKnown, ObjectsMatchRows, SettlingIsOfKnown,
         LaunchesAreOnRecord, OnePass, Operators = {}, NEW t \in Tickers, Tick(t)
  PROVE  [Lifecycle!LifecycleNext]_(Lifecycle!lifecycleVars)
<1>0. t \in Activities /\ \A u \in Activities : u = t
  BY DEF Activities, OnePass
<1>1. CASE BeginTick(t)
  <2>1. row' = row /\ ctr' = ctr
    BY <1>1 DEF BeginTick
  <2>2. seen' = seen \/ seen' = [seen EXCEPT ![t] = ctr]
    BY <1>1 DEF BeginTick
  <2>3. \A r \in Runners, u \in Activities :
          seen'[u][r] # "none" => seen[u][r] # "none" \/ ctr[r] # "none"
    BY <1>0, <2>2 DEF TypeOK
  <2>4. Backed' \subseteq Backed
    BY <2>1, <2>3 DEF Backed
  <2> QED BY <2>1, <2>4, QuietStep
<1>2. CASE Adopt(t)
  BY <1>2, AdoptionFollowsLifecycle
<1>3. CASE Admit(t)
  <2>1. row' = row /\ ctr' = ctr /\ seen' = [seen EXCEPT ![t] = Unseen]
    BY <1>3 DEF Admit
  <2>2. \A r \in Runners, u \in Activities : seen'[u][r] # "none" => seen[u][r] # "none"
    BY <1>0, <2>1 DEF TypeOK, Unseen
  <2> QED BY <2>1, <2>2, QuietStep DEF Backed
<1>4. ASSUME NEW r \in Runners, SettleMove(t, r)
      PROVE  [Lifecycle!LifecycleNext]_(Lifecycle!lifecycleVars)
  <2>1. /\ pc[t] = "settle" /\ r \in todoR[t] /\ ctr' = ctr /\ seen' = seen
        /\ \E w \in Row : MayMove(work[t][r].state, w.state) /\ row' = Saved(r, w)
    BY <1>4, MovesSave
  <2>2. work[t][r].state # Absent /\ row[r].state = work[t][r].state
    BY <2>1 DEF SettlingIsOfKnown, ObjectsMatchRows
  <2>3. Backed' = Backed
    BY <2>1 DEF Backed
  <2> QED BY <2>1, <2>2, <2>3, MovingStep DEF TypeOK
<1>5. CASE \E r \in Runners : Provision(t, r)
  BY <1>5, ProvisioningFollowsLifecycle
<1>6. ASSUME UNCHANGED <<row, ctr, seen>>
      PROVE  [Lifecycle!LifecycleNext]_(Lifecycle!lifecycleVars)
  BY <1>6, QuietStep DEF Backed
<1>7. CASE \/ ReadForge(t) \/ EndSettle(t) \/ PlanPool(t) \/ EndPool(t) \/ EndTick(t)
           \/ \E p \in Pools : ReadRows(t, p) \/ LaunchPool(t, p)
  BY <1>6, <1>7 DEF ReadForge, PoolDropped, EndSettle, PlanPool, EndPool, EndTick, ReadRows,
     LaunchPool, world
<1>8. CASE \E r \in Runners : \/ SettleWait(t, r) \/ SettleRetire(t, r) \/ SettleRefused(t, r)
                              \/ Sweep(t, r) \/ Apply(t, r)
  BY <1>6, <1>8 DEF SettleWait, SettleRetire, SettleRefused, Sweep, Apply, PoolDropped, world
<1> QED BY <1>1, <1>2, <1>3, <1>4, <1>5, <1>7, <1>8 DEF Tick, Settle

(* Every step of the fleet is a step of the abstract life, or none.        *)
LEMMA StepFollowsLifecycle ==
  ASSUME OnePass, Operators = {}
  PROVE  PassInv /\ RoomInv /\ RecordInv /\ [Next]_vars
           => [Lifecycle!LifecycleNext]_(Lifecycle!lifecycleVars)
<1> SUFFICES ASSUME PassInv, RoomInv, RecordInv, [Next]_vars
             PROVE  [Lifecycle!LifecycleNext]_(Lifecycle!lifecycleVars)
  OBVIOUS
<1> USE DEF PassInv, RoomInv, RecordInv
<1>1. CASE UNCHANGED vars
  BY <1>1, QuietStep DEF vars, world, memory, Backed
<1>2. CASE \E r \in Runners : World(r)
  BY <1>2, WorldFollowsLifecycle
<1>3. CASE \E p \in Pools : Arrive(p)
  BY <1>3, QuietStep DEF Arrive, memory, Backed
<1>4. CASE Crash
  BY <1>4, CrashFollowsLifecycle
<1>5. CASE \E t \in Tickers : RetireNext(t) \/ Tick(t)
  BY <1>5, RetirementFollowsLifecycle, TickFollowsLifecycle
<1> QED BY <1>1, <1>2, <1>3, <1>4, <1>5 DEF Next, Activities

(* The row of every runner lives the life the store promises its readers,  *)
(* for any number of runners and pools, whatever fails and wherever the    *)
(* process is killed: created pending, moved along the transition table,   *)
(* brought back only for a container that is there.  The daemon is the     *)
(* only writer here; with an operator retiring by hand, a save out of date *)
(* can be written in between (OnlyStaleSavesReopen, in Journal).           *)
THEOREM RowsAlwaysFollowLifecycle ==
  ASSUME OnePass, Operators = {}
  PROVE  Spec => RowsFollowLifecycle
<1> DEFINE Inv == PassInv /\ RoomInv /\ LaunchesNest /\ RecordInv
<1>1. Init => Inv
  BY PassInvStarts, RoomInvStarts, SweepInvStarts, RecordInvStarts DEF SweepInv
<1>2. Inv /\ [Next]_vars => Inv'
  <2>1. PassInv /\ LaunchesNest /\ [Next]_vars => LaunchesNest'
    <3>1. LaunchesNest /\ UNCHANGED vars => LaunchesNest'
      BY DEF vars, memory, LaunchesNest
    <3> QED BY <3>1, LaunchesStayNested DEF PassInv
  <2> QED BY <2>1, PassInvIsKept, RoomInvIsKept, RecordInvIsKept
<1>3. Init => Lifecycle!LifecycleInit
  <2>1. Absent = Lifecycle!Absent
    BY DEF Absent, Lifecycle!Absent
  <2> QED BY <2>1 DEF Init, Lifecycle!LifecycleInit, NoWork, NoRow, Unseen
<1>4. Inv /\ [Next]_vars => [Lifecycle!LifecycleNext]_(Lifecycle!lifecycleVars)
  BY StepFollowsLifecycle
<1> QED BY <1>1, <1>2, <1>3, <1>4, PTL DEF Spec, RowsFollowLifecycle, Lifecycle!LifecycleSpec

-----------------------------------------------------------------------------
(***************************************************************************)
(* The host's ceiling.  While nothing fails no pool is given up, so that   *)
(* whatever is up is known to the pass and counted, pool by pool.          *)
(***************************************************************************)

(* Whoever has a row that counts, a container that runs or a launch under  *)
(* way is on the host.                                                     *)
OnHost(r) == IsActive(row[r]) \/ ctr[r] = "running" \/ prov[r] # "none"

(* A pool's runners on the host.                                           *)
Present(p) == {r \in Runners : PoolOf[r] = p /\ OnHost(r)}

(* Whom a pool's runners are, or may yet be taken for by the pass that is  *)
(* to come to the pool or is at it.                                        *)
MayCount(t, p, r) ==
  \/ OnHost(r)
  \/ p = cur[t] /\ IsActive(work[t][r])
  \/ /\ pc[t] \in Observing /\ seen[t][r] = "running"
     /\ p \in todo[t] \/ (p = cur[t] /\ pc[t] \in {"forge", "adopt"})

(* They are what max_runners is to hold for.                               *)
Counted(t, p) == {r \in Runners : PoolOf[r] = p /\ MayCount(t, p, r)}

(* A runner that has had its job has had its only one.                     *)
Spent(r) ==
  prov[r] = "none" /\ (reg[r] \in {"busy", "none"} \/ (reg[r] = "offline" /\ ctr[r] # "running"))

(* Unless a call failed, a row that no launch is at is past its launch.    *)
Settled == {"starting", "idle", "busy"}

RowsAreWhole ==
  \A r \in Runners :
    /\ row[r].state \in {Absent, "retired", "failed"} \cup Settled \/ prov[r] # "none"
    /\ row[r].state \in Settled => row[r].cid

(* ... and so is an object.  A failed one was adopted a moment ago; what   *)
(* is retired is done with.                                                *)
IsWhole(t, r) ==
  /\ work[t][r].state \in {Absent, "retired", "failed"} \cup Settled
  /\ work[t][r].state \in {"failed"} \cup Settled => work[t][r].cid
  /\ work[t][r].state = "failed"
       => pc[t] = "settle" /\ r \in todoR[t] /\ seen[t][r] # "running"
  /\ work[t][r].state = "retired"
       => pc[t] \in {"sweep", "apply"} \/ (pc[t] = "settle" /\ r \notin todoR[t])
  /\ work[t][r].state # Absent => PoolOf[r] = cur[t]

(* All objects are.                                                        *)
ObjectsAreWhole == \A t \in Tickers, r \in Runners : IsWhole(t, r)

(* docker run has started what it created, and was seen to.                *)
ContainersStart ==
  \A r \in Runners : ctr[r] # "created" /\ \A t \in Tickers : seen[t][r] # "created"

(* Who is recorded, held or listed as busy has had its job, and whoever is *)
(* held as busy is not listed as waiting for one.                          *)
BusyAreSpent ==
  /\ \A r \in Runners : row[r].state = "busy" => Spent(r)
  /\ \A t \in Tickers, r \in Runners :
       /\ work[t][r].state = "busy" => Spent(r)
       /\ pc[t] \in Judging /\ listed[t][r] = "busy" => Spent(r)
       /\ pc[t] \in Judging /\ work[t][r].state = "busy" => listed[t][r] # "online"

(* From the settling on, each running container of the pool has an active  *)
(* object: it was listed, and none was given up.                           *)
RunningAreKnown ==
  \A t \in Tickers, r \in Runners :
    /\ pc[t] \in {"settle", "sweep", "apply"}
    /\ PoolOf[r] = cur[t] /\ ctr[r] = "running"
    => IsActive(work[t][r])

(* A retirement past its stop has stopped its container.                   *)
RetiredAreDown ==
  \A t \in Tickers :
    ret[t].step \in {"remove", "dereg", "save"} => ctr[ret[t].runner] # "running"

(* Every pool fits, as the pass counts it or may yet count it.             *)
PoolsFit ==
  \A t \in Tickers, p \in Pools : Cardinality(Counted(t, p)) <= PoolSpec[p].max_runners

(* What a planned pool is still to launch fits beside all it has up.       *)
RoomIsKept ==
  \A t \in Tickers, p \in Pools :
    want[t][p] > 0 /\ ~(pc[t] = "apply" /\ p = cur[t])
      => want[t][p] + Cardinality(Present(p)) <= PoolSpec[p].max_runners

(* A pool that was planned has no more up than was counted for it.         *)
PlannedAreHeld ==
  \A t \in Tickers, p \in Pools :
    pc[t] \in Observing /\ p \notin todo[t] /\ p # cur[t]
      => Cardinality(Present(p)) <= held[t][p]

(* What was granted fits the host beside all that it has up.               *)
HostFits ==
  \A t \in Tickers :
    pc[t] = "launch" /\ Total(want[t]) > 0
      => Total(want[t]) + Cardinality({r \in Runners : OnHost(r)}) <= MaxContainers

(* All of this, as long as nothing has failed.                             *)
SmoothInv ==
  /\ RowsAreWhole /\ ObjectsAreWhole /\ ContainersStart /\ BusyAreSpent
  /\ RunningAreKnown /\ RetiredAreDown
  /\ PoolsFit /\ RoomIsKept /\ PlannedAreHeld /\ HostFits

-----------------------------------------------------------------------------
(* A step in which nothing fails.                                          *)

(* Failures are counted.                                                   *)
LEMMA NothingFails ==
  ASSUME TypeOK, faults' = 0
  PROVE  ~Fails
BY FleetAssumption DEF Fails, TypeOK

(* The pass has gone one step further, and given nothing up.               *)
SmoothStep(t) ==
  \/ Aside(t)
  \/ BeginTick(t) /\ Works
  \/ EndPool(t) \/ Admit(t) \/ EndTick(t) \/ \E p \in Pools : LaunchPool(t, p)
  \/ \E r \in Runners : Provision(t, r)
  \/ pc'[t] = "forge" /\ \E p \in Pools : ReadRows(t, p)
  \/ pc'[t] = "adopt" /\ ReadForge(t)
  \/ pc'[t] = "settle" /\ Adopt(t)
  \/ pc'[t] = "settle" /\ \E r \in Runners : SettleRetire(t, r) \/ SettleMove(t, r)
  \/ pc'[t] = "sweep" /\ (EndSettle(t) \/ \E r \in Runners : Sweep(t, r))
  \/ pc'[t] = "apply" /\ (PlanPool(t) \/ \E r \in Runners : Apply(t, r))
  \/ pc'[t] = pc[t] /\ (Calls(t) \/ RetireSave(t))

(* What a pass may have in hand while it settles.                          *)
LEMMA InHand ==
  ASSUME TypeOK, SettlingIsOfKnown, ObjectsAreWhole, ContainersStart,
         NEW t \in Tickers, NEW r \in Runners, pc[t] = "settle", r \in todoR[t]
  PROVE  /\ work[t][r].state \in {"failed"} \cup Settled
         /\ work[t][r].cid
         /\ work[t][r].state = "failed" => seen[t][r] \in {"none", "exited"}
<1>1. work[t][r].state # Absent
  BY DEF SettlingIsOfKnown
<1>2. t \in Activities /\ seen[t][r] \in ContainerState
  BY DEF TypeOK, Activities
<1> QED BY <1>1, <1>2 DEF ObjectsAreWhole, IsWhole, ContainersStart, ContainerState

(* What is decided of it, and that it may be.                              *)
LEMMA VerdictsAreHeeded ==
  ASSUME TypeOK, SettlingIsOfKnown, ObjectsAreWhole, ContainersStart, BusyAreSpent,
         NEW t \in Tickers, NEW r \in Runners, pc[t] = "settle", r \in todoR[t]
  PROVE  /\ VerdictOn(t, r) # "wait"
         /\ VerdictOn(t, r) # "retire"
              => /\ MayMove(work[t][r].state, VerdictOn(t, r))
                 /\ VerdictOn(t, r) \in Settled /\ work[t][r].state \in Settled
                 /\ VerdictOn(t, r) = "busy"
                      => work[t][r].state = "busy" \/ listed[t][r] = "busy"
                 /\ VerdictOn(t, r) = "busy" => listed[t][r] # "online"
<1> DEFINE w == work[t][r]
           c == seen[t][r]
           l == listed[t][r]
<1>0. /\ c \in ContainerState /\ l \in RegState /\ w \in Row
  BY DEF TypeOK, Activities
<1>1. /\ w.state \in {"failed"} \cup Settled
      /\ w.state = "failed" => c \in {"none", "exited"}
  BY InHand
<1>2. w.state = "busy" => l # "online"
  BY DEF BusyAreSpent, Judging
<1> HIDE DEF w, c, l
<1>3. w.state \notin {"registered", "pending"}
  BY <1>1 DEF Settled
<1>4. CASE c \in {"none", "exited"}
  <2>1. Verdict(w, c, l) = "retire"
    BY <1>3, <1>4 DEF Verdict
  <2> QED BY <2>1 DEF VerdictOn, w, c, l
<1>5. CASE c \notin {"none", "exited"}
  <2>1. \/ Verdict(w, c, l) = "retire"
        \/ l = "busy" /\ Verdict(w, c, l) = "busy"
        \/ l = "online" /\ Verdict(w, c, l) = "idle"
        \/ l = "offline" /\ Verdict(w, c, l) = w.state
    BY <1>0, <1>3, <1>5 DEF Verdict, RegState
  <2>2. w.state \in Settled
    BY <1>1, <1>5
  <2>3. CASE Verdict(w, c, l) = "retire"
    BY <2>3 DEF VerdictOn, w, c, l
  <2>4. CASE l = "busy" /\ Verdict(w, c, l) = "busy"
    <3>1. MayMove(w.state, "busy")
      BY <2>2 DEF MayMove, Transitions, Settled
    <3> QED BY <2>2, <2>4, <3>1 DEF VerdictOn, Settled, w, c, l
  <2>5. CASE l = "online" /\ Verdict(w, c, l) = "idle"
    <3>1. MayMove(w.state, "idle")
      BY <1>2, <2>2, <2>5 DEF MayMove, Transitions, Settled
    <3> QED BY <2>2, <2>5, <3>1 DEF VerdictOn, Settled, w, c, l
  <2>6. CASE l = "offline" /\ Verdict(w, c, l) = w.state
    <3>1. MayMove(w.state, w.state)
      BY DEF MayMove
    <3> QED BY <2>2, <2>6, <3>1 DEF VerdictOn, Settled, w, c, l
  <2> QED BY <2>1, <2>3, <2>4, <2>5, <2>6
<1> QED BY <1>4, <1>5

(* The pool has room for those it already has.                             *)
LEMMA EverybodyFits ==
  ASSUME TypeOK, PassesNest, ObjectsAreWhole, PoolsFit,
         NEW t \in Tickers, NEW r \in Runners, NEW w,
         pc[t] = "settle", r \in todoR[t], IsActive(work[t][r])
  PROVE  Fits(t, w)
<1> DEFINE A == {q \in Admitted(t) : IsActive(work[t][q])}
           C == Counted(t, cur[t])
<1>1. cur[t] \in Pools
  BY DEF PassesNest, Judging
<1>2. A \subseteq C \ {r} /\ r \in C
  <2>1. \A q \in Runners : IsActive(work[t][q]) => PoolOf[q] = cur[t]
    BY ActiveIsLive DEF ObjectsAreWhole, IsWhole
  <2> QED BY <2>1 DEF Admitted, Counted, MayCount
<1>3. IsFiniteSet(C) /\ Cardinality(C) <= PoolSpec[cur[t]].max_runners
  BY <1>1, FleetAssumption, FS_Subset DEF Counted, PoolsFit
<1>4. IsFiniteSet(C \ {r}) /\ Cardinality(C \ {r}) = Cardinality(C) - 1
      /\ Cardinality(C) \in Nat
  BY <1>2, <1>3, FS_RemoveElement, FS_CardinalityType
<1>5. Cardinality(A) <= Cardinality(C \ {r}) /\ Cardinality(A) \in Nat
  BY <1>2, <1>4, FS_Subset, FS_CardinalityType
<1>6. PoolSpec[cur[t]].max_runners \in Nat
  BY <1>1, FleetAssumption DEF IsPoolSpec
<1>7. Cardinality(A) < PoolSpec[cur[t]].max_runners
  BY <1>3, <1>4, <1>5, <1>6
<1> QED BY <1>7 DEF Fits

(* While nothing fails, nothing is given up.                               *)
LEMMA NothingIsGivenUp ==
  ASSUME PassInv, PlanningNests, SettlingIsOfKnown, ObjectsAreWhole, ContainersStart,
         BusyAreSpent, PoolsFit, OnePass, NEW t \in Tickers, Next, faults' = 0
  PROVE  SmoothStep(t)
<1>0. TypeOK /\ PassesNest /\ PlansAreHeeded /\ t \in Activities
  BY DEF PassInv, Activities
<1>1. ~Fails
  BY <1>0, NothingFails
<1>2. ~Crash
  BY <1>1 DEF Crash
<1>3. CASE RetireNext(t)
  <2>1. pc[t] \in {"settle", "apply"} /\ ret[t].step # "none"
    BY <1>0, <1>3, RetirementsAreInside
  <2>2. ret[t].runner \in todoR[t] /\ ret[t].runner \in Runners
    BY <1>0, <2>1 DEF PlanningNests, TypeOK
  <2>3. ~RetireRefused(t)
    <3>1. CASE pc[t] = "apply"
      BY <1>0, <3>1, PlansAreNotRefused
    <3>2. CASE pc[t] = "settle"
      <4>1. work[t][ret[t].runner].state \in {"failed"} \cup Settled
        BY <1>0, <2>2, <3>2, InHand
      <4>2. MayMove(work[t][ret[t].runner].state, "retired")
        BY <4>1 DEF MayMove, Transitions, Settled
      <4> QED BY <4>2 DEF RetireRefused
    <3> QED BY <2>1, <3>1, <3>2
  <2>4. ASSUME RetireSave(t) PROVE pc' = pc
    BY <1>0, <2>4, RetirementsSave
  <2>5. ASSUME Calls(t) PROVE pc' = pc
    BY <2>5 DEF Calls, RetireStop, RetireRemove, RetireDereg
  <2> QED BY <1>3, <2>3, <2>4, <2>5 DEF RetireNext, Calls, SmoothStep
<1>4. CASE Tick(t)
  <2>1. CASE BeginTick(t)
    BY <1>1, <2>1 DEF BeginTick, SmoothStep
  <2>2. CASE EndPool(t) \/ Admit(t) \/ EndTick(t)
    BY <2>2 DEF SmoothStep
  <2>3. ASSUME NEW p \in Pools, LaunchPool(t, p) PROVE SmoothStep(t)
    BY <2>3 DEF SmoothStep
  <2>4. ASSUME NEW r \in Runners, Provision(t, r) PROVE SmoothStep(t)
    BY <2>4 DEF SmoothStep
  <2>5. ASSUME NEW p \in Pools, ReadRows(t, p) PROVE SmoothStep(t)
    <3>1. pc'[t] = "forge"
      BY <1>0, <1>1, <2>5 DEF ReadRows, TypeOK
    <3> QED BY <2>5, <3>1 DEF SmoothStep
  <2>6. CASE ReadForge(t)
    <3>1. pc'[t] = "adopt"
      BY <1>0, <1>1, <2>6 DEF ReadForge, TypeOK
    <3> QED BY <2>6, <3>1 DEF SmoothStep
  <2>7. CASE Adopt(t) \/ EndSettle(t) \/ PlanPool(t)
    <3>1. \/ Adopt(t) /\ pc'[t] = "settle"
          \/ EndSettle(t) /\ pc'[t] = "sweep"
          \/ PlanPool(t) /\ pc'[t] = "apply"
      BY <1>0, <2>7 DEF Adopt, EndSettle, PlanPool, TypeOK
    <3> QED BY <3>1 DEF SmoothStep
  <2>8. ASSUME NEW r \in Runners, Sweep(t, r) \/ Apply(t, r) PROVE SmoothStep(t)
    <3>1. \/ Sweep(t, r) /\ pc'[t] = "sweep"
          \/ Apply(t, r) /\ pc'[t] = "apply"
      BY <2>8 DEF Sweep, Apply
    <3> QED BY <3>1 DEF SmoothStep
  <2>9. ASSUME NEW r \in Runners, Settle(t, r) PROVE SmoothStep(t)
    <3>1. pc[t] = "settle" /\ r \in todoR[t]
      BY <2>9 DEF Settle, SettleWait, SettleRetire, SettleMove, SettleRefused, Settling
    <3>2. /\ VerdictOn(t, r) # "wait"
          /\ VerdictOn(t, r) # "retire"
               => MayMove(work[t][r].state, VerdictOn(t, r)) /\ work[t][r].state \in Settled
      BY <1>0, <3>1, VerdictsAreHeeded
    <3>3. CASE SettleRetire(t, r)
      <4>1. pc'[t] = "settle"
        BY <3>1, <3>3 DEF SettleRetire
      <4> QED BY <3>3, <4>1 DEF SmoothStep
    <3>4. CASE SettleMove(t, r)
      <4>1. IsActive(work[t][r])
        BY <3>2, <3>4 DEF SettleMove, Settled, IsActive, ActiveStates
      <4>2. Fits(t, MovedTo(work[t][r], VerdictOn(t, r)))
        BY <1>0, <3>1, <4>1, EverybodyFits
      <4>3. pc'[t] = "settle"
        BY <3>1, <3>4, <4>2 DEF SettleMove
      <4> QED BY <3>4, <4>3 DEF SmoothStep
    <3> QED BY <2>9, <3>2, <3>3, <3>4 DEF Settle, SettleWait, SettleRefused
  <2> QED BY <1>4, <2>1, <2>2, <2>3, <2>4, <2>5, <2>6, <2>7, <2>8, <2>9 DEF Tick
<1>5. CASE Aside(t)
  BY <1>5 DEF SmoothStep
<1> QED BY <1>0, <1>2, <1>3, <1>4, <1>5, StepsAreOwn

-----------------------------------------------------------------------------
(* What a step does to one runner.                                         *)

(* A launch begins with a fresh runner of the pool that is launched ...    *)
LEMMA LaunchesBegin ==
  ASSUME TypeOK, OnePass, NEW t \in Tickers, NEW r \in Runners, Next,
         prov[r] = "none", prov'[r] # "none"
  PROVE  LaunchPool(t, PoolOf[r]) /\ Fresh(r)
<1>0. \A u \in Tickers : u = t
  BY DEF OnePass
<1>1. CASE Crash
  BY <1>1 DEF Crash
<1>2. CASE Aside(t)
  BY <1>2 DEF Aside
<1>3. CASE RetireNext(t)
  BY <1>3 DEF RetireNext, RetireStop, RetireRemove, RetireDereg, RetireSave, RetireRefused,
     PoolDropped
<1>4. CASE Tick(t)
  <2>1. ASSUME NEW p \in Pools, LaunchPool(t, p) PROVE LaunchPool(t, PoolOf[r]) /\ Fresh(r)
    <3>1. PICK R \in SUBSET {q \in Runners : PoolOf[q] = p /\ Fresh(q)} :
            prov' = [q \in Runners |-> IF q \in R THEN "new" ELSE prov[q]]
      BY <2>1 DEF LaunchPool
    <3>2. r \in R
      BY <3>1
    <3> QED BY <2>1, <3>2
  <2>2. ASSUME NEW q \in Runners, Provision(t, q) PROVE FALSE
    <3>1. prov[q] # "none"
      BY <2>2 DEF Provision, SavePending, Mint, SaveRegistered, CreateContainer,
         SaveStarting, Abandon, SaveFailed, Step
    <3> QED BY <2>2, <3>1, ProvisioningIsOfOne
  <2>3. CASE \/ BeginTick(t) \/ ReadForge(t) \/ Adopt(t) \/ EndSettle(t) \/ PlanPool(t)
             \/ EndPool(t) \/ Admit(t) \/ EndTick(t) \/ \E p \in Pools : ReadRows(t, p)
    BY <2>3 DEF BeginTick, ReadForge, Adopt, EndSettle, PlanPool, EndPool, Admit, EndTick,
       ReadRows, PoolDropped
  <2>4. CASE \E q \in Runners : Settle(t, q) \/ Sweep(t, q) \/ Apply(t, q)
    BY <2>4 DEF Settle, SettleWait, SettleRetire, SettleMove, SettleRefused, Sweep, Apply,
       PoolDropped
  <2> QED BY <1>4, <2>1, <2>2, <2>3, <2>4 DEF Tick
<1> QED BY <1>1, <1>2, <1>3, <1>4, StepsAreOwn

(* ... goes on with its own steps, and ends with its last.                 *)
LEMMA LaunchesEnd ==
  ASSUME TypeOK, OnePass, NEW t \in Tickers, NEW r \in Runners, Next, faults' = 0,
         prov[r] # "none"
  PROVE  \/ prov'[r] # "none"
         \/ SaveStarting(t, r) \/ SaveFailed(t, r)
<1>1. ~Fails
  BY NothingFails
<1>2. ~Crash
  BY <1>1 DEF Crash
<1>3. CASE Aside(t)
  BY <1>3 DEF Aside
<1>4. CASE RetireNext(t)
  BY <1>4 DEF RetireNext, RetireStop, RetireRemove, RetireDereg, RetireSave, RetireRefused,
     PoolDropped
<1>5. CASE Tick(t)
  <2>1. ASSUME NEW p \in Pools, LaunchPool(t, p) PROVE prov'[r] # "none"
    BY <2>1 DEF LaunchPool
  <2>2. ASSUME NEW q \in Runners, Provision(t, q), q # r PROVE prov'[r] # "none"
    BY <2>2, ProvisioningIsOfOne
  <2>3. ASSUME Provision(t, r)
        PROVE  prov'[r] # "none" \/ SaveStarting(t, r) \/ SaveFailed(t, r)
    BY <1>1, <2>3 DEF Provision, SavePending, Mint, SaveRegistered, CreateContainer,
       Abandon, Step, TypeOK
  <2>4. CASE \/ BeginTick(t) \/ ReadForge(t) \/ Adopt(t) \/ EndSettle(t) \/ PlanPool(t)
             \/ EndPool(t) \/ Admit(t) \/ EndTick(t) \/ \E p \in Pools : ReadRows(t, p)
    BY <2>4 DEF BeginTick, ReadForge, Adopt, EndSettle, PlanPool, EndPool, Admit, EndTick,
       ReadRows, PoolDropped
  <2>5. CASE \E q \in Runners : Settle(t, q) \/ Sweep(t, q) \/ Apply(t, q)
    BY <2>5 DEF Settle, SettleWait, SettleRetire, SettleMove, SettleRefused, Sweep, Apply,
       PoolDropped
  <2> QED BY <1>5, <2>1, <2>2, <2>3, <2>4, <2>5 DEF Tick
<1> QED BY <1>2, <1>3, <1>4, <1>5, StepsAreOwn

(* A container comes up started, and for a launch.                         *)
LEMMA ContainersComeUp ==
  ASSUME TypeOK, OnePass, NEW t \in Tickers, NEW r \in Runners, Next, faults' = 0
  PROVE  /\ ctr'[r] = "created" => ctr[r] = "created"
         /\ ctr'[r] = "running" => ctr[r] = "running" \/ (prov[r] # "none" /\ prov'[r] # "none")
<1> DEFINE Goal ==
      /\ ctr'[r] = "created" => ctr[r] = "created"
      /\ ctr'[r] = "running" => ctr[r] = "running" \/ (prov[r] # "none" /\ prov'[r] # "none")
<1>0. (\A u \in Tickers : u = t) /\ ~Fails
  BY NothingFails DEF OnePass
<1>1. ASSUME NEW q \in Runners, World(q) PROVE Goal
  BY <1>1 DEF World, Boot, TakeJob, FinishJob, Exit, Accident, Disconnect, Elapse, Prune, TypeOK
<1>2. ASSUME NEW p \in Pools, Arrive(p) PROVE Goal
  BY <1>2 DEF Arrive
<1>3. CASE Crash
  BY <1>3 DEF Crash
<1>4. ASSUME NEW u \in Activities, RetireNext(u) PROVE Goal
  BY <1>4 DEF RetireNext, RetireStop, RetireRemove, RetireDereg, RetireSave, RetireRefused,
     world, TypeOK
<1>5. ASSUME NEW u \in Operators, NEW q \in Runners, OperatorStop(u, q) PROVE Goal
  BY <1>5 DEF OperatorStop, world
<1>6. CASE Tick(t)
  <2>1. ASSUME NEW q \in Runners, Provision(t, q) PROVE Goal
    <3>1. CASE CreateContainer(t, q)
      <4>1. /\ prov[q] = "registered" /\ prov' = [prov EXCEPT ![q] = "created"]
            /\ ctr' = [ctr EXCEPT ![q] = "running"]
        BY <1>0, <3>1 DEF CreateContainer, Step
      <4> QED BY <4>1 DEF TypeOK
    <3>2. CASE ~CreateContainer(t, q)
      BY <2>1, <3>2 DEF Provision, SavePending, Mint, SaveRegistered, SaveStarting, Abandon,
         SaveFailed, world
    <3> QED BY <3>1, <3>2
  <2> QED BY <1>6, <2>1
      DEF Tick, BeginTick, ReadRows, ReadForge, Adopt, EndSettle, PlanPool, EndPool, Admit,
          EndTick, LaunchPool, Settle, SettleWait, SettleRetire, SettleMove, SettleRefused,
          Sweep, Apply, world
<1> QED BY <1>0, <1>1, <1>2, <1>3, <1>4, <1>5, <1>6 DEF Next

(* Whoever has had its job gets no second one.                             *)
LEMMA SpentStaySpent ==
  ASSUME TypeOK, OnePass, NEW t \in Tickers, NEW r \in Runners, Next, faults' = 0,
         Spent(r), prov'[r] = "none"
  PROVE  Spent(r)'
<1> DEFINE Goal == Spent(r)'
<1> USE DEF Spent
<1>0. (\A u \in Tickers : u = t) /\ ~Fails /\ ctr[r] \in ContainerState /\ reg[r] \in RegState
  BY NothingFails DEF OnePass, TypeOK
<1>1. ASSUME NEW q \in Runners, World(q) PROVE Goal
  BY <1>0, <1>1 DEF World, Boot, TakeJob, FinishJob, Exit, Accident, Disconnect, Elapse, Prune,
     TypeOK
<1>2. ASSUME NEW p \in Pools, Arrive(p) PROVE Goal
  BY <1>2 DEF Arrive
<1>3. CASE Crash
  BY <1>3 DEF Crash
<1>4. ASSUME NEW u \in Activities, RetireNext(u) PROVE Goal
  BY <1>4 DEF RetireNext, RetireStop, RetireRemove, RetireDereg, RetireSave, RetireRefused,
     Dropped, Deleted, world, TypeOK
<1>5. ASSUME NEW u \in Operators, NEW q \in Runners, OperatorStop(u, q) PROVE Goal
  BY <1>5 DEF OperatorStop, world
<1>6. CASE Tick(t)
  <2>1. ASSUME NEW q \in Runners, Provision(t, q) PROVE Goal
    <3>1. prov[q] # "none"
      BY <2>1 DEF Provision, SavePending, Mint, SaveRegistered, CreateContainer,
         SaveStarting, Abandon, SaveFailed, Step
    <3>2. r # q
      BY <3>1
    <3>3. reg' = reg \/ reg' = Deleted(q) \/ reg' = [reg EXCEPT ![q] = "offline"]
      BY <2>1 DEF Provision, SavePending, Mint, SaveRegistered, CreateContainer,
         SaveStarting, Abandon, SaveFailed, world
    <3>4. reg'[r] = reg[r]
      BY <3>2, <3>3 DEF Deleted, TypeOK
    <3>5. ctr'[r] = ctr[r]
      BY <2>1, <3>2, ProvisioningIsOfOne
    <3> QED BY <3>4, <3>5
  <2>2. ASSUME NEW q \in Runners, Sweep(t, q) PROVE Goal
    BY <2>2 DEF Sweep, Deleted, TypeOK
  <2> QED BY <1>6, <2>1, <2>2
      DEF Tick, BeginTick, ReadRows, ReadForge, Adopt, EndSettle, PlanPool, EndPool, Admit,
          EndTick, LaunchPool, Settle, SettleWait, SettleRetire, SettleMove, SettleRefused,
          Apply, world
<1> QED BY <1>0, <1>1, <1>2, <1>3, <1>4, <1>5, <1>6 DEF Next

(* How a row can have changed.                                             *)
RowMoves(t, r) ==
  \/ row'[r].state = row[r].state /\ row'[r].cid = row[r].cid
  \/ row'[r].state \in {Absent, "retired"}
  \/ Adopt(t) /\ r \in Unknown(t)
  \/ SettleMove(t, r)
  \/ Provision(t, r)

(* It has changed in one of these ways.                                    *)
LEMMA RowsMove ==
  ASSUME TypeOK, OnePass, NEW t \in Tickers, NEW r \in Runners, Next
  PROVE  RowMoves(t, r)
<1>0. \A u \in Tickers : u = t
  BY DEF OnePass
<1>1. ASSUME row'[r] = row[r] PROVE RowMoves(t, r)
  BY <1>1 DEF RowMoves
<1>2. CASE Crash
  BY <1>1, <1>2 DEF Crash, NoWork, NoRow, RowMoves
<1>3. ASSUME NEW q \in Runners, World(q) PROVE RowMoves(t, r)
  <2>1. CASE Elapse(q)
    BY <2>1 DEF Elapse, RowMoves, TypeOK, Row
  <2>2. CASE Prune(q)
    BY <1>1, <2>2 DEF Prune, NoRow, RowMoves, TypeOK
  <2>3. CASE ~Elapse(q) /\ ~Prune(q)
    BY <1>1, <1>3, <2>3 DEF World, Boot, TakeJob, FinishJob, Exit, Accident, Disconnect
  <2> QED BY <2>1, <2>2, <2>3
<1>4. ASSUME NEW u \in Activities, RetireNext(u) PROVE RowMoves(t, r)
  <2>1. CASE RetireSave(u)
    <3> DEFINE q == ret[u].runner
               w == MovedTo(work[u][q], "retired")
    <3>1. q \in Runners /\ work[u][q] \in Row
      BY <2>1 DEF RetireSave, TypeOK
    <3>2. w \in Row /\ w.state = "retired" /\ row' = Saved(q, w)
      BY <2>1, <3>1 DEF MovedTo, Row, RunnerState, RetireSave
    <3> HIDE DEF q, w
    <3>3. row'[q].state = "retired" /\ \A i \in Runners \ {q} : row'[i] = row[i]
      BY <3>1, <3>2, SavedIsAsActive DEF TypeOK
    <3> QED BY <1>1, <3>3 DEF RowMoves
  <2>2. CASE ~RetireSave(u)
    BY <1>1, <1>4, <2>2 DEF RetireNext, RetireStop, RetireRemove, RetireDereg, RetireRefused, world
  <2> QED BY <2>1, <2>2
<1>5. CASE \/ \E p \in Pools : Arrive(p)
           \/ \E u \in Operators, q \in Runners : OperatorStop(u, q)
  BY <1>1, <1>5 DEF Arrive, OperatorStop, world
<1>6. CASE Tick(t)
  <2>1. CASE Adopt(t)
    <3>1. PICK new : Adopts(t, new)
      BY <2>1, AdoptionWrites
    <3>2. r \notin Unknown(t) => row'[r] = row[r]
      BY <3>1 DEF Adopts
    <3> QED BY <1>1, <2>1, <3>2 DEF RowMoves
  <2>2. ASSUME NEW q \in Runners, SettleMove(t, q) PROVE RowMoves(t, r)
    <3>1. r # q => row'[r] = row[r]
      BY <2>2 DEF SettleMove, Saved, TypeOK
    <3> QED BY <1>1, <2>2, <3>1 DEF RowMoves
  <2>3. ASSUME NEW q \in Runners, Provision(t, q) PROVE RowMoves(t, r)
    <3>1. r # q => row'[r] = row[r]
      BY <2>3, ProvisioningSteps
    <3> QED BY <1>1, <2>3, <3>1 DEF RowMoves
  <2>4. CASE \/ BeginTick(t) \/ ReadForge(t) \/ EndSettle(t) \/ PlanPool(t)
             \/ EndPool(t) \/ Admit(t) \/ EndTick(t)
             \/ \E p \in Pools : ReadRows(t, p) \/ LaunchPool(t, p)
    BY <1>1, <2>4 DEF BeginTick, ReadForge, EndSettle, PlanPool, EndPool, Admit, EndTick,
       ReadRows, LaunchPool, world
  <2>5. CASE \E q \in Runners : \/ SettleWait(t, q) \/ SettleRetire(t, q)
                                \/ SettleRefused(t, q) \/ Sweep(t, q) \/ Apply(t, q)
    BY <1>1, <2>5 DEF SettleWait, SettleRetire, SettleRefused, Sweep, Apply, world
  <2> QED BY <1>6, <2>1, <2>2, <2>3, <2>4, <2>5 DEF Tick, Settle
<1> QED BY <1>0, <1>2, <1>3, <1>4, <1>5, <1>6 DEF Next

-----------------------------------------------------------------------------
(* Rows and objects, while nothing fails.                                  *)

(* What an adoption makes of one runner, and what it leaves alone.         *)
LEMMA AdoptionTells ==
  ASSUME TypeOK, NEW t \in Tickers, NEW r \in Runners, Adopt(t)
  PROVE  /\ r \in Unknown(t) =>
              /\ row'[r] = work'[t][r] /\ work'[t][r].cid
              /\ seen[t][r] = "running" => work'[t][r].state = "idle"
              /\ seen[t][r] # "running" => work'[t][r].state = "failed"
         /\ r \notin Unknown(t) => row'[r] = row[r] /\ work'[t][r] = work[t][r]
         /\ r \in todoR'[t] => r \in Unknown(t) \/ work[t][r].state # Absent
         /\ r \in Unknown(t) => r \in todoR'[t]
         /\ pc[t] = "adopt" /\ pc'[t] = "settle"
<1> DEFINE unknown == {q \in Runners : /\ PoolOf[q] = cur[t]
                                       /\ seen[t][q] # "none"
                                       /\ work[t][q].state = Absent}
           adopted(old) == [q \in unknown |->
             IF seen[t][q] = "running"
               THEN [state |-> "idle", aged |-> q \in old, gid |-> TRUE, cid |-> TRUE]
               ELSE [state |-> "failed", aged |-> FALSE, gid |-> TRUE, cid |-> TRUE]]
<1>0. t \in Activities
  BY DEF Activities
<1>1. PICK old \in SUBSET {q \in unknown : seen[t][q] = "running"} :
        /\ row' = [q \in Runners |-> IF q \in unknown THEN adopted(old)[q] ELSE row[q]]
        /\ work' = [work EXCEPT ![t] =
             [q \in Runners |-> IF q \in unknown THEN adopted(old)[q] ELSE work[t][q]]]
  BY DEF Adopt
<1>2. r \in unknown =>
        /\ adopted(old)[r].cid
        /\ seen[t][r] = "running" => adopted(old)[r].state = "idle"
        /\ seen[t][r] # "running" => adopted(old)[r].state = "failed"
  OBVIOUS
<1>3. unknown = Unknown(t)
  BY DEF Unknown
<1> HIDE DEF unknown, adopted
<1>4. /\ r \in unknown => row'[r] = adopted(old)[r] /\ work'[t][r] = adopted(old)[r]
      /\ r \notin unknown => row'[r] = row[r] /\ work'[t][r] = work[t][r]
  BY <1>0, <1>1 DEF TypeOK
<1>5. /\ todoR'[t] = Unknown(t) \cup {q \in Runners : work[t][q].state # Absent}
      /\ pc[t] = "adopt" /\ pc'[t] = "settle"
  BY <1>0 DEF Adopt, Unknown, TypeOK
<1> QED BY <1>2, <1>3, <1>4, <1>5

(* A runner that is settled keeps what it has of Docker's id, and is past  *)
(* its launch.                                                             *)
LEMMA MovesKeepWhole ==
  ASSUME TypeOK, SettlingIsOfKnown, ObjectsAreWhole, ContainersStart, BusyAreSpent,
         NEW t \in Tickers, NEW r \in Runners, SettleMove(t, r)
  PROVE  \E w \in Row :
           /\ w.state = VerdictOn(t, r) /\ w.state \in Settled /\ w.cid
           /\ row' = Saved(r, w)
           /\ pc[t] = "settle" /\ r \in todoR[t] /\ work[t][r].state \in Settled
           /\ \/ /\ work' = [work EXCEPT ![t][r] = w]
                 /\ todoR' = [todoR EXCEPT ![t] = @ \ {r}]
                 /\ UNCHANGED <<pc, cur, listed, ret>>
              \/ PoolDropped(t)
           /\ UNCHANGED <<ctr, reg, seen, todo, want, held, prov>>
<1> DEFINE w == MovedTo(work[t][r], VerdictOn(t, r))
<1>1. /\ pc[t] = "settle" /\ r \in todoR[t]
      /\ VerdictOn(t, r) # "retire" /\ VerdictOn(t, r) # "wait"
  BY DEF SettleMove, Settling
<1>2. VerdictOn(t, r) \in Settled /\ work[t][r].state \in Settled /\ work[t][r].cid
  BY <1>1, VerdictsAreHeeded, InHand
<1>3. work[t][r] \in Row
  BY DEF TypeOK, Activities
<1>4. w \in Row /\ w.state = VerdictOn(t, r) /\ w.cid
  BY <1>2, <1>3 DEF MovedTo, Row, Settled, RunnerState
<1>5. /\ row' = Saved(r, w)
      /\ \/ /\ work' = [work EXCEPT ![t][r] = w]
            /\ todoR' = [todoR EXCEPT ![t] = @ \ {r}]
            /\ UNCHANGED <<pc, cur, listed, ret>>
         \/ PoolDropped(t)
      /\ UNCHANGED <<ctr, reg, seen, todo, want, held, prov>>
  BY DEF SettleMove, PoolDropped
<1> HIDE DEF w
<1> QED BY <1>1, <1>2, <1>4, <1>5

(* What is saved has the object's state and its claim on the container.    *)
LEMMA SavedIsAsWhole ==
  ASSUME row \in [Runners -> Row], NEW r \in Runners, NEW w \in Row, row' = Saved(r, w)
  PROVE  row'[r].state = w.state /\ row'[r].cid = w.cid
BY DEF Saved, Row

(* What the writes of a launch leave in the row.                           *)
LEMMA LaunchesWrite ==
  ASSUME TypeOK, NEW t \in Tickers, NEW r \in Runners
  PROVE  /\ SaveStarting(t, r) => row'[r].state = "starting" /\ row'[r].cid
         /\ SaveFailed(t, r) => row'[r].state = "failed"
         /\ SavePending(t, r) => row'[r].state = "pending"
         /\ SaveRegistered(t, r) => row'[r].state = "registered"
<1>0. row \in [Runners -> Row]
  BY DEF TypeOK
<1> DEFINE s == [Registered EXCEPT !.state = "starting", !.cid = TRUE]
           f == [Registered EXCEPT !.state = "failed"]
           p == [NoRow EXCEPT !.state = "pending"]
<1>1. s \in Row /\ s.state = "starting" /\ s.cid
  BY DEF Registered, Row, RunnerState
<1>2. f \in Row /\ f.state = "failed"
  BY DEF Registered, Row, RunnerState
<1>3. p \in Row /\ p.state = "pending"
  BY DEF NoRow, Row, RunnerState
<1>4. Registered \in Row /\ Registered.state = "registered"
  BY DEF Registered, Row, RunnerState
<1>5. /\ SaveStarting(t, r) => row' = Saved(r, s)
      /\ SaveFailed(t, r) => row' = Saved(r, f)
      /\ SavePending(t, r) => row' = Saved(r, p)
      /\ SaveRegistered(t, r) => row' = Saved(r, Registered)
  BY DEF SaveStarting, SaveFailed, SavePending, SaveRegistered
<1> HIDE DEF s, f, p
<1>6. SaveStarting(t, r) => row'[r].state = "starting" /\ row'[r].cid
  BY <1>0, <1>1, <1>5, SavedIsAsWhole
<1>7. SaveFailed(t, r) => row'[r].state = "failed"
  BY <1>0, <1>2, <1>5, SavedIsAsWhole
<1>8. SavePending(t, r) => row'[r].state = "pending"
  BY <1>0, <1>3, <1>5, SavedIsAsWhole
<1>9. SaveRegistered(t, r) => row'[r].state = "registered"
  BY <1>0, <1>4, <1>5, SavedIsAsWhole
<1> QED BY <1>6, <1>7, <1>8, <1>9

(* A row that no launch is at stays past its launch.                       *)
LEMMA RowsStayWhole ==
  ASSUME TypeOK, OnePass, SettlingIsOfKnown, RowsAreWhole, ObjectsAreWhole, ContainersStart,
         BusyAreSpent, NEW t \in Tickers, Next, faults' = 0
  PROVE  RowsAreWhole'
<1> SUFFICES ASSUME NEW r \in Runners
             PROVE  /\ row'[r].state \in {Absent, "retired", "failed"} \cup Settled
                          \/ prov'[r] # "none"
                    /\ row'[r].state \in Settled => row'[r].cid
  BY DEF RowsAreWhole
<1> DEFINE Goal == /\ row'[r].state \in {Absent, "retired", "failed"} \cup Settled
                          \/ prov'[r] # "none"
                   /\ row'[r].state \in Settled => row'[r].cid
<1>0. /\ row[r].state \in {Absent, "retired", "failed"} \cup Settled \/ prov[r] # "none"
      /\ row[r].state \in Settled => row[r].cid
  BY DEF RowsAreWhole
<1>1. CASE row'[r].state \in {Absent, "retired", "failed"}
  BY <1>1 DEF Settled, Absent
<1>2. CASE row'[r].state = row[r].state /\ row'[r].cid = row[r].cid
  <2>1. CASE prov[r] # "none" /\ prov'[r] = "none"
    <3>1. SaveStarting(t, r) \/ SaveFailed(t, r)
      BY <2>1, LaunchesEnd
    <3>2. row'[r].state = "failed" \/ (row'[r].state = "starting" /\ row'[r].cid)
      BY <3>1, LaunchesWrite
    <3> QED BY <3>2 DEF Settled
  <2> QED BY <1>0, <1>2, <2>1
<1>3. CASE Adopt(t) /\ r \in Unknown(t)
  BY <1>3, AdoptionTells DEF Settled
<1>4. CASE SettleMove(t, r)
  <2>1. PICK w \in Row : w.state \in Settled /\ w.cid /\ row' = Saved(r, w)
    BY <1>4, MovesKeepWhole
  <2>2. row'[r].state \in Settled /\ row'[r].cid
    BY <2>1, SavedIsAsWhole DEF TypeOK
  <2> QED BY <2>2
<1>5. CASE Provision(t, r)
  <2>1. prov[r] # "none"
    BY <1>5 DEF Provision, SavePending, Mint, SaveRegistered, CreateContainer,
       SaveStarting, Abandon, SaveFailed, Step
  <2>2. CASE SaveStarting(t, r) \/ SaveFailed(t, r)
    <3>1. row'[r].state = "failed" \/ (row'[r].state = "starting" /\ row'[r].cid)
      BY <2>2, LaunchesWrite
    <3> QED BY <3>1 DEF Settled
  <2>3. CASE ~(SaveStarting(t, r) \/ SaveFailed(t, r))
    <3>1. prov'[r] # "none"
      BY <2>1, <2>3, LaunchesEnd
    <3>2. row'[r] = row[r] \/ row'[r].state \in {"pending", "registered"}
      BY <1>5, <2>3, LaunchesWrite DEF Provision, Mint, CreateContainer, Abandon
    <3> QED BY <1>0, <3>1, <3>2 DEF Settled
  <2> QED BY <2>2, <2>3
<1> QED BY <1>1, <1>2, <1>3, <1>4, <1>5, RowsMove DEF RowMoves

(* Between pools, and in its launches, a pass has nothing in hand.         *)
LEMMA NothingInHand ==
  ASSUME HandsAreFree, NEW t \in Tickers, NEW r \in Runners,
         pc[t] \notin {"forge"} \cup Judging
  PROVE  work[t][r] = NoRow /\ work[t][r].state = Absent
<1>1. work[t] = NoWork
  BY DEF HandsAreFree
<1> QED BY <1>1 DEF NoWork, NoRow

(* An object is past its launch, too, and only what was just adopted is    *)
(* failed.                                                                 *)
LEMMA ObjectsStayWhole ==
  ASSUME PassInv, LaunchesNest, PlanningNests, HandsAreFree, SettlingIsOfKnown,
         RowsAreWhole, ObjectsAreWhole, ContainersStart, BusyAreSpent, PoolsFit,
         OnePass, NEW t \in Tickers, Next, faults' = 0
  PROVE  ObjectsAreWhole'
<1> SUFFICES ASSUME NEW r \in Runners PROVE IsWhole(t, r)'
  BY DEF ObjectsAreWhole, OnePass
<1>0. TypeOK /\ TypeOK' /\ PassesNest /\ t \in Activities /\ SmoothStep(t) /\ IsWhole(t, r)
  BY StepIsTyped, NothingIsGivenUp DEF PassInv, Activities, ObjectsAreWhole
<1>1. ASSUME work'[t][r].state = Absent PROVE IsWhole(t, r)'
  BY <1>1 DEF Absent, Settled, IsWhole
<1>2. CASE pc'[t] \notin {"forge"} \cup Judging
  <2>1. HandsAreFree'
    BY <1>0, HandsStayFree
  <2>2. work'[t][r].state = Absent
    BY <1>2, <2>1 DEF HandsAreFree, NoWork, NoRow
  <2> QED BY <1>1, <2>2
<1>3. ASSUME work'[t][r] = work[t][r], cur'[t] = cur[t], seen'[t] = seen[t],
             \/ pc'[t] = pc[t]
             \/ pc[t] = "settle" /\ pc'[t] = "sweep" /\ todoR[t] = {}
             \/ pc[t] = "sweep" /\ pc'[t] = "apply"
             \/ pc[t] = "forge" /\ pc'[t] = "adopt",
             pc'[t] = "settle" /\ r \in todoR[t] => r \in todoR'[t],
             pc'[t] = "settle" /\ r \in todoR'[t] => r \in todoR[t]
      PROVE  IsWhole(t, r)'
  <2>1. ASSUME work[t][r].state = "failed" PROVE pc'[t] = "settle" /\ r \in todoR'[t]
    BY <1>0, <1>3, <2>1 DEF IsWhole
  <2>2. ASSUME work[t][r].state = "retired"
        PROVE  pc'[t] \in {"sweep", "apply"} \/ (pc'[t] = "settle" /\ r \notin todoR'[t])
    BY <1>0, <1>3, <2>2 DEF IsWhole
  <2> QED BY <1>0, <1>3, <2>1, <2>2 DEF IsWhole
<1>4. CASE Aside(t)
  BY <1>3, <1>4 DEF Aside
<1>5. CASE pc'[t] = "forge" /\ \E p \in Pools : ReadRows(t, p)
  <2>1. PICK p \in Pools : ReadRows(t, p)
    BY <1>5
  <2>2. /\ pc[t] = "pools"
        /\ cur'[t] = p
        /\ work'[t][r] = IF PoolOf[r] = p /\ IsLive(row[r]) THEN row[r] ELSE NoRow
    BY <1>0, <1>5, <2>1 DEF ReadRows, TypeOK
  <2>3. prov[r] = "none"
    BY <2>2 DEF LaunchesNest
  <2>4. CASE work'[t][r] = NoRow
    BY <1>1, <2>4 DEF NoRow
  <2>5. CASE work'[t][r] = row[r] /\ PoolOf[r] = p /\ IsLive(row[r])
    <3>1. row[r].state \in Settled /\ row[r].cid
      BY <2>3, <2>5 DEF RowsAreWhole, IsLive, TerminalStates
    <3> QED BY <2>2, <2>5, <3>1 DEF Settled, Absent, IsWhole
  <2> QED BY <2>2, <2>4, <2>5
<1>6. CASE pc'[t] = "adopt" /\ ReadForge(t)
  <2>1. ~PoolDropped(t)
    BY <1>0, <1>6 DEF PoolDropped, TypeOK
  <2>2. pc[t] = "forge" /\ UNCHANGED <<work, cur, seen, todoR>>
    BY <1>6, <2>1 DEF ReadForge
  <2> QED BY <1>3, <1>6, <2>2
<1>7. CASE Adopt(t)
  <2>1. cur' = cur /\ seen' = seen /\ pc[t] = "adopt" /\ pc'[t] = "settle"
    BY <1>0, <1>7, AdoptionTells DEF Adopt
  <2>2. CASE r \in Unknown(t)
    <3>1. /\ work'[t][r].cid
          /\ work'[t][r].state = "idle" \/ (work'[t][r].state = "failed" /\ seen[t][r] # "running")
          /\ r \in todoR'[t] /\ PoolOf[r] = cur[t]
      BY <1>0, <1>7, <2>2, AdoptionTells DEF Unknown
    <3> QED BY <2>1, <3>1 DEF Settled, Absent, IsWhole
  <2>3. CASE r \notin Unknown(t)
    <3>1. work'[t][r] = work[t][r]
      BY <1>0, <1>7, <2>3, AdoptionTells
    <3>2. work[t][r].state \notin {"failed", "retired"}
      BY <1>0, <2>1 DEF IsWhole
    <3> QED BY <1>0, <2>1, <3>1, <3>2 DEF IsWhole
  <2> QED BY <2>2, <2>3
<1>8. CASE pc'[t] = "settle" /\ \E q \in Runners : SettleMove(t, q)
  <2>1. PICK q \in Runners : SettleMove(t, q)
    BY <1>8
  <2>2. ~PoolDropped(t)
    BY <1>0, <1>8 DEF PoolDropped, TypeOK
  <2>3. PICK w \in Row :
          /\ w.state \in Settled /\ w.cid /\ pc[t] = "settle" /\ work[t][q].state \in Settled
          /\ work' = [work EXCEPT ![t][q] = w]
          /\ todoR' = [todoR EXCEPT ![t] = @ \ {q}]
          /\ UNCHANGED <<pc, cur, seen>>
    BY <1>0, <2>1, <2>2, MovesKeepWhole
  <2>4. CASE r = q
    <3>1. work'[t][r] = w
      BY <1>0, <2>3, <2>4 DEF TypeOK
    <3>2. PoolOf[r] = cur[t]
      BY <1>0, <2>3, <2>4 DEF Settled, Absent, IsWhole
    <3> QED BY <2>3, <3>1, <3>2 DEF Settled, Absent, IsWhole
  <2>5. CASE r # q
    <3>1. /\ work'[t][r] = work[t][r]
          /\ r \in todoR[t] => r \in todoR'[t]
          /\ r \in todoR'[t] => r \in todoR[t]
      BY <1>0, <2>3, <2>5 DEF TypeOK
    <3> QED BY <1>3, <2>3, <3>1
  <2> QED BY <2>4, <2>5
<1>9. CASE pc'[t] = pc[t] /\ RetireSave(t)
  <2>1. PICK q \in Runners, w \in Row :
          /\ q = ret[t].runner /\ w.state = "retired"
          /\ work' = [work EXCEPT ![t][q] = w]
          /\ todoR' = [todoR EXCEPT ![t] = @ \ {q}]
          /\ seen' = seen
    BY <1>0, <1>9, RetirementsSave
  <2>2. cur' = cur /\ pc[t] \in {"settle", "apply"} /\ pc' = pc
    BY <1>0, <1>9, RetiringStaysPut, RetirementsSave
  <2>3. q \in todoR[t]
    BY <1>9, <2>1 DEF PlanningNests, RetireSave
  <2>4. CASE r = q
    <3>1. work'[t][r] = w /\ r \notin todoR'[t]
      BY <1>0, <2>1, <2>4 DEF TypeOK
    <3>2. work[t][r].state # Absent
      <4>1. CASE pc[t] = "settle"
        BY <2>3, <2>4, <4>1 DEF SettlingIsOfKnown
      <4>2. CASE pc[t] = "apply"
        BY <1>0, <2>3, <2>4, <4>2 DEF PassInv, PlansAreHeeded, OverranOrIdle, Absent
      <4> QED BY <2>2, <4>1, <4>2
    <3> QED BY <1>0, <2>1, <2>2, <3>1, <3>2 DEF Settled, Absent, IsWhole
  <2>5. CASE r # q
    <3>1. /\ work'[t][r] = work[t][r]
          /\ r \in todoR[t] => r \in todoR'[t]
          /\ r \in todoR'[t] => r \in todoR[t]
      BY <1>0, <2>1, <2>5 DEF TypeOK
    <3> QED BY <1>3, <1>9, <2>1, <2>2, <3>1
  <2> QED BY <2>4, <2>5
<1>10. CASE \/ pc'[t] = "settle" /\ \E q \in Runners : SettleRetire(t, q)
            \/ pc'[t] = pc[t] /\ Calls(t)
  <2>1. pc' = pc /\ UNCHANGED <<work, cur, seen, todoR>>
    BY <1>10 DEF SettleRetire, Calls, RetireStop, RetireRemove, RetireDereg
  <2> QED BY <1>3, <2>1
<1>11. CASE pc'[t] = "sweep" /\ EndSettle(t)
  <2>1. pc[t] = "settle" /\ todoR[t] = {} /\ UNCHANGED <<work, cur, seen>>
    BY <1>11 DEF EndSettle
  <2> QED BY <1>3, <1>11, <2>1
<1>12. CASE \/ pc'[t] = "sweep" /\ \E q \in Runners : Sweep(t, q)
            \/ pc'[t] = "apply" /\ (PlanPool(t) \/ \E q \in Runners : Apply(t, q))
  <2>1. /\ pc'[t] = pc[t] \/ (pc[t] = "sweep" /\ pc'[t] = "apply")
        /\ pc'[t] # "settle" /\ UNCHANGED <<work, cur, seen>>
    BY <1>12 DEF Sweep, PlanPool, Apply
  <2> QED BY <1>3, <2>1
<1>13. CASE \/ BeginTick(t) \/ EndPool(t) \/ Admit(t) \/ EndTick(t)
            \/ \E p \in Pools : LaunchPool(t, p)
            \/ \E q \in Runners : Provision(t, q)
  <2>1. pc'[t] \notin {"forge"} \cup Judging
    <3>1. CASE BeginTick(t) \/ EndPool(t) \/ Admit(t) \/ EndTick(t)
      BY <1>0, <3>1 DEF BeginTick, EndPool, Admit, EndTick, Judging, TypeOK
    <3>2. CASE \E p \in Pools : LaunchPool(t, p)
      BY <3>2 DEF LaunchPool, Judging
    <3>3. CASE \E q \in Runners : Provision(t, q)
      BY <1>0, <3>3, ProvisioningSteps DEF Judging
    <3> QED BY <1>13, <3>1, <3>2, <3>3
  <2> QED BY <1>2, <2>1
<1> QED BY <1>0, <1>2, <1>4, <1>5, <1>6, <1>7, <1>8, <1>9, <1>10, <1>11, <1>12, <1>13
    DEF SmoothStep

(* No container is found that was created and not started.                 *)
LEMMA ContainersStayStarted ==
  ASSUME TypeOK, ContainersStart, OnePass, NEW t \in Tickers, Next, faults' = 0
  PROVE  ContainersStart'
<1>0. t \in Activities /\ \A u \in Tickers : u = t
  BY DEF Activities, OnePass
<1>1. ASSUME NEW r \in Runners PROVE ctr'[r] # "created"
  BY ContainersComeUp DEF ContainersStart
<1>2. \/ seen'[t] = seen[t] \/ seen'[t] = ctr \/ seen'[t] = Unseen
  <2>1. CASE Crash
    BY <1>0, <2>1 DEF Crash
  <2>2. CASE Aside(t)
    BY <2>2 DEF Aside
  <2>3. CASE RetireNext(t)
    BY <2>3 DEF RetireNext, RetireStop, RetireRemove, RetireDereg, RetireSave, RetireRefused,
       PoolDropped
  <2>4. CASE BeginTick(t) \/ Admit(t)
    BY <1>0, <2>4 DEF BeginTick, Admit, TypeOK
  <2>5. CASE \E q \in Runners : Provision(t, q)
    BY <2>5, ProvisioningIsOfOne
  <2>6. CASE Tick(t) /\ ~(BeginTick(t) \/ Admit(t) \/ \E q \in Runners : Provision(t, q))
    BY <2>6 DEF Tick, ReadRows, ReadForge, Adopt, EndSettle, PlanPool, EndPool,
          EndTick, LaunchPool, Settle, SettleWait, SettleRetire, SettleMove, SettleRefused,
          Sweep, Apply, PoolDropped
  <2> QED BY <2>1, <2>2, <2>3, <2>4, <2>5, <2>6, StepsAreOwn
<1>3. ASSUME NEW r \in Runners PROVE seen'[t][r] # "created"
  BY <1>2 DEF ContainersStart, Unseen
<1> QED BY <1>0, <1>1, <1>3 DEF ContainersStart

-----------------------------------------------------------------------------
(* What becomes of one object, and of the containers of those in hand.     *)

(* How an object can have changed.                                         *)
ObjectMoves(t, r) ==
  \/ work'[t][r] = work[t][r]
  \/ work'[t][r].state = Absent /\ pc'[t] \notin Judging
  \/ pc[t] = "pools" /\ pc'[t] = "forge" /\ work'[t][r] = row[r]
  \/ Adopt(t) /\ r \in Unknown(t)
  \/ SettleMove(t, r) /\ work'[t][r].state = VerdictOn(t, r)
  \/ RetireSave(t) /\ r = ret[t].runner /\ work'[t][r].state = "retired"

(* It has changed in one of these ways.                                    *)
LEMMA ObjectsMove ==
  ASSUME TypeOK, PassesNest, HandsAreFree, OnePass, NEW t \in Tickers, NEW r \in Runners,
         SettlingIsOfKnown, ObjectsAreWhole, ContainersStart, BusyAreSpent,
         Next, SmoothStep(t)
  PROVE  ObjectMoves(t, r)
<1>0. t \in Activities
  BY DEF Activities
<1>1. ASSUME work' = work \/ work'[t] = work[t] PROVE ObjectMoves(t, r)
  BY <1>1 DEF ObjectMoves
<1>2. CASE pc'[t] \notin {"forge"} \cup Judging
  <2>1. HandsAreFree'
    BY HandsStayFree
  <2>2. work'[t][r].state = Absent
    BY <1>2, <2>1 DEF HandsAreFree, NoWork, NoRow
  <2> QED BY <1>2, <2>2 DEF ObjectMoves
<1>3. CASE pc'[t] = "forge" /\ \E p \in Pools : ReadRows(t, p)
  <2>1. PICK p \in Pools : ReadRows(t, p)
    BY <1>3
  <2>2. /\ pc[t] = "pools"
        /\ work'[t][r] = IF PoolOf[r] = p /\ IsLive(row[r]) THEN row[r] ELSE NoRow
    BY <1>0, <1>3, <2>1 DEF ReadRows, TypeOK
  <2> QED BY <1>3, <2>2 DEF ObjectMoves, NoRow, Judging
<1>4. CASE pc'[t] = "adopt" /\ ReadForge(t)
  <2>1. ~PoolDropped(t)
    BY <1>0, <1>4 DEF PoolDropped, TypeOK
  <2> QED BY <1>1, <1>4, <2>1 DEF ReadForge
<1>5. CASE Adopt(t)
  BY <1>5, AdoptionTells DEF ObjectMoves
<1>6. CASE pc'[t] = "settle" /\ \E q \in Runners : SettleMove(t, q)
  <2>1. PICK q \in Runners : SettleMove(t, q)
    BY <1>6
  <2>2. ~PoolDropped(t)
    BY <1>0, <1>6 DEF PoolDropped, TypeOK
  <2>3. PICK w \in Row : w.state = VerdictOn(t, q) /\ work' = [work EXCEPT ![t][q] = w]
    BY <2>1, <2>2, MovesKeepWhole
  <2>4. CASE r = q
    BY <1>0, <2>1, <2>3, <2>4 DEF ObjectMoves, TypeOK
  <2>5. CASE r # q
    BY <1>0, <2>3, <2>5 DEF ObjectMoves, TypeOK
  <2> QED BY <2>4, <2>5
<1>7. CASE pc'[t] = pc[t] /\ RetireSave(t)
  <2>1. PICK q \in Runners, w \in Row :
          q = ret[t].runner /\ w.state = "retired" /\ work' = [work EXCEPT ![t][q] = w]
    BY <1>7, RetirementsSave
  <2>2. CASE r = q
    BY <1>0, <1>7, <2>1, <2>2 DEF ObjectMoves, TypeOK
  <2>3. CASE r # q
    BY <1>0, <2>1, <2>3 DEF ObjectMoves, TypeOK
  <2> QED BY <2>2, <2>3
<1>8. CASE \/ pc'[t] = "settle" /\ \E q \in Runners : SettleRetire(t, q)
           \/ pc'[t] = pc[t] /\ Calls(t)
           \/ pc'[t] = "sweep" /\ (EndSettle(t) \/ \E q \in Runners : Sweep(t, q))
           \/ pc'[t] = "apply" /\ (PlanPool(t) \/ \E q \in Runners : Apply(t, q))
           \/ BeginTick(t) \/ Admit(t) \/ EndTick(t) \/ \E p \in Pools : LaunchPool(t, p)
  BY <1>1, <1>8 DEF SettleRetire, Calls, RetireStop, RetireRemove, RetireDereg, EndSettle,
     Sweep, PlanPool, Apply, BeginTick, Admit, EndTick, LaunchPool
<1>9. CASE \E q \in Runners : Provision(t, q)
  BY <1>1, <1>9 DEF Provision, SavePending, Mint, SaveRegistered, CreateContainer,
     SaveStarting, Abandon, SaveFailed, provMemory
<1>10. CASE EndPool(t)
  BY <1>0, <1>2, <1>10 DEF EndPool, Judging, TypeOK
<1>11. CASE Aside(t)
  BY <1>1, <1>11 DEF Aside
<1> QED BY <1>3, <1>4, <1>5, <1>6, <1>7, <1>8, <1>9, <1>10, <1>11 DEF SmoothStep

(* What GitHub listed for the pool it said when the pass read it.          *)
LEMMA ListingsAreRead ==
  ASSUME TypeOK, PassesNest, OnePass, NEW t \in Tickers, NEW r \in Runners,
         Next, pc'[t] \in Judging
  PROVE  \/ pc[t] \in Judging /\ listed'[t] = listed[t]
         \/ pc[t] = "forge" /\ work'[t] = work[t] /\ listed'[t][r] \in {reg[r], "none"}
<1>0. PassStep(t) /\ t \in Activities
  BY StepsOfAPass DEF Activities
<1>1. CASE pc'[t] # "adopt"
  BY <1>0, <1>1, ObservationLasts
<1>2. CASE Aside(t)
  BY <1>2 DEF Aside
<1>3. CASE pc'[t] = "adopt" /\ ReadForge(t)
  <2>1. ~PoolDropped(t)
    BY <1>0, <1>3 DEF PoolDropped, TypeOK
  <2>2. /\ pc[t] = "forge" /\ work' = work
        /\ listed' = [listed EXCEPT ![t] =
             [q \in Runners |-> IF TargetOf[PoolOf[q]] = TargetOf[cur[t]] THEN reg[q] ELSE "none"]]
    BY <1>3, <2>1 DEF ReadForge
  <2>3. listed'[t][r] \in {reg[r], "none"}
    BY <1>0, <2>2 DEF TypeOK
  <2> QED BY <2>2, <2>3
<1>4. CASE pc'[t] = "adopt" /\ pc'[t] = pc[t] /\ (Calls(t) \/ RetireSave(t))
  BY <1>4 DEF Calls, RetireStop, RetireRemove, RetireDereg, RetireSave, PassesNest
<1> QED BY <1>0, <1>1, <1>2, <1>3, <1>4 DEF PassStep, Elsewhere, Judging

(* Whoever is taken to be on a job has had one, and can have no other.     *)
LEMMA BusyStaySpent ==
  ASSUME PassInv, LaunchesNest, HandsAreFree, SettlingIsOfKnown,
         ObjectsAreWhole, ContainersStart, BusyAreSpent,
         OnePass, NEW t \in Tickers, Next, faults' = 0, SmoothStep(t)
  PROVE  BusyAreSpent'
<1>0. TypeOK /\ PassesNest /\ \A u \in Tickers : u = t
  BY DEF PassInv, OnePass
<1>1. ASSUME NEW r \in Runners, Spent(r), pc[t] # "launch" PROVE Spent(r)'
  BY <1>0, <1>1, OnlyLaunchesProvision, SpentStaySpent
<1>2. ASSUME NEW r \in Runners, SettleMove(t, r), VerdictOn(t, r) = "busy"
      PROVE  Spent(r)' /\ pc[t] \in Judging /\ listed[t][r] # "online"
  <2>1. /\ pc[t] = "settle" /\ r \in todoR[t] /\ VerdictOn(t, r) # "retire"
    BY <1>2 DEF SettleMove, Settling
  <2>2. work[t][r].state = "busy" \/ listed[t][r] = "busy"
    BY <1>0, <1>2, <2>1, VerdictsAreHeeded
  <2>3. listed[t][r] # "online"
    BY <1>0, <1>2, <2>1, VerdictsAreHeeded
  <2>4. Spent(r)
    BY <2>1, <2>2 DEF BusyAreSpent, Judging
  <2> QED BY <1>1, <2>1, <2>3, <2>4 DEF Judging
<1>3. ASSUME NEW r \in Runners, row'[r].state = "busy" PROVE Spent(r)'
  <2>1. CASE row'[r].state = row[r].state
    <3>1. Spent(r)
      BY <1>3, <2>1 DEF BusyAreSpent
    <3>2. prov'[r] = "none"
      BY <1>0, <1>3, <2>1, <3>1, LaunchesBegin DEF Spent, Fresh, NoRow, Absent
    <3> QED BY <1>0, <3>1, <3>2, SpentStaySpent
  <2>2. CASE Adopt(t) /\ r \in Unknown(t)
    BY <1>0, <1>3, <2>2, AdoptionTells
  <2>3. CASE SettleMove(t, r)
    <3>1. PICK w \in Row : w.state = VerdictOn(t, r) /\ row' = Saved(r, w)
      BY <1>0, <2>3, MovesKeepWhole
    <3>2. VerdictOn(t, r) = "busy"
      BY <1>0, <1>3, <3>1, SavedIsAsWhole DEF TypeOK
    <3> QED BY <1>2, <2>3, <3>2
  <2>4. CASE Provision(t, r)
    <3>1. prov[r] # "none"
      BY <2>4 DEF Provision, SavePending, Mint, SaveRegistered, CreateContainer,
         SaveStarting, Abandon, SaveFailed, Step
    <3>2. row'[r] = row[r] \/ row'[r].state \in {"pending", "registered", "starting", "failed"}
      BY <1>0, <2>4, LaunchesWrite DEF Provision, Mint, CreateContainer, Abandon
    <3> QED BY <1>3, <3>1, <3>2 DEF BusyAreSpent, Spent
  <2> QED BY <1>0, <1>3, <2>1, <2>2, <2>3, <2>4, RowsMove DEF RowMoves, Absent
<1>4. ASSUME NEW r \in Runners, work'[t][r].state = "busy"
      PROVE  Spent(r)' /\ (pc'[t] \in Judging => listed'[t][r] # "online")
  <2>1. ObjectMoves(t, r)
    BY <1>0, ObjectsMove
  <2>2. CASE work'[t][r] = work[t][r]
    <3>1. Spent(r)
      BY <1>4, <2>2 DEF BusyAreSpent
    <3>2. pc[t] # "launch"
      BY <1>4, <2>2, NothingInHand DEF Judging, Absent
    <3>3. CASE pc'[t] \in Judging
      <4>1. CASE pc[t] \in Judging /\ listed'[t] = listed[t]
        BY <1>1, <1>4, <2>2, <3>1, <3>2, <4>1 DEF BusyAreSpent
      <4>2. CASE listed'[t][r] \in {reg[r], "none"}
        BY <1>1, <3>1, <3>2, <4>2 DEF Spent
      <4> QED BY <1>0, <3>3, <4>1, <4>2, ListingsAreRead
    <3> QED BY <1>1, <3>1, <3>2, <3>3
  <2>3. CASE pc[t] = "pools" /\ pc'[t] = "forge" /\ work'[t][r] = row[r]
    <3>1. Spent(r)
      BY <1>4, <2>3 DEF BusyAreSpent
    <3> QED BY <1>1, <2>3, <3>1 DEF Judging
  <2>4. CASE Adopt(t) /\ r \in Unknown(t)
    BY <1>0, <1>4, <2>4, AdoptionTells
  <2>5. CASE SettleMove(t, r) /\ work'[t][r].state = VerdictOn(t, r)
    <3>1. Spent(r)' /\ pc[t] = "settle" /\ listed[t][r] # "online"
      BY <1>2, <1>4, <2>5 DEF SettleMove, Settling
    <3>2. pc'[t] \in Judging => listed'[t] = listed[t]
      BY <1>0, <3>1, ListingsAreRead
    <3> QED BY <3>1, <3>2
  <2> QED BY <1>4, <2>1, <2>2, <2>3, <2>4, <2>5 DEF ObjectMoves, Absent
<1>5. ASSUME NEW r \in Runners, pc'[t] \in Judging, listed'[t][r] = "busy" PROVE Spent(r)'
  <2>1. CASE pc[t] \in Judging /\ listed'[t] = listed[t]
    <3>1. Spent(r)
      BY <1>5, <2>1 DEF BusyAreSpent
    <3> QED BY <1>1, <2>1, <3>1 DEF Judging
  <2>2. CASE pc[t] = "forge" /\ listed'[t][r] \in {reg[r], "none"}
    <3>1. reg[r] = "busy" /\ prov[r] = "none"
      BY <1>5, <2>2 DEF LaunchesNest
    <3> QED BY <1>1, <2>2, <3>1 DEF Spent
  <2> QED BY <1>0, <1>5, <2>1, <2>2, ListingsAreRead
<1> QED BY <1>0, <1>3, <1>4, <1>5 DEF BusyAreSpent, Spent

(* A pass knows of every container of its pool that runs.                  *)
LEMMA RunningStayKnown ==
  ASSUME PassInv, HandsAreFree, SettlingIsOfKnown, ObjectsAreWhole, ContainersStart,
         BusyAreSpent, RunningAreKnown, RetiredAreDown,
         OnePass, NEW t \in Tickers, Next, faults' = 0, SmoothStep(t)
  PROVE  RunningAreKnown'
<1> SUFFICES ASSUME NEW r \in Runners, pc'[t] \in {"settle", "sweep", "apply"},
                    PoolOf[r] = cur'[t], ctr'[r] = "running"
             PROVE  IsActive(work'[t][r])
  BY DEF RunningAreKnown, OnePass, IsActive
<1>0. /\ TypeOK /\ PassesNest /\ t \in Activities /\ PassStep(t)
      /\ work[t][r].state \in {Absent, "retired", "failed"} \cup Settled
  BY StepsOfAPass DEF PassInv, Activities, ObjectsAreWhole, IsWhole
<1>1. pc[t] \in Judging /\ cur'[t] = cur[t]
  <2>1. pc'[t] \in Judging \ {"adopt"}
    BY DEF Judging
  <2> QED BY <1>0, <2>1, ObservationLasts
<1>2. ctr[r] = "running"
  BY <1>0, <1>1, NothingBeginsElsewhere DEF Judging
<1>3. ASSUME work'[t][r].state \in Settled PROVE IsActive(work'[t][r])
  BY <1>3 DEF IsActive, ActiveStates, Settled
<1>4. CASE pc[t] = "adopt"
  <2>1. Adopt(t)
    BY <1>0, <1>4 DEF PassStep, Aside, Elsewhere, Settles, SettleWait, SettleRetire, SettleMove,
       Settling, EndSettle, Sweep, PlanPool, Apply
  <2>2. seen[t][r] = "running"
    BY <1>0, <1>2, <1>4 DEF PassInv, SeenDownIsDown, Observing, Judging, ContainersStart,
       TypeOK, ContainerState
  <2>3. CASE work[t][r].state = Absent
    <3>1. r \in Unknown(t)
      BY <1>1, <2>2, <2>3 DEF Unknown
    <3> QED BY <1>0, <1>3, <2>1, <2>2, <3>1, AdoptionTells DEF Settled
  <2>4. CASE work[t][r].state # Absent
    <3>1. work[t][r].state \in Settled
      BY <1>0, <1>4, <2>4 DEF ObjectsAreWhole, IsWhole
    <3> QED BY <1>0, <1>3, <2>1, <2>4, <3>1, AdoptionTells DEF Unknown
  <2> QED BY <2>3, <2>4
<1>5. CASE pc[t] \in {"settle", "sweep", "apply"}
  <2>1. IsActive(work[t][r])
    BY <1>1, <1>2, <1>5 DEF RunningAreKnown
  <2>2. ObjectMoves(t, r)
    BY <1>0, ObjectsMove
  <2>3. CASE SettleMove(t, r) /\ work'[t][r].state = VerdictOn(t, r)
    <3>1. VerdictOn(t, r) \in Settled
      BY <1>0, <2>3, MovesKeepWhole
    <3> QED BY <1>3, <2>3, <3>1
  <2>4. CASE RetireSave(t) /\ r = ret[t].runner
    BY <1>2, <2>4 DEF RetireSave, RetiredAreDown
  <2>5. ~Adopt(t)
    BY <1>5 DEF Adopt
  <2> QED BY <1>5, <2>1, <2>2, <2>3, <2>4, <2>5 DEF ObjectMoves, Judging
<1> QED BY <1>1, <1>4, <1>5 DEF Judging

(* Whoever is past the call that stops it does not run.                    *)
LEMMA RetiredStayDown ==
  ASSUME PassInv, PlanningNests, SettlingIsOfKnown, ObjectsAreWhole, ContainersStart,
         RetiredAreDown, OnePass, NEW t \in Tickers, Next, faults' = 0, SmoothStep(t)
  PROVE  RetiredAreDown'
<1> SUFFICES ASSUME ret'[t].step \in {"remove", "dereg", "save"}
             PROVE  ctr'[ret'[t].runner] # "running"
  BY DEF RetiredAreDown, OnePass
<1>0. /\ TypeOK /\ TypeOK' /\ PassesNest /\ t \in Activities /\ ~Fails
      /\ ret[t].step # "none" => ret[t].runner \in Runners
  BY StepIsTyped, NothingFails DEF PassInv, Activities, TypeOK
<1>1. CASE ret'[t] = ret[t]
  <2>1. pc[t] # "launch" /\ ctr[ret[t].runner] # "running" /\ ret[t].runner \in Runners
    BY <1>0, <1>1 DEF PassesNest, RetiredAreDown
  <2> QED BY <1>0, <1>1, <2>1, NothingBeginsElsewhere
<1>2. ASSUME ret' = [ret EXCEPT ![t] = NoRetirement] \/ ret' = ret PROVE ret'[t] = ret[t]
  BY <1>0, <1>2 DEF NoRetirement, TypeOK
<1>3. ASSUME NEW r \in Runners, Retiring(t, r, work[t][r], FALSE) \/ Retiring(t, r, work[t][r], TRUE),
             work[t][r].cid
      PROVE  FALSE
  <2>1. ret'[t].step = "stop"
    BY <1>0, <1>3 DEF Retiring, FirstStep, TypeOK
  <2> QED BY <2>1
<1>4. CASE Calls(t)
  <2>1. pc[t] # "launch" /\ ret[t].runner \in Runners /\ ret'[t].runner = ret[t].runner
    <3>1. ret[t].step # "none"
      BY <1>4 DEF Calls, RetireStop, RetireRemove, RetireDereg
    <3>2. PICK s : ret' = [ret EXCEPT ![t].step = s]
      BY <1>4 DEF Calls, RetireStop, RetireRemove, RetireDereg
    <3>3. ret'[t].runner = ret[t].runner
      BY <1>0, <3>2 DEF TypeOK
    <3> QED BY <1>0, <3>1, <3>3 DEF PassesNest
  <2>2. CASE RetireStop(t)
    BY <1>0, <2>1, <2>2 DEF RetireStop, TypeOK
  <2>3. CASE ~RetireStop(t)
    <3>1. ctr[ret[t].runner] # "running"
      BY <1>4, <2>3 DEF Calls, RetireRemove, RetireDereg, RetiredAreDown
    <3> QED BY <1>0, <2>1, <3>1, NothingBeginsElsewhere
  <2> QED BY <2>2, <2>3
<1>5. CASE RetireSave(t)
  <2>1. pc[t] # "stop"
    BY <1>0 DEF PassesNest
  <2> QED BY <1>1, <1>2, <1>5, <2>1 DEF RetireSave
<1>6. CASE \E r \in Runners : SettleRetire(t, r)
  <2>1. PICK r \in Runners : SettleRetire(t, r)
    BY <1>6
  <2>2. work[t][r].cid
    BY <1>0, <2>1, InHand DEF SettleRetire, Settling
  <2> QED BY <1>3, <2>1, <2>2 DEF SettleRetire
<1>7. CASE \E r \in Runners : Apply(t, r)
  <2>1. PICK r \in Runners : Apply(t, r)
    BY <1>7
  <2>2. pc[t] = "apply" /\ r \in todoR[t]
    BY <2>1 DEF Apply
  <2>3. work[t][r].state \in {"idle", "busy", "draining"}
    BY <2>2 DEF PassInv, PlansAreHeeded, OverranOrIdle
  <2>4. work[t][r].cid
    BY <2>3 DEF ObjectsAreWhole, IsWhole, Settled, Absent
  <2>5. Retiring(t, r, work[t][r], FALSE) \/ Retiring(t, r, work[t][r], TRUE)
    <3> DEFINE b == r \in {q \in todoR[t] : work[t][q].state # "idle"}
    <3>1. Retiring(t, r, work[t][r], b) /\ b \in BOOLEAN
      BY <2>1 DEF Apply
    <3> HIDE DEF b
    <3> QED BY <3>1
  <2> QED BY <1>3, <2>4, <2>5
<1>8. CASE Aside(t)
  BY <1>1, <1>8 DEF Aside
<1>9. CASE \/ BeginTick(t) \/ EndPool(t) \/ Admit(t) \/ EndTick(t)
           \/ \E p \in Pools : ReadRows(t, p) \/ LaunchPool(t, p)
           \/ \E r \in Runners : Provision(t, r)
           \/ ReadForge(t) \/ Adopt(t) \/ EndSettle(t) \/ PlanPool(t)
           \/ \E r \in Runners : SettleMove(t, r) \/ Sweep(t, r)
  BY <1>1, <1>2, <1>9 DEF BeginTick, EndPool, Admit, EndTick, ReadRows, LaunchPool, Provision,
     SavePending, Mint, SaveRegistered, CreateContainer, SaveStarting, Abandon, SaveFailed,
     provMemory, ReadForge, Adopt, EndSettle, PlanPool, SettleMove, Sweep, PoolDropped
<1> QED BY <1>4, <1>5, <1>6, <1>7, <1>8, <1>9 DEF SmoothStep

-----------------------------------------------------------------------------
(* Who comes to the host.                                                  *)

(* Whoever does was launched by this step, or was seen up when the pass    *)
(* began, or is one of those the pass has at hand.                         *)
LEMMA NewOnHost ==
  ASSUME TypeOK, SettlingIsOfKnown, ObjectsAreWhole, ContainersStart, BusyAreSpent,
         OnePass, NEW t \in Tickers, NEW r \in Runners, Next, faults' = 0,
         OnHost(r)', ~OnHost(r)
  PROVE  \/ LaunchPool(t, PoolOf[r])
         \/ pc[t] = "adopt" /\ PoolOf[r] = cur[t] /\ seen[t][r] = "running"
         \/ pc[t] = "settle" /\ PoolOf[r] = cur[t] /\ IsActive(work[t][r])
<1>0. ~IsActive(row[r]) /\ ctr[r] # "running" /\ prov[r] = "none"
  BY DEF OnHost
<1>1. CASE prov'[r] # "none"
  BY <1>0, <1>1, LaunchesBegin
<1>2. CASE ctr'[r] = "running"
  BY <1>0, <1>2, ContainersComeUp
<1>3. CASE IsActive(row'[r])
  <2>1. CASE row'[r].state = row[r].state
    BY <1>0, <1>3, <2>1 DEF IsActive
  <2>2. CASE row'[r].state \in {Absent, "retired"}
    BY <1>3, <2>2 DEF IsActive, ActiveStates, Absent
  <2>3. CASE Adopt(t) /\ r \in Unknown(t)
    <3>1. seen[t][r] = "running"
      BY <1>3, <2>3, AdoptionTells DEF IsActive, ActiveStates
    <3> QED BY <2>3, <3>1, AdoptionTells DEF Unknown
  <2>4. CASE SettleMove(t, r)
    <3>1. pc[t] = "settle" /\ work[t][r].state \in Settled
      BY <2>4, MovesKeepWhole
    <3>2. PoolOf[r] = cur[t]
      BY <3>1 DEF ObjectsAreWhole, IsWhole, Settled, Absent
    <3> QED BY <3>1, <3>2 DEF IsActive, ActiveStates, Settled
  <2>5. CASE Provision(t, r)
    BY <1>0, <2>5 DEF Provision, SavePending, Mint, SaveRegistered, CreateContainer,
       SaveStarting, Abandon, SaveFailed, Step
  <2> QED BY <2>1, <2>2, <2>3, <2>4, <2>5, RowsMove DEF RowMoves
<1> QED BY <1>1, <1>2, <1>3 DEF OnHost, IsActive

(* A pass looks at the containers once, and comes to each pool once.       *)
LEMMA PassesLookOnce ==
  ASSUME TypeOK, PassesNest, PlanningNests, NEW t \in Tickers, SmoothStep(t),
         pc'[t] \in Observing
  PROVE  \/ BeginTick(t) /\ seen'[t] = ctr /\ todo'[t] = Pools
         \/ /\ pc[t] \in Observing /\ seen'[t] = seen[t]
            /\ todo'[t] \subseteq todo[t]
            /\ pc'[t] \in {"forge", "adopt"} =>
                 cur'[t] \in todo[t] \/ (cur'[t] = cur[t] /\ pc[t] \in {"forge", "adopt"})
            /\ \A p \in todo[t] \ todo'[t] : p = cur'[t]
            /\ cur'[t] # cur[t] /\ cur[t] # NoPool => EndPool(t)
<1> DEFINE Goal ==
      /\ pc[t] \in Observing /\ seen'[t] = seen[t]
      /\ todo'[t] \subseteq todo[t]
      /\ pc'[t] \in {"forge", "adopt"} =>
           cur'[t] \in todo[t] \/ (cur'[t] = cur[t] /\ pc[t] \in {"forge", "adopt"})
      /\ \A p \in todo[t] \ todo'[t] : p = cur'[t]
      /\ cur'[t] # cur[t] /\ cur[t] # NoPool => EndPool(t)
<1>0. t \in Activities
  BY DEF Activities
<1> USE DEF Observing, Judging
<1>1. CASE BeginTick(t) /\ Works
  BY <1>0, <1>1, FleetAssumption DEF BeginTick, Works, TypeOK
<1>2. CASE Aside(t)
  BY <1>2 DEF Aside
<1>3. CASE \/ Admit(t) \/ EndTick(t)
           \/ \E p \in Pools : LaunchPool(t, p)
           \/ \E r \in Runners : Provision(t, r)
  <2>1. pc'[t] \in {"launch", "idle"}
    <3>1. CASE Admit(t) \/ EndTick(t)
      BY <1>0, <3>1 DEF Admit, EndTick, TypeOK
    <3>2. CASE \E p \in Pools : LaunchPool(t, p)
      BY <3>2 DEF LaunchPool
    <3>3. CASE \E r \in Runners : Provision(t, r)
      BY <1>0, <3>3, ProvisioningSteps
    <3> QED BY <1>3, <3>1, <3>2, <3>3
  <2> QED BY <2>1
<1>4. CASE EndPool(t)
  BY <1>0, <1>4 DEF EndPool, TypeOK
<1>5. CASE pc'[t] = "forge" /\ \E p \in Pools : ReadRows(t, p)
  <2>1. PICK p \in Pools : ReadRows(t, p)
    BY <1>5
  <2>2. /\ pc[t] = "pools" /\ p \in todo[t] /\ seen' = seen
        /\ todo'[t] = todo[t] \ {p} /\ cur'[t] = p
    BY <1>0, <1>5, <2>1 DEF ReadRows, TypeOK
  <2>3. cur[t] = NoPool
    BY <2>2 DEF PlanningNests
  <2> QED BY <2>2, <2>3
<1>6. CASE pc'[t] = "adopt" /\ ReadForge(t)
  <2>1. ~PoolDropped(t)
    BY <1>0, <1>6 DEF PoolDropped, TypeOK
  <2>2. pc[t] = "forge" /\ UNCHANGED <<seen, todo, cur>>
    BY <1>6, <2>1 DEF ReadForge
  <2> QED BY <1>6, <2>2
<1>7. CASE pc'[t] = "settle" /\ (Adopt(t) \/ \E r \in Runners : SettleRetire(t, r) \/ SettleMove(t, r))
  <2>1. ~PoolDropped(t)
    BY <1>0, <1>7 DEF PoolDropped, TypeOK
  <2>2. pc[t] \in {"adopt", "settle"} /\ UNCHANGED <<seen, todo, cur>>
    BY <1>7, <2>1 DEF Adopt, SettleRetire, SettleMove, Settling
  <2> QED BY <1>7, <2>2
<1>8. CASE \/ pc'[t] = "sweep" /\ (EndSettle(t) \/ \E r \in Runners : Sweep(t, r))
           \/ pc'[t] = "apply" /\ (PlanPool(t) \/ \E r \in Runners : Apply(t, r))
  <2>1. /\ pc[t] \in {"settle", "sweep", "apply"} /\ UNCHANGED <<seen, todo, cur>>
        /\ pc'[t] \in {"sweep", "apply"}
    BY <1>8 DEF EndSettle, Sweep, PlanPool, Apply
  <2> QED BY <2>1
<1>9. CASE pc'[t] = pc[t] /\ (Calls(t) \/ RetireSave(t))
  <2>1. pc[t] \in {"settle", "apply"}
    BY <1>9, RetirementsAreInside DEF Calls, RetireNext
  <2>2. UNCHANGED <<seen, todo, cur>>
    <3>1. ~PoolDropped(t)
      BY <1>0, <1>9, <2>1 DEF PoolDropped, TypeOK
    <3> QED BY <1>9, <3>1 DEF Calls, RetireStop, RetireRemove, RetireDereg, RetireSave
  <2> QED BY <1>9, <2>1, <2>2
<1> QED BY <1>1, <1>2, <1>3, <1>4, <1>5, <1>6, <1>7, <1>8, <1>9 DEF SmoothStep

(* Nobody is counted for a pool who was not, except when it launches.      *)
LEMMA NobodyNewCounts ==
  ASSUME PassInv, PlanningNests, HandsAreFree, SettlingIsOfKnown,
         ObjectsAreWhole, ContainersStart, BusyAreSpent,
         OnePass, NEW t \in Tickers, NEW r \in Runners, Next, faults' = 0, SmoothStep(t),
         MayCount(t, PoolOf[r], r)', ~LaunchPool(t, PoolOf[r])
  PROVE  MayCount(t, PoolOf[r], r)
<1>0. TypeOK /\ PassesNest
  BY DEF PassInv
<1>1. CASE OnHost(r)'
  <2>1. CASE OnHost(r)
    BY <2>1 DEF MayCount
  <2>2. CASE pc[t] = "adopt" /\ PoolOf[r] = cur[t] /\ seen[t][r] = "running"
    BY <2>2 DEF MayCount, Observing, Judging
  <2>3. CASE PoolOf[r] = cur[t] /\ IsActive(work[t][r])
    BY <2>3 DEF MayCount
  <2> QED BY <1>0, <1>1, <2>1, <2>2, <2>3, NewOnHost
<1>2. CASE PoolOf[r] = cur'[t] /\ IsActive(work'[t][r])
  <2>1. ObjectMoves(t, r)
    BY <1>0, ObjectsMove
  <2>2. CASE work'[t][r] = work[t][r]
    <3>1. IsActive(work[t][r]) /\ work[t][r].state # Absent
      BY <1>2, <2>2, ActiveIsLive
    <3>2. PoolOf[r] = cur[t]
      BY <3>1 DEF ObjectsAreWhole, IsWhole
    <3> QED BY <3>1, <3>2 DEF MayCount
  <2>3. CASE work'[t][r] = row[r]
    BY <1>2, <2>3 DEF MayCount, OnHost
  <2>4. CASE Adopt(t) /\ r \in Unknown(t)
    <3>1. seen[t][r] = "running" /\ pc[t] = "adopt" /\ PoolOf[r] = cur[t]
      BY <1>0, <1>2, <2>4, AdoptionTells DEF Unknown, IsActive, ActiveStates
    <3> QED BY <3>1 DEF MayCount, Observing, Judging
  <2>5. CASE SettleMove(t, r)
    <3>1. work[t][r].state \in Settled
      BY <1>0, <2>5, MovesKeepWhole
    <3>2. PoolOf[r] = cur[t] /\ IsActive(work[t][r])
      BY <3>1 DEF ObjectsAreWhole, IsWhole, Settled, Absent, IsActive, ActiveStates
    <3> QED BY <3>2 DEF MayCount
  <2>6. work'[t][r].state \notin {Absent, "retired"}
    BY <1>2 DEF IsActive, ActiveStates, Absent
  <2> QED BY <2>1, <2>2, <2>3, <2>4, <2>5, <2>6 DEF ObjectMoves
<1>3. CASE /\ pc'[t] \in Observing /\ seen'[t][r] = "running"
           /\ \/ PoolOf[r] \in todo'[t]
              \/ PoolOf[r] = cur'[t] /\ pc'[t] \in {"forge", "adopt"}
  <2>1. CASE seen'[t] = ctr
    BY <1>3, <2>1 DEF MayCount, OnHost
  <2>2. CASE seen'[t] # ctr
    BY <1>0, <1>3, <2>2, PassesLookOnce DEF MayCount
  <2> QED BY <2>1, <2>2
<1>4. \/ OnHost(r)'
      \/ PoolOf[r] = cur'[t] /\ IsActive(work'[t][r])
      \/ /\ pc'[t] \in Observing /\ seen'[t][r] = "running"
         /\ \/ PoolOf[r] \in todo'[t]
            \/ PoolOf[r] = cur'[t] /\ pc'[t] \in {"forge", "adopt"}
  BY DEF MayCount, IsActive
<1> QED BY <1>1, <1>2, <1>3, <1>4

-----------------------------------------------------------------------------
(* Room for everybody.                                                     *)

(* A launch brings as many to the host as were granted at most, all of     *)
(* that pool.                                                              *)
LEMMA LaunchesBring ==
  ASSUME TypeOK, NEW t \in Tickers, NEW p \in Pools, LaunchPool(t, p)
  PROVE  /\ pc[t] = "launch" /\ UNCHANGED <<pc, cur, work>> /\ want[t][p] > 0
         /\ want'[t] = [want[t] EXCEPT ![p] = 0]
         /\ \E R \in SUBSET Runners :
              /\ Cardinality(R) <= want[t][p]
              /\ \A r \in Runners : OnHost(r)' => OnHost(r) \/ r \in R
<1> DEFINE ids == {r \in Runners : PoolOf[r] = p /\ Fresh(r)}
<1>0. t \in Activities /\ want[t][p] \in Nat
  BY DEF Activities, TypeOK
<1>1. PICK R \in SUBSET ids :
        /\ Cardinality(R) = LesserOf(want[t][p], Cardinality(ids))
        /\ prov' = [r \in Runners |-> IF r \in R THEN "new" ELSE prov[r]]
  BY DEF LaunchPool
<1>2. Cardinality(ids) \in Nat
  BY FewerCountLess
<1>3. Cardinality(R) <= want[t][p]
  <2> HIDE DEF ids
  <2> QED BY <1>0, <1>1, <1>2 DEF LesserOf
<1>4. row' = row /\ ctr' = ctr
  BY DEF LaunchPool, world
<1>5. \A r \in Runners : OnHost(r)' => OnHost(r) \/ r \in R
  BY <1>1, <1>4 DEF OnHost, IsActive
<1>6. /\ pc[t] = "launch" /\ UNCHANGED <<pc, cur, work>> /\ want[t][p] > 0
      /\ want'[t] = [want[t] EXCEPT ![p] = 0]
  BY <1>0 DEF LaunchPool, TypeOK
<1>7. R \in SUBSET Runners
  OBVIOUS
<1> QED BY <1>3, <1>5, <1>6, <1>7

(* Every pool keeps within max_runners, whoever counts.                    *)
LEMMA PoolsStayFit ==
  ASSUME PassInv, PlanningNests, HandsAreFree, SettlingIsOfKnown,
         ObjectsAreWhole, ContainersStart, BusyAreSpent, PoolsFit, RoomIsKept,
         OnePass, NEW t \in Tickers, Next, faults' = 0, SmoothStep(t)
  PROVE  PoolsFit'
<1> SUFFICES ASSUME NEW p \in Pools
             PROVE  Cardinality(Counted(t, p)') <= PoolSpec[p].max_runners
  BY DEF PoolsFit, OnePass
<1>0. /\ TypeOK /\ want[t][p] \in Nat /\ PoolSpec[p].max_runners \in Nat
      /\ Cardinality(Counted(t, p)) <= PoolSpec[p].max_runners
  BY FleetAssumption DEF PassInv, Activities, TypeOK, IsPoolSpec, PoolsFit
<1>1. CASE LaunchPool(t, p)
  <2>1. PICK R \in SUBSET Runners :
          /\ Cardinality(R) <= want[t][p]
          /\ \A r \in Runners : OnHost(r)' => OnHost(r) \/ r \in R
    BY <1>0, <1>1, LaunchesBring
  <2>2. /\ pc[t] = "launch" /\ UNCHANGED <<pc, cur, work>> /\ want[t][p] > 0
        /\ cur[t] = NoPool
    BY <1>0, <1>1, LaunchesBring DEF PlanningNests, Judging
  <2>3. Counted(t, p)' \subseteq Present(p) \cup R
    BY <2>1, <2>2, FleetAssumption DEF Counted, MayCount, Present, Observing, Judging
  <2>4. want[t][p] + Cardinality(Present(p)) <= PoolSpec[p].max_runners
    BY <2>2 DEF RoomIsKept
  <2>5. /\ IsFiniteSet(Present(p)) /\ IsFiniteSet(R) /\ IsFiniteSet(Present(p) \cup R)
        /\ Cardinality(Present(p) \cup R)
             = Cardinality(Present(p)) + Cardinality(R) - Cardinality(Present(p) \cap R)
    BY FleetAssumption, FS_Subset, FS_Union DEF Present
  <2>6. /\ Cardinality(Present(p)) \in Nat /\ Cardinality(R) \in Nat
        /\ Cardinality(Present(p) \cap R) \in Nat
    BY <2>5, FS_Intersection, FS_CardinalityType
  <2>7. /\ Cardinality(Counted(t, p)') \in Nat
        /\ Cardinality(Counted(t, p)') <= Cardinality(Present(p) \cup R)
    BY <2>3, <2>5, FS_Subset, FS_CardinalityType
  <2> QED BY <1>0, <2>1, <2>4, <2>5, <2>6, <2>7
<1>2. CASE ~LaunchPool(t, p)
  <2>1. Counted(t, p)' \subseteq Counted(t, p)
    <3> SUFFICES ASSUME NEW r \in Runners, PoolOf[r] = p, MayCount(t, p, r)'
                 PROVE  MayCount(t, p, r)
      BY DEF Counted
    <3>1. MayCount(t, PoolOf[r], r)'
      OBVIOUS
    <3>2. MayCount(t, PoolOf[r], r)
      BY <1>2, <3>1, NobodyNewCounts
    <3> QED BY <3>2
  <2>2. Counted(t, p) \subseteq Runners
    BY DEF Counted
  <2> QED BY <1>0, <2>1, <2>2, FewerCountLess
<1> QED BY <1>1, <1>2

(* While a pool is not launched, and the pass is not about to adopt or to  *)
(* settle for it, nobody of it comes to the host.                          *)
LEMMA NobodyNewIsPresent ==
  ASSUME PassInv, SettlingIsOfKnown, ObjectsAreWhole, ContainersStart, BusyAreSpent,
         OnePass, NEW t \in Tickers, NEW p \in Pools, Next, faults' = 0,
         ~LaunchPool(t, p), ~(pc[t] \in {"adopt", "settle"} /\ p = cur[t])
  PROVE  /\ Present(p)' \subseteq Present(p)
         /\ Cardinality(Present(p)') \in Nat /\ Cardinality(Present(p)) \in Nat
         /\ Cardinality(Present(p)') <= Cardinality(Present(p))
<1>1. ASSUME NEW r \in Runners, PoolOf[r] = p, OnHost(r)' PROVE OnHost(r)
  BY <1>1, NewOnHost DEF PassInv
<1>2. Present(p)' \subseteq Present(p) /\ Present(p) \subseteq Runners
  BY <1>1 DEF Present
<1> QED BY <1>2, FewerCountLess

(* Once its plan is carried out, whom a pool has on the host the pass      *)
(* knows to be active.                                                     *)
LEMMA PresentAreKnown ==
  ASSUME LaunchesNest, ActiveAreKnown, RunningAreKnown, NEW t \in Tickers, pc[t] = "apply",
         NEW r \in Present(cur[t])
  PROVE  r \in Runners /\ IsActive(work[t][r])
<1>1. r \in Runners /\ PoolOf[r] = cur[t] /\ prov[r] = "none"
  BY DEF Present, LaunchesNest
<1>2. CASE IsActive(row[r])
  BY <1>1, <1>2 DEF ActiveAreKnown, Judging
<1>3. CASE ctr[r] = "running"
  BY <1>1, <1>3 DEF RunningAreKnown
<1> QED BY <1>1, <1>2, <1>3 DEF Present, OnHost

(* The room a plan found stays until it is used.                           *)
LEMMA RoomStaysKept ==
  ASSUME PassInv, RoomInv, LaunchesNest, SettlingIsOfKnown,
         ObjectsAreWhole, ContainersStart, BusyAreSpent, RunningAreKnown, RoomIsKept,
         OnePass, NEW t \in Tickers, Next, faults' = 0, SmoothStep(t)
  PROVE  RoomIsKept'
<1> SUFFICES ASSUME NEW p \in Pools, want'[t][p] > 0, ~(pc'[t] = "apply" /\ p = cur'[t])
             PROVE  want'[t][p] + Cardinality(Present(p)') <= PoolSpec[p].max_runners
  BY DEF RoomIsKept, OnePass
<1>0. /\ TypeOK /\ PassesNest /\ PlansAreHeeded /\ t \in Activities
      /\ want[t][p] \in Nat /\ want'[t][p] \in Nat /\ PoolSpec[p].max_runners \in Nat
  <2>1. t \in Activities /\ TypeOK /\ TypeOK'
    BY StepIsTyped DEF Activities, PassInv
  <2> QED BY <2>1, FleetAssumption DEF TypeOK, IsPoolSpec, PassInv
<1>1. want'[t][p] <= want[t][p] /\ want[t][p] > 0
  <2>1. ASSUME PlanPool(t), p = cur[t] PROVE FALSE
    BY <1>0, <2>1 DEF PlanPool, TypeOK
  <2>2. want'[t][p] <= want[t][p]
    BY <1>0, <2>1, OnlyPlansWantMore
  <2> QED BY <1>0, <2>2
<1>2. /\ Cardinality(Present(p)') \in Nat /\ Cardinality(Present(p)) \in Nat
      /\ Cardinality(Present(p)') <= Cardinality(Present(p))
  <2>1. ~LaunchPool(t, p)
    <3> SUFFICES ASSUME LaunchPool(t, p) PROVE FALSE
      OBVIOUS
    <3>1. want'[t] = [want[t] EXCEPT ![p] = 0]
      BY <1>0, LaunchesBring
    <3> QED BY <1>0, <3>1 DEF TypeOK
  <2>2. ~(pc[t] \in {"adopt", "settle"} /\ p = cur[t])
    BY <1>1 DEF RoomInv, PlannedOnce, Observing, Judging
  <2> QED BY <2>1, <2>2, NobodyNewIsPresent
<1>3. want[t][p] + Cardinality(Present(p)) <= PoolSpec[p].max_runners
  <2>1. CASE ~(pc[t] = "apply" /\ p = cur[t])
    BY <1>1, <2>1 DEF RoomIsKept
  <2>2. CASE pc[t] = "apply" /\ p = cur[t]
    <3>1. EndPool(t)
      BY <1>0, <2>2, LeavingApply DEF NoCount, RoomInv
    <3>2. Present(p) \subseteq Staying(t)
      BY <2>2, <3>1, PresentAreKnown DEF EndPool, Staying, RoomInv
    <3>3. Cardinality(Staying(t)) \in Nat /\ Cardinality(Present(p)) <= Cardinality(Staying(t))
      BY <3>2, FewerCountLess DEF Staying
    <3>4. want[t][p] + Cardinality(Staying(t)) <= PoolSpec[p].max_runners
      BY <1>1, <2>2 DEF RoomInv, RoomWhilePlanned
    <3> QED BY <1>0, <1>2, <3>3, <3>4
  <2> QED BY <2>1, <2>2
<1> QED BY <1>0, <1>1, <1>2, <1>3

(* What was counted for a pool stands while the pass observes another.     *)
LEMMA CountsStand ==
  ASSUME TypeOK, OnePass, NEW t \in Tickers, NEW p \in Pools, Next, faults' = 0,
         pc'[t] \in Observing, p # cur[t]
  PROVE  held'[t][p] = held[t][p]
<1>0. t \in Activities /\ (\A u \in Tickers : u = t) /\ ~Fails
  BY NothingFails DEF Activities, OnePass
<1>1. CASE Crash
  BY <1>0, <1>1 DEF Crash
<1>2. CASE \/ \E r \in Runners : World(r)
           \/ \E q \in Pools : Arrive(q)
           \/ \E u \in Activities : RetireNext(u)
           \/ \E u \in Operators, r \in Runners : OperatorStop(u, r)
  BY <1>2 DEF World, Boot, TakeJob, FinishJob, Exit, Accident, Disconnect, Elapse, Prune,
     Arrive, RetireNext, RetireStop, RetireRemove, RetireDereg, RetireSave, RetireRefused,
     OperatorStop, PoolDropped, memory
<1>3. CASE Tick(t)
  <2>1. CASE EndPool(t)
    BY <1>0, <2>1 DEF EndPool, TypeOK
  <2>2. CASE Admit(t)
    BY <1>0, <2>2 DEF Admit, Observing, Judging, TypeOK
  <2>3. CASE \E r \in Runners : Provision(t, r)
    BY <2>3 DEF Provision, SavePending, Mint, SaveRegistered, CreateContainer, SaveStarting,
       Abandon, SaveFailed, provMemory
  <2>4. CASE Tick(t) /\ ~(EndPool(t) \/ Admit(t) \/ \E r \in Runners : Provision(t, r))
    BY <2>4 DEF Tick, BeginTick, ReadRows, ReadForge, Adopt, EndSettle, PlanPool, EndTick,
       LaunchPool, Settle, SettleWait, SettleRetire, SettleMove, SettleRefused, Sweep, Apply,
       PoolDropped
  <2> QED BY <1>3, <2>1, <2>2, <2>3, <2>4
<1> QED BY <1>0, <1>1, <1>2, <1>3 DEF Next

(* A pool that was planned has no more on the host than was counted.       *)
LEMMA PlannedStayHeld ==
  ASSUME PassInv, RoomInv, LaunchesNest, SettlingIsOfKnown,
         ObjectsAreWhole, ContainersStart, BusyAreSpent, RunningAreKnown, PlannedAreHeld,
         OnePass, NEW t \in Tickers, Next, faults' = 0, SmoothStep(t)
  PROVE  PlannedAreHeld'
<1> SUFFICES ASSUME NEW p \in Pools, pc'[t] \in Observing, p \notin todo'[t], p # cur'[t]
             PROVE  Cardinality(Present(p)') <= held'[t][p]
  BY DEF PlannedAreHeld, OnePass
<1>0. /\ TypeOK /\ TypeOK' /\ PassesNest /\ PlanningNests /\ t \in Activities
      /\ held[t][p] \in Nat /\ held'[t][p] \in Nat
  <2>1. t \in Activities /\ TypeOK /\ TypeOK'
    BY StepIsTyped DEF Activities, PassInv
  <2> QED BY <2>1 DEF TypeOK, PassInv, RoomInv
<1>1. /\ pc[t] \in Observing /\ p \notin todo[t]
      /\ cur'[t] # cur[t] /\ cur[t] # NoPool => EndPool(t)
  BY <1>0, PassesLookOnce
<1>2. ~LaunchPool(t, p)
  BY <1>1 DEF LaunchPool, Observing, Judging
<1>3. CASE p = cur[t]
  <2>1. EndPool(t)
    BY <1>0, <1>1, <1>3, FleetAssumption
  <2>2. pc[t] = "apply" /\ held'[t][p] = Committed(t)
    BY <1>0, <1>3, <2>1 DEF EndPool, TypeOK
  <2>3. Present(p)' \subseteq Present(p) /\ Present(p)' \subseteq Runners
    BY <1>2, <2>2, NobodyNewIsPresent DEF Present
  <2>4. Present(p)' \subseteq {r \in Runners : IsActive(work[t][r])}
    BY <1>3, <2>2, <2>3, PresentAreKnown DEF RoomInv
  <2>5. Cardinality(Present(p)') <= Committed(t)
    BY <2>4, FewerCountLess DEF Committed
  <2> QED BY <2>2, <2>5
<1>4. CASE p # cur[t]
  <2>1. Cardinality(Present(p)) <= held[t][p]
    BY <1>1, <1>4 DEF PlannedAreHeld
  <2>2. /\ Cardinality(Present(p)') <= Cardinality(Present(p))
        /\ Cardinality(Present(p)') \in Nat /\ Cardinality(Present(p)) \in Nat
    BY <1>2, <1>4, NobodyNewIsPresent
  <2>3. held'[t][p] = held[t][p]
    BY <1>0, <1>1, <1>4, CountsStand
  <2> QED BY <1>0, <2>1, <2>2, <2>3
<1> QED BY <1>3, <1>4

(* All that are on the host.                                               *)
Hosted == {r \in Runners : OnHost(r)}

(* When every pool has been planned, the host has no more than was counted.*)
LEMMA HeldIsHosted ==
  ASSUME TypeOK, PlanningNests, PlannedAreHeld, NEW t \in Tickers, pc[t] = "pools", todo[t] = {}
  PROVE  Cardinality(Hosted) <= Total(held[t])
<1> DEFINE part == [r \in Hosted |-> PoolOf[r]]
<1>0. t \in Activities /\ held[t] \in [Pools -> Nat] /\ IsFiniteSet(Pools)
  BY FleetAssumption DEF Activities, TypeOK
<1>1. IsFiniteSet(Hosted) /\ part \in [Hosted -> Pools]
  BY FleetAssumption, FS_Subset DEF Hosted
<1>2. cur[t] = NoPool
  BY DEF PlanningNests, Judging
<1>3. ASSUME NEW p \in Pools
      PROVE  Cardinality({r \in Hosted : part[r] = p}) <= held[t][p]
  <2>1. {r \in Hosted : part[r] = p} = Present(p)
    BY DEF Hosted, Present
  <2>2. Cardinality(Present(p)) <= held[t][p]
    BY <1>2, FleetAssumption DEF PlannedAreHeld, Observing
  <2> QED BY <2>1, <2>2
<1> HIDE DEF part
<1> QED BY <1>0, <1>1, <1>3, PartsFitTotal

(* What is granted fits beside whatever is on the host, and stays so while *)
(* it is launched.                                                         *)
LEMMA HostStaysFit ==
  ASSUME PassInv, PlanningNests, SettlingIsOfKnown, ObjectsAreWhole, ContainersStart,
         BusyAreSpent, PlannedAreHeld, HostFits,
         OnePass, NEW t \in Tickers, Next, faults' = 0, SmoothStep(t)
  PROVE  HostFits'
<1> SUFFICES ASSUME pc'[t] = "launch", Total(want'[t]) > 0
             PROVE  Total(want'[t]) + Cardinality(Hosted') <= MaxContainers
  BY DEF HostFits, OnePass, Hosted, OnHost, IsActive
<1>0. /\ TypeOK /\ TypeOK' /\ PassesNest /\ t \in Activities /\ ~Fails
      /\ want[t] \in [Pools -> Nat] /\ want'[t] \in [Pools -> Nat] /\ held[t] \in [Pools -> Nat]
      /\ IsFiniteSet(Pools) /\ MaxContainers \in Nat
  <2>1. TypeOK /\ TypeOK' /\ t \in Activities
    BY StepIsTyped DEF PassInv, Activities
  <2> QED BY <2>1, NothingFails, FleetAssumption DEF PassInv, TypeOK
<1>1. Total(want[t]) \in Nat /\ Total(want'[t]) \in Nat /\ Total(held[t]) \in Nat
  BY <1>0, TotalIsNatural
<1>2. ASSUME NEW r \in Runners, OnHost(r)' PROVE OnHost(r) \/ LaunchPool(t, PoolOf[r])
  <2>1. pc[t] \notin {"adopt", "settle"}
    BY <1>0 DEF SmoothStep, Aside, BeginTick, EndPool, Admit, EndTick, LaunchPool, Provision,
       SettleRetire, Settling, Calls, RetireStop, RetireRemove, RetireDereg, RetireSave,
       PassesNest, TypeOK
  <2> QED BY <1>0, <1>2, <2>1, NewOnHost
<1>3. CASE pc[t] = "launch" /\ \E p \in Pools : LaunchPool(t, p)
  <2>1. PICK p \in Pools : LaunchPool(t, p)
    BY <1>3
  <2>2. PICK R \in SUBSET Runners :
          /\ Cardinality(R) <= want[t][p]
          /\ \A r \in Runners : OnHost(r)' => OnHost(r) \/ r \in R
    BY <1>0, <2>1, LaunchesBring
  <2>3. want'[t] = [want[t] EXCEPT ![p] = 0] /\ want[t][p] \in Nat
    BY <1>0, <2>1, LaunchesBring
  <2>4. Total(want'[t]) + want[t][p] = Total(want[t])
    <3>1. /\ want'[t][p] = 0
          /\ \A q \in Pools \ {p} : want'[t][q] = want[t][q]
      BY <1>0, <2>3
    <3>2. Total(want'[t]) + want[t][p] = Total(want[t]) + want'[t][p]
      BY <1>0, <3>1, TotalOfOneChanged
    <3> QED BY <1>1, <3>1, <3>2
  <2>5. Total(want[t]) + Cardinality(Hosted) <= MaxContainers
    BY <1>1, <1>3, <2>3, <2>4 DEF HostFits, Hosted
  <2>6. Hosted' \subseteq Hosted \cup R
    BY <2>2 DEF Hosted
  <2>7. /\ IsFiniteSet(Hosted) /\ IsFiniteSet(R) /\ IsFiniteSet(Hosted \cup R)
        /\ Cardinality(Hosted \cup R)
             = Cardinality(Hosted) + Cardinality(R) - Cardinality(Hosted \cap R)
    BY FleetAssumption, FS_Subset, FS_Union DEF Hosted
  <2>8. /\ Cardinality(Hosted) \in Nat /\ Cardinality(R) \in Nat
        /\ Cardinality(Hosted \cap R) \in Nat
    BY <2>7, FS_Intersection, FS_CardinalityType
  <2>9. Cardinality(Hosted') \in Nat /\ Cardinality(Hosted') <= Cardinality(Hosted \cup R)
    BY <2>6, <2>7, FS_Subset, FS_CardinalityType
  <2> QED BY <1>0, <1>1, <2>2, <2>3, <2>4, <2>5, <2>7, <2>8, <2>9
<1>4. ASSUME ~\E p \in Pools : LaunchPool(t, p)
      PROVE  /\ Cardinality(Hosted') <= Cardinality(Hosted)
             /\ Cardinality(Hosted') \in Nat /\ Cardinality(Hosted) \in Nat
  <2>1. Hosted' \subseteq Hosted
    BY <1>2, <1>4, FleetAssumption DEF Hosted
  <2>2. Hosted \subseteq Runners
    BY DEF Hosted
  <2> QED BY <2>1, <2>2, FewerCountLess
<1>5. CASE Admit(t)
  <2>1. pc[t] = "pools" /\ todo[t] = {}
    BY <1>5 DEF Admit
  <2>2. Total(want'[t]) + Total(held[t]) <= MaxContainers
    BY <1>0, <1>5, GrantsFitRoom
  <2>4. Cardinality(Hosted) <= Total(held[t])
    BY <1>0, <2>1, HeldIsHosted
  <2>5. ~\E p \in Pools : LaunchPool(t, p)
    BY <2>1 DEF LaunchPool
  <2> QED BY <1>0, <1>1, <1>4, <2>2, <2>4, <2>5
<1>6. CASE pc[t] = "launch" /\ want'[t] = want[t] /\ ~\E p \in Pools : LaunchPool(t, p)
  <2>1. Total(want[t]) + Cardinality(Hosted) <= MaxContainers
    BY <1>6 DEF HostFits, Hosted
  <2> QED BY <1>0, <1>1, <1>4, <1>6, <2>1
<1>7. \/ pc[t] = "launch" /\ \E p \in Pools : LaunchPool(t, p)
      \/ Admit(t)
      \/ pc[t] = "launch" /\ want'[t] = want[t]
  <2>1. CASE Aside(t)
    BY <2>1 DEF Aside
  <2>2. CASE \E p \in Pools : LaunchPool(t, p)
    BY <2>2 DEF LaunchPool
  <2>3. CASE \E r \in Runners : Provision(t, r)
    <3>1. pc[t] = "launch"
      BY <2>3 DEF Provision
    <3>2. want' = want
      BY <2>3 DEF Provision, SavePending, Mint, SaveRegistered, CreateContainer, SaveStarting,
         Abandon, SaveFailed, provMemory
    <3> QED BY <3>1, <3>2
  <2>4. CASE (BeginTick(t) /\ Works) \/ EndPool(t) \/ EndTick(t)
    BY <1>0, <2>4 DEF BeginTick, EndPool, EndTick, Works, Fails, TypeOK
  <2>5. CASE pc'[t] = pc[t] /\ (Calls(t) \/ RetireSave(t))
    BY <1>0, <2>5, RetirementsAreInside DEF Calls, RetireNext
  <2> QED BY <2>1, <2>2, <2>3, <2>4, <2>5 DEF SmoothStep
<1> QED BY <1>3, <1>5, <1>6, <1>7

-----------------------------------------------------------------------------
(* Together.                                                               *)

(* What a pass relies on while nothing fails, with what it always does.    *)
CeilingInv ==
  /\ PassInv /\ RoomInv /\ LaunchesNest /\ HandsAreFree /\ SettlingIsOfKnown
  /\ faults = 0 => SmoothInv

(* It holds when nothing runs ...                                          *)
LEMMA SmoothInvStarts == Init => SmoothInv
<1> SUFFICES ASSUME Init PROVE SmoothInv
  OBVIOUS
<1>1. ASSUME NEW r \in Runners
      PROVE  /\ row[r] = NoRow /\ row[r].state = Absent /\ ctr[r] = "none" /\ prov[r] = "none"
             /\ ~OnHost(r)
  BY DEF Init, NoWork, NoRow, Unseen, OnHost, IsActive, ActiveStates, Absent
<1>2. ASSUME NEW t \in Tickers
      PROVE  /\ pc[t] = "idle" /\ want[t] = NoCount /\ cur[t] = NoPool /\ ret[t].step = "none"
             /\ \A r \in Runners : work[t][r].state = Absent /\ seen[t][r] = "none"
  BY DEF Init, Activities, NoWork, NoRow, Unseen, NoRetirement
<1>3. Cardinality({}) = 0
  BY FS_EmptySet
<1>4. RowsAreWhole /\ ContainersStart /\ BusyAreSpent
  BY <1>1, <1>2 DEF RowsAreWhole, ContainersStart, BusyAreSpent, Settled, Absent, Judging
<1>5. ObjectsAreWhole /\ RunningAreKnown /\ RetiredAreDown
  BY <1>2 DEF ObjectsAreWhole, IsWhole, RunningAreKnown, RetiredAreDown, Settled, Absent
<1>6. PoolsFit
  <2> SUFFICES ASSUME NEW t \in Tickers, NEW p \in Pools
               PROVE  Cardinality(Counted(t, p)) <= PoolSpec[p].max_runners
    BY DEF PoolsFit
  <2>1. Counted(t, p) = {}
    BY <1>1, <1>2 DEF Counted, MayCount, IsActive, ActiveStates, Absent
  <2>2. PoolSpec[p].max_runners \in Nat
    BY FleetAssumption DEF IsPoolSpec
  <2> QED BY <1>3, <2>1, <2>2
<1>7. RoomIsKept /\ PlannedAreHeld /\ HostFits
  BY <1>2 DEF RoomIsKept, PlannedAreHeld, HostFits, NoCount, Observing, Judging
<1> QED BY <1>4, <1>5, <1>6, <1>7 DEF SmoothInv

(* A failure is not forgotten.                                             *)
LEMMA FailuresStay ==
  ASSUME TypeOK, Next, faults' = 0
  PROVE  faults = 0
<1>1. faults \in Nat
  BY FleetAssumption DEF TypeOK
<1> USE <1>1
<1>2. CASE \E r \in Runners : World(r)
  BY <1>2 DEF World, Boot, TakeJob, FinishJob, Exit, Accident, Disconnect, Elapse, Prune, Fails
<1>3. CASE (\E p \in Pools : Arrive(p)) \/ Crash
  BY <1>3 DEF Arrive, Crash, Fails
<1>4. CASE \E t \in Activities : RetireNext(t)
  <2>1. PICK t \in Activities : RetireNext(t)
    BY <1>4
  <2>2. CASE RetireStop(t) \/ RetireRemove(t) \/ RetireDereg(t)
    BY <2>2 DEF RetireStop, RetireRemove, RetireDereg, Works, Fails
  <2>3. CASE RetireSave(t) \/ RetireRefused(t)
    BY <2>3 DEF RetireSave, RetireRefused, world
  <2> QED BY <2>1, <2>2, <2>3 DEF RetireNext
<1>5. CASE \E t \in Operators, r \in Runners : OperatorStop(t, r)
  BY <1>5 DEF OperatorStop, world
<1>6. CASE \E t \in Tickers : Tick(t)
  <2>1. PICK t \in Tickers : Tick(t)
    BY <1>6
  <2>2. CASE BeginTick(t) \/ ReadForge(t) \/ Admit(t) \/ \E p \in Pools : ReadRows(t, p)
    BY <2>2 DEF BeginTick, ReadForge, Admit, ReadRows, Works, Fails
  <2>3. CASE Adopt(t) \/ EndSettle(t) \/ PlanPool(t) \/ EndPool(t) \/ EndTick(t)
    BY <2>3 DEF Adopt, EndSettle, PlanPool, EndPool, EndTick, world
  <2>4. CASE \E p \in Pools : LaunchPool(t, p)
    BY <2>4 DEF LaunchPool, world
  <2>5. CASE \E r \in Runners : Settle(t, r)
    BY <2>5 DEF Settle, SettleWait, SettleRetire, SettleMove, SettleRefused, world
  <2>6. CASE \E r \in Runners : Sweep(t, r) \/ Apply(t, r)
    BY <2>6 DEF Sweep, Apply, Works, Fails, world
  <2>7. CASE \E r \in Runners : Provision(t, r)
    <3>1. PICK r \in Runners : Provision(t, r)
      BY <2>7
    <3>2. CASE SavePending(t, r) \/ SaveRegistered(t, r) \/ SaveStarting(t, r) \/ SaveFailed(t, r)
      BY <3>2 DEF SavePending, SaveRegistered, SaveStarting, SaveFailed
    <3>3. CASE Mint(t, r) \/ CreateContainer(t, r) \/ Abandon(t, r)
      BY <3>3 DEF Mint, CreateContainer, Abandon, Works, Fails
    <3> QED BY <3>1, <3>2, <3>3 DEF Provision
  <2> QED BY <2>1, <2>2, <2>3, <2>4, <2>5, <2>6, <2>7 DEF Tick
<1> QED BY <1>2, <1>3, <1>4, <1>5, <1>6 DEF Next

(* ... and every step keeps it.                                            *)
LEMMA CeilingInvIsKept ==
  ASSUME OnePass, NEW t \in Tickers, CeilingInv, [Next]_vars
  PROVE  CeilingInv'
<1> USE DEF CeilingInv
<1>1. PassInv' /\ RoomInv'
  BY PassInvIsKept, RoomInvIsKept
<1>2. CASE Next
  <2>1. TypeOK /\ PassesNest
    BY DEF PassInv
  <2>2. LaunchesNest' /\ HandsAreFree' /\ SettlingIsOfKnown'
    BY <1>2, <2>1, LaunchesStayNested, HandsStayFree, SettlingStaysOfKnown
  <2>3. ASSUME faults' = 0 PROVE SmoothInv'
    <3>1. faults = 0
      BY <1>2, <2>1, <2>3, FailuresStay
    <3>2. /\ RowsAreWhole /\ ObjectsAreWhole /\ ContainersStart /\ BusyAreSpent
          /\ RunningAreKnown /\ RetiredAreDown /\ PoolsFit /\ RoomIsKept
          /\ PlannedAreHeld /\ HostFits /\ PlanningNests /\ ActiveAreKnown
      BY <3>1 DEF SmoothInv, RoomInv
    <3>3. SmoothStep(t)
      BY <1>2, <2>3, <3>2, NothingIsGivenUp
    <3>4. RowsAreWhole'
      BY <1>2, <2>1, <2>3, <3>2, RowsStayWhole
    <3>5. ObjectsAreWhole'
      BY <1>2, <2>3, <3>2, ObjectsStayWhole
    <3>6. ContainersStart'
      BY <1>2, <2>1, <2>3, <3>2, ContainersStayStarted
    <3>7. BusyAreSpent'
      BY <1>2, <2>3, <3>2, <3>3, BusyStaySpent
    <3>8. RunningAreKnown'
      BY <1>2, <2>3, <3>2, <3>3, RunningStayKnown
    <3>9. RetiredAreDown'
      BY <1>2, <2>3, <3>2, <3>3, RetiredStayDown
    <3>10. PoolsFit'
      BY <1>2, <2>3, <3>2, <3>3, PoolsStayFit
    <3>11. RoomIsKept'
      BY <1>2, <2>3, <3>2, <3>3, RoomStaysKept
    <3>12. PlannedAreHeld'
      BY <1>2, <2>3, <3>2, <3>3, PlannedStayHeld
    <3>13. HostFits'
      BY <1>2, <2>3, <3>2, <3>3, HostStaysFit
    <3> QED BY <3>4, <3>5, <3>6, <3>7, <3>8, <3>9, <3>10, <3>11, <3>12, <3>13 DEF SmoothInv
  <2> QED BY <1>1, <2>2, <2>3
<1>3. CASE UNCHANGED vars
  <2>1. LaunchesNest' /\ HandsAreFree' /\ SettlingIsOfKnown'
    BY <1>3 DEF vars, world, memory, LaunchesNest, HandsAreFree, SettlingIsOfKnown
  <2>2. RowsAreWhole => RowsAreWhole'
    BY <1>3 DEF vars, world, memory, RowsAreWhole
  <2>3. ObjectsAreWhole => ObjectsAreWhole'
    BY <1>3 DEF vars, world, memory, ObjectsAreWhole, IsWhole
  <2>4. ContainersStart => ContainersStart'
    BY <1>3 DEF vars, world, memory, ContainersStart
  <2>5. BusyAreSpent => BusyAreSpent'
    BY <1>3 DEF vars, world, memory, BusyAreSpent, Spent
  <2>6. (RunningAreKnown => RunningAreKnown') /\ (RetiredAreDown => RetiredAreDown')
    BY <1>3 DEF vars, world, memory, RunningAreKnown, RetiredAreDown, IsActive
  <2>7. PoolsFit => PoolsFit'
    BY <1>3 DEF vars, world, memory, PoolsFit, Counted, MayCount, OnHost, IsActive
  <2>8. (RoomIsKept => RoomIsKept') /\ (PlannedAreHeld => PlannedAreHeld')
    BY <1>3 DEF vars, world, memory, RoomIsKept, PlannedAreHeld, Present, OnHost, IsActive
  <2>9. HostFits => HostFits'
    BY <1>3 DEF vars, world, memory, HostFits, OnHost, IsActive
  <2>10. faults' = faults
    BY <1>3 DEF vars, world
  <2> QED BY <1>1, <2>1, <2>2, <2>3, <2>4, <2>5, <2>6, <2>7, <2>8, <2>9, <2>10 DEF SmoothInv
<1> QED BY <1>2, <1>3

(* As long as every call has worked, what the host has up, with what a     *)
(* lone pass is still to launch, stays within max_containers, whatever     *)
(* operators stop and whichever jobs come and end meanwhile (AdmissionPolicy,*)
(* "runners across every pool").                                           *)
THEOREM CeilingAlwaysHolds ==
  ASSUME OnePass
  PROVE  Spec => []CeilingWithoutFaults
<1>1. CASE Tickers = {}
  <2>1. CeilingWithoutFaults
    BY <1>1 DEF CeilingWithoutFaults, HostCeiling
  <2> QED BY <2>1, PTL
<1>2. CASE Tickers # {}
  <2>1. PICK t \in Tickers : TRUE
    BY <1>2
  <2>2. Init => CeilingInv
    BY PassInvStarts, RoomInvStarts, SmoothInvStarts
    DEF CeilingInv, Init, LaunchesNest, HandsAreFree, SettlingIsOfKnown, Activities
  <2>3. CeilingInv /\ [Next]_vars => CeilingInv'
    BY <2>1, CeilingInvIsKept
  <2>4. CeilingInv => CeilingWithoutFaults
    <3> SUFFICES ASSUME CeilingInv, faults = 0, NEW u \in Tickers, pc[u] = "launch",
                        Total(want[u]) > 0
                 PROVE  Total(want[u]) + Cardinality({r \in Runners : IsActive(row[r])})
                          <= MaxContainers
      BY DEF CeilingWithoutFaults, HostCeiling
    <3>1. Total(want[u]) + Cardinality(Hosted) <= MaxContainers
      BY DEF CeilingInv, SmoothInv, HostFits, Hosted
    <3>2. {r \in Runners : IsActive(row[r])} \subseteq Hosted /\ Hosted \subseteq Runners
      BY DEF Hosted, OnHost
    <3>3. /\ Cardinality({r \in Runners : IsActive(row[r])}) <= Cardinality(Hosted)
          /\ Cardinality({r \in Runners : IsActive(row[r])}) \in Nat
          /\ Cardinality(Hosted) \in Nat
      BY <3>2, FewerCountLess
    <3>4. Total(want[u]) \in Nat /\ MaxContainers \in Nat
      <4>1. want[u] \in [Pools -> Nat] /\ IsFiniteSet(Pools)
        BY FleetAssumption DEF CeilingInv, PassInv, TypeOK, Activities
      <4> QED BY <4>1, TotalIsNatural, FleetAssumption
    <3> QED BY <3>1, <3>3, <3>4
  <2> QED BY <2>2, <2>3, <2>4, PTL DEF Spec
<1> QED BY <1>1, <1>2

=============================================================================
