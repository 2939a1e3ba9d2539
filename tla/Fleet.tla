------------------------------- MODULE Fleet -------------------------------
(***************************************************************************)
(* One host's fleet: the reconciliation loop and the two commands it is    *)
(* built from (application/reconciliation.py, commands/provision.py,       *)
(* commands/retire.py), against Docker, GitHub and the SQLite store.       *)
(*                                                                         *)
(* Nothing here is atomic that the code awaits: a pass reads the           *)
(* containers, then per pool the rows, then GitHub's list, and acts on     *)
(* those readings in later steps while runners boot, take jobs and die,    *)
(* the process is killed, and any call fails.                              *)
(*                                                                         *)
(* A runner's id stands for its row, its container and its registration:   *)
(* ids are fresh, the container's labels carry the id and GitHub's id, and *)
(* a registration is minted for one id.  What can diverge is which of the  *)
(* three exist, and what the row knows of the other two (gid, cid).        *)
(***************************************************************************)
EXTENDS ScalingPolicy, Totals

CONSTANTS
  Pools,          (* the configured pools                                  *)
  Runners,        (* supply of runner ids; an id is drawn only when fresh  *)
  PoolOf,         (* PoolOf[r]: the pool an id would be provisioned for    *)
  TargetOf,       (* TargetOf[p]: the repository or organization of pool p *)
  PoolSpec,       (* PoolSpec[p]: the spec the scaling policy reads        *)
  MaxContainers,  (* [capacity].max_containers, for the whole host         *)
  Tickers,        (* the activities of the process that run passes         *)
  Operators,      (* those that retire one runner by hand (API, CLI)       *)
  MaxQueued,      (* bound on jobs waiting in one pool's queue             *)
  MaxFaults,      (* bound on failed calls, crashes and accidents          *)
  StoreLoss,      (* whether a crash may lose the database                 *)
  NoPool,         (* not a pool: nothing is being observed                 *)
  NoRunner        (* not a runner: nothing is being retired                *)

(* A clock with two readings is enough: below the one threshold that       *)
(* concerns a row in its state (REGISTRATION_GRACE, idle_timeout,          *)
(* max_job_duration), or past it.                                          *)
ASSUME FleetAssumption ==
  /\ PoolOf \in [Runners -> Pools]
  /\ IsFiniteSet(Runners)
  /\ IsFiniteSet(Pools)
  /\ \A p \in Pools : /\ IsPoolSpec(PoolSpec[p])
                      /\ PoolSpec[p].idle_timeout = 0
                      /\ PoolSpec[p].max_job_duration = 0
  /\ MaxContainers \in Nat
  /\ MaxQueued \in Nat
  /\ MaxFaults \in Nat
  /\ StoreLoss \in BOOLEAN
  /\ NoPool \notin Pools
  /\ NoRunner \notin Runners
  /\ Tickers \cap Operators = {}

VARIABLES
  (* what survives the process *)
  row,       (* the store: state, aged, and whether it holds GitHub's and  *)
             (* Docker's ids for the runner                                *)
  ctr,       (* the runner's container                                     *)
  reg,       (* the runner's registration, as GitHub would list it         *)
  queued,    (* jobs waiting per pool                                      *)
  faults,    (* failures so far                                            *)
  (* the memory of the process, per activity *)
  pc,        (* where the activity is                                      *)
  seen,      (* the containers, as listed at the start of the pass         *)
  todo,      (* pools the pass has not come to yet                         *)
  cur,       (* the pool being observed                                    *)
  work,      (* that pool's runners, as objects in memory                  *)
  listed,    (* that pool's target, as GitHub listed it                    *)
  jobs,      (* that pool's queue, as read                                 *)
  todoR,     (* runners the current loop has not come to yet               *)
  ret,       (* the retirement under way                                   *)
  want,      (* launches planned, then granted, per pool                   *)
  held,      (* runners each planned pool has up                           *)
  prov       (* per runner: how far its provisioning is                    *)

world == <<row, ctr, reg, queued, faults>>
memory == <<pc, seen, todo, cur, work, listed, jobs, todoR, ret, want, held, prov>>
vars == <<world, memory>>

-----------------------------------------------------------------------------
Row == [ state : RunnerState \cup {Absent}, aged : BOOLEAN,
         gid : BOOLEAN, cid : BOOLEAN ]

NoRow == [state |-> Absent, aged |-> FALSE, gid |-> FALSE, cid |-> FALSE]

ContainerState == {"none", "created", "running", "exited"}

(* GitHub reports a status and a busy flag; a runner that is not listed is *)
(* "none".                                                                 *)
RegState == {"none", "offline", "online", "busy"}

Activities == Tickers \cup Operators

Phase == {"idle", "pools", "forge", "adopt", "settle", "sweep", "apply",
          "launch", "stop"}

RetireStep == {"none", "stop", "remove", "dereg", "save"}

ProvStep == {"none", "new", "saved", "minted", "registered", "created",
             "abandon", "failing"}

NoRetirement == [runner |-> NoRunner, step |-> "none", force |-> FALSE]

Unseen == [r \in Runners |-> "none"]

NoWork == [r \in Runners |-> NoRow]

NoCount == [p \in Pools |-> 0]

Init ==
  /\ row = NoWork
  /\ ctr = Unseen
  /\ reg = Unseen
  /\ queued = NoCount
  /\ faults = 0
  /\ pc = [t \in Activities |-> "idle"]
  /\ seen = [t \in Activities |-> Unseen]
  /\ todo = [t \in Activities |-> {}]
  /\ cur = [t \in Activities |-> NoPool]
  /\ work = [t \in Activities |-> NoWork]
  /\ listed = [t \in Activities |-> Unseen]
  /\ jobs = [t \in Activities |-> 0]
  /\ todoR = [t \in Activities |-> {}]
  /\ ret = [t \in Activities |-> NoRetirement]
  /\ want = [t \in Activities |-> NoCount]
  /\ held = [t \in Activities |-> NoCount]
  /\ prov = [r \in Runners |-> "none"]

(* A call either does its work or fails; failures are bounded.             *)
Works == UNCHANGED faults
Fails == faults < MaxFaults /\ faults' = faults + 1

-----------------------------------------------------------------------------
(* Rows and objects.                                                       *)

IsActive(w) == w.state \in ActiveStates
IsTerminal(w) == w.state \in TerminalStates
IsLive(w) == w.state \notin TerminalStates \cup {Absent}

(* _move_to and the guarded methods around it: no move keeps the clock.    *)
MovedTo(w, s) == IF w.state = s THEN w ELSE [w EXCEPT !.state = s, !.aged = FALSE]

(* save: the whole row, last writer wins.  The row's age is that of its    *)
(* state_changed_at, so writing back a state the row is already in does    *)
(* not make it younger.                                                    *)
Saved(r, w) ==
  [row EXCEPT ![r] = IF row[r].state = w.state
                       THEN [w EXCEPT !.aged = w.aged \/ row[r].aged]
                       ELSE w]

(* delete_runner on GitHub: quiet when there is nothing, refused while the *)
(* runner has a job.                                                       *)
Deleted(r) == [reg EXCEPT ![r] = IF @ = "busy" THEN "busy" ELSE "none"]

(* The runner process is gone: GitHub keeps the registration, offline.     *)
Dropped(r) == [reg EXCEPT ![r] = IF @ = "none" THEN "none" ELSE "offline"]

-----------------------------------------------------------------------------
(* Outside the process: containers, GitHub, jobs, time.                    *)

(* The runner process connects.                                            *)
Boot(r) ==
  /\ ctr[r] = "running"
  /\ reg[r] = "offline"
  /\ reg' = [reg EXCEPT ![r] = "online"]
  /\ UNCHANGED <<row, ctr, queued, faults, memory>>

TakeJob(r) ==
  /\ ctr[r] = "running"
  /\ reg[r] = "online"
  /\ queued[PoolOf[r]] > 0
  /\ reg' = [reg EXCEPT ![r] = "busy"]
  /\ queued' = [queued EXCEPT ![PoolOf[r]] = @ - 1]
  /\ UNCHANGED <<row, ctr, faults, memory>>

(* A just-in-time runner de-registers itself the moment its job ends ...   *)
FinishJob(r) ==
  /\ ctr[r] = "running"
  /\ reg[r] = "busy"
  /\ reg' = [reg EXCEPT ![r] = "none"]
  /\ UNCHANGED <<row, ctr, queued, faults, memory>>

(* ... and a runner without a registration has nothing left to do.         *)
Exit(r) ==
  /\ ctr[r] = "running"
  /\ reg[r] = "none"
  /\ ctr' = [ctr EXCEPT ![r] = "exited"]
  /\ UNCHANGED <<row, reg, queued, faults, memory>>

(* The runner process dies, or somebody removes the container.             *)
Accident(r) ==
  /\ Fails
  /\ ctr[r] # "none"
  /\ \/ ctr[r] = "running" /\ ctr' = [ctr EXCEPT ![r] = "exited"]
     \/ ctr' = [ctr EXCEPT ![r] = "none"]
  /\ reg' = IF ctr[r] = "running" THEN Dropped(r) ELSE reg
  /\ UNCHANGED <<row, queued, memory>>

(* GitHub loses sight of a runner between jobs; Boot is its reconnecting.  *)
Disconnect(r) ==
  /\ Fails
  /\ ctr[r] = "running"
  /\ reg[r] = "online"
  /\ reg' = [reg EXCEPT ![r] = "offline"]
  /\ UNCHANGED <<row, ctr, queued, memory>>

Arrive(p) ==
  /\ queued[p] < MaxQueued
  /\ queued' = [queued EXCEPT ![p] = @ + 1]
  /\ UNCHANGED <<row, ctr, reg, faults, memory>>

(* The row outlives the threshold of its state.                            *)
Elapse(r) ==
  /\ row[r].state \in {"pending", "registered", "idle", "busy"}
  /\ ~row[r].aged
  /\ row' = [row EXCEPT ![r].aged = TRUE]
  /\ UNCHANGED <<ctr, reg, queued, faults, memory>>

(* prune drops old terminal rows: by then both halves of the runner are    *)
(* gone and no pass holds it.  It is also what makes the supply of ids     *)
(* endless: the code draws a new uuid, the model the id of such a runner.  *)
Prune(r) ==
  /\ IsTerminal(row[r])
  /\ ctr[r] = "none"
  /\ reg[r] = "none"
  /\ \A t \in Activities : seen[t][r] = "none" /\ work[t][r] = NoRow
  /\ row' = [row EXCEPT ![r] = NoRow]
  /\ UNCHANGED <<ctr, reg, queued, faults, memory>>

World(r) ==
  \/ Boot(r) \/ TakeJob(r) \/ FinishJob(r) \/ Exit(r)
  \/ Accident(r) \/ Disconnect(r) \/ Elapse(r) \/ Prune(r)

(* The process is killed and started again: memory is gone.  An error the  *)
(* pass does not expect (one that is no GhSpotError) ends it the same way, *)
(* with the rows as they are.                                              *)
Crash ==
  /\ Fails
  /\ pc' = [t \in Activities |-> "idle"]
  /\ seen' = [t \in Activities |-> Unseen]
  /\ todo' = [t \in Activities |-> {}]
  /\ cur' = [t \in Activities |-> NoPool]
  /\ work' = [t \in Activities |-> NoWork]
  /\ listed' = [t \in Activities |-> Unseen]
  /\ jobs' = [t \in Activities |-> 0]
  /\ todoR' = [t \in Activities |-> {}]
  /\ ret' = [t \in Activities |-> NoRetirement]
  /\ want' = [t \in Activities |-> NoCount]
  /\ held' = [t \in Activities |-> NoCount]
  /\ prov' = [r \in Runners |-> "none"]
  /\ \/ UNCHANGED row
     \/ StoreLoss /\ row' = NoWork
  /\ UNCHANGED <<ctr, reg, queued>>

-----------------------------------------------------------------------------
(* RetireRunner: stop or kill, remove, de-register, save.  Each call's     *)
(* failure is suppressed, so the next one runs whatever happened.          *)

FirstStep(w) == IF w.cid THEN "stop" ELSE IF w.gid THEN "dereg" ELSE "save"

Retiring(t, r, w, force) ==
  ret' = [ret EXCEPT ![t] = [runner |-> r, step |-> FirstStep(w), force |-> force]]

RetireStop(t) ==
  LET r == ret[t].runner IN
  /\ ret[t].step = "stop"
  /\ \/ /\ Works
        /\ ctr' = [ctr EXCEPT ![r] = IF @ = "running" THEN "exited" ELSE @]
        /\ reg' = IF ctr[r] = "running" THEN Dropped(r) ELSE reg
     \/ Fails /\ UNCHANGED <<ctr, reg>>
  /\ ret' = [ret EXCEPT ![t].step = "remove"]
  /\ UNCHANGED <<row, queued, pc, seen, todo, cur, work, listed, jobs, todoR,
                 want, held, prov>>

RetireRemove(t) ==
  LET r == ret[t].runner IN
  /\ ret[t].step = "remove"
  /\ \/ /\ Works
        /\ ctr' = [ctr EXCEPT ![r] = "none"]
        /\ reg' = IF ctr[r] = "running" THEN Dropped(r) ELSE reg
     \/ Fails /\ UNCHANGED <<ctr, reg>>
  /\ ret' = [ret EXCEPT ![t].step = IF work[t][r].gid THEN "dereg" ELSE "save"]
  /\ UNCHANGED <<row, queued, pc, seen, todo, cur, work, listed, jobs, todoR,
                 want, held, prov>>

RetireDereg(t) ==
  LET r == ret[t].runner IN
  /\ ret[t].step = "dereg"
  /\ \/ Works /\ reg' = Deleted(r)
     \/ Fails /\ UNCHANGED reg
  /\ ret' = [ret EXCEPT ![t].step = "save"]
  /\ UNCHANGED <<row, ctr, queued, pc, seen, todo, cur, work, listed, jobs, todoR,
                 want, held, prov>>

(* The pool is given up for this pass: whatever was raised is reported.    *)
PoolDropped(t) ==
  /\ pc' = [pc EXCEPT ![t] = IF t \in Tickers THEN "pools" ELSE "idle"]
  /\ cur' = [cur EXCEPT ![t] = NoPool]
  /\ work' = [work EXCEPT ![t] = NoWork]
  /\ listed' = [listed EXCEPT ![t] = Unseen]
  /\ jobs' = [jobs EXCEPT ![t] = 0]
  /\ todoR' = [todoR EXCEPT ![t] = {}]
  /\ ret' = [ret EXCEPT ![t] = NoRetirement]
  /\ UNCHANGED <<seen, todo, want, held, prov>>

(* retire() closes the object, and the row is saved; an operator's command *)
(* ends here.                                                              *)
RetireSave(t) ==
  LET r == ret[t].runner
      w == work[t][r]
  IN
  /\ ret[t].step = "save"
  /\ MayMove(w.state, "retired")
  /\ row' = Saved(r, MovedTo(w, "retired"))
  /\ IF pc[t] = "stop"
       THEN PoolDropped(t)
       ELSE /\ work' = [work EXCEPT ![t][r] = MovedTo(w, "retired")]
            /\ todoR' = [todoR EXCEPT ![t] = @ \ {r}]
            /\ ret' = [ret EXCEPT ![t] = NoRetirement]
            /\ UNCHANGED <<pc, seen, todo, cur, listed, jobs, want, held, prov>>
  /\ UNCHANGED <<ctr, reg, queued, faults>>

(* retire() refuses: IllegalStateTransitionError out of the whole command. *)
RetireRefused(t) ==
  /\ ret[t].step = "save"
  /\ ~MayMove(work[t][ret[t].runner].state, "retired")
  /\ PoolDropped(t)
  /\ UNCHANGED world

RetireNext(t) ==
  \/ RetireStop(t) \/ RetireRemove(t) \/ RetireDereg(t)
  \/ RetireSave(t) \/ RetireRefused(t)

(* A busy runner is refused without force.                                 *)
MayStop(w, force) == w.state \in {"busy", "draining"} => force

(* DELETE /runners/{ref}, ghspot runner stop: the row is read, and the     *)
(* command runs on that copy.                                              *)
OperatorStop(t, r) ==
  /\ t \in Operators
  /\ pc[t] = "idle"
  /\ row[r].state # Absent
  /\ \E force \in BOOLEAN :
       /\ MayStop(row[r], force)
       /\ Retiring(t, r, row[r], force)
  /\ pc' = [pc EXCEPT ![t] = "stop"]
  /\ work' = [work EXCEPT ![t][r] = row[r]]
  /\ UNCHANGED <<world, seen, todo, cur, listed, jobs, todoR, want, held, prov>>

-----------------------------------------------------------------------------
(* The pass (ReconciliationService.tick): observe.                         *)

(* The containers are listed first.  A tick that cannot see them does      *)
(* nothing at all.                                                         *)
BeginTick(t) ==
  /\ t \in Tickers
  /\ pc[t] = "idle"
  /\ \/ /\ Works
        /\ pc' = [pc EXCEPT ![t] = "pools"]
        /\ seen' = [seen EXCEPT ![t] = ctr]
        /\ todo' = [todo EXCEPT ![t] = Pools]
     \/ /\ Fails
        /\ UNCHANGED <<pc, seen, todo>>
  /\ UNCHANGED <<row, ctr, reg, queued, cur, work, listed, jobs, todoR, ret,
                 want, held, prov>>

(* _demand_for, then the pool's rows that are not terminal.  An unreadable *)
(* queue gives the pool up.                                                *)
ReadRows(t, p) ==
  /\ pc[t] = "pools"
  /\ p \in todo[t]
  /\ todo' = [todo EXCEPT ![t] = @ \ {p}]
  /\ \/ /\ Works
        /\ pc' = [pc EXCEPT ![t] = "forge"]
        /\ cur' = [cur EXCEPT ![t] = p]
        /\ jobs' = [jobs EXCEPT ![t] = queued[p]]
        /\ work' = [work EXCEPT ![t] =
             [r \in Runners |-> IF PoolOf[r] = p /\ IsLive(row[r])
                                  THEN row[r] ELSE NoRow]]
     \/ /\ Fails
        /\ UNCHANGED <<pc, cur, jobs, work>>
  /\ UNCHANGED <<row, ctr, reg, queued, seen, listed, todoR, ret, want, held, prov>>

ReadForge(t) ==
  /\ pc[t] = "forge"
  /\ \/ /\ Works
        /\ pc' = [pc EXCEPT ![t] = "adopt"]
        /\ listed' = [listed EXCEPT ![t] =
             [r \in Runners |-> IF TargetOf[PoolOf[r]] = TargetOf[cur[t]]
                                  THEN reg[r] ELSE "none"]]
        /\ UNCHANGED <<seen, todo, cur, work, jobs, todoR, ret, want, held, prov>>
     \/ /\ Fails
        /\ PoolDropped(t)
  /\ UNCHANGED <<row, ctr, reg, queued>>

(* A container of this pool with no live row behind it is given one, from  *)
(* its labels.  How long it has been up is its own start time, so it may   *)
(* be past the threshold at once.  One step: what a crash cuts short the   *)
(* next pass does again.                                                   *)
Adopt(t) ==
  LET unknown == {r \in Runners : /\ PoolOf[r] = cur[t]
                                  /\ seen[t][r] # "none"
                                  /\ work[t][r].state = Absent}
      adopted(old) ==
        [r \in unknown |->
           IF seen[t][r] = "running"
             THEN [state |-> "idle", aged |-> r \in old, gid |-> TRUE, cid |-> TRUE]
             ELSE [state |-> "failed", aged |-> FALSE, gid |-> TRUE, cid |-> TRUE]]
  IN
  /\ pc[t] = "adopt"
  /\ \E old \in SUBSET {r \in unknown : seen[t][r] = "running"} :
       /\ row' = [r \in Runners |-> IF r \in unknown THEN adopted(old)[r] ELSE row[r]]
       /\ work' = [work EXCEPT ![t] =
            [r \in Runners |-> IF r \in unknown THEN adopted(old)[r] ELSE work[t][r]]]
  /\ pc' = [pc EXCEPT ![t] = "settle"]
  /\ todoR' = [todoR EXCEPT ![t] = unknown \cup {r \in Runners : work[t][r].state # Absent}]
  /\ UNCHANGED <<ctr, reg, queued, faults, seen, todo, cur, listed, jobs, ret,
                 want, held, prov>>

(* _settle: what one row is moved to, given the container that was seen    *)
(* and what GitHub listed under the row's GitHub id.                       *)
Verdict(w, c, l) ==
  CASE w.state = "registered" /\ c = "none" -> IF w.aged THEN "retire" ELSE "wait"
    [] w.state = "pending"                  -> IF w.aged THEN "retire" ELSE "wait"
    [] OTHER ->
         CASE c \in {"none", "exited"} -> "retire"
           [] c \notin {"none", "exited"} /\ (l = "none" \/ ~w.gid) -> "retire"
           [] c \notin {"none", "exited"} /\ w.gid /\ l = "busy"    -> "busy"
           [] c \notin {"none", "exited"} /\ w.gid /\ l = "online"  -> "idle"
           [] c \notin {"none", "exited"} /\ w.gid /\ l = "offline" -> w.state

(* As a bug would have it: whoever is listed offline is taken for dead.    *)
HastyVerdictOn(t, r) ==
  IF listed[t][r] = "offline" THEN "retire"
  ELSE Verdict(work[t][r], seen[t][r], listed[t][r])

VerdictOn(t, r) == Verdict(work[t][r], seen[t][r], listed[t][r])

Settling(t, r) ==
  /\ pc[t] = "settle"
  /\ ret[t].step = "none"
  /\ r \in todoR[t]

(* RunnerPool.admit: the runners this pool already holds are those settled *)
(* before; one more active runner than max_runners is refused.             *)
Admitted(t) == {r \in Runners : IsLive(work[t][r])} \ todoR[t]

Fits(t, w) ==
  IsActive(w) => Cardinality({r \in Admitted(t) : IsActive(work[t][r])})
                   < PoolSpec[cur[t]].max_runners

SettleWait(t, r) ==
  /\ Settling(t, r)
  /\ VerdictOn(t, r) = "wait"
  /\ IF Fits(t, work[t][r])
       THEN /\ todoR' = [todoR EXCEPT ![t] = @ \ {r}]
            /\ UNCHANGED <<pc, seen, todo, cur, work, listed, jobs, ret, want, held, prov>>
       ELSE PoolDropped(t)
  /\ UNCHANGED world

SettleRetire(t, r) ==
  /\ Settling(t, r)
  /\ VerdictOn(t, r) = "retire"
  /\ Retiring(t, r, work[t][r], FALSE)
  /\ UNCHANGED <<world, pc, seen, todo, cur, work, listed, jobs, todoR, want, held, prov>>

(* assign_job, mark_online, or neither; then save, and into the pool.      *)
SettleMove(t, r) ==
  LET w == MovedTo(work[t][r], VerdictOn(t, r)) IN
  /\ Settling(t, r)
  /\ VerdictOn(t, r) \notin {"wait", "retire"}
  /\ MayMove(work[t][r].state, VerdictOn(t, r))
  /\ row' = Saved(r, w)
  /\ IF Fits(t, w)
       THEN /\ work' = [work EXCEPT ![t][r] = w]
            /\ todoR' = [todoR EXCEPT ![t] = @ \ {r}]
            /\ UNCHANGED <<pc, seen, todo, cur, listed, jobs, ret, want, held, prov>>
       ELSE PoolDropped(t)
  /\ UNCHANGED <<ctr, reg, queued, faults>>

(* IllegalStateTransitionError: reported, and the pool is not planned.     *)
SettleRefused(t, r) ==
  /\ Settling(t, r)
  /\ VerdictOn(t, r) \notin {"wait", "retire"}
  /\ ~MayMove(work[t][r].state, VerdictOn(t, r))
  /\ PoolDropped(t)
  /\ UNCHANGED world

(* As a bug would have it: whoever is offline; and, the other way round,   *)
(* only those the store has a row of.                                      *)
OfflineStrays(t) == {r \in Runners : listed[t][r] = "offline"}
RecordedStrays(t) ==
  {r \in Runners : /\ listed[t][r] = "offline"
                   /\ ~work[t][r].gid
                   /\ row[r].state # Absent}

(* _delete_stray_registrations: listed, minted on this host, offline, and  *)
(* not the registration of one of THIS pool's rows.                        *)
Strays(t) == {r \in Runners : listed[t][r] = "offline" /\ ~work[t][r].gid}

EndSettle(t) ==
  /\ pc[t] = "settle"
  /\ ret[t].step = "none"
  /\ todoR[t] = {}
  /\ pc' = [pc EXCEPT ![t] = "sweep"]
  /\ todoR' = [todoR EXCEPT ![t] = Strays(t)]
  /\ UNCHANGED <<world, seen, todo, cur, work, listed, jobs, ret, want, held, prov>>

Sweep(t, r) ==
  /\ pc[t] = "sweep"
  /\ r \in todoR[t]
  /\ \/ Works /\ reg' = Deleted(r)
     \/ Fails /\ UNCHANGED reg
  /\ todoR' = [todoR EXCEPT ![t] = @ \ {r}]
  /\ UNCHANGED <<row, ctr, queued, pc, seen, todo, cur, work, listed, jobs, ret,
                 want, held, prov>>

-----------------------------------------------------------------------------
(* The pass: plan, take down, admit, launch.                               *)

View(t) ==
  LET known == {r \in Runners : IsLive(work[t][r])} IN
  [ state |-> [r \in known |-> work[t][r].state],
    age   |-> [r \in known |-> IF work[t][r].aged THEN 1 ELSE 0] ]

(* plan_scaling, on the pool as it was settled.                            *)
PlanPool(t) ==
  LET spec == PoolSpec[cur[t]] IN
  /\ pc[t] = "sweep"
  /\ todoR[t] = {}
  /\ \E idle \in Retire(spec, View(t), jobs[t]) :
       todoR' = [todoR EXCEPT ![t] = idle \cup Terminate(spec, View(t))]
  /\ want' = [want EXCEPT ![t][cur[t]] = Launch(spec, View(t), jobs[t])]
  /\ pc' = [pc EXCEPT ![t] = "apply"]
  /\ UNCHANGED <<world, seen, todo, cur, work, listed, jobs, ret, held, prov>>

(* The overrunning first, by force; then the idle.                         *)
Apply(t, r) ==
  LET overran == {q \in todoR[t] : work[t][q].state # "idle"} IN
  /\ pc[t] = "apply"
  /\ ret[t].step = "none"
  /\ r \in IF overran = {} THEN todoR[t] ELSE overran
  /\ Retiring(t, r, work[t][r], r \in overran)
  /\ UNCHANGED <<world, pc, seen, todo, cur, work, listed, jobs, todoR, want, held, prov>>

(* As a bug would have it: a runner on a job has no more claim on the host. *)
AvailableCount(t) == Cardinality({r \in Runners : work[t][r].state \in AvailableStates})

(* RunnerPool.active_count, when the pool's plan has been carried out.     *)
Committed(t) == Cardinality({r \in Runners : IsActive(work[t][r])})

(* The pool is planned; its active runners count against the ceilings.     *)
EndPool(t) ==
  /\ pc[t] = "apply"
  /\ ret[t].step = "none"
  /\ todoR[t] = {}
  /\ held' = [held EXCEPT ![t][cur[t]] = Committed(t)]
  /\ pc' = [pc EXCEPT ![t] = "pools"]
  /\ cur' = [cur EXCEPT ![t] = NoPool]
  /\ work' = [work EXCEPT ![t] = NoWork]
  /\ listed' = [listed EXCEPT ![t] = Unseen]
  /\ jobs' = [jobs EXCEPT ![t] = 0]
  /\ UNCHANGED <<world, seen, todo, todoR, ret, want, prov>>

(* What the pools that were planned have up leaves this much of the host.  *)
Room(t) == AtLeastZero(MaxContainers - Total(held[t]))

(* _admit: max_containers over the pools that were planned.  Every grant   *)
(* within the wishes that uses the room up is possible (Admission tells    *)
(* which); a host above a high-water mark grants nothing.                  *)
Admit(t) ==
  LET granted == LesserOf(Total(want[t]), Room(t)) IN
  /\ pc[t] = "pools"
  /\ todo[t] = {}
  /\ \/ /\ Works
        /\ \E g \in [Pools -> 0 .. granted] :
             /\ \A p \in Pools : g[p] <= want[t][p]
             /\ Total(g) = granted
             /\ want' = [want EXCEPT ![t] = g]
     \/ /\ Fails
        /\ want' = [want EXCEPT ![t] = NoCount]
  /\ pc' = [pc EXCEPT ![t] = "launch"]
  /\ seen' = [seen EXCEPT ![t] = Unseen]
  /\ held' = [held EXCEPT ![t] = NoCount]
  /\ UNCHANGED <<row, ctr, reg, queued, todo, cur, work, listed, jobs, todoR, ret, prov>>

(* new_runner_id never gives an id that anything still knows.              *)
Fresh(r) ==
  /\ row[r] = NoRow
  /\ ctr[r] = "none"
  /\ reg[r] = "none"
  /\ prov[r] = "none"
  /\ \A t \in Activities : seen[t][r] = "none" /\ listed[t][r] = "none" /\ work[t][r] = NoRow

(* _launch: one gather per pool; the next pool's starts when all of these  *)
(* have ended.  The id supply bounds it.                                   *)
LaunchPool(t, p) ==
  LET ids == {r \in Runners : PoolOf[r] = p /\ Fresh(r)} IN
  /\ pc[t] = "launch"
  /\ todoR[t] = {}
  /\ want[t][p] > 0
  /\ \E R \in SUBSET ids :
       /\ Cardinality(R) = LesserOf(want[t][p], Cardinality(ids))
       /\ prov' = [r \in Runners |-> IF r \in R THEN "new" ELSE prov[r]]
       /\ todoR' = [todoR EXCEPT ![t] = R]
  /\ want' = [want EXCEPT ![t][p] = 0]
  /\ UNCHANGED <<world, pc, seen, todo, cur, work, listed, jobs, ret, held>>

EndTick(t) ==
  /\ pc[t] = "launch"
  /\ todoR[t] = {}
  /\ want[t] = NoCount
  /\ pc' = [pc EXCEPT ![t] = "idle"]
  /\ UNCHANGED <<world, seen, todo, cur, work, listed, jobs, todoR, ret, want, held, prov>>

-----------------------------------------------------------------------------
(* ProvisionRunner, for one of the runners being launched together.        *)

Step(r, from, to) ==
  /\ prov[r] = from
  /\ prov' = [prov EXCEPT ![r] = to]

provMemory == <<pc, seen, todo, cur, work, listed, jobs, ret, want, held>>

(* The command is over for this runner, one way or another.                *)
Ends(t, r) == todoR' = [todoR EXCEPT ![t] = @ \ {r}]

SavePending(t, r) ==
  /\ Step(r, "new", "saved")
  /\ row' = Saved(r, [NoRow EXCEPT !.state = "pending"])
  /\ UNCHANGED <<ctr, reg, queued, faults, todoR, provMemory>>

(* create_jit_registration; a failed call may have registered all the same *)
(* if it was the answer that was lost.                                     *)
Mint(t, r) ==
  \/ /\ Step(r, "saved", "minted")
     /\ Works
     /\ reg' = [reg EXCEPT ![r] = "offline"]
     /\ UNCHANGED <<row, ctr, queued, todoR, provMemory>>
  \/ /\ Step(r, "saved", "none")
     /\ Fails
     /\ reg' \in {reg, [reg EXCEPT ![r] = "offline"]}
     /\ Ends(t, r)
     /\ UNCHANGED <<row, ctr, queued, provMemory>>

Registered == [state |-> "registered", aged |-> FALSE, gid |-> TRUE, cid |-> FALSE]

(* As a bug would have it: nothing is written until the container is up.   *)
LateSaveRegistered(t, r) ==
  /\ Step(r, "minted", "registered")
  /\ UNCHANGED <<world, todoR, provMemory>>

SaveRegistered(t, r) ==
  /\ Step(r, "minted", "registered")
  /\ row' = Saved(r, Registered)
  /\ UNCHANGED <<ctr, reg, queued, faults, todoR, provMemory>>

(* docker run creates and then starts: when the start fails the container  *)
(* is left behind, created; when only its answer is lost, running.         *)
CreateContainer(t, r) ==
  /\ \/ Step(r, "registered", "created") /\ Works /\ ctr' = [ctr EXCEPT ![r] = "running"]
     \/ /\ Step(r, "registered", "abandon")
        /\ Fails
        /\ \E c \in {"none", "created", "running"} : ctr' = [ctr EXCEPT ![r] = c]
  /\ UNCHANGED <<row, reg, queued, todoR, provMemory>>

SaveStarting(t, r) ==
  /\ Step(r, "created", "none")
  /\ row' = Saved(r, [Registered EXCEPT !.state = "starting", !.cid = TRUE])
  /\ Ends(t, r)
  /\ UNCHANGED <<ctr, reg, queued, faults, provMemory>>

(* _abandon: undo the registration if possible, keep the row as failed.    *)
Abandon(t, r) ==
  /\ Step(r, "abandon", "failing")
  /\ \/ Works /\ reg' = Deleted(r)
     \/ Fails /\ UNCHANGED reg
  /\ UNCHANGED <<row, ctr, queued, todoR, provMemory>>

SaveFailed(t, r) ==
  /\ Step(r, "failing", "none")
  /\ row' = Saved(r, [Registered EXCEPT !.state = "failed"])
  /\ Ends(t, r)
  /\ UNCHANGED <<ctr, reg, queued, faults, provMemory>>

Provision(t, r) ==
  /\ pc[t] = "launch"
  /\ r \in todoR[t]
  /\ \/ SavePending(t, r) \/ Mint(t, r) \/ SaveRegistered(t, r)
     \/ CreateContainer(t, r) \/ SaveStarting(t, r)
     \/ Abandon(t, r) \/ SaveFailed(t, r)

-----------------------------------------------------------------------------
Settle(t, r) ==
  SettleWait(t, r) \/ SettleRetire(t, r) \/ SettleMove(t, r) \/ SettleRefused(t, r)

Tick(t) ==
  \/ BeginTick(t) \/ ReadForge(t) \/ Adopt(t) \/ EndSettle(t) \/ PlanPool(t)
  \/ EndPool(t) \/ Admit(t) \/ EndTick(t)
  \/ \E p \in Pools : ReadRows(t, p) \/ LaunchPool(t, p)
  \/ \E r \in Runners : Settle(t, r) \/ Sweep(t, r) \/ Apply(t, r) \/ Provision(t, r)

Next ==
  \/ \E r \in Runners : World(r)
  \/ \E p \in Pools : Arrive(p)
  \/ Crash
  \/ \E t \in Activities : RetireNext(t)
  \/ \E t \in Operators, r \in Runners : OperatorStop(t, r)
  \/ \E t \in Tickers : Tick(t)

Spec == Init /\ [][Next]_vars

(* The loop ticks for as long as the process runs and a command runs to    *)
(* its end; containers boot, jobs are handed out and end, and clocks run.  *)
Fairness ==
  /\ \A t \in Tickers : WF_vars(Tick(t))
  /\ \A t \in Activities : WF_vars(RetireNext(t))
  /\ \A r \in Runners :
       /\ WF_vars(Boot(r)) /\ WF_vars(TakeJob(r)) /\ WF_vars(FinishJob(r))
       /\ WF_vars(Exit(r)) /\ WF_vars(Elapse(r)) /\ WF_vars(Prune(r))

FairSpec == Spec /\ Fairness

=============================================================================
