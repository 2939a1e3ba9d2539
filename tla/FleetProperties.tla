-------------------------- MODULE FleetProperties --------------------------
(***************************************************************************)
(* What Fleet must guarantee.                                              *)
(***************************************************************************)
EXTENDS Fleet

(* The store, Docker and the process's memory always hold what the code's  *)
(* types say they hold.                                                    *)
TypeOK ==
  /\ row \in [Runners -> Row]
  /\ ctr \in [Runners -> ContainerState]
  /\ reg \in [Runners -> RegState]
  /\ queued \in [Pools -> 0 .. MaxQueued]
  /\ faults \in 0 .. MaxFaults
  /\ pc \in [Activities -> Phase]
  /\ seen \in [Activities -> [Runners -> ContainerState]]
  /\ todo \in [Activities -> SUBSET Pools]
  /\ cur \in [Activities -> Pools \cup {NoPool}]
  /\ work \in [Activities -> [Runners -> Row]]
  /\ listed \in [Activities -> [Runners -> RegState]]
  /\ jobs \in [Activities -> 0 .. MaxQueued]
  /\ todoR \in [Activities -> SUBSET Runners]
  /\ ret \in [Activities -> [runner : Runners \cup {NoRunner}, step : RetireStep, force : BOOLEAN]]
  /\ \A t \in Activities : ret[t].step # "none" => ret[t].runner \in Runners
  /\ want \in [Activities -> [Pools -> Nat]]
  /\ held \in [Activities -> [Pools -> Nat]]
  /\ prov \in [Runners -> ProvStep]

(* A build is never torn down by a pass that misjudges it: when a pass is  *)
(* about to stop or remove a container whose runner has a job, then either *)
(* the job overran, or the pass had read that runner as free and idle for  *)
(* too long and the job was handed out since.  The module comment of       *)
(* tick() names what must not happen: a fleet torn down mid-job because a  *)
(* list was wrong.                                                         *)
BuildsSurvive ==
  \A t \in Tickers :
    LET r == ret[t].runner IN
    /\ ret[t].step \in {"stop", "remove"}
    /\ ctr[r] = "running"
    /\ reg[r] = "busy"
    => \/ ret[t].force /\ work[t][r].state \in {"busy", "draining"} /\ work[t][r].aged
       \/ work[t][r].state = "idle" /\ listed[t][r] \in {"online", "offline"}

(* The stray sweep deletes only what its pool does not track: no           *)
(* registration it is about to delete belongs to a live row of that pool   *)
(* that holds its id, nor, whatever the pool, to a runner that is being    *)
(* provisioned (_delete_stray_registrations: "that this daemon minted but  *)
(* no longer tracks").  Of another pool on the same target it knows no     *)
(* rows: there a runner that is booting or reconnecting may go.            *)
SweepSparesTracked ==
  \A t \in Tickers : pc[t] = "sweep" =>
    \A r \in todoR[t] : /\ PoolOf[r] = cur[t] => ~(row[r].gid /\ IsLive(row[r]))
                        /\ prov[r] = "none"

(* What a pool has up when a pass launches, with what it is still to       *)
(* launch, stays within max_runners, whatever the pass adopted, retired or *)
(* failed to retire before (plan_scaling's third rule).                    *)
LaunchWithinPool ==
  \A t \in Tickers : pc[t] = "launch" =>
    \A p \in Pools :
      want[t][p] > 0 =>
        want[t][p] + Cardinality({r \in Runners : PoolOf[r] = p /\ IsActive(row[r])})
          <= PoolSpec[p].max_runners

(* What a pass may not do, whoever else is at work.                        *)
Safety == BuildsSurvive /\ SweepSparesTracked /\ LaunchWithinPool

(* Write-ahead: a container comes into being only for a runner whose row   *)
(* already says registered and holds GitHub's id, so that a crash in       *)
(* between leaves evidence (provision.py, "crash-critical window").        *)
ContainersAreOnRecord ==
  [][\A r \in Runners : ctr[r] = "none" /\ ctr'[r] # "none"
       => row[r].state = "registered" /\ row[r].gid]_vars

(* The rows' life is the one RunnerLifecycle allows, although the store    *)
(* has no locks and every save writes a whole row.                         *)
Lifecycle == INSTANCE RunnerLifecycle WITH
  status <- [r \in Runners |-> row[r].state],
  backed <- {r \in Runners : ctr[r] # "none" \/ \E t \in Activities : seen[t][r] # "none"}

RowsFollowLifecycle == Lifecycle!LifecycleSpec

-----------------------------------------------------------------------------
(* A row on which every pass raises, and with which its pool is given up:  *)
(* nobody is provisioning it any more, and retire() refuses it as pending, *)
(* or mark_online and assign_job refuse it as registered with its runner   *)
(* up, which nothing but the end of that runner's only job ends.           *)
StuckRow(r) ==
  /\ prov[r] = "none"
  /\ \/ row[r].state = "pending" /\ row[r].aged
     \/ row[r].state = "registered" /\ ctr[r] = "running" /\ reg[r] \in {"online", "busy"}

Overfull(p) ==
  Cardinality({r \in Runners : PoolOf[r] = p /\ IsActive(row[r])}) > PoolSpec[p].max_runners

Blocked(p) == Overfull(p) \/ \E r \in Runners : PoolOf[r] = p /\ StuckRow(r)

(* Every pass may raise on this pool from some moment on.  A launch, or a  *)
(* row that the next passes move on, blocks no pool for good.              *)
BlockedForGood(p) == <>[]Blocked(p)

(* A registration that lost its container is removed from GitHub, whatever *)
(* crashed in between, unless its pool is blocked for good.                *)
OrphansAreRemoved ==
  \A r \in Runners :
    \/ BlockedForGood(PoolOf[r])
    \/ reg[r] = "offline" /\ ctr[r] = "none" /\ prov[r] = "none" ~> reg[r] = "none"

(* A container that has exited is removed from the host, unless its pool   *)
(* is blocked for good.                                                    *)
SpentContainersGo ==
  \A r \in Runners :
    BlockedForGood(PoolOf[r]) \/ (ctr[r] = "exited" ~> ctr[r] = "none")

(* What a runner leaves behind goes, on GitHub and on the host.            *)
LeftoversGo == OrphansAreRemoved /\ SpentContainersGo

(* A full queue does not stay full: a runner that is launched gets to take *)
(* a job before it is judged dead, however often a pass has to launch one, *)
(* unless the pool is blocked for good.                                    *)
QueueIsServed ==
  \A p \in Pools :
    BlockedForGood(p) \/ (queued[p] = MaxQueued ~> queued[p] < MaxQueued)
-----------------------------------------------------------------------------
(* What the repository says of the program and the program does not do;    *)
(* each is refuted by a run of its own.                                    *)

(* "nothing is remembered that cannot be re-derived, so a crash costs at   *)
(* most one tick" (reconciliation.py:5), and of a row left pending,        *)
(* "harmless, and reaped as a stale pending" (provision.py:82): a row that *)
(* a crash left behind is moved on by some later pass.  retire() refuses a *)
(* pending row, and mark_online a registered one for as long as its        *)
(* container runs, pass after pass.                                        *)
CrashesAreOvercome == \A r \in Runners : StuckRow(r) ~> ~StuckRow(r)

(* "Runners across every pool" (admission.py:50): what the host has up,    *)
(* with what a pass is to launch, stays within max_containers.  A pool     *)
(* that raised in this pass is not counted.                                *)
HostCeiling ==
  \A t \in Tickers : pc[t] = "launch" /\ Total(want[t]) > 0 =>
      Total(want[t]) + Cardinality({r \in Runners : IsActive(row[r])})
        <= MaxContainers

(* As long as every call has worked, no pool is missing from the count,    *)
(* and the ceiling does hold, whatever operators retire meanwhile.         *)
CeilingWithoutFaults == faults = 0 => HostCeiling

(* Even so, with calls failing: what a pass grants fits the host beside    *)
(* all that the pools it counted have up at that moment, whatever has      *)
(* happened since it came to them.  A pool that is given up costs the      *)
(* count its own runners and nobody else's.                                *)
GrantsFitCounted ==
  [][\A t \in Tickers :
       pc[t] = "pools" /\ pc'[t] = "launch" /\ Total(want'[t]) > 0 =>
         LET counted == {r \in Runners : IsActive(row[r]) /\ held[t][PoolOf[r]] > 0}
         IN  Total(want'[t]) + Cardinality(counted) <= MaxContainers]_vars
=============================================================================
