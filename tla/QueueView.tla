----------------------------- MODULE QueueView -----------------------------
(***************************************************************************)
(* Why a job is still queued: the second half of a pass, from the plans of *)
(* the pools through the host's admission (Admission, extended here) to    *)
(* the snapshot the pass leaves behind (domain/policy/queue.py), and what  *)
(* a reader makes of it while passes go on, go blind or stop               *)
(* (application/queries/queue.py).                                         *)
(*                                                                         *)
(* Pools are numbered in the order of their names, jobs by their ids.      *)
(***************************************************************************)
EXTENDS Admission

CONSTANTS
  Fleets,    (* [Pools -> [spec, view, outcome]]: what a pass finds        *)
  Queues,    (* GitHub's queues: functions from job ids to jobs            *)
  Interval,  (* poll_interval                                              *)
  PassTime   (* bound on how long a pass takes                             *)

Plan == INSTANCE ScalingPolicy

NoOne == 0          (* pool = ""                                           *)
Nothing == [none |-> TRUE]
Event == {"push", "pull_request", "schedule", "workflow_dispatch"}

(* How far the pass got with a pool: it planned it, or could not read its  *)
(* queue, or had read it when something else raised.                       *)
Outcome == {"planned", "unread", "raised"}

IsJob(j) == j.event \in Event /\ {j.default, j.draft} \subseteq BOOLEAN /\ j.at \in Nat

ASSUME QueueViewAssumption ==
  /\ NoOne \notin Pools
  /\ \A f \in Fleets : \A p \in Pools :
       /\ Plan!IsPoolSpec(f[p].spec) /\ Plan!IsPoolView(f[p].view)
       /\ Cardinality(Plan!Active(f[p].view)) <= f[p].spec.max_runners
       /\ f[p].spec.priority \in Int /\ f[p].spec.cpus \in Nat
       /\ f[p].outcome \in Outcome
  /\ \A q \in Queues : /\ IsFiniteSet(DOMAIN q) /\ DOMAIN q \subseteq Nat \ {0}
                       /\ \A i \in DOMAIN q : IsJob(q[i])
  /\ {Interval, PassTime} \subseteq Nat

VARIABLES
  fleet,     (* the pools as observed                                      *)
  queue,     (* what is queued at GitHub                                   *)
  read,      (* the repositories whose queue was read                      *)
  snapshot,  (* the last one recorded, or Nothing                          *)
  age,       (* time since                                                 *)
  daemon     (* "up", "blind" (passes end before they record), "down"      *)

world == <<fleet, queue>>
viewVars == <<world, read, snapshot, age, daemon>>
allVars == <<vars, viewVars>>

-----------------------------------------------------------------------------
(* LabelSet.satisfies, on labels folded to one case.                       *)
Satisfies(carried, asked) == asked \subseteq carried

(* PoolSpec.can_serve: the job is in the repository, or the organization,  *)
(* the pool is for; the pool carries all the job asks for; and the job     *)
(* asked for all the pool insists on.                                      *)
CanServe(p, i) ==
  LET spec == fleet[p].spec IN
  /\ queue[i].repository \in spec.target
  /\ Satisfies(spec.labels, queue[i].labels)
  /\ Satisfies(queue[i].labels, spec.requires)

Planned == {p \in Pools : fleet[p].outcome = "planned"}

(* What plan_scaling goes by: the queues the pool itself watches.          *)
Servable(p) ==
  {i \in DOMAIN queue : queue[i].repository \in fleet[p].spec.watches /\ CanServe(p, i)}

Ask(p) == Plan!Launch(fleet[p].spec, fleet[p].view, Cardinality(Servable(p)))

(* The pool once the plan has taken down what it takes down, ties among    *)
(* the longest idle being settled somehow.                                 *)
Gone(p) ==
  Plan!Terminate(fleet[p].spec, fleet[p].view)
    \cup (CHOOSE R \in Plan!Retire(fleet[p].spec, fleet[p].view, Cardinality(Servable(p))) : TRUE)

Standing(p) ==
  LET v    == fleet[p].view
      left == DOMAIN v.state \ Gone(p)
  IN  [state |-> [r \in left |-> v.state[r]], age |-> [r \in left |-> v.age[r]]]

Up(p) == Cardinality(Plan!Active(Standing(p)))
Free(p) == Cardinality(Plan!Available(fleet[p].spec, Standing(p)))

(* The admission's requests; a pool that was not planned makes none.       *)
RequestOf(p) ==
  [ wanted    |-> IF p \in Planned THEN Ask(p) ELSE 0,
    priority  |-> fleet[p].spec.priority,
    cpus      |-> fleet[p].spec.cpus,
    memory    |-> 0,
    committed |-> IF p \in Planned THEN Up(p) ELSE 0 ]

WatchedBy(P) == UNION {fleet[p].spec.watches : p \in P}

(* What was read: everything a pool that got past its queue watches, and   *)
(* perhaps some of what one that did not.                                  *)
Readings ==
  LET sure == WatchedBy({p \in Pools : fleet[p].outcome # "unread"}) IN
  { R \in SUBSET WatchedBy(Pools) :
      /\ sure \subseteq R
      /\ \A p \in Pools : fleet[p].outcome = "unread" =>
           \/ ~(fleet[p].spec.watches \subseteq R)
           \/ fleet[p].spec.watches \subseteq sure }

InitView ==
  /\ fleet \in Fleets
  /\ queue \in Queues
  /\ read \in Readings
  /\ snapshot = Nothing
  /\ age = 0
  /\ daemon = "up"
  /\ request = [p \in Pools |-> RequestOf(p)]
  /\ limits \in Limits
  /\ load \in Loads
  /\ phase = "called"
  /\ committed = [containers |-> 0, cpus |-> 0, memory |-> 0]
  /\ remaining = Zero /\ current = Zero /\ granted = Zero
  /\ blocked = {}
  /\ held = FALSE

Admit == Next /\ UNCHANGED viewVars

-----------------------------------------------------------------------------
(* classify, in the order of its tests, and what each class is worth.      *)
Class(j) ==
  CASE j.event = "schedule"          -> "scheduled"
    [] j.event = "workflow_dispatch" -> "manual"
    [] j.event = "pull_request"      -> IF j.draft THEN "draft" ELSE "pull-request"
    [] j.event = "push"              -> IF j.default THEN "default-branch" ELSE "branch"

Urgency(j) ==
  CASE Class(j) = "default-branch" -> 10
    [] Class(j) = "manual"         -> 8
    [] Class(j) = "pull-request"   -> 6
    [] Class(j) = "branch"         -> 5
    [] Class(j) = "draft"          -> 4
    [] Class(j) = "scheduled"      -> 2

(* As a bug would have it: first come, first served.                       *)
Older(i, k) ==
  \/ queue[i].at < queue[k].at
  \/ queue[i].at = queue[k].at /\ i < k

(* _rank: the most urgent first, the oldest first among equals.            *)
Before(i, k) ==
  \/ Urgency(queue[i]) > Urgency(queue[k])
  \/ Urgency(queue[i]) = Urgency(queue[k]) /\ Older(i, k)

(* demand: what was read, each job once.                                   *)
Demand == {i \in DOMAIN queue : queue[i].repository \in read}

(* As a bug would have it: the lightest.                                   *)
LightestPool(i) ==
  LET able == {p \in Planned : CanServe(p, i)} IN
  IF able = {} THEN NoOne
  ELSE CHOOSE p \in able : \A q \in able : fleet[p].spec.priority <= fleet[q].spec.priority

(* _best_pool: the heaviest, the last by name among equals.                *)
BestPool(i) ==
  LET able == {p \in Planned : CanServe(p, i)}
      Beats(p, q) == \/ fleet[p].spec.priority > fleet[q].spec.priority
                     \/ fleet[p].spec.priority = fleet[q].spec.priority /\ p >= q
  IN  IF able = {} THEN NoOne ELSE CHOOSE p \in able : \A q \in able : Beats(p, q)

Line(p) == {i \in Demand : BestPool(i) = p}

Position(i) ==
  LET p == BestPool(i) IN
  IF p = NoOne THEN 0 ELSE Cardinality({k \in Line(p) : k = i \/ Before(k, i)})

(* _why_blocked; and, as a bug would have it, one too late.                *)
LateWhyBlocked(p) ==
  CASE held -> "host-busy"
    [] ~held /\ Up(p) + granted[p] > fleet[p].spec.max_runners -> "pool-at-capacity"
    [] OTHER -> IF p \in blocked THEN "host-at-capacity"
                ELSE IF granted[p] >= fleet[p].spec.max_launch_per_tick THEN "tick-limit"
                ELSE "contended"

WhyBlocked(p) ==
  IF held THEN "host-busy"
  ELSE IF Up(p) + granted[p] >= fleet[p].spec.max_runners THEN "pool-at-capacity"
  ELSE IF p \in blocked THEN "host-at-capacity"
  ELSE IF granted[p] >= fleet[p].spec.max_launch_per_tick THEN "tick-limit"
  ELSE "contended"

Reason(i) ==
  LET p == BestPool(i) IN
  CASE p = NoOne -> "no-pool"
    [] p # NoOne /\ Position(i) <= Free(p) -> "assignable"
    [] p # NoOne /\ Position(i) > Free(p) ->
         IF Position(i) <= Free(p) + granted[p] THEN "starting" ELSE WhyBlocked(p)

EntryOf(i) == [pool |-> BestPool(i), position |-> Position(i), reason |-> Reason(i)]

(* A pool's own side of it.                                                *)
PressureOf(p) ==
  [ queued |-> Cardinality(Line(p)), available |-> Free(p), launching |-> granted[p],
    blocked_by |-> IF Cardinality(Line(p)) > Free(p) + granted[p] THEN WhyBlocked(p) ELSE "" ]

(* The host is measured only when somebody wants to start something.       *)
HostPressure ==
  [ load    |-> IF Total(Wanted) = 0 THEN [g \in Gauge |-> Unknown] ELSE load,
    mark    |-> limits.mark,
    holding |-> held ]

Unread == {p \in Pools : fleet[p].outcome = "unread"}

(* As a bug would have it: only when nothing was read at all.              *)
BlankUnreadables == {U \in SUBSET Unread : read = {} => U = Unread}

(* The targets named as unreadable: pools that failed and of whose         *)
(* repositories none had been read when the pass came to them.             *)
Unreadables ==
  { U \in SUBSET Unread :
      \A p \in Unread : fleet[p].spec.watches \cap read = {} => p \in U }

(* explain_queue and _record_queue: last in the pass.                      *)
Record ==
  /\ phase = "done"
  /\ daemon = "up"
  /\ snapshot = Nothing
  /\ \E U \in Unreadables :
       snapshot' = [ entries    |-> [i \in Demand |-> EntryOf(i)],
                     pools      |-> [p \in Planned |-> PressureOf(p)],
                     host       |-> HostPressure,
                     unreadable |-> U ]
  /\ age' = 0
  /\ UNCHANGED <<vars, world, read, daemon>>

-----------------------------------------------------------------------------
(* Time passes: a daemon that is up records again before the next pass is  *)
(* over; whoever reads sees the bound MaxAge at most.                      *)
MaxAge == 3 * (Interval + PassTime)

Elapse ==
  /\ snapshot # Nothing
  /\ age < IF daemon = "up" THEN Interval + PassTime ELSE MaxAge
  /\ age' = age + 1
  /\ UNCHANGED <<vars, world, read, snapshot, daemon>>

(* The container backend cannot be reached: a pass ends with nothing said. *)
GoBlind ==
  /\ snapshot # Nothing /\ daemon = "up"
  /\ daemon' = "blind"
  /\ UNCHANGED <<vars, world, read, snapshot, age>>

Recover ==
  /\ daemon = "blind"
  /\ age <= MaxAge - Interval - PassTime
  /\ daemon' = "up"
  /\ age' = 0
  /\ UNCHANGED <<vars, world, read, snapshot>>

Stop ==
  /\ snapshot # Nothing /\ daemon # "down"
  /\ daemon' = "down"
  /\ UNCHANGED <<vars, world, read, snapshot, age>>

NextView == Admit \/ Record \/ Elapse \/ GoBlind \/ Recover \/ Stop

ViewSpec == InitView /\ [][NextView]_allVars

(* GetQueue: the rows a reader is shown who asks for one pool, and whether *)
(* he is told that they are old.                                           *)
Rows(p) == {i \in DOMAIN snapshot.entries : snapshot.entries[i].pool \in {p, NoOne}}

Stale == age > 2 * Interval

-----------------------------------------------------------------------------
Recorded == snapshot # Nothing

Placed(i) == Recorded /\ i \in DOMAIN snapshot.entries /\ snapshot.entries[i].pool # NoOne

Delayed(i) == snapshot.entries[i].reason \notin {"assignable", "starting"}

(* A job is counted once, and against a pool no lighter than any other     *)
(* that could serve it, so that the pools' numbers and the rows agree: a   *)
(* reader who asks for one pool is shown as many rows as it has queued,    *)
(* besides those no pool serves, and a pool says what holds it exactly     *)
(* when a row of it is delayed (_best_pool, GetQueue, counts_by_pool).     *)
RowsAgree ==
  Recorded => \A p \in Planned :
    LET rows == {i \in Rows(p) : snapshot.entries[i].pool = p} IN
    /\ snapshot.pools[p].queued = Cardinality(rows)
    /\ \/ \A i \in rows : ~Delayed(i)
       \/ Cardinality({i \in rows : ~Delayed(i)})
            = snapshot.pools[p].available + snapshot.pools[p].launching
    /\ (snapshot.pools[p].blocked_by # "") <=> \E i \in rows : Delayed(i)
    /\ \A i \in rows, q \in Planned :
         CanServe(q, i) => fleet[q].spec.priority <= fleet[p].spec.priority

(* The reason given is the one thing that would have to change.  For pools *)
(* that watch all they can serve: a pool said to be at its capacity has    *)
(* max_runners once its launches are up, a host said to refuse it has no   *)
(* room for one more runner of it, a host said to be busy is shown above   *)
(* one of its marks, a tick said to limit the pool was used up, and no job *)
(* is said to have lost to another pool, for who loses runs into a ceiling *)
(* of the host (plan_scaling, admit, _why_blocked).                        *)
BlameIsTrue ==
  Recorded /\ (\A p \in Planned : fleet[p].spec.watches = fleet[p].spec.target) =>
    \A i \in DOMAIN snapshot.entries : Placed(i) =>
      LET p == snapshot.entries[i].pool
          reason == snapshot.entries[i].reason
      IN  /\ reason = "pool-at-capacity" => Up(p) + granted[p] = fleet[p].spec.max_runners
          /\ reason = "host-at-capacity" => Crosses(p)
          /\ reason = "host-busy" =>
               \E g \in Gauge : /\ snapshot.host.mark[g] # Unset
                                /\ snapshot.host.load[g] >= snapshot.host.mark[g]
          /\ reason = "tick-limit" => granted[p] = fleet[p].spec.max_launch_per_tick
          /\ reason # "contended"

(* No job waits while a runner is free or starting for one that matters    *)
(* less and is in the same line, in the order WorkClass gives the classes  *)
(* and by age within a class (classify, URGENCY, _rank).  A scheduled run  *)
(* of the default branch is scheduled, and a run started by hand there is  *)
(* manual, as the tests have it and not as priority.py:57 says.            *)
Precedence == <<"default-branch", "manual", "pull-request", "branch", "draft", "scheduled">>

RankOf(i) == CHOOSE n \in DOMAIN Precedence : Precedence[n] = Class(queue[i])

UrgentFirst ==
  \A i, k \in DOMAIN queue :
    Placed(i) /\ Placed(k) /\ snapshot.entries[i].pool = snapshot.entries[k].pool
      /\ Delayed(i) /\ ~Delayed(k) =>
        \/ RankOf(k) < RankOf(i)
        \/ RankOf(k) = RankOf(i) /\ queue[k].at <= queue[i].at

(* An empty queue does not pass for an unread one: a job in a watched      *)
(* repository is shown, or a pool that could have read it failed, and that *)
(* pool's target is named if this repository is all it watches.            *)
MissingIsExplained ==
  Recorded => \A i \in DOMAIN queue \ DOMAIN snapshot.entries :
    \A p \in Pools : queue[i].repository \in fleet[p].spec.watches =>
      /\ fleet[p].outcome = "unread"
      /\ fleet[p].spec.watches = {queue[i].repository} => p \in snapshot.unreadable

(* A daemon that records is never taken for one that stopped, as long as a *)
(* pass takes no longer than the interval (STALE_AFTER_INTERVALS).         *)
StaleMeansSilent == PassTime <= Interval /\ Stale => daemon # "up"

(* What is missing from the view, or old in it, is said to be.             *)
ViewIsHonest == MissingIsExplained /\ StaleMeansSilent
=============================================================================
