# ghspot: the fleet, specified

`ghspot` keeps a fleet of ephemeral GitHub Actions runners on one host. A
daemon passes over the host every few seconds: it lists the containers, the
rows of its own database and the registrations GitHub has, makes the three
agree, and starts or takes down runners as the queue asks for. This directory
holds TLA+ modules of that program, the TLC runs that check them on small
instances, and theorems about them that TLAPS checks for every instance.

Paths below are relative to `src/ghspot/`.

## 1. The system

| Component | State it keeps | Operations | Talks to |
|---|---|---|---|
| Runner aggregate (`domain/model/runner.py`) | state, state_changed_at, GitHub id, container id | `mark_online`, `assign_job`, `drain`, `retire`, `fail`, `register`, each guarded by a transition table | – |
| Scaling policy (`domain/policy/scaling.py`) | none | `plan_scaling`: launches, idle runners to retire, overrunning ones to kill | reads a `RunnerPool` |
| Admission policy (`domain/policy/admission.py`) | the shares of one call | `admit`: weighted round robin under ceilings and high-water marks | – |
| Reconciliation (`application/reconciliation.py`) | what the pass under way has read | `tick`: observe, settle, sweep, plan, take down, admit, launch; `replace_pools` | all three outside worlds |
| `ProvisionRunner`, `RetireRunner` (`application/commands/`) | the runner object in hand | start one runner; take one down | store, GitHub, Docker |
| Operator commands (`interfaces/api/app.py`, `interfaces/cli/operations.py`) | – | stop a runner, run a pass now | the same service objects |
| Runner store (`infrastructure/persistence/sqlite.py`) | one row per runner, logs, events | whole-row `save`, listing, `prune` | – |
| Docker backend (`infrastructure/docker/backend.py`) | containers and their labels | create, stop, kill, remove, list, load probes | Docker |
| GitHub client (`infrastructure/github/client.py`) | ETag cache, whether drafts can be listed | one request with its retries; mint, list, delete registrations; list jobs, find a runner's job | GitHub |
| GitHub authentication (`infrastructure/github/auth.py`) | installation id, token, a lock | hand out a token that is good for long enough | GitHub |
| Daemon loop (`daemon.py`), housekeeping | stop and reload flags, next due time | run, reload, sleep, retire the fleet at the end | reconciliation |
| Queue view (`domain/policy/queue.py`, `priority.py`) | last snapshot | which pool a job is counted against, its place, why it waits | – |
| Settings, composition (`infrastructure/config/settings.py`, `composition.py`) | settings, clients, pools in force | load a file, build a daemon, reload | the file, reconciliation |
| Statistics, job lookup (`application/queries/`) | – | fold the event log into a report; remember the job of a runner | store, GitHub |
| Views, CLI, web | – | reading, shaping | – |

**How they interact.** One asyncio process holds the daemon's loop and the HTTP
API; the CLI is a process of its own on the same database. Every `await` in a
pass is a place where runners boot, take jobs and die, where an operator
retires something, where the process may be killed. There is no lock: the
store is last-writer-wins over whole rows, and the daemon's memory is thrown
away after each pass. The design's claim is that this is enough, because the
next pass "re-derives" everything. Most of what is checked here tests that
claim.

**What is hard.**

1. *Stale readings.* Containers are read once per pass, rows and registrations
   pool by pool, and the pass acts on them later. A runner that took its job
   in between must not be torn down as abandoned.
2. *Three records of one runner.* Row, container and registration are created
   and destroyed one at a time, each call can fail or lose its answer, and the
   process can die between any two. Nothing may leak for good, and no
   registration may be swept away from under a runner that is starting.
3. *Raising in the middle.* The aggregate's guards raise, and the pass then
   gives the whole pool up. What was done stays done, and other pools go on.
4. *Bounds over sets that change.* `max_runners`, the warm floor and ceiling,
   and the host's ceilings are checked against counts taken a little earlier.
5. *Two activities at once.* `POST /reconcile` runs a pass beside the loop's;
   an operator stops a runner on a copy of a row that a pass also holds.
6. *A loop that has to end.* The hand-out of slots runs until nobody contends.
7. *Retries and caches.* A request is tried several times with the token and
   the cached copy it set out with; its answer may be lost after its effect.
8. *Several requests for one answer.* The queue, the job of a runner and the
   list of runners take many requests, between which GitHub moves on.
9. *What is not known must not look like nothing.* A queue that could not be
   read, an old snapshot, a key that does nothing.
10. *Going down.* The shutdown retires what one reading of the store shows it,
   while the API may still be launching, after reloads that may have taken
   away the very pool a runner belongs to.

**What makes each part correct** is stated in the modules; in a sentence each:
the row's life follows the table although nobody locks it; a plan never
fights itself and fits the pool; an admission stays within the ceilings,
wastes nothing and is proportional; a pass harms no running build and no
tracked registration, launches within the pool and writes ahead of what it
creates; whatever crashed, orphans go and the queue is served in the end; the client
hands out no token that expires before its margin is used up and no answer that
was never GitHub's; the queue view blames what is to blame; a saved row loses no log and
the report's numbers fit each other; the configuration in force is one that
the policies are made for.

## 2. The modules

| Module | Models | Role |
|---|---|---|
| `RunnerStates` | the transition table and the groups of states | shared by all |
| `RunnerLifecycle` | what a reader of the store may rely on about one row | abstract specification |
| `ScalingPolicy` | `plan_scaling` as operators on a snapshot | pure |
| `PoolSnapshots` | every snapshot a pool can show the policy, and reloads | drives `ScalingPolicy` |
| `Totals` | the sum over the pools | shared |
| `Admission` | `admit`, one hand-out per step | component |
| `Fleet` | the pass, both commands, store, Docker, GitHub, crashes, operators | composition; uses `ScalingPolicy` |
| `FleetProperties` | what `Fleet` must guarantee, and the refinement of `RunnerLifecycle` | properties |
| `Daemon` | rounds, signals, reloads, restarts, the retirement of the fleet, the API beside it; a pass is abstract | component around `Fleet` |
| `QueueView` | why each job waits: demand, admission and `explain_queue` of one pass, then the reader of its snapshot | composition; extends `Admission`, uses `ScalingPolicy` |
| `GitHubTransport` | one request: token, lock, attempts, cache, what each answer becomes; minting and deleting a registration | component below the port |
| `GitHubPoll` | the three reads that take several requests | component above `GitHubTransport` |
| `Journal` | the store's rows, logs and events, those who share it, and the report | component beside `Fleet` |
| `Settings` | the loader, the start of a daemon, reloads | extends `ScalingPolicy`, whose `IsPoolSpec` it must establish |
| `MCFleet`, `MCScaling`, `MCAdmission`, `MCDaemon`, `MCQueueView`, `MCGitHubTransport`, `MCGitHubPoll`, `MCJournal`, `MCSettings` | constants for TLC | – |
| `PolicyLemmas` | sums over pools, sizes of sets, the policy's operators | lemmas shared by the proofs |
| `ScalingProofs` (of `PoolSnapshots` and `Settings`), `AdmissionProofs` (with `QueueView`), `FleetProofs` (with `FleetProperties`), `DaemonProofs`, `GitHubTransportProofs`, `GitHubPollProofs`, `JournalProofs` | theorems | – |

### `Fleet`, and how it corresponds to the code

A runner's id stands for its row, its container and its registration. The code
labels every container with the runner's id and GitHub's id, and a
registration is minted for one id, so the three can only differ in which of
them *exist* and in what the row knows of the other two (`gid`, `cid`). The
world is `row` (the store), `ctr` (Docker), `reg` (GitHub) and `queued`; the
process's memory is one record per *activity*: its place in the pass (`pc`),
the containers listed at the start (`seen`), the pools still to do (`todo`),
the pool being observed (`cur`), its runner objects (`work`), the
registrations listed (`listed`), its jobs (`jobs`), the loop it is in
(`todoR`), the retirement under way (`ret`), and the launches wished for, then
granted (`want`, `held`). `prov` is how far each concurrent provisioning is.

| Action | Code |
|---|---|
| `BeginTick`, `ReadRows`, `ReadForge`, `Adopt` | `tick` up to the listing; `_observe`; `_adopt` |
| `SettleWait/Retire/Move/Refused` | `_settle` with `RunnerPool.admit`; *Refused* is the aggregate's exception |
| `EndSettle`, `Sweep` | `_delete_stray_registrations` |
| `PlanPool`, `Apply`, `EndPool` | `plan_scaling` on the settled pool; `_retire_by_id` |
| `Admit`, `LaunchPool`, `EndTick` | `_admit`, `_launch`'s gather |
| `SavePending` … `SaveFailed` | each await of `ProvisionRunner` |
| `RetireStop/Remove/Dereg/Save/Refused` | each await of `RetireRunner` |
| `OperatorStop` | `DELETE /runners/{ref}`, `ghspot runner stop` |
| `PoolDropped` | the pass's `except`: the pool is reported and left |
| `Crash` | the process is killed, perhaps the database lost; also a tick that raises something unexpected |
| `Boot`, `TakeJob`, `FinishJob`, `Exit`, `Accident`, `Disconnect`, `Arrive` | the runner image, GitHub, Docker: external |
| `Elapse`, `Prune` | the clock; `prune`, which is also what gives ids back |

Every call that the code makes outside the process is one step with an
alternative in which it fails; where an answer can be lost, the call may have
had its effect all the same (`Mint`, `CreateContainer`). `docker run` creates
and then starts, so a failed start leaves a *created* container behind.

Abstractions of data, and why they lose nothing the properties see: the clock
has two readings per row, below the one threshold that concerns the row's
state and past it (`aged`); labels are a number of jobs a pool can serve;
Docker's statuses are four; `Admit` allows every hand-out that uses up the
room, of which `admit` picks one (`RoomIsUsedUp` is the property of
`Admission` that licenses this). `Adopt` saves all adopted rows in one step:
a crash in the middle leaves a prefix which the next pass completes.
A used-up id comes back when both halves of the runner are gone and its row is
pruned, which stands for drawing a new uuid.

### `ScalingPolicy` and `PoolSnapshots`

The policy's operators keep the names of its helpers. Python's sort is stable
over a dict, so ties among the longest idle depend on the order in which rows
came back; `LongestIdle` is therefore the *set* of choices, and each property
is about all of them. `PoolSnapshots` walks a pool through every state a
runner can be found in, every age around both thresholds, every queue and
every reload, and states the policy's promises at each.

### `Admission`

One state per round of the hand-out: `Begin` counts what is committed, `Grant`
and `GiveUp` are the two ends of a round, `Refuse` is backpressure or an empty
request. Pools are numbered in the order of their names, since names break
ties. A pool of weight *w* among contenders of weight *W* is never a whole
slot ahead of its share *w/W*; behind it may fall by more than one slot when many
equals go first (with weights 1, 1, 1, 5, 5, 5 by 19/18), though by less
than one for each other contender, which is the bound `SharesAreProportional`
states.

### `Daemon`

`phase` is where `Daemon.run` is: checking its flags (and reloading), in a
pass, in housekeeping, asleep, or retiring the fleet. `stopping` and
`reloading` are its events, `left` what remains of `--ticks`, `config` the pools
that the reconciler and the settings agree on after a reload. A pass, which
`Fleet` has in full, may here save back, take down, adopt and launch as it
likes, within the pools it started with. What is not left open is on *what* it
does so: it lists the containers, reads a pool's rows, waits for GitHub and
only then writes, always the row as it read it, and `note[t][r]` is that
reading. With `POST /reconcile` two passes do so at once, and each may save
over what the other has just written. Of a runner only that is kept which the
shutdown can see: whether there is a container, and whether the row is live
and has its id. `doomed` is the list that `_retire_the_fleet` read.

| Action | Code |
|---|---|
| `NextRound` with `Reload` | the loop's condition, `_reload`, `replace_pools`; nothing is awaited in between |
| `InPass`, `TickEnds` | `tick`, for the loop; `Reconcile`, `InPass`, `Reconciled` for `POST /reconcile` |
| `Read`, `SaveBack`, `TakeDown`, `Adopt`, `AdoptSpent` | `_observe` and `_settle`: the rows read, and each whole-row save of one |
| `ReloadRaises` | `_reload` on a file that makes the loader raise what it does not translate: the loop ends |
| `Reclaim`, `ReclaimRaises` | `_reclaim`, and an error it lets through; then `--ticks` and the sleep |
| `Wake` | the end of `_sleep_or_stop` |
| `StopLoop`, `RetireOne`, `Finish` | `_retire_the_fleet`; the cancelled API |
| `Terminate`, `HangUp`, `Kill`, `Restart`, `Edit`, `Exit` | the signals; systemd, the operator, the runner |

`astray` is history: the runners whose last call failed or was cut short, or
that a pass of the API had in hand when the loop was left. So is `overwritten`:
the runners whose row a pass saved from a reading that the other had made out
of date, until the container is adopted again. There is no clock: how long a
sleep lasts, how old a row is, and when housekeeping is due, is left open.
Operators who retire by hand are `Fleet`'s.

### `QueueView`

It takes over where `Fleet`'s `PlanPool` ends, and extends `Admission`, whose
call is the middle of its behaviour: `InitView` draws the pools as observed
with the queue GitHub has, `Readings` which repositories were read (a pool may
fail before or after reading, in the middle of an organization), the request
of each pool comes from `ScalingPolicy`'s plan, and `Record` is `explain_queue`
on what `Admission` left. After that a reader looks at a snapshot that ages
while the daemon goes on (`Elapse`), finds Docker unreachable (`GoBlind`,
`Recover`) or stops. Pools and jobs are numbered in the order of their names,
which break ties in opposite directions here and in `admit`.
`QueueViewAssumption` says what `RunnerPool` and the loader make sure of: an
observed pool has no more active runners than `RunnerPool.admit` let in,
priorities are integers, a queue is finite.

### `GitHubTransport` and `GitHubPoll`

`GitHubTransport` has coroutines that each make one request at a time. `call`
is the request with what it set out with: attempt, age of the attempt, how
long its token has left and how long the call has had it (`held`), the cached
copy. The token is a pair of times left,
the *real* one and the one the host believes in, which differ by up to `Skew`;
one tick takes both down. `lock` is the provider's lock, a set so that the
mutant without it can be expressed.

| Action | Code |
|---|---|
| `Begin`, `UseToken`, `TakeLock` | `_request` up to the loop; `token()` without and with minting |
| `Discovered`, `Minted`, `MintFails` | `_discover`, `_mint`, `_call` |
| `Serve` | GitHub: it refuses, or acts and answers, or acts and the answer is lost or is a 5xx |
| `Again`, `GiveUp` | the loop of attempts |
| `NotModified`, `Succeed`, `Refused`, `Garbled`, `Download` | the copy for a 304; the cache's update; `_translate`; `_decode`; the unauthenticated download of logs |
| `Revoke`, `Hide`, `Vanish`, `Change` | GitHub |

Nothing relates the length of an attempt to the margin. The default
`request_timeout` is twenty seconds (`settings.py:139`), but httpx applies it to
each phase of an exchange, and the loader accepts any (`settings.py:555`). So
`TokensLastTheMargin` says what the margin of five minutes buys: only a call that
has gone on with its token for longer than that may have it rejected as expired.
`TransportAssumption` asks only that the margin be shorter than a token's life.

`GitHubPoll` has a request as one step and GitHub's moves between two: runs
start and end, jobs are handed out, later jobs of a run become queued, a
completed run is run again (`Rerun`), pull requests become drafts. GitHub gives
the jobs of a run's latest attempt (`filter=latest`), so a job that an attempt
replaced is no longer listed (`superseded`). A page that is no object ends its
walk with what there is (`Misreads`, `OddPage`). The pages of one run's jobs are a
single step. The history variables (`steady`, `begun`, `cut`,
`drafted`, `removed`) remember what was true all through an operation, because
that is what its answer can be held to.

### `Journal`

Each method of the store is one transaction and one step; those who use it
read a row, change the copy (`Register`, `AssignJob`, `Fail`, `Retire`) or leave
it as it is (`SaveAsIs`: the job lookup, `_settle`), save it whole and publish.
`Adopt` and `SaveAdopted` are the one way past that: `_observe` drops closed rows
(`reconciliation.py:364`) and makes a new row of a container which has no other,
as idle or, if it has stopped, as failed, saves it over the closed one and says
nothing of it. `hand[t]` is what a task works on, with the row as read (`base`)
and the events pending. `Archive` stores the log,
`Prune` deletes closed rows and by the cascade their logs, `Crash` empties the
hands. `GatherStats` reads events, then rows; `Story` is the fold.

### `Settings`

A TOML table is a function from the keys that are written to their values.
Each key has one value of each sort the loader tells apart (a word where a
number belongs, blank, zero, a number, one too many); `Load` is the loader's
chain of checks as a sequence of verdicts of which the first that fails
decides: *accepted*, *refused* with a `ConfigError`, or *raised* when an
exception passes through untranslated. Every definition of the loader was
compared with the program on the values of `MCSettings`. The operator edits
one key at a time; `Start`, `Stop` and the three kinds of reload are the
daemon. `IsFile` says what a file is, however wrong: a list of tables with
keys among `PoolKeys`, and where a number belongs a number or one of the three
things that may stand in its place. `SpecOf` yields a record that
`ScalingPolicy!IsPoolSpec` must accept, so `SpecsAreUsable` discharges the
assumption under which the policy's theorems are stated.
`memory`, `network` and `docker_socket` pass through the loader as they are
and are left out; a key the loader does not know is not looked at by it, and
so is none that `NothingWrittenIsIdle` is about.

## 3. The runs

| Run | What it asks | Distinct states |
|---|---|---|
| `fleet_core` | one pool (max 2, warm 1), two ids, two faults, a database that may be lost: builds survive, sweeps spare, launches fit, containers come on record, rows refine `RunnerLifecycle` | 1,412,652 |
| `fleet_live` | the same daemon (max 1) under fairness: leftovers go, a full queue is served | 41,596 |
| `fleet_pools` | two pools on one repository and one host place, and an operator who retires by hand: the three safety properties together, and the host's ceiling | 1,941,666 |
| `scaling` | three runners, five specs, ages 0–2, up to three jobs | 49,380 |
| `admission` | three pools against four tables of limits | 114,048 |
| `daemon` | one runner of a pool that reloads remove and bring back, files that are refused or raise, `--once` or no limit, a pass of the API that reads, waits and saves beside the loop's, one fault, under fairness: containers are accounted for, a stop takes the fleet along and ends, no reload is lost | 385,568 |
| `queue` | two pools of many kinds, five queues in two repositories, failing pools: rows agree, blame is true, the urgent come first, what is missing or old is said to be | 330,660 |
| `transport` | a task that launches beside one that retires, two attempts, one fault: tokens last the margin, answers are current, registrations are known, one task mints | 2,692,558 |
| `poll` | two runs with four jobs, one of them of a pull request, five runners on pages of two, one run that is run again, one failed request or odd page: queue, job and list are read as they stood | 1,496,851 |
| `store` | two tasks on one runner's row, adoption, pruning, a crash, a report | 3,792,442 |
| `settings` | two files, every pair of edits, starts, stops, reloads | 501,108 |
| `claim_stuck` | the refuted claim of section 6 | – |

**Bounds, and why they are enough.** Two ids in one pool are the least with
which a launch can race a retirement, an adopted runner can crowd out a
planned one, and the id of a retired runner can be in use again while a pass
still remembers it. `MaxFaults` bounds failed calls, crashes, accidents and
dropped connections together; two are needed for the double failures the code
comments on (a crash after a failed delete). `MaxQueued = 1` is enough for
"empty" and "waiting", with `SpecTwo`'s warm floor to ask for more than the
queue does. `MaxContainers` is 1 in `fleet_pools`, so that the two pools
compete, and not binding elsewhere; that run has no faults, because its
question is what an operator and another pool can do to a pass, and faults are
`fleet_core`'s. In `scaling`, thresholds are 1 and ages reach 2: below, at,
past. In `admission` three pools are needed for shares (with two, smooth and
plain round robin differ little), and cpu and memory costs 0 to 2 let one pool
be stopped by a ceiling that another still fits under.

`daemon` has one runner: what the shutdown does to one does not depend on
another, which is also what `DaemonProofs` shows for any number. Its one fault is a kill
or a failed call; what the two passes save over each other takes none. `--once`
may be given on the first start only: the unit that starts the daemon again
passes no `--ticks`. `queue` has
two pools because a job is counted against the better of two, and four jobs at
most, which is one more than the first pool's free, starting and full places.
`transport` has two tasks, for the lock and the cache are between two; a
lifetime of two against a margin of one lets a token be fresh, due and run
out, and two attempts of one tick outlast the margin, so that the exception of
`TokensLastTheMargin` is reached; `Skew` is 0, since a skew only shifts when a
token is due (the theorem has any). `poll` has a limit of one run per listing, so
that the limit bites, and pages of two, the second of which can be full while the
list is at its end; one re-run gives a job a second attempt. In `store` one
runner suffices as rows are independent, two tasks make a copy stale, and three events are a whole story. `settings`
makes every *pair* of edits, as most checks relate two keys; a base with a
pool in an included file and one without let names be shared across files.

`SYMMETRY` permutes runner ids, tasks, or the two pools with their ids, in
safety runs only; they are compared for equality alone. `admission` turns the deadlock check off because
a call ends, `queue` because a stopped daemon's snapshot grows no older than
the bound, `settings` because a crashed loader is restarted by systemd, which
`Daemon` has.

**Fairness** (`FairSpec` of `Fleet`). The loop always ticks again and each
command runs to its end (`WF` on `Tick` and `RetireNext`; `daemon.py:72`);
containers boot, jobs are taken and end, exited runners exit, and clocks run;
none of that is under the code's control, but a runner that never boots or a
job that never ends is killed by GitHub's or ghspot's own limits. `WF` on
`Prune` stands for uuids never running out. Nothing is assumed of accidents,
of arrivals, or of operators: faults stay possible but are finite in number.
`FairSpec` of `Daemon` asks one `WF`, of whatever the loop or the launches of
its own pass do next (`LoopGoesOn`): each of their awaits is a call with a timeout, or the sleep. Nothing is
asked of the API's passes, of signals or of systemd.
`FairSpec` of `Admission` says that a function call returns. The other modules
state safety alone: that a request or a poll ends is a matter of its timeouts,
which the models count as steps.

**Liveness and blocked pools.** `LeftoversGo` (`OrphansAreRemoved` and
`SpentContainersGo`) and `QueueIsServed` say "or the pool is blocked for good".
`Blocked` names the two rows on which every pass raises (nobody is provisioning the runner any
more, and its row is pending past the grace period, or registered with the
runner up), and a pool that adoption brought above `max_runners`; `claim_stuck`
shows that the first two last. `BlockedForGood` is `<>[]Blocked`: a launch, which
is never blocked, or a row that a later pass or the end of its job moves on, is
no excuse, and a pool that launches runners and judges each dead before it has
a job violates `QueueIsServed` (its mutant does just that). What these
properties add is that nothing *else* can stop a pool.

Every property of a passing run has a mutant: a definition of the model,
changed as a plausible bug would change the code, for which TLC finds that
property violated. The mutated forms stand beside the definitions they
replace and are introduced by "as a bug would have it".

## 4. What is proved

All hold for any number of pools, runners, jobs, tasks, faults and edits. Every
invariant and every step property that a run checks is among them.

| Theorem | Says | Assumes |
|---|---|---|
| `FleetIsTyped` | every reachable state is well typed | – |
| `BuildsAlwaysSurvive` | no pass tears down a build it misjudged | `OnePass` |
| `SweepsAlwaysSpareTracked` | the sweep takes nothing that its pool tracks and nobody who is being provisioned, whoever shares the target | `OnePass` |
| `LaunchesFitThePool` | what is being launched and what the pass counted fit `max_runners` | `OnePass` |
| `CeilingAlwaysHolds` | until a call fails, what is being launched fits `max_containers` beside all the host has up | `OnePass` |
| `GrantsAlwaysFitCounted` | after that, too, what is granted fits `max_containers` beside all that the counted pools have up | `OnePass` |
| `PassesAreSafe` | the builds, the sweep and the pool's room together, whatever operators do | `OnePass` |
| `ContainersAreAlwaysOnRecord` | containers come up only for rows that say so | `OnePass`, no operators |
| `RowsAlwaysFollowLifecycle` | each row implements `RunnerLifecycle`: every step of the fleet is one of its steps or a stutter | `OnePass`, no operators |
| `SnapshotsAreTyped`, `PlansNeverContradict`, `FloorIsAlwaysKept`, `QueueIsAlwaysCovered`, `PlansAlwaysFitPool` | the policy's promises | – |
| `PlansAlwaysSettle` | a plan carried out, and planned again, launches as many and reaps nobody | – |
| `SpecsAreAlwaysUsable`, `RoutesAlwaysExist` | whatever is written, edited, refused and put in force: each pool in force is one that the policies are made for, and has a client | `SettingsAssumption` |
| `NothingWrittenIsEverIdle` | of a file that is accepted, every key of a pool changes what is loaded or says what is the default | `SettingsAssumption` |
| `PlansInForceAreSound` | the policy's promises, for whatever is in force and any pool | `SettingsAssumption` |
| `CeilingsAlwaysHold`, `GrantsAreAlwaysWanted`, `NothingIsEverWasted` | what admission may not do | – |
| `SharesAreAlwaysProportional` | while all contend, no pool is further from its weighted share than the other contenders make possible | – |
| `RoomIsAlwaysUsedUp` | with ceilings on containers alone, `admit` hands out exactly the room there is, or all that is asked | – |
| `ViewIsAlwaysHonest`, `RowsAlwaysAgree`, `UrgentIsAlwaysFirst`, `BlameIsAlwaysTrue` | the queue view, over its whole behaviour from the readings to the reader | – |
| `DaemonIsTyped`, `ContainersAreAlwaysAccounted`, `FleetAlwaysGoesWithDaemon` | every container is led to by a row, or known to have gone astray, or its row was saved over by the other pass; a stop leaves only the latter two, or those without a credential | – |
| `LonePassOverwritesNothing` | without the API no row is saved from an old reading, so that exception is empty | no API |
| `TransportIsTyped`, `TokensAlwaysLastTheMargin` | a token is rejected only if revoked, or if the call went on with it for longer than the margin less the skew | `TransportAssumption` |
| `ReadingsAreCurrent` | what a GET returns was so at some moment of the call | – |
| `RegistrationsStayKnown` | a deletion that returns leaves nothing, a registration nobody knows of was lost on the way | – |
| `LockStaysInUse`, `DueIsMintedOnce` | whoever holds the lock is about to mint, and a token is minted only when the last one is due | – |
| `QueueIsAlwaysRead`, `TakenJobsAreAlwaysFound` | what the listing of the queue and the search for a runner's job owe | – |
| `NoRunnerIsEverSkipped` | the walk over the pages misses a runner only if one before it was removed meanwhile | – |
| `JournalIsTyped`, `StoryIsAlwaysTold` | without crashes, every end is in the event log or in the hands of whoever saved it, but for containers adopted as failed | – |
| `LogsAreAlwaysKept`, `OnlyStaleSavesEverReopen` | a log goes only with its row; a closed row is opened again only by a copy that was read before, or by adoption | – |
| `ReportAlwaysAddsUp` | nobody is reported both gone and alive, unless its row was opened so; without crashes, nobody as busy for longer than it was there, unless it was adopted and its beginning is not in the log | – |

`OnePass` says that passes follow each other, which is the daemon's loop
without `POST /reconcile`. It cannot be dropped: with two tickers TLC refutes the
property (section 6). An operator who retires by hand
saves a copy of a row that may be older than the row, and so does break the
lifecycle; hence "no operators" in two of them. The assumptions on constants
that the modules name (`TransportAssumption`, `QueueViewAssumption`, ...) are
under every theorem of their module and are evaluated by TLC.

**The argument for `Fleet`.** A property like `BuildsSurvive` talks about a
step of the retirement; why it holds lies several readings back. `PassInv`
carries those readings forward as facts about the world *now*:

- `SeenDownIsDown`: what was not running when the pass listed it is not
  running now. A container is only ever started inside a launch, and a lone
  pass launches after it has observed.
- `UnlistedIsGone`: whom GitHub did not list is not registered now, for the
  same reason.
- `IdleIsListed`, `PlansAreHeeded`: an object the pass calls idle was listed
  as not busy; whom a plan takes down is idle or overran.
- `RetiringForCause`: at the stop and the remove, one of these is the reason.
- `RowsAreSound`, `PassesNest`, `WorkIsOwn`: the frame the others rest on,
  with `TypeOK`.

None of these is inductive without the others. Each is shown to be kept by
every step in a lemma of its own (`SeenDownIsKept`, `UnlistedIsKept`, …) from
a classification of the steps (`StepsOfAPass`), so that an action that leaves
a pass alone is dealt with once. `SweepInv` adds what the sweep needs:
`ClaimsAreKnown`, a live row's claim on its registration is one the pass knows
of, since only the pass itself writes rows. `RegisteredOnRecord` ties a
provisioning between its two writes to the row.

`LaunchWithinPool` compares the launches under way with rows that were counted
at the planning, any number of steps earlier. `RoomInv` bridges the two:
between a pool's plan and its launch nothing but the launch adds to the pool
(`RoomOncePlanned`), and a grant is taken off the wishes before any of it is
launched (`LaunchedOnce`); retirements, operators and crashes only take
away.

`CeilingWithoutFaults` has the same shape over all pools, and needs more: a
pool that was given up is not counted, and what it has up may exceed the host
together with what the others are granted. So the proof first shows that
nothing is given up while no call fails (`NothingIsGivenUp`): rows and objects
are past their launch (`RowsAreWhole`, `ObjectsAreWhole`), no container is left
created (`ContainersStart`), a runner that had its job is never listed as
waiting for one (`BusyAreSpent`), and a pool with all it may yet be taken to
have fits `max_runners` (`PoolsFit`), so that no aggregate and no pool refuses.
Then every running container of a pool that was settled has an active object
(`RunningAreKnown`), what a planned pool has up is within what was counted for
it (`PlannedAreHeld`), and summed over the pools that is all that is up
(`PartsFitTotal`, `HostFits`). A killed process counts as a failed call.

Once calls fail, `GrantsFitCounted` is what is left of the ceiling: a pool that
somebody was counted for has no more up than was counted, from the moment it
is behind the pass until `_admit` (`CountsCover`). This needs no assumption on
failures, because a pass knows of all that its pool has up when it leaves it
(`ActiveAreKnown`), rows come up only in the pool under observation or in a
launch (`NewlyActive`), and a pass neither comes back to a pool nor keeps its
counts beyond the pass (`CountsAreKept`). No run has it: two pools, an operator
and a fault together are beyond the bounds of section 3. With
`GrantsFitCounted` as a PROPERTY of `fleet_pools.cfg`, `MaxFaults = 2` and
`Operators = {}` an instance with faults has 1,672,254 distinct states, where
it holds and `HostCeiling` does not.

`RowsFollowLifecycle` is proved as a step simulation: each action that writes
a row is shown to be a step of `RunnerLifecycle`, or to leave the row alone.
That a whole-row save of an object read earlier is such a step needs to know
that the row is still as it was read. `RecordInv` says so for a lone pass:
`ObjectsMatchRows` (the object in hand is as the row is, but for the
transition just made), `HandsAreFree` and `SettlingIsOfKnown` (what the pass
settles has no launch under way), `LaunchesAreOnRecord` (a launch's row is in
the state its step says).

**The policies.** For `Admission` the invariant (`Books`) says that a pool which is out is out
for a ceiling, that one which is not is still owed exactly the rest, and that
`CrossingLasts`: a runner that would cross a ceiling would still cross it
after more has been committed. `Credits` adds the arithmetic of the weighted
round robin: the contenders' credits sum to zero after each round, a winner's is
positive before it pays, so each lies within a bound; and a credit *is* the
distance from the proportional share, times the weights. (Credits are negative
as often as not, and the sums of this development are over naturals, so the
proof shifts them up by the bound.) `Accounts` says that what has been granted
and what is owed add up to what was asked. For the policy the theorems are
facts of set cardinalities (`PolicyLemmas`) under the typing invariant; for
`PlanSettles`, that taking idle runners down to the floor leaves the floor.
They are theorems of `SnapshotSpec`, and of one state at a time: `EveryPlanIsSound`
says the same of any spec that `IsPoolSpec` lets through.

**The configuration.** `SettingsInv` has two parts: the file, whatever has
been done to it, is a file (`IsFile`), and what is in force was accepted when
it was loaded, with a client for each of its pools. The first is kept by every
edit (`TableStaysTable`, `PoolsStayPools`, `FileStaysFile`). The second comes
from what a chain of checks implies once it ends in *accepted*: the first
failure is none, so every check passed (`AllAreAccepted`), of a pool
(`AcceptedPool`) as of a file (`AcceptedFile`). That the tables of a file and
of those it includes are one list needs `FlattenSeq`, a recursive function:
that it is defined at each place, and a list there, is shown by the least
place at which it would not be (`FlatListsAreLists`, over `LeastNumber`, from
the well-foundedness of the naturals). `AcceptedSpec` then goes through
`PoolSpec`'s own checks beside the parser's, since neither set implies
`IsPoolSpec`: the parser sees that `max_idle` is not below `min_idle`,
`PoolSpec` that `min_idle` is not above `max_runners`.
`NothingWrittenIsEverIdle` goes over the keys by what is made of them: those
`PoolSpec` is told as they are (`PlainKeyIsDefault`), the mode, the knobs of a
mode (of which it matters that `_process_manager` refuses them under another),
and those that are mended when blank (`MendedKeyIsDefault`).
`SettingsAssumption` says of the constants that an operator starts from a file
and writes, where a number belongs, what `Numbers` has.

For `QueueView`, which extends `Admission`, `ViewInv` says at which point of
the call which part of `AdmissionInv` may be read, and that the snapshot is
`explain_queue` of exactly what the call ended with and no older than its age.
That as many rows of a pool are shown as its count says is an argument about
places: those in a line are numbered without a gap (`RowsAgree`).

**The daemon.** The invariant carries `ContainersAreAccounted` into the shutdown:
`ListIsComplete` says that, once the live rows have been read, whatever is up
is on the list with its container id, or astray, or overwritten, or without a
credential. It needs `PassesAreOver` (nobody else acts once the daemon has
stopped), `JobsAreOwned`, and that a pass has notes only while it observes
(`PassesNest`). `ReadingsAreFresh` is why a lone pass overwrites
nothing: what it noted of a row is what the row says, since it launches only
after it has observed.

**The client.** `TransportInv` has, beside the types: `BeliefIsSound`, what
the host believes of a token is off by at most the skew; `LockIsSound`, at
most one task is inside the lock and those inside found the token due; a cached
copy is never newer than GitHub; and for each call `CallIsSound`, which says
what the call set out with and how far it may have got. `TokensAlwaysLastTheMargin`
follows from `Covered`: what a token has left and the time the call has had it
come to more than the margin less the skew, as they did when it was handed out,
and one grows as the other shrinks. For `GitHubPoll` the moves of GitHub are
abstracted to one relation (`MovesOn`: runs and jobs go forward, or a completed
run begins again and its jobs are no longer among those the operation is held
to), which `PollInv` is closed under; each conjunct follows one kind of job through the
requests. `ListInv` places the current registrations inside the list as it
stood when the walk began, with the removed ones as the gaps, and counts what
the pages read so far can have covered.

**The store.** `JournalInv` is `ClosedStaysClosed` (a hand that read a closed
row does not open it), `EndsAreTold` (the end is in the log, or pending in
the hand that saved it, or the row was adopted as failed) and
`AdoptionsAreNoted` (who adopts is among the adopted).
`ReportInv` follows events from the hand they are pending in to the log:
`DatesAreInOrder` (in both, whatever happened to a runner happened after its
registration, and not in the future), `BeginningsAreKnown` (without a crash,
whoever was seen, and was not adopted, has its registration in one of them) and `PendingIsOwn`
relate a story to its runner, and with them its registration is no later than
its first job. `EndedStayDown` (whoever was told of as ended is not up, unless
a closed row was opened) carries the first of the report's two readings to the
second, for which `NewcomersAreNew` is needed: an id is not used twice while
somebody holds it. `ReportInv` was checked with TLC on the instance of `store`
before it was proved.

**Only model-checked** is what is true in the long run: `LeftoversGo`,
`QueueIsServed`, `CallEnds`, `SignalledFileIsInForce` and `StopIsHeeded`.
Liveness under fairness rests on `ENABLED`, which the prover does not
reason about.

`Totals` defines a sum as the size of a disjoint union instead of
recursively, so that `PolicyLemmas` can prove what the sums here need.

## 5. What is not modelled

- The command line, the web front end, packaging, logging, the views and
  their schemas: input and output around the parts above. Of parsing, what a
  key may be and what becomes of it is modelled, TOML and paths are not.
- What `docker` and GitHub do inside: they are the environment's actions.
- Pruning of the host (`backend.py:223`), load probes, usage figures, the
  contents of logs. The probes' figures are an input of `Admission`.
- `drain` and the store's `delete` and `prune` are called by nothing in the
  program; `prune` is in the models because its effect is what the cascade of
  the logs and the reuse of ids depend on.
- Time in the daemon's loop: the interval, and the schedule of housekeeping.
- The semaphore of eight around the fetches of jobs, which bounds a rate; the
  static token provider, which returns a constant; the names of rate-limit
  headers, whose values the client records and nobody reads.
- That a request, a poll or the settings' loader comes to an end.

## 6. Where the code and its words differ

`claim_stuck` is a run that TLC refutes, with the lines it quotes in
`PROJECT.json`: "a crash costs at most one tick" (`reconciliation.py:5`). A row
left PENDING, or left REGISTERED with its container up, makes every later pass
of its pool raise.

Seen while modelling, and not the subject of a run. In the pass:

- A container that docker created and could not start is adopted as failed on
  every pass, and the adopted record claims the registration
  (`reconciliation.py:475`), so that the sweep keeps what the architecture's
  lifecycle page says it "deletes on the next tick".
- Where two pools share a repository, the sweep of one deletes the
  registration of the other's booting or reconnecting runner, which is offline
  and held by no row of the pool being observed (`reconciliation.py:475`).
  `config.example.toml:257` has two such pools. `SweepSparesTracked` is
  therefore about the rows of the pool that sweeps.
- With `POST /reconcile` beside the loop, a pass may act on a list of
  containers older than the rows it reads, and stop a running build. Hence
  `OnePass`.
- `max_containers` counts "runners across every pool" (`admission.py:50`), but
  not those of a pool that raised in this pass; `CeilingWithoutFaults` is
  therefore stated up to the first failure, and
  `GrantsFitCounted` beyond it.
- With `POST /reconcile` beside the loop, a pass that has read a row as
  registered may retire it as it read it, without the container's id
  (`reconciliation.py:417`), or save it back so (450), after the other pass has
  saved the id: the container is up and no live row leads to it until a pass
  adopts it. `ContainersAreAccounted` and `FleetGoesWithDaemon` except it.
- Two pools that can serve the same job both plan a runner for it.
- `_launch` counts a failed provision out and says nothing of it
  (`reconciliation.py:593`), so a job is shown as *starting* although the
  launch failed.

In the daemon:

- "when the daemon stops, the fleet stops" (`daemon.py:3`). The runner of a
  pool that a reload removed is retired through a credential named *default*
  (`composition.py:75`), and survives the daemon where there is none.
- `POST /reconcile` may launch while the fleet is being retired, and the API
  is cancelled only after that (`daemon.py:228-234`): such a runner is left
  over. `FleetGoesWithDaemon` excepts it.
- `replace_pools` says that the runners of a removed pool are "adopted or
  reaped by the next tick"; a pass only goes over the pools it has.
- A reload requested during a pass waits a whole interval: `_sleep_or_stop`
  clears the wake-up call first (`daemon.py:141`).
- The help of `ghspot daemon` says that "runners mid-job are left alone"
  (`interfaces/cli/main.py:145`); the shutdown retires them too, as
  `daemon.py` says.
- A file with a value of the wrong type may raise a `ValueError` that the reload
  does not catch (`daemon.py:171`): the loop ends without retiring the fleet,
  although "exiting on a typo is a fleet down for as long as nobody notices"
  (`daemon.py:159`).
- Housekeeping may remove an exited runner's container before the pass that
  would have kept its log.

In the loader:

- Such values are `max_containers = "lots"`, a pool's `cpus = "two"` and a
  `[[pool]]` entry that is no table.
- `gpus = 0` is read as "none" and an age of `0` as "never", because
  `0 == False`; the messages and the comment of `_unset` (`settings.py:644`)
  say what was meant.
- An `include` below a `[[table]]` is swallowed: `_reject_misplaced_include`
  looks into tables and not into lists of them. So is a `[capacity]` in an
  included file, which `GLOBAL_SECTIONS` (`settings.py:277`) forgets.
- Negative `cpus` of a container, a memory that does not parse, and a
  `poll_interval` of zero or less are accepted; an unresolvable secret is
  accepted by a reload and keeps the next daemon from starting.
- `changed_on_disk` compares the files of the last load, and so misses an
  included file that was added or removed.

In the queue view:

- "the default branch is checked before anything else" (`priority.py:56-58`): the
  code asks for a schedule, a dispatch and a pull request first, and the tests
  agree with it (`tests/unit/test_priority_policy.py:36`). `UrgentFirst`
  follows the code.
- A job is counted against the heaviest pool, ties going to the *last* name
  (`queue.py:185`), while `admit` serves the first.
- *no-pool* is said of jobs whose pool raised after reading its queue, and
  *contended* only where a pool watches less than it can serve: a pool that
  loses to another runs into a ceiling of the host. `BlameIsTrue` says so.
- An organization of which one repository was read is not named as unreadable.
- A snapshot is called stale also while the daemon is up and Docker is not.

In the GitHub client:

- A call that goes on for longer than `REFRESH_MARGIN` may have its token expire
  under it, although the margin is there so that "a request in flight at the
  boundary does not fail" (`auth.py:40-41`): the timeout is one of each phase of
  an exchange, there are several attempts, and any `request_timeout` loads.
- The job of a runner is searched among the latest attempts of the runs
  (`client.py:361`): once its run has been run again, the job it took in the
  attempt before is not found.
- A page that is no object ends a walk with what was collected
  (`client.py:447`), and nothing is said of it: a list cut short passes for a
  whole one.
- A 401 does not discard the token it was answered to, so a revoked one is
  used until it is due.
- A 404 of a deletion is taken for "gone", and may also say "not visible":
  `RegistrationsAreKnown` excepts it.
- The POST that mints is retried after a lost answer and then meets a 409: the
  registration it made is known to nobody, and only the sweep finds it.
- A draft is recognised by its branch's name alone, which two forks may share;
  one 403 turns the recognition off for the life of the client.
- A run beyond the limit of thirty per listing need not be seen by "the next
  tick" (`client.py:49-51`): the newest come first each time.
- A registration that goes while the pages are read hides another.

In the store:

- `FindJobForRunner` saves a row it read before asking GitHub
  (`jobs.py:45`), and so opens a row again that was retired meanwhile, as does
  any save of a copy that has become old.
- Adoption opens a closed row whose container is still running, or closes it
  once more as failed, and publishes nothing (`reconciliation.py:377-381`): the
  event log may lack such an end, the report may show a runner as gone and
  alive, and one adopted after the database was lost has no registration there
  and counts as busy for longer than it was alive. `OnlyStaleSavesReopen` says
  that nothing but these two opens a closed row.
- A crash between the save and the publication loses the event; the report
  then misses an end.
- `idle_runners` (`dto.py:129`) subtracts the jobs of runners that are still up;
  `utilisation` (`dto.py:142`) over a window counts the work, but not the life,
  of a runner that registered before it.

## 7. Plan

Done, in this order: `RunnerStates`, `ScalingPolicy`, `Admission`, `Fleet`,
`Daemon` and their first theorems, because the pass is where the readings
meet; then what surrounds it: `QueueView`, `GitHubTransport` and `GitHubPoll`,
`Journal`, `Settings`; then the theorems of section 4. Left:

1. How many *containers* the host may have beyond `max_containers`, which is
   held to rows: once a removal fails, `RetireRunner` closes the row all the
   same, and the container is up and uncounted until a pass adopts it.
