------------------------------- MODULE Daemon -------------------------------
(***************************************************************************)
(* The daemon around the passes (daemon.py): the loop, the signals that    *)
(* stop it or make it reload, and the retirement of the whole fleet when   *)
(* it goes; systemd starts it again when it dies.                          *)
(*                                                                         *)
(* Fleet has the passes and both commands step by step.  Here a pass may   *)
(* save back, take down, adopt and launch whatever it likes within its     *)
(* pools, but always on what it read before, while the other pass works on *)
(* the same rows: what is kept is what the shutdown can see of a runner,   *)
(* that is whether there is a container and whether a row, read at that    *)
(* moment, leads to it.                                                    *)
(***************************************************************************)
EXTENDS Integers, FiniteSets

CONSTANTS
  Pools,      (* every pool a configuration may name                       *)
  Runners,    (* supply of runner ids                                      *)
  PoolOf,     (* PoolOf[r]: the pool an id would be provisioned for        *)
  Files,      (* what may stand in the configuration file                  *)
  Rounds,     (* the values of --ticks that are tried                      *)
  HasApi,     (* whether daemon.api_bind is configured                     *)
  HasDefault, (* whether some credential is named "default"                *)
  MaxFaults   (* bound on failed calls, errors and kills                   *)

(* The file loads; or does but names a credential the daemon was not       *)
(* started with; or is refused; or has a value that makes the loader raise *)
(* what it does not translate (Settings has which).                        *)
FileStatus == {"good", "foreign", "broken", "malformed"}

Configuration == [pools : SUBSET Pools, status : FileStatus]

(* No --ticks: the loop ends by a signal alone.                            *)
Unlimited == -1

ASSUME DaemonAssumption ==
  /\ PoolOf \in [Runners -> Pools]
  /\ Files \subseteq Configuration
  /\ Rounds \subseteq Nat \cup {Unlimited}
  /\ HasApi \in BOOLEAN
  /\ HasDefault \in BOOLEAN
  /\ MaxFaults \in Nat

VARIABLES
  (* what survives the process *)
  row,         (* the store, as far as the shutdown reads it               *)
  ctr,         (* the containers                                           *)
  file,        (* the configuration file                                   *)
  faults,      (* failures so far                                          *)
  (* the memory of the process *)
  phase,       (* of the loop                                              *)
  left,        (* rounds left                                              *)
  stopping,    (* Daemon._stopping                                         *)
  reloading,   (* Daemon._reloading                                        *)
  config,      (* the pools of the reconciler and of the settings          *)
  doomed,      (* per runner: the row the shutdown read and has to retire  *)
  stage,       (* how far each pass is                                     *)
  scope,       (* the pools each pass goes through                         *)
  note,        (* what each pass has read of each runner                   *)
  batch,       (* the launches each pass has still to begin                *)
  job,         (* per runner: the provisioning under way                   *)
  (* history *)
  astray,      (* runners whose last call failed or was cut short, or that *)
               (* a pass of the API had in hand when the loop was left     *)
  overwritten, (* runners whose row a pass has saved from a reading that   *)
               (* the other pass had made out of date                      *)
  signalled    (* a SIGHUP came since the file was last edited             *)

passes == <<stage, scope, note, batch, job>>
fleet == <<row, ctr, faults, astray, overwritten, passes>>
loop == <<phase, left, stopping, reloading, config, doomed>>
vars == <<fleet, loop, file, signalled>>

Passes == {"loop", "api"}

Phase == {"checking", "ticking", "reclaiming", "sleeping", "leaving", "retiring",
          "stopped", "died"}

Alive == phase \notin {"stopped", "died"}

(* "registered": live, without the container's id; "up": live, with it.    *)
Row == {"none", "registered", "up", "closed"}

Live(r) == row[r] \in {"registered", "up"}

(* The container, as the pass has listed it, and the row still unread ...  *)
Listing == {"none", "running", "exited"}

(* ... and then the row too.  A live one was read "registered" or "up", or *)
(* with its container not running "bare" or "kept"; one that was not live  *)
(* is "unknown" if its container was running, and "spent" if it had ended; *)
(* "closed" is the one that the pass gave to such a container.  "out" is   *)
(* what a pass has nothing to do with, or no more.                         *)
Reading == {"registered", "bare", "up", "kept", "unknown", "spent", "closed", "out"}

NoNote == [r \in Runners |-> "out"]

NoJob == [by |-> "nobody", created |-> FALSE]

Spared == [r \in Runners |-> "none"]

Init ==
  /\ row = [r \in Runners |-> "none"]
  /\ ctr = [r \in Runners |-> "none"]
  /\ file \in {f \in Files : f.status = "good"}
  /\ faults = 0
  /\ phase = "checking"
  /\ left \in Rounds
  /\ stopping = FALSE
  /\ reloading = FALSE
  /\ config = file.pools
  /\ doomed = Spared
  /\ stage = [t \in Passes |-> "off"]
  /\ scope = [t \in Passes |-> {}]
  /\ note = [t \in Passes |-> NoNote]
  /\ batch = [t \in Passes |-> {}]
  /\ job = [r \in Runners |-> NoJob]
  /\ astray = {}
  /\ overwritten = {}
  /\ signalled = FALSE

Works == UNCHANGED faults
Fails == faults < MaxFaults /\ faults' = faults + 1

-----------------------------------------------------------------------------
(* Outside the process.                                                    *)

(* A job ends, and the runner with it.                                     *)
Exit(r) ==
  /\ ctr[r] = "running"
  /\ ctr' = [ctr EXCEPT ![r] = "exited"]
  /\ UNCHANGED <<row, faults, astray, overwritten, passes, loop, file, signalled>>

Edit ==
  /\ file' \in Files \ {file}
  /\ signalled' = FALSE
  /\ UNCHANGED <<fleet, loop>>

(* SIGTERM, SIGINT: request_stop.                                          *)
Terminate ==
  /\ Alive
  /\ stopping' = TRUE
  /\ UNCHANGED <<fleet, phase, left, reloading, config, doomed, file, signalled>>

(* SIGHUP: request_reload.                                                 *)
HangUp ==
  /\ Alive
  /\ reloading' = TRUE
  /\ signalled' = TRUE
  /\ UNCHANGED <<fleet, phase, left, stopping, config, doomed, file>>

(* The passes in T are cut short.  The thread that talks to Docker cannot  *)
(* be cancelled, so a container asked for may still come up.               *)
CutShort(T) ==
  /\ \E came \in SUBSET {r \in Runners : job[r].by \in T /\ ~job[r].created} :
       ctr' = [r \in Runners |-> IF r \in came THEN "running" ELSE ctr[r]]
  /\ job' = [r \in Runners |-> IF job[r].by \in T THEN NoJob ELSE job[r]]
  /\ astray' = astray \cup {r \in Runners : job[r].by \in T}
  /\ stage' = [t \in Passes |-> IF t \in T THEN "off" ELSE stage[t]]
  /\ batch' = [t \in Passes |-> IF t \in T THEN {} ELSE batch[t]]
  /\ scope' = [t \in Passes |-> IF t \in T THEN {} ELSE scope[t]]
  /\ note' = [t \in Passes |-> IF t \in T THEN NoNote ELSE note[t]]

(* The requests of a process go with it.                                   *)
Forgotten ==
  /\ left' = 0
  /\ stopping' = FALSE
  /\ reloading' = FALSE
  /\ signalled' = FALSE

(* The fleet is not retired.                                               *)
LoopEnds ==
  /\ phase' = "died"
  /\ doomed' = Spared
  /\ config' = {}
  /\ Forgotten
  /\ CutShort(Passes)
  /\ UNCHANGED <<row, overwritten, file>>

Dies == Fails /\ LoopEnds

Kill == Alive /\ Dies

(* Restart=always, with the unit's command line, which has no --ticks.  A  *)
(* file that does not load keeps the daemon down; one with another         *)
(* credential is what it now starts with.                                  *)
Restart ==
  /\ ~Alive
  /\ file.status \in {"good", "foreign"}
  /\ file' = [file EXCEPT !.status = "good"]
  /\ config' = file.pools
  /\ phase' = "checking"
  /\ left' = Unlimited
  /\ stopping' = FALSE
  /\ reloading' = FALSE
  /\ signalled' = FALSE
  /\ UNCHANGED <<fleet, doomed>>

-----------------------------------------------------------------------------
(* A pass over the pools it started with, first observing and taking down, *)
(* then launching.  Fleet has it in full.                                  *)

(* The containers are listed once, for all pools.                          *)
Starts(t, pools) ==
  /\ stage' = [stage EXCEPT ![t] = "observing"]
  /\ scope' = [scope EXCEPT ![t] = pools]
  /\ note' = [note EXCEPT ![t] =
       [r \in Runners |-> IF PoolOf[r] \in pools THEN ctr[r] ELSE "out"]]
  /\ UNCHANGED <<row, ctr, faults, astray, overwritten, batch, job>>

Ends(t) ==
  /\ stage[t] = "launching"
  /\ batch[t] = {}
  /\ \A r \in Runners : job[r].by # t
  /\ stage' = [stage EXCEPT ![t] = "off"]
  /\ scope' = [scope EXCEPT ![t] = {}]
  /\ UNCHANGED <<row, ctr, faults, astray, overwritten, note, batch, job>>

(* What is made of a row beside the container as it was listed.            *)
ReadAs(w, c) ==
  CASE w = "registered"      -> IF c = "running" THEN "registered" ELSE "bare"
    [] w = "up"              -> IF c = "running" THEN "up" ELSE "kept"
    [] w \in {"none", "closed"} ->
         CASE c = "running" -> "unknown" [] c = "exited" -> "spent" [] c = "none" -> "out"

(* A pool's rows are read; GitHub is asked next, and only then is anything *)
(* done to them.                                                           *)
Read(t, p) ==
  LET unread == {r \in Runners : PoolOf[r] = p /\ note[t][r] \in Listing} IN
  /\ stage[t] = "observing"
  /\ unread # {}
  /\ note' = [note EXCEPT ![t] =
       [r \in Runners |-> IF r \in unread THEN ReadAs(row[r], note[t][r]) ELSE note[t][r]]]
  /\ UNCHANGED <<row, ctr, faults, astray, overwritten, stage, scope, batch, job>>

(* What the row said when the pass read it or last wrote it.               *)
Claimed(n) ==
  CASE n \in {"registered", "bare"}          -> "registered"
    [] n \in {"up", "kept"}                  -> "up"
    [] n \in {"unknown", "spent", "closed"}  -> "not live"

Says(r) == IF Live(r) THEN row[r] ELSE "not live"

IsStale(t, r) == Says(r) # Claimed(note[t][r])

(* save: the whole row as the pass has it, whatever became of it since.    *)
Save(t, r, w, n) ==
  /\ row' = [row EXCEPT ![r] = w]
  /\ note' = [note EXCEPT ![t][r] = n]
  /\ overwritten' = IF IsStale(t, r) THEN overwritten \cup {r} ELSE overwritten

(* A runner that is up and listed by GitHub is saved as it was read; one   *)
(* that is not online yet has no container id there.                       *)
SaveBack(t, r) ==
  /\ note[t][r] \in {"registered", "up"}
  /\ Save(t, r, note[t][r], IF note[t][r] = "up" THEN "kept" ELSE "out")
  /\ UNCHANGED <<ctr, faults, astray, stage, scope, batch, job>>

(* A runner that was read may be retired, as it was read: without the      *)
(* container's id only the row goes; a failed call leaves the container.   *)
TakeDown(t, r) ==
  /\ note[t][r] \in Reading \ {"unknown", "spent", "out"}
  /\ Save(t, r, "closed", "out")
  /\ \/ note[t][r] \in {"registered", "bare"} /\ Works /\ UNCHANGED <<ctr, astray>>
     \/ /\ note[t][r] \in {"up", "kept", "closed"}
        /\ \/ Works /\ ctr' = [ctr EXCEPT ![r] = "none"] /\ UNCHANGED astray
           \/ Fails /\ astray' = astray \cup {r} /\ UNCHANGED ctr
  /\ UNCHANGED <<stage, scope, batch, job>>

(* A container without a live row is taken up again, from its labels, if   *)
(* it is still running ...                                                 *)
Adopt(t, r) ==
  /\ note[t][r] = "unknown"
  /\ row' = [row EXCEPT ![r] = "up"]
  /\ note' = [note EXCEPT ![t][r] = "up"]
  /\ astray' = IF phase = "retiring" THEN astray ELSE astray \ {r}
  /\ overwritten' = IF phase = "retiring" THEN overwritten ELSE overwritten \ {r}
  /\ UNCHANGED <<ctr, faults, stage, scope, batch, job>>

(* ... and otherwise is given a FAILED row, and retired.                   *)
AdoptSpent(t, r) ==
  /\ note[t][r] = "spent"
  /\ Save(t, r, "closed", "closed")
  /\ UNCHANGED <<ctr, faults, astray, stage, scope, batch, job>>

(* A closed row that no pass is at is dropped in the end, and its id comes *)
(* back as a new one.                                                      *)
Forget(r) ==
  /\ row[r] = "closed"
  /\ ctr[r] = "none"
  /\ job[r] = NoJob
  /\ \A t \in Passes : note[t][r] \in {"none", "out"}
  /\ row' = [row EXCEPT ![r] = "none"]
  /\ astray' = astray \ {r}
  /\ overwritten' = overwritten \ {r}
  /\ UNCHANGED <<ctr, faults, passes, loop, file, signalled>>

Unused == {r \in Runners : row[r] = "none" /\ ctr[r] = "none" /\ job[r] = NoJob}

(* The launches, once every pool has been gone through or given up.        *)
Launch(t) ==
  /\ stage[t] = "observing"
  /\ stage' = [stage EXCEPT ![t] = "launching"]
  /\ note' = [note EXCEPT ![t] = NoNote]
  /\ \E fresh \in SUBSET {r \in Unused : PoolOf[r] \in scope[t]} :
       batch' = [batch EXCEPT ![t] = fresh]
  /\ UNCHANGED <<row, ctr, faults, astray, overwritten, scope, job>>

(* The row is saved before the container is asked for ...                  *)
Register(t, r) ==
  /\ r \in batch[t]
  /\ batch' = [batch EXCEPT ![t] = @ \ {r}]
  /\ IF r \in Unused
       THEN /\ row' = [row EXCEPT ![r] = "registered"]
            /\ job' = [job EXCEPT ![r] = [by |-> t, created |-> FALSE]]
            /\ astray' = IF phase = "retiring" THEN astray \cup {r} ELSE astray
       ELSE UNCHANGED <<row, job, astray>>
  /\ UNCHANGED <<ctr, faults, overwritten, stage, scope, note>>

(* ... and again when it is up.  A call that fails may have created it all *)
(* the same; an error the command does not expect leaves the row as it is. *)
Create(t, r) ==
  /\ job[r] = [by |-> t, created |-> FALSE]
  /\ \/ /\ Works
        /\ ctr' = [ctr EXCEPT ![r] = "running"]
        /\ job' = [job EXCEPT ![r] = [by |-> t, created |-> TRUE]]
        /\ UNCHANGED <<row, astray>>
     \/ /\ Fails
        /\ ctr' \in {ctr, [ctr EXCEPT ![r] = "running"]}
        /\ job' = [job EXCEPT ![r] = NoJob]
        /\ row' \in {row, [row EXCEPT ![r] = "closed"]}
        /\ astray' = astray \cup {r}
  /\ UNCHANGED <<overwritten, stage, scope, note, batch>>

(* As a bug would have it: without the container's id.                     *)
SaveWithoutId(t, r) ==
  /\ job[r] = [by |-> t, created |-> TRUE]
  /\ job' = [job EXCEPT ![r] = NoJob]
  /\ UNCHANGED <<row, ctr, faults, astray, overwritten, stage, scope, note, batch>>

SaveStarting(t, r) ==
  /\ job[r] = [by |-> t, created |-> TRUE]
  /\ row' = [row EXCEPT ![r] = "up"]
  /\ job' = [job EXCEPT ![r] = NoJob]
  /\ UNCHANGED <<ctr, faults, astray, overwritten, stage, scope, note, batch>>

Observe(t, r) == SaveBack(t, r) \/ TakeDown(t, r) \/ Adopt(t, r) \/ AdoptSpent(t, r)

Provision(t, r) == Register(t, r) \/ Create(t, r) \/ SaveStarting(t, r)

InPass(t) ==
  /\ \/ Launch(t)
     \/ \E p \in Pools : Read(t, p)
     \/ \E r \in Runners : Observe(t, r) \/ Provision(t, r)
  /\ UNCHANGED <<loop, file, signalled>>

(* POST /reconcile, and its answer.                                        *)
Reconcile ==
  /\ HasApi
  /\ Alive
  /\ stage["api"] = "off"
  /\ Starts("api", config)
  /\ UNCHANGED <<loop, file, signalled>>

Reconciled == Ends("api") /\ UNCHANGED <<loop, file, signalled>>

-----------------------------------------------------------------------------
(* Daemon.run.                                                             *)

(* Of a reload, only GhSpotError and OSError are caught.                   *)
LoadRaises == reloading /\ file.status = "malformed"

ReloadRaises ==
  /\ phase = "checking"
  /\ ~stopping
  /\ LoadRaises
  /\ Works
  /\ LoopEnds

(* _reload: what the file says, unless it is refused.                      *)
Reload ==
  /\ reloading' = FALSE
  /\ config' = IF reloading /\ file.status = "good" THEN file.pools ELSE config

(* As a bug would have it: a round more, stopping or not.                  *)
DeafNextRound ==
  /\ phase = "checking"
  /\ Reload
  /\ Starts("loop", config')
  /\ phase' = "ticking"
  /\ signalled' = FALSE
  /\ UNCHANGED <<left, stopping, doomed, file>>

(* A round: nothing is awaited between the checks and the pass.            *)
NextRound ==
  /\ phase = "checking"
  /\ ~stopping
  /\ ~LoadRaises
  /\ Reload
  /\ Starts("loop", config')
  /\ phase' = "ticking"
  /\ signalled' = FALSE
  /\ UNCHANGED <<left, stopping, doomed, file>>

TickEnds ==
  /\ phase = "ticking"
  /\ Ends("loop")
  /\ phase' = "reclaiming"
  /\ UNCHANGED <<left, stopping, reloading, config, doomed, file, signalled>>

(* Housekeeping is over, and with it the round: sleep, unless it was the   *)
(* last one.                                                               *)
Reclaim ==
  /\ phase = "reclaiming"
  /\ IF left \in {0, 1}
       THEN phase' = "leaving" /\ left' = 0
       ELSE phase' = "sleeping" /\ left' = IF left = Unlimited THEN left ELSE left - 1
  /\ UNCHANGED <<fleet, stopping, reloading, config, doomed, file, signalled>>

(* Docker's prune raised what ReclaimHostSpace does not catch.             *)
ReclaimRaises == phase = "reclaiming" /\ Dies

(* As a bug would have it: the wake-up call and the request are one event, *)
(* which the sleep clears.                                                 *)
ForgetfulWake ==
  /\ phase = "sleeping"
  /\ phase' = "checking"
  /\ reloading' = FALSE
  /\ UNCHANGED <<fleet, left, stopping, config, doomed, file, signalled>>

(* _sleep_or_stop: the interval is over, or a stop or a reload came.       *)
Wake ==
  /\ phase = "sleeping"
  /\ phase' = "checking"
  /\ UNCHANGED <<fleet, left, stopping, reloading, config, doomed, file, signalled>>

(* _retire_the_fleet reads the live rows once ...                          *)
StopLoop ==
  /\ phase = "leaving" \/ (phase = "checking" /\ stopping)
  /\ phase' = "retiring"
  /\ doomed' = [r \in Runners |-> IF Live(r) THEN row[r] ELSE "none"]
  /\ astray' = astray \cup {r \in Runners : job[r] # NoJob}
  /\ UNCHANGED <<row, ctr, faults, overwritten, passes, left, stopping, reloading, config,
                 file, signalled>>

(* Application.retire finds the pool's credential in the settings, and the *)
(* one named "default" for a pool that has left them.                      *)
HasCredential(r) == PoolOf[r] \in config \/ HasDefault

(* ... and retires each, all at once; an error is counted and no more.     *)
RetireOne(r) ==
  /\ phase = "retiring"
  /\ doomed[r] # "none"
  /\ doomed' = [doomed EXCEPT ![r] = "none"]
  /\ \/ ~HasCredential(r) /\ Works /\ UNCHANGED <<row, ctr, astray>>
     \/ /\ HasCredential(r)
        /\ Works
        /\ row' = [row EXCEPT ![r] = "closed"]
        /\ ctr' = IF doomed[r] = "up" THEN [ctr EXCEPT ![r] = "none"] ELSE ctr
        /\ UNCHANGED astray
     \/ /\ HasCredential(r)
        /\ Fails
        /\ row' \in {row, [row EXCEPT ![r] = "closed"]}
        /\ astray' = astray \cup {r}
        /\ UNCHANGED ctr
  /\ UNCHANGED <<overwritten, passes, phase, left, stopping, reloading, config, file,
                 signalled>>

(* As a bug would have it: the retirements are begun and not waited for.   *)
HastyFinish ==
  /\ phase = "retiring"
  /\ phase' = "stopped"
  /\ doomed' = Spared
  /\ Forgotten
  /\ CutShort({"api"})
  /\ UNCHANGED <<row, faults, overwritten, config, file>>

(* run_forever cancels the API once the fleet is retired.                  *)
Finish ==
  /\ phase = "retiring"
  /\ doomed = Spared
  /\ phase' = "stopped"
  /\ Forgotten
  /\ CutShort({"api"})
  /\ UNCHANGED <<row, faults, overwritten, config, doomed, file>>

-----------------------------------------------------------------------------

Loop == \/ NextRound \/ ReloadRaises \/ TickEnds \/ Reclaim \/ ReclaimRaises \/ Wake \/ StopLoop \/ Finish
        \/ \E r \in Runners : RetireOne(r)

Next ==
  \/ Loop
  \/ \E t \in Passes : InPass(t)
  \/ Reconcile \/ Reconciled
  \/ Edit \/ Terminate \/ HangUp \/ Kill \/ Restart
  \/ \E r \in Runners : Exit(r) \/ Forget(r)

Spec == Init /\ [][Next]_vars

(* Every await of the loop ends, each call having a timeout of its own,    *)
(* and so do those of its pass.                                            *)
LoopGoesOn ==
  \/ Loop
  \/ /\ Launch("loop") \/ \E r \in Runners : Provision("loop", r)
     /\ UNCHANGED <<loop, file, signalled>>

Fairness == WF_vars(LoopGoesOn)

FairSpec == Spec /\ Fairness

-----------------------------------------------------------------------------

TypeOK ==
  /\ row \in [Runners -> Row]
  /\ ctr \in [Runners -> {"none", "running", "exited"}]
  /\ file \in Configuration
  /\ faults \in 0..MaxFaults
  /\ phase \in Phase
  /\ left \in Nat \cup {Unlimited}
  /\ stopping \in BOOLEAN
  /\ reloading \in BOOLEAN
  /\ config \subseteq Pools
  /\ doomed \in [Runners -> {"none", "registered", "up"}]
  /\ stage \in [Passes -> {"off", "observing", "launching"}]
  /\ scope \in [Passes -> SUBSET Pools]
  /\ note \in [Passes -> [Runners -> Listing \cup Reading]]
  /\ batch \in [Passes -> SUBSET Runners]
  /\ job \in [Runners -> [by : Passes \cup {"nobody"}, created : BOOLEAN]]
  /\ astray \subseteq Runners
  /\ overwritten \subseteq Runners
  /\ signalled \in BOOLEAN

(* Whatever crashes, reloads and passes of the API come in between: a      *)
(* container that no provisioning has in hand and no live row leads to is  *)
(* one whose last call failed or was cut short (provision.py saves the row *)
(* around the container, retire.py after it), or, with passes of the API,  *)
(* whose row one pass saved as it had read it before the other moved it.   *)
ContainersAreAccounted ==
  \A r \in Runners :
    ctr[r] # "none" => row[r] = "up" \/ job[r] # NoJob \/ r \in astray \cup overwritten

(* When the daemon has stopped, so has the fleet (daemon.py's "the host is *)
(* the master"): what is left is a container whose retirement failed, one  *)
(* an API pass had in hand, one whose row such a pass and the loop's saved *)
(* over each other, or one of a pool that a reload removed, whose          *)
(* credential cannot be found.                                             *)
FleetGoesWithDaemon ==
  phase = "stopped" =>
    \A r \in Runners :
      ctr[r] # "none" => r \in astray \cup overwritten \/ ~HasCredential(r)

(* No SIGHUP is lost, whenever in the round it comes: the next pass is of  *)
(* the pools in the file as it was when the signal came, if it is          *)
(* acceptable and was not edited since.                                    *)
SignalledFileIsInForce ==
  [][phase = "checking" /\ phase' = "ticking" /\ signalled /\ file.status = "good"
       => config' = file.pools]_vars

(* A daemon asked to stop ends, whatever it was doing.                     *)
StopIsHeeded == stopping ~> ~Alive
=============================================================================
