------------------------------- MODULE Journal -------------------------------
(***************************************************************************)
(* The store (sqlite.py) as those who share it use it: the passes and the  *)
(* commands, which read a row, work on the copy and save it whole, then    *)
(* publish what happened; the pass that makes a row of a container which   *)
(* has none; the page of a job (jobs.py), which reads and saves the same   *)
(* way to remember a job's number; and the report (stats.py), which folds  *)
(* the event log into one story per runner and asks the rows who is alive. *)
(*                                                                         *)
(* Each method of the store is one transaction, hence one step.  Fleet has *)
(* what a row stands for; here it is what the store has to keep.           *)
(***************************************************************************)
EXTENDS Integers, FiniteSets, Sequences, SequencesExt

CONSTANTS
  Runners, Nobody,
  Tasks,       (* passes, commands, GET /runners/{r}/job-logs              *)
  KeepLast,    (* keep_last of prune                                       *)
  MaxTime,     (* bound on the clock                                       *)
  MaxEvents,   (* bound on the event log, and on what is begun             *)
  MaxFaults    (* bound on crashes                                         *)

ASSUME JournalAssumption ==
  /\ Nobody \notin Runners
  /\ KeepLast \in Nat /\ MaxTime \in Nat /\ MaxEvents \in Nat /\ MaxFaults \in Nat

VARIABLES
  row,       (* the table runners                                          *)
  log,       (* the table runner_logs: the runners with an entry           *)
  events,    (* the table events                                           *)
  now,       (* the daemon's clock                                         *)
  hand,      (* what each task works on                                    *)
  report,    (* GatherStats                                                *)
  faults,    (* crashes so far                                             *)
  reopened,  (* history: runners put back among the active ones            *)
  adopted    (* history: runners whose containers were adopted             *)

vars == <<row, log, events, now, hand, report, faults, reopened, adopted>>

Terminal == {"retired", "failed"}
States == {"none", "live", "busy"} \cup Terminal
Times == 0..MaxTime
Kinds == {"RunnerRegistered", "RunnerTookJob", "RunnerRetired", "RunnerFailed"}

(* state_changed_at, kept here for closed rows: nothing asks it of others. *)
Row == [state : States, at : Times]
NoRow == [state |-> "none", at |-> 0]

Idle == [stage |-> "idle", runner |-> Nobody,
         base |-> NoRow, copy |-> NoRow, pending |-> <<>>]

NoReport == [stage |-> "none", ended |-> {}, live |-> {}]

Init ==
  /\ row = [r \in Runners |-> NoRow]
  /\ log = {}
  /\ events = <<>>
  /\ now = 0
  /\ hand = [t \in Tasks |-> Idle]
  /\ report = NoReport
  /\ faults = 0
  /\ reopened = {}
  /\ adopted = {}

Active == {r \in Runners : row[r].state \in {"live", "busy"}}
Closed == {r \in Runners : row[r].state \in Terminal}

-----------------------------------------------------------------------------
(* Who writes: read, change the copy, save it, publish.                    *)

Holds(t, h) == hand' = [hand EXCEPT ![t] = h]

Load(t, r) ==
  /\ hand[t].stage = "idle"
  /\ row[r].state # "none"
  /\ Holds(t, [Idle EXCEPT !.stage = "read", !.runner = r, !.base = row[r], !.copy = row[r]])
  /\ UNCHANGED <<row, log, events, now, report, faults, reopened, adopted>>

(* The log has room for what is underway and for one more.                 *)
Room == Len(events) + Cardinality({t \in Tasks : hand[t].pending # <<>>}) < MaxEvents

ClosedAt(state, moment) == IF state \in Terminal THEN moment ELSE 0

(* The copy moves to a state, and its aggregate records what happened.     *)
Moves(t, state, kinds) ==
  /\ Room
  /\ Holds(t, [hand[t] EXCEPT
                 !.stage = "moved",
                 !.copy = [state |-> state, at |-> ClosedAt(state, now)],
                 !.pending = [i \in DOMAIN kinds |->
                               [kind |-> kinds[i], runner |-> hand[t].runner, at |-> now]]])
  /\ UNCHANGED <<row, log, events, now, report, faults, reopened, adopted>>

(* ProvisionRunner: a new row, under an id that was never given.           *)
Register(t, r) ==
  /\ hand[t].stage = "idle"
  /\ row[r].state = "none"
  /\ r \notin adopted /\ \A i \in DOMAIN events : events[i].runner # r
  /\ r \notin {hand[s].runner : s \in {s \in Tasks : hand[s].stage # "idle"}}
  /\ Room
  /\ Holds(t, [Idle EXCEPT !.stage = "moved", !.runner = r,
                 !.copy = [state |-> "live", at |-> 0],
                 !.pending = <<[kind |-> "RunnerRegistered", runner |-> r, at |-> now]>>])
  /\ UNCHANGED <<row, log, events, now, report, faults, reopened, adopted>>

AssignJob(t) ==
  /\ hand[t].stage = "read"
  /\ hand[t].copy.state = "live"
  /\ Moves(t, "busy", <<"RunnerTookJob">>)

Fail(t) ==
  /\ hand[t].stage = "read"
  /\ hand[t].copy.state \in {"live", "busy"}
  /\ Moves(t, "failed", <<"RunnerFailed">>)

(* RetireRunner keeps the last of the container's output before anything   *)
(* else.  The foreign key wants a row; without one the log is lost.        *)
Archive(t) ==
  /\ hand[t].stage = "read"
  /\ hand[t].copy.state # "retired"
  /\ log' = log \cup ({hand[t].runner} \cap {r \in Runners : row[r].state # "none"})
  /\ UNCHANGED <<row, events, now, hand, report, faults, reopened, adopted>>

(* As a bug would have it: a failed runner has had its last event.         *)
SilentRetire(t) ==
  /\ hand[t].stage = "read"
  /\ hand[t].copy.state # "retired"
  /\ IF hand[t].copy.state = "failed"
       THEN Moves(t, "retired", <<>>)
       ELSE Moves(t, "retired", <<"RunnerRetired">>)

Retire(t) ==
  /\ hand[t].stage = "read"
  /\ hand[t].copy.state # "retired"
  /\ Moves(t, "retired", <<"RunnerRetired">>)

(* As a bug would have it: assign_job instead of remember_job.             *)
AssignFound(t) ==
  /\ hand[t].stage = "read"
  /\ Holds(t, [hand[t] EXCEPT !.stage = "moved", !.copy = [state |-> "busy", at |-> 0]])
  /\ UNCHANGED <<row, log, events, now, report, faults, reopened, adopted>>

(* The copy is saved in the state it was read in: FindJobForRunner asked   *)
(* GitHub for the number of its job in between (remember_job), a pass      *)
(* found it as it was (_settle), or it is retired already (stop by its     *)
(* full id).                                                               *)
SaveAsIs(t) ==
  /\ hand[t].stage = "read"
  /\ Holds(t, [hand[t] EXCEPT !.stage = "moved"])
  /\ UNCHANGED <<row, log, events, now, report, faults, reopened, adopted>>

(* Nothing to do, nothing found, or a request that failed.                 *)
LetGo(t) ==
  /\ hand[t].stage = "read"
  /\ Holds(t, Idle)
  /\ UNCHANGED <<row, log, events, now, report, faults, reopened, adopted>>

Saves(t) ==
  LET r == hand[t].runner IN
  /\ hand[t].stage = "moved"
  /\ row' = [row EXCEPT ![r] = hand[t].copy]
  /\ Holds(t, [hand[t] EXCEPT !.stage = "saved", !.base = NoRow, !.copy = NoRow])
  /\ reopened' = IF hand[t].base # NoRow /\ hand[t].copy.state \notin Terminal /\ r \notin Active
                   THEN reopened \cup {r} ELSE reopened
  /\ UNCHANGED <<events, now, report, faults, adopted>>

(* As a bug would have it: INSERT OR REPLACE, which deletes the old row    *)
(* and with it what refers to it.                                          *)
ReplacingSave(t) == Saves(t) /\ log' = log \ {hand[t].runner}

(* save: ON CONFLICT DO UPDATE, whatever the row has become.               *)
Save(t) == Saves(t) /\ UNCHANGED log

Publish(t) ==
  /\ hand[t].stage = "saved"
  /\ events' = events \o hand[t].pending
  /\ Holds(t, Idle)
  /\ UNCHANGED <<row, log, now, report, faults, reopened, adopted>>

-----------------------------------------------------------------------------
(* A pass that finds a container no open row speaks for makes a new row of *)
(* it (_adopt), saves that over what there is and goes on with it.         *)

Registering(r) ==
  \E t \in Tasks : hand[t].stage = "moved" /\ hand[t].base = NoRow /\ hand[t].runner = r

(* There is no container before its row is saved as registered, and it may *)
(* be there when its row is closed: removing it may fail.                  *)
Adopt(t, r) ==
  /\ hand[t].stage = "idle"
  /\ r \notin Active
  /\ ~Registering(r)
  /\ Room
  /\ \E state \in {"live", "failed"}, at \in 0..now :
       Holds(t, [Idle EXCEPT !.stage = "adopts", !.runner = r, !.base = row[r],
                   !.copy = [state |-> state, at |-> ClosedAt(state, at)]])
  /\ adopted' = adopted \cup {r}
  /\ UNCHANGED <<row, log, events, now, report, faults, reopened>>

SaveAdopted(t) ==
  LET r == hand[t].runner IN
  /\ hand[t].stage = "adopts"
  /\ row' = [row EXCEPT ![r] = hand[t].copy]
  /\ Holds(t, [hand[t] EXCEPT !.stage = "read", !.base = hand[t].copy])
  /\ reopened' = IF hand[t].copy.state = "live" /\ r \notin Active
                   THEN reopened \cup {r} ELSE reopened
  /\ UNCHANGED <<log, events, now, report, faults, adopted>>

Adopts(t) == SaveAdopted(t) \/ \E r \in Runners : Adopt(t, r)

-----------------------------------------------------------------------------
(* The rest of the store, the clock, crashes.                              *)

(* Those that were closed last are kept.                                   *)
Recent == {r \in Closed : Cardinality({s \in Closed : row[s].at > row[r].at}) < KeepLast}

(* prune drops the oldest closed rows, ties as they come, and what refers  *)
(* to them.  The port offers it; nothing in the program calls it yet.      *)
Prune ==
  /\ \E gone \in SUBSET Closed :
       /\ gone # {}
       /\ Cardinality(Closed \ gone) = KeepLast
       /\ Closed \ Recent \subseteq gone
       /\ row' = [r \in Runners |-> IF r \in gone THEN NoRow ELSE row[r]]
       /\ log' = log \ gone
  /\ UNCHANGED <<events, now, hand, report, faults, reopened, adopted>>

Tick ==
  /\ now < MaxTime
  /\ now' = now + 1
  /\ UNCHANGED <<row, log, events, hand, report, faults, reopened, adopted>>

Crash ==
  /\ faults < MaxFaults
  /\ faults' = faults + 1
  /\ hand' = [t \in Tasks |-> Idle]
  /\ report' = NoReport
  /\ UNCHANGED <<row, log, events, now, reopened, adopted>>

-----------------------------------------------------------------------------
(* The report (stats.py).                                                  *)

Never == -1

(* Of the events at these places of the log, those of these kinds that     *)
(* happened to r; and when the first of them did, or the last.             *)
Of(places, r, kinds) == {i \in places : events[i].runner = r /\ events[i].kind \in kinds}
FirstAt(places) == IF places = {} THEN Never ELSE events[Min(places)].at
LastAt(places) == IF places = {} THEN Never ELSE events[Max(places)].at

(* stories.                                                                *)
Story(places, r) ==
  [registered |-> LastAt(Of(places, r, {"RunnerRegistered"})),
   took       |-> FirstAt(Of(places, r, {"RunnerTookJob"})),
   ended      |-> LastAt(Of(places, r, {"RunnerRetired", "RunnerFailed"})),
   failed     |-> Of(places, r, {"RunnerFailed"}) # {}]

(* _gap, never negative.                                                   *)
Gap(start, end) == IF Never \in {start, end} \/ end < start THEN 0 ELSE end - start

Busy(story) == Gap(story.took, story.ended)
Alive(story) == Gap(story.registered, story.ended)

(* since: the places in the log, by the date.                              *)
Since(moment) == {i \in DOMAIN events : events[i].at >= moment}

Gone(places) == {r \in Runners : Story(places, r).ended # Never}

(* As a bug would have it: who is alive is asked first.                    *)
LiveFirst ==
  \/ /\ report.stage = "none"
     /\ report' = [NoReport EXCEPT !.stage = "told", !.live = Active]
  \/ /\ report.stage = "told"
     /\ \E moment \in Times :
          report' = [stage |-> "done", ended |-> Gone(Since(moment)) \cap report.live, live |-> {}]

(* GatherStats reads the log of a window, then the rows.  Of the report    *)
(* those remain that it shows both gone and alive.                         *)
Reads ==
  \/ /\ report.stage = "none"
     /\ \E moment \in Times :
          report' = [NoReport EXCEPT !.stage = "told", !.ended = Gone(Since(moment))]
  \/ /\ report.stage = "told"
     /\ report' = [report EXCEPT !.stage = "done", !.ended = @ \cap Active]

GatherStats == Reads /\ UNCHANGED <<row, log, events, now, hand, faults, reopened, adopted>>

Answer ==
  /\ report.stage = "done"
  /\ report' = NoReport
  /\ UNCHANGED <<row, log, events, now, hand, faults, reopened, adopted>>

-----------------------------------------------------------------------------

Works(t) ==
  \/ AssignJob(t) \/ Fail(t) \/ Archive(t) \/ Retire(t) \/ SaveAsIs(t)
  \/ LetGo(t) \/ Save(t) \/ Publish(t)
  \/ \E r \in Runners : Register(t, r) \/ Load(t, r)

Next ==
  \/ \E t \in Tasks : Works(t) \/ Adopts(t)
  \/ Prune \/ Tick \/ Crash
  \/ GatherStats \/ Answer

Spec == Init /\ [][Next]_vars

-----------------------------------------------------------------------------

(* What a runner said last is kept as long as its row, however often the   *)
(* row is saved after (save against runner_logs' cascade).                 *)
LogsAreKept == [][\A r \in log \ log' : row'[r].state = "none"]_vars

(* If nobody was killed: a closed row that nobody is working on has its    *)
(* end in the log, so the report counts it (save, then publish), but for a *)
(* container found stopped, whose adoption fails the row and says nothing. *)
StoryIsTold ==
  faults = 0 =>
    \A r \in Closed :
      \/ \E t \in Tasks : hand[t].stage = "saved" /\ hand[t].runner = r
      \/ \E i \in DOMAIN events :
           events[i].runner = r
             /\ events[i].kind = IF row[r].state = "failed" THEN "RunnerFailed" ELSE "RunnerRetired"
      \/ row[r].state = "failed" /\ r \in adopted

(* A closed row is opened again only by a copy that is older than its      *)
(* closing or by the adoption of its container, never by someone who works *)
(* on what he read: looking a job up "says nothing new about its state"    *)
(* (runner.py's remember_job).                                             *)
OnlyStaleSavesReopen ==
  [][\A r \in Closed :
       row'[r].state \in {"live", "busy"} =>
         \E t \in Tasks :
           hand[t].runner = r /\ (hand[t].base # row[r] \/ hand[t].stage = "adopts")]_vars

(* Without crashes, and once all is published, no runner of the whole log  *)
(* was busy for longer than it was there, whoever published first          *)
(* (stories, _add); an adopted one may have no beginning in the log.       *)
BusyWithinAlive ==
  faults = 0 =>
    \A r \in Runners :
      LET story == Story(DOMAIN events, r) IN
      \/ \E t \in Tasks : hand[t].runner = r /\ hand[t].pending # <<>>
      \/ r \in adopted /\ story.registered = Never
      \/ Busy(story) \in 0..Alive(story)

(* No report has a runner both gone and alive, whatever happens while it   *)
(* reads, unless it was put back by a copy older than its closing or by an *)
(* adoption.                                                               *)
NobodyIsGoneAndAlive == report.stage = "done" => report.ended \subseteq reopened

(* The numbers of a report fit each other.                                 *)
ReportAddsUp == BusyWithinAlive /\ NobodyIsGoneAndAlive
=============================================================================
