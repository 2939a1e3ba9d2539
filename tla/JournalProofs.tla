---------------------------- MODULE JournalProofs ----------------------------
(***************************************************************************)
(* What the store keeps for those who share it, for any number of runners  *)
(* and tasks, however their saves overtake each other.                     *)
(***************************************************************************)
EXTENDS Journal, SequenceTheorems, WellFoundedInduction, TLAPS

Event == [kind : Kinds, runner : Runners, at : Times]

Hand == [stage : {"idle", "adopts", "read", "moved", "saved"}, runner : Runners \cup {Nobody},
         base : Row, copy : Row, pending : Seq(Event)]

TypeOK ==
  /\ row \in [Runners -> Row]
  /\ log \subseteq Runners
  /\ events \in Seq(Event)
  /\ now \in Times
  /\ hand \in [Tasks -> Hand]
  /\ \A t \in Tasks : hand[t].stage # "idle" => hand[t].runner \in Runners
  /\ faults \in Nat
  /\ adopted \subseteq Runners

(* Whoever read a closed row works on a closed copy.                       *)
ClosedStaysClosed ==
  \A t \in Tasks :
    hand[t].stage \in {"read", "moved"} /\ hand[t].base.state \in Terminal
      => hand[t].copy.state \in Terminal

(* A row that is made of a container is live or failed, and its runner is  *)
(* among the adopted ones from then on.                                    *)
AdoptionsAreNoted ==
  \A t \in Tasks :
    hand[t].stage = "adopts" =>
      hand[t].copy.state \in {"live", "failed"} /\ hand[t].runner \in adopted

(* The event that closes a row in this state.                              *)
EndOf(state) == IF state = "failed" THEN "RunnerFailed" ELSE "RunnerRetired"

Says(es, r, state) == \E i \in DOMAIN es : es[i].runner = r /\ es[i].kind = EndOf(state)

(* The end is in the log, or was saved and is about to be published.       *)
Told(r, state) ==
  \/ Says(events, r, state)
  \/ \E t \in Tasks : /\ hand[t].stage = "saved" /\ hand[t].runner = r
                      /\ Says(hand[t].pending, r, state)

(* It is told, or the row is that of a container which was found stopped.  *)
Accounted(r, state) == Told(r, state) \/ (state = "failed" /\ r \in adopted)

(* The end of whoever is closed, in the store or on a copy, is accounted   *)
(* for, or goes with that copy.                                            *)
EndsAreTold ==
  faults = 0 =>
    /\ \A r \in Closed : Accounted(r, row[r].state)
    /\ \A t \in Tasks :
         hand[t].stage \in {"read", "moved"} /\ hand[t].copy.state \in Terminal
           => \/ Accounted(hand[t].runner, hand[t].copy.state)
              \/ /\ hand[t].stage = "moved"
                 /\ Says(hand[t].pending, hand[t].runner, hand[t].copy.state)

JournalInv == TypeOK /\ ClosedStaysClosed /\ AdoptionsAreNoted /\ EndsAreTold

-----------------------------------------------------------------------------
(* What a task does to its hand, in general.                               *)

(* A writer who holds nothing is a writer.                                 *)
LEMMA NothingIsTyped ==
  NoRow \in Row /\ Idle \in Hand /\ Idle.stage = "idle"
<1>1. NoRow \in Row
  BY JournalAssumption DEF NoRow, Row, States, Terminal, Times
<1> QED BY <1>1 DEF Idle, Hand

(* A row in any state, closed or not at a moment up to now, is a row.      *)
LEMMA RowsAreTyped ==
  ASSUME TypeOK, NEW state \in States, NEW moment \in 0..now
  PROVE  /\ [state |-> state, at |-> ClosedAt(state, moment)] \in Row
         /\ now \in 0..now
<1>1. now \in Nat /\ now <= MaxTime /\ MaxTime \in Nat
  BY JournalAssumption DEF TypeOK, Times
<1>2. moment \in Times /\ 0 \in Times
  BY <1>1 DEF Times
<1>3. ClosedAt(state, moment) \in Times
  BY <1>2 DEF ClosedAt
<1> QED BY <1>1, <1>3 DEF Row

(* A move: the copy is in its new state, and one event says so.            *)
LEMMA MovesAreTyped ==
  ASSUME TypeOK, NEW t \in Tasks, hand[t].stage = "read", NEW state \in States,
         NEW kind \in Kinds, Moves(t, state, <<kind>>)
  PROVE  \E h \in Hand :
           /\ hand' = [hand EXCEPT ![t] = h]
           /\ h.stage = "moved" /\ h.runner = hand[t].runner /\ h.base = hand[t].base
           /\ h.copy.state = state
           /\ 1 \in DOMAIN h.pending /\ h.pending[1].runner = h.runner /\ h.pending[1].kind = kind
<1> DEFINE e == [kind |-> kind, runner |-> hand[t].runner, at |-> now]
           c == [state |-> state, at |-> ClosedAt(state, now)]
           h == [hand[t] EXCEPT !.stage = "moved", !.copy = c, !.pending = <<e>>]
<1>0. hand[t] \in Hand /\ hand[t].runner \in Runners /\ now \in Times
  BY DEF TypeOK
<1>1. [i \in DOMAIN <<kind>> |->
         [kind |-> <<kind>>[i], runner |-> hand[t].runner, at |-> now]] = <<e>>
  OBVIOUS
<1>2. hand' = [hand EXCEPT ![t] = h]
  BY <1>1 DEF Moves, Holds
<1>3. e \in Event
  BY <1>0 DEF Event
<1>4. c \in Row /\ c.state = state
  <2>1. now \in 0..now
    BY <1>0, JournalAssumption DEF Times
  <2> QED BY <2>1, RowsAreTyped
<1>5. <<e>> \in Seq(Event) /\ 1 \in DOMAIN <<e>> /\ <<e>>[1] = e
  BY <1>3
<1> HIDE DEF e, c
<1>6. h \in Hand /\ h.stage = "moved" /\ h.runner = hand[t].runner
      /\ h.base = hand[t].base /\ h.copy = c /\ h.pending = <<e>>
  BY <1>0, <1>4, <1>5 DEF Hand
<1>7. e.runner = hand[t].runner /\ e.kind = kind
  BY DEF e
<1> HIDE DEF h
<1> QED BY <1>2, <1>4, <1>5, <1>6, <1>7

(* What a task can make of its hand before it saves.                       *)
Prepares(t, h) ==
  \/ h.stage = "idle"
  \/ /\ h.stage = "read" /\ h.runner \in Runners
     /\ h.base = row[h.runner] /\ h.copy = row[h.runner]
  \/ h.stage = "moved" /\ h.runner \in Runners /\ h.base = NoRow /\ h.copy.state = "live"
  \/ /\ hand[t].stage = "read" /\ h.stage = "moved"
     /\ h.runner = hand[t].runner /\ h.base = hand[t].base
     /\ \/ h.copy.state = hand[t].copy.state
        \/ hand[t].copy.state = "live" /\ h.copy.state = "busy"
        \/ h.copy.state \in Terminal /\ Says(h.pending, h.runner, h.copy.state)

(* What a writer prepares to write is its object, moved as the aggregate   *)
(* allows.                                                                 *)
LEMMA HandsPrepare ==
  ASSUME TypeOK, NEW t \in Tasks, Works(t), ~Archive(t), ~Save(t), ~Publish(t)
  PROVE  /\ UNCHANGED <<row, log, events, now, report, faults, reopened, adopted>>
         /\ hand[t].stage \in {"idle", "read"}
         /\ \E h \in Hand : hand' = [hand EXCEPT ![t] = h] /\ Prepares(t, h)
<1> DEFINE Goal == /\ UNCHANGED <<row, log, events, now, report, faults, reopened, adopted>>
                   /\ hand[t].stage \in {"idle", "read"}
                   /\ \E h \in Hand : hand' = [hand EXCEPT ![t] = h] /\ Prepares(t, h)
<1>0. hand[t] \in Hand /\ now \in Times /\ (hand[t].stage = "read" => hand[t].runner \in Runners)
  BY DEF TypeOK
<1>1. ASSUME NEW r \in Runners, Load(t, r) PROVE Goal
  <2> DEFINE h == [Idle EXCEPT !.stage = "read", !.runner = r, !.base = row[r], !.copy = row[r]]
  <2>1. row[r] \in Row
    BY DEF TypeOK
  <2>2. /\ h \in Hand /\ h.stage = "read" /\ h.runner = r
        /\ h.base = row[r] /\ h.copy = row[r]
    BY <2>1, NothingIsTyped DEF Hand, Idle
  <2>3. hand' = [hand EXCEPT ![t] = h]
    BY <1>1 DEF Load, Holds
  <2> HIDE DEF h
  <2> QED BY <1>1, <2>2, <2>3 DEF Load, Prepares
<1>2. ASSUME NEW r \in Runners, Register(t, r) PROVE Goal
  <2> DEFINE e == [kind |-> "RunnerRegistered", runner |-> r, at |-> now]
             c == [state |-> "live", at |-> 0]
             h == [Idle EXCEPT !.stage = "moved", !.runner = r, !.copy = c, !.pending = <<e>>]
  <2>1. e \in Event /\ c \in Row /\ c.state = "live"
    BY <1>0, JournalAssumption DEF Event, Kinds, Row, States, Times
  <2>2. <<e>> \in Seq(Event)
    BY <2>1
  <2>3. hand' = [hand EXCEPT ![t] = h]
    BY <1>2 DEF Register, Holds
  <2> HIDE DEF e, c
  <2>4. h \in Hand /\ h.stage = "moved" /\ h.runner = r /\ h.base = NoRow /\ h.copy = c
    BY <2>1, <2>2, NothingIsTyped DEF Hand, Idle
  <2> HIDE DEF h
  <2> QED BY <1>2, <2>1, <2>3, <2>4 DEF Register, Prepares
<1>3. ASSUME NEW state \in {"busy", "retired", "failed"}, NEW kind \in Kinds,
             hand[t].stage = "read", Moves(t, state, <<kind>>),
             \/ state = "busy" /\ hand[t].copy.state = "live"
             \/ state \in Terminal /\ kind = EndOf(state)
      PROVE  Goal
  <2>1. state \in States
    BY DEF States, Terminal
  <2>2. PICK h \in Hand :
           /\ hand' = [hand EXCEPT ![t] = h]
           /\ h.stage = "moved" /\ h.runner = hand[t].runner /\ h.base = hand[t].base
           /\ h.copy.state = state
           /\ 1 \in DOMAIN h.pending /\ h.pending[1].runner = h.runner /\ h.pending[1].kind = kind
    BY <1>3, <2>1, MovesAreTyped
  <2>3. Prepares(t, h)
    BY <1>3, <2>2 DEF Prepares, Says
  <2> QED BY <1>3, <2>2, <2>3 DEF Moves
<1>4. CASE AssignJob(t)
  BY <1>3, <1>4 DEF AssignJob, Kinds
<1>5. CASE Fail(t)
  BY <1>3, <1>5 DEF Fail, Kinds, Terminal, EndOf
<1>6. CASE Retire(t)
  BY <1>3, <1>6 DEF Retire, Kinds, Terminal, EndOf
<1>7. CASE SaveAsIs(t)
  <2> DEFINE h == [hand[t] EXCEPT !.stage = "moved"]
  <2>1. /\ h \in Hand /\ h.stage = "moved" /\ h.runner = hand[t].runner
        /\ h.base = hand[t].base /\ h.copy = hand[t].copy
    BY <1>0 DEF Hand
  <2>2. hand' = [hand EXCEPT ![t] = h]
    BY <1>7 DEF SaveAsIs, Holds
  <2> HIDE DEF h
  <2> QED BY <1>7, <2>1, <2>2 DEF SaveAsIs, Prepares
<1>8. CASE LetGo(t)
  BY <1>8, NothingIsTyped DEF LetGo, Holds, Prepares
<1> QED BY <1>1, <1>2, <1>4, <1>5, <1>6, <1>7, <1>8 DEF Works

(* Whoever adopts has a row that is live or failed, and tells nothing.     *)
LEMMA HandsAdopt ==
  ASSUME TypeOK, NEW t \in Tasks, NEW r \in Runners, Adopt(t, r)
  PROVE  /\ UNCHANGED <<row, log, events, now, report, faults, reopened>>
         /\ hand[t].stage = "idle" /\ adopted' = adopted \cup {r}
         /\ \E h \in Hand : /\ hand' = [hand EXCEPT ![t] = h]
                           /\ h.stage = "adopts" /\ h.runner = r /\ h.base = row[r]
                           /\ h.copy.state \in {"live", "failed"} /\ h.pending = <<>>
<1>1. PICK state \in {"live", "failed"}, at \in 0..now :
        Holds(t, [Idle EXCEPT !.stage = "adopts", !.runner = r, !.base = row[r],
                    !.copy = [state |-> state, at |-> ClosedAt(state, at)]])
  BY DEF Adopt
<1> DEFINE c == [state |-> state, at |-> ClosedAt(state, at)]
           h == [Idle EXCEPT !.stage = "adopts", !.runner = r, !.base = row[r], !.copy = c]
<1>2. hand' = [hand EXCEPT ![t] = h]
  BY <1>1 DEF Holds
<1>3. c \in Row /\ c.state = state /\ row[r] \in Row
  BY RowsAreTyped DEF TypeOK, States, Terminal
<1> HIDE DEF c
<1>4. /\ h \in Hand /\ h.stage = "adopts" /\ h.runner = r /\ h.base = row[r]
      /\ h.copy = c /\ h.pending = <<>>
  BY <1>3, NothingIsTyped DEF Hand, Idle
<1> HIDE DEF h
<1> QED BY <1>2, <1>3, <1>4 DEF Adopt

(* What was made of a container is saved, and is what he works on.         *)
LEMMA AdoptionsAreSaved ==
  ASSUME TypeOK, NEW t \in Tasks, SaveAdopted(t)
  PROVE  /\ UNCHANGED <<log, events, now, report, faults, adopted>>
         /\ hand[t] \in Hand /\ hand[t].stage = "adopts" /\ hand[t].runner \in Runners
         /\ row' = [row EXCEPT ![hand[t].runner] = hand[t].copy]
         /\ \E h \in Hand : /\ hand' = [hand EXCEPT ![t] = h]
                           /\ h.stage = "read" /\ h.runner = hand[t].runner
                           /\ h.base = hand[t].copy /\ h.copy = hand[t].copy
                           /\ h.pending = hand[t].pending
<1> DEFINE h == [hand[t] EXCEPT !.stage = "read", !.base = hand[t].copy]
<1>1. hand[t] \in Hand /\ hand' = [hand EXCEPT ![t] = h]
  BY DEF SaveAdopted, Holds, TypeOK
<1>2. /\ h \in Hand /\ h.stage = "read" /\ h.runner = hand[t].runner
      /\ h.base = hand[t].copy /\ h.copy = hand[t].copy /\ h.pending = hand[t].pending
  BY <1>1 DEF Hand
<1> HIDE DEF h
<1> QED BY <1>1, <1>2 DEF SaveAdopted, TypeOK

-----------------------------------------------------------------------------
(* The invariant.                                                          *)

(* Every step keeps the types.                                             *)
LEMMA TypesAreKept ==
  ASSUME TypeOK, Next
  PROVE  TypeOK'
<1>1. ASSUME NEW t \in Tasks, NEW h \in Hand, hand' = [hand EXCEPT ![t] = h],
             h.stage # "idle" => h.runner \in Runners
      PROVE  /\ hand' \in [Tasks -> Hand]
             /\ \A u \in Tasks : hand'[u].stage # "idle" => hand'[u].runner \in Runners
  BY <1>1 DEF TypeOK
<1>2. ASSUME NEW t \in Tasks, Works(t), ~Archive(t), ~Save(t), ~Publish(t) PROVE TypeOK'
  <2>1. PICK h \in Hand : hand' = [hand EXCEPT ![t] = h] /\ Prepares(t, h)
    BY <1>2, HandsPrepare
  <2>2. h.stage # "idle" => h.runner \in Runners
    BY <2>1 DEF Prepares, TypeOK
  <2>3. UNCHANGED <<row, log, events, now, faults, adopted>>
    BY <1>2, HandsPrepare
  <2> QED BY <1>1, <2>1, <2>2, <2>3 DEF TypeOK
<1>3. ASSUME NEW t \in Tasks, Archive(t) PROVE TypeOK'
  BY <1>3 DEF Archive, TypeOK
<1>4. ASSUME NEW t \in Tasks, Save(t) PROVE TypeOK'
  <2> DEFINE h == [hand[t] EXCEPT !.stage = "saved", !.base = NoRow, !.copy = NoRow]
  <2>1. hand[t] \in Hand /\ hand[t].runner \in Runners
    BY <1>4 DEF Save, Saves, TypeOK
  <2>2. h \in Hand /\ h.runner \in Runners
    <3> HIDE DEF h
    <3> QED BY <2>1, NothingIsTyped DEF Hand, h
  <2>3. hand' = [hand EXCEPT ![t] = h]
    BY <1>4 DEF Save, Saves, Holds
  <2>4. row' \in [Runners -> Row]
    BY <1>4, <2>1 DEF Save, Saves, TypeOK, Hand
  <2> HIDE DEF h
  <2>5. /\ hand' \in [Tasks -> Hand]
        /\ \A u \in Tasks : hand'[u].stage # "idle" => hand'[u].runner \in Runners
    BY <1>1, <2>2, <2>3
  <2> QED BY <1>4, <2>4, <2>5 DEF Save, Saves, TypeOK
<1>5. ASSUME NEW t \in Tasks, Publish(t) PROVE TypeOK'
  <2>1. hand[t].pending \in Seq(Event)
    BY DEF TypeOK, Hand
  <2>2. events' \in Seq(Event)
    BY <1>5, <2>1 DEF Publish, TypeOK
  <2> QED BY <1>1, <1>5, <2>2, NothingIsTyped DEF Publish, Holds, TypeOK
<1>6. CASE Prune
  <2>1. PICK gone \in SUBSET Closed :
          /\ row' = [r \in Runners |-> IF r \in gone THEN NoRow ELSE row[r]]
          /\ log' = log \ gone
    BY <1>6 DEF Prune
  <2>2. row' \in [Runners -> Row]
    BY <2>1, NothingIsTyped DEF TypeOK
  <2> QED BY <1>6, <2>1, <2>2 DEF Prune, TypeOK
<1>7. CASE Tick
  BY <1>7, JournalAssumption DEF Tick, TypeOK, Times
<1>8. CASE Crash
  <2>1. /\ hand' \in [Tasks -> Hand]
        /\ \A u \in Tasks : hand'[u].stage # "idle" => hand'[u].runner \in Runners
    BY <1>8, NothingIsTyped DEF Crash
  <2> QED BY <1>8, <2>1 DEF Crash, TypeOK
<1>9. CASE GatherStats \/ Answer
  BY <1>9 DEF GatherStats, Answer, TypeOK
<1>10. ASSUME NEW t \in Tasks, NEW r \in Runners, Adopt(t, r) PROVE TypeOK'
  <2>1. PICK h \in Hand : hand' = [hand EXCEPT ![t] = h] /\ h.runner = r
    BY <1>10, HandsAdopt
  <2>2. UNCHANGED <<row, log, events, now, faults>> /\ adopted' = adopted \cup {r}
    BY <1>10, HandsAdopt
  <2> QED BY <1>1, <2>1, <2>2 DEF TypeOK
<1>11. ASSUME NEW t \in Tasks, SaveAdopted(t) PROVE TypeOK'
  <2>1. PICK h \in Hand : hand' = [hand EXCEPT ![t] = h] /\ h.runner = hand[t].runner
    BY <1>11, AdoptionsAreSaved
  <2>2. /\ UNCHANGED <<log, events, now, faults, adopted>>
        /\ hand[t] \in Hand /\ hand[t].runner \in Runners
        /\ row' = [row EXCEPT ![hand[t].runner] = hand[t].copy]
    BY <1>11, AdoptionsAreSaved
  <2>3. row' \in [Runners -> Row]
    BY <2>2 DEF TypeOK, Hand
  <2> QED BY <1>1, <2>1, <2>2, <2>3 DEF TypeOK
<1> QED BY <1>2, <1>3, <1>4, <1>5, <1>6, <1>7, <1>8, <1>9, <1>10, <1>11 DEF Next, Adopts

(* A task that saves, or publishes, lets go of its copy.                   *)
LEMMA HandsLetGo ==
  ASSUME TypeOK, NEW t \in Tasks, NEW u \in Tasks, Save(u) \/ Publish(u)
  PROVE  hand'[t] = hand[t] \/ hand'[t].stage \in {"saved", "idle"}
<1>1. CASE Publish(u)
  <2>1. hand' = [hand EXCEPT ![u] = Idle]
    BY <1>1 DEF Publish, Holds
  <2> QED BY <2>1, NothingIsTyped DEF TypeOK
<1>2. CASE Save(u)
  <2> DEFINE h == [hand[u] EXCEPT !.stage = "saved", !.base = NoRow, !.copy = NoRow]
  <2>1. hand[u] \in Hand /\ hand' = [hand EXCEPT ![u] = h]
    BY <1>2 DEF Save, Saves, Holds, TypeOK
  <2>2. h.stage = "saved"
    BY <2>1 DEF Hand
  <2> HIDE DEF h
  <2> QED BY <2>1, <2>2 DEF TypeOK
<1> QED BY <1>1, <1>2

(* A hand that is not this task's, or that nobody else gave it.            *)
LEMMA OneHandMoves ==
  ASSUME TypeOK, NEW t \in Tasks, NEW u \in Tasks, NEW h, hand' = [hand EXCEPT ![u] = h]
  PROVE  hand'[t] = IF t = u THEN h ELSE hand[t]
BY DEF TypeOK

(* Who was adopted stays so.                                               *)
LEMMA AdoptedGrows ==
  ASSUME Next
  PROVE  adopted \subseteq adopted'
BY DEF Next, Works, Adopts, AssignJob, Fail, Archive, Retire, SaveAsIs, LetGo, Adopt,
       SaveAdopted, Save, Saves, Publish, Register, Load, Moves, Prune, Tick, Crash,
       GatherStats, Answer

(* Whoever adopts is noted.                                                *)
LEMMA AdoptionsStayNoted ==
  ASSUME TypeOK, AdoptionsAreNoted, Next
  PROVE  AdoptionsAreNoted'
<1> SUFFICES ASSUME NEW t \in Tasks, hand'[t].stage = "adopts"
             PROVE  /\ hand'[t].copy.state \in {"live", "failed"}
                    /\ hand'[t].runner \in adopted'
  BY DEF AdoptionsAreNoted
<1>1. adopted \subseteq adopted'
  BY AdoptedGrows
<1>2. CASE hand'[t] = hand[t]
  BY <1>1, <1>2 DEF AdoptionsAreNoted
<1>3. ASSUME NEW u \in Tasks, Works(u), ~Archive(u), ~Save(u), ~Publish(u)
      PROVE  hand'[t] = hand[t]
  <2>1. PICK h \in Hand : hand' = [hand EXCEPT ![u] = h] /\ Prepares(u, h)
    BY <1>3, HandsPrepare
  <2> QED BY <2>1, OneHandMoves DEF Prepares
<1>4. ASSUME NEW u \in Tasks, Save(u) \/ Publish(u) PROVE hand'[t] = hand[t]
  BY <1>4, HandsLetGo
<1>5. ASSUME NEW u \in Tasks, NEW r \in Runners, Adopt(u, r), hand'[t] # hand[t]
      PROVE  hand'[t].copy.state \in {"live", "failed"} /\ hand'[t].runner \in adopted'
  BY <1>5, HandsAdopt, OneHandMoves
<1>6. ASSUME NEW u \in Tasks, SaveAdopted(u) PROVE hand'[t] = hand[t]
  BY <1>6, AdoptionsAreSaved, OneHandMoves
<1>7. ~Crash
  BY NothingIsTyped DEF Crash
<1> QED BY <1>2, <1>3, <1>4, <1>5, <1>6, <1>7
    DEF Next, Works, Adopts, Archive, Prune, Tick, GatherStats, Answer

(* What is closed stays closed.                                            *)
LEMMA ClosedIsKept ==
  ASSUME TypeOK, ClosedStaysClosed, Next
  PROVE  ClosedStaysClosed'
<1> SUFFICES ASSUME NEW t \in Tasks, hand'[t].stage \in {"read", "moved"},
                    hand'[t].base.state \in Terminal
             PROVE  hand'[t].copy.state \in Terminal
  BY DEF ClosedStaysClosed
<1>1. CASE hand'[t] = hand[t]
  BY <1>1 DEF ClosedStaysClosed
<1>2. ASSUME NEW u \in Tasks, Works(u), ~Archive(u), ~Save(u), ~Publish(u)
      PROVE  hand'[t].copy.state \in Terminal
  <2>1. PICK h \in Hand : hand' = [hand EXCEPT ![u] = h] /\ Prepares(u, h)
    BY <1>2, HandsPrepare
  <2>2. CASE u # t
    BY <1>1, <2>1, <2>2 DEF TypeOK
  <2>3. CASE u = t
    <3>1. hand'[t] = h
      BY <2>1, <2>3 DEF TypeOK
    <3> QED BY <2>1, <2>3, <3>1 DEF Prepares, ClosedStaysClosed, Terminal, NoRow
  <2> QED BY <2>2, <2>3
<1>3. ASSUME NEW u \in Tasks, Save(u) \/ Publish(u)
      PROVE  hand'[t] = hand[t]
  BY <1>3, HandsLetGo
<1>4. CASE Crash
  BY <1>4, NothingIsTyped DEF Crash
<1>5. ASSUME NEW u \in Tasks, NEW r \in Runners, Adopt(u, r) PROVE hand'[t] = hand[t]
  BY <1>5, HandsAdopt, OneHandMoves
<1>6. ASSUME NEW u \in Tasks, SaveAdopted(u), hand'[t] # hand[t]
      PROVE  hand'[t].copy.state \in Terminal
  BY <1>6, AdoptionsAreSaved, OneHandMoves
<1> QED BY <1>1, <1>2, <1>3, <1>4, <1>5, <1>6
    DEF Next, Works, Adopts, Archive, Prune, Tick, GatherStats, Answer

(* What is told stays told, unless somebody is killed.                     *)
LEMMA ToldStaysTold ==
  ASSUME TypeOK, Next, ~Crash, NEW r \in Runners, NEW state, Told(r, state)
  PROVE  Told(r, state)'
<1>1. ASSUME events' = events, NEW u \in Tasks, NEW h, hand' = [hand EXCEPT ![u] = h],
             hand[u].stage # "saved"
      PROVE  Told(r, state)'
  BY <1>1 DEF Told, Says, TypeOK
<1>2. ASSUME NEW u \in Tasks, Works(u), ~Archive(u), ~Save(u), ~Publish(u)
      PROVE  Told(r, state)'
  <2>1. events' = events /\ hand[u].stage # "saved"
        /\ \E h \in Hand : hand' = [hand EXCEPT ![u] = h]
    BY <1>2, HandsPrepare
  <2> QED BY <1>1, <2>1
<1>3. ASSUME NEW u \in Tasks, Save(u) PROVE Told(r, state)'
  BY <1>1, <1>3 DEF Save, Saves, Holds
<1>4. ASSUME NEW u \in Tasks, Publish(u) PROVE Told(r, state)'
  <2>1. events \in Seq(Event) /\ hand[u].pending \in Seq(Event)
    BY DEF TypeOK, Hand
  <2>2. events' = events \o hand[u].pending
    BY <1>4 DEF Publish
  <2>3. CASE Says(events, r, state)
    <3>1. Says(events, r, state)'
      BY <2>1, <2>2, <2>3 DEF Says
    <3> QED BY <3>1 DEF Told, Says
  <2>4. ASSUME NEW t \in Tasks, hand[t].stage = "saved", hand[t].runner = r,
               Says(hand[t].pending, r, state)
        PROVE  Told(r, state)'
    <3>1. CASE t = u
      <4>1. PICK i \in DOMAIN hand[u].pending :
              hand[u].pending[i].runner = r /\ hand[u].pending[i].kind = EndOf(state)
        BY <2>4, <3>1 DEF Says
      <4>2. /\ Len(events) + i \in DOMAIN events'
            /\ events'[Len(events) + i] = hand[u].pending[i]
        BY <2>1, <2>2, <4>1
      <4> QED BY <4>1, <4>2 DEF Told, Says
    <3>2. CASE t # u
      <4>1. hand'[t] = hand[t]
        BY <1>4, <3>2 DEF Publish, Holds, TypeOK
      <4> QED BY <2>4, <4>1 DEF Told, Says
    <3> QED BY <3>1, <3>2
  <2> QED BY <2>3, <2>4 DEF Told
<1>5. CASE events' = events /\ hand' = hand
  BY <1>5 DEF Told, Says
<1>6. ASSUME NEW u \in Tasks, Adopts(u) PROVE Told(r, state)'
  <2>1. events' = events /\ hand[u].stage # "saved"
        /\ \E h \in Hand : hand' = [hand EXCEPT ![u] = h]
    BY <1>6, HandsAdopt, AdoptionsAreSaved DEF Adopts
  <2> QED BY <1>1, <2>1
<1> QED BY <1>2, <1>3, <1>4, <1>5, <1>6
    DEF Next, Works, Archive, Prune, Tick, GatherStats, Answer

(* So does what is accounted for.                                          *)
LEMMA AccountedStays ==
  ASSUME TypeOK, Next, ~Crash, NEW r \in Runners, NEW state, Accounted(r, state)
  PROVE  Accounted(r, state)'
<1>1. adopted \subseteq adopted'
  BY AdoptedGrows
<1>2. CASE Told(r, state)
  <2>1. Told(r, state)'
    BY <1>2, ToldStaysTold
  <2> QED BY <2>1 DEF Accounted
<1>3. CASE state = "failed" /\ r \in adopted
  BY <1>1, <1>3 DEF Accounted
<1> QED BY <1>2, <1>3 DEF Accounted

(* Every end stays told.                                                   *)
LEMMA EndsStayTold ==
  ASSUME TypeOK, AdoptionsAreNoted, EndsAreTold, Next
  PROVE  EndsAreTold'
<1> SUFFICES ASSUME faults' = 0
             PROVE  EndsAreTold'
  BY DEF EndsAreTold
<1>0. ~Crash /\ faults = 0
  <2>1. CASE Crash
    BY <2>1 DEF Crash, TypeOK
  <2>2. CASE ~Crash
    <3>1. faults' = faults
      BY <2>2 DEF Next, Works, Adopts, AssignJob, Fail, Archive, Retire, SaveAsIs, LetGo, Adopt,
         SaveAdopted, Save, Saves, Publish, Register, Load, Moves, Prune, Tick, GatherStats, Answer
    <3> QED BY <2>2, <3>1
  <2> QED BY <2>1, <2>2
<1>1. ASSUME NEW r \in Runners, NEW state \in Terminal, row'[r].state = state
      PROVE  Accounted(r, state)'
  <2>1. CASE row'[r] = row[r]
    <3>1. Accounted(r, state)
      BY <1>0, <1>1, <2>1 DEF EndsAreTold, Closed
    <3> QED BY <1>0, <3>1, AccountedStays
  <2>2. CASE Prune
    BY <1>1, <2>1, <2>2 DEF Prune, NoRow, Terminal, TypeOK
  <2>3. ASSUME NEW t \in Tasks, Save(t), row'[r] # row[r] PROVE Accounted(r, state)'
    <3> DEFINE h == [hand[t] EXCEPT !.stage = "saved", !.base = NoRow, !.copy = NoRow]
    <3>1. hand[t].runner = r /\ hand[t].copy.state = state /\ hand[t].stage = "moved"
      BY <1>1, <2>3 DEF Save, Saves, TypeOK
    <3>2. hand'[t] = h /\ hand[t] \in Hand
      BY <2>3 DEF Save, Saves, Holds, TypeOK
    <3>3. h.stage = "saved" /\ h.pending = hand[t].pending /\ h.runner = hand[t].runner
      BY <3>2 DEF Hand
    <3>4. Accounted(r, state) \/ Says(hand[t].pending, r, state)
      BY <1>0, <3>1 DEF EndsAreTold
    <3>5. CASE Accounted(r, state)
      BY <1>0, <3>5, AccountedStays
    <3>6. CASE Says(hand[t].pending, r, state)
      <4> HIDE DEF h
      <4>1. /\ hand'[t].stage = "saved" /\ hand'[t].runner = r
            /\ Says(hand'[t].pending, r, state)
        BY <3>1, <3>2, <3>3, <3>6
      <4> QED BY <4>1 DEF Accounted, Told, Says
    <3> QED BY <3>4, <3>5, <3>6
  <2>4. CASE row' = row
    BY <2>1, <2>4
  <2>5. ASSUME NEW t \in Tasks, SaveAdopted(t), row'[r] # row[r] PROVE Accounted(r, state)'
    <3>1. hand[t].runner = r /\ hand[t].copy.state = state /\ adopted' = adopted
          /\ hand[t].stage = "adopts"
      BY <1>1, <2>5, AdoptionsAreSaved DEF TypeOK
    <3>2. state = "failed" /\ r \in adopted'
      BY <3>1 DEF AdoptionsAreNoted, Terminal
    <3> QED BY <3>2 DEF Accounted
  <2> QED BY <1>0, <2>1, <2>2, <2>3, <2>4, <2>5
      DEF Next, Works, Adopts, AssignJob, Fail, Archive, Retire, SaveAsIs, LetGo, Adopt,
          Publish, Register, Load, Moves, Tick, GatherStats, Answer
<1>2. ASSUME NEW t \in Tasks, NEW r \in Runners, NEW state \in Terminal,
             hand'[t].stage \in {"read", "moved"}, hand'[t].runner = r,
             hand'[t].copy.state = state
      PROVE  \/ Accounted(r, state)'
             \/ hand'[t].stage = "moved" /\ Says(hand'[t].pending, r, state)
  <2>1. CASE hand'[t] = hand[t]
    <3>1. Accounted(r, state) \/ (hand[t].stage = "moved" /\ Says(hand[t].pending, r, state))
      BY <1>0, <1>2, <2>1 DEF EndsAreTold
    <3> QED BY <1>0, <2>1, <3>1, AccountedStays
  <2>2. ASSUME NEW u \in Tasks, Works(u), ~Archive(u), ~Save(u), ~Publish(u),
               hand'[t] # hand[t]
        PROVE  \/ Accounted(r, state)'
               \/ hand'[t].stage = "moved" /\ Says(hand'[t].pending, r, state)
    <3>1. PICK h \in Hand : hand' = [hand EXCEPT ![u] = h] /\ Prepares(u, h)
      BY <2>2, HandsPrepare
    <3>2. u = t /\ hand'[t] = h
      BY <2>2, <3>1 DEF TypeOK
    <3>3. CASE h.stage = "read" /\ h.copy = row[h.runner]
      <4>1. Accounted(r, state)
        BY <1>0, <1>2, <3>2, <3>3 DEF EndsAreTold, Closed
      <4> QED BY <1>0, <4>1, AccountedStays
    <3>4. CASE /\ hand[t].stage = "read" /\ h.runner = hand[t].runner
               /\ h.copy.state = hand[t].copy.state
      <4>1. Accounted(r, state)
        BY <1>0, <1>2, <3>2, <3>4 DEF EndsAreTold
      <4> QED BY <1>0, <4>1, AccountedStays
    <3>5. CASE h.stage = "moved" /\ Says(h.pending, h.runner, h.copy.state)
      BY <1>2, <3>2, <3>5
    <3>6. h.stage # "idle" /\ h.copy.state \notin {"live", "busy"}
      BY <1>2, <3>2 DEF Terminal
    <3> QED BY <3>1, <3>2, <3>3, <3>4, <3>5, <3>6 DEF Prepares
  <2>3. ASSUME NEW u \in Tasks, Save(u) \/ Publish(u)
        PROVE  hand'[t] = hand[t]
    BY <1>2, <2>3, HandsLetGo
  <2>4. ASSUME NEW u \in Tasks, NEW s \in Runners, Adopt(u, s)
        PROVE  hand'[t] = hand[t]
    <3>1. PICK h \in Hand : hand' = [hand EXCEPT ![u] = h] /\ h.stage = "adopts"
      BY <2>4, HandsAdopt
    <3> QED BY <1>2, <3>1, OneHandMoves
  <2>5. ASSUME NEW u \in Tasks, SaveAdopted(u), hand'[t] # hand[t]
        PROVE  Accounted(r, state)'
    <3>1. u = t /\ hand'[t].runner = hand[t].runner /\ hand'[t].copy = hand[t].copy
          /\ hand[t].stage = "adopts" /\ adopted' = adopted
      BY <2>5, AdoptionsAreSaved, OneHandMoves
    <3>2. state = "failed" /\ r \in adopted'
      BY <1>2, <3>1 DEF AdoptionsAreNoted, Terminal
    <3> QED BY <3>2 DEF Accounted
  <2> QED BY <1>0, <2>1, <2>2, <2>3, <2>4, <2>5
      DEF Next, Works, Adopts, Archive, Prune, Tick, GatherStats, Answer
<1>3. \A r \in Closed' : Accounted(r, row[r].state)'
  BY <1>1 DEF Closed
<1>4. \A t \in Tasks :
        hand'[t].stage \in {"read", "moved"} /\ hand'[t].copy.state \in Terminal
          => \/ Accounted(hand[t].runner, hand[t].copy.state)'
             \/ hand'[t].stage = "moved"
                /\ Says(hand'[t].pending, hand'[t].runner, hand'[t].copy.state)
  <2> SUFFICES ASSUME NEW t \in Tasks, hand'[t].stage \in {"read", "moved"},
                      hand'[t].copy.state \in Terminal
               PROVE  \/ Accounted(hand[t].runner, hand[t].copy.state)'
                      \/ hand'[t].stage = "moved"
                         /\ Says(hand'[t].pending, hand'[t].runner, hand'[t].copy.state)
    OBVIOUS
  <2>1. hand'[t].runner \in Runners
    BY TypesAreKept DEF TypeOK
  <2> QED BY <1>2, <2>1
<1> QED BY <1>3, <1>4 DEF EndsAreTold, Says

-----------------------------------------------------------------------------
(* What follows.                                                           *)

(* The store is empty at first.                                            *)
LEMMA JournalInvStarts == Init => JournalInv
<1> SUFFICES ASSUME Init PROVE JournalInv
  OBVIOUS
<1>1. TypeOK
  BY NothingIsTyped, JournalAssumption DEF Init, TypeOK, Times
<1>2. ClosedStaysClosed
  BY NothingIsTyped DEF Init, ClosedStaysClosed
<1>3. AdoptionsAreNoted
  BY NothingIsTyped DEF Init, AdoptionsAreNoted
<1>4. EndsAreTold
  BY NothingIsTyped DEF Init, EndsAreTold, Closed, Terminal, NoRow
<1> QED BY <1>1, <1>2, <1>3, <1>4 DEF JournalInv

(* The parts together, over every step.                                    *)
LEMMA JournalInvIsKept == JournalInv /\ [Next]_vars => JournalInv'
<1> SUFFICES ASSUME JournalInv, [Next]_vars PROVE JournalInv'
  OBVIOUS
<1>1. CASE Next
  BY <1>1, TypesAreKept, ClosedIsKept, AdoptionsStayNoted, EndsStayTold DEF JournalInv
<1>2. CASE UNCHANGED vars
  BY <1>2 DEF vars, JournalInv, TypeOK, ClosedStaysClosed, AdoptionsAreNoted, EndsAreTold,
     Closed, Accounted, Told, Says
<1> QED BY <1>1, <1>2

(* Every reachable state of the store and of those who share it is well    *)
(* typed, for any number of runners and tasks.                             *)
THEOREM JournalIsTyped == Spec => []TypeOK
<1>1. JournalInv => TypeOK
  BY DEF JournalInv
<1> QED BY <1>1, JournalInvStarts, JournalInvIsKept, PTL DEF Spec

(* Whoever is closed and in nobody's hands has his end in the log, however *)
(* many tasks save over each other: save and publish are two steps, and    *)
(* between them the end goes with the hand that saved it.  Only the failed *)
(* row that a pass makes of a container found stopped needs no event.      *)
THEOREM StoryIsAlwaysTold == Spec => []StoryIsTold
<1>1. JournalInv => StoryIsTold
  <2> SUFFICES ASSUME JournalInv, faults = 0, NEW r \in Closed
               PROVE  \/ \E t \in Tasks : hand[t].stage = "saved" /\ hand[t].runner = r
                      \/ \E i \in DOMAIN events :
                           events[i].runner = r /\ events[i].kind = EndOf(row[r].state)
                      \/ row[r].state = "failed" /\ r \in adopted
    BY DEF StoryIsTold, EndOf
  <2>1. Accounted(r, row[r].state)
    BY DEF JournalInv, EndsAreTold
  <2> QED BY <2>1 DEF Accounted, Told, Says
<1> QED BY <1>1, JournalInvStarts, JournalInvIsKept, PTL DEF Spec

(* Of a runner's log nothing but pruning its row lets go.                  *)
THEOREM LogsAreAlwaysKept == Spec => LogsAreKept
<1>1. JournalInv /\ [Next]_vars => [\A r \in log \ log' : row'[r].state = "none"]_vars
  <2> SUFFICES ASSUME JournalInv, Next, NEW r \in log \ log'
               PROVE  row'[r].state = "none"
    OBVIOUS
  <2>1. CASE Prune
    BY <2>1 DEF Prune, NoRow, JournalInv, TypeOK
  <2> QED BY <2>1
      DEF Next, Works, Adopts, AssignJob, Fail, Archive, Retire, SaveAsIs, LetGo, Adopt,
          SaveAdopted, Save, Publish, Register, Load, Moves, Tick, Crash, GatherStats, Answer
<1> QED BY <1>1, JournalInvStarts, JournalInvIsKept, PTL DEF Spec, LogsAreKept

(* A closed row comes back only by a copy that is older than its closing,  *)
(* or by a pass that adopts its container.                                 *)
THEOREM OnlyStaleSavesEverReopen == Spec => OnlyStaleSavesReopen
<1> DEFINE A == \A r \in Closed :
                  row'[r].state \in {"live", "busy"} =>
                    \E t \in Tasks :
                      hand[t].runner = r /\ (hand[t].base # row[r] \/ hand[t].stage = "adopts")
<1>1. JournalInv /\ [Next]_vars => [A]_vars
  <2> SUFFICES ASSUME JournalInv, Next, NEW r \in Closed, row'[r].state \in {"live", "busy"}
               PROVE  \E t \in Tasks :
                        hand[t].runner = r /\ (hand[t].base # row[r] \/ hand[t].stage = "adopts")
    OBVIOUS
  <2>1. r \in Runners /\ row[r].state \in Terminal /\ row'[r].state # row[r].state
    BY DEF Closed, Terminal
  <2>2. ASSUME NEW t \in Tasks, Save(t)
        PROVE  hand[t].runner = r /\ hand[t].base # row[r]
    <3>1. hand[t].runner = r /\ hand[t].stage = "moved" /\ row'[r] = hand[t].copy
      BY <2>1, <2>2 DEF Save, Saves, JournalInv, TypeOK
    <3>2. hand[t].base.state \notin Terminal
      BY <3>1 DEF JournalInv, ClosedStaysClosed, Terminal
    <3> QED BY <2>1, <3>1, <3>2
  <2>3. CASE Prune
    BY <2>1, <2>3 DEF Prune, NoRow, JournalInv, TypeOK
  <2>4. ASSUME NEW t \in Tasks, SaveAdopted(t)
        PROVE  hand[t].runner = r /\ hand[t].stage = "adopts"
    BY <2>1, <2>4 DEF SaveAdopted, JournalInv, TypeOK
  <2> QED BY <2>1, <2>2, <2>3, <2>4
      DEF Next, Works, Adopts, AssignJob, Fail, Archive, Retire, SaveAsIs, LetGo, Adopt,
          Publish, Register, Load, Moves, Tick, Crash, GatherStats, Answer
<1> QED BY <1>1, JournalInvStarts, JournalInvIsKept, PTL DEF Spec, OnlyStaleSavesReopen

-----------------------------------------------------------------------------
(* The report.                                                             *)

Ends == {"RunnerRetired", "RunnerFailed"}

(* A hand has to tell what it did to its runner, and only once it has done *)
(* it; the end goes with a copy that is closed.                            *)
PendingIsOwn ==
  \A t \in Tasks :
    /\ hand[t].stage \in {"idle", "adopts", "read"} => hand[t].pending = <<>>
    /\ \A i \in DOMAIN hand[t].pending : hand[t].pending[i].runner = hand[t].runner
    /\ hand[t].stage = "moved" /\ hand[t].copy.state \notin Terminal
         => \A i \in DOMAIN hand[t].pending : hand[t].pending[i].kind \notin Ends

(* Whom a hand is to add is in nobody else's, nor in any table.            *)
NewcomersAreNew ==
  \A t \in Tasks :
    /\ hand[t].stage = "read" => hand[t].base # NoRow
    /\ hand[t].stage = "moved" /\ hand[t].base = NoRow =>
         /\ row[hand[t].runner].state = "none"
         /\ \A i \in DOMAIN events : events[i].runner # hand[t].runner
         /\ \A u \in Tasks \ {t} : hand[u].stage = "idle" \/ hand[u].runner # hand[t].runner

(* What is in the log, or in a hand to be put there.                       *)
IsKnown(e) ==
  \/ \E i \in DOMAIN events : events[i] = e
  \/ \E t \in Tasks : \E i \in DOMAIN hand[t].pending : hand[t].pending[i] = e

(* Events are dated in the order they happened in: nobody does anything    *)
(* before it is registered.                                                *)
DatesAreInOrder ==
  \A e \in Event :
    IsKnown(e) =>
      /\ e.at <= now
      /\ e.kind = "RunnerRegistered" =>
           \A f \in Event : IsKnown(f) /\ f.runner = e.runner => e.at <= f.at

(* Somebody has, had or is about to have a row, or something to tell.      *)
IsSeen(r) ==
  \/ row[r].state # "none"
  \/ \E t \in Tasks : hand[t].stage # "idle" /\ hand[t].runner = r
  \/ \E e \in Event : IsKnown(e) /\ e.runner = r

(* Who was adopted may have begun in a log that is lost.                   *)
BeginningsAreKnown ==
  faults = 0 =>
    \A r \in Runners \ adopted :
      IsSeen(r) => \E e \in Event : IsKnown(e) /\ e.runner = r /\ e.kind = "RunnerRegistered"

(* Whoever ended is not up again, unless he was put back.                  *)
HasEnded(r) == Told(r, "failed") \/ Told(r, "retired")

EndedStayDown == \A r \in Runners : HasEnded(r) => r \notin Active \/ r \in reopened

(* Whom a report has told of as gone has its end in the log.               *)
EndIsLogged(r) == \E i \in DOMAIN events : events[i].runner = r /\ events[i].kind \in Ends

Report == [stage : {"none", "told", "done"}, ended : SUBSET Runners, live : SUBSET Runners]

ReportIsTrue ==
  /\ report \in Report
  /\ report.stage = "told" => \A r \in report.ended : EndIsLogged(r)
  /\ report.stage = "done" => report.ended \subseteq reopened

ReportInv ==
  /\ TypeOK /\ AdoptionsAreNoted /\ PendingIsOwn /\ NewcomersAreNew
  /\ DatesAreInOrder /\ BeginningsAreKnown /\ EndedStayDown /\ ReportIsTrue

(* What a task has to tell once it has made something of its hand.         *)
Tells(t, h) ==
  \/ /\ h.pending = <<>>
     /\ \/ h.stage = "idle"
        \/ h.stage = "read" /\ row[h.runner].state # "none" /\ h.base = row[h.runner]
        \/ /\ hand[t].stage = "read" /\ h.stage = "moved"
           /\ h.runner = hand[t].runner /\ h.base = hand[t].base
  \/ /\ hand[t].stage = "read" /\ h.stage = "moved"
     /\ h.runner = hand[t].runner /\ h.base = hand[t].base
     /\ \E e \in Event :
          /\ h.pending = <<e>> /\ e.runner = h.runner /\ e.at = now
          /\ e.kind # "RunnerRegistered" /\ (e.kind \in Ends => h.copy.state \in Terminal)
  \/ /\ h.runner \in Runners /\ Register(t, h.runner)
     /\ h.stage = "moved" /\ h.base = NoRow /\ h.copy.state = "live"
     /\ h.pending = <<[kind |-> "RunnerRegistered", runner |-> h.runner, at |-> now]>>

(* Of a move, and of whatever else is done to a copy, it tells once.       *)
LEMMA HandsTell ==
  ASSUME TypeOK, PendingIsOwn, NEW t \in Tasks, Works(t), ~Archive(t), ~Save(t), ~Publish(t)
  PROVE  /\ hand[t].pending = <<>>
         /\ \E h \in Hand : hand' = [hand EXCEPT ![t] = h] /\ Tells(t, h)
<1> DEFINE Goal == /\ hand[t].pending = <<>>
                   /\ \E h \in Hand : hand' = [hand EXCEPT ![t] = h] /\ Tells(t, h)
<1>0. /\ hand[t] \in Hand /\ now \in Times /\ (hand[t].stage = "read" => hand[t].runner \in Runners)
      /\ hand[t].stage \in {"idle", "read"} => hand[t].pending = <<>>
  BY DEF TypeOK, PendingIsOwn
<1>1. ASSUME NEW r \in Runners, Load(t, r) PROVE Goal
  <2> DEFINE h == [Idle EXCEPT !.stage = "read", !.runner = r, !.base = row[r], !.copy = row[r]]
  <2>1. row[r] \in Row
    BY DEF TypeOK
  <2>2. /\ h \in Hand /\ h.stage = "read" /\ h.runner = r
        /\ h.base = row[r] /\ h.pending = <<>>
    BY <2>1, NothingIsTyped DEF Hand, Idle
  <2>3. hand' = [hand EXCEPT ![t] = h] /\ row[r].state # "none" /\ hand[t].stage = "idle"
    BY <1>1 DEF Load, Holds
  <2> HIDE DEF h
  <2> QED BY <1>0, <2>2, <2>3 DEF Tells
<1>2. ASSUME NEW r \in Runners, Register(t, r) PROVE Goal
  <2> DEFINE e == [kind |-> "RunnerRegistered", runner |-> r, at |-> now]
             c == [state |-> "live", at |-> 0]
             h == [Idle EXCEPT !.stage = "moved", !.runner = r, !.copy = c, !.pending = <<e>>]
  <2>1. e \in Event /\ c \in Row /\ c.state = "live"
    BY <1>0, JournalAssumption DEF Event, Kinds, Row, States, Times
  <2>2. <<e>> \in Seq(Event)
    BY <2>1
  <2>3. hand' = [hand EXCEPT ![t] = h] /\ hand[t].stage = "idle"
    BY <1>2 DEF Register, Holds
  <2> HIDE DEF c
  <2>4. /\ h \in Hand /\ h.stage = "moved" /\ h.runner = r /\ h.base = NoRow /\ h.copy = c
        /\ h.pending = <<e>>
    <3> HIDE DEF e
    <3> QED BY <2>1, <2>2, NothingIsTyped DEF Hand, Idle
  <2> HIDE DEF h
  <2> QED BY <1>0, <1>2, <2>1, <2>3, <2>4 DEF Tells
<1>3. ASSUME NEW state \in {"busy", "retired", "failed"}, NEW kind \in Kinds \ {"RunnerRegistered"},
             hand[t].stage = "read", Moves(t, state, <<kind>>),
             kind \in Ends => state \in Terminal
      PROVE  Goal
  <2> DEFINE e == [kind |-> kind, runner |-> hand[t].runner, at |-> now]
             c == [state |-> state, at |-> ClosedAt(state, now)]
             h == [hand[t] EXCEPT !.stage = "moved", !.copy = c, !.pending = <<e>>]
  <2>1. [i \in DOMAIN <<kind>> |->
           [kind |-> <<kind>>[i], runner |-> hand[t].runner, at |-> now]] = <<e>>
    OBVIOUS
  <2>2. hand' = [hand EXCEPT ![t] = h]
    BY <1>3, <2>1 DEF Moves, Holds
  <2>3. e \in Event /\ e.runner = hand[t].runner /\ e.at = now /\ e.kind = kind
    BY <1>0, <1>3 DEF Event
  <2>4. c \in Row /\ c.state = state
    <3>1. now \in 0..now /\ state \in States
      BY <1>0, JournalAssumption DEF Times, States, Terminal
    <3> QED BY <3>1, RowsAreTyped
  <2>5. <<e>> \in Seq(Event)
    BY <2>3
  <2> HIDE DEF e, c
  <2>6. h \in Hand /\ h.stage = "moved" /\ h.runner = hand[t].runner
        /\ h.base = hand[t].base /\ h.copy = c /\ h.pending = <<e>>
    BY <1>0, <2>4, <2>5 DEF Hand
  <2> HIDE DEF h
  <2>7. Tells(t, h)
    BY <1>3, <2>3, <2>4, <2>6 DEF Tells
  <2> QED BY <1>0, <1>3, <2>2, <2>6, <2>7
<1>4. CASE AssignJob(t)
  BY <1>3, <1>4 DEF AssignJob, Kinds, Ends
<1>5. CASE Fail(t)
  BY <1>3, <1>5 DEF Fail, Kinds, Terminal
<1>6. CASE Retire(t)
  BY <1>3, <1>6 DEF Retire, Kinds, Terminal
<1>7. CASE SaveAsIs(t)
  <2> DEFINE h == [hand[t] EXCEPT !.stage = "moved"]
  <2>1. /\ h \in Hand /\ h.stage = "moved" /\ h.runner = hand[t].runner
        /\ h.base = hand[t].base /\ h.pending = hand[t].pending
    BY <1>0 DEF Hand
  <2>2. hand' = [hand EXCEPT ![t] = h] /\ hand[t].stage = "read"
    BY <1>7 DEF SaveAsIs, Holds
  <2> HIDE DEF h
  <2> QED BY <1>0, <2>1, <2>2 DEF Tells
<1>8. CASE LetGo(t)
  BY <1>0, <1>8, NothingIsTyped DEF LetGo, Holds, Tells, Idle
<1> QED BY <1>1, <1>2, <1>4, <1>5, <1>6, <1>7, <1>8 DEF Works

(* Saving leaves a hand with what it has to tell.                          *)
LEMMA SavingIsSaved ==
  ASSUME TypeOK, NEW t \in Tasks, Save(t)
  PROVE  \E h \in Hand :
           /\ hand' = [hand EXCEPT ![t] = h] /\ h.stage = "saved"
           /\ h.runner = hand[t].runner /\ h.pending = hand[t].pending
<1> DEFINE h == [hand[t] EXCEPT !.stage = "saved", !.base = NoRow, !.copy = NoRow]
<1>1. hand[t] \in Hand /\ hand' = [hand EXCEPT ![t] = h]
  BY DEF Save, Saves, Holds, TypeOK
<1>2. /\ h \in Hand /\ h.stage = "saved" /\ h.runner = hand[t].runner
      /\ h.pending = hand[t].pending
  BY <1>1, NothingIsTyped DEF Hand
<1> HIDE DEF h
<1> QED BY <1>1, <1>2

(* Steps that leave the log and the hands as they are.                     *)
Elsewhere == (\E t \in Tasks : Archive(t)) \/ Prune \/ Tick \/ GatherStats \/ Answer

(* Every step is one of these.                                             *)
LEMMA StepsOfTheStore ==
  ASSUME Next
  PROVE  \/ \E t \in Tasks : Works(t) /\ ~Archive(t) /\ ~Save(t) /\ ~Publish(t)
         \/ \E t \in Tasks : Save(t)
         \/ \E t \in Tasks : Publish(t)
         \/ \E t \in Tasks : Adopts(t)
         \/ Crash
         \/ Elsewhere
BY DEF Next, Works, Elsewhere

(* What such a step leaves alone.                                          *)
LEMMA ElsewhereNothingIsTold ==
  ASSUME Elsewhere
  PROVE  events' = events /\ hand' = hand /\ faults' = faults /\ reopened' = reopened
BY DEF Elsewhere, Archive, Prune, Tick, GatherStats, Answer

(* Whoever adopts tells nothing, and publishes nothing.                    *)
LEMMA AdoptingTellsNothing ==
  ASSUME TypeOK, PendingIsOwn, NEW t \in Tasks, Adopts(t)
  PROVE  /\ events' = events /\ now' = now /\ faults' = faults
         /\ hand[t].pending = <<>>
         /\ \E h \in Hand : /\ hand' = [hand EXCEPT ![t] = h]
                           /\ h.stage \in {"adopts", "read"} /\ h.pending = <<>>
<1>1. ASSUME NEW r \in Runners, Adopt(t, r), hand[t].stage = "idle"
      PROVE  /\ events' = events /\ now' = now /\ faults' = faults
             /\ hand[t].pending = <<>>
             /\ \E h \in Hand : /\ hand' = [hand EXCEPT ![t] = h]
                               /\ h.stage \in {"adopts", "read"} /\ h.pending = <<>>
  BY <1>1, HandsAdopt DEF PendingIsOwn
<1>2. CASE SaveAdopted(t)
  BY <1>2, AdoptionsAreSaved DEF PendingIsOwn
<1>3. ASSUME NEW r \in Runners, Adopt(t, r) PROVE hand[t].stage = "idle"
  BY <1>3 DEF Adopt
<1> QED BY <1>1, <1>2, <1>3 DEF Adopts

(* What is known is what was, but for what a task has just done.           *)
LEMMA NothingElseIsKnown ==
  ASSUME TypeOK, PendingIsOwn, Next
  PROVE  \/ \A f \in Event : IsKnown(f)' => IsKnown(f)
         \/ \E t \in Tasks, e \in Event :
              /\ e.at = now /\ now' = now
              /\ \/ /\ e.kind # "RunnerRegistered"
                    /\ hand[t].stage = "read" /\ hand[t].runner = e.runner
                 \/ e.kind = "RunnerRegistered" /\ Register(t, e.runner)
              /\ \A f \in Event : IsKnown(f)' => IsKnown(f) \/ f = e
<1>1. ASSUME NEW t \in Tasks, Works(t), ~Archive(t), ~Save(t), ~Publish(t)
      PROVE  \/ \A f \in Event : IsKnown(f)' => IsKnown(f)
             \/ \E e \in Event :
                  /\ e.at = now /\ now' = now
                  /\ \/ /\ e.kind # "RunnerRegistered"
                        /\ hand[t].stage = "read" /\ hand[t].runner = e.runner
                     \/ e.kind = "RunnerRegistered" /\ Register(t, e.runner)
                  /\ \A f \in Event : IsKnown(f)' => IsKnown(f) \/ f = e
  <2>1. PICK h \in Hand : hand' = [hand EXCEPT ![t] = h] /\ Tells(t, h)
    BY <1>1, HandsTell
  <2>2. events' = events /\ now' = now
    BY <1>1, HandsPrepare
  <2>3. ASSUME NEW f \in Event, IsKnown(f)'
        PROVE  IsKnown(f) \/ \E i \in DOMAIN h.pending : h.pending[i] = f
    BY <2>1, <2>2, <2>3 DEF IsKnown, TypeOK
  <2>4. CASE h.pending = <<>>
    BY <2>3, <2>4
  <2>5. ASSUME NEW e \in Event, h.pending = <<e>>
        PROVE  \A f \in Event : IsKnown(f)' => IsKnown(f) \/ f = e
    BY <2>3, <2>5
  <2>6. CASE \E e \in Event :
               /\ h.pending = <<e>> /\ e.at = now /\ e.runner = hand[t].runner
               /\ e.kind # "RunnerRegistered" /\ hand[t].stage = "read"
    BY <2>2, <2>5, <2>6
  <2>7. CASE /\ h.runner \in Runners /\ Register(t, h.runner)
             /\ h.pending = <<[kind |-> "RunnerRegistered", runner |-> h.runner, at |-> now]>>
    <3> DEFINE e == [kind |-> "RunnerRegistered", runner |-> h.runner, at |-> now]
    <3>1. e \in Event /\ e.at = now /\ e.kind = "RunnerRegistered" /\ e.runner = h.runner
      BY <2>7 DEF Event, Kinds, TypeOK
    <3> HIDE DEF e
    <3>2. h.pending = <<e>>
      BY <2>7 DEF e
    <3> QED BY <2>2, <2>5, <2>7, <3>1, <3>2
  <2> QED BY <2>1, <2>4, <2>6, <2>7 DEF Tells
<1>2. ASSUME NEW t \in Tasks, Save(t) PROVE \A f \in Event : IsKnown(f)' => IsKnown(f)
  <2>1. PICK h \in Hand : hand' = [hand EXCEPT ![t] = h] /\ h.pending = hand[t].pending
    BY <1>2, SavingIsSaved
  <2> QED BY <1>2, <2>1 DEF Save, Saves, IsKnown, TypeOK
<1>3. ASSUME NEW t \in Tasks, Publish(t) PROVE \A f \in Event : IsKnown(f)' => IsKnown(f)
  <2>1. events \in Seq(Event) /\ hand[t].pending \in Seq(Event)
    BY DEF TypeOK, Hand
  <2>2. events' = events \o hand[t].pending /\ hand' = [hand EXCEPT ![t] = Idle]
    BY <1>3 DEF Publish, Holds
  <2> SUFFICES ASSUME NEW f \in Event, IsKnown(f)' PROVE IsKnown(f)
    OBVIOUS
  <2>3. CASE \E i \in DOMAIN events' : events'[i] = f
    <3>1. PICK i \in DOMAIN events' : events'[i] = f
      BY <2>3
    <3>2. CASE i <= Len(events)
      <4>1. i \in DOMAIN events /\ events[i] = f
        BY <2>1, <2>2, <3>1, <3>2
      <4> QED BY <4>1 DEF IsKnown
    <3>3. CASE ~(i <= Len(events))
      <4>1. /\ i - Len(events) \in DOMAIN hand[t].pending
            /\ hand[t].pending[i - Len(events)] = f
        BY <2>1, <2>2, <3>1, <3>3
      <4> QED BY <4>1 DEF IsKnown
    <3> QED BY <3>2, <3>3
  <2>4. ASSUME NEW u \in Tasks, NEW i \in DOMAIN hand'[u].pending, hand'[u].pending[i] = f
        PROVE  IsKnown(f)
    <3>1. Idle.pending = <<>>
      BY DEF Idle
    <3>2. hand'[u] = hand[u]
      BY <2>2, <2>4, <3>1 DEF TypeOK
    <3> QED BY <2>4, <3>2 DEF IsKnown
  <2> QED BY <2>3, <2>4 DEF IsKnown
<1>4. CASE Crash
  <2>1. Idle.pending = <<>>
    BY DEF Idle
  <2> QED BY <1>4, <2>1 DEF Crash, IsKnown
<1>5. CASE Elsewhere
  BY <1>5, ElsewhereNothingIsTold DEF IsKnown
<1>6. ASSUME NEW t \in Tasks, Adopts(t) PROVE \A f \in Event : IsKnown(f)' => IsKnown(f)
  <2>1. PICK h \in Hand : hand' = [hand EXCEPT ![t] = h] /\ h.pending = <<>>
    BY <1>6, AdoptingTellsNothing
  <2> QED BY <1>6, <2>1, AdoptingTellsNothing, OneHandMoves DEF IsKnown
<1> QED BY <1>1, <1>2, <1>3, <1>4, <1>5, <1>6, StepsOfTheStore

(* Unless somebody is killed, what is known stays known.                   *)
LEMMA KnownStaysKnown ==
  ASSUME TypeOK, PendingIsOwn, Next, ~Crash, NEW e \in Event, IsKnown(e)
  PROVE  IsKnown(e)'
<1>1. ASSUME NEW t \in Tasks, Works(t), ~Archive(t), ~Save(t), ~Publish(t) PROVE IsKnown(e)'
  <2>1. PICK h \in Hand : hand' = [hand EXCEPT ![t] = h] /\ hand[t].pending = <<>>
    BY <1>1, HandsTell
  <2>2. events' = events
    BY <1>1, HandsPrepare
  <2> QED BY <2>1, <2>2 DEF IsKnown, TypeOK
<1>2. ASSUME NEW t \in Tasks, Save(t) PROVE IsKnown(e)'
  <2>1. PICK h \in Hand : hand' = [hand EXCEPT ![t] = h] /\ h.pending = hand[t].pending
    BY <1>2, SavingIsSaved
  <2> QED BY <1>2, <2>1 DEF Save, Saves, IsKnown, TypeOK
<1>3. ASSUME NEW t \in Tasks, Publish(t) PROVE IsKnown(e)'
  <2>1. events \in Seq(Event) /\ hand[t].pending \in Seq(Event)
    BY DEF TypeOK, Hand
  <2>2. events' = events \o hand[t].pending /\ hand' = [hand EXCEPT ![t] = Idle]
    BY <1>3 DEF Publish, Holds
  <2>3. ASSUME NEW i \in DOMAIN events, events[i] = e PROVE IsKnown(e)'
    <3>1. i \in DOMAIN events' /\ events'[i] = e
      BY <2>1, <2>2, <2>3
    <3> QED BY <3>1 DEF IsKnown
  <2>4. ASSUME NEW i \in DOMAIN hand[t].pending, hand[t].pending[i] = e PROVE IsKnown(e)'
    <3>1. i \in 1..Len(hand[t].pending) /\ Len(hand[t].pending) \in Nat /\ Len(events) \in Nat
      BY <2>1, <2>4
    <3>2. Len(events) + i \in DOMAIN events'
      BY <2>1, <2>2, <3>1
    <3>3. events'[Len(events) + i] = hand[t].pending[i]
      BY <2>1, <2>2, <3>1
    <3> QED BY <2>4, <3>2, <3>3 DEF IsKnown
  <2>5. ASSUME NEW u \in Tasks \ {t}, NEW i \in DOMAIN hand[u].pending, hand[u].pending[i] = e
        PROVE  IsKnown(e)'
    BY <2>2, <2>5 DEF IsKnown, TypeOK
  <2> QED BY <2>3, <2>4, <2>5 DEF IsKnown
<1>4. CASE Elsewhere
  BY <1>4, ElsewhereNothingIsTold DEF IsKnown
<1>5. ASSUME NEW t \in Tasks, Adopts(t) PROVE IsKnown(e)'
  <2>1. PICK h \in Hand : hand' = [hand EXCEPT ![t] = h]
    BY <1>5, AdoptingTellsNothing
  <2> QED BY <1>5, <2>1, AdoptingTellsNothing, OneHandMoves DEF IsKnown
<1> QED BY <1>1, <1>2, <1>3, <1>4, <1>5, StepsOfTheStore

(* Nobody starts to have something to tell that is not his own.            *)
LEMMA PendingStaysOwn ==
  ASSUME TypeOK, PendingIsOwn, Next
  PROVE  PendingIsOwn'
<1> DEFINE Own(h) ==
      /\ h.stage \in {"idle", "adopts", "read"} => h.pending = <<>>
      /\ \A i \in DOMAIN h.pending : h.pending[i].runner = h.runner
      /\ h.stage = "moved" /\ h.copy.state \notin Terminal
           => \A i \in DOMAIN h.pending : h.pending[i].kind \notin Ends
<1>0. Own(Idle)
  BY DEF Idle
<1>1. \A t \in Tasks : Own(hand[t])
  BY DEF PendingIsOwn
<1>2. ASSUME NEW t \in Tasks, NEW h, hand' = [hand EXCEPT ![t] = h], Own(h)
      PROVE  PendingIsOwn'
  <2>1. \A u \in Tasks : hand'[u] = IF u = t THEN h ELSE hand[u]
    BY <1>2 DEF TypeOK
  <2>2. \A u \in Tasks : Own(hand'[u])
    <3> HIDE DEF Own
    <3> QED BY <1>1, <1>2, <2>1
  <2> QED BY <2>2 DEF PendingIsOwn
<1>3. ASSUME NEW t \in Tasks, Works(t), ~Archive(t), ~Save(t), ~Publish(t) PROVE PendingIsOwn'
  <2>1. PICK h \in Hand : hand' = [hand EXCEPT ![t] = h] /\ Tells(t, h)
    BY <1>3, HandsTell
  <2>2. Own(h)
    BY <2>1 DEF Tells, Ends
  <2> HIDE DEF Own
  <2> QED BY <1>2, <2>1, <2>2
<1>4. ASSUME NEW t \in Tasks, Save(t) PROVE PendingIsOwn'
  <2>1. PICK h \in Hand :
          /\ hand' = [hand EXCEPT ![t] = h] /\ h.stage = "saved"
          /\ h.runner = hand[t].runner /\ h.pending = hand[t].pending
    BY <1>4, SavingIsSaved
  <2>2. Own(h)
    BY <1>1, <2>1
  <2> HIDE DEF Own
  <2> QED BY <1>2, <2>1, <2>2
<1>5. ASSUME NEW t \in Tasks, Publish(t) PROVE PendingIsOwn'
  <2> HIDE DEF Own
  <2> QED BY <1>0, <1>2, <1>5 DEF Publish, Holds
<1>6. CASE Crash
  <2>1. \A u \in Tasks : hand'[u] = Idle
    BY <1>6 DEF Crash
  <2> QED BY <1>0, <2>1 DEF PendingIsOwn
<1>7. CASE Elsewhere
  BY <1>7, ElsewhereNothingIsTold DEF PendingIsOwn
<1>8. ASSUME NEW t \in Tasks, Adopts(t) PROVE PendingIsOwn'
  <2>1. PICK h \in Hand : /\ hand' = [hand EXCEPT ![t] = h]
                         /\ h.stage \in {"adopts", "read"} /\ h.pending = <<>>
    BY <1>8, AdoptingTellsNothing
  <2>2. Own(h)
    BY <2>1
  <2> HIDE DEF Own
  <2> QED BY <1>2, <2>1, <2>2
<1> QED BY <1>3, <1>4, <1>5, <1>6, <1>7, <1>8, StepsOfTheStore

(* A row that is not there is only written by a save.                      *)
LEMMA RowsAreSaved ==
  ASSUME TypeOK, Next, NEW r \in Runners, row'[r].state # row[r].state
  PROVE  \/ row'[r].state = "none"
         \/ \E t \in Tasks : /\ Save(t) \/ SaveAdopted(t)
                             /\ hand[t].runner = r /\ row'[r] = hand[t].copy
<1>1. CASE Prune
  BY <1>1 DEF Prune, NoRow, TypeOK
<1>2. ASSUME NEW t \in Tasks, Save(t) \/ SaveAdopted(t)
      PROVE  hand[t].runner = r /\ row'[r] = hand[t].copy
  BY <1>2 DEF Save, Saves, SaveAdopted, TypeOK
<1>3. ASSUME row' = row PROVE FALSE
  BY <1>3
<1> QED BY <1>1, <1>2, <1>3
    DEF Next, Works, Adopts, AssignJob, Fail, Archive, Retire, SaveAsIs, LetGo, Adopt,
        Publish, Register, Load, Moves, Tick, Crash, GatherStats, Answer

(* The events of the log are its own, and what a task publishes.           *)
LEMMA PublishingAdds ==
  ASSUME TypeOK, NEW t \in Tasks, Publish(t)
  PROVE  /\ hand' = [hand EXCEPT ![t] = Idle] /\ hand[t].stage = "saved" /\ row' = row
         /\ \A i \in DOMAIN events : i \in DOMAIN events' /\ events'[i] = events[i]
         /\ \A i \in DOMAIN events' :
              \/ i \in DOMAIN events /\ events'[i] = events[i]
              \/ \E k \in DOMAIN hand[t].pending : events'[i] = hand[t].pending[k]
<1>1. events \in Seq(Event) /\ hand[t].pending \in Seq(Event)
  BY DEF TypeOK, Hand
<1>2. events' = events \o hand[t].pending
  BY DEF Publish
<1>3. \A i \in DOMAIN events : i \in DOMAIN events' /\ events'[i] = events[i]
  BY <1>1, <1>2
<1>4. ASSUME NEW i \in DOMAIN events'
      PROVE  \/ i \in DOMAIN events /\ events'[i] = events[i]
             \/ \E k \in DOMAIN hand[t].pending : events'[i] = hand[t].pending[k]
  <2>1. CASE i <= Len(events)
    <3>1. i \in DOMAIN events
      BY <1>1, <1>2, <1>4, <2>1
    <3> QED BY <1>3, <3>1
  <2>2. CASE ~(i <= Len(events))
    <3>1. /\ i - Len(events) \in DOMAIN hand[t].pending
          /\ hand[t].pending[i - Len(events)] = events'[i]
      BY <1>1, <1>2, <1>4, <2>2
    <3> QED BY <3>1
  <2> QED BY <2>1, <2>2
<1> QED BY <1>3, <1>4 DEF Publish, Holds

(* Whom a hand is to add stays new.                                        *)
LEMMA NewcomersStayNew ==
  ASSUME TypeOK, AdoptionsAreNoted, PendingIsOwn, NewcomersAreNew, Next
  PROVE  NewcomersAreNew'
<1>1. ASSUME NEW u \in Tasks, Works(u), ~Archive(u), ~Save(u), ~Publish(u)
      PROVE  NewcomersAreNew'
  <2>1. PICK h \in Hand : hand' = [hand EXCEPT ![u] = h] /\ Tells(u, h)
    BY <1>1, HandsTell
  <2>2. row' = row /\ events' = events
    BY <1>1, HandsPrepare
  <2>3. \A t \in Tasks : hand'[t] = IF t = u THEN h ELSE hand[t]
    BY <2>1 DEF TypeOK
  <2>4. h.stage = "read" => h.base # NoRow
    BY <2>1 DEF Tells, NoRow
  <2>5. CASE /\ h.stage \in {"idle", "read"}
             /\ h.stage = "read" => row[h.runner].state # "none"
    BY <2>2, <2>3, <2>4, <2>5 DEF NewcomersAreNew
  <2>6. CASE /\ hand[u].stage = "read" /\ h.stage = "moved"
             /\ h.runner = hand[u].runner /\ h.base = hand[u].base
    BY <2>2, <2>3, <2>4, <2>6 DEF NewcomersAreNew
  <2>7. CASE /\ h.runner \in Runners /\ Register(u, h.runner) /\ h.stage = "moved"
    <3>1. /\ row[h.runner].state = "none"
          /\ \A i \in DOMAIN events : events[i].runner # h.runner
          /\ \A t \in Tasks : hand[t].stage = "idle" \/ hand[t].runner # h.runner
      BY <2>7 DEF Register
    <3> QED BY <2>2, <2>3, <2>7, <3>1 DEF NewcomersAreNew
  <2> QED BY <2>1, <2>5, <2>6, <2>7 DEF Tells
<1>2. ASSUME NEW u \in Tasks, Save(u) PROVE NewcomersAreNew'
  <2>1. PICK h \in Hand :
          /\ hand' = [hand EXCEPT ![u] = h] /\ h.stage = "saved"
          /\ h.runner = hand[u].runner
    BY <1>2, SavingIsSaved
  <2>2. /\ hand[u].stage = "moved" /\ events' = events
        /\ row' = [row EXCEPT ![hand[u].runner] = hand[u].copy]
    BY <1>2 DEF Save, Saves
  <2>3. \A t \in Tasks : hand'[t] = IF t = u THEN h ELSE hand[t]
    BY <2>1 DEF TypeOK
  <2>4. \A r \in Runners : r # hand[u].runner => row'[r] = row[r]
    BY <2>2 DEF TypeOK
  <2>5. \A t \in Tasks : hand[t].stage = "moved" => hand[t].runner \in Runners
    BY DEF TypeOK
  <2> QED BY <2>1, <2>2, <2>3, <2>4, <2>5 DEF NewcomersAreNew
<1>3. ASSUME NEW u \in Tasks, Publish(u) PROVE NewcomersAreNew'
  <2>1. \A t \in Tasks : hand'[t] = IF t = u THEN Idle ELSE hand[t]
    BY <1>3, PublishingAdds DEF TypeOK
  <2>2. Idle.stage = "idle"
    BY DEF Idle
  <2>3. \A k \in DOMAIN hand[u].pending : hand[u].pending[k].runner = hand[u].runner
    BY DEF PendingIsOwn
  <2>4. row' = row /\ hand[u].stage = "saved"
    BY <1>3, PublishingAdds
  <2>5. \A i \in DOMAIN events' :
          \/ i \in DOMAIN events /\ events'[i] = events[i]
          \/ events'[i].runner = hand[u].runner
    BY <1>3, <2>3, PublishingAdds
  <2> QED BY <2>1, <2>2, <2>4, <2>5 DEF NewcomersAreNew
<1>4. CASE Crash
  <2>1. \A t \in Tasks : hand'[t].stage = "idle"
    BY <1>4 DEF Crash, Idle
  <2> QED BY <2>1 DEF NewcomersAreNew
<1>5. CASE Elsewhere
  <2>1. \A r \in Runners : row[r].state = "none" => row'[r].state = "none"
    <3>1. CASE Prune
      BY <3>1 DEF Prune, NoRow
    <3>2. CASE row' = row
      BY <3>2
    <3> QED BY <1>5, <3>1, <3>2 DEF Elsewhere, Archive, Tick, GatherStats, Answer
  <2>2. \A t \in Tasks : hand[t].stage = "moved" => hand[t].runner \in Runners
    BY DEF TypeOK
  <2> QED BY <1>5, <2>1, <2>2, ElsewhereNothingIsTold DEF NewcomersAreNew
<1>6. ASSUME NEW u \in Tasks, NEW r \in Runners, Adopt(u, r) PROVE NewcomersAreNew'
  <2>1. PICK h \in Hand :
          hand' = [hand EXCEPT ![u] = h] /\ h.stage = "adopts" /\ h.runner = r
    BY <1>6, HandsAdopt
  <2>2. row' = row /\ events' = events
    BY <1>6, HandsAdopt
  <2>3. \A t \in Tasks : hand'[t] = IF t = u THEN h ELSE hand[t]
    BY <2>1 DEF TypeOK
  <2>4. \A t \in Tasks :
          hand[t].stage = "moved" /\ hand[t].base = NoRow => hand[t].runner # r
    BY <1>6 DEF Adopt, Registering
  <2> QED BY <2>1, <2>2, <2>3, <2>4 DEF NewcomersAreNew
<1>7. ASSUME NEW u \in Tasks, SaveAdopted(u) PROVE NewcomersAreNew'
  <2>1. PICK h \in Hand :
          /\ hand' = [hand EXCEPT ![u] = h] /\ h.stage = "read"
          /\ h.runner = hand[u].runner /\ h.base = hand[u].copy
    BY <1>7, AdoptionsAreSaved
  <2>2. /\ hand[u].stage = "adopts" /\ events' = events
        /\ row' = [row EXCEPT ![hand[u].runner] = hand[u].copy]
    BY <1>7, AdoptionsAreSaved
  <2>3. \A t \in Tasks : hand'[t] = IF t = u THEN h ELSE hand[t]
    BY <2>1 DEF TypeOK
  <2>4. \A r \in Runners : r # hand[u].runner => row'[r] = row[r]
    BY <2>2 DEF TypeOK
  <2>5. \A t \in Tasks : hand[t].stage = "moved" => hand[t].runner \in Runners
    BY DEF TypeOK
  <2>6. h.base # NoRow
    BY <2>1, <2>2 DEF AdoptionsAreNoted, NoRow
  <2> QED BY <2>1, <2>2, <2>3, <2>4, <2>5, <2>6 DEF NewcomersAreNew
<1> QED BY <1>1, <1>2, <1>3, <1>4, <1>5, <1>6, <1>7, StepsOfTheStore DEF Adopts

(* Nobody tells of whom is just being registered.                          *)
LEMMA NobodyKnowsThem ==
  ASSUME TypeOK, PendingIsOwn, NEW t \in Tasks, NEW r, Register(t, r),
         NEW e \in Event, IsKnown(e)
  PROVE  e.runner # r
<1>1. \A i \in DOMAIN events : events[i].runner # r
  BY DEF Register
<1>2. \A u \in Tasks : hand[u].stage = "idle" \/ hand[u].runner # r
  BY DEF Register
<1>3. ASSUME NEW u \in Tasks, NEW i \in DOMAIN hand[u].pending, hand[u].pending[i] = e
      PROVE  e.runner # r
  <2>1. hand[u].stage # "idle"
    BY <1>3 DEF PendingIsOwn
  <2> QED BY <1>2, <1>3, <2>1 DEF PendingIsOwn
<1> QED BY <1>1, <1>3 DEF IsKnown

(* Time does not go back.                                                  *)
LEMMA TimePasses ==
  ASSUME TypeOK, Next
  PROVE  now <= now' /\ now \in Nat /\ now' \in Nat
<1>1. now \in Nat
  BY DEF TypeOK, Times
<1>2. CASE Tick
  BY <1>1, <1>2 DEF Tick
<1>3. CASE now' = now
  BY <1>1, <1>3
<1> QED BY <1>2, <1>3
    DEF Next, Works, Adopts, AssignJob, Fail, Archive, Retire, SaveAsIs, LetGo, Adopt,
        SaveAdopted, Save, Saves, Publish, Register, Load, Moves, Prune, Crash, GatherStats, Answer

(* Dates stay in order.                                                    *)
LEMMA DatesStayInOrder ==
  ASSUME TypeOK, PendingIsOwn, DatesAreInOrder, Next
  PROVE  DatesAreInOrder'
<1>0. now <= now' /\ now \in Nat /\ now' \in Nat
  BY TimePasses
<1>1. \A f \in Event : f.at \in Nat
  BY JournalAssumption DEF Event, Times
<1>2. CASE \A f \in Event : IsKnown(f)' => IsKnown(f)
  <2>1. \A e \in Event : IsKnown(e)' => e.at <= now'
    BY <1>0, <1>1, <1>2 DEF DatesAreInOrder
  <2>2. ASSUME NEW e \in Event, NEW f \in Event, IsKnown(e)', e.kind = "RunnerRegistered",
               IsKnown(f)', f.runner = e.runner
        PROVE  e.at <= f.at
    BY <1>2, <2>2 DEF DatesAreInOrder
  <2> QED BY <2>1, <2>2 DEF DatesAreInOrder
<1>3. ASSUME NEW t \in Tasks, NEW d \in Event, d.at = now,
             \/ d.kind # "RunnerRegistered"
             \/ d.kind = "RunnerRegistered" /\ Register(t, d.runner),
             \A f \in Event : IsKnown(f)' => IsKnown(f) \/ f = d
      PROVE  DatesAreInOrder'
  <2>1. \A e \in Event : IsKnown(e)' => e.at <= now'
    BY <1>0, <1>1, <1>3 DEF DatesAreInOrder
  <2>2. ASSUME NEW e \in Event, NEW f \in Event, IsKnown(e)', e.kind = "RunnerRegistered",
               IsKnown(f)', f.runner = e.runner
        PROVE  e.at <= f.at
    <3>1. CASE e = d /\ f = d
      BY <1>0, <1>3, <3>1
    <3>2. CASE e = d /\ f # d
      <4>1. IsKnown(f) /\ Register(t, e.runner)
        BY <1>3, <2>2, <3>2
      <4> QED BY <2>2, <4>1, NobodyKnowsThem
    <3>3. CASE e # d /\ f = d
      BY <1>3, <2>2, <3>3 DEF DatesAreInOrder
    <3>4. CASE e # d /\ f # d
      BY <1>3, <2>2, <3>4 DEF DatesAreInOrder
    <3> QED BY <3>1, <3>2, <3>3, <3>4
  <2> QED BY <2>1, <2>2 DEF DatesAreInOrder
<1> QED BY <1>2, <1>3, NothingElseIsKnown

(* Whoever is seen was seen before, but for whom is just being registered, *)
(* or was adopted.                                                         *)
LEMMA SeenBefore ==
  ASSUME TypeOK, PendingIsOwn, Next, NEW r \in Runners, IsSeen(r)', r \notin adopted'
  PROVE  IsSeen(r) \/ \E t \in Tasks : Register(t, r)
<1>1. CASE row'[r].state # "none"
  <2>1. CASE row[r].state # "none"
    BY <2>1 DEF IsSeen
  <2>2. CASE \E t \in Tasks : (Save(t) \/ SaveAdopted(t)) /\ hand[t].runner = r
    BY <2>2 DEF Save, Saves, SaveAdopted, IsSeen
  <2> QED BY <1>1, <2>1, <2>2, RowsAreSaved
<1>2. ASSUME NEW t \in Tasks, hand'[t].stage # "idle", hand'[t].runner = r
      PROVE  IsSeen(r) \/ \E u \in Tasks : Register(u, r)
  <2>1. CASE hand'[t] = hand[t]
    BY <1>2, <2>1 DEF IsSeen
  <2>2. ASSUME NEW u \in Tasks, Works(u), ~Archive(u), ~Save(u), ~Publish(u),
               hand'[t] # hand[t]
        PROVE  IsSeen(r) \/ \E v \in Tasks : Register(v, r)
    <3>1. PICK h \in Hand : hand' = [hand EXCEPT ![u] = h] /\ Tells(u, h)
      BY <2>2, HandsTell
    <3>2. u = t /\ hand'[t] = h
      BY <2>2, <3>1 DEF TypeOK
    <3> QED BY <1>2, <3>1, <3>2 DEF Tells, IsSeen
  <2>3. ASSUME NEW u \in Tasks, Save(u), hand'[t] # hand[t]
        PROVE  IsSeen(r)
    <3>1. PICK h \in Hand : hand' = [hand EXCEPT ![u] = h] /\ h.runner = hand[u].runner
      BY <2>3, SavingIsSaved
    <3>2. u = t /\ hand'[t] = h
      BY <2>3, <3>1 DEF TypeOK
    <3>3. hand[t].stage = "moved"
      BY <2>3, <3>2 DEF Save, Saves
    <3> QED BY <1>2, <3>1, <3>2, <3>3 DEF IsSeen
  <2>4. ASSUME NEW u \in Tasks, Publish(u)
        PROVE  hand'[t] = hand[t]
    BY <1>2, <2>4, PublishingAdds DEF TypeOK, Idle
  <2>5. ~Crash
    BY <1>2 DEF Crash, Idle
  <2>6. ASSUME NEW u \in Tasks, NEW v \in Runners, Adopt(u, v), hand'[t] # hand[t] PROVE FALSE
    <3>1. hand'[t].runner = v /\ v \in adopted'
      BY <2>6, HandsAdopt, OneHandMoves
    <3> QED BY <1>2, <3>1
  <2>7. ASSUME NEW u \in Tasks, SaveAdopted(u), hand'[t] # hand[t] PROVE IsSeen(r)
    <3>1. hand[t].stage = "adopts" /\ hand'[t].runner = hand[t].runner
      BY <2>7, AdoptionsAreSaved, OneHandMoves
    <3> QED BY <1>2, <3>1 DEF IsSeen
  <2> QED BY <2>1, <2>2, <2>3, <2>4, <2>5, <2>6, <2>7, StepsOfTheStore, ElsewhereNothingIsTold
          DEF Adopts
<1>3. ASSUME NEW e \in Event, IsKnown(e)', e.runner = r
      PROVE  IsSeen(r) \/ \E t \in Tasks : Register(t, r)
  <2>1. CASE IsKnown(e)
    BY <1>3, <2>1 DEF IsSeen
  <2>2. CASE ~IsKnown(e)
    <3>1. PICK t \in Tasks, d \in Event :
            /\ \/ hand[t].stage = "read" /\ hand[t].runner = d.runner
               \/ Register(t, d.runner)
            /\ \A f \in Event : IsKnown(f)' => IsKnown(f) \/ f = d
      BY <1>3, <2>2, NothingElseIsKnown
    <3>2. e = d
      BY <1>3, <2>2, <3>1
    <3> QED BY <1>3, <3>1, <3>2 DEF IsSeen
  <2> QED BY <2>1, <2>2
<1> QED BY <1>1, <1>2, <1>3 DEF IsSeen

(* Nobody was killed if nobody is.                                         *)
LEMMA FaultsAreCounted ==
  ASSUME TypeOK, Next, faults' = 0
  PROVE  faults = 0 /\ ~Crash
<1>1. CASE Crash
  BY <1>1 DEF Crash, TypeOK
<1>2. CASE ~Crash
  <2>1. faults' = faults
    BY <1>2 DEF Next, Works, Adopts, AssignJob, Fail, Archive, Retire, SaveAsIs, LetGo, Adopt,
       SaveAdopted, Save, Saves, Publish, Register, Load, Moves, Prune, Tick, GatherStats, Answer
  <2> QED BY <1>2, <2>1
<1> QED BY <1>1, <1>2

(* Beginnings stay known.                                                  *)
LEMMA BeginningsStayKnown ==
  ASSUME TypeOK, PendingIsOwn, BeginningsAreKnown, Next
  PROVE  BeginningsAreKnown'
<1> SUFFICES ASSUME faults' = 0, NEW r \in Runners, r \notin adopted', IsSeen(r)'
             PROVE  \E e \in Event : /\ IsKnown(e)' /\ e.runner = r
                                     /\ e.kind = "RunnerRegistered"
  BY DEF BeginningsAreKnown
<1>1. faults = 0 /\ ~Crash
  BY FaultsAreCounted
<1>2. CASE IsSeen(r)
  <2>0. r \notin adopted
    BY AdoptedGrows
  <2>1. PICK e \in Event : IsKnown(e) /\ e.runner = r /\ e.kind = "RunnerRegistered"
    BY <1>1, <1>2, <2>0 DEF BeginningsAreKnown
  <2> QED BY <1>1, <2>1, KnownStaysKnown
<1>3. ASSUME NEW t \in Tasks, Register(t, r)
      PROVE  \E e \in Event : IsKnown(e)' /\ e.runner = r /\ e.kind = "RunnerRegistered"
  <2> DEFINE e == [kind |-> "RunnerRegistered", runner |-> r, at |-> now]
             h == [Idle EXCEPT !.stage = "moved", !.runner = r,
                     !.copy = [state |-> "live", at |-> 0], !.pending = <<e>>]
  <2>1. e \in Event /\ e.runner = r /\ e.kind = "RunnerRegistered"
    BY DEF TypeOK, Event, Kinds
  <2>2. hand' = [hand EXCEPT ![t] = h]
    BY <1>3 DEF Register, Holds
  <2>3. h.pending = <<e>>
    BY DEF Idle
  <2> HIDE DEF h
  <2>4. hand'[t].pending = <<e>>
    BY <2>2, <2>3 DEF TypeOK
  <2> HIDE DEF e
  <2>5. 1 \in DOMAIN hand'[t].pending /\ hand'[t].pending[1] = e
    BY <2>4
  <2> QED BY <2>1, <2>5 DEF IsKnown
<1> QED BY <1>2, <1>3, SeenBefore

(* An end is known before it is told.                                      *)
LEMMA EndsAreSaved ==
  ASSUME TypeOK, PendingIsOwn, Next, NEW r \in Runners, HasEnded(r)'
  PROVE  \/ HasEnded(r)
         \/ \E t \in Tasks : Save(t) /\ hand[t].runner = r /\ hand[t].copy.state \in Terminal
<1> SUFFICES ASSUME NEW state \in Terminal, Told(r, state)'
             PROVE  \/ Told(r, state)
                    \/ \E t \in Tasks : /\ Save(t) /\ hand[t].runner = r
                                        /\ hand[t].copy.state \in Terminal
  BY DEF HasEnded, Terminal
<1>0. EndOf(state) \in Ends
  BY DEF EndOf, Ends
<1>1. ASSUME NEW u \in Tasks, Works(u), ~Archive(u), ~Save(u), ~Publish(u)
      PROVE  Told(r, state)
  <2>1. PICK h \in Hand : hand' = [hand EXCEPT ![u] = h] /\ Tells(u, h)
    BY <1>1, HandsTell
  <2>2. events' = events /\ h.stage # "saved"
    BY <1>1, <2>1, HandsPrepare DEF Tells
  <2>3. \A t \in Tasks : hand'[t] = IF t = u THEN h ELSE hand[t]
    BY <2>1 DEF TypeOK
  <2> QED BY <2>2, <2>3 DEF Told, Says
<1>2. ASSUME NEW u \in Tasks, Save(u)
      PROVE  \/ Told(r, state)
             \/ \E t \in Tasks : /\ Save(t) /\ hand[t].runner = r
                                 /\ hand[t].copy.state \in Terminal
  <2>1. PICK h \in Hand :
          /\ hand' = [hand EXCEPT ![u] = h]
          /\ h.runner = hand[u].runner /\ h.pending = hand[u].pending
    BY <1>2, SavingIsSaved
  <2>2. events' = events /\ hand[u].stage = "moved"
    BY <1>2 DEF Save, Saves
  <2>3. \A t \in Tasks : hand'[t] = IF t = u THEN h ELSE hand[t]
    BY <2>1 DEF TypeOK
  <2>4. CASE Told(r, state)
    BY <2>4
  <2>5. CASE h.runner = r /\ Says(h.pending, r, state)
    BY <1>0, <1>2, <2>1, <2>2, <2>5 DEF PendingIsOwn, Says
  <2> QED BY <2>2, <2>3, <2>4, <2>5 DEF Told, Says
<1>3. ASSUME NEW u \in Tasks, Publish(u) PROVE Told(r, state)
  <2>1. \A t \in Tasks : hand'[t] = IF t = u THEN Idle ELSE hand[t]
    BY <1>3, PublishingAdds DEF TypeOK
  <2>2. CASE Says(events', r, state)
    <3>1. PICK i \in DOMAIN events' :
            events'[i].runner = r /\ events'[i].kind = EndOf(state)
      BY <2>2 DEF Says
    <3>2. CASE i \in DOMAIN events /\ events'[i] = events[i]
      BY <3>1, <3>2 DEF Told, Says
    <3>3. ASSUME NEW k \in DOMAIN hand[u].pending, events'[i] = hand[u].pending[k]
          PROVE  Told(r, state)
      <4>1. hand[u].runner = r /\ Says(hand[u].pending, r, state)
        BY <3>1, <3>3 DEF PendingIsOwn, Says
      <4> QED BY <1>3, <4>1, PublishingAdds DEF Told
    <3> QED BY <1>3, <3>2, <3>3, PublishingAdds
  <2>3. ASSUME NEW t \in Tasks, hand'[t].stage = "saved", hand'[t].runner = r,
               Says(hand'[t].pending, r, state)
        PROVE  Told(r, state)
    <3>1. hand'[t] = hand[t]
      BY <2>1, <2>3 DEF Idle
    <3> QED BY <2>3, <3>1 DEF Told
  <2> QED BY <2>2, <2>3 DEF Told, Says
<1>4. CASE Crash
  BY <1>4 DEF Crash, Told, Says, Idle
<1>5. CASE Elsewhere
  BY <1>5, ElsewhereNothingIsTold DEF Told, Says
<1>6. ASSUME NEW u \in Tasks, Adopts(u) PROVE Told(r, state)
  <2>1. PICK h \in Hand : hand' = [hand EXCEPT ![u] = h] /\ h.stage \in {"adopts", "read"}
    BY <1>6, AdoptingTellsNothing
  <2>2. events' = events
    BY <1>6, AdoptingTellsNothing
  <2> QED BY <2>1, <2>2, OneHandMoves DEF Told, Says
<1> QED BY <1>1, <1>2, <1>3, <1>4, <1>5, <1>6, StepsOfTheStore

(* Who was put back stays so.                                              *)
LEMMA ReopenedGrows ==
  ASSUME Next
  PROVE  reopened \subseteq reopened'
BY DEF Next, Works, Adopts, AssignJob, Fail, Archive, Retire, SaveAsIs, LetGo, Adopt,
       SaveAdopted, Save, Saves, Publish, Register, Load, Moves, Prune, Tick, Crash,
       GatherStats, Answer

(* Who ended stays down.                                                   *)
LEMMA TheyStayDown ==
  ASSUME TypeOK, AdoptionsAreNoted, PendingIsOwn, NewcomersAreNew, EndedStayDown, Next
  PROVE  EndedStayDown'
<1> SUFFICES ASSUME NEW r \in Runners, HasEnded(r)', r \in Active'
             PROVE  r \in reopened'
  BY DEF EndedStayDown
<1>0. row'[r].state \in {"live", "busy"}
  BY DEF Active
<1>1. CASE r \in Active
  <2>1. ASSUME NEW t \in Tasks, Save(t), hand[t].runner = r, hand[t].copy.state \in Terminal
        PROVE  FALSE
    BY <1>0, <2>1 DEF Save, Saves, TypeOK, Terminal
  <2>2. HasEnded(r)
    BY <2>1, EndsAreSaved
  <2> QED BY <1>1, <2>2, ReopenedGrows DEF EndedStayDown
<1>2. CASE r \notin Active
  <2>1. row'[r].state # row[r].state /\ row'[r].state # "none"
    BY <1>0, <1>2 DEF Active
  <2>0. ASSUME NEW t \in Tasks, SaveAdopted(t), hand[t].runner = r, row'[r] = hand[t].copy
        PROVE  r \in reopened'
    <3>1. hand[t].copy.state = "live"
      BY <1>0, <2>0 DEF SaveAdopted, AdoptionsAreNoted
    <3> QED BY <1>2, <2>0, <3>1 DEF SaveAdopted
  <2> SUFFICES ASSUME NEW t \in Tasks, Save(t), hand[t].runner = r, row'[r] = hand[t].copy
               PROVE  r \in reopened'
    BY <2>0, <2>1, RowsAreSaved
  <2>2. Save(t) /\ hand[t].runner = r /\ row'[r] = hand[t].copy
    OBVIOUS
  <2>3. hand[t].copy.state \notin Terminal /\ hand[t].stage = "moved"
    BY <1>0, <2>2 DEF Terminal, Save, Saves
  <2>4. CASE hand[t].base # NoRow
    BY <1>2, <2>2, <2>3, <2>4 DEF Save, Saves
  <2>5. CASE hand[t].base = NoRow
    <3>1. /\ \A i \in DOMAIN events : events[i].runner # r
          /\ \A u \in Tasks \ {t} : hand[u].stage = "idle" \/ hand[u].runner # r
      BY <2>2, <2>3, <2>5 DEF NewcomersAreNew
    <3>2. ~HasEnded(r)
      BY <2>3, <3>1 DEF HasEnded, Told, Says
    <3>3. PICK u \in Tasks : /\ Save(u) /\ hand[u].runner = r
                             /\ hand[u].copy.state \in Terminal
      BY <3>2, EndsAreSaved
    <3>4. u # t /\ hand[u].stage = "moved"
      BY <2>3, <3>3 DEF Save, Saves
    <3> QED BY <3>1, <3>3, <3>4
  <2> QED BY <2>4, <2>5
<1> QED BY <1>1, <1>2

(* What is in the log stays there.                                         *)
LEMMA EndsStayLogged ==
  ASSUME TypeOK, Next, NEW r \in Runners, EndIsLogged(r)
  PROVE  EndIsLogged(r)'
<1>1. ASSUME NEW t \in Tasks, Publish(t) PROVE EndIsLogged(r)'
  BY <1>1, PublishingAdds DEF EndIsLogged
<1>2. CASE events' = events
  BY <1>2 DEF EndIsLogged
<1> QED BY <1>1, <1>2
    DEF Next, Works, Adopts, AssignJob, Fail, Archive, Retire, SaveAsIs, LetGo, Adopt,
        SaveAdopted, Save, Saves, Register, Load, Moves, Prune, Tick, Crash, GatherStats, Answer

(* A report never shows more than there is to show.                        *)
LEMMA ReportStaysTrue ==
  ASSUME TypeOK, EndedStayDown, ReportIsTrue, Next
  PROVE  ReportIsTrue'
<1>1. ASSUME NEW moment \in Times,
             report' = [NoReport EXCEPT !.stage = "told", !.ended = Gone(Since(moment))],
             events' = events
      PROVE  ReportIsTrue'
  <2>1. report'.stage = "told" /\ report'.ended = Gone(Since(moment))
    BY <1>1 DEF NoReport
  <2>2. ASSUME NEW r \in Gone(Since(moment)) PROVE r \in Runners /\ EndIsLogged(r)
    <3>1. r \in Runners /\ LastAt(Of(Since(moment), r, Ends)) # Never
      BY <2>2 DEF Gone, Story, Ends
    <3>2. PICK i \in Of(Since(moment), r, Ends) : TRUE
      BY <3>1 DEF LastAt
    <3> QED BY <3>1, <3>2 DEF Of, Since, EndIsLogged
  <2>3. report' \in Report
    BY <1>1, <2>2 DEF Report, NoReport
  <2> QED BY <1>1, <2>1, <2>2, <2>3 DEF ReportIsTrue, EndIsLogged
<1>2. ASSUME report.stage = "told",
             report' = [report EXCEPT !.stage = "done", !.ended = @ \cap Active],
             reopened' = reopened
      PROVE  ReportIsTrue'
  <2>1. ASSUME NEW r \in report.ended \cap Active PROVE r \in reopened
    <3>1. r \in Runners /\ EndIsLogged(r)
      BY <1>2, <2>1 DEF ReportIsTrue, Report
    <3>2. HasEnded(r)
      BY <3>1 DEF EndIsLogged, HasEnded, Told, Says, Ends, EndOf
    <3> QED BY <2>1, <3>1, <3>2 DEF EndedStayDown
  <2>2. /\ report'.stage = "done" /\ report'.ended = report.ended \cap Active
        /\ report' \in Report
    BY <1>2 DEF ReportIsTrue, Report
  <2> QED BY <1>2, <2>1, <2>2 DEF ReportIsTrue
<1>3. CASE report' = NoReport
  BY <1>3 DEF ReportIsTrue, NoReport, Report
<1>4. CASE report' = report
  BY <1>4, EndsStayLogged, ReopenedGrows DEF ReportIsTrue, Report
<1>5. CASE GatherStats
  BY <1>1, <1>2, <1>5 DEF GatherStats, Reads
<1> QED BY <1>3, <1>4, <1>5
    DEF Next, Works, Adopts, AssignJob, Fail, Archive, Retire, SaveAsIs, LetGo, Adopt,
        SaveAdopted, Save, Saves, Publish, Register, Load, Moves, Prune, Tick, Crash, Answer

-----------------------------------------------------------------------------
(* The numbers.                                                            *)

(* Some of the places of a log are first and last.                         *)
LEMMA PlacesHaveEnds ==
  ASSUME NEW S \in SUBSET Nat, NEW n \in Nat, S \subseteq 1..n, S # {}
  PROVE  Min(S) \in S /\ Max(S) \in S
<1>1. \E i \in S : \A k \in S : i <= k
  <2>1. PICK i \in S : \A k \in S : ~(<<k, i>> \in OpToRel(<, Nat))
    BY NatLessThanWellFounded, WFMin
  <2>2. ASSUME NEW k \in S PROVE i <= k
    <3>1. i \in Nat /\ k \in Nat
      OBVIOUS
    <3>2. ~(k < i)
      BY <2>1, <3>1 DEF OpToRel
    <3> QED BY <3>1, <3>2
  <2> QED BY <2>2
<1>2. \E i \in S : \A k \in S : i >= k
  <2> DEFINE T == {m \in Nat : n - m \in S}
  <2>1. T # {} /\ T \subseteq Nat
    <3>1. PICK i \in S : TRUE
      OBVIOUS
    <3>2. n - i \in Nat /\ n - (n - i) = i
      BY <3>1
    <3> QED BY <3>1, <3>2
  <2>2. PICK m \in T : \A k \in T : ~(<<k, m>> \in OpToRel(<, Nat))
    <3> HIDE DEF T
    <3> QED BY <2>1, NatLessThanWellFounded, WFMin
  <2>3. ASSUME NEW k \in S PROVE n - m >= k
    <3>1. n - k \in Nat /\ n - (n - k) = k
      BY <2>3
    <3>2. n - k \in T
      BY <3>1
    <3>3. ~(n - k < m)
      BY <2>2, <3>1, <3>2 DEF OpToRel
    <3> QED BY <3>1, <3>3
  <2> QED BY <2>3
<1>3. Min(S) \in S
  BY <1>1 DEF Min
<1>4. Max(S) \in S
  BY <1>2 DEF Max
<1> QED BY <1>3, <1>4

(* The first date of some events, and the last, are dates of one of them.  *)
LEMMA DatesAreOfEvents ==
  ASSUME TypeOK, NEW places \in SUBSET DOMAIN events
  PROVE  /\ places = {} => FirstAt(places) = Never /\ LastAt(places) = Never
         /\ places # {} => /\ \E i \in places : FirstAt(places) = events[i].at
                          /\ \E i \in places : LastAt(places) = events[i].at
<1>1. CASE places = {}
  BY <1>1 DEF FirstAt, LastAt
<1>2. CASE places # {}
  <2>1. Len(events) \in Nat /\ places \subseteq 1..Len(events)
    BY DEF TypeOK
  <2>2. places \in SUBSET Nat
    BY <2>1
  <2>3. Min(places) \in places /\ Max(places) \in places
    BY <1>2, <2>1, <2>2, PlacesHaveEnds
  <2> QED BY <1>2, <2>3 DEF FirstAt, LastAt
<1> QED BY <1>1, <1>2

(* Of whom nothing is waiting to be published, no story is busy for longer *)
(* than it is alive.                                                       *)
LEMMA StoriesAddUp == ReportInv => BusyWithinAlive
<1> SUFFICES ASSUME ReportInv, faults = 0, NEW r \in Runners,
                    ~(\E t \in Tasks : hand[t].runner = r /\ hand[t].pending # <<>>),
                    ~(r \in adopted /\ Story(DOMAIN events, r).registered = Never)
             PROVE  Busy(Story(DOMAIN events, r)) \in 0..Alive(Story(DOMAIN events, r))
  BY DEF BusyWithinAlive
<1>0. TypeOK /\ PendingIsOwn /\ DatesAreInOrder /\ BeginningsAreKnown
  BY DEF ReportInv
<1> DEFINE R == Of(DOMAIN events, r, {"RunnerRegistered"})
           K == Of(DOMAIN events, r, {"RunnerTookJob"})
           E == Of(DOMAIN events, r, {"RunnerRetired", "RunnerFailed"})
           registered == LastAt(R)
           took == FirstAt(K)
           ended == LastAt(E)
<1>1. /\ Busy(Story(DOMAIN events, r)) = Gap(took, ended)
      /\ Alive(Story(DOMAIN events, r)) = Gap(registered, ended)
  BY DEF Busy, Alive, Story
<1>2. \A i \in DOMAIN events : events[i] \in Event /\ events[i].at \in Nat /\ IsKnown(events[i])
  <2> SUFFICES ASSUME NEW i \in DOMAIN events
               PROVE  /\ events[i] \in Event /\ events[i].at \in Nat
                      /\ IsKnown(events[i])
    OBVIOUS
  <2>1. events[i] \in Event
    BY <1>0 DEF TypeOK
  <2>2. events[i].at \in Nat
    BY <2>1, JournalAssumption DEF Event, Times
  <2> QED BY <2>1, <2>2 DEF IsKnown
<1>3. R \subseteq DOMAIN events /\ K \subseteq DOMAIN events /\ E \subseteq DOMAIN events
  BY DEF Of
<1>4. /\ registered \in Nat \cup {Never} /\ took \in Nat \cup {Never}
      /\ ended \in Nat \cup {Never}
  <2> HIDE DEF R, K, E
  <2> QED BY <1>0, <1>2, <1>3, DatesAreOfEvents
<1>5. Gap(registered, ended) \in Nat /\ Gap(took, ended) \in Nat
  <2> HIDE DEF registered, took, ended
  <2> QED BY <1>4 DEF Gap, Never
<1>6. CASE took = Never
  <2>1. Gap(took, ended) = 0
    BY <1>6 DEF Gap
  <2> HIDE DEF registered, took, ended
  <2> QED BY <1>1, <1>5, <2>1
<1>7. CASE took # Never
  <2>1. PICK k \in K : took = events[k].at
    <3> HIDE DEF K
    <3> QED BY <1>0, <1>3, <1>7, DatesAreOfEvents
  <2>2. events[k].runner = r /\ k \in DOMAIN events
    BY <2>1 DEF Of
  <2>3. ASSUME r \notin adopted PROVE R # {}
    <3>1. PICK e \in Event : IsKnown(e) /\ e.runner = r /\ e.kind = "RunnerRegistered"
      BY <1>0, <1>2, <2>2, <2>3 DEF BeginningsAreKnown, IsSeen
    <3>2. \E i \in DOMAIN events : events[i] = e
      BY <1>0, <3>1 DEF IsKnown, PendingIsOwn
    <3> QED BY <3>1, <3>2 DEF Of
  <2>4. ASSUME r \in adopted PROVE R # {}
    BY <2>4 DEF Story, LastAt
  <2>5. R # {}
    BY <2>3, <2>4
  <2>6. PICK i \in R : registered = events[i].at
    <3> HIDE DEF R
    <3> QED BY <1>0, <1>3, <2>5, DatesAreOfEvents
  <2>7. events[i].runner = r /\ events[i].kind = "RunnerRegistered" /\ i \in DOMAIN events
    BY <2>6 DEF Of
  <2>8. events[i].at <= events[k].at
    BY <1>0, <1>2, <2>2, <2>7 DEF DatesAreInOrder
  <2>9. registered \in Nat /\ took \in Nat /\ registered <= took
    BY <1>2, <2>1, <2>2, <2>6, <2>7, <2>8
  <2>10. Gap(took, ended) <= Gap(registered, ended)
    <3> HIDE DEF registered, took, ended
    <3> QED BY <1>4, <2>9 DEF Gap, Never
  <2> HIDE DEF registered, took, ended
  <2> QED BY <1>1, <1>5, <2>10
<1> QED BY <1>6, <1>7

(* Nothing is told, or being told, at first.                               *)
LEMMA ReportInvStarts == Init => ReportInv
<1> SUFFICES ASSUME Init PROVE ReportInv
  OBVIOUS
<1>1. TypeOK
  BY JournalInvStarts DEF JournalInv
<1>2. \A e \in Event : ~IsKnown(e)
  BY DEF Init, IsKnown, Idle
<1>3. \A r \in Runners : ~IsSeen(r) /\ ~HasEnded(r)
  BY <1>2 DEF Init, IsSeen, HasEnded, Told, Says, Idle, NoRow
<1>4. AdoptionsAreNoted /\ PendingIsOwn /\ NewcomersAreNew
  BY DEF Init, AdoptionsAreNoted, PendingIsOwn, NewcomersAreNew, Idle
<1>5. DatesAreInOrder /\ BeginningsAreKnown /\ EndedStayDown
  BY <1>2, <1>3 DEF DatesAreInOrder, BeginningsAreKnown, EndedStayDown
<1>6. ReportIsTrue
  BY DEF Init, ReportIsTrue, NoReport, Report
<1> QED BY <1>1, <1>4, <1>5, <1>6 DEF ReportInv

(* All of it together, over every step.                                    *)
LEMMA ReportInvIsKept == ReportInv /\ [Next]_vars => ReportInv'
<1> SUFFICES ASSUME ReportInv, [Next]_vars PROVE ReportInv'
  OBVIOUS
<1>1. CASE Next
  BY <1>1, TypesAreKept, AdoptionsStayNoted, PendingStaysOwn, NewcomersStayNew, DatesStayInOrder,
     BeginningsStayKnown, TheyStayDown, ReportStaysTrue DEF ReportInv
<1>2. CASE UNCHANGED vars
  <2> USE <1>2 DEF vars
  <2>1. TypeOK' /\ AdoptionsAreNoted' /\ PendingIsOwn' /\ NewcomersAreNew'
    BY DEF ReportInv, TypeOK, AdoptionsAreNoted, PendingIsOwn, NewcomersAreNew
  <2>2. DatesAreInOrder' /\ BeginningsAreKnown'
    BY DEF ReportInv, DatesAreInOrder, BeginningsAreKnown, IsKnown, IsSeen
  <2>3. EndedStayDown' /\ ReportIsTrue'
    BY DEF ReportInv, EndedStayDown, ReportIsTrue, HasEnded, Told, Says, Active, EndIsLogged
  <2> QED BY <2>1, <2>2, <2>3 DEF ReportInv
<1> QED BY <1>1, <1>2

(* The numbers of every report fit each other, however the report's two    *)
(* reads fall between the saves and the publishing of others: no story of  *)
(* the log is busy for longer than it is alive, but for an adopted runner  *)
(* whose beginning the log does not have, and nobody is shown as gone and  *)
(* as alive unless he was put back, by a copy older than his end or by an  *)
(* adoption.                                                               *)
THEOREM ReportAlwaysAddsUp == Spec => []ReportAddsUp
<1>1. ReportInv => ReportAddsUp
  BY StoriesAddUp DEF ReportInv, ReportIsTrue, ReportAddsUp, NobodyIsGoneAndAlive
<1> QED BY <1>1, ReportInvStarts, ReportInvIsKept, PTL DEF Spec
=============================================================================
