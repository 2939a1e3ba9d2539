---------------------------- MODULE DaemonProofs ----------------------------
(***************************************************************************)
(* Daemon, for any number of pools, runners and faults, any configuration  *)
(* files, with and without the API.                                        *)
(***************************************************************************)
EXTENDS Daemon, TLAPS

(* Only who provisions is somebody.                                        *)
JobsAreOwned == \A r \in Runners : job[r].by = "nobody" => job[r] = NoJob

(* The loop has no pass outside a tick, and nobody has one once it ended.  *)
IsOver(t) == /\ stage[t] = "off"
             /\ batch[t] = {}
             /\ \A r \in Runners : job[r].by # t

PassesAreOver ==
  /\ phase # "ticking" => IsOver("loop")
  /\ ~Alive => IsOver("api")

(* A pass holds readings while it observes, and launches only after that.  *)
PassesNest ==
  \A t \in Passes :
    /\ stage[t] # "observing" => note[t] = NoNote
    /\ stage[t] # "launching" => batch[t] = {} /\ \A r \in Runners : job[r].by # t

(* While the fleet is retired, a container is on the list, or one that the *)
(* list cannot lead to.                                                    *)
ListIsComplete ==
  phase = "retiring" =>
    \A r \in Runners : /\ job[r] # NoJob => r \in astray
                       /\ ctr[r] # "none" =>
                            \/ doomed[r] = "up"
                            \/ r \in astray \cup overwritten
                            \/ ~HasCredential(r)

DaemonInv ==
  /\ TypeOK
  /\ JobsAreOwned
  /\ ContainersAreAccounted
  /\ PassesAreOver
  /\ PassesNest
  /\ ListIsComplete
  /\ FleetGoesWithDaemon

(* At the start nothing is up.                                             *)
LEMMA DaemonStarts == Init => DaemonInv
<1>1. ASSUME Init
      PROVE  TypeOK
  <2>1. file \in Configuration /\ config \subseteq Pools
    BY <1>1, DaemonAssumption DEF Init, Configuration
  <2>2. faults \in 0..MaxFaults /\ left \in Nat \cup {Unlimited}
    BY <1>1, DaemonAssumption DEF Init
  <2>3. row \in [Runners -> Row] /\ phase \in Phase
    BY <1>1 DEF Init, Row, Phase
  <2>4. job \in [Runners -> [by : Passes \cup {"nobody"}, created : BOOLEAN]]
    BY <1>1 DEF Init, NoJob
  <2>5. note \in [Passes -> [Runners -> Listing \cup Reading]]
    BY <1>1 DEF Init, NoNote, Reading
  <2>6. QED
    BY <1>1, <2>1, <2>2, <2>3, <2>4, <2>5 DEF Init, TypeOK, Spared
<1>2. Init => JobsAreOwned /\ ContainersAreAccounted
  BY DEF Init, JobsAreOwned, ContainersAreAccounted
<1>3. Init => PassesAreOver /\ PassesNest /\ ListIsComplete /\ FleetGoesWithDaemon
  BY DEF Init, PassesAreOver, PassesNest, IsOver, Alive, Passes, NoJob, ListIsComplete,
         FleetGoesWithDaemon
<1>4. QED
  BY <1>1, <1>2, <1>3 DEF DaemonInv

(* A provisioning is nobody's, or one of a pass.                           *)
LEMMA JobIsTyped ==
  ASSUME TypeOK, NEW r \in Runners
  PROVE  /\ job[r] = [by |-> job[r].by, created |-> job[r].created]
         /\ job[r].by \in Passes \cup {"nobody"}
         /\ job[r].created \in BOOLEAN
BY DEF TypeOK

(* Cutting passes short keeps the types.                                   *)
LEMMA CutShortIsTyped ==
  ASSUME TypeOK, NEW T \in SUBSET Passes, CutShort(T)
  PROVE  /\ ctr' \in [Runners -> {"none", "running", "exited"}]
         /\ job' \in [Runners -> [by : Passes \cup {"nobody"}, created : BOOLEAN]]
         /\ astray' \subseteq Runners
         /\ stage' \in [Passes -> {"off", "observing", "launching"}]
         /\ batch' \in [Passes -> SUBSET Runners]
         /\ scope' \in [Passes -> SUBSET Pools]
         /\ note' \in [Passes -> [Runners -> Listing \cup Reading]]
<1>1. NoNote \in [Runners -> Listing \cup Reading]
  BY DEF NoNote, Reading
<1>2. note' \in [Passes -> [Runners -> Listing \cup Reading]]
  BY <1>1 DEF TypeOK, CutShort
<1>3. QED
  BY <1>2 DEF TypeOK, CutShort, NoJob

(* What a pass lists and reads is a note.                                  *)
LEMMA NotesAreTyped ==
  ASSUME TypeOK, NEW t \in Passes
  PROVE  /\ \A P : Starts(t, P) => note' \in [Passes -> [Runners -> Listing \cup Reading]]
         /\ \A q \in Pools : Read(t, q) => note' \in [Passes -> [Runners -> Listing \cup Reading]]
         /\ Launch(t) => note' \in [Passes -> [Runners -> Listing \cup Reading]]
         /\ \A r \in Runners : Observe(t, r) => note' \in [Passes -> [Runners -> Listing \cup Reading]]
<1>1. NoNote \in [Runners -> Listing \cup Reading]
  BY DEF NoNote, Reading
<1>2. ASSUME NEW w \in Row, NEW c \in Listing
      PROVE  ReadAs(w, c) \in Reading
  BY <1>2 DEF ReadAs, Row, Listing, Reading
<1>3. ASSUME NEW P, Starts(t, P)
      PROVE  note' \in [Passes -> [Runners -> Listing \cup Reading]]
  <2>1. [r \in Runners |-> IF PoolOf[r] \in P THEN ctr[r] ELSE "out"]
          \in [Runners -> Listing \cup Reading]
    BY DEF TypeOK, Listing, Reading
  <2>2. QED
    BY <1>3, <2>1 DEF Starts, TypeOK
<1>4. ASSUME NEW q \in Pools, Read(t, q)
      PROVE  note' \in [Passes -> [Runners -> Listing \cup Reading]]
  <2> DEFINE unread == {r \in Runners : PoolOf[r] = q /\ note[t][r] \in Listing}
  <2> DEFINE mine == [r \in Runners |->
                        IF r \in unread THEN ReadAs(row[r], note[t][r]) ELSE note[t][r]]
  <2>1. \A r \in Runners : row[r] \in Row /\ note[t][r] \in Listing \cup Reading
    BY DEF TypeOK
  <2>2. \A r \in unread : ReadAs(row[r], note[t][r]) \in Reading
    BY <1>2, <2>1
  <2>3. mine \in [Runners -> Listing \cup Reading]
    BY <2>1, <2>2
  <2>4. note' = [note EXCEPT ![t] = mine]
    BY <1>4 DEF Read
  <2> HIDE DEF mine
  <2>5. QED
    BY <2>3, <2>4 DEF TypeOK
<1>5. ASSUME NEW r \in Runners, Observe(t, r)
      PROVE  note' \in [Passes -> [Runners -> Listing \cup Reading]]
  <2>1. PICK n \in Reading : note' = [note EXCEPT ![t][r] = n]
    <3>1. CASE SaveBack(t, r)
      <4>1. (IF note[t][r] = "up" THEN "kept" ELSE "out") \in Reading
        BY DEF Reading
      <4>2. QED
        BY <3>1, <4>1 DEF SaveBack, Save
    <3>2. CASE TakeDown(t, r) \/ Adopt(t, r) \/ AdoptSpent(t, r)
      BY <3>2 DEF TakeDown, Adopt, AdoptSpent, Save, Reading
    <3>3. QED
      BY <1>5, <3>1, <3>2 DEF Observe
  <2>2. QED
    BY <2>1 DEF TypeOK
<1>6. QED
  BY <1>1, <1>3, <1>4, <1>5 DEF Launch, TypeOK

(* Every step of the daemon, of the fleet and of the API keeps the types.  *)
LEMMA TypeIsKept ==
  ASSUME TypeOK, Next
  PROVE  TypeOK'
<1> USE DEF TypeOK, fleet, loop, passes
<1>1. CASE NextRound
  <2>1. "loop" \in Passes /\ config' \subseteq Pools
    BY <1>1, DaemonAssumption DEF NextRound, Reload, Configuration, Passes
  <2>2. note' \in [Passes -> [Runners -> Listing \cup Reading]]
    BY <1>1, <2>1, NotesAreTyped DEF NextRound
  <2>3. QED
    BY <1>1, <2>1, <2>2, DaemonAssumption DEF NextRound, Reload, Starts, Phase
<1>2. CASE TickEnds
  BY <1>2 DEF TickEnds, Ends, Phase, Passes
<1>3. CASE Reclaim
  BY <1>3 DEF Reclaim, Phase, Unlimited
<1>4. CASE ReclaimRaises \/ ReloadRaises \/ Kill
  <2>1. LoopEnds /\ (Fails \/ Works)
    BY <1>4 DEF ReclaimRaises, ReloadRaises, Kill, Dies
  <2>2. CutShort(Passes)
    BY <2>1 DEF LoopEnds
  <2>3. left' = 0 /\ stopping' = FALSE /\ reloading' = FALSE /\ signalled' = FALSE
        /\ config' = {} /\ phase' = "died" /\ doomed' = Spared
        /\ UNCHANGED <<row, overwritten, file>>
    BY <2>1 DEF LoopEnds, Forgotten
  <2>4. faults' \in 0..MaxFaults
    BY <2>1, DaemonAssumption DEF Fails, Works
  <2>5. QED
    BY <2>2, <2>3, <2>4, CutShortIsTyped DEF Phase, Spared
<1>5. CASE Wake \/ StopLoop
  BY <1>5 DEF Wake, StopLoop, Phase, Live
<1>6. CASE Finish
  <2>1. CutShort({"api"})
    BY <1>6 DEF Finish
  <2>2. QED
    BY <1>6, <2>1, CutShortIsTyped DEF Finish, Forgotten, Phase, Passes
<1>7. ASSUME NEW r \in Runners, RetireOne(r)
      PROVE  TypeOK'
  <2>1. row' \in [Runners -> Row] /\ ctr' \in [Runners -> {"none", "running", "exited"}]
    BY <1>7 DEF RetireOne, Row
  <2>2. faults' \in 0..MaxFaults
    BY <1>7, DaemonAssumption DEF RetireOne, Works, Fails
  <2>3. doomed' \in [Runners -> {"none", "registered", "up"}] /\ astray' \subseteq Runners
    BY <1>7 DEF RetireOne
  <2>4. QED
    BY <1>7, <2>1, <2>2, <2>3 DEF RetireOne
<1>8. ASSUME NEW t \in Passes, InPass(t)
      PROVE  TypeOK'
  <2>1. CASE Launch(t)
    <3>1. note' \in [Passes -> [Runners -> Listing \cup Reading]]
      BY <2>1, NotesAreTyped
    <3>2. batch' \in [Passes -> SUBSET Runners] /\ stage' \in [Passes -> {"off", "observing", "launching"}]
      BY <2>1 DEF Launch, Unused
    <3>3. QED
      BY <1>8, <2>1, <3>1, <3>2 DEF InPass, Launch
  <2>2. ASSUME NEW r \in Runners, Observe(t, r)
        PROVE  TypeOK'
    <3>1. faults' \in 0..MaxFaults
      BY <2>2, DaemonAssumption DEF Observe, SaveBack, TakeDown, Adopt, AdoptSpent, Works, Fails
    <3>2. /\ row' \in [Runners -> Row]
          /\ ctr' \in [Runners -> {"none", "running", "exited"}]
          /\ astray' \subseteq Runners
          /\ overwritten' \subseteq Runners
      <4>1. CASE SaveBack(t, r)
        <5>1. note[t][r] \in Row /\ row' = [row EXCEPT ![r] = note[t][r]]
          BY <4>1 DEF SaveBack, Save, Row
        <5>2. QED
          BY <4>1, <5>1 DEF SaveBack, Save
      <4>2. CASE TakeDown(t, r)
        BY <4>2 DEF TakeDown, Save, Row
      <4>3. CASE Adopt(t, r) \/ AdoptSpent(t, r)
        BY <4>3 DEF Adopt, AdoptSpent, Save, Row
      <4>4. QED
        BY <2>2, <4>1, <4>2, <4>3 DEF Observe
    <3>3. UNCHANGED <<stage, scope, batch, job>>
      BY <2>2 DEF Observe, SaveBack, TakeDown, Adopt, AdoptSpent, Save
    <3>4. note' \in [Passes -> [Runners -> Listing \cup Reading]]
      BY <2>2, NotesAreTyped
    <3>5. QED
      BY <1>8, <3>1, <3>2, <3>3, <3>4 DEF InPass
  <2>3. ASSUME NEW r \in Runners, Register(t, r)
        PROVE  TypeOK'
    <3>1. row' \in [Runners -> Row] /\ astray' \subseteq Runners
      <4>1. row' = row \/ row' = [row EXCEPT ![r] = "registered"]
        BY <2>3 DEF Register
      <4>2. astray' = astray \/ astray' = astray \cup {r}
        BY <2>3 DEF Register
      <4>3. QED
        BY <4>1, <4>2 DEF Row
    <3>2. job' \in [Runners -> [by : Passes \cup {"nobody"}, created : BOOLEAN]]
      <4>1. [by |-> t, created |-> FALSE] \in [by : Passes \cup {"nobody"}, created : BOOLEAN]
        BY <1>8
      <4>2. QED
        BY <2>3, <4>1 DEF Register
    <3>3. batch' \in [Passes -> SUBSET Runners]
      BY <1>8, <2>3 DEF Register
    <3>4. QED
      BY <1>8, <2>3, <3>1, <3>2, <3>3 DEF InPass, Register
  <2>4. ASSUME NEW r \in Runners, Create(t, r)
        PROVE  TypeOK'
    <3>1. faults' \in 0..MaxFaults
      BY <2>4, DaemonAssumption DEF Create, Works, Fails
    <3>2. row' \in [Runners -> Row]
      BY <2>4 DEF Create, Row
    <3>3. ctr' \in [Runners -> {"none", "running", "exited"}] /\ astray' \subseteq Runners
      BY <2>4 DEF Create
    <3>4. [by |-> t, created |-> TRUE] \in [by : Passes \cup {"nobody"}, created : BOOLEAN]
      BY <1>8
    <3>5. NoJob \in [by : Passes \cup {"nobody"}, created : BOOLEAN]
      BY DEF NoJob
    <3>6. job' \in [Runners -> [by : Passes \cup {"nobody"}, created : BOOLEAN]]
      BY <2>4, <3>4, <3>5, ZenonT(20) DEF Create
    <3>7. QED
      BY <1>8, <2>4, <3>1, <3>2, <3>3, <3>6 DEF InPass, Create
  <2>5. ASSUME NEW r \in Runners, SaveStarting(t, r)
        PROVE  TypeOK'
    BY <1>8, <2>5 DEF InPass, SaveStarting, Row, NoJob
  <2>6. ASSUME NEW q \in Pools, Read(t, q)
        PROVE  TypeOK'
    BY <1>8, <2>6, NotesAreTyped DEF InPass, Read
  <2>7. QED
    BY <1>8, <2>1, <2>2, <2>3, <2>4, <2>5, <2>6 DEF InPass, Provision
<1>9. CASE Reconcile \/ Reconciled
  <2>1. "api" \in Passes
    BY DEF Passes
  <2>2. QED
    BY <1>9, <2>1, NotesAreTyped DEF Reconcile, Reconciled, Starts, Ends
<1>10. CASE Edit \/ Terminate \/ HangUp
  BY <1>10, DaemonAssumption DEF Edit, Terminate, HangUp
<1>11. CASE Restart
  BY <1>11, DaemonAssumption DEF Restart, Configuration, FileStatus, Phase
<1>12. ASSUME NEW r \in Runners, Exit(r) \/ Forget(r)
       PROVE  TypeOK'
  BY <1>12 DEF Exit, Forget, Row
<1>13. QED
  BY <1>1, <1>2, <1>3, <1>4, <1>5, <1>6, <1>7, <1>8, <1>9, <1>10, <1>11, <1>12 DEF Next, Loop

(* Only who provisions is somebody, whatever happens.                      *)
LEMMA JobsStayOwned ==
  ASSUME DaemonInv, Next
  PROVE  JobsAreOwned'
<1> USE DEF DaemonInv, TypeOK, JobsAreOwned, fleet, passes
<1>1. ASSUME NEW T \in SUBSET Passes, CutShort(T)
      PROVE  JobsAreOwned'
  BY <1>1 DEF CutShort, NoJob
<1>2. CASE Finish
  BY <1>1, <1>2 DEF Finish, Passes
<1>3. CASE ReclaimRaises \/ ReloadRaises \/ Kill
  BY <1>1, <1>3 DEF ReclaimRaises, ReloadRaises, Kill, Dies, LoopEnds
<1>4. ASSUME NEW t \in Passes, InPass(t)
      PROVE  JobsAreOwned'
  <2>1. CASE UNCHANGED job
    BY <2>1
  <2>2. ASSUME NEW r \in Runners, Provision(t, r)
        PROVE  JobsAreOwned'
    <3>1. CASE Register(t, r)
      BY <1>4, <3>1 DEF Register, Passes
    <3>2. CASE Create(t, r)
      <4>1. job'[r] = NoJob \/ job'[r].by = t
        BY <3>2 DEF Create
      <4>2. \A q \in Runners \ {r} : job'[q] = job[q]
        BY <3>2 DEF Create
      <4>3. t # "nobody"
        BY <1>4 DEF Passes
      <4>4. QED
        BY <4>1, <4>2, <4>3
    <3>3. CASE SaveStarting(t, r)
      BY <3>3 DEF SaveStarting, NoJob
    <3>4. QED
      BY <2>2, <3>1, <3>2, <3>3 DEF Provision
  <2>3. QED
    BY <1>4, <2>1, <2>2 DEF InPass, Launch, Read, Observe, SaveBack, TakeDown, Adopt, AdoptSpent
<1>5. CASE UNCHANGED job
  BY <1>5
<1>6. QED
  BY <1>2, <1>3, <1>4, <1>5
     DEF Next, Loop, NextRound, Starts, TickEnds, Ends, Reclaim, Wake, StopLoop, RetireOne,
         Reconcile, Reconciled, Edit, Terminate, HangUp, Restart, Exit, Forget

(* What no row leads to and nobody has in hand went astray.                *)
LEMMA ContainersStayAccounted ==
  ASSUME DaemonInv, Next
  PROVE  ContainersAreAccounted'
<1> USE DEF DaemonInv, TypeOK, ContainersAreAccounted, fleet, passes
<1>1. ASSUME NEW T \in SUBSET Passes, CutShort(T), UNCHANGED <<row, overwritten>>
      PROVE  ContainersAreAccounted'
  BY <1>1 DEF CutShort
<1>2. CASE Finish
  BY <1>1, <1>2 DEF Finish, Passes
<1>3. CASE ReclaimRaises \/ ReloadRaises \/ Kill
  BY <1>1, <1>3 DEF ReclaimRaises, ReloadRaises, Kill, Dies, LoopEnds
<1>4. ASSUME NEW t \in Passes, InPass(t)
      PROVE  ContainersAreAccounted'
  <2>1. CASE Launch(t) \/ \E q \in Pools : Read(t, q)
    BY <2>1 DEF Launch, Read
  <2>2. ASSUME NEW r \in Runners, Observe(t, r)
        PROVE  ContainersAreAccounted'
    <3>1. CASE SaveBack(t, r)
      BY <3>1 DEF SaveBack, Save, IsStale, Says, Claimed, Live
    <3>2. CASE TakeDown(t, r)
      BY <3>2 DEF TakeDown, Save, IsStale, Says, Claimed, Live
    <3>3. CASE Adopt(t, r)
      BY <3>3 DEF Adopt
    <3>4. CASE AdoptSpent(t, r)
      BY <3>4 DEF AdoptSpent, Save, IsStale, Says, Claimed, Live
    <3>5. QED
      BY <2>2, <3>1, <3>2, <3>3, <3>4 DEF Observe
  <2>3. ASSUME NEW r \in Runners, Provision(t, r)
        PROVE  ContainersAreAccounted'
    BY <2>3 DEF Provision, Register, Create, SaveStarting, Unused, NoJob
  <2>4. QED
    BY <1>4, <2>1, <2>2, <2>3 DEF InPass
<1>5. CASE StopLoop
  BY <1>5 DEF StopLoop
<1>6. ASSUME NEW r \in Runners, RetireOne(r)
      PROVE  ContainersAreAccounted'
  <2>1. doomed[r] = "up" \/ doomed[r] = "registered"
    BY <1>6 DEF RetireOne
  <2>2. CASE doomed[r] = "up"
    BY <1>6, <2>2 DEF RetireOne
  <2>3. CASE doomed[r] = "registered"
    BY <1>6, <2>3 DEF RetireOne, ListIsComplete
  <2>4. QED
    BY <2>1, <2>2, <2>3
<1>7. ASSUME NEW r \in Runners, Exit(r) \/ Forget(r)
      PROVE  ContainersAreAccounted'
  BY <1>7 DEF Exit, Forget
<1>8. CASE UNCHANGED <<row, ctr, job, astray, overwritten>>
  BY <1>8
<1>9. QED
  BY <1>2, <1>3, <1>4, <1>5, <1>6, <1>7, <1>8
     DEF Next, Loop, NextRound, Starts, TickEnds, Ends, Reclaim, Wake,
         Reconcile, Reconciled, Edit, Terminate, HangUp, Restart

(* Who takes a step of a pass has one.                                     *)
LEMMA PassesBusy ==
  ASSUME DaemonInv, NEW t \in Passes, InPass(t)
  PROVE  ~IsOver(t)
<1> USE DEF DaemonInv, TypeOK, PassesNest, IsOver
<1>1. CASE Launch(t) \/ \E q \in Pools : Read(t, q)
  BY <1>1 DEF Launch, Read
<1>2. ASSUME NEW r \in Runners, Observe(t, r)
      PROVE  ~IsOver(t)
  <2>1. note[t][r] # "out"
    BY <1>2 DEF Observe, SaveBack, TakeDown, Adopt, AdoptSpent
  <2>2. QED
    BY <2>1 DEF NoNote
<1>3. ASSUME NEW r \in Runners, Provision(t, r)
      PROVE  ~IsOver(t)
  BY <1>3 DEF Provision, Register, Create, SaveStarting
<1>4. QED
  BY <1>1, <1>2, <1>3 DEF InPass

(* A pass reads, then acts on its readings, then launches.                 *)
LEMMA PassesStayNested ==
  ASSUME DaemonInv, Next
  PROVE  PassesNest'
<1> USE DEF DaemonInv, TypeOK, PassesNest
<1>1. ASSUME NEW T \in SUBSET Passes, CutShort(T)
      PROVE  PassesNest'
  BY <1>1 DEF CutShort, NoJob, Passes
<1>2. CASE Finish
  BY <1>1, <1>2 DEF Finish, Passes
<1>3. CASE ReclaimRaises \/ ReloadRaises \/ Kill
  BY <1>1, <1>3 DEF ReclaimRaises, ReloadRaises, Kill, Dies, LoopEnds
<1>4. ASSUME NEW t \in Passes, NEW P, Starts(t, P), IsOver(t)
      PROVE  PassesNest'
  BY <1>4 DEF Starts, IsOver
<1>5. ASSUME NEW t \in Passes, Ends(t)
      PROVE  PassesNest'
  BY <1>5 DEF Ends
<1>6. CASE NextRound \/ TickEnds
  <2>1. "loop" \in Passes /\ (NextRound => IsOver("loop"))
    BY DEF NextRound, PassesAreOver, Passes
  <2>2. QED
    BY <1>4, <1>5, <1>6, <2>1 DEF NextRound, TickEnds
<1>7. CASE Reconcile \/ Reconciled
  <2>1. "api" \in Passes /\ (Reconcile => IsOver("api"))
    BY DEF Reconcile, IsOver, Passes
  <2>2. QED
    BY <1>4, <1>5, <1>7, <2>1 DEF Reconcile, Reconciled
<1>8. ASSUME NEW t \in Passes, InPass(t)
      PROVE  PassesNest'
  <2>1. CASE Launch(t) \/ \E q \in Pools : Read(t, q)
    BY <1>8, <2>1 DEF Launch, Read
  <2>2. ASSUME NEW r \in Runners, Observe(t, r)
        PROVE  PassesNest'
    <3>1. stage[t] = "observing"
      <4>1. note[t][r] # "out"
        BY <2>2 DEF Observe, SaveBack, TakeDown, Adopt, AdoptSpent
      <4>2. QED
        BY <4>1 DEF NoNote
    <3>2. UNCHANGED <<stage, batch, job>> /\ \A u \in Passes \ {t} : note'[u] = note[u]
      BY <2>2 DEF Observe, SaveBack, TakeDown, Adopt, AdoptSpent, Save
    <3>3. QED
      BY <3>1, <3>2
  <2>3. ASSUME NEW r \in Runners, Provision(t, r)
        PROVE  PassesNest'
    <3>1. stage[t] = "launching" /\ UNCHANGED <<stage, note>>
      BY <2>3 DEF Provision, Register, Create, SaveStarting
    <3>2. \A u \in Passes \ {t} : batch'[u] = batch[u]
      BY <2>3 DEF Provision, Register, Create, SaveStarting
    <3>3. \A u \in Passes \ {t}, q \in Runners : job'[q] = job[q] \/ job'[q].by # u
      BY <1>8, <2>3 DEF Provision, Register, Create, SaveStarting, NoJob, Passes
    <3>4. SUFFICES ASSUME NEW u \in Passes
                   PROVE  /\ stage'[u] # "observing" => note'[u] = NoNote
                          /\ stage'[u] # "launching" =>
                               batch'[u] = {} /\ \A q \in Runners : job'[q].by # u
      OBVIOUS
    <3>5. CASE u = t
      BY <3>1, <3>5
    <3>6. CASE u # t
      BY <3>1, <3>2, <3>3, <3>6
    <3>7. QED
      BY <3>5, <3>6
  <2>4. QED
    BY <1>8, <2>1, <2>2, <2>3 DEF InPass
<1>9. CASE UNCHANGED passes
  BY <1>9 DEF passes
<1>10. QED
  BY <1>2, <1>3, <1>6, <1>7, <1>8, <1>9
     DEF Next, Loop, Reclaim, Wake, StopLoop, RetireOne, Edit, Terminate, HangUp, Restart,
         Exit, Forget, fleet

(* Nobody has a pass without the loop, nor the loop outside a tick.        *)
LEMMA PassesStayOver ==
  ASSUME DaemonInv, Next
  PROVE  PassesAreOver'
<1> USE DEF DaemonInv, TypeOK, PassesAreOver, IsOver, Passes
<1>1. CASE NextRound
  BY <1>1 DEF NextRound, Starts, Alive
<1>2. CASE TickEnds
  BY <1>2 DEF TickEnds, Ends, Alive
<1>3. CASE Reclaim \/ Wake \/ StopLoop
  BY <1>3 DEF Reclaim, Wake, StopLoop, Alive, fleet, passes
<1>4. CASE ReclaimRaises \/ ReloadRaises \/ Kill
  BY <1>4, SMTT(20) DEF ReclaimRaises, ReloadRaises, Kill, Dies, LoopEnds, CutShort, NoJob, Alive
<1>5. CASE Finish
  BY <1>5 DEF Finish, CutShort, NoJob
<1>6. ASSUME NEW r \in Runners, RetireOne(r)
      PROVE  PassesAreOver'
  BY <1>6 DEF RetireOne, Alive, passes
<1>7. ASSUME NEW t \in Passes, InPass(t)
      PROVE  PassesAreOver'
  <2>1. UNCHANGED phase
    BY <1>7 DEF InPass, loop
  <2>2. ~IsOver(t)
    BY <1>7, PassesBusy
  <2>3. ASSUME NEW u \in Passes, u # t, IsOver(u)
        PROVE  IsOver(u)'
    <3>1. CASE Launch(t) \/ \E q \in Pools : Read(t, q)
      BY <2>3, <3>1 DEF Launch, Read
    <3>2. ASSUME NEW r \in Runners, Observe(t, r)
          PROVE  IsOver(u)'
      BY <2>3, <3>2 DEF Observe, SaveBack, TakeDown, Adopt, AdoptSpent, Save
    <3>3. ASSUME NEW r \in Runners, Provision(t, r)
          PROVE  IsOver(u)'
      <4>1. CASE Register(t, r)
        BY <1>7, <2>3, <4>1 DEF Register
      <4>2. CASE Create(t, r)
        BY <1>7, <2>3, <4>2 DEF Create, NoJob
      <4>3. CASE SaveStarting(t, r)
        BY <1>7, <2>3, <4>3 DEF SaveStarting, NoJob
      <4>4. QED
        BY <3>3, <4>1, <4>2, <4>3 DEF Provision
    <3>4. QED
      BY <1>7, <3>1, <3>2, <3>3 DEF InPass
  <2>4. QED
    BY <2>1, <2>2, <2>3 DEF Alive
<1>8. CASE Reconcile
  BY <1>8 DEF Reconcile, Starts, Alive, loop
<1>9. CASE Reconciled
  BY <1>9 DEF Reconciled, Ends, Alive, loop
<1>10. CASE Edit \/ Terminate \/ HangUp \/ Restart
  BY <1>10 DEF Edit, Terminate, HangUp, Restart, fleet, passes, loop, Alive
<1>11. ASSUME NEW r \in Runners, Exit(r) \/ Forget(r)
       PROVE  PassesAreOver'
  BY <1>11 DEF Exit, Forget, passes, loop, Alive
<1>12. QED
  BY <1>1, <1>2, <1>3, <1>4, <1>5, <1>6, <1>7, <1>8, <1>9, <1>10, <1>11 DEF Next, Loop

(* The list was complete when it was read, and what comes up after that is *)
(* in the hand of the API.                                                 *)
LEMMA ListStaysComplete ==
  ASSUME DaemonInv, Next
  PROVE  ListIsComplete'
<1> USE DEF DaemonInv, TypeOK, ListIsComplete, HasCredential
<1>1. CASE StopLoop
  BY <1>1 DEF StopLoop, ContainersAreAccounted, Live, passes
<1>2. ASSUME NEW r \in Runners, RetireOne(r)
      PROVE  ListIsComplete'
  BY <1>2 DEF RetireOne, passes
<1>3. ASSUME NEW t \in Passes, InPass(t)
      PROVE  ListIsComplete'
  <2>1. UNCHANGED <<phase, doomed, config>>
    BY <1>3 DEF InPass, loop
  <2>2. CASE Launch(t) \/ \E q \in Pools : Read(t, q)
    BY <2>1, <2>2 DEF Launch, Read
  <2>3. ASSUME NEW r \in Runners, Observe(t, r)
        PROVE  ListIsComplete'
    <3>1. CASE Adopt(t, r)
      BY <2>1, <3>1 DEF Adopt
    <3>2. CASE SaveBack(t, r) \/ TakeDown(t, r) \/ AdoptSpent(t, r)
      <4>1. overwritten \subseteq overwritten' /\ astray \subseteq astray' /\ UNCHANGED job
        BY <3>2 DEF SaveBack, TakeDown, AdoptSpent, Save
      <4>2. \A q \in Runners : ctr'[q] # "none" => ctr[q] # "none"
        BY <3>2 DEF SaveBack, TakeDown, AdoptSpent
      <4>3. QED
        BY <2>1, <4>1, <4>2
    <3>3. QED
      BY <2>3, <3>1, <3>2 DEF Observe
  <2>4. ASSUME NEW r \in Runners, Provision(t, r)
        PROVE  ListIsComplete'
    <3>1. CASE Register(t, r)
      BY <1>3, <2>1, <3>1 DEF Register
    <3>2. CASE Create(t, r)
      <4>1. astray \subseteq astray' /\ (job[r] # NoJob)
        BY <1>3, <3>2 DEF Create, NoJob, Passes
      <4>2. \A q \in Runners \ {r} : UNCHANGED <<job[q], ctr[q]>>
        BY <3>2 DEF Create
      <4>3. phase = "retiring" => r \in astray
        BY <4>1
      <4>4. UNCHANGED overwritten
        BY <3>2 DEF Create
      <4>5. ASSUME phase = "retiring", NEW q \in Runners
            PROVE  /\ job'[q] # NoJob => q \in astray'
                   /\ ctr'[q] # "none" => \/ doomed[q] = "up"
                                          \/ q \in astray' \cup overwritten
                                          \/ ~HasCredential(q)
        <5>1. CASE q = r
          BY <4>1, <4>3, <4>5, <5>1
        <5>2. CASE q # r
          BY <4>1, <4>2, <4>5, <5>2
        <5>3. QED
          BY <5>1, <5>2
      <4>6. QED
        BY <2>1, <4>4, <4>5
    <3>3. CASE SaveStarting(t, r)
      BY <2>1, <3>3 DEF SaveStarting, NoJob
    <3>4. QED
      BY <2>4, <3>1, <3>2, <3>3 DEF Provision
  <2>5. QED
    BY <1>3, <2>2, <2>3, <2>4 DEF InPass
<1>4. ASSUME NEW r \in Runners, Exit(r) \/ Forget(r)
      PROVE  ListIsComplete'
  BY <1>4 DEF Exit, Forget, passes, loop
<1>5. CASE Reconcile \/ Reconciled
  BY <1>5 DEF Reconcile, Reconciled, Starts, Ends, loop
<1>6. CASE Edit \/ Terminate \/ HangUp
  BY <1>6 DEF Edit, Terminate, HangUp, fleet, passes, loop
<1>7. CASE phase' # "retiring"
  BY <1>7
<1>8. QED
  BY <1>1, <1>2, <1>3, <1>4, <1>5, <1>6, <1>7
     DEF Next, Loop, NextRound, TickEnds, Reclaim, ReclaimRaises, ReloadRaises, Kill, Dies,
         LoopEnds, Wake, Finish, Restart

(* Once everybody on the list is retired, what is left is what the list    *)
(* could not lead to; and a daemon that has stopped does nothing more.     *)
LEMMA FleetStaysDown ==
  ASSUME DaemonInv, Next
  PROVE  FleetGoesWithDaemon'
<1> USE DEF DaemonInv, TypeOK, FleetGoesWithDaemon, HasCredential
<1>1. CASE Finish
  BY <1>1 DEF Finish, CutShort, ListIsComplete, Spared
<1>2. ASSUME NEW r \in Runners, Exit(r) \/ Forget(r)
      PROVE  FleetGoesWithDaemon'
  BY <1>2 DEF Exit, Forget, loop
<1>3. CASE Edit
  BY <1>3 DEF Edit, fleet, loop
<1>4. ASSUME NEW t \in Passes, InPass(t)
      PROVE  FleetGoesWithDaemon'
  <2>1. phase' = "stopped" => IsOver(t)
    BY <1>4 DEF InPass, loop, PassesAreOver, Alive, Passes
  <2>2. ~IsOver(t)
    BY <1>4, PassesBusy
  <2>3. QED
    BY <2>1, <2>2
<1>5. CASE Reconciled
  BY <1>5 DEF Reconciled, Ends, loop, PassesAreOver, IsOver, Alive
<1>6. CASE phase' # "stopped"
  BY <1>6
<1>7. ASSUME NEW r \in Runners, RetireOne(r)
      PROVE  phase' # "stopped"
  BY <1>7 DEF RetireOne
<1>8. QED
  BY <1>1, <1>2, <1>3, <1>4, <1>5, <1>6, <1>7
     DEF Next, Loop, NextRound, TickEnds, Reclaim, ReclaimRaises, ReloadRaises, Kill, Dies,
         LoopEnds, Wake, StopLoop, Reconcile, Terminate, HangUp, Restart, loop, Alive

(* The invariant holds for good.                                           *)
LEMMA DaemonInvHolds == Spec => []DaemonInv
<1>1. ASSUME DaemonInv, UNCHANGED vars
      PROVE  DaemonInv'
  <2> USE <1>1 DEF vars, fleet, loop, passes
  <2>1. TypeOK'
    BY DEF DaemonInv, TypeOK
  <2>2. JobsAreOwned' /\ ContainersAreAccounted'
    BY DEF DaemonInv, JobsAreOwned, ContainersAreAccounted
  <2>3. PassesAreOver' /\ PassesNest' /\ ListIsComplete' /\ FleetGoesWithDaemon'
    BY DEF DaemonInv, PassesAreOver, PassesNest, IsOver, Alive, ListIsComplete, FleetGoesWithDaemon,
           HasCredential
  <2>4. QED
    BY <2>1, <2>2, <2>3 DEF DaemonInv
<1>2. DaemonInv /\ Next => DaemonInv'
  BY TypeIsKept, JobsStayOwned, ContainersStayAccounted, PassesStayOver, PassesStayNested,
     ListStaysComplete, FleetStaysDown DEF DaemonInv
<1>3. QED
  BY <1>1, <1>2, DaemonStarts, PTL DEF Spec

(* Every reachable state is well typed.                                    *)
THEOREM DaemonIsTyped == Spec => []TypeOK
BY DaemonInvHolds, PTL DEF DaemonInv

(* However often the daemon is killed, reloaded and started again, beside  *)
(* any passes of the API: a container that no live row leads to and no     *)
(* provisioning has in hand is one whose last call failed or was cut short,*)
(* or whose row a pass saved from a reading that another had made old.     *)
THEOREM ContainersAreAlwaysAccounted == Spec => []ContainersAreAccounted
BY DaemonInvHolds, PTL DEF DaemonInv

(* A stopped daemon leaves no container behind but those whose retirement  *)
(* failed, that an API pass had in hand or had overwritten the row of, or  *)
(* whose credential is not found.                                          *)
THEOREM FleetAlwaysGoesWithDaemon == Spec => []FleetGoesWithDaemon
BY DaemonInvHolds, PTL DEF DaemonInv

-----------------------------------------------------------------------------
(* Without the API there is one pass at a time, and its readings are as    *)
(* fresh when it saves them as when it made them.                          *)
ReadingsAreFresh ==
  /\ stage["api"] = "off"
  /\ \A r \in Runners : note["loop"][r] \in Reading \ {"out"} => ~IsStale("loop", r)
  /\ overwritten = {}

LEMMA ReadingsStayFresh ==
  ASSUME ~HasApi, DaemonInv, ReadingsAreFresh, Next
  PROVE  ReadingsAreFresh'
<1> USE DEF DaemonInv, TypeOK, ReadingsAreFresh
<1>0. "loop" \in Passes /\ "api" \in Passes /\ \A t \in Passes : t \in {"loop", "api"}
  BY DEF Passes
<1>1. ASSUME NEW T \in SUBSET Passes, CutShort(T), UNCHANGED <<row, overwritten>>
      PROVE  ReadingsAreFresh'
  BY <1>0, <1>1 DEF CutShort, NoNote, IsStale, Says, Live
<1>2. CASE Finish
  BY <1>1, <1>2 DEF Finish, Passes
<1>3. CASE ReclaimRaises \/ ReloadRaises \/ Kill
  BY <1>1, <1>3 DEF ReclaimRaises, ReloadRaises, Kill, Dies, LoopEnds
<1>4. CASE NextRound
  <2>1. PICK P : Starts("loop", P)
    BY <1>4 DEF NextRound
  <2>2. \A r \in Runners : note'["loop"][r] \in Listing \cup {"out"}
    BY <1>0, <2>1 DEF Starts, Listing
  <2>3. \A n \in Listing \cup {"out"} : n \notin Reading \ {"out"}
    BY DEF Listing, Reading
  <2>4. stage'["api"] = "off" /\ overwritten' = {}
    BY <1>0, <2>1 DEF Starts
  <2>5. QED
    BY <2>2, <2>3, <2>4
<1>5. CASE TickEnds \/ Reclaim \/ Wake \/ StopLoop
  BY <1>0, <1>5 DEF TickEnds, Ends, Reclaim, Wake, StopLoop, fleet, passes, IsStale, Says, Live
<1>6. ASSUME NEW r \in Runners, RetireOne(r)
      PROVE  ReadingsAreFresh'
  <2>1. note["loop"] = NoNote
    BY <1>0, <1>6 DEF RetireOne, PassesAreOver, IsOver, PassesNest
  <2>2. QED
    BY <1>6, <2>1 DEF RetireOne, passes, NoNote
<1>7. ASSUME NEW t \in Passes, InPass(t)
      PROVE  ReadingsAreFresh'
  <2>1. t = "loop"
    BY <1>0, <1>7, PassesBusy DEF IsOver, PassesNest
  <2>2. CASE Launch("loop")
    BY <1>0, <2>2 DEF Launch, NoNote
  <2>3. ASSUME NEW q \in Pools, Read("loop", q)
        PROVE  ReadingsAreFresh'
    <3>1. UNCHANGED <<row, stage, overwritten>>
      BY <2>3 DEF Read
    <3>2. ASSUME NEW r \in Runners, note'["loop"][r] \in Reading \ {"out"}
          PROVE  Says(r) = Claimed(note'["loop"][r])
      <4>1. CASE PoolOf[r] = q /\ note["loop"][r] \in Listing
        <5>1. note'["loop"][r] = ReadAs(row[r], note["loop"][r])
          BY <1>0, <2>3, <4>1 DEF Read
        <5>2. row[r] \in Row
          OBVIOUS
        <5>3. QED
          BY <3>2, <4>1, <5>1, <5>2 DEF ReadAs, Claimed, Says, Live, Row, Listing
      <4>2. CASE ~(PoolOf[r] = q /\ note["loop"][r] \in Listing)
        <5>1. note'["loop"][r] = note["loop"][r]
          BY <1>0, <2>3, <4>2 DEF Read
        <5>2. QED
          BY <3>2, <5>1 DEF IsStale
      <4>3. QED
        BY <4>1, <4>2
    <3>3. QED
      BY <3>1, <3>2 DEF IsStale, Says, Live
  <2>4. ASSUME NEW r \in Runners, Observe("loop", r)
        PROVE  ReadingsAreFresh'
    <3>1. ~IsStale("loop", r) /\ stage' = stage
      BY <2>4 DEF Observe, SaveBack, TakeDown, Adopt, AdoptSpent, Reading
    <3>2. overwritten' = {}
      BY <2>4, <3>1 DEF Observe, SaveBack, TakeDown, Adopt, AdoptSpent, Save
    <3>3. \A q \in Runners \ {r} : row'[q] = row[q] /\ note'["loop"][q] = note["loop"][q]
      BY <1>0, <2>4 DEF Observe, SaveBack, TakeDown, Adopt, AdoptSpent, Save
    <3>4. note'["loop"][r] = "out" \/ ~IsStale("loop", r)'
      <4>1. CASE SaveBack("loop", r) \/ TakeDown("loop", r)
        <5>1. \/ note'["loop"][r] = "out"
              \/ note'["loop"][r] = "kept" /\ row'[r] = "up"
          BY <1>0, <4>1 DEF SaveBack, TakeDown, Save
        <5>2. QED
          BY <5>1 DEF IsStale, Says, Live, Claimed
      <4>2. CASE Adopt("loop", r)
        <5>1. note'["loop"][r] = "up" /\ row'[r] = "up"
          BY <1>0, <4>2 DEF Adopt
        <5>2. QED
          BY <5>1 DEF IsStale, Says, Live, Claimed
      <4>3. CASE AdoptSpent("loop", r)
        <5>1. note'["loop"][r] = "closed" /\ row'[r] = "closed"
          BY <1>0, <4>3 DEF AdoptSpent, Save
        <5>2. QED
          BY <5>1 DEF IsStale, Says, Live, Claimed
      <4>4. QED
        BY <2>4, <4>1, <4>2, <4>3 DEF Observe
    <3>5. QED
      BY <3>1, <3>2, <3>3, <3>4 DEF IsStale, Says, Live
  <2>5. ASSUME NEW r \in Runners, Provision("loop", r)
        PROVE  ReadingsAreFresh'
    <3>1. stage["loop"] = "launching"
      BY <1>0, <2>5 DEF Provision, Register, Create, SaveStarting, PassesNest
    <3>2. note["loop"] = NoNote
      BY <1>0, <3>1 DEF PassesNest
    <3>3. QED
      BY <2>5, <3>2 DEF Provision, Register, Create, SaveStarting, NoNote
  <2>6. QED
    BY <1>7, <2>1, <2>2, <2>3, <2>4, <2>5 DEF InPass
<1>8. CASE Reconcile \/ Reconciled
  BY <1>8 DEF Reconcile, Reconciled, Ends
<1>9. CASE Edit \/ Terminate \/ HangUp \/ Restart
  BY <1>9 DEF Edit, Terminate, HangUp, Restart, fleet, passes, IsStale, Says, Live
<1>10. ASSUME NEW r \in Runners, Exit(r)
       PROVE  ReadingsAreFresh'
  BY <1>10 DEF Exit, passes, IsStale, Says, Live
<1>11. ASSUME NEW r \in Runners, Forget(r)
       PROVE  ReadingsAreFresh'
  <2>1. note["loop"][r] \notin Reading \ {"out"}
    BY <1>0, <1>11 DEF Forget, Reading
  <2>2. \A q \in Runners \ {r} : row'[q] = row[q]
    BY <1>11 DEF Forget
  <2>3. QED
    BY <1>11, <2>1, <2>2 DEF Forget, passes, IsStale, Says, Live
<1>12. QED
  BY <1>2, <1>3, <1>4, <1>5, <1>6, <1>7, <1>8, <1>9, <1>10, <1>11 DEF Next, Loop

(* Without the API the exception is empty: no row is ever saved from a     *)
(* reading that has become old, so ContainersAreAccounted and              *)
(* FleetGoesWithDaemon hold with their other exceptions alone.             *)
THEOREM LonePassOverwritesNothing ==
  ASSUME ~HasApi
  PROVE  Spec => [](overwritten = {})
<1>1. Init => ReadingsAreFresh
  BY DEF Init, ReadingsAreFresh, NoNote, Passes
<1>2. DaemonInv /\ ReadingsAreFresh /\ [Next]_vars => ReadingsAreFresh'
  <2>1. ASSUME ReadingsAreFresh, UNCHANGED vars
        PROVE  ReadingsAreFresh'
    BY <2>1 DEF vars, fleet, passes, ReadingsAreFresh, IsStale, Says, Live
  <2>2. QED
    BY <2>1, ReadingsStayFresh
<1>3. ReadingsAreFresh => overwritten = {}
  BY DEF ReadingsAreFresh
<1>4. QED
  BY <1>1, <1>2, <1>3, DaemonInvHolds, PTL DEF Spec
=============================================================================
