-------------------------- MODULE GitHubPollProofs --------------------------
(***************************************************************************)
(* What the client makes of several requests, for any number of runs, jobs *)
(* and registrations, any page size, and however GitHub moves meanwhile.   *)
(***************************************************************************)
EXTENDS GitHubPoll, SequenceTheorems, TLAPS

RunStatus == {"absent", "queued", "in_progress", "completed"}
JobStatus == {"pending", "queued", "running", "done"}

(* What the client is at, for each of the three operations.                *)
Places ==
  [ jobs    |-> {"idle", "queued", "in_progress", "fetching", "context", "returned", "raised"},
    find    |-> {"idle", "every", "fetching", "returned", "raised"},
    runners |-> {"idle", "paging", "returned", "raised"} ]

PollIsTyped ==
  /\ run \in [Runs -> RunStatus]
  /\ job \in [Jobs -> JobStatus]
  /\ op \in {"jobs", "find", "runners"}
  /\ pc \in Places[op]
  /\ {steady, taken, superseded, begun} \subseteq SUBSET Jobs
  /\ odd \in Nat

(* A run goes along with its jobs: none has come up before it is triggered *)
(* or runs while it is queued, and one that waits or runs keeps it from    *)
(* being completed.                                                        *)
RunsFollowJobs ==
  \A j \in Jobs :
    /\ run[RunOf[j]] = "absent" => job[j] = "pending"
    /\ run[RunOf[j]] = "queued" => job[j] # "running"
    /\ job[j] \in {"queued", "running"} => run[RunOf[j]] # "completed"

(* How far a poll has got with a job that has been queued all along.       *)
SteadyJobsAreFollowed ==
  op = "jobs" => \A j \in steady :
    /\ job[j] = "queued"
    /\ odd = 0 => /\ pc = "in_progress" =>
                       RunOf[j] \in listed \cup cut \/ run[RunOf[j]] = "in_progress"
                  /\ pc \in {"fetching", "context", "returned"} => RunOf[j] \in listed \cup cut
                  /\ RunOf[j] \in fetched /\ j \in Labelled => j \in found
                  /\ pc \in {"context", "returned"} => RunOf[j] \in fetched \cup cut

(* What a poll finds has not been started before it began.                 *)
StartedJobsAreLeft ==
  op = "jobs" => /\ \A j \in begun : job[j] \in {"running", "done"}
                 /\ found \cap begun = {}

(* How far a search has got with the job that was taken before it began.   *)
TakenJobIsFollowed ==
  op = "find" =>
    /\ \A j \in taken \ superseded : job[j] \in {"running", "done"}
    /\ \A j \in steady :
         /\ j \in taken
         /\ odd = 0 /\ j \notin superseded =>
              /\ pc \in {"fetching", "returned"} => RunOf[j] \in listed \cup cut
              /\ RunOf[j] \in fetched => j \in found
              /\ pc = "returned" => RunOf[j] \in fetched \cup cut

(* A draft there is while a poll goes on has been one during the poll.     *)
DraftsAreKnown == (pc # "idle" => draft \subseteq drafted) /\ MarksHaveDrafts

(* Between two operations nothing is left of the last.                     *)
NothingIsLeft ==
  pc = "idle" => /\ listed = {} /\ fetched = {} /\ found = {} /\ marked = {}
                 /\ steady = {} /\ begun = {} /\ cut = {} /\ drafted = {}

PollInv ==
  /\ PollIsTyped /\ RunsFollowJobs /\ SteadyJobsAreFollowed /\ StartedJobsAreLeft
  /\ TakenJobIsFollowed /\ DraftsAreKnown /\ NothingIsLeft

(* What the account of a poll speaks of.                                   *)
pollVars ==
  <<run, job, taken, superseded, draft, op, pc, listed, fetched, found, marked, odd, steady, begun,
    cut, drafted>>

(* GitHub's moves take the runs and the jobs on, and those of a run that   *)
(* is run again to a new attempt, where they are other jobs.               *)
MovesOn ==
  /\ steady' \subseteq steady /\ taken' \subseteq Jobs /\ begun' \subseteq begun
  /\ superseded \subseteq superseded' /\ superseded' \subseteq Jobs
  /\ run' \in [Runs -> RunStatus] /\ job' \in [Jobs -> JobStatus]
  /\ \A j \in Jobs :
       /\ job[j] = "queued" => job'[j] = "queued" \/ (job'[j] = "running" /\ j \notin steady')
       /\ job[j] = "running" => job'[j] \in {"running", "done"}
       /\ job[j] = "done" =>
            job'[j] = "done" \/ (j \notin begun' /\ (j \in taken => j \in superseded'))
       /\ run[RunOf[j]] = "in_progress" => run'[RunOf[j]] \in {"in_progress", "completed"}
  /\ RunsFollowJobs'
  /\ op = "find" => \A j \in taken' : j \in taken \/ job'[j] = "running"
  /\ op = "find" => \A j \in steady' : j \in taken => j \in taken'
  /\ draft' \subseteq draft \/ pc = "idle" \/ draft' \subseteq drafted'
  /\ drafted \subseteq drafted' \/ pc = "idle"
  /\ pc = "idle" /\ drafted = {} => drafted' = {}

(* A run that is triggered had no job that anything came of.               *)
LEMMA TriggersMoveOn ==
  ASSUME PollInv, NEW r \in Runs, Trigger(r)
  PROVE  MovesOn
<1> USE PollAssumption DEF PollInv, PollIsTyped
<1>1. /\ run[r] = "absent" /\ run' = [run EXCEPT ![r] = "queued"]
      /\ job' = [j \in Jobs |-> IF RunOf[j] = r /\ j \in Roots THEN "queued" ELSE job[j]]
      /\ taken' = taken /\ steady' = steady /\ begun' = begun /\ superseded' = superseded
  BY DEF Trigger, JobsOf
<1>2. \A j \in Jobs : RunOf[j] \in Runs /\ (RunOf[j] = r => job[j] = "pending")
  BY <1>1 DEF RunsFollowJobs
<1>3. run' \in [Runs -> RunStatus] /\ job' \in [Jobs -> JobStatus]
  BY <1>1 DEF RunStatus, JobStatus
<1>4. \A j \in Jobs :
        /\ RunOf[j] = r => run'[RunOf[j]] = "queued" /\ job'[j] \in {"pending", "queued"}
        /\ RunOf[j] # r => run'[RunOf[j]] = run[RunOf[j]] /\ job'[j] = job[j]
  BY <1>1, <1>2
<1>5. RunsFollowJobs'
  BY <1>4 DEF RunsFollowJobs
<1>6. \A j \in Jobs :
       /\ job[j] = "queued" => job'[j] = "queued" \/ (job'[j] = "running" /\ j \notin steady')
       /\ job[j] = "running" => job'[j] \in {"running", "done"}
       /\ job[j] = "done" => job'[j] = "done"
       /\ run[RunOf[j]] = "in_progress" => run'[RunOf[j]] \in {"in_progress", "completed"}
  BY <1>1, <1>2, <1>4
<1>7. /\ draft' \subseteq draft \/ pc = "idle" \/ draft' \subseteq drafted'
      /\ drafted \subseteq drafted' \/ pc = "idle"
      /\ pc = "idle" /\ drafted = {} => drafted' = {}
  BY DEF Trigger, Drafts
<1> QED BY <1>1, <1>3, <1>5, <1>6, <1>7 DEF MovesOn

(* A job that starts was queued, so its run goes on or begins to.          *)
LEMMA StartsMoveOn ==
  ASSUME PollInv, NEW i \in Jobs, Start(i)
  PROVE  MovesOn
<1> USE PollAssumption DEF PollInv, PollIsTyped
<1>1. /\ job[i] = "queued" /\ run' = [run EXCEPT ![RunOf[i]] = "in_progress"]
      /\ job' = [job EXCEPT ![i] = "running"]
      /\ taken' = taken \/ (taken = {} /\ taken' = {i})
      /\ steady' = steady \ {i} /\ draft' = draft /\ drafted' = drafted
      /\ begun' = begun /\ superseded' = superseded
  BY DEF Start
<1>2. \A j \in Jobs : RunOf[j] \in Runs
  OBVIOUS
<1>3. run' \in [Runs -> RunStatus] /\ job' \in [Jobs -> JobStatus]
  BY <1>1, <1>2 DEF RunStatus, JobStatus
<1>4. /\ job'[i] = "running"
      /\ \A j \in Jobs \ {i} : job'[j] = job[j]
      /\ \A j \in Jobs : run'[RunOf[j]] = IF RunOf[j] = RunOf[i] THEN "in_progress"
                                                                ELSE run[RunOf[j]]
  BY <1>1, <1>2
<1>5. run[RunOf[i]] \in {"queued", "in_progress"}
  BY <1>1, <1>2 DEF RunsFollowJobs, RunStatus
<1>6. RunsFollowJobs'
  BY <1>4, <1>5 DEF RunsFollowJobs
<1>7. \A j \in Jobs :
       /\ job[j] = "queued" => job'[j] = "queued" \/ (job'[j] = "running" /\ j \notin steady')
       /\ job[j] = "running" => job'[j] \in {"running", "done"}
       /\ job[j] = "done" => job'[j] = "done"
       /\ run[RunOf[j]] = "in_progress" => run'[RunOf[j]] \in {"in_progress", "completed"}
  BY <1>1, <1>4, <1>5
<1> QED BY <1>1, <1>3, <1>4, <1>6, <1>7 DEF MovesOn

(* A job that is unlocked belongs to a run in progress.                    *)
LEMMA UnlocksMoveOn ==
  ASSUME PollInv, NEW i \in Jobs, Unlock(i)
  PROVE  MovesOn
<1> USE PollAssumption DEF PollInv, PollIsTyped
<1>1. /\ job[i] = "pending" /\ run[RunOf[i]] = "in_progress"
      /\ job' = [job EXCEPT ![i] = "queued"] /\ run' = run
      /\ taken' = taken /\ steady' = steady /\ draft' = draft /\ drafted' = drafted
      /\ begun' = begun /\ superseded' = superseded
  BY DEF Unlock, history
<1>2. job' \in [Jobs -> JobStatus]
  BY <1>1 DEF JobStatus
<1>3. job'[i] = "queued" /\ \A j \in Jobs \ {i} : job'[j] = job[j]
  BY <1>1
<1>4. RunsFollowJobs'
  BY <1>1, <1>3 DEF RunsFollowJobs
<1> QED BY <1>1, <1>2, <1>3, <1>4 DEF MovesOn

(* A job that finishes ends its run only if nothing else of it is left.    *)
LEMMA FinishesMoveOn ==
  ASSUME PollInv, NEW i \in Jobs, Finish(i)
  PROVE  MovesOn
<1> USE PollAssumption DEF PollInv, PollIsTyped
<1>1. PICK skipped \in SUBSET {k \in JobsOf(RunOf[i]) : job[k] = "pending"} :
        job' = [k \in Jobs |-> IF k = i \/ k \in skipped THEN "done" ELSE job[k]]
  BY DEF Finish
<1>2. /\ job[i] = "running" /\ taken' = taken /\ steady' = steady /\ draft' = draft
      /\ drafted' = drafted /\ begun' = begun /\ superseded' = superseded
      /\ run' = [run EXCEPT ![RunOf[i]] =
                   IF \A k \in JobsOf(RunOf[i]) : job'[k] = "done" THEN "completed"
                                                                  ELSE run[RunOf[i]]]
  BY DEF Finish, history
<1>3. \A j \in Jobs : RunOf[j] \in Runs
  OBVIOUS
<1>4. run' \in [Runs -> RunStatus] /\ job' \in [Jobs -> JobStatus]
  BY <1>1, <1>2 DEF RunStatus, JobStatus
<1>5. run[RunOf[i]] = "in_progress"
  BY <1>2, <1>3 DEF RunsFollowJobs, RunStatus
<1>6. /\ \A j \in Jobs : RunOf[j] # RunOf[i] => run'[RunOf[j]] = run[RunOf[j]] /\ job'[j] = job[j]
      /\ run'[RunOf[i]] \in {"in_progress", "completed"}
      /\ \A j \in Jobs : RunOf[j] = RunOf[i] /\ run'[RunOf[i]] = "completed" => job'[j] = "done"
  BY <1>1, <1>2, <1>3, <1>5 DEF JobsOf
<1>7. RunsFollowJobs'
  BY <1>6 DEF RunsFollowJobs
<1>8. \A j \in Jobs :
       /\ job[j] = "queued" => job'[j] = "queued" \/ (job'[j] = "running" /\ j \notin steady')
       /\ job[j] = "running" => job'[j] \in {"running", "done"}
       /\ job[j] = "done" => job'[j] = "done"
  BY <1>1, <1>2
<1>9. \A j \in Jobs :
       run[RunOf[j]] = "in_progress" => run'[RunOf[j]] \in {"in_progress", "completed"}
  BY <1>5, <1>6
<1> QED BY <1>2, <1>4, <1>7, <1>8, <1>9 DEF MovesOn

(* A run that is run again was completed: none of its jobs was queued or   *)
(* running, and those of the new attempt are not those taken or begun.     *)
LEMMA RerunsMoveOn ==
  ASSUME PollInv, NEW r \in Runs, Rerun(r)
  PROVE  MovesOn
<1> USE PollAssumption DEF PollInv, PollIsTyped
<1>1. PICK again \in SUBSET JobsOf(r) :
        /\ job' = [j \in Jobs |-> IF j \notin again THEN job[j]
                                  ELSE IF j \in Roots \/ again \cap Roots = {} THEN "queued"
                                  ELSE "pending"]
        /\ superseded' = superseded \cup (again \cap taken)
        /\ begun' = begun \ again
  BY DEF Rerun
<1>2. /\ run[r] = "completed" /\ run' = [run EXCEPT ![r] = "queued"]
      /\ taken' = taken /\ steady' = steady /\ draft' = draft /\ drafted' = drafted
  BY DEF Rerun
<1>3. run' \in [Runs -> RunStatus] /\ job' \in [Jobs -> JobStatus]
  BY <1>1, <1>2 DEF RunStatus, JobStatus
<1>4. \A j \in Jobs :
        /\ RunOf[j] \in Runs
        /\ RunOf[j] = r => job[j] \notin {"queued", "running"} /\ run'[RunOf[j]] = "queued"
        /\ RunOf[j] # r => j \notin again /\ run'[RunOf[j]] = run[RunOf[j]]
        /\ j \notin again => job'[j] = job[j]
        /\ j \in again => job'[j] \in {"queued", "pending"}
  BY <1>1, <1>2 DEF RunsFollowJobs, JobsOf
<1>5. RunsFollowJobs'
  BY <1>4 DEF RunsFollowJobs
<1>6. \A j \in Jobs :
       /\ job[j] = "queued" => job'[j] = "queued" \/ (job'[j] = "running" /\ j \notin steady')
       /\ job[j] = "running" => job'[j] \in {"running", "done"}
       /\ job[j] = "done" =>
            job'[j] = "done" \/ (j \notin begun' /\ (j \in taken => j \in superseded'))
       /\ run[RunOf[j]] = "in_progress" => run'[RunOf[j]] \in {"in_progress", "completed"}
  BY <1>1, <1>2, <1>4
<1> QED BY <1>1, <1>2, <1>3, <1>5, <1>6 DEF MovesOn

(* A draft made while a poll goes on is noted in its history.              *)
LEMMA ReviewsMoveOn ==
  ASSUME PollInv, NEW r \in Runs, Review(r)
  PROVE  MovesOn
<1> USE PollAssumption DEF PollInv, PollIsTyped
<1>1. /\ run' = run /\ job' = job /\ taken' = taken /\ steady' = steady /\ op = "jobs"
      /\ begun' = begun /\ superseded' = superseded
  BY DEF Review
<1>2. RunsFollowJobs'
  BY <1>1 DEF RunsFollowJobs
<1>3. /\ draft' \subseteq draft \/ pc = "idle" \/ draft' \subseteq drafted'
      /\ drafted \subseteq drafted' \/ pc = "idle"
      /\ pc = "idle" /\ drafted = {} => drafted' = {}
  BY DEF Review, Drafts
<1> QED BY <1>1, <1>2, <1>3 DEF MovesOn

(* Whatever moves, the account holds of whatever the client is at.         *)
LEMMA PollInvOutlivesRuns ==
  ASSUME PollInv, GitHubWorks
  PROVE  PollInv'
<1> USE PollAssumption DEF PollInv
<1>1. MovesOn
  BY TriggersMoveOn, StartsMoveOn, UnlocksMoveOn, FinishesMoveOn, RerunsMoveOn, ReviewsMoveOn
  DEF GitHubWorks, RunsMove
<1>2. /\ op' = op /\ pc' = pc /\ listed' = listed /\ fetched' = fetched /\ found' = found
      /\ marked' = marked /\ cut' = cut /\ odd' = odd
      /\ op # "runners" /\ \A j \in Jobs : RunOf[j] \in Runs
  BY DEF GitHubWorks, RunsMove, Trigger, Rerun, Review, Start, Unlock, Finish, Drafts, answer,
         history
<1>3. PollIsTyped'
  BY <1>1, <1>2 DEF PollIsTyped, MovesOn
<1>4. SteadyJobsAreFollowed'
  <2> SUFFICES ASSUME op = "jobs", NEW j \in steady'
               PROVE  /\ job'[j] = "queued"
                      /\ odd = 0 =>
                           /\ pc = "in_progress" =>
                                RunOf[j] \in listed \cup cut \/ run'[RunOf[j]] = "in_progress"
                           /\ pc \in {"fetching", "context", "returned"} =>
                                RunOf[j] \in listed \cup cut
                           /\ RunOf[j] \in fetched /\ j \in Labelled => j \in found
                           /\ pc \in {"context", "returned"} => RunOf[j] \in fetched \cup cut
    BY <1>2 DEF SteadyJobsAreFollowed
  <2>1. j \in steady /\ j \in Jobs /\ job[j] = "queued"
    BY <1>1 DEF MovesOn, SteadyJobsAreFollowed, PollIsTyped
  <2>2. job'[j] = "queued"
    BY <1>1, <2>1 DEF MovesOn
  <2>3. run[RunOf[j]] = "in_progress" => run'[RunOf[j]] = "in_progress"
    BY <1>1, <2>1, <2>2 DEF MovesOn, RunsFollowJobs
  <2> QED BY <2>1, <2>2, <2>3 DEF SteadyJobsAreFollowed
<1>5. StartedJobsAreLeft'
  BY <1>1, <1>2 DEF StartedJobsAreLeft, PollIsTyped, MovesOn
<1>6. TakenJobIsFollowed'
  <2> SUFFICES ASSUME op = "find" PROVE TakenJobIsFollowed'
    BY <1>2 DEF TakenJobIsFollowed
  <2>1. \A j \in taken' \ superseded' : job'[j] \in {"running", "done"}
    BY <1>1, <1>2 DEF TakenJobIsFollowed, PollIsTyped, MovesOn
  <2>2. /\ \A j \in steady' : j \in steady /\ j \in taken'
        /\ \A j : j \notin superseded' => j \notin superseded
    BY <1>1, <1>2 DEF TakenJobIsFollowed, MovesOn
  <2> QED BY <1>2, <2>1, <2>2 DEF TakenJobIsFollowed
<1>7. DraftsAreKnown' /\ NothingIsLeft'
  BY <1>1, <1>2 DEF DraftsAreKnown, MarksHaveDrafts, NothingIsLeft, MovesOn
<1> QED BY <1>1, <1>3, <1>4, <1>5, <1>6, <1>7 DEF MovesOn

(* A poll begins with the jobs that are queued, a search with the job that *)
(* is taken; neither has listed anything.                                  *)
LEMMA PollInvBegins ==
  ASSUME PollInv, NEW kind, NEW at, Begin(kind, at),
         <<kind, at>> \in {<<"jobs", "queued">>, <<"find", "every">>, <<"runners", "paging">>}
  PROVE  PollInv'
<1> USE PollAssumption DEF PollInv
<1>1. /\ pc = "idle" /\ op = kind /\ pc' = at /\ run' = run /\ job' = job /\ taken' = taken
      /\ draft' = draft /\ op' = op /\ listed' = listed /\ fetched' = fetched /\ found' = found
      /\ marked' = marked /\ cut' = cut /\ drafted' = draft /\ superseded' = superseded
      /\ odd' = odd
      /\ steady' = IF kind = "find" THEN taken ELSE {j \in Jobs : job[j] = "queued"}
      /\ begun' = IF kind = "jobs" THEN {j \in Jobs : job[j] \in {"running", "done"}} ELSE {}
  BY DEF Begin, work, answer
<1>2. listed = {} /\ fetched = {} /\ found = {} /\ marked = {}
  BY <1>1 DEF NothingIsLeft
<1>3. PollIsTyped'
  BY <1>1 DEF PollIsTyped, Places
<1>4. RunsFollowJobs'
  BY <1>1 DEF RunsFollowJobs
<1>5. SteadyJobsAreFollowed'
  BY <1>1, <1>2 DEF SteadyJobsAreFollowed
<1>6. StartedJobsAreLeft'
  BY <1>1, <1>2 DEF StartedJobsAreLeft
<1>7. TakenJobIsFollowed'
  BY <1>1, <1>2 DEF TakenJobIsFollowed
<1>8. DraftsAreKnown' /\ NothingIsLeft'
  BY <1>1, <1>2 DEF DraftsAreKnown, MarksHaveDrafts, NothingIsLeft
<1> QED BY <1>3, <1>4, <1>5, <1>6, <1>7, <1>8

(* A listing has every run of the status asked for, or is too long for it: *)
(* with the runs still queued and then those in progress, a run that was   *)
(* one or the other all along is on one of the two.                        *)
LEMMA PollInvListed ==
  ASSUME PollInv, List
  PROVE  PollInv'
<1> USE PollAssumption DEF PollInv
<1>1. PICK rs \in {WithStatus("queued"), WithStatus("in_progress"),
                   {r \in Runs : run[r] # "absent"}} :
        /\ Listing(rs, pc')
        /\ \/ pc = "queued" /\ pc' = "in_progress" /\ rs = WithStatus("queued")
           \/ pc = "in_progress" /\ pc' = "fetching" /\ rs = WithStatus("in_progress")
           \/ pc = "every" /\ pc' = "fetching" /\ rs = {r \in Runs : run[r] # "absent"}
  BY DEF List, Listing
<1>2. /\ run' = run /\ job' = job /\ taken' = taken /\ draft' = draft /\ op' = op
      /\ fetched' = fetched /\ found' = found /\ marked' = marked /\ steady' = steady
      /\ begun' = begun /\ drafted' = drafted /\ superseded' = superseded /\ odd' \in Nat
      /\ odd' = 0 => /\ odd = 0
                     /\ listed' = listed \cup Newest(rs) /\ cut' = cut \cup (rs \ Newest(rs))
  BY <1>1 DEF Listing, Reads, Misreads, work, PollIsTyped
<1>3. odd' = 0 => \A r : r \in listed \cup cut \/ r \in rs => r \in listed' \cup cut'
  BY <1>2
<1>4. PollIsTyped'
  BY <1>1, <1>2 DEF PollIsTyped, Places
<1>5. RunsFollowJobs'
  BY <1>2 DEF RunsFollowJobs
<1>6. SteadyJobsAreFollowed'
  <2> SUFFICES ASSUME op = "jobs", NEW j \in steady
               PROVE  /\ job[j] = "queued"
                      /\ odd' = 0 =>
                           /\ pc' = "in_progress" =>
                                RunOf[j] \in listed' \cup cut' \/ run[RunOf[j]] = "in_progress"
                           /\ pc' = "fetching" => RunOf[j] \in listed' \cup cut'
                           /\ RunOf[j] \in fetched /\ j \in Labelled => j \in found
    BY <1>1, <1>2 DEF SteadyJobsAreFollowed
  <2>1. j \in Jobs /\ RunOf[j] \in Runs /\ job[j] = "queued" /\ pc # "every"
    BY DEF SteadyJobsAreFollowed, PollIsTyped, Places
  <2>2. run[RunOf[j]] \in {"queued", "in_progress"}
    BY <2>1 DEF RunsFollowJobs, PollIsTyped, RunStatus
  <2>3. pc = "queued" /\ run[RunOf[j]] = "queued" => RunOf[j] \in rs
    BY <1>1, <2>1 DEF WithStatus
  <2>4. pc = "in_progress" /\ run[RunOf[j]] = "in_progress" => RunOf[j] \in rs
    BY <1>1, <2>1 DEF WithStatus
  <2> QED BY <1>1, <1>2, <1>3, <2>1, <2>2, <2>3, <2>4 DEF SteadyJobsAreFollowed
<1>7. StartedJobsAreLeft'
  BY <1>2 DEF StartedJobsAreLeft
<1>8. TakenJobIsFollowed'
  <2> SUFFICES ASSUME op = "find", NEW j \in steady, odd' = 0, j \notin superseded
               PROVE  RunOf[j] \in listed' \cup cut'
    BY <1>1, <1>2 DEF TakenJobIsFollowed
  <2>1. j \in Jobs /\ RunOf[j] \in Runs /\ job[j] \in {"running", "done"} /\ pc = "every"
    BY <1>1 DEF TakenJobIsFollowed, PollIsTyped, Places
  <2>2. RunOf[j] \in rs
    BY <1>1, <2>1 DEF RunsFollowJobs
  <2> QED BY <1>3, <2>2
<1>9. DraftsAreKnown' /\ NothingIsLeft'
  BY <1>1, <1>2 DEF DraftsAreKnown, MarksHaveDrafts, NothingIsLeft
<1> QED BY <1>4, <1>5, <1>6, <1>7, <1>8, <1>9

(* The jobs of a run are read as they stand: one that has waited all along *)
(* is kept, and one that had started is not.                               *)
LEMMA PollInvFetched ==
  ASSUME PollInv, NEW r \in Runs, Fetch(r)
  PROVE  PollInv'
<1> USE PollAssumption DEF PollInv
<1>1. /\ run' = run /\ job' = job /\ taken' = taken /\ draft' = draft /\ op' = op
      /\ pc' = pc /\ listed' = listed /\ cut' = cut /\ marked' = marked /\ steady' = steady
      /\ begun' = begun /\ drafted' = drafted
      /\ pc = "fetching" /\ fetched' = fetched \cup {r}
      /\ superseded' = superseded /\ odd' \in Nat
      /\ found \subseteq found' /\ found' \subseteq found \cup JobsOfInterest(r)
      /\ odd' = 0 => odd = 0 /\ found' = found \cup JobsOfInterest(r)
  BY DEF Fetch, Reads, Misreads, work, history, PollIsTyped
<1>2. PollIsTyped'
  BY <1>1 DEF PollIsTyped
<1>3. RunsFollowJobs'
  BY <1>1 DEF RunsFollowJobs
<1>4. SteadyJobsAreFollowed'
  <2> SUFFICES ASSUME op = "jobs", NEW j \in steady
               PROVE  /\ job[j] = "queued"
                      /\ odd' = 0 =>
                           /\ RunOf[j] \in listed \cup cut
                           /\ RunOf[j] \in fetched' /\ j \in Labelled => j \in found'
    BY <1>1 DEF SteadyJobsAreFollowed
  <2>1. j \in Jobs /\ job[j] = "queued"
    BY DEF SteadyJobsAreFollowed, PollIsTyped
  <2>2. odd' = 0 /\ RunOf[j] = r /\ j \in Labelled => j \in found'
    BY <1>1, <2>1 DEF IsWaiting, JobsOf, JobsOfInterest
  <2> QED BY <1>1, <2>1, <2>2 DEF SteadyJobsAreFollowed
<1>5. StartedJobsAreLeft'
  <2> SUFFICES ASSUME op = "jobs", NEW j \in found', j \in begun PROVE FALSE
    BY <1>1 DEF StartedJobsAreLeft
  <2>1. j \notin found /\ job[j] \in {"running", "done"}
    BY DEF StartedJobsAreLeft
  <2> QED BY <1>1, <2>1 DEF IsWaiting, JobsOfInterest
<1>6. TakenJobIsFollowed'
  BY <1>1 DEF TakenJobIsFollowed, JobsOf, JobsOfInterest, PollIsTyped
<1>7. DraftsAreKnown' /\ NothingIsLeft'
  BY <1>1 DEF DraftsAreKnown, MarksHaveDrafts, NothingIsLeft
<1> QED BY <1>2, <1>3, <1>4, <1>5, <1>6, <1>7

(* The operation goes on to its end, or fails, with what it has: marks are *)
(* given for the drafts there are.                                         *)
LEMMA PollInvGoesOn ==
  ASSUME PollInv, Gathered \/ LookUpDrafts \/ NextPage \/ OddPage \/ Raise
  PROVE  PollInv'
<1> USE PollAssumption DEF PollInv
<1>1. /\ run' = run /\ job' = job /\ taken' = taken /\ draft' = draft /\ op' = op
      /\ listed' = listed /\ fetched' = fetched /\ found' = found /\ cut' = cut
      /\ steady' = steady /\ begun' = begun /\ drafted' = drafted /\ superseded' = superseded
      /\ odd' \in {odd, odd + 1}
  BY DEF Gathered, LookUpDrafts, Marks, NextPage, OddPage, Reads, Misreads, Raise, work, answer,
         history
<1>a. odd' \in Nat /\ (odd' = 0 => odd = 0)
  BY <1>1 DEF PollIsTyped
<1>2. \/ pc' = "raised" /\ pc # "idle" /\ marked' = marked
      \/ pc = "fetching" /\ fetched = listed /\ marked' = marked
           /\ (pc' = "returned" \/ (op = "jobs" /\ pc' = "context"))
      \/ pc = "context" /\ pc' = "returned" /\ (LookUpDrafts /\ ~(pc' = "raised"))
      \/ pc = "paging" /\ pc' \in {"paging", "returned"} /\ marked' = marked
  BY DEF Gathered, LookUpDrafts, Marks, NextPage, OddPage, Raise, answer
<1>3. op = "runners" \/ pc # "paging"
  <2>1. op \in {"jobs", "find", "runners"} /\ pc \in Places[op]
    BY DEF PollIsTyped
  <2>2. op = "jobs" => pc # "paging"
    BY <2>1 DEF Places
  <2>3. op = "find" => pc # "paging"
    BY <2>1 DEF Places
  <2> QED BY <2>1, <2>2, <2>3
<1>4. \A j \in marked' : \E r \in drafted : BranchOf[r] = BranchOf[RunOf[j]]
  <2>1. CASE marked' = marked
    BY <2>1 DEF DraftsAreKnown, MarksHaveDrafts
  <2>2. CASE pc = "context" /\ LookUpDrafts
    <3>1. draft \subseteq drafted
      BY <2>2 DEF DraftsAreKnown
    <3> QED BY <2>2, <3>1 DEF LookUpDrafts, Marks, DraftBranches
  <2> QED BY <1>2, <2>1, <2>2
<1>5. PollIsTyped'
  BY <1>1, <1>2, <1>a DEF PollIsTyped, Places
<1>6. RunsFollowJobs'
  BY <1>1 DEF RunsFollowJobs
<1>7. SteadyJobsAreFollowed'
  BY <1>1, <1>2, <1>3, <1>a DEF SteadyJobsAreFollowed, PollIsTyped, Places
<1>8. StartedJobsAreLeft'
  BY <1>1 DEF StartedJobsAreLeft
<1>9. TakenJobIsFollowed'
  BY <1>1, <1>2, <1>3, <1>a DEF TakenJobIsFollowed, PollIsTyped, Places
<1>10. DraftsAreKnown' /\ NothingIsLeft'
  BY <1>1, <1>2, <1>4 DEF DraftsAreKnown, MarksHaveDrafts, NothingIsLeft
<1> QED BY <1>5, <1>6, <1>7, <1>8, <1>9, <1>10

(* The account of a poll and of a search holds in every state.             *)
LEMMA PollInvHolds == Spec => []PollInv
<1> USE PollAssumption
<1>1. Init => PollInv
  BY DEF Init, PollInv, PollIsTyped, RunsFollowJobs, SteadyJobsAreFollowed, StartedJobsAreLeft,
         TakenJobIsFollowed, DraftsAreKnown, MarksHaveDrafts, NothingIsLeft, Places, RunStatus,
         JobStatus
<1>2. PollInv /\ [Next]_vars => PollInv'
  <2> SUFFICES ASSUME PollInv, [Next]_vars PROVE PollInv'
    OBVIOUS
  <2>1. CASE ListQueuedJobs \/ FindJobForRunner \/ ListRunners
    BY <2>1, PollInvBegins DEF ListQueuedJobs, FindJobForRunner, ListRunners
  <2>2. CASE List
    BY <2>2, PollInvListed
  <2>3. CASE \E r \in Runs : Fetch(r)
    BY <2>3, PollInvFetched
  <2>4. CASE Gathered \/ LookUpDrafts \/ NextPage \/ OddPage \/ Raise
    BY <2>4, PollInvGoesOn
  <2>5. CASE Return
    BY <2>5 DEF Return, work, PollInv, PollIsTyped, RunsFollowJobs, SteadyJobsAreFollowed,
       StartedJobsAreLeft, TakenJobIsFollowed, DraftsAreKnown, MarksHaveDrafts, NothingIsLeft,
       Places
  <2>6. CASE GitHubWorks
    BY <2>6, PollInvOutlivesRuns
  <2>7. CASE (\E i \in DOMAIN runners : RunnerGoes(i)) \/ UNCHANGED vars
    <3>1. UNCHANGED pollVars
      BY <2>7 DEF RunnerGoes, vars, work, answer, history, pollVars
    <3> QED BY <3>1 DEF pollVars, PollInv, PollIsTyped, RunsFollowJobs, SteadyJobsAreFollowed,
          StartedJobsAreLeft, TakenJobIsFollowed, DraftsAreKnown, MarksHaveDrafts, NothingIsLeft
  <2> QED BY <2>1, <2>2, <2>3, <2>4, <2>5, <2>6, <2>7 DEF Next, Client
<1> QED BY <1>1, <1>2, PTL DEF Spec

(* list_queued_jobs: whatever the number of runs and the limit of a        *)
(* listing, and however the runs change their status between two requests, *)
(* the answer has every job that waited all along, none that had started,  *)
(* and no mark without a draft, if every page was an object.               *)
THEOREM QueueIsAlwaysRead == Spec => []QueueIsRead
<1>1. PollInv => QueueIsRead
  BY DEF PollInv, QueueIsRead, NoJobIsMissed, NoStartedJobIsListed, SteadyJobsAreFollowed,
         StartedJobsAreLeft, DraftsAreKnown, Returned
<1> QED BY <1>1, PollInvHolds, PTL

(* find_job_for_runner: the job a runner had taken when the search began   *)
(* is found, unless its run was beyond the limit of the listing, the job   *)
(* has been run again since or a page was no object.                       *)
THEOREM TakenJobsAreAlwaysFound == Spec => []TakenJobIsFound
<1>1. PollInv => TakenJobIsFound
  BY DEF PollInv, TakenJobIsFound, TakenJobIsFollowed, Returned
<1> QED BY <1>1, PollInvHolds, PTL

-----------------------------------------------------------------------------
(* The walk over the registrations.                                        *)

(* A runner's page has been read, or all pages have, as a list each.       *)
Walked(m) == odd = 0 /\ (pc = "returned" \/ (pc = "paging" /\ m <= (page - 1) * PerPage))

(* The registrations are those of the beginning without some: what is in   *)
(* place m now, was in place e[m] then; and whoever's page has been read   *)
(* is on the list, unless one before it went meanwhile.                    *)
PlacedBy(e) ==
  /\ e \in [1 .. Len(runners) -> 1 .. Len(Registered)]
  /\ \A m, n \in 1 .. Len(runners) : m < n => e[m] < e[n]
  /\ \A m \in 1 .. Len(runners) :
       /\ runners[m] = Registered[e[m]]
       /\ op = "runners" /\ Walked(m) =>
            \/ Contains(collected, runners[m])
            \/ \E k \in 1 .. (e[m] - 1) : Registered[k] \in removed

ListInv ==
  /\ runners \in Seq(Nat) /\ collected \in Seq(Nat) /\ page \in Nat \ {0}
  /\ pc = "idle" => collected = <<>> /\ page = 1
  /\ pc = "paging" => Len(collected) = (page - 1) * PerPage
  /\ \E e : PlacedBy(e)

(* Without one of its elements, a sequence has those before it where they  *)
(* were and those after it a place earlier.                                *)
LEMMA AllButOne ==
  ASSUME NEW s \in Seq(Nat), NEW i \in 1 .. Len(s)
  PROVE  /\ RemoveAt(s, i) \in Seq(Nat) /\ Len(RemoveAt(s, i)) = Len(s) - 1
         /\ \A m \in 1 .. Len(s) - 1 : RemoveAt(s, i)[m] = IF m < i THEN s[m] ELSE s[m + 1]
<1> DEFINE n == Len(s)
           a == SubSeq(s, 1, i - 1)
           b == SubSeq(s, i + 1, n)
<1>1. n \in Nat /\ i \in 1 .. n /\ i \in Int /\ \A m \in 1 .. n : s[m] \in Nat
  BY ElementOfSeq
<1>2. RemoveAt(s, i) = a \o b
  BY DEF RemoveAt
<1> HIDE DEF n
<1>3. a \in Seq(Nat) /\ Len(a) = i - 1 /\ \A m \in 1 .. i - 1 : a[m] = s[m]
  <2>1. i - 1 \in Int /\ \A m \in 1 .. i - 1 : s[m] \in Nat
    BY <1>1
  <2>2. /\ SubSeq(s, 1, i - 1) \in Seq(Nat)
        /\ Len(SubSeq(s, 1, i - 1)) = IF 1 <= i - 1 THEN i - 1 - 1 + 1 ELSE 0
        /\ \A m \in 1 .. i - 1 - 1 + 1 : SubSeq(s, 1, i - 1)[m] = s[1 + m - 1]
    BY <2>1, SubSeqProperties
  <2> QED BY <1>1, <2>2
<1>4. b \in Seq(Nat) /\ Len(b) = n - i /\ \A m \in 1 .. n - i : b[m] = s[i + m]
  <2>1. i + 1 \in Int /\ n \in Int /\ \A m \in i + 1 .. n : s[m] \in Nat
    BY <1>1
  <2>2. /\ SubSeq(s, i + 1, n) \in Seq(Nat)
        /\ Len(SubSeq(s, i + 1, n)) = IF i + 1 <= n THEN n - (i + 1) + 1 ELSE 0
        /\ \A m \in 1 .. n - (i + 1) + 1 : SubSeq(s, i + 1, n)[m] = s[i + 1 + m - 1]
    BY <2>1, SubSeqProperties
  <2>3. \A m \in 1 .. n - i : m \in 1 .. n - (i + 1) + 1 /\ i + 1 + m - 1 = i + m
    BY <1>1
  <2>4. Len(SubSeq(s, i + 1, n)) = n - i
    BY <1>1, <2>2
  <2> QED BY <2>2, <2>3, <2>4
<1> HIDE DEF a, b
<1>5. /\ a \o b \in Seq(Nat) /\ Len(a \o b) = n - 1
      /\ \A m \in 1 .. n - 1 : (a \o b)[m] = IF m <= i - 1 THEN a[m] ELSE b[m - (i - 1)]
  <2>1. /\ a \o b \in Seq(Nat) /\ Len(a \o b) = Len(a) + Len(b)
        /\ \A m \in 1 .. Len(a) + Len(b) :
             (a \o b)[m] = IF m <= Len(a) THEN a[m] ELSE b[m - Len(a)]
    BY <1>3, <1>4, ConcatProperties
  <2>2. Len(a) = i - 1 /\ Len(a) + Len(b) = n - 1
    BY <1>1, <1>3, <1>4
  <2> QED BY <2>1, <2>2
<1>6. ASSUME NEW m \in 1 .. n - 1 PROVE (a \o b)[m] = IF m < i THEN s[m] ELSE s[m + 1]
  <2>1. CASE m < i
    <3>1. m \in 1 .. i - 1 /\ m <= i - 1
      BY <1>1, <2>1
    <3> QED BY <1>3, <1>5, <2>1, <3>1
  <2>2. CASE ~(m < i)
    <3>1. ~(m <= i - 1) /\ m - (i - 1) \in 1 .. n - i /\ i + (m - (i - 1)) = m + 1
      BY <1>1, <2>2
    <3> QED BY <1>4, <1>5, <2>2, <3>1
  <2> QED BY <2>1, <2>2
<1> QED BY <1>2, <1>5, <1>6 DEF n

(* A runner that goes takes those after it a place forward, where they     *)
(* have one before them that went.                                         *)
LEMMA ListOutlivesRunner ==
  ASSUME ListInv, NEW i \in DOMAIN runners, RunnerGoes(i)
  PROVE  ListInv'
<1>1. /\ runners' = RemoveAt(runners, i) /\ op' = op /\ pc' = pc /\ collected' = collected
      /\ page' = page /\ odd' = odd
      /\ removed' = IF pc = "idle" THEN {} ELSE removed \cup {runners[i]}
  BY DEF RunnerGoes, answer
<1>2. runners \in Seq(Nat) /\ i \in 1 .. Len(runners) /\ Len(runners) \in Nat
  BY DEF ListInv
<1>3. /\ runners' \in Seq(Nat) /\ Len(runners') = Len(runners) - 1
      /\ \A m \in 1 .. Len(runners) - 1 :
           runners'[m] = IF m < i THEN runners[m] ELSE runners[m + 1]
  BY <1>1, <1>2, AllButOne
<1>4. PICK e : PlacedBy(e)
  BY DEF ListInv
<1>5. /\ e \in [1 .. Len(runners) -> 1 .. Len(Registered)]
      /\ \A m, n \in 1 .. Len(runners) : m < n => e[m] < e[n]
      /\ \A m \in 1 .. Len(runners) : runners[m] = Registered[e[m]]
      /\ \A m \in 1 .. Len(runners) : e[m] \in Nat
  <2>1. Len(Registered) \in Nat
    BY PollAssumption
  <2>2. e \in [1 .. Len(runners) -> 1 .. Len(Registered)]
    BY <1>4 DEF PlacedBy
  <2>3. \A m \in 1 .. Len(runners) : e[m] \in Nat
    BY <2>1, <2>2
  <2> QED BY <1>4, <2>2, <2>3 DEF PlacedBy
<1>f. PICK f : f = [m \in 1 .. Len(runners) - 1 |-> IF m < i THEN e[m] ELSE e[m + 1]]
  OBVIOUS
<1>6. \A m \in 1 .. Len(runners) - 1 :
        /\ m < i => f[m] = e[m] /\ m \in 1 .. Len(runners) /\ runners'[m] = runners[m]
        /\ ~(m < i) => f[m] = e[m + 1] /\ m + 1 \in 1 .. Len(runners)
                         /\ runners'[m] = runners[m + 1]
  <2>1. \A m \in 1 .. Len(runners) - 1 : m \in 1 .. Len(runners) /\ m + 1 \in 1 .. Len(runners)
    BY <1>2
  <2>2. \A m \in 1 .. Len(runners) - 1 : f[m] = IF m < i THEN e[m] ELSE e[m + 1]
    BY <1>f
  <2> QED BY <1>3, <2>1, <2>2
<1>7. f \in [1 .. Len(runners) - 1 -> 1 .. Len(Registered)]
  <2>1. \A m \in 1 .. Len(runners) - 1 : f[m] \in 1 .. Len(Registered)
    BY <1>5, <1>6
  <2> QED BY <1>f, <2>1
<1>8. \A m, n \in 1 .. Len(runners) - 1 : m < n => f[m] < f[n]
  <2> SUFFICES ASSUME NEW m \in 1 .. Len(runners) - 1, NEW n \in 1 .. Len(runners) - 1, m < n
               PROVE  f[m] < f[n]
    OBVIOUS
  <2>1. m \in Int /\ n \in Int /\ i \in Int
    BY <1>2
  <2>2. CASE n < i
    <3>1. m < i
      BY <2>1, <2>2
    <3> QED BY <1>5, <1>6, <2>2, <3>1
  <2>3. CASE m < i /\ ~(n < i)
    <3>1. m < n + 1
      BY <2>1
    <3> QED BY <1>5, <1>6, <2>3, <3>1
  <2>4. CASE ~(m < i)
    <3>1. ~(n < i) /\ m + 1 < n + 1
      BY <2>1, <2>4
    <3> QED BY <1>5, <1>6, <2>4, <3>1
  <2> QED BY <2>2, <2>3, <2>4
<1>9. ASSUME NEW m \in 1 .. Len(runners) - 1
      PROVE  /\ runners'[m] = Registered[f[m]]
             /\ op = "runners" /\ Walked(m) =>
                  \/ Contains(collected, runners'[m])
                  \/ \E k \in 1 .. (f[m] - 1) : Registered[k] \in removed'
  <2>1. CASE m < i
    <3>1. runners'[m] = runners[m] /\ f[m] = e[m] /\ m \in 1 .. Len(runners)
      BY <1>6, <2>1
    <3>2. Walked(m) => removed \subseteq removed'
      BY <1>1 DEF Walked
    <3> QED BY <1>4, <3>1, <3>2 DEF PlacedBy
  <2>2. CASE ~(m < i)
    <3>1. runners'[m] = runners[m + 1] /\ f[m] = e[m + 1] /\ m + 1 \in 1 .. Len(runners)
      BY <1>6, <2>2
    <3>2. e[i] < e[m + 1] /\ e[i] \in 1 .. Len(Registered) /\ e[m + 1] \in 1 .. Len(Registered)
      <4>1. i < m + 1
        BY <1>2, <2>2
      <4> QED BY <1>2, <1>5, <3>1, <4>1
    <3>3. Walked(m) => Registered[e[i]] \in removed'
      BY <1>1, <1>2, <1>5 DEF Walked
    <3>4. e[i] \in 1 .. (f[m] - 1)
      BY <1>5, <3>1, <3>2
    <3> QED BY <1>5, <3>1, <3>3, <3>4
  <2> QED BY <2>1, <2>2
<1>10. \A m : Walked(m)' <=> Walked(m)
  BY <1>1 DEF Walked
<1>11. PlacedBy(f)'
  <2>1. f \in [1 .. Len(runners') -> 1 .. Len(Registered)]
    BY <1>3, <1>7
  <2>2. \A m, n \in 1 .. Len(runners') : m < n => f[m] < f[n]
    BY <1>3, <1>8
  <2>3. \A m \in 1 .. Len(runners') :
          /\ runners'[m] = Registered[f[m]]
          /\ op' = "runners" /\ Walked(m)' =>
               \/ Contains(collected', runners'[m])
               \/ \E k \in 1 .. (f[m] - 1) : Registered[k] \in removed'
    BY <1>1, <1>3, <1>9, <1>10
  <2> QED BY <2>1, <2>2, <2>3 DEF PlacedBy
<1> QED BY <1>1, <1>3, <1>11 DEF ListInv

(* A page has the next places of the list, and an exhausted one its last.  *)
LEMMA ListWalksOn ==
  ASSUME ListInv, NextPage
  PROVE  ListInv'
<1> DEFINE from == (page - 1) * PerPage + 1
           to == IF page * PerPage < Len(runners) THEN page * PerPage ELSE Len(runners)
           items == Items
           done == (page - 1) * PerPage
<1>1. /\ pc = "paging" /\ runners' = runners /\ op' = op /\ removed' = removed
      /\ collected' = collected \o items
      /\ Exhausted(items) => pc' = "returned" /\ page' = page
      /\ ~Exhausted(items) => pc' = "paging" /\ page' = page + 1
      /\ odd' = odd
  BY DEF NextPage, Reads, history
<1>2. /\ runners \in Seq(Nat) /\ collected \in Seq(Nat) /\ page \in Nat \ {0}
      /\ Len(collected) = done /\ PerPage \in Nat \ {0} /\ Len(runners) \in Nat
  BY <1>1, PollAssumption DEF ListInv
<1>3. /\ done \in Nat /\ from = done + 1
      /\ page * PerPage = done + PerPage /\ page + 1 - 1 = page
  <2>1. \A a \in Nat \ {0}, b \in Nat : (a - 1) * b \in Nat /\ a * b = (a - 1) * b + b
    OBVIOUS
  <2> QED BY <1>2, <2>1
<1>4. /\ to \in Nat /\ to <= Len(runners) /\ to <= done + PerPage
      /\ to = Len(runners) \/ to = done + PerPage
  BY <1>2, <1>3
<1> HIDE DEF done, to
<1>5. /\ items \in Seq(Nat) /\ Len(items) = IF done < to THEN to - done ELSE 0
      /\ \A m \in 1 .. to - done : items[m] = runners[done + m]
  <2>1. \A m \in from .. to : runners[m] \in Nat
    <3>1. \A m \in from .. to : m \in 1 .. Len(runners)
      BY <1>2, <1>3, <1>4
    <3> QED BY <1>2, <3>1, ElementOfSeq
  <2>2. from \in Int /\ to \in Int
    BY <1>3, <1>4
  <2>a. items = SubSeq(runners, from, to)
    BY DEF Items, to
  <2> HIDE DEF from, items
  <2>3. /\ SubSeq(runners, from, to) \in Seq(Nat)
        /\ Len(SubSeq(runners, from, to)) = IF from <= to THEN to - from + 1 ELSE 0
        /\ \A m \in 1 .. to - from + 1 : SubSeq(runners, from, to)[m] = runners[from + m - 1]
    BY <2>1, <2>2, SubSeqProperties
  <2> QED BY <1>3, <1>4, <2>a, <2>3, SMTT(20)
<1> HIDE DEF items, from
<1>6. /\ collected' \in Seq(Nat) /\ Len(collected') = done + Len(items)
      /\ \A m \in 1 .. done + Len(items) :
           collected'[m] = IF m <= done THEN collected[m] ELSE items[m - done]
  <2>1. collected \in Seq(Nat) /\ items \in Seq(Nat)
    BY <1>2, <1>5
  <2>2. /\ collected \o items \in Seq(Nat)
        /\ Len(collected \o items) = Len(collected) + Len(items)
        /\ \A m \in 1 .. Len(collected) + Len(items) :
             (collected \o items)[m] =
               IF m <= Len(collected) THEN collected[m] ELSE items[m - Len(collected)]
    BY <2>1, ConcatProperties
  <2>3. Len(collected) = done /\ collected' = collected \o items
    BY <1>1, <1>2
  <2> QED BY <2>2, <2>3
<1>7. Exhausted(items) <=> Len(items) < PerPage \/ done + Len(items) >= Len(runners)
  BY <1>2 DEF Exhausted
<1>8. ~Exhausted(items) => Len(collected') = done + PerPage
  BY <1>2, <1>3, <1>4, <1>5, <1>6, <1>7
<1>9. ASSUME NEW m \in 1 .. Len(runners), Walked(m)' PROVE m <= done \/ m <= to
  <2>1. CASE Exhausted(items)
    <3>1. done \in Int /\ to \in Int /\ PerPage \in Int /\ Len(runners) \in Int /\ m \in Int
          /\ m <= Len(runners)
      BY <1>2, <1>3, <1>4
    <3>2. \/ done < to /\ Len(items) = to - done
          \/ ~(done < to) /\ Len(items) = 0
      BY <1>5
    <3>3. Len(items) < PerPage \/ done + Len(items) >= Len(runners)
      BY <1>7, <2>1
    <3>4. to = Len(runners) \/ to = done + PerPage
      BY <1>4
    <3>5. PerPage > 0
      BY <1>2
    <3> HIDE DEF Exhausted
    <3> QED BY ONLY <3>1, <3>2, <3>3, <3>4, <3>5
  <2>2. CASE ~Exhausted(items)
    <3>1. m <= done + PerPage
      BY <1>1, <1>2, <1>3, <1>9, <2>2 DEF Walked
    <3> QED BY <1>2, <1>3, <1>4, <3>1
  <2> QED BY <2>1, <2>2
<1>10. ASSUME NEW m \in 1 .. Len(runners), m <= to, ~(m <= done)
       PROVE  Contains(collected', runners[m])
  <2>1. m - done \in 1 .. to - done /\ m \in 1 .. done + Len(items)
    BY <1>2, <1>3, <1>4, <1>5, <1>10
  <2>2. collected'[m] = items[m - done] /\ items[m - done] = runners[done + (m - done)]
    BY <1>5, <1>6, <1>10, <2>1
  <2>3. collected'[m] = runners[m] /\ m \in 1 .. Len(collected')
    BY <1>3, <1>6, <2>1, <2>2
  <2> QED BY <2>3 DEF Contains
<1>11. \A x : Contains(collected, x) => Contains(collected', x)
  <2> SUFFICES ASSUME NEW k \in 1 .. Len(collected) PROVE Contains(collected', collected[k])
    BY DEF Contains
  <2>1. k \in 1 .. done + Len(items) /\ k <= done /\ k \in 1 .. Len(collected')
    <3>1. Len(items) \in Nat
      BY <1>5
    <3> QED BY <1>2, <1>3, <1>6, <3>1
  <2>2. collected'[k] = collected[k]
    BY <1>6, <2>1
  <2> QED BY <2>1, <2>2 DEF Contains
<1>12. PICK e : PlacedBy(e)
  BY DEF ListInv
<1>13. ASSUME NEW m \in 1 .. Len(runners), op = "runners", Walked(m)'
       PROVE  \/ Contains(collected', runners[m])
              \/ \E k \in 1 .. (e[m] - 1) : Registered[k] \in removed
  <2>1. CASE m <= done
    <3>1. Walked(m)
      BY <1>1, <1>13, <2>1 DEF Walked, done
    <3> QED BY <1>11, <1>12, <1>13, <3>1 DEF PlacedBy
  <2>2. CASE ~(m <= done)
    BY <1>9, <1>10, <1>13, <2>2
  <2> QED BY <2>1, <2>2
<1>14. PlacedBy(e)'
  BY <1>1, <1>12, <1>13 DEF PlacedBy
<1>15. pc' = "paging" => Len(collected') = (page' - 1) * PerPage
  <2> SUFFICES ASSUME pc' = "paging" PROVE Len(collected') = (page' - 1) * PerPage
    OBVIOUS
  <2>1. ~Exhausted(items)
    BY <1>1
  <2>2. page' = page + 1
    BY <1>1, <2>1
  <2>3. page' - 1 = page
    BY <1>2, <2>2
  <2> QED BY <1>3, <1>8, <2>1, <2>3
<1>16. page' \in Nat \ {0} /\ pc' # "idle" /\ runners' \in Seq(Nat)
  BY <1>1, <1>2
<1> QED BY <1>6, <1>14, <1>15, <1>16 DEF ListInv

(* Nothing else walks.                                                     *)
LEMMA ListStands ==
  ASSUME PollInv, ListInv,
         runners' = runners, op' = op, removed' \in {removed, {}},
         odd' # 0 \/ odd = 0 \/ pc' = "idle",
         \/ pc' = pc /\ collected' = collected /\ page' = page /\ removed' = removed
         \/ pc' = "idle" /\ collected' = <<>> /\ page' = 1
         \/ pc = "idle" /\ pc' # "idle" /\ pc' # "returned" /\ UNCHANGED <<collected, page>>
         \/ (pc' = "raised" \/ op # "runners" \/ odd' # 0) /\ pc' \notin {"paging", "idle"}
               /\ UNCHANGED <<collected, page>>
  PROVE  ListInv'
<1>1. PICK e : PlacedBy(e)
  BY DEF ListInv
<1>2. /\ runners \in Seq(Nat) /\ collected \in Seq(Nat) /\ page \in Nat \ {0}
      /\ pc = "idle" => collected = <<>> /\ page = 1
      /\ PerPage \in Nat
  BY PollAssumption DEF ListInv
<1>3. /\ collected' \in Seq(Nat) /\ page' \in Nat \ {0}
      /\ pc' = "idle" => collected' = <<>> /\ page' = 1
  <2>1. <<>> \in Seq(Nat) /\ 1 \in Nat \ {0}
    OBVIOUS
  <2>2. \/ collected' = collected /\ page' = page
        \/ collected' = <<>> /\ page' = 1
    OBVIOUS
  <2>3. pc' = "idle" => (collected' = <<>> /\ page' = 1) \/ (pc = "idle" /\ UNCHANGED <<collected, page>>)
    OBVIOUS
  <2> QED BY <1>2, <2>1, <2>2, <2>3
<1>4. pc' = "paging" => Len(collected') = (page' - 1) * PerPage
  <2>1. \A b \in Nat : (1 - 1) * b = 0
    OBVIOUS
  <2>2. CASE pc = "idle"
    BY <1>2, <2>1, <2>2
  <2>3. CASE pc # "idle"
    BY <2>3 DEF ListInv
  <2> QED BY <2>2, <2>3
<1>5. ASSUME NEW m \in 1 .. Len(runners), op = "runners", Walked(m)'
      PROVE  Walked(m) /\ collected' = collected /\ removed' = removed
  <2>1. /\ pc' \in {"returned", "paging"} /\ (pc' = "paging" => m <= (page' - 1) * PerPage)
        /\ odd' = 0
    BY <1>5 DEF Walked
  <2>2. CASE pc = "idle"
    <3>1. \A b \in Nat : (1 - 1) * b = 0
      OBVIOUS
    <3>2. pc' = "paging" /\ page' = 1 /\ m <= 0
      BY <1>2, <1>5, <2>1, <2>2, <3>1
    <3> QED BY <3>2
  <2>3. CASE pc # "idle"
    BY <1>5, <2>1, <2>3 DEF Walked
  <2> QED BY <2>2, <2>3
<1>6. PlacedBy(e)'
  BY <1>1, <1>5 DEF PlacedBy
<1> QED BY <1>2, <1>3, <1>4, <1>6 DEF ListInv

(* The account of a walk holds in every state.                             *)
LEMMA ListInvHolds == Spec => []ListInv
<1>1. Init => ListInv
  <2> SUFFICES ASSUME Init PROVE ListInv
    OBVIOUS
  <2>1. /\ runners = Registered /\ collected = <<>> /\ page = 1 /\ pc = "idle"
        /\ Registered \in Seq(Nat) /\ Len(Registered) \in Nat
    BY PollAssumption DEF Init
  <2>2. PlacedBy([m \in 1 .. Len(Registered) |-> m])
    BY <2>1 DEF PlacedBy, Walked
  <2> QED BY <2>1, <2>2 DEF ListInv
<1>2. PollInv /\ ListInv /\ [Next]_vars => ListInv'
  <2> SUFFICES ASSUME PollInv, ListInv, [Next]_vars PROVE ListInv'
    OBVIOUS
  <2>1. op \in {"jobs", "find", "runners"} /\ pc \in Places[op]
    BY DEF PollInv, PollIsTyped
  <2>a. odd \in Nat /\ odd + 1 # 0
    BY DEF PollInv, PollIsTyped
  <2>2. op = "runners" => pc \in {"idle", "paging", "returned", "raised"}
    BY <2>1 DEF Places
  <2>3. CASE ListQueuedJobs \/ FindJobForRunner \/ ListRunners
    BY <2>3, ListStands DEF ListQueuedJobs, FindJobForRunner, ListRunners, Begin, answer
  <2>4. CASE List
    BY <2>2, <2>4, <2>a, ListStands DEF List, Listing, Reads, Misreads
  <2>5. CASE \E r \in Runs : Fetch(r)
    BY <2>5, <2>a, ListStands DEF Fetch, Reads, Misreads, history
  <2>6. CASE Gathered
    BY <2>2, <2>6, ListStands DEF Gathered, answer, history
  <2>7. CASE LookUpDrafts
    BY <2>2, <2>7, ListStands DEF LookUpDrafts, Marks, history
  <2>8. CASE NextPage \/ OddPage
    <3>1. CASE NextPage
      BY <3>1, ListWalksOn
    <3>2. CASE OddPage
      BY <3>2, <2>a, ListStands DEF OddPage, Misreads, history
    <3> QED BY <2>8, <3>1, <3>2
  <2>9. CASE Raise
    BY <2>9, ListStands DEF Raise, answer, history
  <2>10. CASE Return
    BY <2>10, ListStands DEF Return
  <2>11. CASE GitHubWorks
    BY <2>11, ListStands DEF GitHubWorks, RunsMove, Trigger, Rerun, Review, Drafts, Start, Unlock,
       Finish, answer, history
  <2>12. CASE \E i \in DOMAIN runners : RunnerGoes(i)
    BY <2>12, ListOutlivesRunner
  <2>13. CASE UNCHANGED vars
    BY <2>13, ListStands DEF vars, answer, history
  <2> QED BY <2>3, <2>4, <2>5, <2>6, <2>7, <2>8, <2>9, <2>10, <2>11, <2>12, <2>13 DEF Next, Client
<1> QED BY <1>1, <1>2, PollInvHolds, PTL DEF Spec

(* _paginate: a runner that stays registered while the list is walked, a   *)
(* page at a time, is on it, unless one before it went meanwhile or a page *)
(* was no object.                                                          *)
THEOREM NoRunnerIsEverSkipped == Spec => []NoRunnerIsSkipped
<1>1. ListInv => NoRunnerIsSkipped
  <2> SUFFICES ASSUME ListInv, pc = "returned", op = "runners", NEW i \in DOMAIN Registered,
                      odd = 0, Contains(runners, Registered[i])
               PROVE  \/ Contains(collected, Registered[i])
                      \/ \E k \in 1 .. (i - 1) : Registered[k] \in removed
    BY DEF NoRunnerIsSkipped, Returned
  <2>1. PICK e : PlacedBy(e)
    BY DEF ListInv
  <2>2. PICK m \in 1 .. Len(runners) : runners[m] = Registered[i]
    BY DEF Contains
  <2>3. e[m] \in DOMAIN Registered /\ Registered[e[m]] = Registered[i]
    BY <2>1, <2>2, PollAssumption, SMTT(20) DEF PlacedBy
  <2>4. e[m] = i
    BY <2>3, PollAssumption DEF IsInjective
  <2> QED BY <2>1, <2>2, <2>4 DEF PlacedBy, Walked
<1> QED BY <1>1, ListInvHolds, PTL
=============================================================================
