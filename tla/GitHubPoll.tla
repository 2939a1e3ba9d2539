----------------------------- MODULE GitHubPoll -----------------------------
(***************************************************************************)
(* The reads of the GitHub client that take several requests (client.py):  *)
(* the queued jobs of a repository, the job a runner took, the runners of  *)
(* a target.  Each request sees GitHub as it is at that moment, and GitHub *)
(* moves on between two of them.                                           *)
(*                                                                         *)
(* A request is one step here: GitHubTransport has what it is made of.     *)
(* A behaviour repeats one of the three, as they share nothing.            *)
(***************************************************************************)
EXTENDS Integers, FiniteSets, Sequences, SequencesExt

CONSTANTS
  Runs,         (* workflow runs: numbers, newer ones are greater          *)
  Jobs,
  RunOf,        (* RunOf[j]: the run of a job                              *)
  Roots,        (* the jobs that wait for no other                         *)
  Labelled,     (* the jobs that ask for labels                            *)
  PullRequests, (* the runs that a pull request triggered                  *)
  BranchOf,     (* BranchOf[r]: head_branch                                *)
  Registered,   (* the runners registered to begin with, in GitHub's order *)
  MaxRuns,      (* MAX_RUNS_PER_POLL                                       *)
  PerPage,      (* runners on a page                                       *)
  MaxReruns,    (* bound on completed runs that are run again              *)
  MaxFaults     (* bound on failed requests and odd answers                *)

ASSUME PollAssumption ==
  /\ Runs \subseteq Nat
  /\ RunOf \in [Jobs -> Runs]
  /\ Roots \subseteq Jobs
  /\ Labelled \subseteq Jobs
  /\ PullRequests \subseteq Runs
  /\ DOMAIN BranchOf = Runs
  /\ Registered \in Seq(Nat) /\ IsInjective(Registered)
  /\ MaxRuns \in Nat \ {0} /\ PerPage \in Nat \ {0}
  /\ MaxReruns \in Nat /\ MaxFaults \in Nat

VARIABLES
  (* GitHub *)
  run,         (* the status of each run                                   *)
  job,         (* the status of each job                                   *)
  taken,       (* the job our runner took: a set of one at most            *)
  superseded,  (* that job, once a later attempt of its run has it again   *)
  reruns,      (* runs that were run again so far                          *)
  draft,       (* the pull requests that are drafts                        *)
  runners,     (* the registrations                                        *)
  faults,      (* failures so far                                          *)
  (* the client *)
  unavailable, (* _drafts_unavailable                                      *)
  op,          (* the operation under way                                  *)
  pc,
  listed,      (* the runs listed                                          *)
  fetched,     (* those whose jobs were fetched                            *)
  found,       (* the jobs kept of them                                    *)
  marked,      (* the jobs marked as those of a draft                      *)
  collected,   (* the runners of the pages so far                          *)
  page,
  odd,         (* pages that were no object: the client keeps no count     *)
  (* history of the operation *)
  steady,      (* jobs queued, or taken, from its beginning on             *)
  begun,       (* jobs running or done when it began                       *)
  cut,         (* runs beyond the limit of a listing                       *)
  drafted,     (* runs whose pull request has been a draft                 *)
  removed      (* runners removed                                          *)

work == <<run, job, taken, superseded, reruns, draft>>
answer == <<listed, fetched, found, marked, collected, page, odd>>
history == <<steady, begun, cut, drafted, removed>>
vars == <<work, runners, faults, unavailable, op, pc, answer, history>>

Init ==
  /\ run = [r \in Runs |-> "absent"]
  /\ job = [j \in Jobs |-> "pending"]
  /\ taken = {} /\ superseded = {} /\ reruns = 0
  /\ draft = {}
  /\ runners = Registered
  /\ faults = 0
  /\ unavailable \in BOOLEAN
  /\ op \in {"jobs", "find", "runners"}
  /\ pc = "idle"
  /\ listed = {} /\ fetched = {} /\ found = {} /\ marked = {}
  /\ collected = <<>> /\ page = 1 /\ odd = 0
  /\ steady = {} /\ begun = {} /\ cut = {} /\ drafted = {} /\ removed = {}

Works == UNCHANGED faults
Fails == faults < MaxFaults /\ faults' = faults + 1

(* A walk takes a page that is no object for the end of the list, and says *)
(* nothing of it (_paginate).                                              *)
Reads == Works /\ UNCHANGED odd
Misreads == Fails /\ odd' = odd + 1

-----------------------------------------------------------------------------
(* GitHub.                                                                 *)

JobsOf(r) == {j \in Jobs : RunOf[j] = r}

Drafts(d) ==
  /\ draft' = d
  /\ drafted' = IF pc = "idle" THEN {} ELSE drafted \cup d

Trigger(r) ==
  /\ run[r] = "absent"
  /\ \A s \in Runs : s < r => run[s] # "absent"
  /\ run' = [run EXCEPT ![r] = "queued"]
  /\ job' = [j \in Jobs |-> IF j \in JobsOf(r) \cap Roots THEN "queued" ELSE job[j]]
  /\ \E d \in SUBSET (IF op = "jobs" THEN {r} \cap PullRequests ELSE {}) : Drafts(draft \cup d)
  /\ UNCHANGED <<taken, superseded, reruns, steady, begun, cut, removed>>

(* A runner takes the job: ours, which takes one, or another.              *)
Start(j) ==
  /\ job[j] = "queued"
  /\ job' = [job EXCEPT ![j] = "running"]
  /\ run' = [run EXCEPT ![RunOf[j]] = "in_progress"]
  /\ taken' \in {taken} \cup (IF op = "find" /\ taken = {} THEN {{j}} ELSE {})
  /\ steady' = steady \ {j}
  /\ UNCHANGED <<superseded, reruns, draft, begun, cut, drafted, removed>>

(* What the job waited for is done: a leg of a matrix.                     *)
Unlock(j) ==
  /\ job[j] = "pending"
  /\ run[RunOf[j]] = "in_progress"
  /\ job' = [job EXCEPT ![j] = "queued"]
  /\ UNCHANGED <<run, taken, superseded, reruns, draft, history>>

(* The last job that is done ends the run, and so does a failure: what     *)
(* waited for it is skipped.                                               *)
Finish(j) ==
  /\ job[j] = "running"
  /\ \E skipped \in SUBSET {k \in JobsOf(RunOf[j]) : job[k] = "pending"} :
       job' = [k \in Jobs |-> IF k = j \/ k \in skipped THEN "done" ELSE job[k]]
  /\ run' = [run EXCEPT ![RunOf[j]] =
               IF \A k \in JobsOf(RunOf[j]) : job'[k] = "done" THEN "completed" ELSE @]
  /\ UNCHANGED <<taken, superseded, reruns, draft, history>>

(* A completed run is run again, all its jobs or some: these are jobs of a *)
(* new attempt, and those that wait for none of them are queued at once.   *)
Rerun(r) ==
  /\ run[r] = "completed"
  /\ reruns < MaxReruns /\ reruns' = reruns + 1
  /\ run' = [run EXCEPT ![r] = "queued"]
  /\ \E again \in SUBSET JobsOf(r) :
       /\ again # {}
       /\ job' = [j \in Jobs |-> IF j \notin again THEN job[j]
                                 ELSE IF j \in Roots \/ again \cap Roots = {} THEN "queued"
                                 ELSE "pending"]
       /\ superseded' = superseded \cup (again \cap taken)
       /\ begun' = begun \ again
  /\ UNCHANGED <<taken, draft, steady, cut, drafted, removed>>

(* A pull request is made a draft, or ready for review.                    *)
Review(r) ==
  /\ op = "jobs"
  /\ r \in PullRequests
  /\ run[r] # "absent"
  /\ Drafts((draft \cup {r}) \ (draft \cap {r}))
  /\ UNCHANGED <<run, job, taken, superseded, reruns, steady, begun, cut, removed>>

RunsMove == \/ \E r \in Runs : Trigger(r) \/ Rerun(r) \/ Review(r)
          \/ \E j \in Jobs : Start(j) \/ Unlock(j) \/ Finish(j)

GitHubWorks ==
  /\ op # "runners"
  /\ RunsMove
  /\ UNCHANGED <<runners, faults, unavailable, op, pc, answer>>

RunnerGoes(i) ==
  /\ op = "runners"
  /\ i \in DOMAIN runners
  /\ runners' = RemoveAt(runners, i)
  /\ removed' = IF pc = "idle" THEN {} ELSE removed \cup {runners[i]}
  /\ UNCHANGED <<work, faults, unavailable, op, pc, answer, steady, begun, cut, drafted>>

-----------------------------------------------------------------------------
(* The client.                                                             *)

Begin(kind, at) ==
  /\ pc = "idle"
  /\ op = kind
  /\ pc' = at
  /\ steady' = IF kind = "find" THEN taken ELSE {j \in Jobs : job[j] = "queued"}
  /\ begun' = IF kind = "jobs" THEN {j \in Jobs : job[j] \in {"running", "done"}} ELSE {}
  /\ drafted' = draft
  /\ UNCHANGED <<work, runners, faults, unavailable, op, answer, cut, removed>>

ListQueuedJobs == Begin("jobs", "queued")
FindJobForRunner == Begin("find", "every")
ListRunners == Begin("runners", "paging")

Return ==
  /\ pc \in {"returned", "raised"}
  /\ pc' = "idle"
  /\ listed' = {} /\ fetched' = {} /\ found' = {} /\ marked' = {}
  /\ collected' = <<>> /\ page' = 1 /\ odd' = 0
  /\ steady' = {} /\ begun' = {} /\ cut' = {} /\ drafted' = {} /\ removed' = {}
  /\ UNCHANGED <<work, runners, faults, unavailable, op>>

(* _paginate(limit=MAX_RUNS_PER_POLL): the newest.                         *)
Newest(rs) == {r \in rs : Cardinality({s \in rs : s > r}) < MaxRuns}

Listing(rs, next) ==
  /\ \/ Reads /\ listed' = listed \cup Newest(rs) /\ cut' = cut \cup (rs \ Newest(rs))
     \/ Misreads /\ UNCHANGED <<listed, cut>>
  /\ pc' = next
  /\ UNCHANGED <<work, runners, unavailable, op, fetched, found, marked, collected, page,
                 steady, begun, drafted, removed>>

WithStatus(status) == {r \in Runs : run[r] = status}

(* As a bug would have it: in the other order.                             *)
SwappedList ==
  \/ pc = "queued" /\ Listing(WithStatus("in_progress"), "in_progress")
  \/ pc = "in_progress" /\ Listing(WithStatus("queued"), "fetching")
  \/ pc = "every" /\ Listing({r \in Runs : run[r] # "absent"}, "fetching")

(* As a bug would have it: of the runs in progress.                        *)
NarrowList ==
  \/ pc = "queued" /\ Listing(WithStatus("queued"), "in_progress")
  \/ pc = "in_progress" /\ Listing(WithStatus("in_progress"), "fetching")
  \/ pc = "every" /\ Listing(WithStatus("in_progress"), "fetching")

(* The queued runs, then those in progress; or runs of any status.         *)
List ==
  \/ pc = "queued" /\ Listing(WithStatus("queued"), "in_progress")
  \/ pc = "in_progress" /\ Listing(WithStatus("in_progress"), "fetching")
  \/ pc = "every" /\ Listing({r \in Runs : run[r] # "absent"}, "fetching")

IsWaiting(j) == job[j] = "queued" /\ j \in Labelled

(* Of a run, GitHub gives the jobs of its latest attempt (filter=latest).  *)
JobsOfInterest(r) ==
  IF op = "jobs" THEN {j \in JobsOf(r) : IsWaiting(j)} ELSE (JobsOf(r) \cap taken) \ superseded

(* The fetches run at once, and get their answers in any order.  All the   *)
(* pages of a run are one step; an odd one cuts them short.                *)
Fetch(r) ==
  /\ pc = "fetching"
  /\ r \in listed \ fetched
  /\ fetched' = fetched \cup {r}
  /\ \/ Reads /\ found' = found \cup JobsOfInterest(r)
     \/ Misreads /\ \E part \in SUBSET JobsOfInterest(r) : found' = found \cup part
  /\ UNCHANGED <<work, runners, unavailable, op, pc, listed, marked, collected, page, history>>

(* One that fails fails the operation.                                     *)
Raise ==
  /\ \/ pc \in {"queued", "in_progress", "every", "paging"}
     \/ pc = "fetching" /\ listed # fetched
  /\ Fails
  /\ pc' = "raised"
  /\ UNCHANGED <<work, runners, unavailable, op, answer, history>>

HasPullRequest == \E j \in found : RunOf[j] \in PullRequests

(* gather is over.  Whether a branch is the default one does not change,   *)
(* and not knowing it costs a rank (QueueView's classes).                  *)
Gathered ==
  /\ pc = "fetching"
  /\ fetched = listed
  /\ pc' = IF op = "jobs" /\ HasPullRequest /\ ~unavailable THEN "context" ELSE "returned"
  /\ UNCHANGED <<work, runners, faults, unavailable, op, answer, history>>

(* _draft_branches.                                                        *)
DraftBranches == {BranchOf[r] : r \in draft}

(* Each job whose run has one of these branches is marked.                 *)
Marks(branches) ==
  /\ marked' = {j \in found : BranchOf[RunOf[j]] \in branches}
  /\ pc' = "returned"
  /\ UNCHANGED <<work, runners, op, listed, fetched, found, collected, page, odd, history>>

(* Refused, the listing is not asked for again; failed, it is.             *)
LookUpDrafts ==
  /\ pc = "context"
  /\ \/ Marks(DraftBranches) /\ Works /\ UNCHANGED unavailable
     \/ Marks({}) /\ Fails /\ unavailable' \in {unavailable, TRUE}

(* As a bug would have it: one item too early.                             *)
HastyExhausted(items) == Len(items) <= PerPage

Exhausted(items) ==
  \/ Len(items) < PerPage
  \/ Len(collected) + Len(items) >= Len(runners)

Items ==
  SubSeq(runners, (page - 1) * PerPage + 1,
         IF page * PerPage < Len(runners) THEN page * PerPage ELSE Len(runners))

(* _paginate: a page is a place in the list as it is now.                  *)
NextPage ==
  /\ pc = "paging"
  /\ Reads
  /\ collected' = collected \o Items
  /\ IF Exhausted(Items)
       THEN pc' = "returned" /\ UNCHANGED page
       ELSE page' = page + 1 /\ UNCHANGED pc
  /\ UNCHANGED <<work, runners, unavailable, op, listed, fetched, found, marked, history>>

(* One that is no object: the list is what has been collected.             *)
OddPage ==
  /\ pc = "paging"
  /\ Misreads
  /\ pc' = "returned"
  /\ UNCHANGED <<work, runners, unavailable, op, listed, fetched, found, marked, collected, page,
                 history>>

Client ==
  \/ List \/ (\E r \in Runs : Fetch(r)) \/ Gathered \/ LookUpDrafts
  \/ NextPage \/ OddPage \/ Raise \/ Return

Next ==
  \/ ListQueuedJobs \/ FindJobForRunner \/ ListRunners
  \/ Client
  \/ GitHubWorks \/ \E i \in DOMAIN runners : RunnerGoes(i)

Spec == Init /\ [][Next]_vars

-----------------------------------------------------------------------------

Returned(kind) == pc = "returned" /\ op = kind

(* A job that stayed queued all through a poll is in its answer, unless    *)
(* its run was beyond the limit of a listing or a page was no object,      *)
(* however the runs changed their status between the requests              *)
(* (list_queued_jobs).                                                     *)
NoJobIsMissed ==
  Returned("jobs") /\ odd = 0 => \A j \in steady \cap Labelled : j \in found \/ RunOf[j] \in cut

(* A job that was running or done before a poll began is not in its        *)
(* answer: no runner is launched for it (_is_waiting).                     *)
NoStartedJobIsListed ==
  Returned("jobs") => found \cap begun = {}

(* The job of a runner is found, unless its run was beyond the limit, it   *)
(* has been run again since, in a later attempt, or a page was no object   *)
(* (find_job_for_runner, filter=latest).                                   *)
TakenJobIsFound ==
  Returned("find") /\ odd = 0 =>
    \A j \in steady \ superseded : j \in found \/ RunOf[j] \in cut

(* Nobody's work is taken for that of a draft without a draft: whatever    *)
(* fails or is refused, and whoever changes what, a job is marked only if  *)
(* some pull request of its branch was a draft during the poll.            *)
MarksHaveDrafts == \A j \in marked : \E r \in drafted : BranchOf[r] = BranchOf[RunOf[j]]

(* A runner that stays registered while the list is walked is on it,       *)
(* unless one before it went meanwhile or a page was no object             *)
(* (_paginate).                                                            *)
NoRunnerIsSkipped ==
  Returned("runners") /\ odd = 0 =>
    \A i \in DOMAIN Registered :
      Contains(runners, Registered[i]) =>
        \/ Contains(collected, Registered[i])
        \/ \E k \in 1..(i - 1) : Registered[k] \in removed

(* The answer of a poll is the queue as it stood: every waiting job, no    *)
(* other, and no draft that is none.                                       *)
QueueIsRead == NoJobIsMissed /\ NoStartedJobIsListed /\ MarksHaveDrafts
=============================================================================
