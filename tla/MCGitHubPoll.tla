---------------------------- MODULE MCGitHubPoll ----------------------------
(* Instances of GitHubPoll for TLC.                                        *)
EXTENDS GitHubPoll

CONSTANTS j1, j2, j3, j4

(* Run 1, of a pull request, has two jobs at once and a leg of a matrix    *)
(* that waits for them.  Run 2 is a push to a branch of the same name, as  *)
(* there may be where the pull request is of a fork.                       *)
FourJobs == [j \in Jobs |-> IF j = j4 THEN 2 ELSE 1]
SameName == [r \in Runs |-> "patch-1"]
Five == <<11, 12, 13, 14, 15>>
=============================================================================
