-------------------------- MODULE MCGitHubTransport --------------------------
(* Instances of GitHubTransport for TLC.                                   *)
EXTENDS GitHubTransport

CONSTANTS t1, t2

(* A pass that launches beside one that retires.                           *)
LaunchAndRetire == [t \in Tasks |-> IF t = t1 THEN {"GET", "POST"} ELSE {"GET", "DELETE", "LOGS"}]
=============================================================================
