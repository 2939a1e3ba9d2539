-------------------------- MODULE RunnerLifecycle --------------------------
(***************************************************************************)
(* What the store promises its readers about one runner's row: the life    *)
(* of a row, whoever writes it.  A row is created "pending", moves only    *)
(* along the transition table of the aggregate, and a row that is absent   *)
(* or terminal comes back to life in one way only: adoption, for which a   *)
(* container carrying the runner's labels has to be there.                 *)
(*                                                                         *)
(* Fleet implements this module; the two variables are the only ones a     *)
(* reader of the store can relate: the row's state, and whether a          *)
(* container is known for the runner.                                      *)
(***************************************************************************)
EXTENDS RunnerStates

CONSTANT Runners

VARIABLES
  status,   (* the state of each runner's row, or Absent                   *)
  backed    (* the runners that have a container, or that a pass under way *)
            (* has seen with one                                           *)

lifecycleVars == <<status, backed>>

LifecycleTypeOK ==
  /\ status \in [Runners -> RunnerState \cup {Absent}]
  /\ backed \subseteq Runners

LifecycleInit ==
  /\ status = [r \in Runners |-> Absent]
  /\ backed = {}

Create(r) ==
  /\ status[r] = Absent
  /\ r \notin backed
  /\ status' = [status EXCEPT ![r] = "pending"]
  /\ UNCHANGED backed

Move(r) ==
  /\ status[r] # Absent
  /\ \E s \in Transitions[status[r]] : status' = [status EXCEPT ![r] = s]
  /\ UNCHANGED backed

(* Several containers may be adopted by one pass over the host.            *)
Adopt ==
  \E R \in SUBSET backed :
    /\ R # {}
    /\ \A r \in R : status[r] \notin ActiveStates
    /\ \E s \in [R -> {"idle", "failed"}] :
         status' = [r \in Runners |-> IF r \in R THEN s[r] ELSE status[r]]
    /\ UNCHANGED backed

Prune(r) ==
  /\ status[r] \in TerminalStates
  /\ status' = [status EXCEPT ![r] = Absent]
  /\ UNCHANGED backed

(* The database is a projection: it may be lost, wholly.                   *)
Wipe ==
  /\ status' = [r \in Runners |-> Absent]
  /\ backed' \subseteq backed

(* A container is started only for a row that says so: registered, and     *)
(* nothing else.  Containers end at any time.                              *)
Back(r) ==
  /\ status[r] = "registered"
  /\ r \notin backed
  /\ backed' = backed \cup {r}
  /\ UNCHANGED status

Unback ==
  /\ backed' \subseteq backed
  /\ UNCHANGED status

LifecycleNext ==
  \/ Unback
  \/ \E r \in Runners : Create(r) \/ Move(r) \/ Prune(r) \/ Back(r)
  \/ Adopt
  \/ Wipe

LifecycleSpec == LifecycleInit /\ [][LifecycleNext]_lifecycleVars
=============================================================================
