--------------------------- MODULE RunnerStates ---------------------------
(***************************************************************************)
(* The state machine table of one runner record (domain/model/runner.py):  *)
(* the states, which moves the aggregate accepts, and the two groups of    *)
(* states every policy is written in terms of.  "absent" is not a state of *)
(* the code: it says that the store holds no row for that runner.          *)
(***************************************************************************)

RunnerState ==
  {"pending", "registered", "starting", "idle", "busy", "draining",
   "retired", "failed"}

Absent == "absent"

(* _TRANSITIONS: where _move_to lets a record in state s go.               *)
Transitions ==
  [ pending    |-> {"registered", "failed"},
    registered |-> {"starting", "retired", "failed"},
    starting   |-> {"idle", "busy", "retired", "failed"},
    idle       |-> {"busy", "draining", "retired", "failed"},
    busy       |-> {"draining", "retired", "failed"},
    draining   |-> {"retired", "failed"},
    retired    |-> {},
    failed     |-> {"retired"} ]

(* As a bug would have it: no guard.                                       *)
AnyMove(from, to) == TRUE

(* The named methods (mark_online, assign_job, retire, fail) return early  *)
(* when the record is already where they would put it, and otherwise raise *)
(* IllegalStateTransitionError unless the table has the move.              *)
MayMove(from, to) == from = to \/ to \in Transitions[from]

AvailableStates == {"registered", "starting", "idle"}

ActiveStates ==
  {"pending", "registered", "starting", "idle", "busy", "draining"}

TerminalStates == {"retired", "failed"}
=============================================================================
