------------------------------ MODULE MCDaemon ------------------------------
(* Instances of Daemon for TLC.                                            *)
EXTENDS Daemon

CONSTANTS p1, p2, r1, r2

OneEach == [r \in Runners |-> IF r = r1 THEN p1 ELSE p2]

(* A reload may remove p2 and bring it back, or find what it must refuse. *)
Edits == [pools : {{p1}, Pools}, status : {"good"}]
           \cup {[pools |-> {p1}, status |-> "foreign"],
                 [pools |-> {}, status |-> "malformed"]}

EitherWay == {1, Unlimited}
=============================================================================
