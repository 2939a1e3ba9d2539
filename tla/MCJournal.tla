------------------------------ MODULE MCJournal ------------------------------
(* Instances of Journal for TLC.                                           *)
EXTENDS Journal

CONSTANTS r1, t1, t2, nobody

Alike == Permutations(Tasks)
=============================================================================
