------------------------------- MODULE Totals -------------------------------
(* The sum of a function's values, as the size of a disjoint union: unlike *)
(* a sum by recursion, its being a number can be proved.                   *)
EXTENDS Naturals, FiniteSets

Slots(f) == [x \in DOMAIN f |-> {x} \X (1 .. f[x])]

(* sum(...) over the pools, for a function to the naturals.                *)
Total(f) == Cardinality(UNION {Slots(f)[x] : x \in DOMAIN f})
=============================================================================
