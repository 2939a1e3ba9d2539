---------------------------- MODULE MCAdmission ----------------------------
(* An instance of Admission for TLC: three pools.                          *)
EXTENDS Admission

RequestsOf(wants, weights, cpus, ups) ==
  [wanted : wants, priority : weights, cpus : cpus, memory : {1}, committed : ups]

(* Two of the pools differ in everything, and the third asks for nothing;  *)
(* or all three want more than fits and differ in what they weigh.         *)
MixedRequests ==
  {[p \in Pools |-> IF p = 3 THEN third ELSE first[p]] :
     first \in [{1, 2} -> RequestsOf(0 .. 3, {0, 2}, {0, 1, 2}, {0, 2})],
     third \in RequestsOf({0}, {1}, {1}, {1})}

WeightedRequests == [Pools -> RequestsOf({2, 5}, {0, 2, 3, 5}, {1}, {0})]

SomeRequests == MixedRequests \cup WeightedRequests

NoMark == [g \in Gauge |-> Unset]

SomeLimits ==
  { [containers |-> 3, cpus |-> Unset, memory |-> Unset, mark |-> NoMark],
    [containers |-> 9, cpus |-> Unset, memory |-> Unset, mark |-> NoMark],
    [containers |-> 5, cpus |-> 4, memory |-> Unset, mark |-> [NoMark EXCEPT !["cpu"] = 1]],
    [containers |-> Unset, cpus |-> 5, memory |-> 3, mark |-> [NoMark EXCEPT !["io"] = 1]] }

Reading(n) == [g \in Gauge |-> IF g \in {"cpu", "io"} THEN n ELSE Unknown]

SomeLoads == {Reading(n) : n \in {0, 1}}
=============================================================================
