----------------------------- MODULE Admission -----------------------------
(***************************************************************************)
(* admit (domain/policy/admission.py): how many of the launches every pool *)
(* planned the host will take in this tick.  Slots are handed out one by   *)
(* one by smooth weighted round robin, each against the ceilings on what   *)
(* is committed; a host above a high-water mark hands out none.            *)
(*                                                                         *)
(* Pools are numbered in the order of their names.  CPUs and memory are    *)
(* counted in whole units; a pool that reserves none costs 0.              *)
(***************************************************************************)
EXTENDS Integers, FiniteSets, Totals

CONSTANTS
  Pools,      (* the pools that were planned, as numbers                   *)
  Requests,   (* what they may ask for: functions from Pools               *)
  Limits,     (* the [capacity] tables an operator may write               *)
  Loads       (* the readings the host may give                            *)

(* A limit that is not configured; a reading that could not be taken.      *)
Unset == -1
Unknown == -1

Gauge == {"cpu", "memory", "disk", "io"}

IsRequest(q) ==
  /\ q.wanted \in Int
  /\ q.priority \in Int
  /\ {q.cpus, q.memory, q.committed} \subseteq Nat

IsLimits(l) ==
  /\ {l.containers, l.cpus, l.memory} \subseteq Nat \cup {Unset}
  /\ l.mark \in [Gauge -> Nat \cup {Unset}]

ASSUME AdmissionAssumption ==
  /\ IsFiniteSet(Pools)
  /\ Pools \subseteq Nat
  /\ \A r \in Requests : DOMAIN r = Pools /\ \A p \in Pools : IsRequest(r[p])
  /\ \A l \in Limits : IsLimits(l)
  /\ Loads \subseteq [Gauge -> Nat \cup {Unknown}]

VARIABLES
  request,    (* the call's arguments: per pool ...                        *)
  limits,     (* ... the ceilings and the marks ...                        *)
  load,       (* ... and the host's readings                               *)
  phase,      (* of the call                                               *)
  committed,  (* _Committed: what is promised so far                       *)
  remaining,  (* _Share.remaining                                          *)
  current,    (* _Share.current, the credit                                *)
  granted,    (* Admission.granted                                         *)
  blocked,    (* Admission.blocked                                         *)
  held        (* Admission.held_by: whether the host refused everything    *)

vars == <<request, limits, load, phase, committed, remaining, current,
          granted, blocked, held>>

inputs == <<request, limits, load>>

Zero == [p \in Pools |-> 0]

AtLeastZero(n) == IF n < 0 THEN 0 ELSE n

Weight(p) == IF request[p].priority < 1 THEN 1 ELSE request[p].priority

Init ==
  /\ request \in Requests
  /\ limits \in Limits
  /\ load \in Loads
  /\ phase = "called"
  /\ committed = [containers |-> 0, cpus |-> 0, memory |-> 0]
  /\ remaining = Zero
  /\ current = Zero
  /\ granted = Zero
  /\ blocked = {}
  /\ held = FALSE

Wanted == [p \in Pools |-> AtLeastZero(request[p].wanted)]

(* _backpressure: unknown readings never trip it.                          *)
Pressed ==
  \E g \in Gauge : /\ limits.mark[g] # Unset
                   /\ load[g] # Unknown
                   /\ load[g] >= limits.mark[g]

(* Nothing to decide, or nothing to be had.                                *)
Refuse ==
  /\ phase = "called"
  /\ Total(Wanted) = 0 \/ Pressed
  /\ held' = (Total(Wanted) # 0)
  /\ phase' = "done"
  /\ UNCHANGED <<inputs, committed, remaining, current, granted, blocked>>

Begin ==
  /\ phase = "called"
  /\ Total(Wanted) # 0
  /\ ~Pressed
  /\ committed' =
       [ containers |-> Total([p \in Pools |-> request[p].committed]),
         cpus   |-> Total([p \in Pools |-> request[p].committed * request[p].cpus]),
         memory |-> Total([p \in Pools |-> request[p].committed * request[p].memory]) ]
  /\ remaining' = Wanted
  /\ phase' = "sharing"
  /\ UNCHANGED <<inputs, current, granted, blocked, held>>

-----------------------------------------------------------------------------
(* What is committed once one more runner of p is.                         *)
With(p) ==
  [ containers |-> committed.containers + 1,
    cpus       |-> committed.cpus + request[p].cpus,
    memory     |-> committed.memory + request[p].memory ]

Ceiling == {"containers", "cpus", "memory"}

(* As a bug would have it: what is committed before; or one too early.     *)
AlreadyCrosses(p) == \E k \in Ceiling : limits[k] # Unset /\ committed[k] > limits[k]
EarlyCrosses(p) == \E k \in Ceiling : limits[k] # Unset /\ With(p)[k] >= limits[k]

(* _ceiling_reached: which ceiling one more runner would cross, if any.    *)
Crosses(p) == \E k \in Ceiling : limits[k] # Unset /\ With(p)[k] > limits[k]

Contenders == {p \in Pools : remaining[p] > 0}

ContendersWeight == Total([p \in Pools |-> IF p \in Contenders THEN Weight(p) ELSE 0])

(* Each round every contender gains its weight ...                         *)
Credited == [p \in Pools |-> current[p] + IF p \in Contenders THEN Weight(p) ELSE 0]

(* ... the richest wins, the first by name among equals; and, as a bug     *)
(* would have it, the heaviest does.                                       *)
IsHeaviest(p) ==
  /\ p \in Contenders
  /\ \A q \in Contenders :
       \/ Weight(p) > Weight(q)
       \/ Weight(p) = Weight(q) /\ p <= q

IsWinner(p) ==
  /\ p \in Contenders
  /\ \A q \in Contenders :
       \/ Credited[p] > Credited[q]
       \/ Credited[p] = Credited[q] /\ p <= q

(* ... and pays the total back.                                            *)
Pay(p) == current' = [Credited EXCEPT ![p] = @ - ContendersWeight]

Grant(p) ==
  /\ phase = "sharing"
  /\ IsWinner(p)
  /\ ~Crosses(p)
  /\ Pay(p)
  /\ granted' = [granted EXCEPT ![p] = @ + 1]
  /\ remaining' = [remaining EXCEPT ![p] = @ - 1]
  /\ committed' = With(p)
  /\ UNCHANGED <<inputs, phase, blocked, held>>

(* As a bug would have it: one pool's ceiling ends it for all; or the pool *)
(* stays in.                                                               *)
StoppingGiveUp(p) ==
  /\ phase = "sharing"
  /\ IsWinner(p)
  /\ Crosses(p)
  /\ remaining' = Zero
  /\ blocked' = blocked \cup {p}
  /\ UNCHANGED <<inputs, phase, committed, current, granted, held>>

LingeringGiveUp(p) ==
  /\ phase = "sharing"
  /\ IsWinner(p)
  /\ Crosses(p)
  /\ Pay(p)
  /\ blocked' = blocked \cup {p}
  /\ UNCHANGED <<inputs, phase, committed, remaining, granted, held>>

(* The pool drops out; the rest carry on.                                  *)
GiveUp(p) ==
  /\ phase = "sharing"
  /\ IsWinner(p)
  /\ Crosses(p)
  /\ Pay(p)
  /\ remaining' = [remaining EXCEPT ![p] = 0]
  /\ blocked' = blocked \cup {p}
  /\ UNCHANGED <<inputs, phase, committed, granted, held>>

End ==
  /\ phase = "sharing"
  /\ Contenders = {}
  /\ phase' = "done"
  /\ UNCHANGED <<inputs, committed, remaining, current, granted, blocked, held>>

Next ==
  \/ Refuse \/ Begin \/ End
  \/ \E p \in Pools : Grant(p) \/ GiveUp(p)

Spec == Init /\ [][Next]_vars

(* The call runs to its end.                                               *)
FairSpec == Spec /\ WF_vars(Next)

-----------------------------------------------------------------------------
TypeOK ==
  /\ request \in Requests
  /\ limits \in Limits
  /\ load \in Loads
  /\ phase \in {"called", "sharing", "done"}
  /\ committed \in [containers : Nat, cpus : Nat, memory : Nat]
  /\ remaining \in [Pools -> Nat]
  /\ current \in [Pools -> Int]
  /\ granted \in [Pools -> Nat]
  /\ blocked \subseteq Pools
  /\ held \in BOOLEAN

(* Whatever was already up, a runner is granted only within every ceiling  *)
(* that is set, counting what was granted before it to whichever pool.     *)
CeilingsHold ==
  \A p \in Pools : granted[p] > 0 =>
    \A k \in Ceiling : limits[k] # Unset => committed[k] <= limits[k]

(* No pool is given more than it asked for, or something after it was      *)
(* turned away.                                                            *)
GrantsAreWanted ==
  \A p \in Pools :
    /\ granted[p] + remaining[p] <= AtLeastZero(request[p].wanted)
    /\ p \in blocked => remaining[p] = 0

(* Capacity is not left lying about: a pool that got less than it asked    *)
(* for could not be given one more now, unless the host held everything.   *)
NothingIsWasted ==
  phase = "done" /\ ~held =>
    \A p \in Pools : granted[p] < AtLeastZero(request[p].wanted) => Crosses(p)

(* The pools that ask for anything, and what they weigh together.          *)
Asking == {p \in Pools : request[p].wanted > 0}

AskingWeight == Total([p \in Pools |-> IF p \in Asking THEN Weight(p) ELSE 0])

(* The credit is the debt: as long as nobody has dropped out, no pool is   *)
(* ever a whole slot ahead of its share of those handed out so far, and so *)
(* none is further behind than all the others can be ahead.                *)
SharesAreProportional ==
  phase = "sharing" /\ Contenders = Asking =>
    \A p \in Asking :
      LET lag == Total(granted) * Weight(p) - granted[p] * AskingWeight
      IN  -AskingWeight < lag /\ lag <= (Cardinality(Asking) - 1) * AskingWeight

(* What Fleet's Admit takes for granted of this policy: with nothing but   *)
(* max_containers set, the grants use up the room there is.                *)
RoomIsUsedUp ==
  phase = "done" /\ ~held /\ limits.cpus = Unset /\ limits.memory = Unset
      /\ limits.containers # Unset =>
    LET up   == Total([p \in Pools |-> request[p].committed])
        room == AtLeastZero(limits.containers - up)
    IN  Total(granted) = IF Total(Wanted) < room THEN Total(Wanted) ELSE room

(* A call always comes to its end: every round grants or drops somebody.   *)
CallEnds == (phase = "called") ~> (phase = "done")
=============================================================================
