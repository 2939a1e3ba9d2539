-------------------------- MODULE AdmissionProofs --------------------------
(***************************************************************************)
(* Admission, for any number of pools, any requests, limits and readings.  *)
(***************************************************************************)
EXTENDS QueueView, FiniteSetTheorems, TLAPS

(* The lemmas about totals, kept beside those about plans.                 *)
Lemmas == INSTANCE PolicyLemmas

(* The instance counts by the definition admission counts by.              *)
LEMMA TotalsAgree ==
  ASSUME NEW f
  PROVE  Total(f) = Lemmas!Total(f)
<1>1. \A S : Cardinality(S) = Lemmas!Cardinality(S)
  BY DEF Cardinality, Lemmas!Cardinality
<1>2. Slots(f) = Lemmas!Slots(f)
  BY DEF Slots, Lemmas!Slots
<1> QED BY <1>1, <1>2 DEF Total, Lemmas!Total

(* What _Committed starts from is a natural number.                        *)
LEMMA TotalIsNatural ==
  ASSUME NEW S, IsFiniteSet(S), NEW f \in [S -> Nat]
  PROVE  Total(f) \in Nat
<1>1. Lemmas!IsFiniteSet(S)
  BY DEF IsFiniteSet, Lemmas!IsFiniteSet
<1> QED BY <1>1, TotalsAgree, Lemmas!TotalIsNatural

(* When no launch is wanted in total, no pool wants one.                   *)
LEMMA NothingTotalsNothing ==
  ASSUME NEW S, IsFiniteSet(S), NEW f \in [S -> Nat], Total(f) = 0, NEW x \in S
  PROVE  f[x] = 0
<1>1. Lemmas!IsFiniteSet(S)
  BY DEF IsFiniteSet, Lemmas!IsFiniteSet
<1> QED BY <1>1, TotalsAgree, Lemmas!NothingTotalsNothing

(* Totals add, compare and multiply as sums do.                            *)
LEMMA TotalsAddUp ==
  ASSUME NEW S, IsFiniteSet(S), NEW f \in [S -> Nat]
  PROVE  /\ \A g \in [S -> Nat] : Total([x \in S |-> f[x] + g[x]]) = Total(f) + Total(g)
         /\ \A g \in [S -> Nat] : (\A x \in S : f[x] <= g[x]) => Total(f) <= Total(g)
         /\ \A g \in [S -> Nat], x \in S :
              (\A y \in S \ {x} : g[y] = f[y]) => Total(g) + f[x] = Total(f) + g[x]
<1>1. Lemmas!IsFiniteSet(S)
  BY DEF IsFiniteSet, Lemmas!IsFiniteSet
<1>2. ASSUME NEW g \in [S -> Nat]
      PROVE  Total([x \in S |-> f[x] + g[x]]) = Total(f) + Total(g)
  BY <1>1, TotalsAgree, Lemmas!TotalOfSum
<1>3. ASSUME NEW g \in [S -> Nat], \A x \in S : f[x] <= g[x]
      PROVE  Total(f) <= Total(g)
  BY <1>1, <1>3, TotalsAgree, Lemmas!TotalIsMonotone
<1>4. ASSUME NEW g \in [S -> Nat], NEW x \in S, \A y \in S \ {x} : g[y] = f[y]
      PROVE  Total(g) + f[x] = Total(f) + g[x]
  BY <1>1, <1>4, TotalsAgree, Lemmas!TotalOfOneChanged
<1> QED BY <1>2, <1>3, <1>4

(* The total of equals is a product.                                       *)
LEMMA TotalOfEquals ==
  ASSUME NEW S, IsFiniteSet(S), NEW A \in SUBSET S, NEW n \in Nat
  PROVE  Total([x \in S |-> IF x \in A THEN n ELSE 0]) = Cardinality(A) * n
<1>1. Lemmas!IsFiniteSet(S)
  BY DEF IsFiniteSet, Lemmas!IsFiniteSet
<1>2. Cardinality(A) = Lemmas!Cardinality(A)
  BY DEF Cardinality, Lemmas!Cardinality
<1> QED BY <1>1, <1>2, TotalsAgree, Lemmas!TotalOfEquals

(* What a call knows of its pools while it shares: who is out is out for a *)
(* ceiling, and who is not is still owed exactly the rest.                 *)
Books ==
  /\ phase = "called" =>
       granted = Zero /\ remaining = Zero /\ blocked = {} /\ ~held
  /\ phase = "sharing" => ~held
  /\ phase # "called" /\ ~held =>
       \A p \in Pools : /\ p \notin blocked => granted[p] + remaining[p] = Wanted[p]
                        /\ p \in blocked => Crosses(p)
  /\ phase = "done" => \A p \in Pools : held \/ remaining[p] = 0

(* The types of a call, whoever made it: what it asks need not be one of   *)
(* the requests Admission enumerates.                                      *)
CallIsTyped ==
  /\ DOMAIN request = Pools /\ \A p \in Pools : IsRequest(request[p])
  /\ limits \in Limits
  /\ load \in Loads
  /\ phase \in {"called", "sharing", "done"}
  /\ committed \in [containers : Nat, cpus : Nat, memory : Nat]
  /\ remaining \in [Pools -> Nat]
  /\ current \in [Pools -> Int]
  /\ granted \in [Pools -> Nat]
  /\ blocked \subseteq Pools
  /\ held \in BOOLEAN

AdmissionInv == CallIsTyped /\ Books /\ CeilingsHold /\ GrantsAreWanted

(* A request asks for a number of launches at a priority and a weight.     *)
LEMMA RequestsAreTyped ==
  ASSUME CallIsTyped, NEW p \in Pools
  PROVE  /\ request[p].wanted \in Int
         /\ request[p].priority \in Int
         /\ request[p].cpus \in Nat
         /\ request[p].memory \in Nat
         /\ request[p].committed \in Nat
BY DEF CallIsTyped, IsRequest

(* Credits and weights, and their sums, are numbers.                       *)
LEMMA SumsAreTyped ==
  ASSUME CallIsTyped
  PROVE  /\ Wanted \in [Pools -> Nat]
         /\ Total([p \in Pools |-> request[p].committed]) \in Nat
         /\ Total([p \in Pools |-> request[p].committed * request[p].cpus]) \in Nat
         /\ Total([p \in Pools |-> request[p].committed * request[p].memory]) \in Nat
         /\ ContendersWeight \in Nat
<1>1. Wanted \in [Pools -> Nat]
  BY RequestsAreTyped DEF Wanted, AtLeastZero
<1>2. [p \in Pools |-> request[p].committed] \in [Pools -> Nat]
  BY RequestsAreTyped
<1>3. [p \in Pools |-> request[p].committed * request[p].cpus] \in [Pools -> Nat]
  <2>1. \A a, b \in Nat : a * b \in Nat
    OBVIOUS
  <2> QED BY <2>1, RequestsAreTyped
<1>4. [p \in Pools |-> request[p].committed * request[p].memory] \in [Pools -> Nat]
  <2>1. \A a, b \in Nat : a * b \in Nat
    OBVIOUS
  <2> QED BY <2>1, RequestsAreTyped
<1>5. [p \in Pools |-> IF p \in Contenders THEN Weight(p) ELSE 0] \in [Pools -> Nat]
  BY RequestsAreTyped DEF Weight
<1> QED BY <1>1, <1>2, <1>3, <1>4, <1>5, TotalIsNatural, AdmissionAssumption
        DEF ContendersWeight

(* Paying the winner's turn leaves the credits typed.                      *)
LEMMA PayIsTyped ==
  ASSUME CallIsTyped, NEW p \in Pools, Pay(p)
  PROVE  current' \in [Pools -> Int]
<1>1. Credited \in [Pools -> Int]
  BY RequestsAreTyped DEF Credited, Weight, CallIsTyped
<1>2. ContendersWeight \in Nat
  BY SumsAreTyped
<1> QED BY <1>1, <1>2 DEF Pay

(* Counting one more launch leaves the commitment typed.                   *)
LEMMA WithIsTyped ==
  ASSUME CallIsTyped, NEW p \in Pools
  PROVE  /\ With(p) \in [containers : Nat, cpus : Nat, memory : Nat]
         /\ \A k \in Ceiling : With(p)[k] >= committed[k]
BY RequestsAreTyped DEF With, CallIsTyped, Ceiling

(* A ceiling is a number, wherever one is set.                             *)
LEMMA LimitsAreTyped ==
  ASSUME CallIsTyped, NEW k \in Ceiling
  PROVE  limits[k] \in Int
BY AdmissionAssumption DEF CallIsTyped, IsLimits, Ceiling, Unset

(* A pool that would cross a ceiling still does when more is committed.    *)
LEMMA CrossingLasts ==
  ASSUME CallIsTyped, CallIsTyped', UNCHANGED inputs, NEW p \in Pools, Crosses(p),
         \A k \in Ceiling : committed'[k] >= committed[k]
  PROVE  Crosses(p)'
<1>1. PICK k \in Ceiling : limits[k] # Unset /\ With(p)[k] > limits[k]
  BY DEF Crosses
<1>2. limits[k] \in Int
  BY LimitsAreTyped
<1>3. With(p)'[k] >= With(p)[k] /\ With(p)'[k] \in Int /\ With(p)[k] \in Int
  <2>1. committed'[k] >= committed[k]
    OBVIOUS
  <2>2. k \in {"containers", "cpus", "memory"}
    BY DEF Ceiling
  <2>3. request[p].cpus \in Nat /\ request[p].memory \in Nat
    BY RequestsAreTyped
  <2>4. request' = request
    BY DEF inputs
  <2>5. committed \in [containers : Nat, cpus : Nat, memory : Nat]
        /\ committed' \in [containers : Nat, cpus : Nat, memory : Nat]
    BY DEF CallIsTyped
  <2> QED BY <2>1, <2>2, <2>3, <2>4, <2>5 DEF With
<1>4. limits'[k] = limits[k] /\ With(p)'[k] > limits[k]
  BY <1>1, <1>2, <1>3 DEF inputs
<1> QED BY <1>1, <1>4 DEF Crosses, inputs

(* The account of a call, kept by every step of it.                        *)
LEMMA AdmissionInvIsKept ==
  ASSUME AdmissionInv, [Next]_vars
  PROVE  AdmissionInv'
<1> USE DEF AdmissionInv
<1>1. CASE Refuse
  <2>1. CallIsTyped'
    BY <1>1 DEF Refuse, CallIsTyped, inputs
  <2>2. Books'
    <3>1. granted = Zero /\ remaining = Zero /\ blocked = {}
      BY <1>1 DEF Refuse, Books
    <3>2. ASSUME ~held', NEW p \in Pools PROVE Wanted[p] = 0
      <4>1. Total(Wanted) = 0
        BY <1>1, <3>2 DEF Refuse
      <4> QED BY <4>1, SumsAreTyped, NothingTotalsNothing, AdmissionAssumption
    <3>3. Wanted' = Wanted
      BY <1>1 DEF Refuse, inputs, Wanted
    <3> QED BY <1>1, <3>1, <3>2, <3>3 DEF Refuse, Books, Zero
  <2>3. CeilingsHold'
    BY <1>1 DEF Refuse, CeilingsHold, inputs
  <2>4. GrantsAreWanted'
    BY <1>1 DEF Refuse, GrantsAreWanted, inputs
  <2> QED BY <2>1, <2>2, <2>3, <2>4
<1>2. CASE Begin
  <2>0. granted = Zero /\ remaining = Zero /\ blocked = {} /\ ~held
    BY <1>2 DEF Begin, Books
  <2>1. CallIsTyped'
    BY <1>2, SumsAreTyped DEF Begin, CallIsTyped, inputs
  <2>2. Books'
    <3>1. Wanted' = Wanted
      BY <1>2 DEF Begin, inputs, Wanted
    <3>2. \A p \in Pools : granted'[p] + remaining'[p] = Wanted'[p]
      BY <1>2, <2>0, <3>1, SumsAreTyped DEF Begin, Zero
    <3> QED BY <1>2, <2>0, <3>2 DEF Begin, Books
  <2>3. CeilingsHold'
    BY <1>2, <2>0 DEF Begin, CeilingsHold, Zero
  <2>4. GrantsAreWanted'
    BY <1>2, <2>0, SumsAreTyped DEF Begin, GrantsAreWanted, inputs, Zero, Wanted
  <2> QED BY <2>1, <2>2, <2>3, <2>4
<1>3. CASE End
  <2>1. CallIsTyped'
    BY <1>3 DEF End, CallIsTyped, inputs
  <2>2. Books'
    <3>1. Wanted' = Wanted /\ \A p \in Pools : Crosses(p)' <=> Crosses(p)
      BY <1>3 DEF End, inputs, Wanted, Crosses, With
    <3>2. \A p \in Pools : remaining[p] = 0
      BY <1>3 DEF End, Contenders, CallIsTyped
    <3> QED BY <1>3, <3>1, <3>2 DEF End, Books
  <2>3. CeilingsHold'
    BY <1>3 DEF End, CeilingsHold, inputs
  <2>4. GrantsAreWanted'
    BY <1>3 DEF End, GrantsAreWanted, inputs
  <2> QED BY <2>1, <2>2, <2>3, <2>4
<1>4. ASSUME NEW p \in Pools, Grant(p) PROVE AdmissionInv'
  <2>0. /\ remaining[p] > 0
        /\ p \notin blocked
        /\ \A q \in Pools : q # p => granted'[q] = granted[q] /\ remaining'[q] = remaining[q]
        /\ granted'[p] = granted[p] + 1
        /\ remaining'[p] = remaining[p] - 1
    BY <1>4 DEF Grant, IsWinner, Contenders, GrantsAreWanted, CallIsTyped
  <2>1. CallIsTyped'
    <3>1. committed' \in [containers : Nat, cpus : Nat, memory : Nat]
      BY <1>4, WithIsTyped DEF Grant
    <3>2. current' \in [Pools -> Int]
      BY <1>4, PayIsTyped DEF Grant
    <3>3. granted' \in [Pools -> Nat] /\ remaining' \in [Pools -> Nat]
      BY <1>4, <2>0 DEF Grant, CallIsTyped
    <3> QED BY <1>4, <3>1, <3>2, <3>3 DEF Grant, CallIsTyped, inputs
  <2>2. Books'
    <3>1. Wanted' = Wanted
      BY <1>4 DEF Grant, inputs, Wanted
    <3>2. \A q \in Pools : Crosses(q) => Crosses(q)'
      BY <1>4, <2>1, CrossingLasts, WithIsTyped DEF Grant
    <3>3. \A q \in Pools : granted'[q] + remaining'[q] = granted[q] + remaining[q]
      BY <2>0 DEF CallIsTyped
    <3> QED BY <1>4, <3>1, <3>2, <3>3 DEF Grant, Books
  <2>3. CeilingsHold'
    <3>1. ASSUME NEW k \in Ceiling, limits[k] # Unset PROVE With(p)[k] <= limits[k]
      <4>1. limits[k] \in Int
        BY LimitsAreTyped
      <4>2. With(p)[k] \in Int
        BY WithIsTyped DEF Ceiling
      <4>3. ~(With(p)[k] > limits[k])
        BY <1>4, <3>1 DEF Grant, Crosses
      <4> QED BY <4>1, <4>2, <4>3
    <3> QED BY <1>4, <3>1 DEF Grant, CeilingsHold, inputs
  <2>4. GrantsAreWanted'
    BY <1>4, <2>0 DEF Grant, GrantsAreWanted, inputs, CallIsTyped
  <2> QED BY <2>1, <2>2, <2>3, <2>4
<1>5. ASSUME NEW p \in Pools, GiveUp(p) PROVE AdmissionInv'
  <2>0. /\ \A q \in Pools : q # p => remaining'[q] = remaining[q]
        /\ remaining'[p] = 0
    BY <1>5 DEF GiveUp, CallIsTyped
  <2>1. CallIsTyped'
    <3>1. current' \in [Pools -> Int]
      BY <1>5, PayIsTyped DEF GiveUp
    <3> QED BY <1>5, <3>1 DEF GiveUp, CallIsTyped, inputs
  <2>2. Books'
    <3>1. Wanted' = Wanted /\ \A q \in Pools : Crosses(q)' <=> Crosses(q)
      BY <1>5 DEF GiveUp, inputs, Wanted, Crosses, With
    <3> QED BY <1>5, <2>0, <3>1 DEF GiveUp, Books
  <2>3. CeilingsHold'
    BY <1>5 DEF GiveUp, CeilingsHold, inputs
  <2>4. GrantsAreWanted'
    <3>1. \A q \in Pools : granted[q] \in Nat /\ remaining[q] \in Nat
      BY DEF CallIsTyped
    <3>2. \A q \in Pools : AtLeastZero(request[q].wanted) \in Int
      BY RequestsAreTyped DEF AtLeastZero
    <3> QED BY <1>5, <2>0, <3>1, <3>2 DEF GiveUp, GrantsAreWanted, inputs
  <2> QED BY <2>1, <2>2, <2>3, <2>4
<1>6. CASE UNCHANGED vars
  <2>1. CallIsTyped'
    BY <1>6 DEF vars, inputs, CallIsTyped
  <2>2. Books'
    BY <1>6 DEF vars, inputs, Books, Wanted, Crosses, With
  <2>3. CeilingsHold'
    BY <1>6 DEF vars, inputs, CeilingsHold
  <2>4. GrantsAreWanted'
    BY <1>6 DEF vars, inputs, GrantsAreWanted
  <2> QED BY <2>1, <2>2, <2>3, <2>4
<1> QED BY <1>1, <1>2, <1>3, <1>4, <1>5, <1>6 DEF Next

(* So the account is kept throughout a call of a pass.                     *)
LEMMA AdmissionInvHolds == Spec => []AdmissionInv
<1>1. Init => AdmissionInv
  <2> SUFFICES ASSUME Init PROVE AdmissionInv
    OBVIOUS
  <2>0. Zero \in [Pools -> Nat] /\ Zero \in [Pools -> Int]
    BY DEF Zero
  <2>1. CallIsTyped
    BY <2>0, AdmissionAssumption DEF Init, CallIsTyped
  <2>2. Books
    BY DEF Init, Books
  <2>3. CeilingsHold
    BY DEF Init, CeilingsHold, Zero
  <2>4. GrantsAreWanted
    BY <2>1, RequestsAreTyped DEF Init, GrantsAreWanted, Zero, AtLeastZero
  <2> QED BY <2>1, <2>2, <2>3, <2>4 DEF AdmissionInv
<1>2. AdmissionInv /\ [Next]_vars => AdmissionInv'
  BY AdmissionInvIsKept
<1> QED BY <1>1, <1>2, PTL DEF Spec

(* No launch is granted past a ceiling that is set (admit): containers,    *)
(* CPUs and memory, whatever the pools ask for and whatever is up already. *)
THEOREM CeilingsAlwaysHold == Spec => []CeilingsHold
<1>1. AdmissionInv => CeilingsHold
  BY DEF AdmissionInv
<1> QED BY <1>1, AdmissionInvHolds, PTL

(* No pool is given more launches than its plan asked for, and none once   *)
(* it has been turned away (_Share.take, _Share.give_up).                  *)
THEOREM GrantsAreAlwaysWanted == Spec => []GrantsAreWanted
<1>1. AdmissionInv => GrantsAreWanted
  BY DEF AdmissionInv
<1> QED BY <1>1, AdmissionInvHolds, PTL

(* When admit() returns and the host was not under pressure, a pool that   *)
(* got less than it asked for would cross a ceiling with one more.         *)
THEOREM NothingIsEverWasted == Spec => []NothingIsWasted
<1>1. AdmissionInv => NothingIsWasted
  <2> SUFFICES ASSUME AdmissionInv, phase = "done", ~held, NEW p \in Pools,
                      granted[p] < AtLeastZero(request[p].wanted)
               PROVE  Crosses(p)
    BY DEF NothingIsWasted
  <2>1. remaining[p] = 0 /\ granted[p] \in Nat
    BY DEF AdmissionInv, Books, CallIsTyped
  <2>2. granted[p] + remaining[p] # Wanted[p]
    BY <2>1, RequestsAreTyped DEF AdmissionInv, Wanted, AtLeastZero
  <2> QED BY <2>2 DEF AdmissionInv, Books
<1> QED BY <1>1, AdmissionInvHolds, PTL
-----------------------------------------------------------------------------
(* Credits, as long as nobody has dropped out: they are the slots a pool   *)
(* is behind its share, times the weight of all; none is a whole slot in   *)
(* debt; and shifted up by a slot each, so that they are natural numbers,  *)
(* they add up to as many slots as there are pools.                        *)
Shifted == [p \in Pools |-> IF p \in Asking THEN current[p] + AskingWeight ELSE 0]

Credits ==
  /\ phase = "called" => current = Zero
  /\ phase = "sharing" /\ Contenders = Asking =>
       /\ \A p \in Asking :
            /\ current[p] = Total(granted) * Weight(p) - granted[p] * AskingWeight
            /\ current[p] > -AskingWeight
       /\ Total(Shifted) = Cardinality(Asking) * AskingWeight

(* What is committed is what was up and what was granted since.            *)
Accounts ==
  phase # "called" /\ ~held /\ Total(Wanted) # 0 =>
    committed.containers = Total([p \in Pools |-> request[p].committed]) + Total(granted)

(* Weights are positive, and so is the weight of all when anybody asks.    *)
LEMMA WeightsArePositive ==
  ASSUME CallIsTyped
  PROVE  /\ \A p \in Pools : Weight(p) \in Nat /\ Weight(p) >= 1
         /\ [p \in Pools |-> IF p \in Asking THEN Weight(p) ELSE 0] \in [Pools -> Nat]
         /\ AskingWeight \in Nat
         /\ Asking # {} => AskingWeight >= 1
         /\ IsFiniteSet(Asking) /\ Cardinality(Asking) \in Nat
<1> DEFINE w == [p \in Pools |-> IF p \in Asking THEN Weight(p) ELSE 0]
<1>1. \A p \in Pools : Weight(p) \in Nat /\ Weight(p) >= 1
  BY RequestsAreTyped DEF Weight
<1>2. w \in [Pools -> Nat]
  BY <1>1
<1>3. AskingWeight = Total(w)
  BY DEF AskingWeight
<1>4. AskingWeight \in Nat
  <2> HIDE DEF w
  <2> QED BY <1>2, <1>3, TotalIsNatural, AdmissionAssumption
<1>5. ASSUME NEW p \in Asking, AskingWeight = 0 PROVE FALSE
  <2>1. p \in Pools /\ w[p] = Weight(p)
    BY DEF Asking
  <2>2. w[p] = 0
    <3> HIDE DEF w
    <3> QED BY <1>2, <1>3, <1>5, <2>1, NothingTotalsNothing, AdmissionAssumption
  <2> QED BY <1>1, <2>1, <2>2
<1>6. Asking # {} => AskingWeight >= 1
  BY <1>4, <1>5
<1>7. IsFiniteSet(Asking) /\ Cardinality(Asking) \in Nat
  BY AdmissionAssumption, FS_Subset, FS_CardinalityType DEF Asking
<1> QED BY <1>1, <1>2, <1>4, <1>6, <1>7

(* Who contends, asks.                                                     *)
LEMMA ContendersAsk ==
  ASSUME CallIsTyped, GrantsAreWanted
  PROVE  Contenders \subseteq Asking
<1> SUFFICES ASSUME NEW p \in Pools, remaining[p] > 0 PROVE request[p].wanted > 0
  BY DEF Contenders, Asking
<1>1. granted[p] \in Nat /\ remaining[p] \in Nat /\ request[p].wanted \in Int
  BY RequestsAreTyped DEF CallIsTyped
<1> QED BY <1>1 DEF GrantsAreWanted, AtLeastZero

(* A slot handed out moves the credits as the shares move.                 *)
LEMMA GrantKeepsCredits ==
  ASSUME CallIsTyped, CallIsTyped', GrantsAreWanted, Credits, NEW p \in Pools, Grant(p)
  PROVE  Credits'
<1> DEFINE W == AskingWeight
           n == Cardinality(Asking)
           weights == [q \in Pools |-> IF q \in Asking THEN Weight(q) ELSE 0]
           slot == [q \in Pools |-> IF q \in Asking THEN W ELSE 0]
           richer == [q \in Pools |-> Shifted[q] + weights[q]]
<1>1. /\ phase = "sharing" /\ phase' = "sharing" /\ request' = request
      /\ granted' = [granted EXCEPT ![p] = granted[p] + 1]
      /\ remaining' = [remaining EXCEPT ![p] = remaining[p] - 1]
      /\ IsWinner(p) /\ Pay(p)
  BY DEF Grant, inputs
<1>2. SUFFICES ASSUME Contenders' = Asking'
               PROVE  /\ \A q \in Asking :
                           /\ current'[q] = Total(granted') * Weight(q) - granted'[q] * W
                           /\ current'[q] > -W
                      /\ Total(Shifted') = n * W
  BY <1>1 DEF Credits, Asking, AskingWeight, Weight
<1>3. Contenders = Asking
  <2>1. ASSUME NEW q \in Asking' PROVE q \in Contenders
    <3>1. q \in Pools /\ remaining'[q] > 0
      BY <1>2, <2>1 DEF Contenders
    <3>2. remaining'[q] <= remaining[q] /\ remaining[q] \in Nat /\ remaining'[q] \in Nat
      BY <1>1, <3>1 DEF CallIsTyped
    <3> QED BY <3>1, <3>2 DEF Contenders
  <2> QED BY <1>1, <2>1, ContendersAsk DEF Asking
<1>4. /\ W \in Nat /\ W >= 1 /\ n \in Nat /\ IsFiniteSet(Pools) /\ p \in Asking
      /\ weights \in [Pools -> Nat] /\ Total(weights) = W /\ ContendersWeight = W
      /\ Asking \subseteq Pools /\ \A q \in Pools : Weight(q) \in Nat /\ Weight(q) >= 1
  BY <1>1, <1>3, WeightsArePositive, AdmissionAssumption
  DEF IsWinner, AskingWeight, ContendersWeight, Asking
<1>5. /\ \A q \in Asking : /\ current[q] \in Int /\ granted[q] \in Nat
                           /\ current[q] = Total(granted) * Weight(q) - granted[q] * W
                           /\ current[q] > -W
      /\ Total(Shifted) = n * W
  BY <1>1, <1>3, <1>4 DEF Credits, CallIsTyped
<1>6. Shifted \in [Pools -> Nat] /\ \A q \in Asking : Shifted[q] = current[q] + W
  <2>1. \A q \in Asking : current[q] + W \in Nat
    BY <1>4, <1>5
  <2> QED BY <1>4, <2>1 DEF Shifted
<1>7. richer \in [Pools -> Nat] /\ Total(richer) = n * W + W
  <2>1. richer \in [Pools -> Nat]
    BY <1>4, <1>6
  <2>2. Total(richer) = Total(Shifted) + Total(weights)
    <3> HIDE DEF weights
    <3> QED BY <1>4, <1>6, TotalsAddUp
  <2> QED BY <1>4, <1>5, <2>1, <2>2
<1>8. /\ \A q \in Asking : /\ Credited[q] = current[q] + Weight(q) /\ Credited[q] \in Int
                           /\ richer[q] = Credited[q] + W
      /\ \A q \in Pools \ Asking : richer[q] = 0
  <2>1. \A q \in Asking : Credited[q] = current[q] + Weight(q)
    BY <1>3, <1>4 DEF Credited
  <2>2. \A q \in Asking : richer[q] = current[q] + W + Weight(q)
    BY <1>4, <1>6
  <2>3. \A q \in Pools \ Asking : richer[q] = 0
    BY DEF Shifted
  <2> HIDE DEF richer, W
  <2> QED BY <1>4, <1>5, <2>1, <2>2, <2>3
<1> HIDE DEF richer, weights, W, n
<1>9. Credited[p] > 0
  <2>1. Credited[p] \in Int
    BY <1>4, <1>5, <1>8
  <2> SUFFICES ASSUME Credited[p] <= 0 PROVE FALSE
    BY <2>1
  <2>2. \A q \in Asking : Credited[q] <= 0
    <3> SUFFICES ASSUME NEW q \in Asking PROVE Credited[q] <= 0
      OBVIOUS
    <3>1. Credited[q] \in Int
      BY <1>4, <1>5, <1>8
    <3>2. Credited[p] > Credited[q] \/ Credited[p] = Credited[q]
      BY <1>1, <1>3 DEF IsWinner
    <3> QED BY <2>1, <3>1, <3>2
  <2>3. slot \in [Pools -> Nat] /\ Total(slot) = n * W
    <3>1. slot \in [Pools -> Nat]
      BY <1>4
    <3>2. Total(slot) = Cardinality(Asking) * W
      BY <1>4, TotalOfEquals
    <3> QED BY <3>1, <3>2 DEF n
  <2>4. \A q \in Pools : richer[q] <= slot[q]
    <3> SUFFICES ASSUME NEW q \in Pools PROVE richer[q] <= slot[q]
      OBVIOUS
    <3>1. CASE q \in Asking
      BY <3>1, <1>4, <1>5, <1>8, <2>2
    <3>2. CASE q \notin Asking
      BY <3>2, <1>8
    <3> QED BY <3>1, <3>2
  <2>5. Total(richer) <= Total(slot)
    <3> HIDE DEF richer, slot
    <3> QED BY <1>4, <1>7, <2>3, <2>4, TotalsAddUp
  <2>6. n * W \in Nat
    BY <1>4
  <2> QED BY <1>4, <1>7, <2>3, <2>5, <2>6
<1>10. /\ current'[p] = Credited[p] - W
       /\ \A q \in Asking \ {p} : current'[q] = Credited[q]
  BY <1>1, <1>4 DEF Pay, Credited
<1>11. granted \in [Pools -> Nat] /\ Total(granted) \in Nat
       /\ Total(granted') = Total(granted) + 1
  <2>1. granted \in [Pools -> Nat] /\ granted[p] \in Nat /\ Total(granted) \in Nat
    BY TotalIsNatural, <1>4 DEF CallIsTyped
  <2>2. /\ granted' \in [Pools -> Nat] /\ granted'[p] = granted[p] + 1
        /\ \A q \in Pools \ {p} : granted'[q] = granted[q]
    BY <1>1, <2>1 DEF CallIsTyped
  <2>3. Total(granted') + granted[p] = Total(granted) + (granted[p] + 1)
    BY <1>4, <2>1, <2>2, TotalsAddUp
  <2>4. Total(granted') \in Nat
    BY TotalIsNatural, <1>4 DEF CallIsTyped
  <2> QED BY <2>1, <2>3, <2>4
<1>12. ASSUME NEW q \in Asking
       PROVE  /\ current'[q] = Total(granted') * Weight(q) - granted'[q] * W
              /\ current'[q] > -W
  <2>0. \A t, w, g, W_ \in Int : (t + 1) * w - g * W_ = (t * w - g * W_) + w
                              /\ (t + 1) * w - (g + 1) * W_ = (t * w - g * W_) + w - W_
    OBVIOUS
  <2> DEFINE t == Total(granted)
             w == Weight(q)
             g == granted[q]
  <2>1. t \in Int /\ w \in Int /\ w >= 1 /\ g \in Int /\ W \in Int /\ W >= 1
        /\ Total(granted') = t + 1 /\ current[q] \in Int
    BY <1>4, <1>5, <1>11
  <2>2. current[q] = t * w - g * W /\ current[q] > -W /\ Credited[q] = current[q] + w
    BY <1>5, <1>8
  <2>3. CASE q = p
    <3>1. granted'[q] = g + 1 /\ current'[q] = Credited[q] - W /\ Credited[q] > 0
      BY <2>3, <1>1, <1>4, <1>9, <1>10, <1>11
    <3>2. (t + 1) * w - (g + 1) * W = (t * w - g * W) + w - W
      <4> HIDE DEF t, w, g, W
      <4> QED BY <2>0, <2>1
    <3> HIDE DEF t, w, g, W
    <3> QED BY <2>1, <2>2, <3>1, <3>2 DEF t, w, g, W
  <2>4. CASE q # p
    <3>1. granted'[q] = g /\ current'[q] = Credited[q]
      BY <2>4, <1>1, <1>4, <1>10, <1>11
    <3>2. (t + 1) * w - g * W = (t * w - g * W) + w
      <4> HIDE DEF t, w, g, W
      <4> QED BY <2>0, <2>1
    <3> HIDE DEF t, w, g, W
    <3> QED BY <2>1, <2>2, <3>1, <3>2 DEF t, w, g, W
  <2> QED BY <2>3, <2>4
<1>13. Total(Shifted') = n * W
  <2>1. /\ Shifted' \in [Pools -> Nat] /\ Shifted'[p] = richer[p] - W
        /\ \A q \in Pools \ {p} : Shifted'[q] = richer[q]
    <3>1. Shifted' = [q \in Pools |-> IF q \in Asking THEN current'[q] + W ELSE 0]
      BY <1>1 DEF Shifted, Asking, AskingWeight, Weight, W
    <3>2. ASSUME NEW q \in Pools
          PROVE  Shifted'[q] = IF q = p THEN richer[p] - W ELSE richer[q]
      <4>1. CASE q \in Asking
        BY <4>1, <3>1, <1>4, <1>5, <1>8, <1>10
      <4>2. CASE q \notin Asking
        BY <4>2, <3>1, <1>4, <1>8
      <4> QED BY <4>1, <4>2
    <3>3. DOMAIN Shifted' = Pools /\ Shifted' = [q \in Pools |-> Shifted'[q]]
      BY <3>1
    <3>4. richer[p] - W \in Nat
      BY <1>4, <1>8, <1>9
    <3> QED BY <1>4, <1>7, <3>2, <3>3, <3>4
  <2>2. richer[p] \in Nat
    BY <1>4, <1>7
  <2>3. Total(Shifted') + richer[p] = Total(richer) + (richer[p] - W)
    BY <1>4, <1>7, <2>1, TotalsAddUp
  <2>4. Total(Shifted') \in Nat
    BY <1>4, <2>1, TotalIsNatural
  <2>5. n * W \in Nat
    BY <1>4
  <2> QED BY <1>4, <1>7, <2>2, <2>3, <2>4, <2>5
<1> QED BY <1>12, <1>13

(* The credits are as shares are, throughout a call.                       *)
LEMMA CreditsAreKept ==
  ASSUME AdmissionInv, AdmissionInv', Credits, [Next]_vars
  PROVE  Credits'
<1> USE DEF AdmissionInv
<1>1. CASE Refuse \/ End
  BY <1>1 DEF Refuse, End, Credits
<1>2. CASE Begin
  <2> DEFINE slot == [p \in Pools |-> IF p \in Asking THEN AskingWeight ELSE 0]
  <2>1. /\ phase' = "sharing" /\ request' = request
        /\ current' = Zero /\ granted' = Zero
    BY <1>2 DEF Begin, inputs, Credits, Books
  <2>2. Asking' = Asking /\ AskingWeight' = AskingWeight
        /\ \A p \in Pools : Weight(p)' = Weight(p)
    BY <2>1 DEF Asking, AskingWeight, Weight
  <2>3. AskingWeight \in Nat /\ Asking \in SUBSET Pools /\ IsFiniteSet(Pools)
        /\ \A p \in Asking : AskingWeight >= 1 /\ Weight(p) \in Nat
    BY WeightsArePositive, AdmissionAssumption DEF Asking
  <2>4. Total(Zero) = 0
    <3>1. Zero = [p \in Pools |-> IF p \in {} THEN 0 ELSE 0]
      BY DEF Zero
    <3>2. Total([p \in Pools |-> IF p \in {} THEN 0 ELSE 0]) = Cardinality({}) * 0
      BY <2>3, TotalOfEquals
    <3> QED BY <3>1, <3>2, FS_EmptySet
  <2>5. ASSUME NEW p \in Asking
        PROVE  /\ current'[p] = Total(granted') * Weight(p) - granted'[p] * AskingWeight
               /\ current'[p] > -AskingWeight
    <3>1. current'[p] = 0 /\ granted'[p] = 0 /\ Total(granted') = 0
      BY <2>1, <2>3, <2>4 DEF Zero
    <3>2. \A m, n \in Nat : 0 = 0 * m - 0 * n
      OBVIOUS
    <3> QED BY <2>3, <3>1, <3>2
  <2>6. Shifted' = slot
    <3>1. \A p \in Pools : Shifted'[p] = slot[p]
      BY <2>1, <2>2, <2>3 DEF Shifted, Zero
    <3> QED BY <3>1 DEF Shifted
  <2>7. Total(slot) = Cardinality(Asking) * AskingWeight
    BY <2>3, TotalOfEquals
  <2>8. Total(Shifted') = Cardinality(Asking') * AskingWeight'
    BY <2>2, <2>6, <2>7
  <2>9. \A p \in Asking' :
          /\ current'[p] = Total(granted') * Weight(p)' - granted'[p] * AskingWeight'
          /\ current'[p] > -AskingWeight'
    <3> SUFFICES ASSUME NEW p \in Asking
                 PROVE  /\ current'[p] = Total(granted') * Weight(p)' - granted'[p] * AskingWeight'
                        /\ current'[p] > -AskingWeight'
      BY <2>2
    <3>1. Weight(p)' = Weight(p)
      BY <2>2, <2>3
    <3> QED BY <2>2, <2>5, <3>1
  <2> QED BY <2>1, <2>8, <2>9 DEF Credits
<1>3. ASSUME NEW p \in Pools, GiveUp(p) PROVE Credits'
  <2>1. p \in Asking /\ Asking' = Asking /\ phase' = "sharing"
    BY <1>3, ContendersAsk DEF GiveUp, IsWinner, Asking, inputs
  <2>2. p \notin Contenders'
    BY <1>3 DEF GiveUp, Contenders, CallIsTyped
  <2> QED BY <2>1, <2>2 DEF Credits
<1>4. ASSUME NEW p \in Pools, Grant(p) PROVE Credits'
  BY <1>4, GrantKeepsCredits
<1>5. CASE UNCHANGED vars
  BY <1>5 DEF vars, inputs, Credits, Contenders, Asking, AskingWeight, Weight, Shifted
<1> QED BY <1>1, <1>2, <1>3, <1>4, <1>5 DEF Next

(* What is committed is kept by every step of a call.                      *)
LEMMA AccountsAreKept ==
  ASSUME AdmissionInv, AdmissionInv', Accounts, [Next]_vars
  PROVE  Accounts'
<1> USE DEF AdmissionInv
<1> DEFINE up == Total([p \in Pools |-> request[p].committed])
<1>0. IsFiniteSet(Pools) /\ granted \in [Pools -> Nat] /\ up \in Nat
  BY AdmissionAssumption, SumsAreTyped DEF CallIsTyped
<1>1. CASE Refuse
  BY <1>1 DEF Refuse, Accounts, inputs, Wanted
<1>2. CASE Begin
  <2>1. committed'.containers = up /\ granted' = Zero /\ request' = request
    BY <1>2 DEF Begin, inputs, Books
  <2>2. Total(Zero) = 0
    <3>1. Zero = [p \in Pools |-> IF p \in {} THEN 0 ELSE 0]
      BY DEF Zero
    <3>2. Total([p \in Pools |-> IF p \in {} THEN 0 ELSE 0]) = Cardinality({}) * 0
      BY <1>0, TotalOfEquals
    <3> QED BY <3>1, <3>2, FS_EmptySet
  <2> HIDE DEF up
  <2>3. committed'.containers = up + Total(granted')
    BY <1>0, <2>1, <2>2
  <2> QED BY <2>1, <2>3 DEF Accounts, up
<1>3. CASE End \/ \E p \in Pools : GiveUp(p)
  BY <1>3 DEF End, GiveUp, Accounts, inputs, Wanted, Books
<1>4. ASSUME NEW p \in Pools, Grant(p) PROVE Accounts'
  <2>1. /\ granted' \in [Pools -> Nat] /\ granted'[p] = granted[p] + 1
        /\ \A q \in Pools \ {p} : granted'[q] = granted[q]
    BY <1>4 DEF Grant, CallIsTyped
  <2>2. Total(granted') + granted[p] = Total(granted) + (granted[p] + 1)
    BY <1>0, <2>1, TotalsAddUp
  <2>3. Total(granted) \in Nat /\ Total(granted') \in Nat /\ granted[p] \in Nat
    BY <1>0, <2>1, TotalIsNatural
  <2>4. /\ committed'.containers = committed.containers + 1 /\ committed.containers \in Nat
        /\ request' = request /\ held' = held /\ phase = "sharing" /\ phase' = "sharing"
    BY <1>4 DEF Grant, With, inputs, CallIsTyped
  <2>5. up' = up /\ Wanted' = Wanted
    BY <2>4 DEF Wanted
  <2> HIDE DEF up
  <2>6. ~held /\ Total(Wanted) # 0 => committed'.containers = up' + Total(granted')
    BY <1>0, <2>2, <2>3, <2>4, <2>5 DEF Accounts, up
  <2> QED BY <2>4, <2>5, <2>6 DEF Accounts, up
<1>5. CASE UNCHANGED vars
  BY <1>5 DEF vars, inputs, Accounts, Wanted
<1> QED BY <1>1, <1>2, <1>3, <1>4, <1>5 DEF Next

(* Both hold of every call.                                                *)
LEMMA CreditsHold == Spec => [](AdmissionInv /\ Credits /\ Accounts)
<1>1. Init => Credits /\ Accounts
  BY DEF Init, Credits, Accounts
<1>2. AdmissionInv /\ AdmissionInv' /\ Credits /\ Accounts /\ [Next]_vars
        => Credits' /\ Accounts'
  BY CreditsAreKept, AccountsAreKept
<1> QED BY <1>1, <1>2, AdmissionInvHolds, PTL DEF Spec

(* Slots are handed out in proportion to weight (_shares), for any number  *)
(* of pools of any weights: until somebody drops out nobody is a whole     *)
(* slot ahead, and nobody further behind than the others can be ahead.     *)
THEOREM SharesAreAlwaysProportional == Spec => []SharesAreProportional
<1>1. AdmissionInv /\ Credits => SharesAreProportional
  <2> DEFINE W == AskingWeight
             n == Cardinality(Asking)
  <2> SUFFICES ASSUME AdmissionInv, Credits, phase = "sharing", Contenders = Asking,
                      NEW p \in Asking
               PROVE  /\ -W < Total(granted) * Weight(p) - granted[p] * W
                      /\ Total(granted) * Weight(p) - granted[p] * W <= (n - 1) * W
    BY DEF SharesAreProportional
  <2> USE DEF AdmissionInv
  <2>1. /\ W \in Nat /\ n \in Nat /\ IsFiniteSet(Pools) /\ p \in Pools
        /\ {p} \in SUBSET Pools /\ Asking \subseteq Pools
    BY WeightsArePositive, AdmissionAssumption DEF Asking
  <2>2. /\ \A q \in Asking : current[q] \in Int /\ current[q] > -W
        /\ current[p] = Total(granted) * Weight(p) - granted[p] * W
        /\ Total(Shifted) = n * W
    BY <2>1 DEF Credits, CallIsTyped
  <2>3. Shifted \in [Pools -> Nat] /\ Shifted[p] = current[p] + W
    <3>1. \A q \in Asking : current[q] + W \in Nat
      BY <2>1, <2>2
    <3> QED BY <2>1, <3>1 DEF Shifted
  <2> DEFINE m == Shifted[p]
             alone == [q \in Pools |-> IF q \in {p} THEN m ELSE 0]
  <2> HIDE DEF W, n
  <2>4. m \in Nat
    BY <2>1, <2>3
  <2>5. alone \in [Pools -> Nat] /\ \A q \in Pools : alone[q] <= Shifted[q]
    BY <2>1, <2>3
  <2> HIDE DEF m
  <2>6. Total(alone) = m
    <3>1. Total(alone) = Cardinality({p}) * m
      BY <2>1, <2>4, TotalOfEquals
    <3>2. Cardinality({p}) = 1
      BY FS_Singleton
    <3> HIDE DEF alone
    <3> QED BY <2>4, <3>1, <3>2
  <2>7. Total(alone) <= Total(Shifted)
    <3> HIDE DEF alone
    <3> QED BY <2>1, <2>3, <2>5, TotalsAddUp
  <2>8. m <= n * W
    BY <2>2, <2>6, <2>7
  <2>9. (n - 1) * W = n * W - W /\ n * W \in Nat
    BY <2>1
  <2>10. current[p] <= (n - 1) * W
    BY <2>1, <2>2, <2>3, <2>8, <2>9 DEF m
  <2> QED BY <2>2, <2>10
<1> QED BY <1>1, CreditsHold, PTL

(* With nothing but max_containers set, what admit() grants is the room    *)
(* there is, or all that is wanted: what Fleet's Admit takes for granted.  *)
THEOREM RoomIsAlwaysUsedUp == Spec => []RoomIsUsedUp
<1>1. AdmissionInv /\ Accounts => RoomIsUsedUp
  <2> DEFINE up == Total([p \in Pools |-> request[p].committed])
             limit == limits.containers
             got == Total(granted)
             asked == Total(Wanted)
  <2> SUFFICES ASSUME AdmissionInv, Accounts, phase = "done", ~held,
                      limits.cpus = Unset, limits.memory = Unset, limit # Unset
               PROVE  got = IF asked < AtLeastZero(limit - up)
                              THEN asked ELSE AtLeastZero(limit - up)
    BY DEF RoomIsUsedUp
  <2> USE DEF AdmissionInv
  <2>1. /\ up \in Nat /\ limit \in Int /\ got \in Nat /\ asked \in Nat
        /\ granted \in [Pools -> Nat] /\ Wanted \in [Pools -> Nat] /\ IsFiniteSet(Pools)
    BY SumsAreTyped, LimitsAreTyped, TotalIsNatural, AdmissionAssumption DEF CallIsTyped, Ceiling
  <2>2. limit \in Nat
    BY AdmissionAssumption DEF CallIsTyped, IsLimits, Unset
  <2>3. \A p \in Pools : granted[p] <= Wanted[p]
    <3> SUFFICES ASSUME NEW p \in Pools PROVE granted[p] <= Wanted[p]
      OBVIOUS
    <3>1. granted[p] \in Nat /\ remaining[p] \in Nat /\ Wanted[p] \in Nat
      BY <2>1 DEF CallIsTyped
    <3> QED BY <3>1 DEF GrantsAreWanted, Wanted
  <2>4. got <= asked
    BY <2>1, <2>3, TotalsAddUp
  <2>5. asked # 0 => committed.containers = up + got
    BY DEF Accounts
  <2>6. got # 0 => up + got <= limit
    <3> SUFFICES ASSUME got # 0 PROVE up + got <= limit
      OBVIOUS
    <3>1. PICK p \in Pools : granted[p] > 0
      <4> SUFFICES ASSUME \A p \in Pools : ~(granted[p] > 0) PROVE FALSE
        OBVIOUS
      <4>1. granted = [p \in Pools |-> IF p \in {} THEN 0 ELSE 0]
        BY <2>1
      <4>2. Total([p \in Pools |-> IF p \in {} THEN 0 ELSE 0]) = Cardinality({}) * 0
        BY <2>1, TotalOfEquals
      <4> QED BY <4>1, <4>2, FS_EmptySet
    <3>2. committed.containers <= limit
      BY <3>1 DEF CeilingsHold, Ceiling
    <3>3. asked # 0
      BY <2>1, <2>4
    <3> QED BY <2>5, <3>2, <3>3
  <2>7. CASE \A p \in Pools : granted[p] = Wanted[p]
    <3>1. granted = Wanted
      BY <2>1, <2>7
    <3>2. got = asked
      BY <3>1
    <3> HIDE DEF up, limit, got, asked
    <3> QED BY <2>1, <2>2, <2>6, <3>2 DEF AtLeastZero
  <2>8. ASSUME NEW p \in Pools, granted[p] # Wanted[p]
        PROVE  got = IF asked < AtLeastZero(limit - up)
                       THEN asked ELSE AtLeastZero(limit - up)
    <3>1. Crosses(p)
      BY <2>8 DEF Books, CallIsTyped
    <3>2. committed.containers + 1 > limit
      BY <3>1 DEF Crosses, With, Ceiling
    <3>3. asked # 0
      <4>1. Wanted[p] # 0
        BY <2>1, <2>3, <2>8
      <4> QED BY <2>1, <4>1, NothingTotalsNothing
    <3> HIDE DEF up, limit, got, asked
    <3> QED BY <2>1, <2>2, <2>4, <2>5, <2>6, <3>2, <3>3 DEF AtLeastZero
  <2> QED BY <2>7, <2>8
<1> QED BY <1>1, CreditsHold, PTL
-----------------------------------------------------------------------------
(* The queue view.                                                         *)

(* What a pass records, given the targets it names as unreadable.          *)
SnapshotOf(U) ==
  [ entries    |-> [i \in Demand |-> EntryOf(i)],
    pools      |-> [p \in Planned |-> PressureOf(p)],
    host       |-> HostPressure,
    unreadable |-> U ]

(* The call is made with what the plans ask for; what is recorded is what  *)
(* it ended with; and a daemon that is up records in time.                 *)
ViewInv ==
  /\ AdmissionInv
  /\ fleet \in Fleets /\ queue \in Queues /\ read \in Readings
  /\ request = [p \in Pools |-> RequestOf(p)]
  /\ held => Pressed /\ Total(Wanted) # 0
  /\ Recorded => phase = "done" /\ \E U \in Unreadables : snapshot = SnapshotOf(U)
  /\ age \in Nat /\ daemon \in {"up", "blind", "down"}
  /\ daemon = "up" => age <= Interval + PassTime

(* Sets are counted alike by the plans, by the lemmas and here.            *)
LEMMA CountsAgree ==
  ASSUME NEW S
  PROVE  /\ Plan!Cardinality(S) = Cardinality(S) /\ Lemmas!Cardinality(S) = Cardinality(S)
         /\ Plan!IsFiniteSet(S) <=> IsFiniteSet(S)
         /\ Lemmas!IsFiniteSet(S) <=> IsFiniteSet(S)
<1>1. \A T : Plan!Cardinality(T) = Cardinality(T) /\ Lemmas!Cardinality(T) = Cardinality(T)
  BY DEF Cardinality, Plan!Cardinality, Lemmas!Cardinality
<1>2. Plan!IsFiniteSet(S) <=> IsFiniteSet(S)
  BY DEF IsFiniteSet, Plan!IsFiniteSet
<1>3. Lemmas!IsFiniteSet(S) <=> IsFiniteSet(S)
  BY DEF IsFiniteSet, Lemmas!IsFiniteSet
<1> QED BY <1>1, <1>2, <1>3

(* The groups a plan counts, and what it launches, of a pool as observed.  *)
LEMMA PlansAreTyped ==
  ASSUME fleet \in Fleets, NEW p \in Pools
  PROVE  LET spec == fleet[p].spec
             v == fleet[p].view
         IN  /\ IsFiniteSet(DOMAIN v.state)
             /\ IsFiniteSet(Plan!Active(v)) /\ Cardinality(Plan!Active(v)) \in Nat
             /\ IsFiniteSet(Plan!Overrunning(spec, v))
             /\ Plan!Overrunning(spec, v) \subseteq Plan!Active(v)
             /\ IsFiniteSet(Plan!Available(spec, v))
             /\ Cardinality(Plan!Active(v)) <= spec.max_runners
             /\ spec.max_runners \in Nat /\ spec.max_launch_per_tick \in Nat
             /\ spec.priority \in Int /\ spec.cpus \in Nat
<1> DEFINE spec == fleet[p].spec
           v == fleet[p].view
<1>1. /\ Plan!IsPoolSpec(spec) /\ Plan!IsPoolView(v)
      /\ Cardinality(Plan!Active(v)) <= spec.max_runners
      /\ spec.priority \in Int /\ spec.cpus \in Nat
  BY QueueViewAssumption
<1>2. /\ IsFiniteSet(DOMAIN v.state)
      /\ spec.max_runners \in Nat /\ spec.max_launch_per_tick \in Nat
  BY <1>1, CountsAgree DEF Plan!IsPoolSpec, Plan!IsPoolView
<1>3. /\ Plan!Active(v) \in SUBSET DOMAIN v.state
      /\ Plan!Overrunning(spec, v) \in SUBSET Plan!Active(v)
      /\ Plan!Available(spec, v) \in SUBSET DOMAIN v.state
  BY DEF Plan!Active, Plan!Overrunning, Plan!Available, Plan!InState, Plan!ActiveStates
<1>4. IsFiniteSet(Plan!Active(v)) /\ IsFiniteSet(Plan!Available(spec, v))
  BY <1>2, <1>3, FS_Subset
<1>5. IsFiniteSet(Plan!Overrunning(spec, v))
  BY <1>3, <1>4, FS_Subset
<1> QED BY <1>1, <1>2, <1>3, <1>4, <1>5, FS_CardinalityType

(* A plan is for a number of launches: no more than the tick allows, no    *)
(* more than the pool has room for besides those it keeps; and, unless the *)
(* tick is used up, all the room or all the queue needs.                   *)
LEMMA PlansAreBounded ==
  ASSUME fleet \in Fleets, NEW p \in Pools, NEW n \in Nat
  PROVE  LET spec == fleet[p].spec
             v == fleet[p].view
             ask == Plan!Launch(spec, v, n)
             kept == Plan!Active(v) \ Plan!Overrunning(spec, v)
             free == Plan!Available(spec, v)
         IN  /\ ask \in Nat
             /\ ask <= spec.max_launch_per_tick
             /\ IsFiniteSet(kept) /\ Cardinality(kept) \in Nat /\ Cardinality(free) \in Nat
             /\ ask + Cardinality(kept) <= spec.max_runners
             /\ \/ ask = spec.max_launch_per_tick
                \/ ask + Cardinality(kept) = spec.max_runners
                \/ ask + Cardinality(free) >= n
<1> DEFINE spec == fleet[p].spec
           v == fleet[p].view
           a == Cardinality(Plan!Active(v))
           o == Cardinality(Plan!Overrunning(spec, v))
           f == Cardinality(Plan!Available(spec, v))
           kept == Plan!Active(v) \ Plan!Overrunning(spec, v)
           uncovered == Plan!Uncovered(spec, v, n)
           shortfall == Plan!WarmShortfall(spec, v, n)
           room == Plan!Headroom(spec, v)
           m == spec.max_runners
           t == spec.max_launch_per_tick
<1>1. /\ a \in Nat /\ o \in Nat /\ f \in Nat /\ o <= a /\ a <= m /\ m \in Nat /\ t \in Nat
      /\ IsFiniteSet(kept) /\ Cardinality(kept) = a - o
  <2>1. /\ IsFiniteSet(Plan!Active(v)) /\ IsFiniteSet(Plan!Overrunning(spec, v))
        /\ IsFiniteSet(Plan!Available(spec, v)) /\ a <= m /\ m \in Nat /\ t \in Nat
        /\ Plan!Overrunning(spec, v) \in SUBSET Plan!Active(v)
    BY PlansAreTyped
  <2>2. a \in Nat /\ o \in Nat /\ f \in Nat /\ o <= a
    BY <2>1, FS_CardinalityType, FS_Subset
  <2>3. Plan!Active(v) \cap Plan!Overrunning(spec, v) = Plan!Overrunning(spec, v)
    BY <2>1
  <2>4. /\ IsFiniteSet(kept)
        /\ Cardinality(kept) = a - Cardinality(Plan!Active(v) \cap Plan!Overrunning(spec, v))
    BY <2>1, FS_Difference
  <2> QED BY <2>1, <2>2, <2>3, <2>4
<1>2. room = m - (a - o)
  BY <1>1, CountsAgree DEF Plan!Headroom, Plan!AtLeastZero
<1>3. uncovered \in Nat /\ uncovered + f >= n
  BY <1>1, CountsAgree DEF Plan!Uncovered, Plan!AtLeastZero
<1>4. shortfall \in Nat
  <2>1. Plan!Floor(spec) \in Int
    BY QueueViewAssumption DEF Plan!IsPoolSpec, Plan!Floor, Plan!ProcessManager
  <2> HIDE DEF uncovered
  <2> QED BY <1>1, <1>3, <2>1, CountsAgree DEF Plan!WarmShortfall, Plan!AtLeastZero, uncovered
<1>5. Plan!Launch(spec, v, n) = Plan!LesserOf(Plan!LesserOf(uncovered + shortfall, room), t)
  BY DEF Plan!Launch, Plan!Wanted
<1> HIDE DEF a, o, f, uncovered, shortfall, room, m, t
<1>6. /\ Plan!Launch(spec, v, n) \in Nat /\ Plan!Launch(spec, v, n) <= t
      /\ Plan!Launch(spec, v, n) + (a - o) <= m
      /\ \/ Plan!Launch(spec, v, n) = t
         \/ Plan!Launch(spec, v, n) + (a - o) = m
         \/ Plan!Launch(spec, v, n) + f >= n
  BY <1>1, <1>2, <1>3, <1>4, <1>5 DEF Plan!LesserOf
<1> QED BY <1>1, <1>6 DEF m, t, f

(* How many jobs a pool may serve is a number.                             *)
LEMMA QueueIsTyped ==
  ASSUME queue \in Queues
  PROVE  /\ IsFiniteSet(DOMAIN queue)
         /\ \A i \in DOMAIN queue : /\ i \in Nat /\ i # 0 /\ queue[i].at \in Nat
                                    /\ IsJob(queue[i])
         /\ \A p \in Pools : Cardinality(Servable(p)) \in Nat
<1>1. IsFiniteSet(DOMAIN queue) /\ \A i \in DOMAIN queue : i \in Nat \ {0} /\ IsJob(queue[i])
  BY QueueViewAssumption
<1>2. ASSUME NEW p \in Pools PROVE Cardinality(Servable(p)) \in Nat
  <2>1. Servable(p) \in SUBSET DOMAIN queue
    BY DEF Servable
  <2> QED BY <1>1, <2>1, FS_Subset, FS_CardinalityType
<1> QED BY <1>1, <1>2 DEF IsJob

(* Once the plan is carried out, the pool has up no more than those the    *)
(* plan kept; and while a job waits for it, those that are free were free. *)
LEMMA StandingPools ==
  ASSUME fleet \in Fleets, queue \in Queues, NEW p \in Pools
  PROVE  LET spec == fleet[p].spec
             v == fleet[p].view
             kept == Plan!Active(v) \ Plan!Overrunning(spec, v)
         IN  /\ Up(p) \in Nat /\ Free(p) \in Nat
             /\ Up(p) <= Cardinality(kept)
             /\ Cardinality(Servable(p)) # 0 =>
                  /\ Up(p) = Cardinality(kept)
                  /\ Free(p) = Cardinality(Plan!Available(spec, v))
<1> DEFINE spec == fleet[p].spec
           v == fleet[p].view
           kept == Plan!Active(v) \ Plan!Overrunning(spec, v)
           s == Standing(p)
           n == Cardinality(Servable(p))
<1>1. IsFiniteSet(kept) /\ IsFiniteSet(DOMAIN v.state)
  <2>1. IsFiniteSet(Plan!Active(v)) /\ IsFiniteSet(DOMAIN v.state)
    BY PlansAreTyped
  <2>2. kept \in SUBSET Plan!Active(v)
    OBVIOUS
  <2> QED BY <2>1, <2>2, FS_Subset
<1>2. /\ DOMAIN s.state = DOMAIN v.state \ Gone(p)
      /\ \A r \in DOMAIN s.state : s.state[r] = v.state[r] /\ s.age[r] = v.age[r]
  BY DEF Standing
<1>3. Plan!Overrunning(spec, v) \subseteq Gone(p)
  BY DEF Gone, Plan!Terminate
<1>4. Plan!Active(s) \in SUBSET kept
  BY <1>2, <1>3 DEF Plan!Active, Plan!InState
<1>5. Plan!Available(spec, s) \in SUBSET DOMAIN v.state
  BY <1>2 DEF Plan!Available, Plan!InState
<1>6. IsFiniteSet(Plan!Active(s)) /\ IsFiniteSet(Plan!Available(spec, s))
  BY <1>1, <1>4, <1>5, FS_Subset
<1>7. Up(p) \in Nat /\ Free(p) \in Nat /\ Up(p) <= Cardinality(kept)
  BY <1>1, <1>4, <1>6, FS_Subset, FS_CardinalityType DEF Up, Free
<1>8. ASSUME n # 0
      PROVE  Up(p) = Cardinality(kept) /\ Free(p) = Cardinality(Plan!Available(spec, v))
  <2>1. Plan!Retire(spec, v, n) = {{}}
    BY <1>8 DEF Plan!Retire, Plan!MayReap
  <2>2. Gone(p) = Plan!Overrunning(spec, v)
    BY <2>1 DEF Gone, Plan!Terminate
  <2>3. Plan!Active(s) = kept
    BY <1>2, <2>2 DEF Plan!Active, Plan!InState
  <2>4. Plan!Overrunning(spec, s) = {}
    BY <1>2, <2>2 DEF Plan!Overrunning, Plan!InState
  <2>5. Plan!Available(spec, s) = Plan!Available(spec, v)
    BY <1>2, <2>2, <2>4 DEF Plan!Available, Plan!InState
  <2> QED BY <2>3, <2>5 DEF Up, Free
<1> QED BY <1>7, <1>8

(* What the plans ask for makes a request admission takes.                 *)
LEMMA RequestsAreRequests ==
  ASSUME fleet \in Fleets, queue \in Queues, NEW p \in Pools
  PROVE  IsRequest(RequestOf(p))
<1>1. Ask(p) \in Nat
  BY PlansAreBounded, QueueIsTyped DEF Ask
<1>2. Up(p) \in Nat
  BY StandingPools
<1>3. fleet[p].spec.priority \in Int /\ fleet[p].spec.cpus \in Nat
  BY PlansAreTyped
<1> QED BY <1>1, <1>2, <1>3 DEF RequestOf, IsRequest

(* While the world stands still, so does all that is derived from it.      *)
LEMMA StillWorld ==
  ASSUME UNCHANGED world
  PROVE  /\ \A p : Up(p)' = Up(p) /\ Free(p)' = Free(p) /\ RequestOf(p)' = RequestOf(p)
         /\ \A i : BestPool(i)' = BestPool(i)
         /\ Planned' = Planned /\ Readings' = Readings
<1>0. fleet' = fleet /\ queue' = queue
  BY DEF world
<1>1. ASSUME NEW p PROVE Standing(p)' = Standing(p) /\ Ask(p)' = Ask(p)
  BY <1>0 DEF Gone, Servable, CanServe, Satisfies, Standing, Ask
<1>2. ASSUME NEW p PROVE Up(p)' = Up(p) /\ Free(p)' = Free(p)
  BY <1>0, <1>1 DEF Up, Free
<1>3. Planned' = Planned
  BY <1>0 DEF Planned
<1>4. ASSUME NEW p PROVE RequestOf(p)' = RequestOf(p)
  BY <1>0, <1>1, <1>2, <1>3 DEF RequestOf
<1>5. ASSUME NEW i PROVE BestPool(i)' = BestPool(i)
  BY <1>0 DEF BestPool, CanServe, Satisfies, Planned
<1>6. Readings' = Readings
  BY <1>0 DEF Readings, WatchedBy
<1> QED BY <1>2, <1>3, <1>4, <1>5, <1>6

(* And once the call is over and the queue read, so does what a pass says  *)
(* of them.                                                                *)
LEMMA StillSnapshot ==
  ASSUME UNCHANGED <<vars, world, read>>
  PROVE  Unreadables' = Unreadables /\ \A U : SnapshotOf(U)' = SnapshotOf(U)
<1>0. fleet' = fleet /\ queue' = queue /\ read' = read /\ UNCHANGED vars /\ UNCHANGED world
  BY DEF world
<1>1. Unreadables' = Unreadables
  BY <1>0 DEF Unreadables, Unread
<1>2. Demand' = Demand /\ Planned' = Planned
  BY <1>0, StillWorld DEF Demand
<1>3. \A i, k : Before(i, k)' <=> Before(i, k)
  BY <1>0 DEF Before, Older, Urgency, Class
<1>4. ASSUME NEW p PROVE Line(p)' = Line(p)
  BY <1>0, <1>2, StillWorld DEF Line
<1>5. ASSUME NEW i PROVE Position(i)' = Position(i)
  BY <1>0, <1>3, <1>4, StillWorld DEF Position
<1>6. ASSUME NEW p PROVE WhyBlocked(p)' = WhyBlocked(p) /\ Up(p)' = Up(p) /\ Free(p)' = Free(p)
  BY <1>0, StillWorld DEF WhyBlocked, vars
<1>7. ASSUME NEW i PROVE Reason(i)' = Reason(i)
  <2>1. BestPool(i)' = BestPool(i) /\ Position(i)' = Position(i) /\ granted' = granted
    BY <1>0, <1>5, StillWorld DEF vars
  <2>2. Free(BestPool(i))' = Free(BestPool(i)) /\ WhyBlocked(BestPool(i))' = WhyBlocked(BestPool(i))
    BY <1>6, <2>1
  <2> QED BY <2>1, <2>2 DEF Reason
<1>8. ASSUME NEW i PROVE EntryOf(i)' = EntryOf(i)
  BY <1>0, <1>5, <1>7, StillWorld DEF EntryOf
<1>9. ASSUME NEW p PROVE PressureOf(p)' = PressureOf(p)
  BY <1>0, <1>4, <1>6, StillWorld DEF PressureOf, vars
<1>10. HostPressure' = HostPressure
  BY <1>0 DEF HostPressure, vars, inputs, Wanted
<1> QED BY <1>1, <1>2, <1>8, <1>9, <1>10 DEF SnapshotOf

(* Pressure, and who wanted what, do not change during a call.             *)
LEMMA StillInputs ==
  ASSUME UNCHANGED inputs
  PROVE  (Pressed' <=> Pressed) /\ Wanted' = Wanted
BY DEF inputs, Pressed, Wanted

(* Every step but those of the call leaves the call alone.                 *)
LEMMA ViewInvIsKept ==
  ASSUME ViewInv, [NextView]_allVars
  PROVE  ViewInv'
<1> USE DEF ViewInv
<1>1. AdmissionInv'
  <2>1. [Next]_vars
    BY DEF NextView, Admit, Record, Elapse, GoBlind, Recover, Stop, allVars
  <2> QED BY <2>1, AdmissionInvIsKept
<1>2. fleet' = fleet /\ queue' = queue /\ read' = read /\ UNCHANGED world /\ UNCHANGED inputs
  BY DEF NextView, Admit, Next, Refuse, Begin, End, Grant, GiveUp, Record, Elapse, GoBlind,
         Recover, Stop, allVars, viewVars, vars, inputs, world
<1>3. /\ fleet' \in Fleets /\ queue' \in Queues /\ read' \in Readings'
      /\ request' = [p \in Pools |-> RequestOf(p)']
  BY <1>2, StillWorld DEF inputs
<1>4. CASE Admit
  <2>1. ~Recorded /\ snapshot' = snapshot /\ age' = age /\ daemon' = daemon
    BY <1>4 DEF Admit, Next, Refuse, Begin, End, Grant, GiveUp, viewVars
  <2>2. held' => Pressed /\ Total(Wanted) # 0
    BY <1>4 DEF Admit, Next, Refuse, Begin, End, Grant, GiveUp
  <2>3. held' => Pressed' /\ Total(Wanted') # 0
    BY <1>2, <2>2, StillInputs
  <2> QED BY <1>1, <1>3, <2>1, <2>3 DEF Recorded
<1>5. ASSUME UNCHANGED vars PROVE held' => Pressed' /\ Total(Wanted') # 0
  BY <1>2, <1>5, StillInputs DEF vars
<1>6. CASE Record
  <2>1. /\ UNCHANGED <<vars, world, read>> /\ phase = "done"
        /\ \E U \in Unreadables : snapshot' = SnapshotOf(U)
        /\ age' = 0 /\ daemon' = daemon
    BY <1>6 DEF Record, SnapshotOf
  <2>2. phase' = "done" /\ \E U \in Unreadables' : snapshot' = SnapshotOf(U)'
    BY <2>1, StillSnapshot DEF vars
  <2>3. 0 \in Nat /\ 0 <= Interval + PassTime
    BY QueueViewAssumption
  <2> QED BY <1>1, <1>3, <1>5, <2>1, <2>2, <2>3
<1>7. ASSUME UNCHANGED <<vars, world, read, snapshot>>
      PROVE  Recorded' => phase' = "done" /\ \E U \in Unreadables' : snapshot' = SnapshotOf(U)'
  BY <1>7, StillSnapshot DEF vars, Recorded
<1>8. CASE Elapse
  <2>1. age' \in Nat /\ daemon' = daemon /\ (daemon = "up" => age' <= Interval + PassTime)
    BY <1>8, QueueViewAssumption DEF Elapse
  <2> QED BY <1>1, <1>3, <1>5, <1>7, <1>8, <2>1 DEF Elapse
<1>9. CASE GoBlind \/ Recover \/ Stop \/ UNCHANGED allVars
  <2>1. UNCHANGED <<vars, world, read, snapshot>>
    BY <1>9 DEF GoBlind, Recover, Stop, allVars, viewVars
  <2>2. /\ age' \in Nat /\ daemon' \in {"up", "blind", "down"}
        /\ daemon' = "up" => age' <= Interval + PassTime
    BY <1>9, QueueViewAssumption DEF GoBlind, Recover, Stop, allVars, viewVars
  <2> QED BY <1>1, <1>3, <1>5, <1>7, <2>1, <2>2
<1> QED BY <1>4, <1>6, <1>8, <1>9 DEF NextView

(* So it is with every pass, and whoever reads after it.                   *)
LEMMA ViewInvHolds == ViewSpec => []ViewInv
<1>1. InitView => ViewInv
  <2> SUFFICES ASSUME InitView PROVE ViewInv
    OBVIOUS
  <2>0. Zero \in [Pools -> Nat] /\ Zero \in [Pools -> Int]
    BY DEF Zero
  <2>1. CallIsTyped
    <3>1. DOMAIN request = Pools /\ \A p \in Pools : IsRequest(request[p])
      BY RequestsAreRequests DEF InitView
    <3> QED BY <2>0, <3>1 DEF InitView, CallIsTyped
  <2>2. Books /\ CeilingsHold
    BY DEF InitView, Books, CeilingsHold, Zero
  <2>3. GrantsAreWanted
    BY <2>1, RequestsAreTyped DEF InitView, GrantsAreWanted, Zero, AtLeastZero
  <2>4. 0 \in Nat /\ 0 <= Interval + PassTime
    BY QueueViewAssumption
  <2> QED BY <2>1, <2>2, <2>3, <2>4 DEF InitView, ViewInv, AdmissionInv, Recorded
<1>2. ViewInv /\ [NextView]_allVars => ViewInv'
  BY ViewInvIsKept
<1> QED BY <1>1, <1>2, PTL DEF ViewSpec

(* An empty queue is never shown for an unread one, and a daemon that      *)
(* records is never said to have stopped (_demand_for, UNREADABLE,         *)
(* STALE_AFTER_INTERVALS), for any pools, queues and readings.             *)
THEOREM ViewIsAlwaysHonest == ViewSpec => []ViewIsHonest
<1>1. ViewInv => MissingIsExplained
  <2> SUFFICES ASSUME ViewInv, Recorded, NEW i \in DOMAIN queue \ DOMAIN snapshot.entries,
                      NEW p \in Pools, queue[i].repository \in fleet[p].spec.watches
               PROVE  /\ fleet[p].outcome = "unread"
                      /\ fleet[p].spec.watches = {queue[i].repository} => p \in snapshot.unreadable
    BY DEF MissingIsExplained
  <2>1. PICK U \in Unreadables : snapshot = SnapshotOf(U)
    BY DEF ViewInv
  <2>2. DOMAIN snapshot.entries = Demand /\ snapshot.unreadable = U
    BY <2>1 DEF SnapshotOf
  <2>3. queue[i].repository \notin read
    BY <2>2 DEF Demand
  <2>4. fleet[p].outcome = "unread"
    <3>1. WatchedBy({q \in Pools : fleet[q].outcome # "unread"}) \subseteq read
      BY DEF ViewInv, Readings
    <3> QED BY <2>3, <3>1 DEF WatchedBy
  <2> QED BY <2>2, <2>3, <2>4 DEF Unreadables, Unread
<1>2. ViewInv => StaleMeansSilent
  BY QueueViewAssumption DEF ViewInv, StaleMeansSilent, Stale
<1> QED BY <1>1, <1>2, ViewInvHolds, PTL DEF ViewIsHonest

(* The order a pool's jobs are in, as pairs.                               *)
Order == {s \in (DOMAIN queue) \X (DOMAIN queue) : Before(s[1], s[2])}

(* A pool's jobs are in one line, and a job's position is its place there. *)
LEMMA JobsAreInLine ==
  ASSUME queue \in Queues, NEW p \in Pools
  PROVE  /\ Lemmas!IsLine(Line(p), Order)
         /\ Line(p) \subseteq DOMAIN queue
         /\ IsFiniteSet(Line(p)) /\ Cardinality(Line(p)) \in Nat
         /\ \A i \in Line(p) : Position(i) = Cardinality(Lemmas!UpTo(Line(p), Order, i))
<1>1. Line(p) \in SUBSET DOMAIN queue
  BY DEF Line, Demand
<1>2. IsFiniteSet(Line(p)) /\ Cardinality(Line(p)) \in Nat
  BY <1>1, QueueIsTyped, FS_Subset, FS_CardinalityType
<1>3. \A i \in DOMAIN queue : /\ i \in Nat /\ queue[i].at \in Nat
                              /\ Urgency(queue[i]) \in Nat
  <2> SUFFICES ASSUME NEW i \in DOMAIN queue
               PROVE  i \in Nat /\ queue[i].at \in Nat /\ Urgency(queue[i]) \in Nat
    OBVIOUS
  <2>1. i \in Nat /\ queue[i].at \in Nat /\ queue[i].event \in Event
    BY QueueIsTyped DEF IsJob
  <2>2. Class(queue[i]) \in {"scheduled", "manual", "draft", "pull-request", "default-branch", "branch"}
    BY <2>1 DEF Class, Event
  <2> QED BY <2>1, <2>2 DEF Urgency
<1>4. \A i, k \in DOMAIN queue : <<i, k>> \in Order <=> Before(i, k)
  <2> SUFFICES ASSUME NEW i \in DOMAIN queue, NEW k \in DOMAIN queue
               PROVE  <<i, k>> \in Order <=> Before(i, k)
    OBVIOUS
  <2> DEFINE s == <<i, k>>
  <2>1. s \in (DOMAIN queue) \X (DOMAIN queue) /\ s[1] = i /\ s[2] = k
    OBVIOUS
  <2>2. s \in Order <=> Before(s[1], s[2])
    <3> HIDE DEF s
    <3> QED BY <2>1 DEF Order
  <2>3. Before(s[1], s[2]) <=> Before(i, k)
    BY <2>1 DEF Before, Older
  <2> QED BY <2>2, <2>3
<1>5. ASSUME NEW i \in DOMAIN queue, NEW k \in DOMAIN queue
      PROVE  /\ ~Before(i, i)
             /\ i = k \/ Before(i, k) \/ Before(k, i)
             /\ \A m \in DOMAIN queue : Before(i, k) /\ Before(k, m) => Before(i, m)
  BY <1>3 DEF Before, Older
<1>6. Lemmas!IsLine(Line(p), Order)
  <2>1. Lemmas!IsFiniteSet(Line(p))
    BY <1>2, CountsAgree
  <2> QED BY <1>1, <1>4, <1>5, <2>1 DEF Lemmas!IsLine
<1>7. ASSUME NEW i \in Line(p)
      PROVE  Position(i) = Cardinality(Lemmas!UpTo(Line(p), Order, i))
  <2>1. BestPool(i) = p /\ p # NoOne
    BY QueueViewAssumption DEF Line
  <2>2. {k \in Line(p) : k = i \/ Before(k, i)} = Lemmas!UpTo(Line(p), Order, i)
    BY <1>1, <1>4 DEF Lemmas!UpTo
  <2> QED BY <2>1, <2>2 DEF Position
<1> QED BY <1>1, <1>2, <1>6, <1>7

(* The best pool for a job can serve it, and none heavier can; there is    *)
(* none only where no pool can.                                            *)
LEMMA BestPoolIsBest ==
  ASSUME fleet \in Fleets, NEW i
  PROVE  \/ BestPool(i) = NoOne /\ \A p \in Planned : ~CanServe(p, i)
         \/ /\ BestPool(i) \in Planned
            /\ CanServe(BestPool(i), i)
            /\ \A q \in Planned : CanServe(q, i) =>
                 fleet[q].spec.priority <= fleet[BestPool(i)].spec.priority
<1> DEFINE able == {p \in Planned : CanServe(p, i)}
           Heavier(p, q) == \/ fleet[p].spec.priority > fleet[q].spec.priority
                            \/ fleet[p].spec.priority = fleet[q].spec.priority /\ p >= q
           R == {s \in able \X able : s[1] # s[2] /\ Heavier(s[1], s[2])}
<1>1. CASE able = {}
  BY <1>1 DEF BestPool
<1>2. CASE able # {}
  <2>1. able \in SUBSET Pools /\ \A p \in able : p \in Nat /\ fleet[p].spec.priority \in Int
    BY PlansAreTyped, AdmissionAssumption DEF Planned
  <2>2. IsFiniteSet(able)
    BY <2>1, FS_Subset, AdmissionAssumption
  <2>3. \A p, q \in able : <<p, q>> \in R <=> p # q /\ Heavier(p, q)
    OBVIOUS
  <2>4. \A p, q, r \in able :
          /\ p = q \/ Heavier(p, q) \/ Heavier(q, p)
          /\ p # q /\ Heavier(p, q) /\ q # r /\ Heavier(q, r) => p # r /\ Heavier(p, r)
    BY <2>1
  <2>5. Lemmas!IsLine(able, R)
    <3>1. Lemmas!IsFiniteSet(able)
      BY <2>2, CountsAgree
    <3> HIDE DEF able, R, Heavier
    <3> QED BY <2>3, <2>4, <3>1 DEF Lemmas!IsLine
  <2>6. PICK p \in able : \A q \in able : q = p \/ <<p, q>> \in R
    <3> HIDE DEF able, R
    <3> QED BY <1>2, <2>5, Lemmas!SomebodyIsFirst
  <2>7. ASSUME NEW q \in able PROVE Heavier(p, q)
    <3>1. CASE q = p
      BY <2>1, <3>1
    <3>2. CASE q # p
      <4>1. <<p, q>> \in R
        BY <2>6, <3>2
      <4> QED BY <2>3, <4>1
    <3> QED BY <3>1, <3>2
  <2>8. BestPool(i) = CHOOSE r \in able : \A q \in able : Heavier(r, q)
    BY <1>2 DEF BestPool
  <2>9. BestPool(i) \in able /\ \A q \in able : Heavier(BestPool(i), q)
    <3> HIDE DEF able, Heavier
    <3> QED BY <2>7, <2>8
  <2> QED BY <2>1, <2>9
<1> QED BY <1>1, <1>2

(* What is recorded of a job and of a pool, in the terms of the pass.      *)
LEMMA RecordsAreOfThePass ==
  ASSUME ViewInv, Recorded
  PROVE  /\ DOMAIN snapshot.entries = Demand /\ Demand \subseteq DOMAIN queue
         /\ \A i \in Demand : /\ snapshot.entries[i].pool = BestPool(i)
                              /\ snapshot.entries[i].reason = Reason(i)
         /\ \A p \in Planned : snapshot.pools[p] = PressureOf(p)
         /\ snapshot.host = HostPressure
<1>1. PICK U \in Unreadables : snapshot = SnapshotOf(U)
  BY DEF ViewInv
<1> QED BY <1>1 DEF SnapshotOf, EntryOf, Demand

(* A job with a pool is delayed exactly when its place is behind all those *)
(* for whom a runner is free or starting.                                  *)
LEMMA DelayedAreBehind ==
  ASSUME ViewInv, Recorded, NEW i \in Demand, BestPool(i) # NoOne
  PROVE  LET p == BestPool(i) IN
         /\ p \in Planned /\ p \in Pools /\ i \in Line(p)
         /\ Free(p) + granted[p] \in Nat
         /\ Position(i) \in 1 .. Cardinality(Line(p))
         /\ Delayed(i) <=> Position(i) > Free(p) + granted[p]
         /\ Delayed(i) => snapshot.entries[i].reason = WhyBlocked(p)
<1> DEFINE p == BestPool(i)
<1>1. p \in Planned /\ p \in Pools /\ i \in Line(p)
  BY BestPoolIsBest DEF ViewInv, Planned, Line
<1>2. Free(p) \in Nat /\ granted[p] \in Nat
  BY <1>1, StandingPools DEF ViewInv, AdmissionInv, CallIsTyped
<1>3. Position(i) \in 1 .. Cardinality(Line(p))
  <2>1. /\ Lemmas!IsLine(Line(p), Order)
        /\ Position(i) = Cardinality(Lemmas!UpTo(Line(p), Order, i))
    BY <1>1, JobsAreInLine DEF ViewInv
  <2>2. Lemmas!Cardinality(Lemmas!UpTo(Line(p), Order, i)) \in 1 .. Lemmas!Cardinality(Line(p))
    BY <1>1, <2>1, Lemmas!PlacesAreOrdered
  <2> QED BY <2>1, <2>2, CountsAgree
<1>4. Position(i) \in Nat
  BY <1>1, <1>3, JobsAreInLine DEF ViewInv
<1>5. snapshot.entries[i].reason = Reason(i)
  BY RecordsAreOfThePass
<1>6. WhyBlocked(p) \notin {"assignable", "starting"}
  BY DEF WhyBlocked
<1> HIDE DEF p
<1>7. Reason(i) = IF Position(i) <= Free(p) THEN "assignable"
                  ELSE IF Position(i) <= Free(p) + granted[p] THEN "starting"
                  ELSE WhyBlocked(p)
  BY <1>2, <1>4 DEF Reason, p
<1>8. /\ Delayed(i) <=> Position(i) > Free(p) + granted[p]
      /\ Delayed(i) => snapshot.entries[i].reason = WhyBlocked(p)
  BY <1>2, <1>4, <1>5, <1>6, <1>7 DEF Delayed
<1> QED BY <1>1, <1>2, <1>3, <1>8 DEF p

(* The rows a reader is shown of a pool agree with the pool's own numbers, *)
(* for any number of pools and jobs (explain_queue, GetQueue).             *)
THEOREM RowsAlwaysAgree == ViewSpec => []RowsAgree
<1>1. ViewInv => RowsAgree
  <2> SUFFICES ASSUME ViewInv, Recorded, NEW p \in Planned
               PROVE  LET rows == {i \in Rows(p) : snapshot.entries[i].pool = p} IN
                      /\ snapshot.pools[p].queued = Cardinality(rows)
                      /\ \/ \A i \in rows : ~Delayed(i)
                         \/ Cardinality({i \in rows : ~Delayed(i)})
                              = snapshot.pools[p].available + snapshot.pools[p].launching
                      /\ (snapshot.pools[p].blocked_by # "") <=> \E i \in rows : Delayed(i)
                      /\ \A i \in rows, q \in Planned :
                           CanServe(q, i) => fleet[q].spec.priority <= fleet[p].spec.priority
    BY DEF RowsAgree
  <2> DEFINE rows == {i \in Rows(p) : snapshot.entries[i].pool = p}
             n == Free(p) + granted[p]
             served == {i \in rows : ~Delayed(i)}
  <2>1. p \in Pools /\ p # NoOne /\ fleet \in Fleets /\ queue \in Queues
    BY QueueViewAssumption DEF ViewInv, Planned
  <2>2. rows = Line(p)
    BY RecordsAreOfThePass DEF Rows, Line
  <2>3. /\ snapshot.pools[p].queued = Cardinality(Line(p))
        /\ snapshot.pools[p].available = Free(p) /\ snapshot.pools[p].launching = granted[p]
        /\ snapshot.pools[p].blocked_by = IF Cardinality(Line(p)) > n THEN WhyBlocked(p) ELSE ""
    <3>1. snapshot.pools[p] = PressureOf(p)
      BY RecordsAreOfThePass
    <3>2. /\ PressureOf(p).queued = Cardinality(Line(p))
          /\ PressureOf(p).available = Free(p) /\ PressureOf(p).launching = granted[p]
      BY DEF PressureOf
    <3>3. PressureOf(p).blocked_by = IF Cardinality(Line(p)) > n THEN WhyBlocked(p) ELSE ""
      BY DEF PressureOf
    <3> QED BY <3>1, <3>2, <3>3
  <2>4. \A i \in Line(p) : /\ i \in Demand /\ BestPool(i) = p
                           /\ Position(i) \in 1 .. Cardinality(Line(p))
                           /\ Delayed(i) <=> Position(i) > n
    BY <2>1, DelayedAreBehind DEF Line
  <2>5. /\ Lemmas!IsLine(Line(p), Order) /\ Cardinality(Line(p)) \in Nat
        /\ \A i \in Line(p) : Position(i) = Cardinality(Lemmas!UpTo(Line(p), Order, i))
    BY <2>1, JobsAreInLine
  <2>6. Free(p) \in Nat /\ granted[p] \in Nat /\ n \in Nat
    <3>1. Free(p) \in Nat
      BY <2>1, StandingPools
    <3>2. granted[p] \in Nat
      BY <2>1 DEF ViewInv, AdmissionInv, CallIsTyped
    <3> QED BY <3>1, <3>2
  <2>7. n <= Cardinality(Line(p)) => Cardinality({i \in Line(p) : Position(i) <= n}) = n
    <3> SUFFICES ASSUME n <= Cardinality(Line(p))
                 PROVE  Cardinality({i \in Line(p) : Position(i) <= n}) = n
      OBVIOUS
    <3> HIDE DEF n
    <3> DEFINE first == {i \in Line(p) : Lemmas!Cardinality(Lemmas!UpTo(Line(p), Order, i)) <= n}
    <3>1. Lemmas!Cardinality(first) = n
      BY <2>5, <2>6, CountsAgree, Lemmas!PlacesAreTaken
    <3>2. first = {i \in Line(p) : Position(i) <= n}
      BY <2>5, CountsAgree
    <3> HIDE DEF first
    <3> QED BY <3>1, <3>2, CountsAgree
  <2> HIDE DEF n
  <2>8. served = {i \in Line(p) : Position(i) <= n}
    BY <2>2, <2>4, <2>5, <2>6
  <2>9. Cardinality(Line(p)) <= n => \A i \in rows : ~Delayed(i)
    BY <2>2, <2>4, <2>5, <2>6
  <2>10. Cardinality(Line(p)) > n => \E i \in rows : Delayed(i)
    <3> SUFFICES ASSUME Cardinality(Line(p)) > n, \A i \in rows : ~Delayed(i) PROVE FALSE
      OBVIOUS
    <3>1. {i \in Line(p) : Position(i) <= n} = Line(p)
      BY <2>2, <2>8
    <3> QED BY <2>5, <2>6, <2>7, <3>1
  <2>11. WhyBlocked(p) # ""
    BY DEF WhyBlocked
  <2>12. snapshot.pools[p].blocked_by # "" <=> \E i \in rows : Delayed(i)
    <3> HIDE DEF rows
    <3>1. CASE Cardinality(Line(p)) > n
      BY <3>1, <2>3, <2>10, <2>11
    <3>2. CASE ~(Cardinality(Line(p)) > n)
      <4>1. Cardinality(Line(p)) <= n
        BY <3>2, <2>5, <2>6
      <4>2. snapshot.pools[p].blocked_by = ""
        BY <3>2, <2>3
      <4> QED BY <4>1, <4>2, <2>9
    <3> QED BY <3>1, <3>2
  <2>13. (\A i \in rows : ~Delayed(i))
           \/ Cardinality(served) = snapshot.pools[p].available + snapshot.pools[p].launching
    <3>1. snapshot.pools[p].available + snapshot.pools[p].launching = n
      BY <2>3 DEF n
    <3> HIDE DEF rows, served
    <3>2. CASE Cardinality(Line(p)) > n
      BY <3>1, <3>2, <2>5, <2>6, <2>7, <2>8
    <3>3. CASE ~(Cardinality(Line(p)) > n)
      BY <3>3, <2>5, <2>6, <2>9
    <3> QED BY <3>2, <3>3
  <2>14. ASSUME NEW i \in rows, NEW q \in Planned, CanServe(q, i)
         PROVE  fleet[q].spec.priority <= fleet[p].spec.priority
    BY <2>1, <2>2, <2>14, BestPoolIsBest DEF Line
  <2> HIDE DEF rows
  <2> QED BY <2>2, <2>3, <2>12, <2>13, <2>14 DEF rows
<1> QED BY <1>1, ViewInvHolds, PTL

(* No job waits while a runner is free or starting for one in the same     *)
(* line that is less urgent, or as urgent and younger (_rank), for any     *)
(* queue.                                                                  *)
THEOREM UrgentIsAlwaysFirst == ViewSpec => []UrgentFirst
<1>1. ViewInv => UrgentFirst
  <2> SUFFICES ASSUME ViewInv, NEW i \in DOMAIN queue, NEW k \in DOMAIN queue,
                      Placed(i), Placed(k), snapshot.entries[i].pool = snapshot.entries[k].pool,
                      Delayed(i), ~Delayed(k)
               PROVE  \/ RankOf(k) < RankOf(i)
                      \/ RankOf(k) = RankOf(i) /\ queue[k].at <= queue[i].at
    BY DEF UrgentFirst
  <2> DEFINE p == BestPool(i)
  <2>1. /\ Recorded /\ i \in Demand /\ k \in Demand
        /\ BestPool(k) = p /\ p # NoOne
    BY RecordsAreOfThePass DEF Placed
  <2>2. /\ p \in Pools /\ i \in Line(p) /\ k \in Line(p)
        /\ Free(p) + granted[p] \in Nat
        /\ Position(i) > Free(p) + granted[p] /\ ~(Position(k) > Free(p) + granted[p])
    BY <2>1, DelayedAreBehind
  <2>3. /\ Lemmas!IsLine(Line(p), Order) /\ Line(p) \subseteq DOMAIN queue
        /\ Position(i) = Cardinality(Lemmas!UpTo(Line(p), Order, i))
        /\ Position(k) = Cardinality(Lemmas!UpTo(Line(p), Order, k))
        /\ Position(i) \in Nat /\ Position(k) \in Nat
    <3>1. Position(i) \in 1 .. Cardinality(Line(p)) /\ Position(k) \in 1 .. Cardinality(Line(p))
          /\ Cardinality(Line(p)) \in Nat
      BY <2>1, <2>2, DelayedAreBehind, JobsAreInLine DEF ViewInv
    <3> QED BY <2>2, <3>1, JobsAreInLine DEF ViewInv
  <2> HIDE DEF p
  <2>4. <<i, k>> \notin Order
    <3> SUFFICES ASSUME <<i, k>> \in Order PROVE FALSE
      OBVIOUS
    <3>1. Lemmas!Cardinality(Lemmas!UpTo(Line(p), Order, i))
            < Lemmas!Cardinality(Lemmas!UpTo(Line(p), Order, k))
      BY <2>2, <2>3, Lemmas!PlacesAreOrdered
    <3> QED BY <2>2, <2>3, <3>1, CountsAgree
  <2>5. i # k
    BY <2>2
  <2>6. Before(k, i)
    BY <2>2, <2>3, <2>4, <2>5 DEF Lemmas!IsLine, Order
  <2>7. \A j \in DOMAIN queue : queue[j].event \in Event /\ queue[j].at \in Nat
    BY QueueIsTyped DEF ViewInv, IsJob
  <2>8. ASSUME NEW j \in DOMAIN queue
        PROVE  RankOf(j) \in 1 .. 6 /\ Urgency(queue[j]) = <<10, 8, 6, 5, 4, 2>>[RankOf(j)]
    <3>1. Class(queue[j]) \in {"scheduled", "manual", "draft", "pull-request", "default-branch", "branch"}
      BY <2>7 DEF Class, Event
    <3>2. DOMAIN Precedence = 1 .. 6
      BY DEF Precedence
    <3>3. /\ Precedence[1] = "default-branch" /\ Precedence[2] = "manual"
          /\ Precedence[3] = "pull-request" /\ Precedence[4] = "branch"
          /\ Precedence[5] = "draft" /\ Precedence[6] = "scheduled"
      BY DEF Precedence
    <3>4. \E n \in 1 .. 6 : Precedence[n] = Class(queue[j])
      BY <3>1, <3>3
    <3>5. RankOf(j) \in 1 .. 6 /\ Precedence[RankOf(j)] = Class(queue[j])
      BY <3>2, <3>4 DEF RankOf
    <3>6. RankOf(j) \in {1, 2, 3, 4, 5, 6}
      BY <3>5
    <3> QED BY <3>3, <3>5, <3>6 DEF Urgency
  <2>9. \/ Urgency(queue[k]) > Urgency(queue[i])
        \/ (Urgency(queue[k]) = Urgency(queue[i]) /\ queue[k].at <= queue[i].at)
    BY <2>6, <2>7 DEF Before, Older
  <2>10. \A a, b \in {1, 2, 3, 4, 5, 6} :
           LET u == <<10, 8, 6, 5, 4, 2>> IN
           (u[a] > u[b] => a < b) /\ (u[a] = u[b] => a = b)
    OBVIOUS
  <2>11. RankOf(i) \in {1, 2, 3, 4, 5, 6} /\ RankOf(k) \in {1, 2, 3, 4, 5, 6}
    BY <2>8
  <2> QED BY <2>8, <2>9, <2>10, <2>11
<1> QED BY <1>1, ViewInvHolds, PTL

(* What a pool is granted is within its plan, and so within its room.      *)
LEMMA GrantsAreWithinPlans ==
  ASSUME ViewInv, NEW p \in Planned
  PROVE  LET spec == fleet[p].spec
             kept == Plan!Active(fleet[p].view) \ Plan!Overrunning(spec, fleet[p].view)
         IN  /\ p \in Pools /\ granted[p] \in Nat /\ Ask(p) \in Nat
             /\ granted[p] <= Ask(p)
             /\ Wanted[p] = Ask(p)
             /\ granted[p] <= spec.max_launch_per_tick
             /\ granted[p] + Cardinality(kept) <= spec.max_runners
             /\ Up(p) + granted[p] <= spec.max_runners
<1> DEFINE spec == fleet[p].spec
           v == fleet[p].view
           n == Cardinality(Servable(p))
           k == Cardinality(Plan!Active(v) \ Plan!Overrunning(spec, v))
<1>1. p \in Pools /\ n \in Nat /\ fleet \in Fleets /\ queue \in Queues
  BY QueueIsTyped DEF ViewInv, Planned
<1>2. /\ Ask(p) \in Nat /\ k \in Nat
      /\ Ask(p) <= spec.max_launch_per_tick
      /\ Ask(p) + k <= spec.max_runners
  BY <1>1, PlansAreBounded DEF Ask
<1>3. Up(p) \in Nat /\ Up(p) <= k
  BY <1>1, StandingPools
<1>4. spec.max_runners \in Nat /\ spec.max_launch_per_tick \in Nat
  BY <1>1, PlansAreTyped
<1>5. request[p].wanted = Ask(p)
  BY <1>1 DEF ViewInv, RequestOf
<1>6. Wanted[p] = Ask(p)
  BY <1>1, <1>2, <1>5 DEF Wanted, AtLeastZero
<1>7. granted[p] \in Nat /\ remaining[p] \in Nat
  BY <1>1 DEF ViewInv, AdmissionInv, CallIsTyped
<1>8. granted[p] + remaining[p] <= Ask(p)
  BY <1>1, <1>2, <1>5 DEF ViewInv, AdmissionInv, GrantsAreWanted, AtLeastZero
<1> HIDE DEF k, n
<1>9. granted[p] <= Ask(p) /\ granted[p] <= spec.max_launch_per_tick
      /\ granted[p] + k <= spec.max_runners /\ Up(p) + granted[p] <= spec.max_runners
  BY <1>2, <1>3, <1>4, <1>7, <1>8
<1> QED BY <1>1, <1>2, <1>6, <1>7, <1>9 DEF k

(* A pool whose queue outgrows what is free and starting, although neither *)
(* it nor the tick nor the host stopped it, would have planned more.       *)
LEMMA NobodyContends ==
  ASSUME ViewInv, Recorded, \A q \in Planned : fleet[q].spec.watches = fleet[q].spec.target,
         NEW i \in Demand, BestPool(i) # NoOne, Delayed(i)
  PROVE  WhyBlocked(BestPool(i)) # "contended"
<1> DEFINE p == BestPool(i)
           spec == fleet[p].spec
           v == fleet[p].view
           n == Cardinality(Servable(p))
           k == Cardinality(Plan!Active(v) \ Plan!Overrunning(spec, v))
           f == Cardinality(Plan!Available(spec, v))
<1> SUFFICES ASSUME WhyBlocked(p) = "contended" PROVE FALSE
  OBVIOUS
<1>1. p \in Planned /\ p \in Pools /\ Position(i) \in 1 .. Cardinality(Line(p))
      /\ Position(i) > Free(p) + granted[p]
  BY DelayedAreBehind
<1>2. /\ ~held /\ p \notin blocked
      /\ ~(Up(p) + granted[p] >= spec.max_runners)
      /\ ~(granted[p] >= spec.max_launch_per_tick)
  BY DEF WhyBlocked
<1>3. fleet \in Fleets /\ queue \in Queues /\ phase = "done"
  BY DEF ViewInv
<1>4. granted[p] = Ask(p)
  <2>1. granted[p] + remaining[p] = Wanted[p] /\ remaining[p] = 0
    BY <1>1, <1>2, <1>3 DEF ViewInv, AdmissionInv, Books
  <2>2. granted[p] \in Nat /\ Wanted[p] = Ask(p)
    BY <1>1, GrantsAreWithinPlans
  <2> QED BY <2>1, <2>2
<1>5. Line(p) \in SUBSET Servable(p)
  <2> SUFFICES ASSUME NEW j \in Line(p) PROVE j \in Servable(p)
    OBVIOUS
  <2>1. j \in DOMAIN queue /\ BestPool(j) = p /\ p # NoOne
    BY <1>1, QueueViewAssumption DEF Line, Demand
  <2>2. CanServe(p, j)
    BY <1>3, <2>1, BestPoolIsBest
  <2>3. queue[j].repository \in fleet[p].spec.watches
    BY <1>1, <2>2 DEF CanServe
  <2> QED BY <2>1, <2>2, <2>3 DEF Servable
<1>6. n \in Nat /\ Cardinality(Line(p)) <= n /\ Cardinality(Line(p)) \in Nat
  <2>1. IsFiniteSet(Servable(p))
    <3>1. Servable(p) \in SUBSET DOMAIN queue
      BY DEF Servable
    <3> QED BY <1>3, <3>1, QueueIsTyped, FS_Subset
  <2> QED BY <1>1, <1>3, <1>5, <2>1, FS_Subset, QueueIsTyped, JobsAreInLine
<1>7. /\ Ask(p) \in Nat /\ k \in Nat /\ f \in Nat
      /\ \/ Ask(p) = spec.max_launch_per_tick
         \/ Ask(p) + k = spec.max_runners
         \/ Ask(p) + f >= n
  BY <1>1, <1>3, <1>6, PlansAreBounded DEF Ask
<1>8. spec.max_runners \in Nat /\ spec.max_launch_per_tick \in Nat
  BY <1>1, <1>3, PlansAreTyped
<1> HIDE DEF n, k, f, p
<1>9. n # 0
  BY <1>1, <1>6
<1>10. Up(p) = k /\ Free(p) = f
  BY <1>1, <1>3, <1>9, StandingPools DEF n, k, f
<1> QED BY <1>1, <1>2, <1>4, <1>6, <1>7, <1>8, <1>10

(* The reason a reader is given for a job that waits is the true one       *)
(* (_why_blocked): the ceiling named is reached, and none other is blamed, *)
(* for pools that watch all they serve.                                    *)
THEOREM BlameIsAlwaysTrue == ViewSpec => []BlameIsTrue
<1>1. ViewInv => BlameIsTrue
  <2> SUFFICES ASSUME ViewInv, Recorded,
                      \A q \in Planned : fleet[q].spec.watches = fleet[q].spec.target,
                      NEW i \in DOMAIN snapshot.entries, Placed(i)
               PROVE  LET p == snapshot.entries[i].pool
                          reason == snapshot.entries[i].reason
                      IN  /\ reason = "pool-at-capacity" => Up(p) + granted[p] = fleet[p].spec.max_runners
                          /\ reason = "host-at-capacity" => Crosses(p)
                          /\ reason = "host-busy" =>
                               \E g \in Gauge : /\ snapshot.host.mark[g] # Unset
                                                /\ snapshot.host.load[g] >= snapshot.host.mark[g]
                          /\ reason = "tick-limit" => granted[p] = fleet[p].spec.max_launch_per_tick
                          /\ reason # "contended"
    BY DEF BlameIsTrue
  <2> DEFINE p == BestPool(i)
             reason == snapshot.entries[i].reason
  <2>1. i \in Demand /\ p # NoOne /\ snapshot.entries[i].pool = p /\ snapshot.host = HostPressure
    BY RecordsAreOfThePass DEF Placed
  <2>2. p \in Planned /\ p \in Pools
    BY <2>1, DelayedAreBehind
  <2>3. /\ granted[p] \in Nat /\ granted[p] <= fleet[p].spec.max_launch_per_tick
        /\ Up(p) + granted[p] <= fleet[p].spec.max_runners
    BY <2>2, GrantsAreWithinPlans
  <2>4. /\ Up(p) \in Nat
        /\ fleet[p].spec.max_runners \in Nat /\ fleet[p].spec.max_launch_per_tick \in Nat
    BY <2>2, StandingPools, PlansAreTyped DEF ViewInv
  <2>5. ASSUME Delayed(i)
        PROVE  /\ reason = "pool-at-capacity" => Up(p) + granted[p] = fleet[p].spec.max_runners
               /\ reason = "host-at-capacity" => Crosses(p)
               /\ reason = "host-busy" => held
               /\ reason = "tick-limit" => granted[p] = fleet[p].spec.max_launch_per_tick
               /\ reason # "contended"
    <3>1. reason = WhyBlocked(p)
      BY <2>1, <2>5, DelayedAreBehind
    <3>2. reason # "contended"
      BY <2>1, <2>5, <3>1, NobodyContends
    <3>3. p \in blocked /\ ~held => Crosses(p)
      BY <2>2 DEF ViewInv, AdmissionInv, Books
    <3> HIDE DEF p
    <3>4. reason = "pool-at-capacity" => Up(p) + granted[p] >= fleet[p].spec.max_runners
      BY <3>1 DEF WhyBlocked
    <3>5. reason = "host-at-capacity" => p \in blocked /\ ~held
      BY <3>1 DEF WhyBlocked
    <3>6. reason = "host-busy" => held
      BY <3>1 DEF WhyBlocked
    <3>7. reason = "tick-limit" => granted[p] >= fleet[p].spec.max_launch_per_tick
      BY <3>1 DEF WhyBlocked
    <3> QED BY <2>3, <2>4, <3>2, <3>3, <3>4, <3>5, <3>6, <3>7
  <2>6. ASSUME held
        PROVE  \E g \in Gauge : /\ snapshot.host.mark[g] # Unset
                                /\ snapshot.host.load[g] >= snapshot.host.mark[g]
    <3>1. Pressed /\ Total(Wanted) # 0
      BY <2>6 DEF ViewInv
    <3>2. snapshot.host.mark = limits.mark /\ snapshot.host.load = load
      BY <2>1, <3>1 DEF HostPressure
    <3> QED BY <3>1, <3>2 DEF Pressed
  <2>7. ~Delayed(i) => reason \in {"assignable", "starting"}
    BY DEF Delayed
  <2> HIDE DEF p, reason
  <2> QED BY <2>1, <2>5, <2>6, <2>7 DEF reason
<1> QED BY <1>1, ViewInvHolds, PTL

=============================================================================
