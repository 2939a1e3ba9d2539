---------------------------- MODULE PolicyLemmas ----------------------------
(***************************************************************************)
(* What the proofs about passes and policies need to know of totals over   *)
(* the pools and of places in a line, and what follows from plan_scaling   *)
(* for any spec the configuration lets through and any snapshot of a pool. *)
(***************************************************************************)
EXTENDS ScalingPolicy, Totals, FiniteSetTheorems, TLAPS

-----------------------------------------------------------------------------
(* Totals.                                                                 *)

(* A finite union of finite sets, each slot of which is a pool's own.      *)
LEMMA SlotsAreFinite ==
  ASSUME NEW S, IsFiniteSet(S), NEW f \in [S -> Nat]
  PROVE  IsFiniteSet(UNION {Slots(f)[x] : x \in DOMAIN f})
<1> DEFINE g == Slots(f)
           T == {Slots(f)[x] : x \in S}
<1>1. DOMAIN f = S
  OBVIOUS
<1>2. g \in Surjection(S, T)
  BY <1>1 DEF Slots, Surjection
<1>3. IsFiniteSet(T)
  <2> HIDE DEF g, T
  <2> QED BY <1>2, FS_Surjection
<1>4. ASSUME NEW x \in S PROVE IsFiniteSet(Slots(f)[x])
  <2>1. IsFiniteSet({x})
    BY FS_Singleton
  <2>2. f[x] \in Int /\ 1 \in Int
    OBVIOUS
  <2>3. IsFiniteSet(1 .. f[x])
    BY <2>2, FS_Interval
  <2>4. IsFiniteSet({x} \X (1 .. f[x]))
    BY <2>1, <2>3, FS_Product
  <2> QED BY <2>4, <1>1 DEF Slots
<1>5. IsFiniteSet(UNION T)
  <2>1. \A U \in T : IsFiniteSet(U)
    BY <1>4
  <2> HIDE DEF T
  <2> QED BY <1>3, <2>1, FS_UNION
<1> QED BY <1>5, <1>1

(* A total over finitely many pools is a natural number: what _Committed   *)
(* and the sums of admit() start from.                                     *)
LEMMA TotalIsNatural ==
  ASSUME NEW S, IsFiniteSet(S), NEW f \in [S -> Nat]
  PROVE  Total(f) \in Nat
BY SlotsAreFinite, FS_CardinalityType DEF Total

(* A total that is nothing is a total of nothings: when admit() finds no   *)
(* launch wanted, no pool wants one.                                       *)
LEMMA NothingTotalsNothing ==
  ASSUME NEW S, IsFiniteSet(S), NEW f \in [S -> Nat], Total(f) = 0, NEW x \in S
  PROVE  f[x] = 0
<1> DEFINE U == UNION {Slots(f)[y] : y \in DOMAIN f}
<1>1. U = {}
  <2>1. IsFiniteSet(U) /\ Cardinality(U) = 0
    BY SlotsAreFinite DEF Total
  <2> HIDE DEF U
  <2> QED BY <2>1, FS_EmptySet
<1>2. SUFFICES ASSUME f[x] # 0 PROVE FALSE
  OBVIOUS
<1>3. f[x] \in Nat /\ x \in DOMAIN f
  OBVIOUS
<1>4. 1 \in 1 .. f[x]
  BY <1>2, <1>3
<1>5. <<x, 1>> \in Slots(f)[x]
  BY <1>3, <1>4 DEF Slots
<1> QED BY <1>1, <1>3, <1>5

(* The slots of all, as pairs.                                             *)
Pairs(S, f) == {s \in S \X (Nat \ {0}) : s[2] <= f[s[1]]}

(* A total counts them.                                                    *)
LEMMA TotalCountsPairs ==
  ASSUME NEW S, IsFiniteSet(S), NEW f \in [S -> Nat]
  PROVE  Total(f) = Cardinality(Pairs(S, f)) /\ IsFiniteSet(Pairs(S, f))
<1> DEFINE U == UNION {Slots(f)[x] : x \in DOMAIN f}
           P == {s \in S \X (Nat \ {0}) : s[2] <= f[s[1]]}
<1>1. DOMAIN f = S /\ \A x \in S : Slots(f)[x] = {x} \X (1 .. f[x]) /\ f[x] \in Nat
  BY DEF Slots
<1>2. ASSUME NEW s \in U PROVE s \in P
  <2>1. PICK x \in S : s \in {x} \X (1 .. f[x])
    BY <1>1
  <2>2. s[1] = x /\ s[2] \in 1 .. f[x] /\ s = <<s[1], s[2]>>
    BY <2>1
  <2>3. f[x] \in Nat
    BY <1>1
  <2>4. s[2] \in Nat \ {0} /\ s[2] <= f[s[1]]
    BY <2>2, <2>3
  <2>5. s \in S \X (Nat \ {0})
    BY <2>2, <2>4
  <2> QED BY <2>4, <2>5
<1>3. ASSUME NEW s \in P PROVE s \in U
  <2>1. s[1] \in S /\ s[2] \in Nat \ {0} /\ s[2] <= f[s[1]] /\ s = <<s[1], s[2]>>
    OBVIOUS
  <2>2. f[s[1]] \in Nat
    BY <2>1, <1>1
  <2>3. s[2] \in 1 .. f[s[1]]
    BY <2>1, <2>2
  <2>4. s \in {s[1]} \X (1 .. f[s[1]])
    BY <2>1, <2>3
  <2> QED BY <2>1, <2>4, <1>1
<1>4. U = Pairs(S, f)
  <2> HIDE DEF U
  <2> QED BY <1>2, <1>3 DEF Pairs
<1>5. IsFiniteSet(U) /\ Total(f) = Cardinality(U)
  BY SlotsAreFinite DEF Total
<1> HIDE DEF U
<1> QED BY <1>4, <1>5

(* Who asks for no less, for each pool, asks for no less in all.           *)
LEMMA TotalIsMonotone ==
  ASSUME NEW S, IsFiniteSet(S), NEW f \in [S -> Nat], NEW g \in [S -> Nat],
         \A x \in S : f[x] <= g[x]
  PROVE  Total(f) <= Total(g)
<1> DEFINE F == Pairs(S, f)
           G == Pairs(S, g)
<1>1. Total(f) = Cardinality(F) /\ Total(g) = Cardinality(G) /\ IsFiniteSet(G)
  BY TotalCountsPairs
<1>2. F \subseteq G
  <2> USE DEF Pairs
  <2> SUFFICES ASSUME NEW s \in F PROVE s \in G
    OBVIOUS
  <2>1. s[1] \in S /\ s[2] \in Nat /\ f[s[1]] \in Nat /\ g[s[1]] \in Nat
    OBVIOUS
  <2> QED BY <2>1
<1> HIDE DEF F, G
<1> QED BY <1>1, <1>2, FS_Subset

(* The total of a sum is the sum of the totals.                            *)
LEMMA TotalOfSum ==
  ASSUME NEW S, IsFiniteSet(S), NEW f \in [S -> Nat], NEW g \in [S -> Nat]
  PROVE  Total([x \in S |-> f[x] + g[x]]) = Total(f) + Total(g)
<1> DEFINE h == [x \in S |-> f[x] + g[x]]
           F == Pairs(S, f)
           G == Pairs(S, g)
           H == Pairs(S, h)
           R == {s \in S \X (Nat \ {0}) : f[s[1]] < s[2] /\ s[2] <= h[s[1]]}
           b == [s \in G |-> <<s[1], s[2] + f[s[1]]>>]
<1>0. h \in [S -> Nat] /\ \A x \in S : h[x] = f[x] + g[x] /\ f[x] \in Nat /\ g[x] \in Nat
  OBVIOUS
<1>1. /\ Total(f) = Cardinality(F) /\ IsFiniteSet(F)
      /\ Total(g) = Cardinality(G) /\ IsFiniteSet(G)
  BY TotalCountsPairs
<1>2. Total(h) = Cardinality(H)
  <2> HIDE DEF h
  <2> QED BY <1>0, TotalCountsPairs
<1>3. b \in Bijection(G, R)
  <2> USE DEF Pairs
  <2>1. ASSUME NEW s \in G PROVE b[s] \in R
    <3>1. s[1] \in S /\ s[2] \in Nat \ {0} /\ s[2] <= g[s[1]]
      OBVIOUS
    <3>2. f[s[1]] \in Nat /\ g[s[1]] \in Nat /\ h[s[1]] = f[s[1]] + g[s[1]]
      BY <3>1, <1>0
    <3>3. s[2] + f[s[1]] \in Nat \ {0} /\ f[s[1]] < s[2] + f[s[1]] /\ s[2] + f[s[1]] <= h[s[1]]
      BY <3>1, <3>2
    <3> HIDE DEF h
    <3> QED BY <3>1, <3>3
  <2>2. ASSUME NEW s \in G, NEW u \in G, b[s] = b[u] PROVE s = u
    <3>1. s[1] = u[1] /\ s[2] + f[s[1]] = u[2] + f[u[1]]
      BY <2>2
    <3>2. f[s[1]] \in Nat /\ s[2] \in Nat /\ u[2] \in Nat /\ s = <<s[1], s[2]>> /\ u = <<u[1], u[2]>>
      OBVIOUS
    <3>3. s[2] = u[2]
      BY <3>1, <3>2
    <3> QED BY <3>1, <3>2, <3>3
  <2>3. ASSUME NEW u \in R PROVE \E s \in G : b[s] = u
    <3>1. u[1] \in S /\ u[2] \in Nat /\ f[u[1]] < u[2] /\ u[2] <= h[u[1]] /\ u = <<u[1], u[2]>>
      OBVIOUS
    <3>2. f[u[1]] \in Nat /\ g[u[1]] \in Nat /\ h[u[1]] = f[u[1]] + g[u[1]]
      BY <3>1, <1>0
    <3> DEFINE s == <<u[1], u[2] - f[u[1]]>>
    <3>3. s[1] = u[1] /\ s[2] = u[2] - f[u[1]]
      OBVIOUS
    <3>4. s[2] \in Nat \ {0} /\ s[2] <= g[s[1]] /\ s[2] + f[s[1]] = u[2]
      <4> HIDE DEF s, h
      <4> QED BY <3>1, <3>2, <3>3
    <3>5. s \in G
      BY <3>1, <3>4
    <3>6. b[s] = <<s[1], s[2] + f[s[1]]>>
      BY <3>5
    <3>7. b[s] = u
      <4> HIDE DEF s, b
      <4> QED BY <3>1, <3>3, <3>4, <3>6
    <3> QED BY <3>5, <3>7
  <2>4. b \in [G -> R]
    BY <2>1
  <2>5. \A s, u \in G : b[s] = b[u] => s = u
    <3> HIDE DEF b, G
    <3> QED BY <2>2
  <2>6. \A u \in R : \E s \in G : b[s] = u
    <3> HIDE DEF b, G, R
    <3> QED BY <2>3
  <2> HIDE DEF b, G, R
  <2>7. b \in Injection(G, R)
    BY <2>4, <2>5 DEF Injection, IsInjective
  <2>8. b \in Surjection(G, R)
    BY <2>4, <2>6 DEF Surjection
  <2> QED BY <2>7, <2>8 DEF Bijection
<1>4. IsFiniteSet(R) /\ Cardinality(R) = Cardinality(G)
  <2> HIDE DEF b, G, R
  <2> QED BY <1>1, <1>3, FS_Bijection DEF ExistsBijection
<1>5. H = F \cup R /\ F \cap R = {}
  <2>1. ASSUME NEW s \in S \X (Nat \ {0})
        PROVE  /\ s[2] <= h[s[1]] <=> s[2] <= f[s[1]] \/ (f[s[1]] < s[2] /\ s[2] <= h[s[1]])
               /\ ~(s[2] <= f[s[1]] /\ f[s[1]] < s[2])
    <3>1. s[1] \in S /\ s[2] \in Nat
      OBVIOUS
    <3> HIDE DEF h
    <3> QED BY <3>1, <1>0
  <2> HIDE DEF h
  <2> USE DEF Pairs
  <2>2. H = F \cup R
    BY <2>1
  <2>3. F \cap R = {}
    BY <2>1
  <2> QED BY <2>2, <2>3
<1>6. Cardinality(H) = Cardinality(F) + Cardinality(R)
  <2>1. Cardinality(F) \in Nat /\ Cardinality(R) \in Nat
    BY <1>1, <1>4, FS_CardinalityType
  <2> HIDE DEF F, R, H
  <2>2. Cardinality(F \cup R) = Cardinality(F) + Cardinality(R) - Cardinality(F \cap R)
    BY <1>1, <1>4, FS_Union
  <2>3. Cardinality(F \cap R) = 0
    BY <1>5, FS_EmptySet
  <2> QED BY <2>1, <2>2, <2>3, <1>5
<1> QED BY <1>1, <1>2, <1>4, <1>6

(* Equals add up to a product.                                             *)
LEMMA TotalOfEquals ==
  ASSUME NEW S, IsFiniteSet(S), NEW A \in SUBSET S, NEW n \in Nat
  PROVE  Total([x \in S |-> IF x \in A THEN n ELSE 0]) = Cardinality(A) * n
<1> DEFINE f == [x \in S |-> IF x \in A THEN n ELSE 0]
           F == Pairs(S, f)
<1>1. f \in [S -> Nat]
  OBVIOUS
<1>2. Total(f) = Cardinality(F)
  <2> HIDE DEF f
  <2> QED BY <1>1, TotalCountsPairs
<1>3. F = A \X (1 .. n)
  <2> USE DEF Pairs
  <2>1. ASSUME NEW s \in F PROVE s \in A \X (1 .. n)
    <3>1. s[1] \in S /\ s[2] \in Nat \ {0} /\ s[2] <= f[s[1]] /\ s = <<s[1], s[2]>>
      OBVIOUS
    <3>2. s[1] \in A /\ s[2] <= n
      BY <3>1
    <3> QED BY <3>1, <3>2
  <2>2. ASSUME NEW s \in A \X (1 .. n) PROVE s \in F
    <3>1. s[1] \in A /\ s[2] \in 1 .. n /\ s = <<s[1], s[2]>>
      OBVIOUS
    <3>2. s[1] \in S /\ s[2] \in Nat \ {0} /\ f[s[1]] = n /\ s[2] <= n
      BY <3>1
    <3>3. s \in S \X (Nat \ {0})
      BY <3>1, <3>2
    <3> QED BY <3>2, <3>3
  <2> QED BY <2>1, <2>2
<1>4. IsFiniteSet(A)
  BY FS_Subset
<1>5. IsFiniteSet(1 .. n) /\ Cardinality(1 .. n) = n
  BY FS_Interval
<1>6. Cardinality(A \X (1 .. n)) = Cardinality(A) * Cardinality(1 .. n)
  BY <1>4, <1>5, FS_Product
<1> HIDE DEF F, f
<1>7. Total(f) = Cardinality(A) * n
  BY <1>2, <1>3, <1>5, <1>6
<1> QED BY <1>7 DEF f

(* One pool more or less changes the total by as much.                     *)
LEMMA TotalOfOneChanged ==
  ASSUME NEW S, IsFiniteSet(S), NEW f \in [S -> Nat], NEW g \in [S -> Nat], NEW x \in S,
         \A y \in S \ {x} : g[y] = f[y]
  PROVE  Total(g) + f[x] = Total(f) + g[x]
<1> DEFINE rest == [f EXCEPT ![x] = 0]
           only(m) == [y \in S |-> IF y \in {x} THEN m ELSE 0]
<1>1. rest \in [S -> Nat] /\ f[x] \in Nat /\ g[x] \in Nat
  OBVIOUS
<1>2. ASSUME NEW m \in Nat
      PROVE  Total([y \in S |-> rest[y] + only(m)[y]]) = Total(rest) + m
  <2>1. only(m) \in [S -> Nat]
    OBVIOUS
  <2>2. Total(only(m)) = m
    <3>1. Total(only(m)) = Cardinality({x}) * m
      BY TotalOfEquals
    <3>2. Cardinality({x}) = 1
      BY FS_Singleton
    <3> HIDE DEF only
    <3> QED BY <3>1, <3>2
  <2> HIDE DEF rest, only
  <2> QED BY <1>1, <2>1, <2>2, TotalOfSum
<1>3. f = [y \in S |-> rest[y] + only(f[x])[y]]
  OBVIOUS
<1>4. g = [y \in S |-> rest[y] + only(g[x])[y]]
  OBVIOUS
<1>5. Total(rest) \in Nat
  BY <1>1, TotalIsNatural
<1>6. Total(f) = Total(rest) + f[x] /\ Total(g) = Total(rest) + g[x]
  <2> HIDE DEF rest, only
  <2> QED BY <1>1, <1>2, <1>3, <1>4
<1> HIDE DEF rest
<1> QED BY <1>1, <1>5, <1>6

(* A finite set whose parts fit what each is given fits the total: when no *)
(* pool has more runners than were counted for it, the host has not.       *)
LEMMA PartsFitTotal ==
  ASSUME NEW S, IsFiniteSet(S), NEW f \in [S -> Nat],
         NEW R, IsFiniteSet(R), NEW part \in [R -> S],
         \A x \in S : Cardinality({r \in R : part[r] = x}) <= f[x]
  PROVE  Cardinality(R) <= Total(f)
<1> DEFINE Part(x) == {r \in R : part[r] = x}
           count == [x \in S |-> Cardinality(Part(x))]
           line == [x \in S |-> CHOOSE b : b \in Surjection(1 .. count[x], Part(x))]
           P == Pairs(S, count)
           place == [s \in P |-> line[s[1]][s[2]]]
<1>1. ASSUME NEW x \in S
      PROVE  count[x] \in Nat /\ line[x] \in Surjection(1 .. count[x], Part(x))
  <2>1. IsFiniteSet(Part(x))
    BY FS_Subset
  <2>2. count[x] \in Nat /\ \E b : b \in Surjection(1 .. count[x], Part(x))
    <3>1. Cardinality(Part(x)) \in Nat
          /\ \E b : b \in Surjection(1 .. Cardinality(Part(x)), Part(x))
      <4> HIDE DEF Part
      <4> QED BY <2>1, FS_CardinalityType DEF ExistsBijection, Bijection
    <3> QED BY <3>1
  <2>3. line[x] = CHOOSE b : b \in Surjection(1 .. count[x], Part(x))
    OBVIOUS
  <2> HIDE DEF Part, count, line
  <2> QED BY <2>2, <2>3
<1>2. count \in [S -> Nat] /\ \A x \in S : count[x] <= f[x]
  BY <1>1
<1>3. Total(count) = Cardinality(P) /\ IsFiniteSet(P) /\ Total(count) <= Total(f)
  <2> HIDE DEF count
  <2> QED BY <1>2, TotalCountsPairs, TotalIsMonotone
<1>4. place \in Surjection(P, R)
  <2>1. ASSUME NEW s \in P PROVE place[s] \in R
    <3>1. s[1] \in S /\ s[2] \in Nat \ {0} /\ s[2] <= count[s[1]]
      <4> HIDE DEF count
      <4> QED BY DEF Pairs
    <3>2. s[2] \in 1 .. count[s[1]]
      <4> HIDE DEF count
      <4> QED BY <1>2, <3>1
    <3>3. line[s[1]] \in [1 .. count[s[1]] -> Part(s[1])]
      <4> HIDE DEF count, line, Part
      <4> QED BY <1>1, <3>1 DEF Surjection
    <3>4. line[s[1]][s[2]] \in Part(s[1])
      <4> HIDE DEF count, line, Part
      <4> QED BY <3>2, <3>3
    <3>5. place[s] = line[s[1]][s[2]]
      <4> HIDE DEF P, line
      <4> QED OBVIOUS
    <3> HIDE DEF place, line, P, count
    <3> QED BY <3>4, <3>5
  <2>2. ASSUME NEW r \in R PROVE \E s \in P : place[s] = r
    <3>1. part[r] \in S /\ r \in Part(part[r])
      OBVIOUS
    <3>2. PICK i \in 1 .. count[part[r]] : line[part[r]][i] = r
      <4> HIDE DEF count, line, Part
      <4> QED BY <1>1, <3>1 DEF Surjection
    <3> DEFINE s == <<part[r], i>>
    <3>3. s \in P
      <4>1. count[part[r]] \in Nat
        BY <1>1, <3>1
      <4> HIDE DEF count, line
      <4> QED BY <3>1, <3>2, <4>1 DEF Pairs
    <3>4. place[s] = line[s[1]][s[2]]
      <4> HIDE DEF P, line, s
      <4> QED BY <3>3
    <3>5. s[1] = part[r] /\ s[2] = i
      OBVIOUS
    <3> HIDE DEF place, line, P, s
    <3> QED BY <3>2, <3>3, <3>4, <3>5
  <2>3. place \in [P -> R]
    <3>1. place = [s \in P |-> place[s]]
      <4> HIDE DEF P, line
      <4> QED OBVIOUS
    <3> HIDE DEF place, P
    <3> QED BY <2>1, <3>1
  <2> HIDE DEF place, P
  <2> QED BY <2>2, <2>3 DEF Surjection
<1>5. IsFiniteSet(P) /\ Cardinality(R) <= Cardinality(P)
  <2> HIDE DEF place, P
  <2> QED BY <1>3, <1>4, FS_Surjection
<1>6. Total(count) \in Nat /\ Total(f) \in Nat /\ Cardinality(R) \in Nat
  <2> HIDE DEF count
  <2> QED BY <1>2, TotalIsNatural, FS_CardinalityType
<1> HIDE DEF P, count
<1> QED BY <1>3, <1>5, <1>6

-----------------------------------------------------------------------------
(* Places in a line.                                                       *)

(* A line: of any two in it one comes before the other.                    *)
IsLine(S, R) ==
  /\ IsFiniteSet(S)
  /\ \A i \in S : <<i, i>> \notin R
  /\ \A i, k \in S : i = k \/ <<i, k>> \in R \/ <<k, i>> \in R
  /\ \A i, k, m \in S : <<i, k>> \in R /\ <<k, m>> \in R => <<i, m>> \in R

(* Those up to and with i.                                                 *)
UpTo(S, R, i) == {k \in S : k = i \/ <<k, i>> \in R}

(* Who comes before another has the smaller place, and the places are      *)
(* those from the first to the length of the line.                         *)
LEMMA PlacesAreOrdered ==
  ASSUME NEW S, NEW R, IsLine(S, R)
  PROVE  /\ \A i \in S : Cardinality(UpTo(S, R, i)) \in 1 .. Cardinality(S)
         /\ \A i, k \in S : <<i, k>> \in R =>
              Cardinality(UpTo(S, R, i)) < Cardinality(UpTo(S, R, k))
<1>1. IsFiniteSet(S) /\ Cardinality(S) \in Nat
  BY FS_CardinalityType DEF IsLine
<1>2. ASSUME NEW i \in S
      PROVE  /\ UpTo(S, R, i) \in SUBSET S /\ IsFiniteSet(UpTo(S, R, i))
             /\ Cardinality(UpTo(S, R, i)) \in 1 .. Cardinality(S)
  <2>1. UpTo(S, R, i) \in SUBSET S /\ i \in UpTo(S, R, i)
    BY DEF UpTo
  <2>2. IsFiniteSet(UpTo(S, R, i)) /\ Cardinality(UpTo(S, R, i)) <= Cardinality(S)
    BY <1>1, <2>1, FS_Subset
  <2>3. Cardinality(UpTo(S, R, i)) \in Nat /\ Cardinality(UpTo(S, R, i)) # 0
    BY <2>1, <2>2, FS_CardinalityType, FS_EmptySet
  <2> QED BY <1>1, <2>1, <2>2, <2>3
<1>3. ASSUME NEW i \in S, NEW k \in S, <<i, k>> \in R
      PROVE  Cardinality(UpTo(S, R, i)) < Cardinality(UpTo(S, R, k))
  <2>1. UpTo(S, R, i) \subseteq UpTo(S, R, k)
    BY <1>3 DEF UpTo, IsLine
  <2>2. k \in UpTo(S, R, k) /\ k \notin UpTo(S, R, i)
    BY <1>3 DEF UpTo, IsLine
  <2>3. Cardinality(UpTo(S, R, i)) <= Cardinality(UpTo(S, R, k))
        /\ Cardinality(UpTo(S, R, i)) # Cardinality(UpTo(S, R, k))
    BY <1>2, <2>1, <2>2, FS_Subset
  <2>4. Cardinality(UpTo(S, R, i)) \in Nat /\ Cardinality(UpTo(S, R, k)) \in Nat
    BY <1>2
  <2> QED BY <2>3, <2>4
<1> QED BY <1>2, <1>3

(* As many are among the first n as there are places, or in the line.      *)
LEMMA PlacesAreTaken ==
  ASSUME NEW S, NEW R, IsLine(S, R), NEW n \in Nat, n <= Cardinality(S)
  PROVE  Cardinality({i \in S : Cardinality(UpTo(S, R, i)) <= n}) = n
<1> DEFINE place == [i \in S |-> Cardinality(UpTo(S, R, i))]
           all == 1 .. Cardinality(S)
           F == {i \in S : Cardinality(UpTo(S, R, i)) <= n}
           first == [i \in F |-> place[i]]
<1>1. IsFiniteSet(S) /\ Cardinality(S) \in Nat
  BY FS_CardinalityType DEF IsLine
<1>2. place \in [S -> all]
  BY PlacesAreOrdered
<1>3. \A i, k \in S : place[i] = place[k] => i = k
  <2> SUFFICES ASSUME NEW i \in S, NEW k \in S, i # k PROVE place[i] # place[k]
    OBVIOUS
  <2>1. <<i, k>> \in R \/ <<k, i>> \in R
    BY DEF IsLine
  <2>2. place[i] < place[k] \/ place[k] < place[i]
    BY <2>1, PlacesAreOrdered
  <2>3. place[i] \in Int /\ place[k] \in Int
    BY <1>1, <1>2
  <2> HIDE DEF place
  <2> QED BY <2>2, <2>3
<1>4. IsFiniteSet(all) /\ Cardinality(all) = Cardinality(S)
  BY <1>1, FS_Interval
<1>5. place \in Surjection(S, all)
  <2>1. place \in Injection(S, all)
    <3> HIDE DEF place, all
    <3> QED BY <1>2, <1>3 DEF Injection, IsInjective
  <2> HIDE DEF place, all
  <2> QED BY <1>4, <2>1, FS_Injection
<1>6. first \in Bijection(F, 1 .. n)
  <2>1. ASSUME NEW i \in F PROVE first[i] \in 1 .. n
    BY <1>1, <1>2
  <2>2. \A i, k \in F : first[i] = first[k] => i = k
    <3> HIDE DEF place
    <3> QED BY <1>3
  <2>3. ASSUME NEW m \in 1 .. n PROVE \E i \in F : first[i] = m
    <3>1. m \in all
      BY <1>1
    <3>2. PICK i \in S : place[i] = m
      <4> HIDE DEF place, all
      <4> QED BY <1>5, <3>1 DEF Surjection
    <3>3. i \in F
      BY <3>2
    <3> QED BY <3>2, <3>3
  <2>4. first \in [F -> 1 .. n]
    BY <2>1
  <2> HIDE DEF first, F
  <2> QED BY <2>2, <2>3, <2>4 DEF Bijection, Injection, IsInjective, Surjection
<1>7. IsFiniteSet(F)
  <2>1. F \in SUBSET S
    OBVIOUS
  <2> HIDE DEF F
  <2> QED BY <1>1, <2>1, FS_Subset
<1>8. Cardinality(1 .. n) = n
  BY FS_Interval
<1>9. Cardinality(1 .. n) = Cardinality(F)
  <2> HIDE DEF F, first
  <2> QED BY <1>6, <1>7, FS_Bijection DEF ExistsBijection
<1> QED BY <1>8, <1>9

(* Where anybody waits, somebody is the first.                             *)
LEMMA SomebodyIsFirst ==
  ASSUME NEW S, NEW R, IsLine(S, R), S # {}
  PROVE  \E i \in S : \A k \in S : k = i \/ <<i, k>> \in R
<1>1. IsFiniteSet(S) /\ Cardinality(S) \in Nat /\ Cardinality(S) >= 1
  BY FS_CardinalityType, FS_EmptySet DEF IsLine
<1> DEFINE F == {i \in S : Cardinality(UpTo(S, R, i)) <= 1}
<1>2. Cardinality(F) = 1
  BY <1>1, PlacesAreTaken
<1>3. F # {}
  <2> HIDE DEF F
  <2> QED BY <1>2, FS_EmptySet
<1>4. PICK i \in S : Cardinality(UpTo(S, R, i)) <= 1
  BY <1>3
<1>5. ASSUME NEW k \in S, <<k, i>> \in R PROVE FALSE
  BY <1>1, <1>4, <1>5, PlacesAreOrdered
<1> QED BY <1>4, <1>5 DEF IsLine

-----------------------------------------------------------------------------
(* Plans.                                                                  *)

(* What PoolSpec.__post_init__ lets through gives a floor and a ceiling.   *)
LEMMA SpecIsTyped ==
  ASSUME NEW s, IsPoolSpec(s)
  PROVE  /\ s.max_runners \in Nat
         /\ s.max_launch_per_tick \in Nat
         /\ Floor(s) \in Nat
         /\ WarmCeiling(s) \in Int
         /\ WarmCeiling(s) # NoCeiling => WarmCeiling(s) >= Floor(s)
BY DEF IsPoolSpec, Floor, WarmCeiling, NoCeiling, ProcessManager

(* The groups of runners the policy counts, and how they nest.             *)
LEMMA GroupsNest ==
  ASSUME NEW s, NEW v, IsPoolView(v)
  PROVE  /\ IsFiniteSet(Active(v)) /\ Cardinality(Active(v)) \in Nat
         /\ IsFiniteSet(Available(s, v)) /\ Cardinality(Available(s, v)) \in Nat
         /\ IsFiniteSet(Idle(v)) /\ Cardinality(Idle(v)) \in Nat
         /\ IsFiniteSet(Overrunning(s, v)) /\ Cardinality(Overrunning(s, v)) \in Nat
         /\ Cardinality(Idle(v)) <= Cardinality(Available(s, v))
         /\ Cardinality(Available(s, v)) <= Cardinality(Active(v) \ Overrunning(s, v))
         /\ Cardinality(Active(v) \ Overrunning(s, v))
              = Cardinality(Active(v)) - Cardinality(Overrunning(s, v))
<1>1. Idle(v) \subseteq Available(s, v)
  BY DEF Idle, Available, Overrunning, InState, AvailableStates
<1>2. Available(s, v) \subseteq Active(v) \ Overrunning(s, v)
  BY DEF Active, Available, InState, AvailableStates, ActiveStates
<1>3. Overrunning(s, v) \subseteq Active(v)
  BY DEF Active, Overrunning, InState, ActiveStates
<1>4. Active(v) \in SUBSET (DOMAIN v.state)
  BY DEF Active, InState
<1>5. IsFiniteSet(Active(v))
  BY <1>4, FS_Subset DEF IsPoolView
<1>6. IsFiniteSet(Active(v) \ Overrunning(s, v))
  BY <1>5, FS_Difference
<1>7. /\ IsFiniteSet(Available(s, v))
      /\ Cardinality(Available(s, v)) <= Cardinality(Active(v) \ Overrunning(s, v))
  BY <1>2, <1>6, FS_Subset
<1>8. /\ IsFiniteSet(Idle(v))
      /\ Cardinality(Idle(v)) <= Cardinality(Available(s, v))
  BY <1>1, <1>7, FS_Subset
<1>9. IsFiniteSet(Overrunning(s, v))
  BY <1>3, <1>5, FS_Subset
<1>10. Cardinality(Active(v) \ Overrunning(s, v))
         = Cardinality(Active(v)) - Cardinality(Overrunning(s, v))
  <2>1. Active(v) \cap Overrunning(s, v) = Overrunning(s, v)
    BY <1>3
  <2> QED BY <2>1, <1>5, FS_Difference
<1> QED BY <1>5, <1>7, <1>8, <1>9, <1>10, FS_CardinalityType

(* What Launch is bounded by, and when it is nothing (rules 1 to 3).       *)
LEMMA LaunchIsBounded ==
  ASSUME NEW s, IsPoolSpec(s), NEW v, IsPoolView(v), NEW n \in Nat
  PROVE  /\ Launch(s, v, n) \in Nat
         /\ Launch(s, v, n) <= Headroom(s, v)
         /\ Launch(s, v, n) <= s.max_launch_per_tick
         /\ \/ Launch(s, v, n) = Wanted(s, v, n)
            \/ Launch(s, v, n) = Headroom(s, v)
            \/ Launch(s, v, n) = s.max_launch_per_tick
         /\ Wanted(s, v, n) + Cardinality(Available(s, v)) >= n + Floor(s)
         /\ n = 0 /\ Cardinality(Available(s, v)) >= Floor(s) => Launch(s, v, n) = 0
<1>1. /\ Cardinality(Available(s, v)) \in Nat
      /\ Cardinality(Active(v)) \in Nat
      /\ Cardinality(Overrunning(s, v)) \in Nat
  BY GroupsNest
<1>2. /\ s.max_runners \in Nat
      /\ s.max_launch_per_tick \in Nat
      /\ Floor(s) \in Nat
  BY SpecIsTyped
<1>3. Uncovered(s, v, n) \in Nat /\ WarmShortfall(s, v, n) \in Nat
  BY <1>1, <1>2 DEF Uncovered, WarmShortfall, AtLeastZero
<1>4. Headroom(s, v) \in Nat
  BY <1>1, <1>2 DEF Headroom, AtLeastZero
<1>5. Wanted(s, v, n) \in Nat
  BY <1>3 DEF Wanted
<1>6. Wanted(s, v, n) + Cardinality(Available(s, v)) >= n + Floor(s)
  BY <1>1, <1>2 DEF Wanted, WarmShortfall, Uncovered, AtLeastZero
<1>7. n = 0 /\ Cardinality(Available(s, v)) >= Floor(s) => Wanted(s, v, n) = 0
  BY <1>1, <1>2 DEF Wanted, WarmShortfall, Uncovered, AtLeastZero
<1> QED BY <1>2, <1>4, <1>5, <1>6, <1>7 DEF Launch, LesserOf

(* Whatever is reaped is idle, and there is more of it than the floor      *)
(* needs, before and after (rule 4 with the warm ceiling).                 *)
LEMMA ReapingKeepsFloor ==
  ASSUME NEW s, IsPoolSpec(s), NEW v, IsPoolView(v), NEW n \in Nat,
         NEW R \in Retire(s, v, n), R # {}
  PROVE  /\ n = 0
         /\ R \subseteq Idle(v)
         /\ Cardinality(Idle(v)) >= Floor(s)
         /\ Cardinality(Idle(v)) - Cardinality(R) >= Floor(s)
<1>1. MayReap(s, n)
  BY DEF Retire
<1>0. PICK going \in BeyondTimeout(s, v) :
        \E surplus \in AboveCeiling(s, v, going) : R = going \cup surplus
  BY <1>1 DEF Retire
<1>2. PICK surplus \in AboveCeiling(s, v, going) : R = going \cup surplus
  BY <1>0
<1>3. PICK T \in LongestIdle(v, Idle(v), Disposable(s, v)) :
        going = {r \in T : v.age[r] > s.idle_timeout}
  BY <1>0 DEF BeyondTimeout
<1>4. /\ Floor(s) \in Nat
      /\ WarmCeiling(s) \in Int
      /\ WarmCeiling(s) # NoCeiling => WarmCeiling(s) >= Floor(s)
  BY SpecIsTyped
<1>5. IsFiniteSet(Idle(v)) /\ Cardinality(Idle(v)) \in Nat
  BY GroupsNest
<1>6. /\ T \subseteq Idle(v)
      /\ Cardinality(T) = AtLeastZero(Cardinality(Idle(v)) - Floor(s))
  BY <1>3 DEF LongestIdle, Disposable
<1>7. IsFiniteSet(T) /\ Cardinality(T) \in Nat
  BY <1>5, <1>6, FS_Subset, FS_CardinalityType
<1>8. /\ going \subseteq Idle(v) /\ IsFiniteSet(going)
      /\ Cardinality(going) \in Nat /\ Cardinality(going) <= Cardinality(T)
  <2>1. going \in SUBSET T
    BY <1>3
  <2> QED BY <2>1, <1>6, <1>7, FS_Subset, FS_CardinalityType
<1> DEFINE warm == Idle(v) \ going
<1>9. /\ IsFiniteSet(warm) /\ Cardinality(warm) \in Nat
      /\ Cardinality(warm) = Cardinality(Idle(v)) - Cardinality(going)
  <2>1. Idle(v) \cap going = going
    BY <1>8
  <2>2. /\ IsFiniteSet(Idle(v) \ going)
        /\ Cardinality(Idle(v) \ going) = Cardinality(Idle(v)) - Cardinality(Idle(v) \cap going)
    BY <1>5, FS_Difference
  <2> QED BY <2>1, <2>2, FS_CardinalityType
<1>10. /\ surplus \subseteq warm
       /\ \/ surplus = {}
          \/ /\ WarmCeiling(s) # NoCeiling
             /\ Cardinality(surplus) = AtLeastZero(Cardinality(warm) - WarmCeiling(s))
  BY <1>2 DEF AboveCeiling, LongestIdle
<1>11. IsFiniteSet(surplus) /\ Cardinality(surplus) \in Nat
  <2>1. surplus \in SUBSET warm
    BY <1>10
  <2> HIDE DEF warm
  <2> QED BY <2>1, <1>9, FS_Subset, FS_CardinalityType
<1>12. Cardinality(R) = Cardinality(going) + Cardinality(surplus)
  <2>1. going \cap surplus = {}
    BY <1>10
  <2> QED BY <2>1, <1>2, <1>8, <1>11, FS_Union, FS_EmptySet
<1>13. surplus # {} => Cardinality(surplus) # 0
  BY <1>11, FS_EmptySet
<1>14. going # {} => Cardinality(going) # 0
  BY <1>8, FS_EmptySet
<1>15. Cardinality(Idle(v)) - Cardinality(R) >= Floor(s)
  <2>1. CASE surplus = {}
    <3>1. Cardinality(surplus) = 0 /\ going # {}
      BY <2>1, <1>2, FS_EmptySet
    <3> QED BY <3>1, <1>4, <1>5, <1>6, <1>7, <1>8, <1>12, <1>14 DEF AtLeastZero
  <2>2. CASE surplus # {}
    <3> HIDE DEF warm
    <3> QED BY <2>2, <1>4, <1>5, <1>8, <1>9, <1>10, <1>11, <1>12, <1>13 DEF AtLeastZero
  <2> QED BY <2>1, <2>2
<1>16. R \subseteq Idle(v)
  BY <1>2, <1>8, <1>10
<1>17. n = 0
  BY <1>1 DEF MayReap
<1> QED BY <1>4, <1>5, <1>8, <1>11, <1>12, <1>15, <1>16, <1>17

(* A move of the state table leaves the kinds of states and never makes a  *)
(* record active that was not.                                             *)
LEMMA MovesStayActive ==
  ASSUME NEW from \in RunnerState, NEW to \in Transitions[from]
  PROVE  to \in RunnerState /\ (to \in ActiveStates => from \in ActiveStates)
BY DEF RunnerState, Transitions, ActiveStates
=============================================================================
