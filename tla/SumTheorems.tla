---------------------------- MODULE SumTheorems ----------------------------
(***************************************************************************)
(* What the proofs need to know of the sums of Sums, and of induction: the *)
(* lemmas that the library states with an operator parameter, for amounts  *)
(* that are a function and for numbers that are in a set; and of the       *)
(* longest end that fits.                                                  *)
(***************************************************************************)
EXTENDS Sums, FiniteSetTheorems, FunctionTheorems, WellFoundedInduction, TLAPS

Amounting(f, S) == IsFiniteSet(S) /\ \A x \in S : f[x] \in Nat

DifferAt(f, g, S, x) == \A y \in S : y # x => g[y] = f[y]

LEMMA UnitOf ==
    ASSUME NEW f, NEW S, NEW u
    PROVE  u \in Units(f, S) <=> \E x \in S : \E i \in 1..f[x] : u = <<x, i>>
  BY DEF Units

\* A sum of finitely many natural numbers is one.
LEMMA SumType ==
    ASSUME NEW f, NEW S, Amounting(f, S)
    PROVE  IsFiniteSet(Units(f, S)) /\ SumOver(f, S) \in Nat
<1>. DEFINE U(x) == {x} \X (1..f[x])
            g == [x \in S |-> U(x)]
            T == {U(x) : x \in S}
<1>1. g \in Surjection(S, T)
  BY DEF Surjection
<1>2. IsFiniteSet(T)
  BY <1>1, FS_Surjection DEF Amounting
<1>3. ASSUME NEW x \in S PROVE IsFiniteSet(U(x))
  <2>1. f[x] \in Int
    BY DEF Amounting
  <2>2. IsFiniteSet(1..f[x])
    BY <2>1, FS_Interval
  <2>3. IsFiniteSet({x})
    BY FS_Singleton
  <2>. QED  BY <2>2, <2>3, FS_Product
<1>4. \A V \in T : IsFiniteSet(V)
  BY <1>3
<1>5. Units(f, S) = UNION T
  BY DEF Units
<1>. HIDE DEF T
<1>6. IsFiniteSet(UNION T)
  BY <1>2, <1>4, FS_UNION
<1>. QED  BY <1>5, <1>6, FS_CardinalityType DEF SumOver

LEMMA SumEmpty ==
    ASSUME NEW f
    PROVE  SumOver(f, {}) = 0
<1>1. Units(f, {}) = {}
  BY DEF Units
<1>. QED  BY <1>1, FS_EmptySet DEF SumOver

\* Only the amounts of the members count.
LEMMA SumSame ==
    ASSUME NEW f, NEW g, NEW S, \A x \in S : f[x] = g[x]
    PROVE  SumOver(f, S) = SumOver(g, S)
<1>1. Units(f, S) = Units(g, S)
  BY DEF Units
<1>. QED  BY <1>1 DEF SumOver

\* The sum over two sets that have nothing in common.
LEMMA SumUnion ==
    ASSUME NEW f, NEW S, NEW T, Amounting(f, S), Amounting(f, T), S \intersect T = {}
    PROVE  SumOver(f, S \union T) = SumOver(f, S) + SumOver(f, T)
<1>1. Units(f, S \union T) = Units(f, S) \union Units(f, T)
  BY DEF Units
<1>2. Units(f, S) \intersect Units(f, T) = {}
  <2>. SUFFICES ASSUME NEW u \in Units(f, S), u \in Units(f, T) PROVE FALSE
    OBVIOUS
  <2>. QED  BY UnitOf
<1>3. IsFiniteSet(Units(f, S)) /\ IsFiniteSet(Units(f, T)) /\ SumOver(f, S) \in Nat /\ SumOver(f, T) \in Nat
  BY SumType
<1>4. Cardinality({}) = 0
  BY FS_EmptySet
<1>5. Cardinality(Units(f, S) \union Units(f, T)) = SumOver(f, S) + SumOver(f, T) - Cardinality({})
  BY <1>2, <1>3, FS_Union DEF SumOver
<1>6. SumOver(f, S \union T) = Cardinality(Units(f, S) \union Units(f, T))
  BY <1>1 DEF SumOver
<1>. QED  BY <1>3, <1>4, <1>5, <1>6

\* The sum over one element.
LEMMA SumOne ==
    ASSUME NEW f, NEW x, f[x] \in Nat
    PROVE  Amounting(f, {x}) /\ SumOver(f, {x}) = f[x]
<1>0. Amounting(f, {x})
  BY FS_Singleton DEF Amounting
<1>1. Units(f, {x}) = {x} \X (1..f[x])
  BY DEF Units
<1>2. /\ IsFiniteSet({x}) /\ Cardinality({x}) = 1
      /\ IsFiniteSet(1..f[x]) /\ Cardinality(1..f[x]) = f[x]
  <2>1. 1 \in Int /\ f[x] \in Int /\ (IF 1 > f[x] THEN 0 ELSE f[x] - 1 + 1) = f[x]
    OBVIOUS
  <2>2. IsFiniteSet(1..f[x]) /\ Cardinality(1..f[x]) = f[x]
    BY <2>1, FS_Interval
  <2>. QED  BY <2>2, FS_Singleton
<1>3. Cardinality({x} \X (1..f[x])) = Cardinality({x}) * Cardinality(1..f[x])
  BY <1>2, FS_Product
<1>4. Cardinality({x} \X (1..f[x])) = f[x]
  BY <1>2, <1>3
<1>. QED  BY <1>0, <1>1, <1>4 DEF SumOver

LEMMA SumAdd ==
    ASSUME NEW f, NEW S, Amounting(f, S), NEW x, x \notin S, f[x] \in Nat
    PROVE  Amounting(f, S \union {x}) /\ SumOver(f, S \union {x}) = SumOver(f, S) + f[x]
<1>1. Amounting(f, {x}) /\ SumOver(f, {x}) = f[x]
  BY SumOne
<1>2. S \intersect {x} = {}
  OBVIOUS
<1>3. SumOver(f, S \union {x}) = SumOver(f, S) + SumOver(f, {x})
  BY <1>1, <1>2, SumUnion
<1>4. Amounting(f, S \union {x})
  BY FS_AddElement DEF Amounting
<1>. QED  BY <1>1, <1>3, <1>4

LEMMA SumRemove ==
    ASSUME NEW f, NEW S, Amounting(f, S), NEW x \in S
    PROVE  /\ Amounting(f, S \ {x}) /\ SumOver(f, S \ {x}) \in Nat
           /\ SumOver(f, S) = SumOver(f, S \ {x}) + f[x]
<1>1. Amounting(f, S \ {x})
  BY FS_RemoveElement DEF Amounting
<1>2. (S \ {x}) \union {x} = S /\ f[x] \in Nat /\ x \notin S \ {x}
  BY DEF Amounting
<1>3. SumOver(f, (S \ {x}) \union {x}) = SumOver(f, S \ {x}) + f[x]
  BY <1>1, <1>2, SumAdd
<1>. QED  BY <1>1, <1>2, <1>3, SumType

\* The sum when one amount changes.
LEMMA SumPut ==
    ASSUME NEW f, NEW g, NEW S, Amounting(f, S), NEW x \in S, g[x] \in Nat,
           DifferAt(f, g, S, x)
    PROVE  Amounting(g, S) /\ SumOver(g, S) = SumOver(f, S) - f[x] + g[x]
<1>1. Amounting(g, S)
  BY DEF Amounting, DifferAt
<1>2. /\ SumOver(f, S \ {x}) \in Nat /\ SumOver(f, S) = SumOver(f, S \ {x}) + f[x]
      /\ SumOver(g, S \ {x}) \in Nat /\ SumOver(g, S) = SumOver(g, S \ {x}) + g[x]
  BY <1>1, SumRemove
<1>3. SumOver(f, S \ {x}) = SumOver(g, S \ {x})
  <2>1. \A y \in S \ {x} : f[y] = g[y]
    BY DEF DifferAt
  <2>. QED  BY <2>1, SumSame
<1>4. f[x] \in Nat
  BY DEF Amounting
<1>. QED  BY <1>1, <1>2, <1>3, <1>4

\* Nothing adds up to nothing.
LEMMA SumZero ==
    ASSUME NEW f, NEW S, \A x \in S : f[x] = 0
    PROVE  SumOver(f, S) = 0
<1>1. Units(f, S) = {}
  <2>. SUFFICES ASSUME NEW u \in Units(f, S) PROVE FALSE
    OBVIOUS
  <2>1. PICK x \in S : \E i \in 1..f[x] : u = <<x, i>>
    BY UnitOf
  <2>. QED  BY <2>1
<1>. QED  BY <1>1, FS_EmptySet DEF SumOver

\* The same amount for each.
LEMMA SumConstant ==
    ASSUME NEW f, NEW S, IsFiniteSet(S), NEW c \in Nat, \A x \in S : f[x] = c
    PROVE  SumOver(f, S) = c * Cardinality(S)
<1>1. Units(f, S) = S \X (1..c)
  BY DEF Units
<1>2. IsFiniteSet(1..c) /\ Cardinality(1..c) = c /\ Cardinality(S) \in Nat
  <2>1. 1 \in Int /\ c \in Int /\ (IF 1 > c THEN 0 ELSE c - 1 + 1) = c
    OBVIOUS
  <2>2. IsFiniteSet(1..c) /\ Cardinality(1..c) = c
    BY <2>1, FS_Interval
  <2>. QED  BY <2>2, FS_CardinalityType
<1>3. Cardinality(S \X (1..c)) = Cardinality(S) * Cardinality(1..c)
  BY <1>2, FS_Product
<1>4. Cardinality(S) * Cardinality(1..c) = c * Cardinality(S)
  BY <1>2
<1>. QED  BY <1>1, <1>3, <1>4 DEF SumOver

-----------------------------------------------------------------------------
(* Induction.  The library's induction theorems are about an operator,     *)
(* these about a set: the numbers of which something holds.                *)

LEMMA LeastNatural ==
    ASSUME NEW T, T \subseteq Nat, T # {}
    PROVE  \E n \in T : \A m \in T : n <= m
<1>. DEFINE R == OpToRel(<, Nat)
<1>1. IsWellFoundedOn(R, Nat)
  BY NatLessThanWellFounded
<1>2. \A m, n \in Nat : m < n => <<m, n>> \in R
  BY DEF OpToRel
<1>. HIDE DEF R
<1>3. PICK n \in T : \A m \in T : <<m, n>> \notin R
  BY <1>1, WFMin
<1>4. \A m \in T : m \in Nat /\ n \in Nat /\ ~(m < n)
  BY <1>2, <1>3
<1>5. \A m \in T : n <= m
  BY <1>4
<1>. QED  BY <1>3, <1>5

LEMMA SetInduction ==
    ASSUME NEW T, 0 \in T, \A n \in Nat : n \in T => n + 1 \in T
    PROVE  Nat \subseteq T
<1>. SUFFICES ASSUME Nat \ T # {}  PROVE FALSE
  OBVIOUS
<1>1. PICK n \in Nat \ T : \A m \in Nat \ T : n <= m
  BY LeastNatural
<1>2. n - 1 \in Nat
  BY <1>1
<1>3. n - 1 \in T
  BY <1>1, <1>2
<1>. QED  BY <1>1, <1>2, <1>3
-----------------------------------------------------------------------------
(* The longest end of a sequence of costs that fits a budget: what an end  *)
(* costs falls with its first place, and the walk from the last cost back  *)
(* stops at the last place from which they cost more than the budget.      *)

\* What an end costs, by the one that is one shorter.
LEMMA EndCostStep ==
    ASSUME NEW costs \in Seq(Nat)
    PROVE  /\ SumOver(costs, (Len(costs) + 1)..Len(costs)) = 0
           /\ \A i \in 1..(Len(costs) + 1) : SumOver(costs, i..Len(costs)) \in Nat
           /\ \A i \in 1..Len(costs) :
                 SumOver(costs, i..Len(costs)) = SumOver(costs, (i + 1)..Len(costs)) + costs[i]
<1>1. Len(costs) \in Nat /\ \A i \in 1..Len(costs) : costs[i] \in Nat
  OBVIOUS
<1>2. SumOver(costs, (Len(costs) + 1)..Len(costs)) = 0
  <2>1. (Len(costs) + 1)..Len(costs) = {}
    BY <1>1
  <2>. QED  BY <2>1, SumEmpty
<1>3. ASSUME NEW i \in 1..(Len(costs) + 1)
      PROVE  Amounting(costs, i..Len(costs)) /\ SumOver(costs, i..Len(costs)) \in Nat
  <2>1. i \in Int /\ Len(costs) \in Int
    BY <1>1
  <2>2. IsFiniteSet(i..Len(costs))
    BY <2>1, FS_Interval
  <2>3. \A x \in i..Len(costs) : x \in 1..Len(costs)
    BY <1>1
  <2>4. Amounting(costs, i..Len(costs))
    BY <1>1, <2>2, <2>3 DEF Amounting
  <2>. QED  BY <2>4, SumType
<1>4. ASSUME NEW i \in 1..Len(costs)
      PROVE  SumOver(costs, i..Len(costs)) = SumOver(costs, (i + 1)..Len(costs)) + costs[i]
  <2>1. /\ i + 1 \in 1..(Len(costs) + 1) /\ i \notin (i + 1)..Len(costs)
        /\ i..Len(costs) = ((i + 1)..Len(costs)) \union {i}
    BY <1>1
  <2>2. Amounting(costs, (i + 1)..Len(costs)) /\ costs[i] \in Nat
    BY <1>1, <1>3, <2>1
  <2>3. SumOver(costs, ((i + 1)..Len(costs)) \union {i}) = SumOver(costs, (i + 1)..Len(costs)) + costs[i]
    BY <2>1, <2>2, SumAdd
  <2>. QED  BY <2>1, <2>3
<1>. QED  BY <1>2, <1>3, <1>4

\* The walk back, from the places on that it has been through already.
EndWalk(costs, budget, from, i) ==
    IF i > Len(costs) THEN [first |-> i, used |-> 0]
    ELSE LET later == from[i + 1]
             used == later.used + costs[i]
         IN IF later.first = i + 1 /\ used <= budget
            THEN [first |-> i, used |-> used] ELSE later

\* There is a walk: each of its steps looks at the one before only.
LEMMA EndWalkExists ==
    ASSUME NEW costs \in Seq(Nat), NEW budget
    PROVE  \E from : from = [i \in 1..(Len(costs) + 1) |-> EndWalk(costs, budget, from, i)]
<1>. DEFINE n == Len(costs)
            Walked(k) == \E from : from = [i \in (n + 1 - k)..(n + 1) |-> EndWalk(costs, budget, from, i)]
            T == {k \in Nat : k > n \/ Walked(k)}
<1>1. n \in Nat
  OBVIOUS
<1>. HIDE DEF n
<1>2. 0 \in T
  <2>. DEFINE from == [i \in (n + 1)..(n + 1) |-> [first |-> i, used |-> 0]]
  <2>1. \A i \in (n + 1)..(n + 1) : EndWalk(costs, budget, from, i) = [first |-> i, used |-> 0]
    BY <1>1 DEF EndWalk, n
  <2>2. from = [i \in (n + 1)..(n + 1) |-> EndWalk(costs, budget, from, i)]
    BY <2>1
  <2>3. n + 1 - 0 = n + 1
    BY <1>1
  <2>. HIDE DEF from
  <2>4. Walked(0)
    BY <2>2, <2>3
  <2>. QED  BY <2>4
<1>3. ASSUME NEW k \in Nat, k \in T
      PROVE  k + 1 \in T
  <2>. SUFFICES ASSUME k + 1 <= n PROVE Walked(k + 1)
    BY <1>1
  <2>1. PICK old : old = [i \in (n + 1 - k)..(n + 1) |-> EndWalk(costs, budget, old, i)]
    BY <1>1, <1>3
  <2>. DEFINE a == n - k
              from == [i \in a..(n + 1) |-> IF i = a THEN EndWalk(costs, budget, old, a) ELSE old[i]]
  <2>2. /\ a \in 1..n /\ n + 1 - k = a + 1 /\ n + 1 - (k + 1) = a
        /\ \A i \in a..(n + 1) : i = a \/ i \in (a + 1)..(n + 1)
        /\ \A i \in a..n : i + 1 \in (a + 1)..(n + 1) /\ i + 1 \in a..(n + 1) /\ i + 1 # a
    BY <1>1
  <2>3. \A i \in a..n : from[i + 1] = old[i + 1]
    BY <2>2
  <2>4. \A i \in a..(n + 1) : EndWalk(costs, budget, from, i) = EndWalk(costs, budget, old, i)
    <3>1. \A i \in a..(n + 1) : i > n \/ i \in a..n
      BY <1>1, <2>2
    <3>. HIDE DEF from
    <3>. QED  BY <2>3, <3>1 DEF EndWalk, n
  <2>5. \A i \in (a + 1)..(n + 1) : old[i] = EndWalk(costs, budget, old, i)
    BY <2>1, <2>2
  <2>6. \A i \in a..(n + 1) : from[i] = EndWalk(costs, budget, from, i)
    <3>1. \A i \in a..(n + 1) : from[i] = EndWalk(costs, budget, old, i)
      BY <2>2, <2>5
    <3>. QED  BY <2>4, <3>1
  <2>7. from = [i \in a..(n + 1) |-> from[i]]
    OBVIOUS
  <2>. HIDE DEF from, a
  <2>8. from = [i \in a..(n + 1) |-> EndWalk(costs, budget, from, i)]
    BY <2>6, <2>7
  <2>. QED  BY <2>2, <2>8
<1>. HIDE DEF T
<1>4. Nat \subseteq T
  BY <1>2, <1>3, SetInduction
<1>5. Walked(n)
  BY <1>1, <1>4 DEF T
<1>6. n + 1 - n = 1
  BY <1>1
<1>. QED  BY <1>5, <1>6 DEF n

\* LongestEnd is where the walk ends.
LEMMA LongestEndWalks ==
    ASSUME NEW costs \in Seq(Nat), NEW budget
    PROVE  \E from : /\ from = [i \in 1..(Len(costs) + 1) |-> EndWalk(costs, budget, from, i)]
                     /\ LongestEnd(costs, budget) = from[1]
<1>. DEFINE F == CHOOSE from : from = [i \in 1..(Len(costs) + 1) |-> EndWalk(costs, budget, from, i)]
<1>1. F = [i \in 1..(Len(costs) + 1) |-> EndWalk(costs, budget, F, i)]
  BY EndWalkExists
<1>2. LongestEnd(costs, budget) = F[1]
  BY DEF LongestEnd, EndWalk
<1>. QED  BY <1>1, <1>2

\* A walk that has come to place i keeps the longest end that fits.
EndFits(costs, budget, i, kept) ==
    /\ kept.first \in i..(Len(costs) + 1)
    /\ kept.used = SumOver(costs, kept.first..Len(costs)) /\ kept.used <= budget
    /\ kept.first > i => SumOver(costs, (kept.first - 1)..Len(costs)) > budget

LEMMA LongestEndKept ==
    ASSUME NEW costs \in Seq(Nat), NEW budget \in Nat
    PROVE  EndFits(costs, budget, 1, LongestEnd(costs, budget))
<1>. DEFINE n == Len(costs)
<1>1. n \in Nat
  OBVIOUS
<1>2. PICK from : /\ from = [i \in 1..(n + 1) |-> EndWalk(costs, budget, from, i)]
                  /\ LongestEnd(costs, budget) = from[1]
  BY LongestEndWalks
<1>3. /\ SumOver(costs, (n + 1)..n) = 0
      /\ \A i \in 1..(n + 1) : SumOver(costs, i..n) \in Nat
      /\ \A i \in 1..n : SumOver(costs, i..n) = SumOver(costs, (i + 1)..n) + costs[i]
  BY EndCostStep
<1>4. \A i \in 1..(n + 1) : from[i] = EndWalk(costs, budget, from, i)
  BY <1>2
<1>. DEFINE T == {k \in Nat : k > n \/ EndFits(costs, budget, n + 1 - k, from[n + 1 - k])}
<1>5. 0 \in T
  <2>1. from[n + 1] = [first |-> n + 1, used |-> 0]
    <3>1. n + 1 \in 1..(n + 1) /\ n + 1 > n
      BY <1>1
    <3>2. from[n + 1] = EndWalk(costs, budget, from, n + 1)
      BY <1>4, <3>1
    <3>. QED  BY <3>1, <3>2 DEF EndWalk
  <2>2. EndFits(costs, budget, n + 1, from[n + 1])
    BY <1>1, <1>3, <2>1 DEF EndFits
  <2>3. n + 1 - 0 = n + 1
    BY <1>1
  <2>. QED  BY <2>2, <2>3
<1>6. ASSUME NEW k \in Nat, k \in T
      PROVE  k + 1 \in T
  <2>. SUFFICES ASSUME k + 1 <= n PROVE EndFits(costs, budget, n + 1 - (k + 1), from[n + 1 - (k + 1)])
    BY <1>1
  <2>. DEFINE i == n - k
              later == from[i + 1]
              used == later.used + costs[i]
  <2>1. i \in 1..n /\ n + 1 - k = i + 1 /\ n + 1 - (k + 1) = i /\ i \in 1..(n + 1) /\ ~(i > n)
    BY <1>1
  <2>2. EndFits(costs, budget, i + 1, later)
    BY <1>1, <1>6, <2>1
  <2>3. from[i] = IF later.first = i + 1 /\ used <= budget
                  THEN [first |-> i, used |-> used] ELSE later
    BY <1>4, <2>1 DEF EndWalk
  <2>4. /\ SumOver(costs, i..n) = SumOver(costs, (i + 1)..n) + costs[i]
        /\ SumOver(costs, i..n) \in Nat
    BY <1>3, <2>1
  <2>. HIDE DEF later, i
  <2>5. EndFits(costs, budget, i, from[i])
    <3>1. CASE later.first = i + 1 /\ used <= budget
      <4>1. from[i].first = i /\ from[i].used = used
        BY <2>3, <3>1
      <4>2. used = SumOver(costs, i..n)
        BY <2>2, <2>4, <3>1 DEF EndFits
      <4>. QED  BY <1>1, <2>1, <3>1, <4>1, <4>2 DEF EndFits
    <3>2. CASE later.first = i + 1 /\ ~(used <= budget)
      <4>1. from[i] = later
        BY <2>3, <3>2
      <4>2. used = SumOver(costs, i..n)
        BY <2>2, <2>4, <3>2 DEF EndFits
      <4>3. SumOver(costs, (later.first - 1)..n) > budget
        <5>1. later.first - 1 = i
          BY <2>1, <3>2
        <5>2. SumOver(costs, i..n) > budget
          BY <2>4, <3>2, <4>2
        <5>. QED  BY <5>1, <5>2
      <4>4. later.first \in i..(n + 1)
        BY <1>1, <2>1, <3>2
      <4>. QED  BY <2>2, <4>1, <4>3, <4>4 DEF EndFits
    <3>3. CASE later.first # i + 1
      <4>1. from[i] = later
        BY <2>3, <3>3
      <4>2. later.first \in i..(n + 1) /\ later.first > i + 1
        BY <1>1, <2>1, <2>2, <3>3 DEF EndFits
      <4>. QED  BY <2>2, <4>1, <4>2 DEF EndFits
    <3>. QED  BY <3>1, <3>2, <3>3
  <2>. QED  BY <2>1, <2>5
<1>. HIDE DEF T
<1>7. Nat \subseteq T
  BY <1>5, <1>6, SetInduction
<1>8. n + 1 - n = 1 /\ ~(n > n)
  BY <1>1
<1>9. EndFits(costs, budget, n + 1 - n, from[n + 1 - n])
  BY <1>1, <1>7, <1>8 DEF T
<1>. QED  BY <1>2, <1>8, <1>9

\* The longer an end, the more it costs.
LEMMA EndCostFalls ==
    ASSUME NEW costs \in Seq(Nat), NEW i \in 1..(Len(costs) + 1), NEW j \in i..(Len(costs) + 1)
    PROVE  SumOver(costs, j..Len(costs)) <= SumOver(costs, i..Len(costs))
<1>. DEFINE n == Len(costs)
            T == {k \in Nat : i + k > n + 1 \/ SumOver(costs, (i + k)..n) <= SumOver(costs, i..n)}
<1>1. n \in Nat /\ i \in Nat /\ i >= 1 /\ j \in Nat
  OBVIOUS
<1>2. /\ \A k \in 1..(n + 1) : SumOver(costs, k..n) \in Nat
      /\ \A k \in 1..n : SumOver(costs, k..n) = SumOver(costs, (k + 1)..n) + costs[k]
  BY EndCostStep
<1>7. \A k \in 1..n : costs[k] \in Nat
  OBVIOUS
<1>3. 0 \in T
  <2>1. i + 0 = i /\ SumOver(costs, i..n) \in Nat
    BY <1>1, <1>2
  <2>2. SumOver(costs, (i + 0)..n) <= SumOver(costs, i..n)
    BY <2>1
  <2>. QED  BY <2>2
<1>4. ASSUME NEW k \in Nat, k \in T
      PROVE  k + 1 \in T
  <2>. SUFFICES ASSUME i + (k + 1) <= n + 1
                PROVE  SumOver(costs, (i + (k + 1))..n) <= SumOver(costs, i..n)
    BY <1>1
  <2>1. i + (k + 1) = (i + k) + 1 /\ i + k \in 1..n /\ (i + k) + 1 \in 1..(n + 1)
    BY <1>1
  <2>2. SumOver(costs, (i + k)..n) <= SumOver(costs, i..n)
    BY <1>1, <1>4, <2>1
  <2>3. SumOver(costs, (i + k)..n) = SumOver(costs, ((i + k) + 1)..n) + costs[i + k] /\ costs[i + k] \in Nat
    BY <1>2, <1>7, <2>1
  <2>4. SumOver(costs, ((i + k) + 1)..n) \in Nat /\ SumOver(costs, i..n) \in Nat /\ SumOver(costs, (i + k)..n) \in Nat
    BY <1>1, <1>2, <2>1
  <2>5. SumOver(costs, ((i + k) + 1)..n) <= SumOver(costs, i..n)
    BY <2>2, <2>3, <2>4
  <2>. QED  BY <2>1, <2>5
<1>. HIDE DEF T
<1>5. Nat \subseteq T
  BY <1>3, <1>4, SetInduction
<1>6. j - i \in Nat /\ i + (j - i) = j /\ ~(j > n + 1)
  BY <1>1
<1>. QED  BY <1>5, <1>6 DEF T

\* LongestEnd keeps the longest end that fits, and says what it costs.
LEMMA LongestEndFits ==
    ASSUME NEW costs \in Seq(Nat), NEW budget \in Nat
    PROVE  LET kept == LongestEnd(costs, budget)
               n == Len(costs)
           IN /\ kept.first \in 1..(n + 1)
              /\ kept.used = SumOver(costs, kept.first..n)
              /\ \A i \in 1..(n + 1) : SumOver(costs, i..n) \in Nat
              /\ \A i \in 1..(n + 1) : SumOver(costs, i..n) <= budget <=> i >= kept.first
<1>. DEFINE n == Len(costs)
            kept == LongestEnd(costs, budget)
<1>1. n \in Nat
  OBVIOUS
<1>2. EndFits(costs, budget, 1, kept)
  BY LongestEndKept
<1>. HIDE DEF n, kept
<1>3. /\ kept.first \in 1..(n + 1)
      /\ kept.used = SumOver(costs, kept.first..n) /\ kept.used <= budget
      /\ kept.first > 1 => SumOver(costs, (kept.first - 1)..n) > budget
  BY <1>2 DEF EndFits, n
<1>4. \A i \in 1..(n + 1) : SumOver(costs, i..n) \in Nat
  BY EndCostStep DEF n
<1>5. \A i \in 1..(n + 1) : \A j \in i..(n + 1) : SumOver(costs, j..n) <= SumOver(costs, i..n)
  BY EndCostFalls DEF n
<1>6. ASSUME NEW i \in 1..(n + 1)
      PROVE  SumOver(costs, i..n) <= budget <=> i >= kept.first
  <2>1. CASE i >= kept.first
    <3>1. SumOver(costs, i..n) <= SumOver(costs, kept.first..n)
      BY <1>1, <1>3, <1>5, <2>1
    <3>2. SumOver(costs, i..n) \in Nat /\ SumOver(costs, kept.first..n) \in Nat
      BY <1>3, <1>4
    <3>. QED  BY <1>1, <1>3, <2>1, <3>1, <3>2
  <2>2. CASE ~(i >= kept.first)
    <3>1. kept.first - 1 \in i..(n + 1) /\ kept.first - 1 \in 1..(n + 1) /\ kept.first > 1
      BY <1>1, <1>3, <2>2
    <3>2. SumOver(costs, (kept.first - 1)..n) <= SumOver(costs, i..n)
      BY <1>5, <3>1
    <3>3. SumOver(costs, (kept.first - 1)..n) > budget
      BY <1>3, <3>1
    <3>4. SumOver(costs, i..n) \in Nat /\ SumOver(costs, (kept.first - 1)..n) \in Nat
      BY <1>4, <3>1
    <3>. QED  BY <1>1, <2>2, <3>2, <3>3, <3>4
  <2>. QED  BY <2>1, <2>2
<1>. QED  BY <1>3, <1>4, <1>6 DEF n, kept

\* The k-th of the costs is that of the k-th place.
Alongside(costs, f, place) ==
    /\ \A k \in 1..Len(costs) : f[place[k]] = costs[k]
    /\ \A k, l \in 1..Len(costs) : k < l => place[k] # place[l]

PlacesOf(place, k, n) == {place[l] : l \in k..n}

\* The costs of an end are those of the places its members come from.
LEMMA SumAlong ==
    ASSUME NEW costs \in Seq(Nat), NEW f, NEW place, Alongside(costs, f, place)
    PROVE  \A k \in 1..(Len(costs) + 1) :
              SumOver(f, PlacesOf(place, k, Len(costs))) = SumOver(costs, k..Len(costs))
<1>. DEFINE n == Len(costs)
            At(k) == PlacesOf(place, k, n)
            Alike(k) == Amounting(f, At(k)) /\ SumOver(f, At(k)) = SumOver(costs, k..n)
            T == {j \in Nat : j > n \/ Alike(n + 1 - j)}
<1>. USE DEF Alongside
<1>1. n \in Nat /\ \A k \in 1..n : costs[k] \in Nat
  OBVIOUS
<1>2. /\ SumOver(costs, (n + 1)..n) = 0
      /\ \A k \in 1..n : SumOver(costs, k..n) = SumOver(costs, (k + 1)..n) + costs[k]
  BY EndCostStep
<1>3. 0 \in T
  <2>1. At(n + 1) = {}
    BY <1>1 DEF PlacesOf
  <2>2. Amounting(f, {}) /\ SumOver(f, {}) = 0
    BY SumEmpty, FS_EmptySet DEF Amounting
  <2>3. n + 1 - 0 = n + 1
    BY <1>1
  <2>. HIDE DEF At
  <2>. QED  BY <1>2, <2>1, <2>2, <2>3
<1>4. ASSUME NEW j \in Nat, j \in T
      PROVE  j + 1 \in T
  <2>. HIDE DEF Alike
  <2>. SUFFICES ASSUME j + 1 <= n PROVE Alike(n + 1 - (j + 1))
    BY <1>1
  <2>. DEFINE k == n - j
  <2>1. k \in 1..n /\ n + 1 - j = k + 1 /\ n + 1 - (j + 1) = k /\ ~(j > n)
    BY <1>1
  <2>2. Alike(k + 1)
    BY <1>4, <2>1
  <2>. USE DEF Alike
  <2>. HIDE DEF k
  <2>3. At(k) = At(k + 1) \union {place[k]}
    <3>1. \A l : l \in k..n <=> l \in (k + 1)..n \/ l = k
      BY <1>1, <2>1
    <3>. QED  BY <3>1 DEF PlacesOf
  <2>4. place[k] \notin At(k + 1)
    <3>1. \A l \in (k + 1)..n : l \in 1..n /\ k < l
      BY <1>1, <2>1
    <3>. QED  BY <2>1, <3>1 DEF PlacesOf
  <2>5. f[place[k]] \in Nat /\ f[place[k]] = costs[k]
    BY <1>1, <2>1
  <2>. HIDE DEF At
  <2>6. Amounting(f, At(k)) /\ SumOver(f, At(k)) = SumOver(f, At(k + 1)) + f[place[k]]
    BY <2>2, <2>3, <2>4, <2>5, SumAdd
  <2>7. Alike(k)
    BY <1>2, <2>1, <2>2, <2>5, <2>6
  <2>. HIDE DEF Alike
  <2>. QED  BY <2>1, <2>7
<1>. HIDE DEF T
<1>5. Nat \subseteq T
  BY <1>3, <1>4, SetInduction
<1>6. ASSUME NEW k \in 1..(n + 1)
      PROVE  Alike(k)
  <2>1. n + 1 - k \in Nat /\ ~(n + 1 - k > n) /\ n + 1 - (n + 1 - k) = k
    BY <1>1
  <2>. HIDE DEF Alike
  <2>2. Alike(n + 1 - (n + 1 - k))
    BY <1>5, <2>1 DEF T
  <2>. QED  BY <2>1, <2>2
<1>. QED  BY <1>6
=============================================================================
