--------------------------- MODULE InductionProofs ---------------------------
(***************************************************************************)
(* Induction on numbers, as facts about sets, and what it shows of sums    *)
(* over finite sets.                                                       *)
(***************************************************************************)
EXTENDS Integers, FiniteSets, Functions, WellFoundedInduction, FiniteSetTheorems, TLAPS

LEMMA LeastNumber ==
  ASSUME NEW T, T \subseteq Nat, T # {}
  PROVE  \E m \in T : \A k \in T : m <= k
<1> DEFINE R == {pair \in Nat \X Nat : pair[1] < pair[2]}
<1>1. R = OpToRel(<, Nat)
  BY Zenon DEF OpToRel
<1>2. IsWellFoundedOn(R, Nat)
  BY <1>1, NatLessThanWellFounded
<1>3. PICK x \in T : \A y \in T : ~ (<<y, x>> \in R)
  <2> HIDE DEF R
  <2> QED
    BY <1>2, WFMin
<1>4. \A y \in T : ~ (y < x)
  <2> TAKE y \in T
  <2>1. <<y, x>> \notin R
    BY <1>3
  <2> QED
    BY <2>1, SMT
<1>5. \A y \in T : x <= y
  BY <1>4
<1> QED
  BY <1>5

LEMMA AllNumbers ==
  ASSUME NEW S, 0 \in S, \A n \in Nat : n \in S => n + 1 \in S
  PROVE  Nat \subseteq S
<1> DEFINE T == {n \in Nat : n \notin S}
<1>1. SUFFICES ASSUME T # {} PROVE FALSE
  OBVIOUS
<1>2. PICK m \in T : \A k \in T : m <= k
  <2>1. T \subseteq Nat
    OBVIOUS
  <2> HIDE DEF T
  <2> QED
    BY <1>1, <2>1, LeastNumber
<1>3. m \in Nat /\ m # 0 /\ m \notin S
  OBVIOUS
<1>4. m - 1 \in Nat /\ m - 1 \notin T
  BY <1>2, <1>3
<1>5. m - 1 \in S
  BY <1>4
<1> QED
  BY <1>3, <1>4, <1>5

-----------------------------------------------------------------------------
(* What a fold with + computes: a sum for every subset.                    *)
AnyOf(s) == CHOOSE x \in s : TRUE

Sums(g, f, S) ==
  g = [s \in SUBSET S |-> IF s = {} THEN 0 ELSE f[AnyOf(s)] + g[s \ {AnyOf(s)}]]

LEMMA SumsExist ==
  ASSUME NEW S, IsFiniteSet(S), NEW f
  PROVE  \E g : Sums(g, f, S)
<1> DEFINE Small(n) == {s \in SUBSET S : Cardinality(s) <= n}
           Upto(g, n) == g = [s \in Small(n) |-> IF s = {} THEN 0
                                                 ELSE f[AnyOf(s)] + g[s \ {AnyOf(s)}]]
           N == {n \in Nat : \E g : Upto(g, n)}
<1>1. \A s \in SUBSET S :
        /\ IsFiniteSet(s) /\ Cardinality(s) \in Nat /\ Cardinality(s) <= Cardinality(S)
        /\ s # {} => AnyOf(s) \in s /\ Cardinality(s \ {AnyOf(s)}) = Cardinality(s) - 1
        /\ Cardinality(s) = 0 <=> s = {}
  <2> TAKE s \in SUBSET S
  <2>1. IsFiniteSet(s) /\ Cardinality(s) \in Nat /\ Cardinality(s) <= Cardinality(S)
    BY FS_Subset, FS_CardinalityType
  <2>2. ASSUME s # {} PROVE AnyOf(s) \in s
    BY <2>2 DEF AnyOf
  <2>3. s # {} => Cardinality(s \ {AnyOf(s)}) = Cardinality(s) - 1
    BY <2>1, <2>2, FS_RemoveElement
  <2> QED
    BY <2>1, <2>2, <2>3, FS_EmptySet
<1>2. 0 \in N
  <2> DEFINE z == [s \in Small(0) |-> 0]
  <2>1. \A s \in Small(0) : s = {}
    <3> TAKE s \in Small(0)
    <3>1. s \in SUBSET S /\ Cardinality(s) <= 0
      OBVIOUS
    <3>2. Cardinality(s) \in Nat /\ (Cardinality(s) = 0 <=> s = {})
      BY <1>1, <3>1
    <3> QED
      BY <3>1, <3>2
  <2>2. Upto(z, 0)
    BY <2>1
  <2> QED
    BY <2>2
<1>3. ASSUME NEW n \in Nat, n \in N
      PROVE  n + 1 \in N
  <2>1. PICK g : Upto(g, n)
    BY <1>3
  <2> DEFINE h == [s \in Small(n + 1) |->
                     IF s \in Small(n) THEN g[s]
                     ELSE f[AnyOf(s)] + g[s \ {AnyOf(s)}]]
  <2>2. \A s \in Small(n + 1) : s # {} => s \ {AnyOf(s)} \in Small(n)
    BY <1>1
  <2>3. \A s \in Small(n) : s \in Small(n + 1)
    <3> TAKE s \in Small(n)
    <3>1. s \in SUBSET S /\ Cardinality(s) <= n
      OBVIOUS
    <3>2. Cardinality(s) \in Nat
      BY <1>1, <3>1
    <3> QED
      BY <3>1, <3>2
  <2>4. {} \in Small(n)
    BY <1>1
  <2>5. \A s \in Small(n) :
          g[s] = IF s = {} THEN 0 ELSE f[AnyOf(s)] + g[s \ {AnyOf(s)}]
    BY <2>1
  <2> HIDE DEF Small
  <2>6. \A s \in Small(n) : h[s] = g[s]
    BY <2>3
  <2>7. \A s \in Small(n + 1) :
          h[s] = IF s = {} THEN 0 ELSE f[AnyOf(s)] + h[s \ {AnyOf(s)}]
    <3> TAKE s \in Small(n + 1)
    <3>1. s # {} => h[s \ {AnyOf(s)}] = g[s \ {AnyOf(s)}]
      BY <2>2, <2>6
    <3>2. CASE s \in Small(n)
      BY <2>5, <2>6, <3>1, <3>2
    <3>3. CASE s \notin Small(n)
      BY <2>4, <3>1, <3>3
    <3> QED
      BY <3>2, <3>3
  <2>8. h = [s \in Small(n + 1) |-> h[s]]
    OBVIOUS
  <2> HIDE DEF h
  <2>9. Upto(h, n + 1)
    BY <2>7, <2>8
  <2>10. n + 1 \in Nat /\ \E k : Upto(k, n + 1)
    <3> HIDE DEF Upto
    <3> QED
      BY <2>9
  <2> QED
    BY <2>10
<1>4. Nat \subseteq N
  <2> HIDE DEF N
  <2> QED
    BY <1>2, <1>3, AllNumbers
<1>5. Cardinality(S) \in N
  <2>1. Cardinality(S) \in Nat
    BY FS_CardinalityType
  <2> HIDE DEF N
  <2> QED
    BY <1>4, <2>1
<1>6. PICK g : Upto(g, Cardinality(S))
  BY <1>5
<1>7. Small(Cardinality(S)) = SUBSET S
  BY <1>1
<1> QED
  BY <1>6, <1>7 DEF Sums

(* Two summands that differ at one place: so do the sums.                  *)
LEMMA SumsDiffer ==
  ASSUME NEW S, IsFiniteSet(S), NEW f \in [S -> Nat], NEW h \in [S -> Nat],
         NEW x, \A y \in S : y # x => h[y] = f[y],
         NEW g, Sums(g, f, S), NEW k, Sums(k, h, S)
  PROVE  \A s \in SUBSET S :
           /\ g[s] \in Nat /\ k[s] \in Nat
           /\ x \notin s => k[s] = g[s]
           /\ x \in s => k[s] + f[x] = g[s] + h[x]
<1> DEFINE Good(s) == /\ g[s] \in Nat /\ k[s] \in Nat
                      /\ x \notin s => k[s] = g[s]
                      /\ x \in s => k[s] + f[x] = g[s] + h[x]
           N == {n \in Nat : \A s \in SUBSET S : Cardinality(s) = n => Good(s)}
<1>1. \A s \in SUBSET S :
        /\ IsFiniteSet(s) /\ Cardinality(s) \in Nat
        /\ s # {} => AnyOf(s) \in s /\ Cardinality(s \ {AnyOf(s)}) = Cardinality(s) - 1
        /\ Cardinality(s) = 0 <=> s = {}
  <2> TAKE s \in SUBSET S
  <2>1. IsFiniteSet(s) /\ Cardinality(s) \in Nat
    BY FS_Subset, FS_CardinalityType
  <2>2. ASSUME s # {} PROVE AnyOf(s) \in s
    BY <2>2 DEF AnyOf
  <2>3. s # {} => Cardinality(s \ {AnyOf(s)}) = Cardinality(s) - 1
    BY <2>1, <2>2, FS_RemoveElement
  <2> QED
    BY <2>1, <2>2, <2>3, FS_EmptySet
<1>2. \A s \in SUBSET S :
        /\ g[s] = IF s = {} THEN 0 ELSE f[AnyOf(s)] + g[s \ {AnyOf(s)}]
        /\ k[s] = IF s = {} THEN 0 ELSE h[AnyOf(s)] + k[s \ {AnyOf(s)}]
  BY DEF Sums
<1>3. 0 \in N
  BY <1>1, <1>2
<1>4. ASSUME NEW n \in Nat, n \in N
      PROVE  n + 1 \in N
  <2> SUFFICES ASSUME NEW s \in SUBSET S, Cardinality(s) = n + 1
               PROVE  Good(s)
    OBVIOUS
  <2> DEFINE y == AnyOf(s)
             t == s \ {y}
  <2>1. s # {} /\ y \in s /\ Cardinality(t) = n /\ t \in SUBSET S
    <3>1. Cardinality(s) # 0
      OBVIOUS
    <3>2. s # {}
      BY <1>1, <3>1
    <3> QED
      BY <1>1, <3>2
  <2>2. Good(t)
    <3> HIDE DEF Good
    <3> QED
      BY <1>4, <2>1
  <2>3. g[s] = f[y] + g[t] /\ k[s] = h[y] + k[t]
    BY <1>2, <2>1
  <2>4. f[y] \in Nat /\ h[y] \in Nat /\ (y # x => h[y] = f[y])
    BY <2>1
  <2>5. /\ y = x => x \notin t /\ x \in s
        /\ y # x => (x \in t <=> x \in s)
    BY <2>1
  <2>6. x \in s => f[x] \in Nat /\ h[x] \in Nat
    OBVIOUS
  <2> HIDE DEF y, t
  <2>7. CASE y = x
    BY <2>2, <2>3, <2>4, <2>5, <2>7
  <2>8. CASE y # x
    BY <2>2, <2>3, <2>4, <2>5, <2>6, <2>8
  <2> QED
    BY <2>7, <2>8
<1>5. Nat \subseteq N
  <2> HIDE DEF N
  <2> QED
    BY <1>3, <1>4, AllNumbers
<1> SUFFICES ASSUME NEW s \in SUBSET S PROVE Good(s)
  OBVIOUS
<1>6. Cardinality(s) \in N
  <2> HIDE DEF N
  <2> QED
    BY <1>1, <1>5
<1> QED
  BY <1>6

(* SumFunction is such a sum.                                              *)
LEMMA SumFunctionIs ==
  ASSUME NEW S, IsFiniteSet(S), NEW f \in [S -> Nat], NEW g, Sums(g, f, S)
  PROVE  SumFunction(f) = g[S] /\ SumFunction(f) \in Nat
<1> DEFINE c == CHOOSE i : i = [s \in SUBSET S |->
                   IF s = {} THEN 0
                   ELSE LET x == CHOOSE x \in s : TRUE IN f[x] + i[s \ {x}]]
<1>1. DOMAIN f = S
  OBVIOUS
<1>2. SumFunction(f) = c[S]
  BY <1>1 DEF SumFunction, SumFunctionOnSet, FoldFunctionOnSet, MapThenFoldSet
<1> DEFINE d == CHOOSE i : Sums(i, f, S)
<1>3. c = d
  BY DEF Sums, AnyOf
<1>4. Sums(d, f, S)
  <2>1. \E i : Sums(i, f, S)
    BY SumsExist
  <2> QED
    BY <2>1
<1> HIDE DEF c, d
<1>5. d[S] = g[S] /\ d[S] \in Nat
  BY <1>4, SumsDiffer
<1> QED
  BY <1>2, <1>3, <1>5

LEMMA SumType ==
  ASSUME NEW S, IsFiniteSet(S), NEW f \in [S -> Nat]
  PROVE  SumFunction(f) \in Nat
<1>1. PICK g : Sums(g, f, S)
  BY SumsExist
<1> QED
  BY <1>1, SumFunctionIs

(* One summand changes.                                                    *)
LEMMA SumChanges ==
  ASSUME NEW S, IsFiniteSet(S), NEW f \in [S -> Nat], NEW h \in [S -> Nat],
         NEW x \in S, \A y \in S : y # x => h[y] = f[y]
  PROVE  /\ SumFunction(f) \in Nat /\ SumFunction(h) \in Nat
         /\ SumFunction(h) + f[x] = SumFunction(f) + h[x]
<1>1. PICK g : Sums(g, f, S)
  BY SumsExist
<1>2. PICK k : Sums(k, h, S)
  BY SumsExist
<1>3. SumFunction(f) = g[S] /\ SumFunction(h) = k[S]
  BY <1>1, <1>2, SumFunctionIs
<1>4. S \in SUBSET S
  OBVIOUS
<1> QED
  BY <1>1, <1>2, <1>3, <1>4, SumsDiffer

LEMMA SumOfZeros ==
  ASSUME NEW S, IsFiniteSet(S), NEW f \in [S -> Nat], \A x \in S : f[x] = 0
  PROVE  SumFunction(f) = 0
<1> DEFINE g == [s \in SUBSET S |-> 0]
<1>1. \A s \in SUBSET S : s # {} => f[AnyOf(s)] = 0
  BY DEF AnyOf
<1>2. \A s \in SUBSET S : s \ {AnyOf(s)} \in SUBSET S
  OBVIOUS
<1>3. \A s \in SUBSET S : (IF s = {} THEN 0 ELSE f[AnyOf(s)] + g[s \ {AnyOf(s)}]) = 0
  BY <1>1, <1>2
<1>4. Sums(g, f, S)
  BY <1>3 DEF Sums
<1>5. g[S] = 0
  OBVIOUS
<1> HIDE DEF g
<1> QED
  BY <1>4, <1>5, SumFunctionIs
=============================================================================
