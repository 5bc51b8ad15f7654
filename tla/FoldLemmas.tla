------------------------------ MODULE FoldLemmas ------------------------------
(***************************************************************************)
(* Induction over numbers and finite sets, and what it gives about sums.   *)
(*                                                                         *)
(* The induction theorems of the library take an operator.  Here a         *)
(* property is a set: that of the numbers, or of the subsets of a finite   *)
(* set, that have it.  Both follow from the least element of a set of      *)
(* naturals.                                                               *)
(***************************************************************************)
EXTENDS Integers, FiniteSets, Functions, FiniteSetTheorems, WellFoundedInduction, TLAPS

\* Every set of naturals that is not empty has a least element.
LEMMA LeastExists ==
    ASSUME NEW S \in SUBSET Nat, S # {}
    PROVE  \E k \in S : \A n \in S : k <= n
<1> DEFINE R == OpToRel(<, Nat)
<1>1. IsWellFoundedOn(R, Nat)
  BY NatLessThanWellFounded
<1>2. \A x, y \in Nat : y < x => <<y, x>> \in R
  BY DEF OpToRel
<1> HIDE DEF R
<1>3. PICK k \in S : \A n \in S : ~ (<<n, k>> \in R)
  BY <1>1, WFMin
<1>4. \A n \in S : ~ (n < k)
  BY <1>2, <1>3
<1>5. \A n \in S : k <= n
  BY <1>4
<1> QED
  BY <1>5

\* A set that holds zero, and with a number the next one, holds them all.
LEMMA Induction ==
    ASSUME NEW T, 0 \in T, \A n \in Nat : n \in T => n + 1 \in T
    PROVE  \A n \in Nat : n \in T
<1> DEFINE Out == Nat \ T
<1> SUFFICES ASSUME Out # {} PROVE FALSE
  OBVIOUS
<1>1. PICK n \in Out : \A m \in Out : n <= m
  BY LeastExists
<1>2. n # 0
  OBVIOUS
<1>3. n - 1 \in Nat /\ n - 1 \notin Out
  BY <1>1, <1>2
<1> QED
  BY <1>3

\* One element less is one less in size.
LEMMA OneLess ==
    ASSUME NEW S, IsFiniteSet(S), NEW s \in SUBSET S
    PROVE  /\ IsFiniteSet(s) /\ Cardinality(s) \in Nat
           /\ \A x \in s : Cardinality(s \ {x}) = Cardinality(s) - 1
           /\ Cardinality(s) = 0 <=> s = {}
<1>1. IsFiniteSet(s)
  BY FS_Subset
<1>2. \A x \in s : Cardinality(s \ {x}) = Cardinality(s) - 1
  BY <1>1, FS_RemoveElement
<1> QED
  BY <1>1, <1>2, FS_CardinalityType, FS_EmptySet

\* A set of sets that holds a subset of a finite S whenever it holds what is left
\* of it without any one element holds every subset of S.
LEMMA SubsetInduction ==
    ASSUME NEW S, IsFiniteSet(S), NEW T,
           \A s \in SUBSET S : (\A x \in s : s \ {x} \in T) => s \in T
    PROVE  \A s \in SUBSET S : s \in T
<1> DEFINE Sizes == {n \in Nat : \A s \in SUBSET S : Cardinality(s) = n => s \in T}
<1>1. 0 \in Sizes
  BY OneLess
<1>2. ASSUME NEW n \in Nat, n \in Sizes PROVE n + 1 \in Sizes
  <2>1. ASSUME NEW s \in SUBSET S, Cardinality(s) = n + 1 PROVE s \in T
    <3>1. \A x \in s : Cardinality(s \ {x}) = n
      BY <2>1, OneLess
    <3>2. \A x \in s : s \ {x} \in T
      BY <1>2, <3>1
    <3> QED
      BY <3>2
  <2> QED
    BY <2>1
<1> HIDE DEF Sizes
<1>3. \A n \in Nat : n \in Sizes
  BY <1>1, <1>2, Induction
<1> QED
  BY <1>3, OneLess DEF Sizes

-----------------------------------------------------------------------------
(* Sums *)

\* The parts of a sum: what SumFunction adds up for each subset of its domain.
Pick(s) == CHOOSE x \in s : TRUE
Part(f, sum, s) == IF s = {} THEN 0 ELSE f[Pick(s)] + sum[s \ {Pick(s)}]
Solves(sum, f, D) == sum = [s \in D |-> Part(f, sum, s)]
Parts(f, S) == CHOOSE sum : Solves(sum, f, SUBSET S)

LEMMA SumIsPart ==
    ASSUME NEW f, NEW S
    PROVE  SumFunctionOnSet(f, S) = Parts(f, S)[S]
  BY DEF SumFunctionOnSet, FoldFunctionOnSet, MapThenFoldSet, Parts, Solves, Part, Pick

\* The recursion is sound on a finite set: there are such parts.
LEMMA PartsExist ==
    ASSUME NEW f, NEW S, IsFiniteSet(S)
    PROVE  \A s \in SUBSET S : Parts(f, S)[s] = Part(f, Parts(f, S), s)
<1> DEFINE UpTo(n) == {s \in SUBSET S : Cardinality(s) <= n}
           Solved == {n \in Nat : \E sum : Solves(sum, f, UpTo(n))}
<1>1. \A s \in SUBSET S : Cardinality(s) \in Nat
  BY OneLess
<1>2. 0 \in Solved
  <2>1. \A s \in UpTo(0) : s = {}
    BY OneLess
  <2> DEFINE sum == [s \in UpTo(0) |-> 0]
  <2>2. Solves(sum, f, UpTo(0))
    BY <2>1 DEF Part, Solves
  <2> QED
    BY <2>2
<1>3. ASSUME NEW n \in Nat, n \in Solved PROVE n + 1 \in Solved
  <2>1. PICK g : Solves(g, f, UpTo(n))
    BY <1>3
  <2> DEFINE h == [s \in UpTo(n + 1) |-> Part(f, g, s)]
  <2>2. UpTo(n) \subseteq UpTo(n + 1)
    BY <1>1
  <2>3. \A s \in UpTo(n) : h[s] = g[s]
    BY <2>1, <2>2 DEF Solves
  <2>4. ASSUME NEW s \in UpTo(n + 1) PROVE Part(f, g, s) = Part(f, h, s)
    <3>1. CASE s = {}
      BY <3>1 DEF Part
    <3>2. CASE s # {}
      <4>1. Pick(s) \in s
        BY <3>2 DEF Pick
      <4>2. Cardinality(s \ {Pick(s)}) = Cardinality(s) - 1
        BY <4>1, OneLess
      <4>3. s \ {Pick(s)} \in UpTo(n)
        BY <1>1, <4>2
      <4> QED
        BY <2>3, <4>3 DEF Part
    <3> QED
      BY <3>1, <3>2
  <2>5. Solves(h, f, UpTo(n + 1))
    BY <2>4 DEF Solves
  <2> HIDE DEF h, UpTo
  <2> QED
    BY <2>5
<1> HIDE DEF Solved
<1>4. Cardinality(S) \in Solved
  BY <1>1, <1>2, <1>3, Induction
<1>5. UpTo(Cardinality(S)) = SUBSET S
  BY <1>1, FS_Subset
<1>6. \E sum : Solves(sum, f, SUBSET S)
  BY <1>4, <1>5 DEF Solved
<1>7. Solves(Parts(f, S), f, SUBSET S)
  BY <1>6 DEF Parts
<1> QED
  BY <1>7 DEF Solves

\* The parts up to a subset are the same in every larger set, for functions that
\* agree there.
LEMMA PartsAgree ==
    ASSUME NEW S, IsFiniteSet(S), NEW R \in SUBSET S, NEW f, NEW g,
           \A x \in R : f[x] = g[x]
    PROVE  \A s \in SUBSET R : Parts(f, R)[s] = Parts(g, S)[s]
<1> DEFINE F == Parts(f, R)
           G == Parts(g, S)
           Same == {s \in SUBSET R : F[s] = G[s]}
<1>1. IsFiniteSet(R)
  BY FS_Subset
<1>2. \A s \in SUBSET R : F[s] = Part(f, F, s)
  BY <1>1, PartsExist
<1>3. \A s \in SUBSET S : G[s] = Part(g, G, s)
  BY PartsExist
<1> HIDE DEF F, G
<1>4. \A s \in SUBSET R : F[s] = Part(f, F, s) /\ G[s] = Part(g, G, s)
  BY <1>2, <1>3
<1>5. ASSUME NEW s \in SUBSET R, \A x \in s : s \ {x} \in Same PROVE s \in Same
  <2>1. CASE s = {}
    BY <1>4, <2>1 DEF Part
  <2>2. CASE s # {}
    <3>1. Pick(s) \in s
      BY <2>2 DEF Pick
    <3>2. F[s \ {Pick(s)}] = G[s \ {Pick(s)}] /\ f[Pick(s)] = g[Pick(s)]
      BY <1>5, <3>1
    <3> QED
      BY <1>4, <2>2, <3>2 DEF Part
  <2> QED
    BY <2>1, <2>2
<1>6. \A s \in SUBSET R : s \in Same
  <2> HIDE DEF Same
  <2> QED
    BY <1>1, <1>5, SubsetInduction
<1> QED
  BY <1>6 DEF F, G

\* The parts are integers, and any element can be taken out first.
LEMMA PartsSplit ==
    ASSUME NEW S, IsFiniteSet(S), NEW f, \A x \in S : f[x] \in Int
    PROVE  \A s \in SUBSET S :
             /\ Parts(f, S)[s] \in Int
             /\ \A x \in s : Parts(f, S)[s] = f[x] + Parts(f, S)[s \ {x}]
<1> DEFINE F == Parts(f, S)
           Typed == {s \in SUBSET S : F[s] \in Int}
           Done == {s \in SUBSET S : \A x \in s : F[s] = f[x] + F[s \ {x}]}
<1>1. \A s \in SUBSET S : F[s] = Part(f, F, s)
  BY PartsExist
<1> HIDE DEF F
<1>2. /\ F[{}] = 0
      /\ \A s \in (SUBSET S) \ {{}} : Pick(s) \in s /\ F[s] = f[Pick(s)] + F[s \ {Pick(s)}]
  BY <1>1 DEF Part, Pick
<1>3. ASSUME NEW s \in SUBSET S, \A x \in s : s \ {x} \in Typed PROVE s \in Typed
  <2>1. CASE s = {}
    BY <1>2, <2>1
  <2>2. CASE s # {}
    <3>1. Pick(s) \in S /\ F[s] = f[Pick(s)] + F[s \ {Pick(s)}] /\ F[s \ {Pick(s)}] \in Int
      BY <1>2, <1>3, <2>2
    <3> QED
      BY <3>1
  <2> QED
    BY <2>1, <2>2
<1>4. \A s \in SUBSET S : s \in Typed
  <2> HIDE DEF Typed
  <2> QED
    BY <1>3, SubsetInduction
<1>5. \A s \in SUBSET S : F[s] \in Int
  BY <1>4
<1>6. ASSUME NEW s \in SUBSET S, \A x \in s : s \ {x} \in Done PROVE s \in Done
  <2> SUFFICES ASSUME NEW x \in s PROVE F[s] = f[x] + F[s \ {x}]
    OBVIOUS
  <2> DEFINE y == Pick(s)
             r == (s \ {x}) \ {y}
  <2>1. y \in s /\ F[s] = f[y] + F[s \ {y}]
    BY <1>2
  <2> HIDE DEF y
  <2>2. CASE x = y
    BY <2>1, <2>2
  <2>3. CASE x # y
    <3>1. r = (s \ {y}) \ {x} /\ x \in s \ {y} /\ y \in s \ {x}
      BY <2>1, <2>3
    <3>2. s \ {y} \in Done /\ s \ {x} \in Done
      BY <1>6, <2>1
    <3> HIDE DEF r
    <3>3. F[s \ {y}] = f[x] + F[r]
      BY <3>1, <3>2
    <3>4. F[s \ {x}] = f[y] + F[r]
      BY <3>1, <3>2 DEF r
    <3>5. F[r] \in Int /\ f[x] \in Int /\ f[y] \in Int
      BY <1>5, <2>1 DEF r
    <3> QED
      BY <2>1, <3>3, <3>4, <3>5
  <2> QED
    BY <2>2, <2>3
<1>7. \A s \in SUBSET S : s \in Done
  <2> HIDE DEF Done
  <2> QED
    BY <1>6, SubsetInduction
<1> QED
  BY <1>5, <1>7 DEF F

\* What is added up are integers: the sum is one, and empty sums are zero.
LEMMA SumTyped ==
    ASSUME NEW f, IsFiniteSet(DOMAIN f), \A x \in DOMAIN f : f[x] \in Int
    PROVE  /\ SumFunction(f) \in Int
           /\ DOMAIN f = {} => SumFunction(f) = 0
<1>1. SumFunction(f) = Parts(f, DOMAIN f)[DOMAIN f]
  BY SumIsPart DEF SumFunction
<1>2. Parts(f, DOMAIN f)[DOMAIN f] = Part(f, Parts(f, DOMAIN f), DOMAIN f)
  BY PartsExist
<1> QED
  BY <1>1, <1>2, PartsSplit DEF Part

\* A sum is what it is without one element, and that element.
LEMMA SumSplit ==
    ASSUME NEW f, IsFiniteSet(DOMAIN f), \A x \in DOMAIN f : f[x] \in Int,
           NEW x \in DOMAIN f,
           NEW g, DOMAIN g = DOMAIN f \ {x}, \A y \in DOMAIN g : g[y] = f[y]
    PROVE  SumFunction(f) = f[x] + SumFunction(g)
<1> DEFINE S == DOMAIN f
           R == DOMAIN g
<1>1. SumFunction(f) = Parts(f, S)[S] /\ SumFunction(g) = Parts(g, R)[R]
  BY SumIsPart DEF SumFunction
<1>2. /\ IsFiniteSet(S) /\ S \in SUBSET S /\ x \in S
      /\ R = S \ {x} /\ R \in SUBSET S /\ R \in SUBSET R
      /\ \A y \in S : f[y] \in Int
      /\ \A y \in R : g[y] = f[y]
  OBVIOUS
<1> HIDE DEF S, R
<1>3. Parts(f, S)[S] = f[x] + Parts(f, S)[R]
  <2>1. \A y \in S : f[y] \in Int
    BY <1>2
  <2>2. IsFiniteSet(S)
    BY <1>2
  <2>3. \A s \in SUBSET S :
             /\ Parts(f, S)[s] \in Int
             /\ \A y \in s : Parts(f, S)[s] = f[y] + Parts(f, S)[s \ {y}]
    BY <2>1, <2>2, PartsSplit
  <2> QED
    BY <1>2, <2>3
<1>4. Parts(g, R)[R] = Parts(f, S)[R]
  BY <1>2, PartsAgree
<1> QED
  BY <1>1, <1>3, <1>4

\* Equal terms make equal sums.
LEMMA SumSame ==
    ASSUME NEW f, NEW g, IsFiniteSet(DOMAIN f), DOMAIN f = DOMAIN g,
           \A x \in DOMAIN f : f[x] = g[x]
    PROVE  SumFunction(f) = SumFunction(g)
<1>1. Parts(f, DOMAIN f)[DOMAIN f] = Parts(g, DOMAIN g)[DOMAIN f]
  BY PartsAgree
<1> QED
  BY <1>1, SumIsPart DEF SumFunction

\* Neither does it matter what the terms are filed under.
LEMMA PartsRenamed ==
    ASSUME NEW S, NEW R, IsFiniteSet(S), IsFiniteSet(R), NEW f, NEW g, NEW m,
           \A x \in S : f[x] \in Int,
           \A z \in R : g[z] \in Int,
           \A x \in S : m[x] \in R /\ g[m[x]] = f[x],
           \A x, y \in S : m[x] = m[y] => x = y,
           \A z \in R : \E x \in S : z = m[x]
    PROVE  Parts(f, S)[S] = Parts(g, R)[R]
<1> DEFINE F == Parts(f, S)
           G == Parts(g, R)
           Image(s) == {m[x] : x \in s}
           Same == {s \in SUBSET S : F[s] = G[Image(s)]}
<1>1. \A s \in SUBSET S : \A x \in s : F[s] = f[x] + F[s \ {x}]
  <2>1. \A s \in SUBSET S :
             /\ Parts(f, S)[s] \in Int
             /\ \A x \in s : Parts(f, S)[s] = f[x] + Parts(f, S)[s \ {x}]
    BY PartsSplit
  <2> QED
    BY <2>1
<1>2. \A s \in SUBSET R : \A z \in s : G[s] = g[z] + G[s \ {z}]
  <2>1. \A s \in SUBSET R :
             /\ Parts(g, R)[s] \in Int
             /\ \A z \in s : Parts(g, R)[s] = g[z] + Parts(g, R)[s \ {z}]
    BY PartsSplit
  <2> QED
    BY <2>1
<1>3. F[{}] = Part(f, F, {}) /\ G[{}] = Part(g, G, {})
  BY PartsExist
<1>4. F[{}] = 0 /\ G[{}] = 0
  BY <1>3 DEF Part
<1> HIDE DEF F, G
<1>5. ASSUME NEW s \in SUBSET S, \A x \in s : s \ {x} \in Same PROVE s \in Same
  <2>1. CASE s = {}
    <3>1. Image(s) = {}
      BY <2>1
    <3> QED
      BY <1>4, <2>1, <3>1
  <2>2. CASE s # {}
    <3>1. PICK x \in s : TRUE
      BY <2>2
    <3>2. m[x] \in Image(s) /\ Image(s) \in SUBSET R
      OBVIOUS
    <3>3. Image(s \ {x}) = Image(s) \ {m[x]}
      OBVIOUS
    <3>4. F[s \ {x}] = G[Image(s \ {x})]
      BY <1>5
    <3> HIDE DEF Image
    <3>5. F[s] = f[x] + F[s \ {x}] /\ G[Image(s)] = g[m[x]] + G[Image(s) \ {m[x]}]
      BY <1>1, <1>2, <3>2
    <3>6. g[m[x]] = f[x]
      OBVIOUS
    <3> QED
      BY <3>3, <3>4, <3>5, <3>6
  <2> QED
    BY <2>1, <2>2
<1>6. \A s \in SUBSET S : s \in Same
  <2> HIDE DEF Same
  <2> QED
    BY <1>5, SubsetInduction
<1>7. F[S] = G[Image(S)]
  <2>1. S \in Same
    BY <1>6
  <2> QED
    BY <2>1
<1>8. Image(S) = R
  OBVIOUS
<1> QED
  BY <1>7, <1>8 DEF F, G

\* A sum does not depend on what its terms are filed under.
LEMMA SumRenamed ==
    ASSUME NEW f, NEW g, IsFiniteSet(DOMAIN f), IsFiniteSet(DOMAIN g),
           \A x \in DOMAIN f : f[x] \in Int,
           NEW m, \A x \in DOMAIN f : m[x] \in DOMAIN g /\ g[m[x]] = f[x],
           \A x, y \in DOMAIN f : m[x] = m[y] => x = y,
           \A z \in DOMAIN g : \E x \in DOMAIN f : z = m[x]
    PROVE  SumFunction(f) = SumFunction(g)
<1>1. \A z \in DOMAIN g : g[z] \in Int
  OBVIOUS
<1>2. Parts(f, DOMAIN f)[DOMAIN f] = Parts(g, DOMAIN g)[DOMAIN g]
  BY <1>1, PartsRenamed
<1> QED
  BY <1>2, SumIsPart DEF SumFunction

-----------------------------------------------------------------------------
(* Recursion over numbers *)

\* G makes a value of V of a number up to L and a value of V.
StepsIn(G, L, V) == \A n \in 1..L, w \in V : G[<<n, w>>] \in V

\* f holds v and what the steps of G make of it, one after another.
Iterates(f, G, L, V, v) ==
    /\ f \in [0..L -> V]
    /\ f = [n \in 0..L |-> IF n = 0 THEN v ELSE G[<<n, f[n - 1]>>]]

\* A value for each number up to L, each made of the one before it: there is a
\* function of them, whatever makes them.
LEMMA RecursionExists ==
    ASSUME NEW L \in Nat, NEW V, NEW v \in V, NEW G, StepsIn(G, L, V)
    PROVE  \E f : Iterates(f, G, L, V, v)
<1>0. \A n \in 1..L, w \in V : G[<<n, w>>] \in V
  BY DEF StepsIn
<1> DEFINE Fits(f, n) == /\ f \in [0..n -> V] /\ f[0] = v
                         /\ \A i \in 1..n : f[i] = G[<<i, f[i - 1]>>]
           T == {n \in Nat : n <= L => \E f : Fits(f, n)}
<1>1. 0 \in T
  <2>1. Fits([i \in 0..0 |-> v], 0)
    OBVIOUS
  <2> QED BY <2>1
<1>2. ASSUME NEW n \in Nat, n \in T PROVE n + 1 \in T
  <2> SUFFICES ASSUME n + 1 <= L PROVE \E f : Fits(f, n + 1)
    OBVIOUS
  <2>1. PICK f : Fits(f, n)
    BY <1>2
  <2> DEFINE w == G[<<n + 1, f[n]>>]
             g == [i \in 0..(n + 1) |-> IF i = n + 1 THEN w ELSE f[i]]
  <2>2. w \in V
    <3>1. f[n] \in V /\ n + 1 \in 1..L
      BY <2>1
    <3> QED BY <3>1, <1>0
  <2>3. g \in [0..(n + 1) -> V] /\ g[0] = v
    <3>1. \A i \in 0..(n + 1) : i # n + 1 => f[i] \in V
      BY <2>1
    <3>2. f[0] = v /\ 0 \in 0..(n + 1) /\ 0 # n + 1
      BY <2>1
    <3> HIDE DEF w
    <3> QED BY <2>2, <3>1, <3>2
  <2>4. ASSUME NEW i \in 1..(n + 1) PROVE g[i] = G[<<i, g[i - 1]>>]
    <3>1. i - 1 \in 0..(n + 1) /\ i - 1 # n + 1 /\ i \in 0..(n + 1)
      OBVIOUS
    <3>2. g[i - 1] = f[i - 1]
      BY <3>1
    <3>3. CASE i = n + 1
      <4>1. g[i] = w /\ i - 1 = n
        BY <3>1, <3>3
      <4> HIDE DEF g
      <4> QED BY <4>1, <3>2, <3>3
    <3>4. CASE i # n + 1
      <4>1. g[i] = f[i]
        BY <3>1, <3>4
      <4>2. i \in 1..n
        BY <3>4
      <4>3. f[i] = G[<<i, f[i - 1]>>]
        BY <2>1, <4>2
      <4> HIDE DEF g
      <4> QED BY <4>1, <4>3, <3>2
    <3> QED BY <3>3, <3>4
  <2> HIDE DEF g
  <2> QED BY <2>3, <2>4
<1>3. L \in T
  <2> HIDE DEF T
  <2> QED BY <1>1, <1>2, Induction
<1>4. PICK f : Fits(f, L)
  BY <1>3
<1> DEFINE h == [n \in 0..L |-> IF n = 0 THEN v ELSE G[<<n, f[n - 1]>>]]
<1>5. ASSUME NEW n \in 0..L PROVE f[n] = h[n]
  BY <1>4
<1>6. f = h
  BY <1>4, <1>5
<1> QED BY <1>4, <1>6 DEF Iterates
==============================================================================
