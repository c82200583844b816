-------------------------- MODULE RadixTopK_proofs --------------------------
(***************************************************************************)
(* Proofs about RadixTopK.                                                 *)
(***************************************************************************)
EXTENDS RadixTopK, WellFoundedInduction, FiniteSetTheorems, TLAPS

\* A set of natural numbers that is not empty has a least element.
LEMMA LeastNumber == ASSUME NEW T \in SUBSET Nat, T # {}
                     PROVE  \E n \in T : \A m \in T : n <= m
<1>1. PICK n \in T : \A m \in T : ~ (<<m, n>> \in OpToRel(<, Nat))
  BY NatLessThanWellFounded, WFMin
<1>2. \A m \in T : ~ (m < n)
  BY <1>1 DEF OpToRel
<1> QED BY <1>2

\* Induction, for a property given as the set of numbers that have it.
LEMMA NatSetInduction == ASSUME NEW T, 0 \in T, \A n \in Nat : n \in T => n + 1 \in T
                         PROVE  Nat \subseteq T
<1> SUFFICES ASSUME Nat \ T # {} PROVE FALSE
  OBVIOUS
<1>1. PICK n \in Nat \ T : \A m \in Nat \ T : n <= m
  BY LeastNumber
<1>2. n = 0 \/ n - 1 \in T
  BY <1>1
<1> QED BY <1>1, <1>2

-----------------------------------------------------------------------------
\* Sums: SumFunctionOnSet takes the elements of a set one at a time, in an order
\* that CHOOSE fixes.

Pick(s) == CHOOSE x \in s : TRUE
Sums(f, S) ==
  CHOOSE iter : iter = [s \in SUBSET S |-> IF s = {} THEN 0
                                          ELSE f[Pick(s)] + iter[s \ {Pick(s)}]]

LEMMA SumUnfolded == ASSUME NEW f, NEW S PROVE SumFunctionOnSet(f, S) = Sums(f, S)[S]
BY DEF SumFunctionOnSet, FoldFunctionOnSet, MapThenFoldSet, Sums, Pick

\* The subsets with at most n elements, and a function that sums over them.
Small(S, n) == {s \in SUBSET S : Cardinality(s) <= n}
IsSum(g, f, D) == g = [s \in D |-> IF s = {} THEN 0 ELSE f[Pick(s)] + g[s \ {Pick(s)}]]

\* What is left of a finite set when an element has been taken.
LEMMA PickFacts ==
  ASSUME NEW s, IsFiniteSet(s), s # {}
  PROVE  /\ Pick(s) \in s /\ IsFiniteSet(s \ {Pick(s)})
         /\ Cardinality(s) \in Nat /\ Cardinality(s \ {Pick(s)}) = Cardinality(s) - 1
<1>1. Pick(s) \in s
  BY DEF Pick
<1> QED BY <1>1, FS_RemoveElement, FS_CardinalityType

\* By induction on their size: the subsets have a function that sums over them;
LEMMA SumsExist ==
  ASSUME NEW f, NEW S, IsFiniteSet(S), NEW n \in Nat
  PROVE  \E g : IsSum(g, f, Small(S, n))
<1> DEFINE T == {m \in Nat : \E g : IsSum(g, f, Small(S, m))}
<1>0. \A s \in SUBSET S : IsFiniteSet(s) /\ Cardinality(s) \in Nat
  BY FS_Subset, FS_CardinalityType
<1>1. 0 \in T
  <2> DEFINE g == [s \in Small(S, 0) |-> 0]
  <2>1. \A s \in Small(S, 0) : s = {}
    BY <1>0, FS_EmptySet DEF Small
  <2>2. IsSum(g, f, Small(S, 0))
    BY <2>1 DEF IsSum
  <2> QED BY <2>2
<1>2. ASSUME NEW m \in Nat, m \in T PROVE m + 1 \in T
  <2>1. PICK h : IsSum(h, f, Small(S, m))
    BY <1>2
  <2> DEFINE g == [s \in Small(S, m + 1) |->
                     IF s = {} THEN 0 ELSE f[Pick(s)] + h[s \ {Pick(s)}]]
  <2>2. \A s \in Small(S, m) : s \in Small(S, m + 1) /\ h[s] = g[s]
    <3> SUFFICES ASSUME NEW s \in Small(S, m) PROVE s \in Small(S, m + 1) /\ h[s] = g[s]
      OBVIOUS
    <3>1. s \in Small(S, m + 1)
      BY <1>0 DEF Small
    <3> QED BY <2>1, <3>1 DEF IsSum
  <2>3. \A s \in Small(S, m + 1) : s # {} => s \ {Pick(s)} \in Small(S, m)
    <3> SUFFICES ASSUME NEW s \in Small(S, m + 1), s # {} PROVE s \ {Pick(s)} \in Small(S, m)
      OBVIOUS
    <3>1. s \in SUBSET S /\ IsFiniteSet(s) /\ Cardinality(s) <= m + 1
      BY <1>0 DEF Small
    <3>2. Cardinality(s) \in Nat /\ Cardinality(s \ {Pick(s)}) = Cardinality(s) - 1
      BY <3>1, PickFacts
    <3> QED BY <3>1, <3>2 DEF Small
  <2>4. IsSum(g, f, Small(S, m + 1))
    BY <2>2, <2>3 DEF IsSum
  <2> QED BY <2>4
<1>3. Nat \subseteq T
  <2> HIDE DEF T
  <2> QED BY <1>1, <1>2, NatSetInduction
<1> QED BY <1>3

\* so the one that the definition chooses is such a function.
LEMMA SumsDefined ==
  ASSUME NEW f, NEW S, IsFiniteSet(S)
  PROVE  \A s \in SUBSET S :
           Sums(f, S)[s] = IF s = {} THEN 0 ELSE f[Pick(s)] + Sums(f, S)[s \ {Pick(s)}]
<1>1. Cardinality(S) \in Nat /\ SUBSET S = Small(S, Cardinality(S))
  <2>1. \A s \in SUBSET S : Cardinality(s) <= Cardinality(S)
    BY FS_Subset
  <2>2. Cardinality(S) \in Nat
    BY FS_CardinalityType
  <2>3. \A s \in SUBSET S : s \in Small(S, Cardinality(S))
    BY <2>1 DEF Small
  <2>4. \A s \in Small(S, Cardinality(S)) : s \in SUBSET S
    BY DEF Small
  <2> QED BY <2>2, <2>3, <2>4
<1>2. \E g : IsSum(g, f, SUBSET S)
  <2>1. \E g : IsSum(g, f, Small(S, Cardinality(S)))
    BY <1>1, SumsExist
  <2> QED BY <1>1, <2>1
<1>3. IsSum(Sums(f, S), f, SUBSET S)
  BY <1>2 DEF IsSum, Sums
<1> HIDE DEF Sums
<1> QED BY <1>3 DEF IsSum

\* The sums over a set of which only a subset is summed are those over the subset.
LEMMA SumsOfSubset ==
  ASSUME NEW f, NEW S, IsFiniteSet(S), NEW s \in SUBSET S
  PROVE  Sums(f, S)[s] = SumFunctionOnSet(f, s)
<1> DEFINE T == {n \in Nat : \A u \in SUBSET s :
                               Cardinality(u) <= n => Sums(f, S)[u] = Sums(f, s)[u]}
<1>0. \A u \in SUBSET s : IsFiniteSet(u) /\ Cardinality(u) \in Nat /\ u \in SUBSET S
  BY FS_Subset, FS_CardinalityType
<1>1. IsFiniteSet(s) /\ Cardinality(s) \in Nat
  BY <1>0
<1>2. 0 \in T
  <2> SUFFICES ASSUME NEW u \in SUBSET s, Cardinality(u) <= 0 PROVE Sums(f, S)[u] = Sums(f, s)[u]
    OBVIOUS
  <2>1. u = {}
    BY <1>0, FS_EmptySet
  <2> QED BY <1>0, <1>1, <2>1, SumsDefined
<1>3. ASSUME NEW n \in Nat, n \in T PROVE n + 1 \in T
  <2> SUFFICES ASSUME NEW u \in SUBSET s, Cardinality(u) <= n + 1
               PROVE  Sums(f, S)[u] = Sums(f, s)[u]
    OBVIOUS
  <2>1. CASE u = {}
    BY <1>0, <1>1, <2>1, SumsDefined
  <2>2. CASE u # {}
    <3>1. IsFiniteSet(u)
      BY <1>0
    <3>2. /\ Cardinality(u) \in Nat /\ Cardinality(u \ {Pick(u)}) = Cardinality(u) - 1
          /\ u \ {Pick(u)} \in SUBSET s
      BY <2>2, <3>1, PickFacts
    <3>3. Cardinality(u \ {Pick(u)}) <= n
      BY <3>2
    <3>4. Sums(f, S)[u \ {Pick(u)}] = Sums(f, s)[u \ {Pick(u)}]
      BY <1>3, <3>2, <3>3
    <3>5. Sums(f, S)[u] = f[Pick(u)] + Sums(f, S)[u \ {Pick(u)}]
      <4>1. u \in SUBSET S
        OBVIOUS
      <4>2. \A v \in SUBSET S :
              Sums(f, S)[v] = IF v = {} THEN 0 ELSE f[Pick(v)] + Sums(f, S)[v \ {Pick(v)}]
        BY SumsDefined
      <4> QED BY <2>2, <4>1, <4>2
    <3>6. Sums(f, s)[u] = f[Pick(u)] + Sums(f, s)[u \ {Pick(u)}]
      BY <1>1, <2>2, SumsDefined
    <3> QED BY <3>4, <3>5, <3>6
  <2> QED BY <2>1, <2>2
<1>4. Cardinality(s) \in T
  <2> HIDE DEF T
  <2> QED BY <1>1, <1>2, <1>3, NatSetInduction
<1> QED BY <1>1, <1>4, SumUnfolded

\* The sum unfolds by one element.
LEMMA SumPicked ==
  ASSUME NEW f, NEW S, IsFiniteSet(S)
  PROVE  SumFunctionOnSet(f, S) =
           IF S = {} THEN 0 ELSE f[Pick(S)] + SumFunctionOnSet(f, S \ {Pick(S)})
<1>1. S \ {Pick(S)} \in SUBSET S /\ S \in SUBSET S
  OBVIOUS
<1>2. Sums(f, S)[S \ {Pick(S)}] = SumFunctionOnSet(f, S \ {Pick(S)})
  BY <1>1, SumsOfSubset
<1>3. Sums(f, S)[S] = IF S = {} THEN 0 ELSE f[Pick(S)] + Sums(f, S)[S \ {Pick(S)}]
  BY <1>1, SumsDefined
<1> QED BY <1>2, <1>3, SumUnfolded

LEMMA SumEmpty == ASSUME NEW f PROVE SumFunctionOnSet(f, {}) = 0
BY SumPicked, FS_EmptySet

\* A sum of integers is an integer.
LEMMA SumType ==
  ASSUME NEW f, NEW S, IsFiniteSet(S), \A x \in S : f[x] \in Int
  PROVE  SumFunctionOnSet(f, S) \in Int
<1> DEFINE T == {n \in Nat : \A s \in SUBSET S :
                               Cardinality(s) <= n => SumFunctionOnSet(f, s) \in Int}
<1>0. \A s \in SUBSET S : IsFiniteSet(s) /\ Cardinality(s) \in Nat
  BY FS_Subset, FS_CardinalityType
<1>1. 0 \in T
  <2> SUFFICES ASSUME NEW s \in SUBSET S, Cardinality(s) <= 0 PROVE SumFunctionOnSet(f, s) \in Int
    OBVIOUS
  <2>1. s = {}
    BY <1>0, FS_EmptySet
  <2> QED BY <2>1, SumEmpty
<1>2. ASSUME NEW n \in Nat, n \in T PROVE n + 1 \in T
  <2> SUFFICES ASSUME NEW s \in SUBSET S, Cardinality(s) <= n + 1, s # {}
               PROVE  SumFunctionOnSet(f, s) \in Int
    BY SumEmpty
  <2>1. /\ Pick(s) \in S /\ Cardinality(s) \in Nat
        /\ Cardinality(s \ {Pick(s)}) = Cardinality(s) - 1
    BY <1>0, PickFacts
  <2>2. SumFunctionOnSet(f, s \ {Pick(s)}) \in Int
    BY <1>2, <2>1
  <2>3. SumFunctionOnSet(f, s) = f[Pick(s)] + SumFunctionOnSet(f, s \ {Pick(s)})
    BY <1>0, SumPicked
  <2> QED BY <2>1, <2>2, <2>3
<1>3. Cardinality(S) \in T
  <2> HIDE DEF T
  <2> QED BY <1>0, <1>1, <1>2, NatSetInduction
<1> QED BY <1>0, <1>3

\* The order does not matter.
LEMMA SumRemove ==
  ASSUME NEW f, NEW S, IsFiniteSet(S), NEW x \in S, \A y \in S : f[y] \in Int
  PROVE  SumFunctionOnSet(f, S) = f[x] + SumFunctionOnSet(f, S \ {x})
<1> DEFINE T == {n \in Nat : \A s \in SUBSET S : \A a \in s : Cardinality(s) <= n =>
                   SumFunctionOnSet(f, s) = f[a] + SumFunctionOnSet(f, s \ {a})}
<1>0. \A s \in SUBSET S : IsFiniteSet(s) /\ Cardinality(s) \in Nat
  BY FS_Subset, FS_CardinalityType
<1>1. 0 \in T
  <2> SUFFICES ASSUME NEW s \in SUBSET S, NEW a \in s, Cardinality(s) <= 0 PROVE FALSE
    OBVIOUS
  <2>1. s = {}
    BY <1>0, FS_EmptySet
  <2> QED BY <2>1
<1>2. ASSUME NEW n \in Nat, n \in T PROVE n + 1 \in T
  <2> SUFFICES ASSUME NEW s \in SUBSET S, NEW a \in s, Cardinality(s) <= n + 1
               PROVE  SumFunctionOnSet(f, s) = f[a] + SumFunctionOnSet(f, s \ {a})
    OBVIOUS
  <2> DEFINE y == Pick(s)
  <2>1. y \in s
    BY <1>0, PickFacts
  <2>2. SumFunctionOnSet(f, s) = f[y] + SumFunctionOnSet(f, s \ {y})
    BY <1>0, SumPicked
  <2> HIDE DEF y
  <2>3. CASE y = a
    BY <2>2, <2>3
  <2>4. CASE y # a
    <3> DEFINE u == s \ {y}
               v == s \ {a}
               w == s \ {a, y}
    <3>1. /\ a \in u /\ u \in SUBSET S /\ u \ {a} = w
          /\ y \in v /\ v \in SUBSET S /\ v \ {y} = w /\ w \in SUBSET S
      BY <2>1, <2>4
    <3>2. IsFiniteSet(s) /\ Cardinality(s) \in Nat
      BY <1>0
    <3>3. Cardinality(u) = Cardinality(s) - 1 /\ Cardinality(v) = Cardinality(s) - 1
      BY <2>1, <3>2, FS_RemoveElement
    <3>4. Cardinality(u) <= n /\ Cardinality(v) <= n
      BY <3>2, <3>3
    <3> HIDE DEF u, v, w
    <3>5. SumFunctionOnSet(f, u) = f[a] + SumFunctionOnSet(f, w)
      BY <1>2, <3>1, <3>4
    <3>6. SumFunctionOnSet(f, v) = f[y] + SumFunctionOnSet(f, w)
      BY <1>2, <3>1, <3>4
    <3>7. /\ SumFunctionOnSet(f, w) \in Int /\ f[a] \in Int /\ f[y] \in Int
      BY <1>0, <2>1, <3>1, SumType
    <3> QED BY <2>2, <3>5, <3>6, <3>7 DEF u, v
  <2> QED BY <2>3, <2>4
<1>3. Cardinality(S) \in T
  <2> HIDE DEF T
  <2> QED BY <1>0, <1>1, <1>2, NatSetInduction
<1> QED BY <1>0, <1>3

\* Larger terms make a larger sum.
LEMMA SumMonotone ==
  ASSUME NEW f, NEW g, NEW S, IsFiniteSet(S),
         \A x \in S : f[x] \in Int /\ g[x] \in Int /\ f[x] <= g[x]
  PROVE  SumFunctionOnSet(f, S) <= SumFunctionOnSet(g, S)
<1> DEFINE T == {n \in Nat : \A s \in SUBSET S : Cardinality(s) <= n =>
                               SumFunctionOnSet(f, s) <= SumFunctionOnSet(g, s)}
<1>0. \A s \in SUBSET S : IsFiniteSet(s) /\ Cardinality(s) \in Nat
  BY FS_Subset, FS_CardinalityType
<1>1. 0 \in T
  <2> SUFFICES ASSUME NEW s \in SUBSET S, Cardinality(s) <= 0
               PROVE  SumFunctionOnSet(f, s) <= SumFunctionOnSet(g, s)
    OBVIOUS
  <2>1. s = {}
    BY <1>0, FS_EmptySet
  <2> QED BY <2>1, SumEmpty
<1>2. ASSUME NEW n \in Nat, n \in T PROVE n + 1 \in T
  <2> SUFFICES ASSUME NEW s \in SUBSET S, Cardinality(s) <= n + 1, s # {}
               PROVE  SumFunctionOnSet(f, s) <= SumFunctionOnSet(g, s)
    BY SumEmpty
  <2>1. /\ Pick(s) \in S /\ Cardinality(s) \in Nat
        /\ Cardinality(s \ {Pick(s)}) = Cardinality(s) - 1
    BY <1>0, PickFacts
  <2> DEFINE u == s \ {Pick(s)}
  <2>2. SumFunctionOnSet(f, u) <= SumFunctionOnSet(g, u)
    BY <1>2, <2>1
  <2>3. /\ SumFunctionOnSet(f, s) = f[Pick(s)] + SumFunctionOnSet(f, u)
        /\ SumFunctionOnSet(g, s) = g[Pick(s)] + SumFunctionOnSet(g, u)
    BY <1>0, SumPicked
  <2>4. SumFunctionOnSet(f, u) \in Int /\ SumFunctionOnSet(g, u) \in Int
    <3>1. IsFiniteSet(u) /\ \A x \in u : f[x] \in Int /\ g[x] \in Int
      BY <1>0
    <3> HIDE DEF u
    <3> QED BY <3>1, SumType
  <2> HIDE DEF u
  <2> QED BY <2>1, <2>2, <2>3, <2>4
<1>3. Cardinality(S) \in T
  <2> HIDE DEF T
  <2> QED BY <1>0, <1>1, <1>2, NatSetInduction
<1> QED BY <1>0, <1>3

\* Only the values on the set count.
LEMMA SumSame ==
  ASSUME NEW f, NEW g, NEW S, IsFiniteSet(S), \A x \in S : f[x] \in Int /\ f[x] = g[x]
  PROVE  SumFunctionOnSet(f, S) = SumFunctionOnSet(g, S)
<1>1. /\ SumFunctionOnSet(f, S) <= SumFunctionOnSet(g, S)
      /\ SumFunctionOnSet(g, S) <= SumFunctionOnSet(f, S)
  BY SumMonotone
<1>2. SumFunctionOnSet(f, S) \in Int /\ SumFunctionOnSet(g, S) \in Int
  BY SumType
<1> QED BY <1>1, <1>2

\* A sum of ones counts the set.
LEMMA SumOfOnes ==
  ASSUME NEW f, NEW S, IsFiniteSet(S), \A x \in S : f[x] = 1
  PROVE  SumFunctionOnSet(f, S) = Cardinality(S)
<1> DEFINE T == {n \in Nat : \A s \in SUBSET S : Cardinality(s) <= n =>
                               SumFunctionOnSet(f, s) = Cardinality(s)}
<1>0. \A s \in SUBSET S : IsFiniteSet(s) /\ Cardinality(s) \in Nat
  BY FS_Subset, FS_CardinalityType
<1>1. 0 \in T
  <2> SUFFICES ASSUME NEW s \in SUBSET S, Cardinality(s) <= 0
               PROVE  SumFunctionOnSet(f, s) = Cardinality(s)
    OBVIOUS
  <2>1. s = {}
    BY <1>0, FS_EmptySet
  <2> QED BY <2>1, SumEmpty, FS_EmptySet
<1>2. ASSUME NEW n \in Nat, n \in T PROVE n + 1 \in T
  <2> SUFFICES ASSUME NEW s \in SUBSET S, Cardinality(s) <= n + 1, s # {}
               PROVE  SumFunctionOnSet(f, s) = Cardinality(s)
    BY SumEmpty, FS_EmptySet
  <2>1. /\ Pick(s) \in S /\ Cardinality(s) \in Nat
        /\ Cardinality(s \ {Pick(s)}) = Cardinality(s) - 1
    BY <1>0, PickFacts
  <2>2. SumFunctionOnSet(f, s \ {Pick(s)}) = Cardinality(s) - 1
    BY <1>2, <2>1
  <2>3. SumFunctionOnSet(f, s) = f[Pick(s)] + SumFunctionOnSet(f, s \ {Pick(s)})
    BY <1>0, SumPicked
  <2> QED BY <2>1, <2>2, <2>3
<1>3. Cardinality(S) \in T
  <2> HIDE DEF T
  <2> QED BY <1>0, <1>1, <1>2, NatSetInduction
<1> QED BY <1>0, <1>3

-----------------------------------------------------------------------------
\* Functions on the natural numbers that are defined from one to the next: they
\* exist, and have the values that their definition says.

IsRun(g, a, H, m) == /\ g = [n \in 0 .. m |-> g[n]] /\ g[0] = a
                     /\ \A n \in 0 .. m - 1 : g[n + 1] = H[<<n, g[n]>>]

LEMMA RunsExist ==
  ASSUME NEW a, NEW H, NEW m \in Nat
  PROVE  \E g : IsRun(g, a, H, m)
<1> DEFINE T == {n \in Nat : \E g : IsRun(g, a, H, n)}
<1>1. 0 \in T
  <2> DEFINE g == [n \in 0 .. 0 |-> a]
  <2>1. IsRun(g, a, H, 0)
    BY DEF IsRun
  <2> QED BY <2>1
<1>2. ASSUME NEW n \in Nat, n \in T PROVE n + 1 \in T
  <2>1. PICK g : IsRun(g, a, H, n)
    BY <1>2
  <2> DEFINE h == [k \in 0 .. n + 1 |-> IF k = n + 1 THEN H[<<n, g[n]>>] ELSE g[k]]
  <2>2. /\ h = [k \in 0 .. n + 1 |-> h[k]] /\ h[n + 1] = H[<<n, g[n]>>]
        /\ \A k \in 0 .. n : h[k] = g[k]
    OBVIOUS
  <2> HIDE DEF h
  <2>3. h[0] = a /\ h[n] = g[n]
    <3>1. 0 \in 0 .. n /\ n \in 0 .. n
      OBVIOUS
    <3> QED BY <2>1, <2>2, <3>1 DEF IsRun
  <2>4. ASSUME NEW k \in 0 .. n PROVE h[k + 1] = H[<<k, h[k]>>]
    <3>1. CASE k = n
      BY <2>2, <2>3, <3>1
    <3>2. CASE k # n
      <4>1. k \in 0 .. n - 1 /\ k + 1 \in 0 .. n
        BY <3>2
      <4> QED BY <2>1, <2>2, <4>1 DEF IsRun
    <3> QED BY <3>1, <3>2
  <2>5. IsRun(h, a, H, n + 1)
    <3>1. (n + 1) - 1 = n
      OBVIOUS
    <3> QED BY <2>2, <2>3, <2>4, <3>1 DEF IsRun
  <2> QED BY <2>5
<1>3. Nat \subseteq T
  <2> HIDE DEF T
  <2> QED BY <1>1, <1>2, NatSetInduction
<1> QED BY <1>3

LEMMA RunsAgree ==
  ASSUME NEW a, NEW H, NEW m \in Nat, NEW k \in Nat, NEW g, NEW h,
         IsRun(g, a, H, m), IsRun(h, a, H, k), NEW n \in Nat, n <= m, n <= k
  PROVE  g[n] = h[n]
<1> DEFINE T == {i \in Nat : i <= m /\ i <= k => g[i] = h[i]}
<1>1. 0 \in T
  BY DEF IsRun
<1>2. ASSUME NEW i \in Nat, i \in T PROVE i + 1 \in T
  <2> SUFFICES ASSUME i + 1 <= m, i + 1 <= k PROVE g[i + 1] = h[i + 1]
    OBVIOUS
  <2>1. g[i] = h[i] /\ i \in 0 .. m - 1 /\ i \in 0 .. k - 1
    BY <1>2
  <2> QED BY <2>1 DEF IsRun
<1>3. Nat \subseteq T
  <2> HIDE DEF T
  <2> QED BY <1>1, <1>2, NatSetInduction
<1> QED BY <1>3

IsStepwise(f, a, H) == /\ f = [n \in Nat |-> f[n]] /\ f[0] = a
                       /\ \A n \in Nat : f[n + 1] = H[<<n, f[n]>>]

LEMMA StepwiseExists ==
  ASSUME NEW a, NEW H
  PROVE  \E f : IsStepwise(f, a, H)
<1> DEFINE G(m) == CHOOSE g : IsRun(g, a, H, m)
           f == [n \in Nat |-> G(n)[n]]
<1>1. \A m \in Nat : IsRun(G(m), a, H, m)
  BY RunsExist
<1> HIDE DEF G
<1>2. f = [n \in Nat |-> f[n]] /\ f[0] = a
  BY <1>1 DEF IsRun
<1>3. ASSUME NEW n \in Nat PROVE f[n + 1] = H[<<n, f[n]>>]
  <2>1. G(n)[n] = G(n + 1)[n]
    BY <1>1, RunsAgree
  <2>2. G(n + 1)[n + 1] = H[<<n, G(n + 1)[n]>>]
    <3>1. IsRun(G(n + 1), a, H, n + 1)
      BY <1>1
    <3> QED BY <3>1 DEF IsRun
  <2> QED BY <2>1, <2>2
<1> HIDE DEF f
<1>4. IsStepwise(f, a, H)
  BY <1>2, <1>3 DEF IsStepwise
<1> QED BY <1>4

-----------------------------------------------------------------------------
\* The powers of the radix.
LEMMA PowerValues ==
  /\ Power[0] = 1
  /\ \A n \in Nat : Power[n + 1] = Radix * Power[n]
<1> DEFINE H == [s \in Nat \X Nat |-> Radix * s[2]]
<1>1. Radix \in Nat /\ \A n, x \in Nat : H[<<n, x>>] = Radix * x
  BY ParameterAssumption
<1> HIDE DEF H
<1>2. PICK f : IsStepwise(f, 1, H)
  BY StepwiseExists
<1>3. \A n \in Nat : f[n] \in Nat
  <2> DEFINE T == {n \in Nat : f[n] \in Nat}
  <2>1. 0 \in T /\ \A n \in Nat : n \in T => n + 1 \in T
    <3>1. \A x \in Nat : Radix * x \in Nat
      BY <1>1
    <3>2. 0 \in T
      BY <1>2 DEF IsStepwise
    <3>3. ASSUME NEW n \in Nat, f[n] \in Nat PROVE f[n + 1] \in Nat
      BY <1>1, <1>2, <3>1, <3>3 DEF IsStepwise
    <3> QED BY <3>2, <3>3
  <2> HIDE DEF T
  <2>2. Nat \subseteq T
    BY <2>1, NatSetInduction
  <2> QED BY <2>2 DEF T
<1>4. \A n \in Nat : f[n + 1] = Radix * f[n]
  BY <1>1, <1>2, <1>3 DEF IsStepwise
<1>5. f = [n \in Nat |-> IF n = 0 THEN 1 ELSE Radix * f[n - 1]]
  <2>1. ASSUME NEW n \in Nat PROVE f[n] = IF n = 0 THEN 1 ELSE Radix * f[n - 1]
    <3>1. CASE n = 0
      BY <1>2, <3>1 DEF IsStepwise
    <3>2. CASE n # 0
      <4>1. n - 1 \in Nat /\ n = (n - 1) + 1
        BY <3>2
      <4> QED BY <1>4, <3>2, <4>1
    <3> QED BY <3>1, <3>2
  <2> QED BY <1>2, <2>1 DEF IsStepwise
<1>6. Power = [n \in Nat |-> IF n = 0 THEN 1 ELSE Radix * Power[n - 1]]
  BY <1>5 DEF Power
<1>7. ASSUME NEW n \in Nat PROVE Power[n + 1] = Radix * Power[n]
  BY <1>6
<1> QED BY <1>6, <1>7

LEMMA PowerFacts ==
  /\ \A n \in Nat : Power[n] \in Nat \ {0}
  /\ \A n, m \in Nat : n <= m => Power[n] <= Power[m]
<1> DEFINE T == {n \in Nat : Power[n] \in Nat \ {0}}
<1>0. Radix \in Nat \ {0}
  BY ParameterAssumption
<1>1. 0 \in T
  BY PowerValues
<1>2. ASSUME NEW n \in Nat, n \in T PROVE n + 1 \in T
  <2>1. Power[n + 1] = Radix * Power[n] /\ Power[n] \in Nat \ {0}
    BY <1>2, PowerValues
  <2>2. \A x, y \in Nat \ {0} : x * y \in Nat \ {0}
    OBVIOUS
  <2> QED BY <1>0, <2>1, <2>2
<1>3. Nat \subseteq T
  <2> HIDE DEF T
  <2> QED BY <1>1, <1>2, NatSetInduction
<1>4. \A n \in Nat : Power[n] \in Nat \ {0}
  BY <1>3
<1> DEFINE U == {k \in Nat : \A n \in Nat : Power[n] <= Power[n + k]}
<1>5. 0 \in U
  BY <1>4
<1>6. ASSUME NEW k \in Nat, k \in U PROVE k + 1 \in U
  <2> SUFFICES ASSUME NEW n \in Nat PROVE Power[n] <= Power[n + (k + 1)]
    OBVIOUS
  <2>1. Power[n + k] <= Power[(n + k) + 1]
    <3>1. Power[(n + k) + 1] = Radix * Power[n + k]
      BY PowerValues
    <3>2. \A x, y \in Nat \ {0} : y <= x * y
      OBVIOUS
    <3> QED BY <1>0, <1>4, <3>1, <3>2
  <2>2. Power[n] <= Power[n + k] /\ n + (k + 1) = (n + k) + 1
    BY <1>6
  <2> QED BY <1>4, <2>1, <2>2
<1>7. Nat \subseteq U
  <2> HIDE DEF U
  <2> QED BY <1>5, <1>6, NatSetInduction
<1>8. ASSUME NEW n \in Nat, NEW m \in Nat, n <= m PROVE Power[n] <= Power[m]
  <2>1. m - n \in U /\ n + (m - n) = m
    BY <1>7, <1>8
  <2> QED BY <2>1
<1> QED BY <1>4, <1>8

-----------------------------------------------------------------------------
\* The launch that runs, and its rows.
LaunchRight == program \in Programs /\ launch \in DOMAIN program

LEMMA Sizes == /\ NumCtas \in Nat \ {0} /\ ChunkSize \in Nat \ {0}
               /\ Radix \in Nat \ {0, 1} /\ NumRounds \in Nat \ {0}
               /\ IsFiniteSet(Ctas) /\ Cardinality(Ctas) = NumCtas /\ 0 \in Ctas
<1>1. NumCtas \in Nat \ {0}
  BY ParameterAssumption
<1>2. IsFiniteSet(0 .. NumCtas - 1) /\ Cardinality(0 .. NumCtas - 1) = NumCtas
  BY <1>1, FS_Interval
<1> QED BY <1>1, <1>2, ParameterAssumption DEF Ctas

LEMMA ProgramFacts ==
  ASSUME NEW p \in Programs
  PROVE  Len(p) \in Nat \ {0} /\ DOMAIN p = 1 .. Len(p)
<1>1. p \in Seq(Range(p)) /\ p # <<>>
  BY ParameterAssumption
<1> QED BY <1>1

LEMMA LaunchFacts ==
  ASSUME LaunchRight
  PROVE  /\ Launched.kernel \in Kernels /\ Launched.deterministic \in BOOLEAN
         /\ Len(Launched.rows) \in Nat /\ Rows = 1 .. Len(Launched.rows)
         /\ \A r \in Rows : /\ K(r) \in Nat \ {0} /\ DOMAIN Data(r) \in SUBSET Positions
                            /\ \A i \in DOMAIN Data(r) : Data(r)[i] \in Values
<1>1. /\ Launched.kernel \in Kernels /\ Launched.deterministic \in BOOLEAN
      /\ Launched.rows \in Seq(Range(Launched.rows))
      /\ \A r \in Rows : /\ K(r) \in Nat \ {0} /\ DOMAIN Data(r) \in SUBSET Positions
                         /\ \A i \in DOMAIN Data(r) : Data(r)[i] \in Values
  BY ParameterAssumption DEF LaunchRight, Launched, Rows, K, Data
<1> QED BY <1>1 DEF Rows

\* A CTA's share of a row.
LEMMA ChunkFacts ==
  ASSUME NEW c \in Ctas, NEW r, NEW S, S \subseteq Chunk(c, r)
  PROVE  /\ IsFiniteSet(S) /\ Cardinality(S) \in 0 .. ChunkSize
         /\ S \subseteq DOMAIN Data(r)
<1> DEFINE lo == c * ChunkSize
           hi == (c + 1) * ChunkSize - 1
<1>1. lo \in Nat /\ hi \in Int /\ hi - lo + 1 = ChunkSize /\ lo <= hi
  <2>1. c \in Nat /\ ChunkSize \in Nat \ {0}
    BY Sizes DEF Ctas
  <2>2. c * ChunkSize \in Nat /\ (c + 1) * ChunkSize = c * ChunkSize + ChunkSize
    BY <2>1
  <2> QED BY <2>1, <2>2
<1>2. IsFiniteSet(lo .. hi) /\ Cardinality(lo .. hi) = ChunkSize
  BY <1>1, FS_Interval
<1>3. S \subseteq lo .. hi /\ S \subseteq DOMAIN Data(r)
  BY DEF Chunk
<1> HIDE DEF lo, hi
<1>4. IsFiniteSet(S) /\ Cardinality(S) <= ChunkSize
  BY <1>2, <1>3, FS_Subset
<1> QED BY <1>3, <1>4, FS_CardinalityType, Sizes

-----------------------------------------------------------------------------
\* The barriers of the rows.
LEMMA BarriersType ==
  LaunchRight => \A r : /\ BarriersSelecting(r) \in Nat /\ BarriersIn(r) \in Nat
                        /\ BarriersSelecting(r) <= BarriersIn(r)
<1> SUFFICES ASSUME LaunchRight, NEW r
             PROVE  /\ BarriersSelecting(r) \in Nat /\ BarriersIn(r) \in Nat
                    /\ BarriersSelecting(r) <= BarriersIn(r)
  OBVIOUS
<1>1. BarriersSelecting(r) \in Nat
  BY Sizes DEF BarriersSelecting
<1>2. Launched.kernel \in {"mask", "renorm", "basic", "page_table"}
  BY LaunchFacts DEF Kernels
<1> QED BY <1>1, <1>2 DEF BarriersIn

LEMMA BarriersBeforeValues ==
  LaunchRight => /\ BarriersBefore[1] = 0
                 /\ \A r \in Nat \ {0} : /\ BarriersBefore[r] \in Nat
                                         /\ BarriersBefore[r + 1] = BarriersBefore[r] + BarriersIn(r)
<1> SUFFICES ASSUME LaunchRight
             PROVE  /\ BarriersBefore[1] = 0
                    /\ \A r \in Nat \ {0} :
                         /\ BarriersBefore[r] \in Nat
                         /\ BarriersBefore[r + 1] = BarriersBefore[r] + BarriersIn(r)
  OBVIOUS
<1> DEFINE H == [s \in Nat \X Nat |-> IF s[1] = 0 THEN 0 ELSE s[2] + BarriersIn(s[1])]
<1>0. \A n, x \in Nat : H[<<n, x>>] = IF n = 0 THEN 0 ELSE x + BarriersIn(n)
  OBVIOUS
<1> HIDE DEF H
<1>1. PICK f : IsStepwise(f, 0, H)
  BY StepwiseExists
<1>2. \A n \in Nat : f[n] \in Nat
  <2> DEFINE T == {n \in Nat : f[n] \in Nat}
  <2>1. 0 \in T /\ \A n \in Nat : n \in T => n + 1 \in T
    <3>1. 0 \in T
      BY <1>1 DEF IsStepwise
    <3>2. ASSUME NEW n \in Nat, f[n] \in Nat PROVE f[n + 1] \in Nat
      <4>1. f[n + 1] = IF n = 0 THEN 0 ELSE f[n] + BarriersIn(n)
        BY <1>0, <1>1, <3>2 DEF IsStepwise
      <4> QED BY <3>2, <4>1, BarriersType
    <3> QED BY <3>1, <3>2
  <2> HIDE DEF T
  <2>2. Nat \subseteq T
    BY <2>1, NatSetInduction
  <2> QED BY <2>2 DEF T
<1>3. \A n \in Nat : f[n + 1] = IF n = 0 THEN 0 ELSE f[n] + BarriersIn(n)
  BY <1>0, <1>1, <1>2 DEF IsStepwise
<1>4. f = [r \in Nat |-> IF r <= 1 THEN 0 ELSE f[r - 1] + BarriersIn(r - 1)]
  <2>1. ASSUME NEW r \in Nat PROVE f[r] = IF r <= 1 THEN 0 ELSE f[r - 1] + BarriersIn(r - 1)
    <3>1. CASE r = 0
      BY <1>1, <3>1 DEF IsStepwise
    <3>2. CASE r # 0
      <4>1. r - 1 \in Nat /\ r = (r - 1) + 1
        BY <3>2
      <4> QED BY <1>3, <3>2, <4>1
    <3> QED BY <3>1, <3>2
  <2> QED BY <1>1, <2>1 DEF IsStepwise
<1>5. BarriersBefore = [r \in Nat |-> IF r <= 1 THEN 0 ELSE BarriersBefore[r - 1] + BarriersIn(r - 1)]
  BY <1>4 DEF BarriersBefore
<1>6. BarriersBefore[1] = 0
  BY <1>5
<1>7. ASSUME NEW r \in Nat \ {0}
      PROVE  BarriersBefore[r + 1] = BarriersBefore[r] + BarriersIn(r)
  BY <1>5
<1> DEFINE U == {n \in Nat : BarriersBefore[n + 1] \in Nat}
<1>8. 0 \in U
  BY <1>6
<1>9. ASSUME NEW n \in Nat, n \in U PROVE n + 1 \in U
  BY <1>7, <1>9, BarriersType
<1>10. Nat \subseteq U
  <2> HIDE DEF U
  <2> QED BY <1>8, <1>9, NatSetInduction
<1>11. ASSUME NEW r \in Nat \ {0} PROVE BarriersBefore[r] \in Nat
  <2>1. r - 1 \in U /\ (r - 1) + 1 = r
    BY <1>10
  <2> QED BY <2>1
<1> QED BY <1>6, <1>7, <1>11

LEMMA BarriersMonotone ==
  ASSUME LaunchRight, NEW r \in Nat \ {0}, NEW s \in Nat \ {0}, r <= s
  PROVE  BarriersBefore[r] <= BarriersBefore[s]
<1> DEFINE T == {n \in Nat : BarriersBefore[r] <= BarriersBefore[r + n]}
<1>1. 0 \in T
  BY BarriersBeforeValues
<1>2. ASSUME NEW n \in Nat, n \in T PROVE n + 1 \in T
  <2>1. /\ BarriersBefore[r] \in Nat /\ BarriersBefore[r + n] \in Nat /\ BarriersIn(r + n) \in Nat
        /\ BarriersBefore[(r + n) + 1] = BarriersBefore[r + n] + BarriersIn(r + n)
    BY BarriersBeforeValues, BarriersType
  <2>2. r + (n + 1) = (r + n) + 1
    OBVIOUS
  <2> QED BY <1>2, <2>1, <2>2
<1>3. Nat \subseteq T
  <2> HIDE DEF T
  <2> QED BY <1>1, <1>2, NatSetInduction
<1>4. s - r \in T /\ r + (s - r) = s
  BY <1>3
<1> QED BY <1>4

-----------------------------------------------------------------------------
\* Where a CTA is determines how many barriers it has passed.
LEMMA SameLaunch ==
  ASSUME UNCHANGED <<program, launch>>
  PROVE  /\ Launched' = Launched /\ Rows' = Rows /\ (Collects <=> Collects')
         /\ BarriersBefore' = BarriersBefore
BY DEF Launched, Rows, Collects, BarriersBefore, BarriersIn, BarriersSelecting, Trivial, K, Length, Data

LEMMA PassedBounds ==
  ASSUME TypeOK, NEW c \in Ctas, PlacedAt(c)
  PROVE  /\ PassedHere(c) \in Nat
         /\ row[c] \in Rows => PassedHere(c) <= BarriersIn(row[c])
         /\ row[c] \notin Rows => PassedHere(c) = 0
         /\ pc[c] \in Barriers => PassedHere(c) < BarriersIn(row[c])
<1>1. LaunchRight /\ pc[c] \in Barriers \cup Steps /\ round[c] \in 0 .. NumRounds
  BY DEF TypeOK, LaunchRight
<1>2. /\ BarriersSelecting(row[c]) \in Nat /\ BarriersIn(row[c]) \in Nat
      /\ BarriersSelecting(row[c]) <= BarriersIn(row[c])
  BY <1>1, BarriersType
<1>3. ~Trivial(row[c]) => BarriersSelecting(row[c]) = 1 + NumRounds
  BY DEF BarriersSelecting
<1>4. /\ Launched.kernel = "renorm" => BarriersIn(row[c]) = BarriersSelecting(row[c]) + 2
      /\ ~Trivial(row[c]) /\ Launched.kernel = "basic"
           => BarriersIn(row[c]) = BarriersSelecting(row[c]) + 1
      /\ ~Trivial(row[c]) /\ Launched.kernel = "page_table"
           => BarriersIn(row[c]) = BarriersSelecting(row[c]) + 2
  BY DEF BarriersIn
<1> HIDE DEF Trivial, BarriersIn, BarriersSelecting
<1>5. NumRounds \in Nat \ {0}
  BY Sizes
<1>6. CASE pc[c] \in Selecting
  BY <1>1, <1>2, <1>3, <1>5, <1>6 DEF PassedHere, PlacedAt, Selecting, Barriers, Exited
<1>7. CASE pc[c] \in {"mask", "claim", "place", "count", "emit", "collect", "page", "transform"}
  BY <1>1, <1>2, <1>3, <1>4, <1>5, <1>7 DEF PassedHere, PlacedAt, Selecting, Collects, Barriers, Exited
<1>8. CASE pc[c] \in {"zero_sum", "sum_init", "add_sum", "sum_done", "normalize"}
  BY <1>1, <1>2, <1>4, <1>8 DEF PassedHere, PlacedAt, Barriers, Exited
<1>9. CASE pc[c] \in {"row", "clear_for_next"} \cup Exited
  BY <1>1, <1>2, <1>9 DEF PassedHere, PlacedAt, Barriers, Exited
<1> QED BY <1>1, <1>6, <1>7, <1>8, <1>9 DEF Barriers, Steps, Exited, Selecting

Total == BarriersBefore[Len(Launched.rows) + 1]

LEMMA PhaseBounds ==
  ASSUME TypeOK, PlacedRight, PhasesRight, NEW c \in Ctas
  PROVE  /\ barrier_phase[c] \in 0 .. Total /\ Total \in Nat
         /\ pc[c] \in Barriers => barrier_phase[c] < Total
         /\ row[c] \notin Rows => barrier_phase[c] = Total
<1>1. LaunchRight /\ PlacedAt(c) /\ barrier_phase[c] \in Nat
      /\ row[c] \in 1 .. Len(Launched.rows) + 1
  BY DEF TypeOK, LaunchRight, PlacedRight
<1>2. Len(Launched.rows) \in Nat /\ Rows = 1 .. Len(Launched.rows)
  BY <1>1, LaunchFacts
<1>3. barrier_phase[c] = BarriersBefore[row[c]] + PassedHere(c)
  BY DEF PhasesRight
<1>4. Total \in Nat /\ BarriersBefore[row[c]] \in Nat
  BY <1>1, <1>2, BarriersBeforeValues DEF Total
<1>5. CASE row[c] \notin Rows
  <2>1. row[c] = Len(Launched.rows) + 1
    BY <1>1, <1>2, <1>5
  <2>2. PassedHere(c) = 0 /\ pc[c] \notin Barriers
    BY <1>1, <1>5, PassedBounds DEF PlacedAt, Barriers, Exited
  <2> QED BY <1>3, <1>4, <1>5, <2>1, <2>2 DEF Total
<1>6. CASE row[c] \in Rows
  <2>1. row[c] \in Nat \ {0} /\ row[c] + 1 <= Len(Launched.rows) + 1
    BY <1>1, <1>2, <1>6
  <2>2. BarriersBefore[row[c] + 1] = BarriersBefore[row[c]] + BarriersIn(row[c])
    BY <1>1, <2>1, BarriersBeforeValues
  <2>3. BarriersBefore[row[c] + 1] <= Total /\ BarriersIn(row[c]) \in Nat
    BY <1>1, <1>2, <2>1, BarriersMonotone, BarriersType DEF Total
  <2>4. /\ PassedHere(c) \in Nat /\ PassedHere(c) <= BarriersIn(row[c])
        /\ pc[c] \in Barriers => PassedHere(c) < BarriersIn(row[c])
    BY <1>1, <1>6, PassedBounds
  <2> QED BY <1>3, <1>4, <1>6, <2>2, <2>3, <2>4
<1> QED BY <1>5, <1>6

-----------------------------------------------------------------------------
\* The steps between barriers: CTA c goes to l, to row r, round n and prefix p.
Between(c) ==
  \/ StartRow(c) \/ ClearForNextRow(c) \/ ClearOutputCounter(c) \/ Add(c) \/ ClearNext(c)
  \/ ReadHistogram(c) \/ Mask(c) \/ ZeroSum(c) \/ AddSum(c) \/ Normalize(c)
  \/ Claim(c) \/ Place(c) \/ AllPlaced(c) \/ Count(c) \/ Emit(c) \/ Transform(c)

Moving(c, l, r, n, p) ==
  /\ pc' = [pc EXCEPT ![c] = l] /\ row' = [row EXCEPT ![c] = r]
  /\ round' = [round EXCEPT ![c] = n] /\ prefix' = [prefix EXCEPT ![c] = p]
  /\ UNCHANGED <<program, launch, waiting, barrier_phase, arrival_counter>>

AfterSelection == IF Launched.kernel = "mask" THEN "mask"
                  ELSE IF Launched.kernel = "renorm" THEN "zero_sum"
                  ELSE IF Launched.deterministic THEN "count" ELSE "claim"

\* From where to where a step between barriers goes.
Going(c, l, r, n, p) ==
  \/ /\ pc[c] = "row" /\ row[c] \in Rows /\ r = row[c] /\ n = 0 /\ p = 0
     /\ IF ~Trivial(r) THEN l = "first"
        ELSE l = IF Launched.kernel = "renorm" THEN "zero_sum" ELSE "clear_for_next"
  \/ /\ l = "row" /\ r = row[c] + 1 /\ n = round[c] /\ p = prefix[c]
     /\ \/ pc[c] \in {"clear_for_next", "mask", "transform"}
        \/ pc[c] = "normalize" /\ ~Trivial(row[c])
        \/ pc[c] \in {"place", "emit"} /\ Launched.kernel # "page_table"
  \/ /\ r = row[c] /\ n = round[c] /\ p = prefix[c]
     /\ \/ pc[c] = "clear_output" /\ l = "add"
        \/ pc[c] = "add" /\ l \in {"clear_next", "round"}
        \/ pc[c] = "clear_next" /\ l = "round"
        \/ pc[c] = "zero_sum" /\ l = "sum_init"
        \/ pc[c] = "add_sum" /\ l = "sum_done"
        \/ pc[c] = "normalize" /\ Trivial(row[c]) /\ l = "clear_for_next"
        \/ pc[c] \in {"claim", "count"} /\ l = "collect"
        \/ pc[c] = "place" /\ l = "place"
        \/ pc[c] \in {"place", "emit"} /\ l = "page" /\ Launched.kernel = "page_table"
  \/ /\ pc[c] = "read" /\ r = row[c] /\ n = round[c] + 1
     /\ \E b \in 0 .. Radix - 1 : p = prefix[c] * Radix + b
     /\ l = IF n < NumRounds THEN "add" ELSE AfterSelection

LEMMA BetweenMoves ==
  ASSUME TypeOK, NEW c \in Ctas, Between(c)
  PROVE  \E l, r, n, p : Moving(c, l, r, n, p) /\ Going(c, l, r, n, p)
<1>0. /\ row = [row EXCEPT ![c] = row[c]] /\ round = [round EXCEPT ![c] = round[c]]
      /\ prefix = [prefix EXCEPT ![c] = prefix[c]]
  BY DEF TypeOK
<1>1. LaunchRight /\ Launched.kernel \in Kernels
  BY LaunchFacts DEF TypeOK, LaunchRight
<1> DEFINE Done(l, r, n, p) == Moving(c, l, r, n, p) /\ Going(c, l, r, n, p)
<1> USE DEF Running, Goto, NextRow, Moving, state, local
<1>2. CASE StartRow(c)
  <2> DEFINE l == IF ~Trivial(row[c]) THEN "first"
                  ELSE IF Launched.kernel = "renorm" THEN "zero_sum" ELSE "clear_for_next"
  <2>1. Moving(c, l, row[c], 0, 0)
    BY <1>0, <1>1, <1>2 DEF StartRow, Kernels
  <2>2. Going(c, l, row[c], 0, 0)
    BY <1>2 DEF StartRow, Going
  <2> QED BY <2>1, <2>2
<1>3. CASE ClearForNextRow(c) \/ Mask(c) \/ Transform(c)
  <2>1. Moving(c, "row", row[c] + 1, round[c], prefix[c])
    BY <1>0, <1>3 DEF ClearForNextRow, Mask, Transform
  <2>2. Going(c, "row", row[c] + 1, round[c], prefix[c])
    BY <1>3 DEF ClearForNextRow, Mask, Transform, Going
  <2> QED BY <2>1, <2>2
<1>4. CASE Normalize(c)
  <2>1. CASE Trivial(row[c])
    <3>1. Moving(c, "clear_for_next", row[c], round[c], prefix[c])
      BY <1>0, <1>4, <2>1 DEF Normalize
    <3>2. Going(c, "clear_for_next", row[c], round[c], prefix[c])
      BY <1>4, <2>1 DEF Normalize, Going
    <3> QED BY <3>1, <3>2
  <2>2. CASE ~Trivial(row[c])
    <3>1. Moving(c, "row", row[c] + 1, round[c], prefix[c])
      BY <1>0, <1>4, <2>2 DEF Normalize
    <3>2. Going(c, "row", row[c] + 1, round[c], prefix[c])
      BY <1>4, <2>2 DEF Normalize, Going
    <3> QED BY <3>1, <3>2
  <2> QED BY <2>1, <2>2
<1>5. CASE AllPlaced(c) \/ Emit(c)
  <2>1. CASE Launched.kernel = "page_table"
    <3>1. Moving(c, "page", row[c], round[c], prefix[c])
      BY <1>0, <1>5, <2>1 DEF AllPlaced, Emit, EndCollect
    <3>2. Going(c, "page", row[c], round[c], prefix[c])
      BY <1>5, <2>1 DEF AllPlaced, Emit, Going
    <3> QED BY <3>1, <3>2
  <2>2. CASE Launched.kernel # "page_table"
    <3>1. Moving(c, "row", row[c] + 1, round[c], prefix[c])
      BY <1>0, <1>5, <2>2 DEF AllPlaced, Emit, EndCollect
    <3>2. Going(c, "row", row[c] + 1, round[c], prefix[c])
      BY <1>5, <2>2 DEF AllPlaced, Emit, Going
    <3> QED BY <3>1, <3>2
  <2> QED BY <2>1, <2>2
<1>6. CASE \/ ClearOutputCounter(c) \/ Add(c) \/ ClearNext(c) \/ ZeroSum(c) \/ AddSum(c)
           \/ Claim(c) \/ Count(c) \/ Place(c)
  <2>1. \E l : /\ pc' = [pc EXCEPT ![c] = l]
               /\ \/ pc[c] = "clear_output" /\ l = "add"
                  \/ pc[c] = "add" /\ l \in {"clear_next", "round"}
                  \/ pc[c] = "clear_next" /\ l = "round"
                  \/ pc[c] = "zero_sum" /\ l = "sum_init"
                  \/ pc[c] = "add_sum" /\ l = "sum_done"
                  \/ pc[c] \in {"claim", "count"} /\ l = "collect"
                  \/ pc[c] = "place" /\ l = "place"
    <3>1. CASE ClearOutputCounter(c) \/ ClearNext(c) \/ ZeroSum(c) \/ AddSum(c)
      BY <3>1 DEF ClearOutputCounter, ClearNext, ZeroSum, AddSum
    <3>2. CASE Add(c)
      BY <3>2 DEF Add
    <3>3. CASE Claim(c) \/ Count(c) \/ Place(c)
      BY <3>3 DEF Claim, Count, Place
    <3> QED BY <1>6, <3>1, <3>2, <3>3
  <2>2. UNCHANGED <<row, round, prefix, program, launch, waiting, barrier_phase, arrival_counter>>
    BY <1>6 DEF ClearOutputCounter, Add, ClearNext, ZeroSum, AddSum, Claim, Count, Place
  <2> HIDE DEF Running, Goto, NextRow, state, local
  <2> QED BY <1>0, <2>1, <2>2 DEF Going
<1>7. CASE ReadHistogram(c)
  <2> DEFINE n == round[c] + 1
             l == IF n < NumRounds THEN "add" ELSE AfterSelection
  <2>1. \E b \in 0 .. Radix - 1 : prefix' = [prefix EXCEPT ![c] = prefix[c] * Radix + b]
    <3>1. 0 \in 0 .. Radix - 1
      BY Sizes
    <3> DEFINE counts == histogram[Buffer(row[c], round[c])]
               CountFrom(b) == SumFunctionOnSet(counts, b .. Radix - 1)
               found == { b \in 0 .. Radix - 1 : CountFrom(b) >= remaining_k[c]
                                                  /\ CountFrom(b + 1) < remaining_k[c] }
               bucket == IF found = {} THEN 0 ELSE CHOOSE b \in found : TRUE
    <3>2. prefix' = [prefix EXCEPT ![c] = prefix[c] * Radix + bucket]
      BY <1>7 DEF ReadHistogram
    <3>3. found \subseteq 0 .. Radix - 1
      OBVIOUS
    <3> HIDE DEF found
    <3>4. bucket \in 0 .. Radix - 1
      BY <3>1, <3>3
    <3> HIDE DEF bucket
    <3> QED BY <3>2, <3>4
  <2>2. PICK b \in 0 .. Radix - 1 : prefix' = [prefix EXCEPT ![c] = prefix[c] * Radix + b]
    BY <2>1
  <2>3. Moving(c, l, row[c], n, prefix[c] * Radix + b)
    BY <1>0, <1>7, <2>2 DEF ReadHistogram, AfterSelection
  <2>4. Going(c, l, row[c], n, prefix[c] * Radix + b)
    BY <1>7 DEF ReadHistogram, Going
  <2> QED BY <2>3, <2>4
<1> HIDE DEF Moving
<1> QED BY <1>2, <1>3, <1>4, <1>5, <1>6, <1>7 DEF Between

\* Another digit.
LEMMA PrefixStep ==
  ASSUME NEW n \in Nat, NEW p \in Nat, p < Power[n], NEW b \in 0 .. Radix - 1
  PROVE  p * Radix + b \in Nat /\ p * Radix + b < Power[n + 1]
<1>1. Power[n] \in Nat \ {0} /\ Power[n + 1] = Radix * Power[n] /\ Radix \in Nat
  BY PowerValues, PowerFacts, Sizes
<1> DEFINE w == Power[n]
<1>2. w \in Nat /\ p + 1 <= w
  BY <1>1
<1> HIDE DEF w
<1>3. (p + 1) * Radix <= w * Radix /\ (p + 1) * Radix = p * Radix + Radix
  BY <1>1, <1>2
<1>4. p * Radix \in Nat /\ w * Radix = Radix * w
  BY <1>1, <1>2
<1>5. Power[n + 1] = Radix * w
  BY <1>1 DEF w
<1> QED BY <1>1, <1>3, <1>4, <1>5

\* Where the step leads to is within the bounds.
LEMMA GoingTypes ==
  ASSUME TypeOK, NEW c \in Ctas, PlacedAt(c), NEW l, NEW r, NEW n, NEW p, Going(c, l, r, n, p)
  PROVE  /\ pc[c] \notin Exited \cup Barriers /\ l \notin Exited /\ l \in Barriers \cup Steps
         /\ r \in 1 .. Len(Launched.rows) + 1 /\ n \in 0 .. NumRounds /\ p \in Values
         /\ l \in {"first", "clear_output"} => n = 0 /\ p = 0
         /\ l \in Selecting => n < NumRounds /\ p < Power[n]
         /\ l # "row" => r \in Rows
<1>1. /\ LaunchRight /\ row[c] \in 1 .. Len(Launched.rows) + 1 /\ round[c] \in 0 .. NumRounds
      /\ prefix[c] \in Values
  BY DEF TypeOK, LaunchRight
<1>2. Len(Launched.rows) \in Nat /\ Rows = 1 .. Len(Launched.rows)
  BY <1>1, LaunchFacts
<1>3. NumRounds \in Nat \ {0} /\ Power[NumRounds] \in Nat \ {0} /\ Power[0] = 1
  BY Sizes, PowerFacts, PowerValues
<1>4. AfterSelection \in {"mask", "zero_sum", "count", "claim"}
  BY DEF AfterSelection
<1> HIDE DEF AfterSelection
<1>5. CASE pc[c] = "row"
  BY <1>1, <1>2, <1>3, <1>5 DEF Going, Exited, Barriers, Steps, Selecting, Values
<1>6. CASE pc[c] = "read"
  <2>1. PICK b \in 0 .. Radix - 1 : p = prefix[c] * Radix + b
    BY <1>6 DEF Going
  <2>2. round[c] < NumRounds /\ prefix[c] < Power[round[c]] /\ row[c] \in Rows
    BY <1>6 DEF PlacedAt, Selecting, Exited
  <2>3. p \in Nat /\ p < Power[round[c] + 1]
    BY <1>1, <2>1, <2>2, PrefixStep DEF Values
  <2>4. n = round[c] + 1 /\ r = row[c] /\ l = IF n < NumRounds THEN "add" ELSE AfterSelection
    BY <1>6 DEF Going
  <2>5. Power[n] <= Power[NumRounds] /\ Power[n] \in Nat
    <3>1. n \in Nat /\ n <= NumRounds
      BY <1>1, <1>3, <2>2, <2>4
    <3> QED BY <1>3, <3>1, PowerFacts
  <2> QED BY <1>1, <1>2, <1>3, <1>4, <1>6, <2>2, <2>3, <2>4, <2>5 DEF Exited, Barriers, Steps, Selecting, Values
<1>7. CASE pc[c] \notin {"row", "read"}
  <2>1. /\ pc[c] \notin Exited \cup Barriers /\ l \notin Exited /\ l \in Barriers \cup Steps
        /\ n = round[c] /\ p = prefix[c] /\ l \notin {"first", "clear_output"}
        /\ l # "row" => r = row[c]
        /\ l \in Selecting => pc[c] \in Selecting
        /\ r = row[c] \/ r = row[c] + 1
    BY <1>7 DEF Going, Exited, Barriers, Steps, Selecting
  <2>2. row[c] \in Rows
    BY <1>7, <2>1 DEF PlacedAt
  <2> QED BY <1>1, <1>2, <2>1, <2>2 DEF PlacedAt
<1> QED BY <1>5, <1>6, <1>7

LEMMA GoingPlaced ==
  ASSUME TypeOK, NEW c \in Ctas, PlacedAt(c), NEW l, NEW r, NEW n, NEW p,
         Going(c, l, r, n, p), Moving(c, l, r, n, p)
  PROVE  PlacedAt(c)'
<1>1. /\ pc[c] \notin Exited \cup Barriers /\ l \notin Exited
      /\ l \in {"first", "clear_output"} => n = 0 /\ p = 0
      /\ l \in Selecting => n < NumRounds /\ p < Power[n]
      /\ l # "row" => r \in Rows
  BY GoingTypes
<1>2. /\ pc'[c] = l /\ row'[c] = r /\ round'[c] = n /\ prefix'[c] = p /\ waiting'[c] = waiting[c]
  BY DEF TypeOK, Moving
<1>3. ~waiting[c]
  BY <1>1 DEF PlacedAt
<1>4. UNCHANGED <<program, launch>>
  BY DEF Moving
<1>5. /\ l \in Selecting \cup {"mask", "claim", "place", "count", "emit", "collect", "page", "transform"}
           => ~Trivial(r)
      /\ l = "clear_for_next" => Trivial(r)
      /\ l = "mask" => Launched.kernel = "mask"
      /\ l \in {"zero_sum", "sum_init", "add_sum", "sum_done", "normalize"}
           => Launched.kernel = "renorm"
      /\ l \in {"claim", "place", "count", "emit", "collect"} => Collects
      /\ l \in {"count", "emit"} => Launched.deterministic
      /\ l \in {"claim", "place"} => ~Launched.deterministic
      /\ l \in {"page", "transform"} => Launched.kernel = "page_table"
  <2>1. Launched.kernel \in {"mask", "renorm", "basic", "page_table"}
    BY LaunchFacts DEF TypeOK, LaunchRight, Kernels
  <2> HIDE DEF Trivial
  <2>2. CASE pc[c] = "row"
    BY <2>2 DEF Going, Selecting
  <2>3. CASE pc[c] = "read"
    BY <2>1, <2>3 DEF Going, Selecting, AfterSelection, PlacedAt, Collects
  <2>4. CASE pc[c] \notin {"row", "read"}
    BY <2>4 DEF Going, Selecting, PlacedAt
  <2> QED BY <2>2, <2>3, <2>4
<1>6. /\ Trivial(row[c])' = Trivial(r) /\ Launched' = Launched /\ Rows' = Rows /\ Collects' = Collects
  BY <1>2, <1>4 DEF Trivial, K, Length, Data, Launched, Rows, Collects
<1> HIDE DEF Trivial, Launched, Rows, Collects, Moving, Going
<1> QED BY <1>1, <1>2, <1>3, <1>5, <1>6 DEF PlacedAt

LEMMA GoingPhase ==
  ASSUME TypeOK, NEW c \in Ctas, PlacedAt(c), NEW l, NEW r, NEW n, NEW p,
         Going(c, l, r, n, p), Moving(c, l, r, n, p)
  PROVE  BarriersBefore'[row'[c]] + PassedHere(c)' = BarriersBefore[row[c]] + PassedHere(c)
<1>1. pc'[c] = l /\ row'[c] = r /\ round'[c] = n
  BY DEF TypeOK, Moving
<1>2. UNCHANGED <<program, launch>> /\ BarriersBefore' = BarriersBefore
  BY SameLaunch DEF Moving
<1>3. /\ LaunchRight /\ row[c] \in 1 .. Len(Launched.rows) + 1 /\ round[c] \in 0 .. NumRounds
      /\ Len(Launched.rows) \in Nat
  BY LaunchFacts DEF TypeOK, LaunchRight
<1>4. /\ BarriersIn(r)' = BarriersIn(r) /\ BarriersSelecting(r)' = BarriersSelecting(r)
  BY <1>2 DEF BarriersIn, BarriersSelecting, Trivial, K, Length, Data, Launched
<1>5. PassedHere(c)' =
        CASE l \in {"row", "first"} \cup Exited -> 0
          [] l = "clear_output" -> 1
          [] l \in {"add", "clear_next", "round"} -> 1 + n
          [] l = "read" -> 2 + n
          [] l \in {"mask", "claim", "count", "collect", "zero_sum", "sum_init"} -> BarriersSelecting(r)
          [] l \in {"place", "emit", "page", "add_sum", "sum_done"} -> BarriersSelecting(r) + 1
          [] l \in {"transform", "normalize"} -> BarriersSelecting(r) + 2
          [] l = "clear_for_next" -> BarriersIn(r)
  BY <1>1, <1>2 DEF PassedHere, BarriersIn, BarriersSelecting, Trivial, K, Length, Data, Launched
<1>6. /\ ~Trivial(r) => BarriersSelecting(r) = 1 + NumRounds
      /\ Trivial(r) => BarriersSelecting(r) = 0
      /\ Launched.kernel = "renorm" => BarriersIn(r) = BarriersSelecting(r) + 2
      /\ Trivial(r) /\ Launched.kernel # "renorm" => BarriersIn(r) = 0
  <2>1. Launched.kernel \in {"mask", "renorm", "basic", "page_table"}
    BY LaunchFacts DEF TypeOK, LaunchRight, Kernels
  <2> QED BY <2>1 DEF BarriersSelecting, BarriersIn
<1>7. CASE l # "row"
  <2>1. r = row[c]
    BY <1>7 DEF Going
  <2>2. PassedHere(c)' = PassedHere(c)
    <3>1. NumRounds \in Nat \ {0}
      BY Sizes
    <3> HIDE DEF Trivial, BarriersIn, BarriersSelecting
    <3>2. BarriersSelecting(r) \in Nat /\ BarriersIn(r) \in Nat
      BY <1>3, BarriersType
    <3>3. CASE pc[c] = "row"
      BY <1>5, <1>6, <2>1, <3>3 DEF Going, PassedHere, Exited
    <3>4. CASE pc[c] = "read"
      <4>1. l \in {"add", "mask", "claim", "count", "zero_sum"} /\ n = round[c] + 1
            /\ (l # "add" => n = NumRounds)
        BY <1>3, <3>1, <3>4 DEF Going, AfterSelection, PlacedAt, Selecting
      <4>2. ~Trivial(r)
        BY <2>1, <3>4 DEF PlacedAt, Selecting
      <4>3. PassedHere(c) = 2 + round[c]
        BY <3>4 DEF PassedHere, Exited
      <4>4. CASE l = "add"
        BY <1>3, <1>5, <4>1, <4>3, <4>4 DEF Exited
      <4>5. CASE l # "add"
        BY <1>3, <1>5, <1>6, <3>1, <4>1, <4>2, <4>3, <4>5 DEF Exited
      <4> QED BY <4>4, <4>5
    <3>5. CASE pc[c] \in {"clear_output", "add", "clear_next"}
      <4>1. PassedHere(c) = 1 + round[c]
        BY <1>3, <3>5 DEF PassedHere, PlacedAt, Exited
      <4>2. l \in {"add", "clear_next", "round"} /\ n = round[c]
        BY <1>7, <3>5 DEF Going
      <4> QED BY <1>5, <4>1, <4>2 DEF Exited
    <3>6. CASE pc[c] \notin {"row", "read", "clear_output", "add", "clear_next"}
      BY <1>5, <1>6, <1>7, <2>1, <3>2, <3>6 DEF Going, PassedHere, PlacedAt, Exited
    <3> QED BY <3>3, <3>4, <3>5, <3>6
  <2> QED BY <1>1, <1>2, <2>1, <2>2
<1>8. CASE l = "row"
  <2>1. r = row[c] + 1 /\ PassedHere(c)' = 0
    BY <1>5, <1>8 DEF Going, AfterSelection
  <2>2. PassedHere(c) = BarriersIn(row[c])
    <3>1. Launched.kernel \in {"mask", "renorm", "basic", "page_table"}
      BY LaunchFacts DEF TypeOK, LaunchRight, Kernels
    <3>2. \/ pc[c] \in {"clear_for_next", "mask", "transform", "normalize"}
          \/ pc[c] \in {"place", "emit"} /\ Launched.kernel # "page_table"
      BY <1>8 DEF Going, AfterSelection
    <3>3. BarriersIn(row[c]) = BarriersSelecting(row[c]) +
            (CASE Launched.kernel = "mask"       -> 0
               [] Launched.kernel = "renorm"     -> 2
               [] Launched.kernel = "basic"      -> IF Trivial(row[c]) THEN 0 ELSE 1
               [] Launched.kernel = "page_table" -> IF Trivial(row[c]) THEN 0 ELSE 2)
      BY DEF BarriersIn
    <3>4. BarriersSelecting(row[c]) \in Nat
      BY <1>3, BarriersType
    <3> HIDE DEF Trivial, BarriersIn, BarriersSelecting
    <3>5. CASE pc[c] = "clear_for_next"
      BY <3>5 DEF PassedHere, Exited
    <3>6. CASE pc[c] = "mask"
      BY <3>3, <3>4, <3>6 DEF PassedHere, PlacedAt, Exited
    <3>7. CASE pc[c] \in {"transform", "normalize"}
      BY <3>3, <3>4, <3>7 DEF PassedHere, PlacedAt, Exited
    <3>8. CASE pc[c] \in {"place", "emit"} /\ Launched.kernel # "page_table"
      BY <3>1, <3>3, <3>4, <3>8 DEF PassedHere, PlacedAt, Exited, Collects
    <3> QED BY <3>2, <3>5, <3>6, <3>7, <3>8
  <2>3. row[c] \in Nat \ {0}
    BY <1>3
  <2>4. /\ BarriersBefore[row[c]] \in Nat
        /\ BarriersBefore[row[c] + 1] = BarriersBefore[row[c]] + BarriersIn(row[c])
    <3> HIDE DEF BarriersIn
    <3> QED BY <1>3, <2>3, BarriersBeforeValues
  <2>5. BarriersIn(row[c]) \in Nat
    <3> HIDE DEF BarriersIn
    <3> QED BY <1>3, BarriersType
  <2> HIDE DEF BarriersIn, Moving, Going
  <2> QED BY <1>1, <1>2, <2>1, <2>2, <2>4, <2>5
<1> QED BY <1>7, <1>8

-----------------------------------------------------------------------------
\* Types.
DataTypes ==
  /\ histogram \in [0 .. 2 -> [0 .. Radix - 1 -> Nat]]
  /\ output_counter \in Nat /\ sum_topk \in Nat
  /\ det_scratch \in [Ctas -> [gt : 0 .. ChunkSize, eq : 0 .. ChunkSize]]
  /\ DOMAIN output = Rows
  /\ remaining_k \in [Ctas -> Nat]
  /\ todo \in [Ctas -> SUBSET Positions]

ControlTypes ==
  /\ LaunchRight /\ arrival_counter \in Nat
  /\ row \in [Ctas -> 1 .. Len(Launched.rows) + 1]
  /\ pc \in [Ctas -> Barriers \cup Steps]
  /\ waiting \in [Ctas -> BOOLEAN]
  /\ barrier_phase \in [Ctas -> Nat]
  /\ round \in [Ctas -> 0 .. NumRounds]
  /\ prefix \in [Ctas -> Values]

LEMMA TypesSplit == TypeOK <=> DataTypes /\ ControlTypes
BY DEF TypeOK, DataTypes, ControlTypes, LaunchRight

\* Sums of natural numbers are natural.
LEMMA SumNat ==
  ASSUME NEW f, NEW S, IsFiniteSet(S), \A x \in S : f[x] \in Nat
  PROVE  SumFunctionOnSet(f, S) \in Nat
<1> DEFINE zero == [x \in S |-> 0]
<1>1. \A x \in S : zero[x] \in Int /\ f[x] \in Int /\ zero[x] <= f[x] /\ zero[x] + zero[x] = zero[x]
  OBVIOUS
<1>2. SumFunctionOnSet(f, S) \in Int /\ SumFunctionOnSet(zero, S) \in Int
  <2> HIDE DEF zero
  <2> QED BY <1>1, SumType
<1>3. SumFunctionOnSet(zero, S) <= SumFunctionOnSet(f, S)
  <2> HIDE DEF zero
  <2> QED BY <1>1, SumMonotone
<1>4. SumFunctionOnSet(zero, S) >= 0
  <2> DEFINE T == {n \in Nat : \A s \in SUBSET S : Cardinality(s) <= n => SumFunctionOnSet(zero, s) = 0}
  <2>0. \A s \in SUBSET S : IsFiniteSet(s) /\ Cardinality(s) \in Nat
    BY FS_Subset, FS_CardinalityType
  <2>1. 0 \in T
    <3> SUFFICES ASSUME NEW s \in SUBSET S, Cardinality(s) <= 0 PROVE SumFunctionOnSet(zero, s) = 0
      OBVIOUS
    <3>1. s = {}
      BY <2>0, FS_EmptySet
    <3> QED BY <3>1, SumEmpty
  <2>2. ASSUME NEW n \in Nat, n \in T PROVE n + 1 \in T
    <3> SUFFICES ASSUME NEW s \in SUBSET S, Cardinality(s) <= n + 1, s # {}
                 PROVE  SumFunctionOnSet(zero, s) = 0
      BY SumEmpty
    <3>1. /\ Pick(s) \in S /\ Cardinality(s) \in Nat
          /\ Cardinality(s \ {Pick(s)}) = Cardinality(s) - 1
      BY <2>0, PickFacts
    <3>2. SumFunctionOnSet(zero, s \ {Pick(s)}) = 0
      BY <2>2, <3>1
    <3>3. SumFunctionOnSet(zero, s) = zero[Pick(s)] + SumFunctionOnSet(zero, s \ {Pick(s)})
      BY <2>0, SumPicked
    <3> QED BY <3>1, <3>2, <3>3
  <2>3. Cardinality(S) \in T
    <3> HIDE DEF T
    <3> QED BY <2>0, <2>1, <2>2, NatSetInduction
  <2> QED BY <2>0, <2>3
<1> QED BY <1>2, <1>3, <1>4

LEMMA MovingTypes ==
  ASSUME TypeOK, NEW c \in Ctas, PlacedAt(c), NEW l, NEW r, NEW n, NEW p,
         Moving(c, l, r, n, p), Going(c, l, r, n, p)
  PROVE  ControlTypes'
<1>1. /\ l \in Barriers \cup Steps /\ r \in 1 .. Len(Launched.rows) + 1
      /\ n \in 0 .. NumRounds /\ p \in Values
  BY GoingTypes
<1> QED BY <1>1 DEF TypeOK, Moving, ControlTypes, LaunchRight, Launched

LEMMA WriteRows ==
  ASSUME NEW c, NEW cells, Write(c, cells)
  PROVE  DOMAIN output' = DOMAIN output
BY DEF Write

LEMMA BufferType == ASSUME NEW r \in Nat \ {0}, NEW n \in Nat PROVE Buffer(r, n) \in 0 .. 2
<1>1. NumRounds \in Nat
  BY Sizes
<1> DEFINE x == (r - 1) * NumRounds
<1>2. x \in Nat
  <2>1. r - 1 \in Nat
    OBVIOUS
  <2>2. \A a, b \in Nat : a * b \in Nat
    OBVIOUS
  <2> QED BY <1>1, <2>1, <2>2
<1> HIDE DEF x
<1>3. (x + n) % 3 \in 0 .. 2
  BY <1>2
<1> QED BY <1>3 DEF Buffer, x

LEMMA NoCountsType == NoCounts \in [0 .. Radix - 1 -> Nat]
BY Sizes DEF NoCounts

LEMMA LocalHistogramType ==
  ASSUME NEW c \in Ctas
  PROVE  LocalHistogram(c) \in [0 .. Radix - 1 -> Nat]
<1>1. ASSUME NEW b \in 0 .. Radix - 1
      PROVE  Cardinality({ i \in Chunk(c, row[c]) :
                             LET v == Data(row[c])[i]
                             IN  Upper(v, round[c]) = prefix[c] /\ Digit(v, round[c]) = b }) \in Nat
  BY ChunkFacts
<1> QED BY <1>1 DEF LocalHistogram

\* The counts m added to those in h[e].
Added(h, e, m) == [h EXCEPT ![e] = [b \in DOMAIN @ |-> @[b] + m[b]]]

LEMMA AddedType ==
  ASSUME NEW I, NEW J, NEW h \in [J -> [I -> Nat]], NEW e \in J, NEW m \in [I -> Nat]
  PROVE  Added(h, e, m) \in [J -> [I -> Nat]]
<1> DEFINE f == h[e]
           g == [x \in DOMAIN f |-> f[x] + m[x]]
<1>1. f \in [I -> Nat]
  OBVIOUS
<1> HIDE DEF f
<1>2. ASSUME NEW x \in I PROVE f[x] + m[x] \in Nat
  <2>1. f[x] \in Nat /\ m[x] \in Nat
    BY <1>1
  <2> QED BY <2>1
<1>3. DOMAIN f = I
  BY <1>1
<1>4. g \in [I -> Nat]
  BY <1>2, <1>3
<1> HIDE DEF g
<1>5. [h EXCEPT ![e] = g] \in [J -> [I -> Nat]]
  BY <1>4
<1> QED BY <1>5 DEF f, g, Added

LEMMA BetweenData ==
  ASSUME TypeOK, NEW c \in Ctas, PlacedAt(c), Between(c)
  PROVE  DataTypes'
<1>0. DataTypes /\ LaunchRight /\ row[c] \in Nat \ {0} /\ round[c] \in Nat
  BY LaunchFacts DEF TypeOK, DataTypes, LaunchRight
<1>1. UNCHANGED <<program, launch>> /\ Rows' = Rows
  <2>1. UNCHANGED <<program, launch>>
    BY BetweenMoves DEF Moving
  <2> QED BY <2>1 DEF Rows, Launched
<1>2. /\ Above(c) \subseteq Chunk(c, row[c]) /\ Equal(c) \subseteq Chunk(c, row[c])
      /\ Kept(c) \subseteq Chunk(c, row[c])
  BY DEF Above, Equal, Kept
<1>3. /\ Cardinality(Above(c)) \in 0 .. ChunkSize /\ Cardinality(Equal(c)) \in 0 .. ChunkSize
      /\ IsFiniteSet(Kept(c)) /\ Kept(c) \subseteq DOMAIN Data(row[c])
      /\ Equal(c) \subseteq DOMAIN Data(row[c])
  BY <1>2, ChunkFacts
<1>4. ChunkSize \in Nat
  BY Sizes
<1>5. pc[c] \notin Exited \cup {"row"} => row[c] \in Rows
  BY DEF PlacedAt
<1>6. DOMAIN output' = Rows
  <2>1. DOMAIN output = Rows
    BY <1>0 DEF DataTypes
  <2>2. CASE \/ ClearForNextRow(c) \/ ClearOutputCounter(c) \/ Add(c) \/ ClearNext(c)
             \/ ReadHistogram(c) \/ ZeroSum(c) \/ AddSum(c) \/ AllPlaced(c) \/ Count(c)
    <3>1. UNCHANGED output
      BY <2>2 DEF ClearForNextRow, ClearOutputCounter, Add, ClearNext, ReadHistogram, ZeroSum,
         AddSum, AllPlaced, Count
    <3> QED BY <2>1, <3>1
  <2>3. CASE StartRow(c) \/ Mask(c) \/ Normalize(c) \/ Claim(c) \/ Place(c) \/ Emit(c) \/ Transform(c)
    <3>1. (\E cells : Write(c, cells)) \/ UNCHANGED output
      <4>1. CASE StartRow(c)
        <5>1. Launched.kernel \in {"mask", "renorm", "basic", "page_table"}
          BY <1>0, LaunchFacts DEF Kernels
        <5> HIDE DEF Trivial, Write
        <5> QED BY <4>1, <5>1 DEF StartRow
      <4>2. CASE Mask(c)
        BY <4>2 DEF Mask
      <4>3. CASE Normalize(c)
        BY <4>3 DEF Normalize
      <4>4. CASE Claim(c)
        BY <4>4 DEF Claim
      <4>5. CASE Place(c)
        BY <4>5 DEF Place
      <4>6. CASE Emit(c)
        BY <4>6 DEF Emit
      <4>7. CASE Transform(c)
        BY <4>7 DEF Transform
      <4> QED BY <2>3, <4>1, <4>2, <4>3, <4>4, <4>5, <4>6, <4>7
    <3>2. DOMAIN output' = DOMAIN output
      BY <3>1, WriteRows
    <3> QED BY <2>1, <3>2
  <2> QED BY <2>2, <2>3 DEF Between
<1>7. CASE StartRow(c)
  <2>1. row[c] \in Rows /\ K(row[c]) \in Nat
    BY <1>0, <1>7, LaunchFacts DEF StartRow, Running
  <2> QED BY <1>0, <1>1, <1>6, <1>7, <2>1 DEF StartRow, DataTypes, state
<1>8. CASE ClearForNextRow(c) \/ ClearNext(c)
  <2>1. \E b \in 0 .. 2 : \/ histogram' = [histogram EXCEPT ![b] = NoCounts]
                          \/ histogram' = histogram
    <3>1. Buffer(row[c], NumRounds) \in 0 .. 2 /\ Buffer(row[c], round[c] + 1) \in 0 .. 2
      BY <1>0, BufferType, Sizes
    <3> QED BY <1>8, <3>1 DEF ClearForNextRow, ClearNext
  <2>2. histogram' \in [0 .. 2 -> [0 .. Radix - 1 -> Nat]]
    BY <1>0, <2>1, NoCountsType DEF DataTypes
  <2>3. UNCHANGED <<output_counter, sum_topk, det_scratch, remaining_k, todo>>
    BY <1>8 DEF ClearForNextRow, ClearNext, local
  <2> QED BY <1>0, <1>1, <1>6, <2>2, <2>3 DEF DataTypes
<1>9. CASE Add(c)
  <2>1. Buffer(row[c], round[c]) \in 0 .. 2
    BY <1>0, BufferType
  <2>2. LocalHistogram(c) \in [0 .. Radix - 1 -> Nat]
    BY LocalHistogramType
  <2>5. histogram' \in [0 .. 2 -> [0 .. Radix - 1 -> Nat]]
    <3>1. histogram' = Added(histogram, Buffer(row[c], round[c]), LocalHistogram(c))
      BY <1>9 DEF Add, Added
    <3>2. histogram \in [0 .. 2 -> [0 .. Radix - 1 -> Nat]]
      BY <1>0 DEF DataTypes
    <3> QED BY <2>1, <2>2, <3>1, <3>2, AddedType
  <2>6. UNCHANGED <<output_counter, sum_topk, det_scratch, remaining_k, todo>>
    BY <1>9 DEF Add, local
  <2> QED BY <1>0, <1>1, <1>6, <2>5, <2>6 DEF DataTypes
<1>10. CASE ReadHistogram(c)
  <2> DEFINE counts == histogram[Buffer(row[c], round[c])]
             CountFrom(b) == SumFunctionOnSet(counts, b .. Radix - 1)
             found == { b \in 0 .. Radix - 1 : CountFrom(b) >= remaining_k[c]
                                                /\ CountFrom(b + 1) < remaining_k[c] }
             bucket == IF found = {} THEN 0 ELSE CHOOSE b \in found : TRUE
             k == IF found = {} THEN remaining_k[c] ELSE remaining_k[c] - CountFrom(bucket + 1)
  <2>1. remaining_k' = [remaining_k EXCEPT ![c] = k]
    BY <1>10 DEF ReadHistogram
  <2>2. k \in Nat
    <3>1. CASE found = {}
      BY <1>0, <3>1 DEF DataTypes
    <3>2. CASE found # {}
      <4>1. bucket \in 0 .. Radix - 1 /\ CountFrom(bucket + 1) < remaining_k[c]
        BY <3>2
      <4>2. counts \in [0 .. Radix - 1 -> Nat]
        BY <1>0, BufferType DEF DataTypes
      <4> DEFINE s == bucket + 1 .. Radix - 1
      <4>3. IsFiniteSet(s) /\ s \subseteq 0 .. Radix - 1
        <5> HIDE DEF bucket
        <5>1. bucket + 1 \in Nat /\ Radix - 1 \in Int
          BY <4>1, Sizes
        <5>2. \A x, y \in Int : IsFiniteSet(x .. y)
          BY FS_Interval
        <5> QED BY <5>1, <5>2
      <4> HIDE DEF s, counts
      <4>4. SumFunctionOnSet(counts, s) \in Nat
        BY <4>2, <4>3, SumNat
      <4>5. CountFrom(bucket + 1) \in Nat
        BY <4>4 DEF s
      <4> HIDE DEF CountFrom, bucket
      <4>6. remaining_k[c] \in Nat
        BY <1>0 DEF DataTypes
      <4> QED BY <3>2, <4>1, <4>5, <4>6
    <3> QED BY <3>1, <3>2
  <2> HIDE DEF k
  <2>3. remaining_k' \in [Ctas -> Nat]
    BY <1>0, <2>1, <2>2 DEF DataTypes
  <2>4. UNCHANGED <<state, todo>>
    BY <1>10 DEF ReadHistogram
  <2> QED BY <1>0, <1>1, <1>6, <2>3, <2>4 DEF DataTypes, state
<1>11. CASE AddSum(c)
  <2>1. row[c] \in Rows
    BY <1>5, <1>11 DEF AddSum, Running, Exited
  <2>2. \A i \in Kept(c) : Data(row[c])[i] \in Nat
    BY <1>0, <1>3, <2>1, LaunchFacts DEF Values
  <2>3. SumFunctionOnSet(Data(row[c]), Kept(c)) \in Nat
    BY <1>3, <2>2, SumNat
  <2>4. sum_topk' \in Nat
    BY <1>0, <1>11, <2>3 DEF AddSum, DataTypes
  <2>5. UNCHANGED <<histogram, output_counter, det_scratch, remaining_k, todo>>
    BY <1>11 DEF AddSum, local
  <2> QED BY <1>0, <1>1, <1>6, <2>4, <2>5 DEF DataTypes
<1>12. CASE Claim(c)
  <2>1. row[c] \in Rows
    BY <1>5, <1>12 DEF Claim, Running, Exited
  <2>2. Equal(c) \in SUBSET Positions
    BY <1>0, <1>3, <2>1, LaunchFacts
  <2>3. output_counter' \in Nat
    BY <1>0, <1>3, <1>4, <1>12 DEF Claim, DataTypes
  <2> QED BY <1>0, <1>1, <1>6, <1>12, <2>2, <2>3 DEF Claim, DataTypes
<1>13. CASE Place(c)
  <2>1. PICK i \in todo[c] : todo' = [todo EXCEPT ![c] = todo[c] \ {i}]
    BY <1>13 DEF Place
  <2>2. todo' \in [Ctas -> SUBSET Positions]
    BY <1>0, <2>1 DEF DataTypes
  <2>3. output_counter' \in Nat /\ UNCHANGED <<histogram, sum_topk, det_scratch, remaining_k>>
    BY <1>0, <1>13 DEF Place, DataTypes
  <2> QED BY <1>0, <1>1, <1>6, <2>2, <2>3 DEF DataTypes
<1>14. CASE Count(c)
  <2>1. det_scratch' \in [Ctas -> [gt : 0 .. ChunkSize, eq : 0 .. ChunkSize]]
    BY <1>0, <1>3, <1>14 DEF Count, DataTypes
  <2> QED BY <1>0, <1>1, <1>6, <1>14, <2>1 DEF Count, DataTypes, local
<1>15. CASE ClearOutputCounter(c) \/ ZeroSum(c)
  BY <1>0, <1>1, <1>6, <1>15 DEF ClearOutputCounter, ZeroSum, DataTypes, local
<1>16. CASE Mask(c) \/ Normalize(c) \/ AllPlaced(c) \/ Emit(c) \/ Transform(c)
  <2>1. UNCHANGED <<state, local>>
    BY <1>16 DEF Mask, Normalize, AllPlaced, Emit, Transform
  <2> QED BY <1>0, <1>1, <1>6, <2>1 DEF DataTypes, state, local
<1> QED BY <1>7, <1>8, <1>9, <1>10, <1>11, <1>12, <1>13, <1>14, <1>15, <1>16 DEF Between

-----------------------------------------------------------------------------
\* What the counter says about the CTAs' arrivals a.
Counted(a, total) ==
  \E n \in 0 .. total : /\ \A c \in Ctas : a[c] \in { n, n + 1 }
                        /\ total = n * NumCtas + Cardinality({ c \in Ctas : a[c] = n + 1 })

AllArrivals == [c \in Ctas |-> Arrivals(c)]

LEMMA CounterCounts == CounterRight <=> (~AllDone => Counted(AllArrivals, arrival_counter))
<1>1. ASSUME NEW n PROVE { c \in Ctas : AllArrivals[c] = n } = { c \in Ctas : Arrivals(c) = n }
  BY DEF AllArrivals
<1>2. \A c \in Ctas : AllArrivals[c] = Arrivals(c)
  BY DEF AllArrivals
<1> QED BY <1>1, <1>2 DEF CounterRight, Counted

LEMMA CounterCountsNext == (CounterRight <=> (~AllDone => Counted(AllArrivals, arrival_counter)))'
BY CounterCounts, PTL

LEMMA CtasSubset ==
  ASSUME NEW s \in SUBSET Ctas
  PROVE  /\ IsFiniteSet(s) /\ Cardinality(s) \in 0 .. NumCtas
         /\ Cardinality(s) = NumCtas <=> s = Ctas
<1>1. IsFiniteSet(Ctas) /\ Cardinality(Ctas) = NumCtas /\ NumCtas \in Nat
  BY Sizes
<1>2. IsFiniteSet(s) /\ Cardinality(s) \in Nat /\ Cardinality(s) <= NumCtas
      /\ (Cardinality(s) = NumCtas => s = Ctas)
  BY <1>1, FS_Subset, FS_CardinalityType
<1> QED BY <1>1, <1>2

\* One who has arrived least often arrives once more.
LEMMA OneMore ==
  ASSUME NEW a, NEW b, NEW total \in Nat, NEW c \in Ctas, Counted(a, total), b[c] = a[c] + 1,
         \A d \in Ctas : a[c] <= a[d] /\ (d # c => b[d] = a[d])
  PROVE  Counted(b, total + 1)
<1>0. NumCtas \in Nat \ {0}
  BY Sizes
<1>1. PICK n \in 0 .. total : /\ \A d \in Ctas : a[d] \in {n, n + 1}
                              /\ total = n * NumCtas + Cardinality({d \in Ctas : a[d] = n + 1})
  BY DEF Counted
<1>2. n \in Nat /\ n * NumCtas \in Nat
  <2>1. \A x, y \in Nat : x * y \in Nat
    OBVIOUS
  <2> QED BY <1>0, <2>1
<1>3. CASE a[c] = n
  <2> DEFINE s == {d \in Ctas : a[d] = n + 1}
             t == {d \in Ctas : b[d] = n + 1}
  <2>1. t = s \cup {c} /\ c \notin s
    BY <1>1, <1>2, <1>3
  <2>2. IsFiniteSet(s) /\ Cardinality(s) \in Nat
    BY CtasSubset
  <2>3. Cardinality(t) = Cardinality(s) + 1
    <3> HIDE DEF s, t
    <3> QED BY <2>1, <2>2, FS_AddElement
  <2>4. total = n * NumCtas + Cardinality(s)
    BY <1>1
  <2>5. \A d \in Ctas : b[d] \in {n, n + 1}
    BY <1>1, <1>2, <1>3
  <2>6. total + 1 = n * NumCtas + Cardinality(t) /\ n \in 0 .. total + 1
    <3> HIDE DEF s, t
    <3> QED BY <1>2, <2>2, <2>3, <2>4
  <2> QED BY <2>5, <2>6 DEF Counted
<1>4. CASE a[c] = n + 1
  <2>1. \A d \in Ctas : a[d] = n + 1
    BY <1>1, <1>2, <1>4
  <2>2. {d \in Ctas : a[d] = n + 1} = Ctas
    BY <2>1
  <2>3. total = n * NumCtas + NumCtas /\ n * NumCtas + NumCtas = (n + 1) * NumCtas
    <3>1. total = n * NumCtas + NumCtas
      BY <1>1, <2>2, Sizes
    <3>2. \A x, y \in Nat : x * y + y = (x + 1) * y
      OBVIOUS
    <3> QED BY <1>0, <1>2, <3>1, <3>2
  <2>4. {d \in Ctas : b[d] = (n + 1) + 1} = {c}
    BY <1>2, <1>4, <2>1
  <2>5. Cardinality({c}) = 1
    BY FS_Singleton
  <2>6. \A d \in Ctas : b[d] \in {n + 1, (n + 1) + 1}
    BY <1>2, <1>4, <2>1
  <2>7. n + 1 \in 0 .. total + 1
    BY <1>2
  <2>8. total + 1 = (n + 1) * NumCtas + Cardinality({d \in Ctas : b[d] = (n + 1) + 1})
    BY <2>3, <2>4, <2>5
  <2> QED BY <2>6, <2>7, <2>8 DEF Counted
<1> QED BY <1>1, <1>3, <1>4

\* When the counter has all arrivals at a barrier that c has arrived at, all have arrived.
LEMMA AllCounted ==
  ASSUME NEW a, NEW total \in Nat, NEW c \in Ctas, Counted(a, total), \A d \in Ctas : a[d] \in Nat
  PROVE  /\ total >= a[c] * NumCtas => \A d \in Ctas : a[c] <= a[d]
         /\ (\A d \in Ctas : a[d] = a[c]) => total = a[c] * NumCtas
<1>0. NumCtas \in Nat \ {0}
  BY Sizes
<1>1. PICK n \in 0 .. total : /\ \A d \in Ctas : a[d] \in {n, n + 1}
                              /\ total = n * NumCtas + Cardinality({d \in Ctas : a[d] = n + 1})
  BY DEF Counted
<1> DEFINE s == {d \in Ctas : a[d] = n + 1}
<1>2. /\ n \in Nat /\ n * NumCtas \in Nat /\ (n + 1) * NumCtas = n * NumCtas + NumCtas
      /\ Cardinality(s) \in 0 .. NumCtas /\ (Cardinality(s) = NumCtas <=> s = Ctas)
  <2>1. \A x, y \in Nat : x * y \in Nat /\ (x + 1) * y = x * y + y
    OBVIOUS
  <2>2. Cardinality(s) \in 0 .. NumCtas /\ (Cardinality(s) = NumCtas <=> s = Ctas)
    BY CtasSubset
  <2> HIDE DEF s
  <2>3. n \in Nat /\ NumCtas \in Nat
    BY <1>0
  <2> QED BY <2>1, <2>2, <2>3
<1>3. a[c] = n \/ a[c] = n + 1
  BY <1>1
<1>4. ASSUME total >= a[c] * NumCtas, NEW d \in Ctas PROVE a[c] <= a[d]
  <2>1. CASE a[c] = n
    BY <1>1, <1>2, <2>1
  <2>2. CASE a[c] = n + 1
    <3>1. Cardinality(s) >= NumCtas
      <4> HIDE DEF s
      <4>1. total = n * NumCtas + Cardinality(s)
        BY <1>1 DEF s
      <4>2. total >= n * NumCtas + NumCtas
        BY <1>2, <1>4, <2>2
      <4> QED BY <1>0, <1>2, <4>1, <4>2
    <3>2. s = Ctas
      <4> HIDE DEF s
      <4> QED BY <1>0, <1>2, <3>1
    <3> QED BY <1>2, <2>2, <3>2
  <2> QED BY <1>3, <2>1, <2>2
<1>5. ASSUME \A d \in Ctas : a[d] = a[c] PROVE total = a[c] * NumCtas
  <2>1. CASE a[c] = n
    <3>1. s = {}
      BY <1>2, <1>5, <2>1
    <3>2. Cardinality(s) = 0
      BY <3>1, FS_EmptySet
    <3> QED BY <1>1, <1>2, <2>1, <3>2
  <2>2. CASE a[c] = n + 1
    <3>1. s = Ctas
      BY <1>5, <2>2
    <3>2. Cardinality(s) = NumCtas
      BY <3>1, Sizes
    <3> QED BY <1>1, <1>2, <2>2, <3>2
  <2> QED BY <1>3, <2>1, <2>2
<1> QED BY <1>4, <1>5

-----------------------------------------------------------------------------
\* A CTA that a step leaves alone.
Same(d) == /\ pc'[d] = pc[d] /\ row'[d] = row[d] /\ round'[d] = round[d] /\ prefix'[d] = prefix[d]
           /\ waiting'[d] = waiting[d] /\ barrier_phase'[d] = barrier_phase[d]

LEMMA OthersSame ==
  ASSUME NEW d, Same(d), UNCHANGED <<program, launch>>, PlacedAt(d)
  PROVE  /\ PlacedAt(d)' /\ PassedHere(d)' = PassedHere(d) /\ Arrivals(d)' = Arrivals(d)
         /\ BarriersBefore'[row'[d]] + PassedHere(d)' = BarriersBefore[row[d]] + PassedHere(d)
<1>1. /\ Trivial(row[d])' = Trivial(row[d]) /\ Launched' = Launched /\ Rows' = Rows /\ (Collects' <=> Collects)
      /\ BarriersSelecting(row[d])' = BarriersSelecting(row[d])
      /\ BarriersIn(row[d])' = BarriersIn(row[d]) /\ BarriersBefore' = BarriersBefore
  BY SameLaunch DEF Same, Trivial, K, Length, Data, Launched, Rows, Collects, BarriersIn, BarriersSelecting
<1>2. PlacedAt(d)'
  <2> HIDE DEF Trivial, Launched, Rows, Collects
  <2> QED BY <1>1 DEF Same, PlacedAt
<1>3. PassedHere(d)' = PassedHere(d)
  BY <1>1 DEF Same, PassedHere
<1>4. Arrivals(d)' = Arrivals(d)
  BY DEF Same, Arrivals
<1> QED BY <1>1, <1>2, <1>3, <1>4 DEF Same

LEMMA ArrivalsType ==
  ASSUME TypeOK, NEW c \in Ctas
  PROVE  Arrivals(c) \in Nat /\ Arrivals(c) \in {barrier_phase[c], barrier_phase[c] + 1}
<1>1. barrier_phase[c] \in Nat
  BY DEF TypeOK
<1> QED BY <1>1 DEF Arrivals

-----------------------------------------------------------------------------
\* The steps preserve the invariant.
LEMMA BetweenStep ==
  ASSUME Control, NEW c \in Ctas, Between(c)
  PROVE  Control'
<1>0. /\ TypeOK /\ PlacedRight /\ PhasesRight /\ Met /\ CounterRight /\ ResetRight
      /\ PlacedAt(c)
  BY DEF Control, PlacedRight
<1>1. PICK l, r, n, p : Moving(c, l, r, n, p) /\ Going(c, l, r, n, p)
  BY <1>0, BetweenMoves
<1>2. /\ UNCHANGED <<program, launch, waiting, barrier_phase, arrival_counter>>
      /\ pc'[c] = l /\ \A d \in Ctas \ {c} : Same(d)
  BY <1>0, <1>1 DEF TypeOK, Moving, Same
<1>3. pc[c] \notin Exited \cup Barriers /\ l \notin Exited /\ ~waiting[c]
  <2>1. pc[c] \notin Exited \cup Barriers /\ l \notin Exited
    BY <1>0, <1>1, GoingTypes
  <2> QED BY <1>0, <2>1 DEF PlacedAt
<1>4. TypeOK'
  <2>1. ControlTypes'
    BY <1>0, <1>1, MovingTypes
  <2>2. DataTypes'
    BY <1>0, BetweenData
  <2>3. (DataTypes /\ ControlTypes => TypeOK)'
    BY DEF TypeOK, DataTypes, ControlTypes, LaunchRight
  <2> QED BY <2>1, <2>2, <2>3
<1>5. ASSUME NEW d \in Ctas
      PROVE  /\ PlacedAt(d)' /\ Arrivals(d)' = Arrivals(d)
             /\ BarriersBefore'[row'[d]] + PassedHere(d)' = BarriersBefore[row[d]] + PassedHere(d)
  <2>1. CASE d = c
    <3>1. PlacedAt(c)'
      BY <1>0, <1>1, GoingPlaced
    <3>2. BarriersBefore'[row'[c]] + PassedHere(c)' = BarriersBefore[row[c]] + PassedHere(c)
      BY <1>0, <1>1, GoingPhase
    <3>3. Arrivals(c)' = Arrivals(c)
      BY <1>2, <1>3 DEF Arrivals
    <3> QED BY <2>1, <3>1, <3>2, <3>3
  <2>2. CASE d # c
    BY <1>0, <1>2, <2>2, OthersSame DEF PlacedRight
  <2> QED BY <2>1, <2>2
<1>6. PlacedRight'
  BY <1>5 DEF PlacedRight
<1>7. PhasesRight'
  BY <1>0, <1>2, <1>5 DEF PhasesRight
<1>8. Met'
  BY <1>0, <1>2, <1>5 DEF Met
<1>9. CounterRight'
  <2>1. ~AllDone
    BY <1>3 DEF AllDone, Exited
  <2>2. \A m : {d \in Ctas : Arrivals(d)' = m} = {d \in Ctas : Arrivals(d) = m}
    BY <1>5
  <2>3. PICK m \in 0 .. arrival_counter :
          /\ \A d \in Ctas : Arrivals(d) \in {m, m + 1}
          /\ arrival_counter = m * NumCtas + Cardinality({d \in Ctas : Arrivals(d) = m + 1})
    BY <1>0, <2>1 DEF CounterRight
  <2>4. /\ \A d \in Ctas : Arrivals(d)' \in {m, m + 1}
        /\ arrival_counter' = m * NumCtas + Cardinality({d \in Ctas : Arrivals(d)' = m + 1})
        /\ m \in 0 .. arrival_counter'
    BY <1>2, <1>5, <2>2, <2>3
  <2> QED BY <2>4 DEF CounterRight
<1>10. ResetRight'
  <2>1. \A d \in Ctas : pc[d] \notin {"reset", "reset_counter"}
    <3>1. ASSUME NEW d \in Ctas, pc[d] \in {"reset", "reset_counter"} PROVE FALSE
      <4>1. d # c
        BY <1>3, <3>1 DEF Exited
      <4>2. pc[c] = "done"
        BY <1>0, <3>1, <4>1 DEF ResetRight
      <4> QED BY <1>3, <4>2 DEF Exited
    <3> QED BY <3>1
  <2>2. \A d \in Ctas : pc'[d] \notin {"reset", "reset_counter"}
    BY <1>2, <1>3, <2>1 DEF Same, Exited
  <2>3. Launched' = Launched /\ (Collects' <=> Collects)
    BY <1>2 DEF Launched, Collects
  <2>4. ~(Collects /\ Launched.deterministic) => det_scratch' = NoScratch
    <3>1. CASE Count(c)
      <4>1. pc[c] = "count"
        BY <3>1 DEF Count, Running
      <4> QED BY <1>0, <4>1 DEF PlacedAt
    <3>2. CASE ~Count(c)
      <4>1. det_scratch' = det_scratch
        BY <3>2 DEF Between, StartRow, ClearForNextRow, ClearOutputCounter, Add, ClearNext,
           ReadHistogram, Mask, ZeroSum, AddSum, Normalize, Claim, Place, AllPlaced, Emit,
           Transform, state
      <4> QED BY <1>0, <4>1 DEF ResetRight
    <3> QED BY <3>1, <3>2
  <2> QED BY <2>2, <2>3, <2>4 DEF ResetRight
<1>11. StateZeroed'
  <2>1. pc'[c] # "done"
    BY <1>2, <1>3 DEF Exited
  <2> QED BY <2>1 DEF StateZeroed, AllDone
<1> QED BY <1>4, <1>6, <1>7, <1>8, <1>9, <1>10, <1>11 DEF Control

LEMMA ArriveStep ==
  ASSUME Control, NEW c \in Ctas, Arrive(c)
  PROVE  Control'
<1>0. /\ TypeOK /\ PlacedRight /\ PhasesRight /\ Met /\ CounterRight /\ ResetRight
      /\ PlacedAt(c)
  BY DEF Control, PlacedRight
<1>1. /\ UNCHANGED <<program, launch, histogram, det_scratch, output, row, pc, barrier_phase, round, prefix>>
      /\ waiting'[c] = TRUE /\ arrival_counter' = arrival_counter + 1
      /\ pc[c] \in Barriers /\ ~waiting[c] /\ \A d \in Ctas \ {c} : Same(d)
  BY <1>0 DEF TypeOK, Arrive, Same, local
<1>2. pc[c] \notin Exited
  BY <1>1 DEF Barriers, Exited
<1>3. TypeOK'
  BY <1>0 DEF TypeOK, Arrive, local, Rows, Launched
<1>4. ASSUME NEW d \in Ctas
      PROVE  /\ PlacedAt(d)'
             /\ BarriersBefore'[row'[d]] + PassedHere(d)' = BarriersBefore[row[d]] + PassedHere(d)
  <2>1. CASE d = c
    <3>1. PlacedAt(c)'
      <4>1. /\ Trivial(row[c])' = Trivial(row[c]) /\ Launched' = Launched /\ Rows' = Rows
            /\ (Collects' <=> Collects)
        BY <1>1 DEF Trivial, K, Length, Data, Launched, Rows, Collects
      <4> HIDE DEF Trivial, Launched, Rows, Collects
      <4> QED BY <1>0, <1>1, <4>1 DEF PlacedAt
    <3>2. PassedHere(c)' = PassedHere(c) /\ BarriersBefore' = BarriersBefore
      BY <1>1, SameLaunch DEF PassedHere, BarriersIn, BarriersSelecting, Trivial, K, Length, Data, Launched
    <3> QED BY <1>1, <2>1, <3>1, <3>2
  <2>2. CASE d # c
    BY <1>0, <1>1, <2>2, OthersSame DEF PlacedRight
  <2> QED BY <2>1, <2>2
<1>5. Arrivals(c)' = Arrivals(c) + 1 /\ Arrivals(c) = barrier_phase[c]
  <2>1. barrier_phase[c] \in Nat
    BY <1>0 DEF TypeOK
  <2> QED BY <1>1, <1>2, <2>1 DEF Arrivals
<1>6. \A d \in Ctas \ {c} : Arrivals(d)' = Arrivals(d)
  BY <1>1 DEF Arrivals, Same
<1>7. \A d \in Ctas : Arrivals(d) \in Nat /\ Arrivals(d)' \in Nat /\ Arrivals(d) <= Arrivals(d)'
  BY <1>0, <1>5, <1>6, ArrivalsType
<1>8. Met'
  <2>1. ASSUME NEW b \in Ctas, NEW d \in Ctas PROVE barrier_phase'[b] <= Arrivals(d)'
    <3>1. barrier_phase[b] <= Arrivals(d) /\ barrier_phase[b] \in Nat
      BY <1>0 DEF Met, TypeOK
    <3> QED BY <1>1, <1>7, <3>1
  <2> QED BY <2>1 DEF Met
<1>9. CounterRight'
  <2>1. ~AllDone
    BY <1>2 DEF AllDone, Exited
  <2>2. Counted(AllArrivals, arrival_counter)
    BY <1>0, <2>1, CounterCounts
  <2>3. Counted(AllArrivals', arrival_counter')
    <3>1. AllArrivals'[c] = AllArrivals[c] + 1
      BY <1>5 DEF AllArrivals
    <3>2. \A d \in Ctas : AllArrivals[c] <= AllArrivals[d] /\ (d # c => AllArrivals'[d] = AllArrivals[d])
      BY <1>0, <1>5, <1>6 DEF AllArrivals, Met
    <3>3. arrival_counter \in Nat
      BY <1>0 DEF TypeOK
    <3> QED BY <1>1, <2>2, <3>1, <3>2, <3>3, OneMore
  <2> QED BY <2>3, CounterCountsNext
<1>10. ResetRight'
  <2>1. Launched' = Launched /\ (Collects' <=> Collects)
    BY <1>1 DEF Launched, Collects
  <2> QED BY <1>0, <1>1, <2>1 DEF ResetRight, Clean
<1>11. StateZeroed'
  BY <1>1, <1>2 DEF StateZeroed, AllDone, Exited
<1>12. PlacedRight' /\ PhasesRight'
  BY <1>0, <1>1, <1>4 DEF PlacedRight, PhasesRight
<1> QED BY <1>3, <1>8, <1>9, <1>10, <1>11, <1>12 DEF Control

\* Behind a barrier.
LEMMA PassPlaced ==
  ASSUME TypeOK, NEW c \in Ctas, PlacedAt(c), Pass(c)
  PROVE  PlacedAt(c)' /\ PassedHere(c)' = PassedHere(c) + 1
<1>1. /\ UNCHANGED <<program, launch, row, round, prefix>> /\ pc'[c] = After(c) /\ waiting'[c] = FALSE
      /\ waiting[c]
  BY DEF TypeOK, Pass, Goto, local
<1>2. pc[c] \in Barriers /\ row[c] \in Rows
  BY <1>1 DEF PlacedAt, Barriers, Exited
<1>3. /\ Trivial(row[c])' = Trivial(row[c]) /\ Launched' = Launched /\ Rows' = Rows
      /\ (Collects' <=> Collects) /\ BarriersSelecting(row[c])' = BarriersSelecting(row[c])
  BY <1>1 DEF Trivial, K, Length, Data, Launched, Rows, Collects, BarriersSelecting
<1>4. /\ pc[c] = "first" => After(c) \in {"clear_output", "add"}
      /\ pc[c] = "round" => After(c) = "read"
      /\ pc[c] = "collect" => After(c) = IF Launched.deterministic THEN "emit" ELSE "place"
      /\ pc[c] = "page" => After(c) = "transform"
      /\ pc[c] = "sum_init" => After(c) = "add_sum"
      /\ pc[c] = "sum_done" => After(c) = "normalize"
  BY DEF After
<1>5. /\ BarriersSelecting(row[c]) \in Nat /\ round[c] \in Nat
  BY BarriersType DEF TypeOK, LaunchRight
<1>6. PlacedAt(c)'
  <2> HIDE DEF Trivial, Launched, Rows, Collects, After
  <2> QED BY <1>1, <1>2, <1>3, <1>4 DEF PlacedAt, Barriers, Exited, Selecting
<1>7. PassedHere(c)' = PassedHere(c) + 1
  <2> HIDE DEF Trivial, Launched, After, BarriersSelecting
  <2>1. CASE pc[c] \in {"first", "round"}
    BY <1>1, <1>4, <1>5, <2>1 DEF PassedHere, Exited, PlacedAt
  <2>2. CASE pc[c] \in {"collect", "page", "sum_init", "sum_done"}
    BY <1>1, <1>3, <1>4, <1>5, <2>2 DEF PassedHere, Exited
  <2> QED BY <1>2, <2>1, <2>2 DEF Barriers
<1> QED BY <1>6, <1>7

LEMMA PassStep ==
  ASSUME Control, NEW c \in Ctas, Pass(c)
  PROVE  Control'
<1>0. /\ TypeOK /\ PlacedRight /\ PhasesRight /\ Met /\ CounterRight /\ ResetRight
      /\ PlacedAt(c)
  BY DEF Control, PlacedRight
<1>1. /\ UNCHANGED <<program, launch, histogram, det_scratch, output, row, round, prefix, arrival_counter>>
      /\ waiting'[c] = FALSE /\ waiting[c] /\ pc'[c] = After(c) /\ barrier_phase'[c] = barrier_phase[c] + 1
      /\ arrival_counter >= (barrier_phase[c] + 1) * NumCtas
      /\ pc' = [pc EXCEPT ![c] = After(c)]
      /\ \A d \in Ctas \ {c} : Same(d)
  BY <1>0 DEF TypeOK, Pass, Goto, Same, state, local
<1>2. pc[c] \in Barriers /\ pc[c] \notin Exited
  BY <1>0, <1>1 DEF PlacedAt, Barriers, Exited
<1>3. After(c) \in Steps \ (Exited \cup Barriers)
  BY <1>2 DEF After, Barriers, Steps, Exited
<1>4. TypeOK'
  <2>1. pc' \in [Ctas -> Barriers \cup Steps]
    BY <1>0, <1>1, <1>3 DEF TypeOK
  <2> QED BY <1>0, <2>1 DEF TypeOK, Pass, Goto, state, local, Rows, Launched
<1>5. PlacedAt(c)' /\ PassedHere(c)' = PassedHere(c) + 1 /\ BarriersBefore' = BarriersBefore
  BY <1>0, <1>1, PassPlaced, SameLaunch
<1>6. ASSUME NEW d \in Ctas, d # c
      PROVE  /\ PlacedAt(d)' /\ Arrivals(d)' = Arrivals(d)
             /\ BarriersBefore'[row'[d]] + PassedHere(d)' = BarriersBefore[row[d]] + PassedHere(d)
  BY <1>0, <1>1, <1>6, OthersSame DEF PlacedRight
<1>7. Arrivals(c)' = Arrivals(c) /\ Arrivals(c) = barrier_phase[c] + 1 /\ barrier_phase[c] \in Nat
  <2>1. barrier_phase[c] \in Nat
    BY <1>0 DEF TypeOK
  <2> QED BY <1>1, <1>3, <2>1 DEF Arrivals
<1>8. \A d \in Ctas : Arrivals(d)' = Arrivals(d)
  BY <1>6, <1>7
<1>9. PlacedRight'
  BY <1>5, <1>6 DEF PlacedRight
<1>10. PhasesRight'
  <2>1. PassedHere(c) \in Nat
    BY <1>0, PassedBounds
  <2>2. BarriersBefore[row[c]] \in Nat
    <3>1. LaunchRight
      BY <1>0 DEF TypeOK, LaunchRight
    <3>2. row[c] \in Nat \ {0}
      BY <1>0, <3>1, LaunchFacts DEF TypeOK
    <3> QED BY <3>1, <3>2, BarriersBeforeValues
  <2>3. barrier_phase'[c] = BarriersBefore'[row'[c]] + PassedHere(c)'
    BY <1>0, <1>1, <1>5, <2>1, <2>2 DEF PhasesRight
  <2>4. ASSUME NEW d \in Ctas, d # c PROVE barrier_phase'[d] = BarriersBefore'[row'[d]] + PassedHere(d)'
    BY <1>0, <1>1, <1>6, <2>4 DEF PhasesRight, Same
  <2> QED BY <2>3, <2>4 DEF PhasesRight
<1>11. ~AllDone
  BY <1>2 DEF AllDone, Exited
<1>12. Met'
  <2>1. Counted(AllArrivals, arrival_counter)
    BY <1>0, <1>11, CounterCounts
  <2>2. \A d \in Ctas : AllArrivals[d] = Arrivals(d) /\ Arrivals(d) \in Nat
    BY <1>0, ArrivalsType DEF AllArrivals
  <2>3. arrival_counter \in Nat /\ arrival_counter >= AllArrivals[c] * NumCtas
    BY <1>0, <1>1, <1>7, <2>2 DEF TypeOK
  <2>4. \A d \in Ctas : Arrivals(c) <= Arrivals(d)
    BY <2>1, <2>2, <2>3, AllCounted
  <2> QED BY <1>0, <1>1, <1>7, <1>8, <2>4 DEF Met, Same
<1>13. CounterRight'
  <2>1. \A m : {d \in Ctas : Arrivals(d)' = m} = {d \in Ctas : Arrivals(d) = m}
    BY <1>8
  <2>2. PICK m \in 0 .. arrival_counter :
          /\ \A d \in Ctas : Arrivals(d) \in {m, m + 1}
          /\ arrival_counter = m * NumCtas + Cardinality({d \in Ctas : Arrivals(d) = m + 1})
    BY <1>0, <1>11 DEF CounterRight
  <2>3. /\ \A d \in Ctas : Arrivals(d)' \in {m, m + 1}
        /\ arrival_counter' = m * NumCtas + Cardinality({d \in Ctas : Arrivals(d)' = m + 1})
        /\ m \in 0 .. arrival_counter'
    BY <1>1, <1>8, <2>1, <2>2
  <2> QED BY <2>3 DEF CounterRight
<1>14. ResetRight'
  <2>1. Launched' = Launched /\ (Collects' <=> Collects)
    BY <1>1 DEF Launched, Collects
  <2>2. \A d \in Ctas : pc[d] \notin {"reset", "reset_counter"}
    <3>1. ASSUME NEW d \in Ctas, pc[d] \in {"reset", "reset_counter"} PROVE FALSE
      <4>1. d # c
        BY <1>2, <3>1 DEF Exited
      <4> QED BY <1>0, <1>2, <3>1, <4>1 DEF ResetRight, Exited
    <3> QED BY <3>1
  <2>3. \A d \in Ctas : pc'[d] \notin {"reset", "reset_counter"}
    BY <1>1, <1>3, <2>2 DEF Same, Exited
  <2> QED BY <1>0, <1>1, <2>1, <2>3 DEF ResetRight
<1>15. StateZeroed'
  BY <1>1, <1>3 DEF StateZeroed, AllDone, Exited
<1> QED BY <1>4, <1>9, <1>10, <1>12, <1>13, <1>14, <1>15 DEF Control

\* A CTA that leaves the launch.
LEMMA ExitStep ==
  ASSUME Control, NEW c \in Ctas, Exit(c)
  PROVE  Control'
<1>0. /\ TypeOK /\ PlacedRight /\ PhasesRight /\ Met /\ CounterRight /\ ResetRight
      /\ PlacedAt(c)
  BY DEF Control, PlacedRight
<1> DEFINE l == IF LastToExit(c) THEN "reset" ELSE "done"
<1>1. /\ UNCHANGED <<program, launch, histogram, det_scratch, output, row, round, prefix, waiting, barrier_phase>>
      /\ pc' = [pc EXCEPT ![c] = l] /\ pc'[c] = l /\ pc[c] = "row" /\ row[c] \notin Rows
      /\ arrival_counter' = arrival_counter + 1
      /\ \A d \in Ctas \ {c} : Same(d)
  BY <1>0 DEF TypeOK, Exit, Running, Goto, Same, local
<1>2. l \in {"reset", "done"} /\ (l = "reset" <=> LastToExit(c))
  OBVIOUS
<1> HIDE DEF l
<1>3. ~waiting[c] /\ pc[c] \notin Exited /\ pc'[c] \in Exited /\ pc'[c] \notin Barriers
  BY <1>0, <1>1, <1>2 DEF PlacedAt, Exited, Barriers
<1>4. TypeOK'
  <2>1. pc' \in [Ctas -> Barriers \cup Steps]
    BY <1>0, <1>1, <1>2 DEF TypeOK, Steps
  <2> QED BY <1>0, <2>1 DEF TypeOK, Exit, Running, Goto, local, Rows, Launched
<1>5. ASSUME NEW d \in Ctas
      PROVE  /\ PlacedAt(d)'
             /\ BarriersBefore'[row'[d]] + PassedHere(d)' = BarriersBefore[row[d]] + PassedHere(d)
  <2>1. CASE d = c
    <3>1. PlacedAt(c)'
      <4>1. Rows' = Rows
        BY <1>1 DEF Rows, Launched
      <4> HIDE DEF Trivial, Launched, Rows, Collects
      <4> QED BY <1>1, <1>2, <1>3, <4>1 DEF PlacedAt, Selecting, Exited
    <3>2. PassedHere(c)' = 0 /\ PassedHere(c) = 0 /\ BarriersBefore' = BarriersBefore
      BY <1>1, <1>2, SameLaunch DEF PassedHere, Exited
    <3> QED BY <1>1, <2>1, <3>1, <3>2
  <2>2. CASE d # c
    BY <1>0, <1>1, <2>2, OthersSame DEF PlacedRight
  <2> QED BY <2>1, <2>2
<1>6. Arrivals(c)' = Arrivals(c) + 1 /\ Arrivals(c) = barrier_phase[c]
  <2>1. barrier_phase[c] \in Nat
    BY <1>0 DEF TypeOK
  <2> QED BY <1>1, <1>3, <2>1 DEF Arrivals
<1>7. \A d \in Ctas \ {c} : Arrivals(d)' = Arrivals(d)
  BY <1>1 DEF Arrivals, Same
<1>8. \A d \in Ctas : Arrivals(d) \in Nat /\ Arrivals(d)' \in Nat /\ Arrivals(d) <= Arrivals(d)'
  BY <1>0, <1>6, <1>7, ArrivalsType
<1>9. Met'
  <2>1. ASSUME NEW b \in Ctas, NEW d \in Ctas PROVE barrier_phase'[b] <= Arrivals(d)'
    <3>1. barrier_phase[b] <= Arrivals(d) /\ barrier_phase[b] \in Nat
      BY <1>0 DEF Met, TypeOK
    <3> QED BY <1>1, <1>8, <3>1
  <2> QED BY <2>1 DEF Met
<1>10. ~AllDone
  BY <1>1 DEF AllDone
<1>11. arrival_counter \in Nat
  BY <1>0 DEF TypeOK
<1>12. Counted(AllArrivals', arrival_counter')
  <2>1. Counted(AllArrivals, arrival_counter)
    BY <1>0, <1>10, CounterCounts
  <2>2. AllArrivals'[c] = AllArrivals[c] + 1
    BY <1>6 DEF AllArrivals
  <2>3. \A d \in Ctas : AllArrivals[c] <= AllArrivals[d] /\ (d # c => AllArrivals'[d] = AllArrivals[d])
    BY <1>0, <1>6, <1>7 DEF AllArrivals, Met
  <2> QED BY <1>1, <1>11, <2>1, <2>2, <2>3, OneMore
<1>13. CounterRight'
  BY <1>12, CounterCountsNext
\* The last one finds that all others have left.
<1>14. \A d \in Ctas : AllArrivals'[d] = Arrivals(d)' /\ Arrivals(d)' \in Nat
  BY <1>8 DEF AllArrivals
<1>15. LastToExit(c) <=> arrival_counter' = AllArrivals'[c] * NumCtas
  BY <1>1, <1>6, <1>14 DEF LastToExit
<1>16. LastToExit(c) => \A d \in Ctas : Arrivals(c)' <= Arrivals(d)'
  <2>1. LastToExit(c) => arrival_counter' >= AllArrivals'[c] * NumCtas
    <3>1. arrival_counter' \in Nat
      BY <1>1, <1>11
    <3> QED BY <1>15, <3>1
  <2> QED BY <1>1, <1>11, <1>12, <1>14, <2>1, AllCounted
<1>17. (\A d \in Ctas : Arrivals(d)' = Arrivals(c)') => LastToExit(c)
  BY <1>1, <1>11, <1>12, <1>14, <1>15, AllCounted
<1>18. barrier_phase[c] = Total /\ Total \in Nat
  BY <1>0, <1>1, PhaseBounds
<1>19. \A d \in Ctas \ {c} : pc[d] \notin {"reset", "reset_counter"}
  BY <1>0, <1>1 DEF ResetRight
<1>20. ASSUME LastToExit(c), NEW d \in Ctas \ {c} PROVE pc[d] = "done"
  <2>1. Arrivals(d) >= Total + 1
    BY <1>6, <1>7, <1>16, <1>18, <1>20
  <2>2. barrier_phase[d] \in 0 .. Total /\ (pc[d] \in Barriers => barrier_phase[d] < Total)
    BY <1>0, PhaseBounds
  <2>3. waiting[d] => pc[d] \in Barriers
    BY <1>0 DEF PlacedRight, PlacedAt
  <2>4. pc[d] \in Exited
    BY <1>18, <2>1, <2>2, <2>3 DEF Arrivals
  <2> QED BY <1>19, <2>4 DEF Exited
<1>21. ASSUME AllDone' PROVE LastToExit(c)
  <2>1. ASSUME NEW d \in Ctas PROVE Arrivals(d)' = Arrivals(c)'
    <3>1. CASE d = c
      BY <3>1
    <3>2. CASE d # c
      <4>1. pc[d] = "done"
        BY <1>1, <1>21, <3>2 DEF AllDone, Same
      <4>2. row[d] \notin Rows
        BY <1>0, <4>1 DEF PlacedRight, PlacedAt, Exited
      <4>3. barrier_phase[d] = Total
        BY <1>0, <4>2, PhaseBounds
      <4>4. Arrivals(d) = Total + 1
        BY <4>1, <4>3 DEF Arrivals, Exited
      <4> QED BY <1>6, <1>7, <1>18, <3>2, <4>4
    <3> QED BY <3>1, <3>2
  <2> QED BY <1>17, <2>1
<1>22. ResetRight'
  <2>1. Launched' = Launched /\ (Collects' <=> Collects)
    BY <1>1 DEF Launched, Collects
  <2>2. ASSUME NEW d \in Ctas, pc'[d] \in {"reset", "reset_counter"}
        PROVE  d = c /\ LastToExit(c) /\ pc'[d] = "reset"
    BY <1>1, <1>2, <1>19, <2>2 DEF Same
  <2>3. ASSUME LastToExit(c), NEW d \in Ctas \ {c} PROVE pc'[d] = "done"
    BY <1>1, <1>20, <2>3 DEF Same
  <2> QED BY <1>0, <1>1, <2>1, <2>2, <2>3 DEF ResetRight
<1>23. StateZeroed'
  <2>1. ~AllDone'
    <3>1. ASSUME AllDone' PROVE FALSE
      <4>1. pc'[c] = "reset"
        BY <1>1, <1>2, <1>21, <3>1
      <4> QED BY <3>1, <4>1 DEF AllDone
    <3> QED BY <3>1
  <2> QED BY <2>1 DEF StateZeroed
<1>24. PlacedRight' /\ PhasesRight'
  BY <1>0, <1>1, <1>5 DEF PlacedRight, PhasesRight
<1> QED BY <1>4, <1>9, <1>13, <1>22, <1>23, <1>24 DEF Control

LEMMA ResetStep ==
  ASSUME Control, NEW c \in Ctas, Reset(c) \/ ResetCounter(c)
  PROVE  Control'
<1>0. /\ TypeOK /\ PlacedRight /\ PhasesRight /\ Met /\ CounterRight /\ ResetRight
      /\ PlacedAt(c)
  BY DEF Control, PlacedRight
<1> DEFINE l == IF pc[c] = "reset" THEN "reset_counter" ELSE "done"
<1>1. /\ UNCHANGED <<program, launch, output, row, round, prefix, waiting, barrier_phase>>
      /\ pc' = [pc EXCEPT ![c] = l] /\ pc'[c] = l /\ pc[c] \in {"reset", "reset_counter"}
      /\ \A d \in Ctas \ {c} : Same(d)
  BY <1>0 DEF TypeOK, Reset, ResetCounter, Running, Goto, Same, local
<1>2. l \in {"reset_counter", "done"}
  OBVIOUS
<1>3. pc[c] \in Exited /\ pc'[c] \in Exited
  BY <1>1, <1>2 DEF Exited
<1>4. \A d \in Ctas \ {c} : pc[d] = "done" /\ pc'[d] = "done"
  BY <1>0, <1>1 DEF ResetRight, Same
<1>5. ~(Collects /\ Launched.deterministic) => det_scratch = NoScratch
  BY <1>0 DEF ResetRight
<1>6. \/ l = "reset_counter" /\ UNCHANGED arrival_counter
      \/ l = "done" /\ arrival_counter' = 0
  BY DEF Reset, ResetCounter, Running
<1>7. histogram' = [b \in 0 .. 2 |-> NoCounts] /\ det_scratch' = NoScratch
  <2>1. CASE Reset(c)
    BY <1>5, <2>1 DEF Reset
  <2>2. CASE ResetCounter(c)
    <3>1. pc[c] = "reset_counter" /\ UNCHANGED <<histogram, det_scratch>>
      BY <2>2 DEF ResetCounter, Running
    <3> QED BY <1>0, <3>1 DEF ResetRight, Clean
  <2> QED BY <2>1, <2>2
<1> HIDE DEF l
<1>8. TypeOK'
  <2>1. pc' \in [Ctas -> Barriers \cup Steps]
    BY <1>0, <1>1, <1>2 DEF TypeOK, Steps
  <2>2. histogram' \in [0 .. 2 -> [0 .. Radix - 1 -> Nat]]
    BY <1>7, NoCountsType
  <2>3. det_scratch' \in [Ctas -> [gt : 0 .. ChunkSize, eq : 0 .. ChunkSize]]
    BY <1>7, Sizes DEF NoScratch
  <2>4. UNCHANGED <<output_counter, sum_topk, remaining_k, todo>> /\ arrival_counter' \in Nat
    BY <1>0, <1>6 DEF TypeOK, Reset, ResetCounter, local
  <2> QED BY <1>0, <1>1, <2>1, <2>2, <2>3, <2>4 DEF TypeOK, Rows, Launched
<1>9. ASSUME NEW d \in Ctas
      PROVE  /\ PlacedAt(d)' /\ Arrivals(d)' = Arrivals(d)
             /\ BarriersBefore'[row'[d]] + PassedHere(d)' = BarriersBefore[row[d]] + PassedHere(d)
  <2>1. CASE d = c
    <3>1. PlacedAt(c)'
      <4>1. Rows' = Rows
        BY <1>1 DEF Rows, Launched
      <4> HIDE DEF Trivial, Launched, Rows, Collects
      <4> QED BY <1>0, <1>1, <1>2, <1>3, <4>1 DEF PlacedAt, Selecting, Exited, Barriers
    <3>2. PassedHere(c)' = 0 /\ PassedHere(c) = 0 /\ BarriersBefore' = BarriersBefore
      BY <1>1, <1>3, SameLaunch DEF PassedHere, Exited
    <3>3. Arrivals(c)' = Arrivals(c)
      BY <1>1, <1>3 DEF Arrivals
    <3> QED BY <1>1, <2>1, <3>1, <3>2, <3>3
  <2>2. CASE d # c
    BY <1>0, <1>1, <2>2, OthersSame DEF PlacedRight
  <2> QED BY <2>1, <2>2
<1>10. PlacedRight' /\ PhasesRight' /\ Met'
  BY <1>0, <1>1, <1>9 DEF PlacedRight, PhasesRight, Met
<1>11. CounterRight'
  <2>1. CASE l = "reset_counter"
    <3>1. \A m : {d \in Ctas : Arrivals(d)' = m} = {d \in Ctas : Arrivals(d) = m}
      BY <1>9
    <3>2. ~AllDone
      BY <1>1 DEF AllDone
    <3>3. PICK m \in 0 .. arrival_counter :
            /\ \A d \in Ctas : Arrivals(d) \in {m, m + 1}
            /\ arrival_counter = m * NumCtas + Cardinality({d \in Ctas : Arrivals(d) = m + 1})
      BY <1>0, <3>2 DEF CounterRight
    <3>4. /\ \A d \in Ctas : Arrivals(d)' \in {m, m + 1}
          /\ arrival_counter' = m * NumCtas + Cardinality({d \in Ctas : Arrivals(d)' = m + 1})
          /\ m \in 0 .. arrival_counter'
      BY <1>6, <1>9, <2>1, <3>1, <3>3
    <3> QED BY <3>4 DEF CounterRight
  <2>2. CASE l = "done"
    <3>1. AllDone'
      BY <1>1, <1>4, <2>2 DEF AllDone
    <3> QED BY <3>1 DEF CounterRight
  <2> QED BY <1>2, <2>1, <2>2
<1>12. ResetRight'
  <2>1. \A d \in Ctas : pc'[d] \in {"reset", "reset_counter"} => d = c
    BY <1>4
  <2>2. Clean'
    BY <1>7 DEF Clean, NoCounts, NoScratch
  <2> QED BY <1>4, <1>7, <2>1, <2>2 DEF ResetRight, Clean, NoScratch
<1>13. StateZeroed'
  <2>1. CASE l = "reset_counter"
    BY <1>1, <2>1 DEF StateZeroed, AllDone
  <2>2. CASE l = "done"
    BY <1>6, <1>7, <2>2 DEF StateZeroed, NoCounts, NoScratch
  <2> QED BY <1>2, <2>1, <2>2
<1> QED BY <1>8, <1>10, <1>11, <1>12, <1>13 DEF Control

-----------------------------------------------------------------------------
\* The next launch.
LEMMA LaunchFactsHold ==
  LaunchRight => /\ Len(Launched.rows) \in Nat /\ BarriersBefore[1] = 0
BY LaunchFacts, BarriersBeforeValues

LEMMA LaunchFactsNext ==
  (LaunchRight => /\ Len(Launched.rows) \in Nat /\ BarriersBefore[1] = 0)'
BY LaunchFactsHold, PTL

LEMMA NextLaunchStep ==
  ASSUME Control, NextLaunch
  PROVE  Control'
<1>0. /\ TypeOK /\ PlacedRight /\ ResetRight /\ StateZeroed
  BY DEF Control
<1>1. /\ program' = program /\ launch' = launch + 1 /\ AllDone /\ launch < Len(program)
      /\ UNCHANGED <<state, waiting, local>> /\ row' = [c \in Ctas |-> 1]
      /\ pc' = [c \in Ctas |-> "row"] /\ barrier_phase' = [c \in Ctas |-> 0]
  BY DEF NextLaunch
<1>2. LaunchRight'
  <2>1. program \in Programs /\ Len(program) \in Nat /\ DOMAIN program = 1 .. Len(program)
    BY <1>0, ProgramFacts DEF TypeOK
  <2>2. launch \in 1 .. Len(program)
    BY <1>0, <2>1 DEF TypeOK
  <2> QED BY <1>1, <2>1, <2>2 DEF LaunchRight
<1>3. (Len(Launched.rows) \in Nat)' /\ BarriersBefore'[1] = 0
  BY <1>2, LaunchFactsNext
<1>4. /\ histogram = [b \in 0 .. 2 |-> NoCounts] /\ det_scratch = NoScratch /\ arrival_counter = 0
  BY <1>0, <1>1 DEF StateZeroed
<1>5. \A c \in Ctas : pc'[c] = "row" /\ row'[c] = 1 /\ barrier_phase'[c] = 0 /\ ~waiting'[c]
  BY <1>0, <1>1 DEF PlacedRight, PlacedAt, AllDone, Barriers
<1>6. TypeOK'
  <2>1. DOMAIN output' = Rows'
    BY <1>1 DEF NextLaunch, Unwritten, Rows, Launched
  <2>2. row' \in [Ctas -> 1 .. Len(Launched'.rows) + 1]
    BY <1>1, <1>3
  <2>3. pc' \in [Ctas -> Barriers \cup Steps] /\ barrier_phase' \in [Ctas -> Nat]
    BY <1>1 DEF Steps
  <2> QED BY <1>0, <1>1, <1>2, <2>1, <2>2, <2>3 DEF TypeOK, LaunchRight, state, local
<1>7. PlacedRight'
  BY <1>5 DEF PlacedRight, PlacedAt, Exited, Selecting, Barriers
<1>8. \A c \in Ctas : PassedHere(c)' = 0 /\ Arrivals(c)' = 0
  BY <1>5 DEF PassedHere, Arrivals, Exited
<1>9. PhasesRight'
  BY <1>3, <1>5, <1>8 DEF PhasesRight
<1>10. Met'
  BY <1>5, <1>8 DEF Met
<1>11. CounterRight'
  <2>1. {c \in Ctas : Arrivals(c)' = 0 + 1} = {}
    BY <1>8
  <2>2. arrival_counter' = 0 /\ Cardinality({}) = 0 /\ 0 * NumCtas = 0
    BY <1>1, <1>4, FS_EmptySet, Sizes DEF state
  <2>3. /\ \A c \in Ctas : Arrivals(c)' \in {0, 0 + 1}
        /\ arrival_counter' = 0 * NumCtas + Cardinality({c \in Ctas : Arrivals(c)' = 0 + 1})
        /\ 0 \in 0 .. arrival_counter'
    BY <1>8, <2>1, <2>2
  <2> QED BY <2>3 DEF CounterRight
<1>12. ResetRight'
  BY <1>1, <1>4, <1>5 DEF ResetRight, state, NoScratch
<1>13. StateZeroed'
  BY <1>1, <1>4, <1>5, Sizes DEF StateZeroed, AllDone
<1> QED BY <1>6, <1>7, <1>9, <1>10, <1>11, <1>12, <1>13 DEF Control

LEMMA InvInit ==
  ASSUME Init
  PROVE  Control
<1>1. LaunchRight
  BY ProgramFacts DEF Init, LaunchRight
<1>2. Len(Launched.rows) \in Nat /\ BarriersBefore[1] = 0
  BY <1>1, LaunchFactsHold
<1>3. \A c \in Ctas : pc[c] = "row" /\ row[c] = 1 /\ barrier_phase[c] = 0 /\ ~waiting[c]
  BY DEF Init
<1>4. /\ histogram = [b \in 0 .. 2 |-> NoCounts] /\ det_scratch = NoScratch /\ arrival_counter = 0
  BY DEF Init
<1>5. TypeOK
  <2>1. histogram \in [0 .. 2 -> [0 .. Radix - 1 -> Nat]]
    BY <1>4, NoCountsType
  <2>2. det_scratch \in [Ctas -> [gt : 0 .. ChunkSize, eq : 0 .. ChunkSize]]
    BY <1>4, Sizes DEF NoScratch
  <2>3. DOMAIN output = Rows
    BY DEF Init, Unwritten, Rows, Launched
  <2>4. 0 \in Values /\ 0 \in 0 .. NumRounds
    BY Sizes, PowerFacts DEF Values
  <2> QED BY <1>1, <1>2, <2>1, <2>2, <2>3, <2>4 DEF Init, TypeOK, LaunchRight, Steps
<1>6. PlacedRight
  BY <1>3 DEF PlacedRight, PlacedAt, Exited, Selecting, Barriers
<1>7. \A c \in Ctas : PassedHere(c) = 0 /\ Arrivals(c) = 0
  BY <1>3 DEF PassedHere, Arrivals, Exited
<1>8. PhasesRight /\ Met
  BY <1>2, <1>3, <1>7 DEF PhasesRight, Met
<1>9. CounterRight
  <2>1. {c \in Ctas : Arrivals(c) = 0 + 1} = {}
    BY <1>7
  <2>2. Cardinality({}) = 0 /\ 0 * NumCtas = 0
    BY FS_EmptySet, Sizes
  <2>3. /\ \A c \in Ctas : Arrivals(c) \in {0, 0 + 1}
        /\ arrival_counter = 0 * NumCtas + Cardinality({c \in Ctas : Arrivals(c) = 0 + 1})
        /\ 0 \in 0 .. arrival_counter
    BY <1>4, <1>7, <2>1, <2>2
  <2> QED BY <2>3 DEF CounterRight
<1>10. ResetRight
  BY <1>3, <1>4 DEF ResetRight
<1>11. StateZeroed
  BY <1>4 DEF StateZeroed
<1> QED BY <1>5, <1>6, <1>8, <1>9, <1>10, <1>11 DEF Control

LEMMA StutterStep ==
  ASSUME Control, UNCHANGED vars
  PROVE  Control'
<1>1. /\ UNCHANGED <<program, launch, histogram, arrival_counter, output_counter, sum_topk,
                     det_scratch, output, row, pc, waiting, barrier_phase, round, prefix,
                     remaining_k, todo>>
  BY DEF vars, state, local
<1>2. TypeOK'
  BY <1>1 DEF Control, TypeOK, Rows, Launched
<1>3. /\ Launched' = Launched /\ (Collects' <=> Collects) /\ BarriersBefore' = BarriersBefore
  BY <1>1, SameLaunch
<1>4. ASSUME NEW d \in Ctas
      PROVE  /\ PlacedAt(d)' /\ PassedHere(d)' = PassedHere(d) /\ Arrivals(d)' = Arrivals(d)
  BY <1>1, OthersSame DEF Same, Control, PlacedRight
<1>5. PlacedRight' /\ PhasesRight' /\ Met'
  BY <1>1, <1>3, <1>4 DEF Control, PlacedRight, PhasesRight, Met
<1>6. CounterRight'
  <2>1. \A m : {d \in Ctas : Arrivals(d)' = m} = {d \in Ctas : Arrivals(d) = m}
    BY <1>4
  <2>2. AllDone' <=> AllDone
    BY <1>1 DEF AllDone
  <2> QED BY <1>1, <1>4, <2>1, <2>2 DEF Control, CounterRight
<1>7. ResetRight' /\ StateZeroed'
  BY <1>1, <1>3 DEF Control, ResetRight, Clean, StateZeroed, AllDone
<1> QED BY <1>2, <1>5, <1>6, <1>7 DEF Control

\* Together the parts of Control are inductive: the CTAs' places in the launch give
\* the barriers they have passed, and the arrival counter gives who has arrived.
THEOREM ControlHolds == Spec => []Control
<1>1. Init => Control
  BY InvInit
<1>2. Control /\ [Next]_vars => Control'
  <2> SUFFICES ASSUME Control, [Next]_vars PROVE Control'
    OBVIOUS
  <2>1. CASE NextLaunch
    BY <2>1, NextLaunchStep
  <2>2. ASSUME NEW c \in Ctas, Step(c) PROVE Control'
    <3>1. CASE Arrive(c)
      BY <3>1, ArriveStep
    <3>2. CASE Pass(c)
      BY <3>2, PassStep
    <3>3. CASE Between(c)
      BY <3>3, BetweenStep
    <3>4. CASE Exit(c)
      BY <3>4, ExitStep
    <3>5. CASE Reset(c) \/ ResetCounter(c)
      BY <3>5, ResetStep
    <3> QED BY <2>2, <3>1, <3>2, <3>3, <3>4, <3>5 DEF Step, Between
  <2>3. CASE UNCHANGED vars
    BY <2>3, StutterStep
  <2> QED BY <2>1, <2>2, <2>3 DEF Next
<1> QED BY <1>1, <1>2, PTL DEF Spec

-----------------------------------------------------------------------------
\* Sets of numbers and their sizes.

\* Division with remainder has one result.
LEMMA DivUnique ==
  ASSUME NEW v \in Nat, NEW d \in Nat \ {0}, NEW q \in Int, q * d <= v, v < (q + 1) * d
  PROVE  v \div d = q
<1> DEFINE p == v \div d
<1>1. p \in Int /\ p * d <= v /\ v < (p + 1) * d
  BY SMT
<1> HIDE DEF p
<1>2. ~(p < q)
  <2> SUFFICES ASSUME p < q PROVE FALSE
    OBVIOUS
  <2>1. (p + 1) * d <= q * d
    BY <1>1
  <2> QED BY <1>1, <2>1
<1>3. ~(q < p)
  <2> SUFFICES ASSUME q < p PROVE FALSE
    OBVIOUS
  <2>1. (q + 1) * d <= p * d
    BY <1>1
  <2> QED BY <1>1, <2>1
<1> QED BY <1>1, <1>2, <1>3 DEF p

LEMMA DivBounds ==
  ASSUME NEW v \in Nat, NEW d \in Nat \ {0}
  PROVE  v \div d \in Nat /\ (v \div d) * d <= v /\ v < (v \div d + 1) * d
BY SMT

LEMMA DivSmall ==
  ASSUME NEW v \in Nat, NEW d \in Nat \ {0}, v < d
  PROVE  v \div d = 0
<1> DEFINE q == v \div d
<1>1. q \in Nat /\ q * d <= v
  BY DivBounds
<1> HIDE DEF q
<1>2. ~(q >= 1)
  <2> SUFFICES ASSUME q >= 1 PROVE FALSE
    OBVIOUS
  <2>1. 1 * d <= q * d
    BY <1>1
  <2> QED BY <1>1, <2>1
<1> QED BY <1>1, <1>2 DEF q

LEMMA Remainder ==
  ASSUME NEW v \in Nat, NEW d \in Nat \ {0}
  PROVE  v % d \in 0 .. d - 1 /\ v = (v \div d) * d + (v % d)
<1>1. v % d \in 0 .. d - 1
  OBVIOUS
<1>2. v = d * (v \div d) + (v % d)
  OBVIOUS
<1> DEFINE q == v \div d
<1>3. q \in Nat
  BY DivBounds
<1>4. v = d * q + (v % d)
  BY <1>2
<1> HIDE DEF q
<1>5. v = q * d + (v % d)
  BY <1>1, <1>3, <1>4
<1> QED BY <1>1, <1>5 DEF q

LEMMA DivDiv ==
  ASSUME NEW v \in Nat, NEW d \in Nat \ {0}, NEW e \in Nat \ {0}
  PROVE  v \div (e * d) = (v \div d) \div e
<1> DEFINE x == v \div d
           y == x \div e
<1>1. x \in Nat /\ x * d <= v /\ v < (x + 1) * d
  BY DivBounds
<1> HIDE DEF x
<1>2. y \in Nat /\ y * e <= x /\ x < (y + 1) * e
  BY <1>1, DivBounds
<1> HIDE DEF y
<1>3. (y * e) * d <= x * d /\ (y * e) * d = y * (e * d)
  BY <1>1, <1>2
<1>4. x + 1 <= (y + 1) * e
  BY <1>1, <1>2
<1>5. (x + 1) * d <= ((y + 1) * e) * d /\ ((y + 1) * e) * d = (y + 1) * (e * d)
  <2> DEFINE z == (y + 1) * e
  <2>1. z \in Nat /\ x + 1 <= z
    BY <1>2, <1>4
  <2> HIDE DEF z
  <2>2. (x + 1) * d <= z * d
    BY <1>1, <2>1
  <2>3. ((y + 1) * e) * d = (y + 1) * (e * d)
    BY <1>2
  <2> QED BY <2>2, <2>3 DEF z
<1> DEFINE m == e * d
<1>6. m \in Nat \ {0}
  BY SMT
<1>7. y * m <= v /\ v < (y + 1) * m
  <2>1. y * m = y * (e * d) /\ (y + 1) * m = (y + 1) * (e * d)
    OBVIOUS
  <2>2. (x + 1) * d \in Int /\ x * d \in Int /\ y * m \in Int /\ (y + 1) * m \in Int
    BY <1>1, <1>2, <1>6
  <2> HIDE DEF m
  <2> QED BY <1>1, <1>3, <1>5, <2>1, <2>2
<1> HIDE DEF m
<1>8. v \div m = y
  BY <1>2, <1>6, <1>7, DivUnique
<1> QED BY <1>8 DEF m, y, x

\* The size of a union of disjoint sets.
LEMMA SizeUnion ==
  ASSUME NEW S, NEW T, IsFiniteSet(S), IsFiniteSet(T), S \cap T = {}
  PROVE  /\ IsFiniteSet(S \cup T) /\ Cardinality(S \cup T) = Cardinality(S) + Cardinality(T)
         /\ Cardinality(S) \in Nat /\ Cardinality(T) \in Nat
<1>1. Cardinality({}) = 0
  BY FS_EmptySet
<1>2. IsFiniteSet(S \cup T) /\ Cardinality(S \cup T) = Cardinality(S) + Cardinality(T) - Cardinality(S \cap T)
  BY FS_Union
<1>3. Cardinality(S) \in Nat /\ Cardinality(T) \in Nat
  BY FS_CardinalityType
<1>4. Cardinality(S \cap T) = 0
  BY <1>1
<1> QED BY <1>2, <1>3, <1>4

\* The sum over a union of disjoint sets.
LEMMA SumUnion ==
  ASSUME NEW f, NEW S, NEW T, IsFiniteSet(S), IsFiniteSet(T), S \cap T = {},
         \A x \in S \cup T : f[x] \in Int
  PROVE  SumFunctionOnSet(f, S \cup T) = SumFunctionOnSet(f, S) + SumFunctionOnSet(f, T)
<1> DEFINE U == {n \in Nat : \A s \in SUBSET S : Cardinality(s) <= n =>
                   SumFunctionOnSet(f, s \cup T) = SumFunctionOnSet(f, s) + SumFunctionOnSet(f, T)}
<1>0. \A s \in SUBSET S : IsFiniteSet(s) /\ Cardinality(s) \in Nat
  BY FS_Subset, FS_CardinalityType
<1>5. \A s \in SUBSET S : IsFiniteSet(s \cup T)
  BY <1>0, FS_Union
<1>1. SumFunctionOnSet(f, T) \in Int
  BY SumType
<1>2. 0 \in U
  <2> SUFFICES ASSUME NEW s \in SUBSET S, Cardinality(s) <= 0
               PROVE  SumFunctionOnSet(f, s \cup T) = SumFunctionOnSet(f, s) + SumFunctionOnSet(f, T)
    OBVIOUS
  <2>1. s = {}
    BY <1>0, FS_EmptySet
  <2>2. s \cup T = T
    BY <2>1
  <2> QED BY <1>1, <2>1, <2>2, SumEmpty
<1>3. ASSUME NEW n \in Nat, n \in U PROVE n + 1 \in U
  <2> SUFFICES ASSUME NEW s \in SUBSET S, Cardinality(s) <= n + 1, s # {}
               PROVE  SumFunctionOnSet(f, s \cup T) = SumFunctionOnSet(f, s) + SumFunctionOnSet(f, T)
    <3>1. {} \cup T = T
      OBVIOUS
    <3> QED BY <1>1, <3>1, SumEmpty
  <2>1. PICK x \in s : TRUE
    OBVIOUS
  <2> DEFINE u == s \ {x}
  <2>2. Cardinality(u) = Cardinality(s) - 1 /\ Cardinality(s) \in Nat
    BY <1>0, FS_RemoveElement
  <2>3. u \in SUBSET S /\ Cardinality(u) <= n
    BY <2>2
  <2>4. SumFunctionOnSet(f, u \cup T) = SumFunctionOnSet(f, u) + SumFunctionOnSet(f, T)
    BY <1>3, <2>3
  <2>5. SumFunctionOnSet(f, s) = f[x] + SumFunctionOnSet(f, u)
    <3>1. IsFiniteSet(s) /\ \A y \in s : f[y] \in Int
      BY <1>0
    <3> QED BY <3>1, SumRemove
  <2>6. SumFunctionOnSet(f, s \cup T) = f[x] + SumFunctionOnSet(f, u \cup T)
    <3>1. IsFiniteSet(s \cup T) /\ x \in s \cup T /\ \A y \in s \cup T : f[y] \in Int
      BY <1>5
    <3>2. (s \cup T) \ {x} = u \cup T
      OBVIOUS
    <3> HIDE DEF u
    <3> QED BY <3>1, <3>2, SumRemove
  <2>7. f[x] \in Int /\ SumFunctionOnSet(f, u) \in Int
    <3>1. IsFiniteSet(u) /\ \A y \in u : f[y] \in Int
      BY <1>0
    <3> HIDE DEF u
    <3> QED BY <3>1, SumType
  <2> HIDE DEF u
  <2> QED BY <1>1, <2>4, <2>5, <2>6, <2>7
<1>4. Cardinality(S) \in U
  <2> HIDE DEF U
  <2> QED BY <1>0, <1>2, <1>3, NatSetInduction
<1> QED BY <1>0, <1>4

-----------------------------------------------------------------------------
\* The digits of a value.
LEMMA UpperFacts ==
  ASSUME NEW v \in Values
  PROVE  /\ Upper(v, 0) = 0 /\ Upper(v, NumRounds) = v
         /\ \A n \in 0 .. NumRounds : Upper(v, n) \in Nat
         /\ \A n \in 0 .. NumRounds - 1 :
              /\ Digit(v, n) \in 0 .. Radix - 1
              /\ Upper(v, n + 1) = Upper(v, n) * Radix + Digit(v, n)
<1>0. /\ v \in Nat /\ v < Power[NumRounds] /\ NumRounds \in Nat /\ Radix \in Nat \ {0}
      /\ \A n \in Nat : Power[n] \in Nat \ {0}
  BY Sizes, PowerFacts DEF Values
<1>1. Upper(v, 0) = 0
  <2> DEFINE w == Power[NumRounds]
  <2>1. w \in Nat \ {0} /\ v < w
    BY <1>0
  <2> HIDE DEF w
  <2>2. v \div w = 0
    BY <1>0, <2>1, DivSmall
  <2>3. NumRounds - 0 = NumRounds
    BY <1>0
  <2> QED BY <2>2, <2>3 DEF Upper, w
<1>2. Upper(v, NumRounds) = v
  <2>1. NumRounds - NumRounds = 0 /\ Power[0] = 1 /\ v \div 1 = v
    BY <1>0, PowerValues
  <2> QED BY <2>1 DEF Upper
<1>3. ASSUME NEW n \in 0 .. NumRounds PROVE Upper(v, n) \in Nat
  <2>1. NumRounds - n \in Nat
    BY <1>0
  <2> QED BY <1>0, <2>1, DivBounds DEF Upper
<1>4. ASSUME NEW n \in 0 .. NumRounds - 1
      PROVE  Digit(v, n) \in 0 .. Radix - 1 /\ Upper(v, n + 1) = Upper(v, n) * Radix + Digit(v, n)
  <2> DEFINE d == Power[NumRounds - (n + 1)]
             u == Upper(v, n + 1)
  <2>1. NumRounds - (n + 1) \in Nat /\ NumRounds - n = (NumRounds - (n + 1)) + 1
    BY <1>0
  <2>2. Power[NumRounds - n] = Radix * d /\ d \in Nat \ {0}
    BY <1>0, <2>1, PowerValues
  <2> HIDE DEF d
  <2>3. u = v \div d
    BY DEF Upper, d
  <2>4. Upper(v, n) = u \div Radix
    BY <1>0, <2>2, <2>3, DivDiv DEF Upper
  <2>5. u \in Nat
    BY <1>0, <2>2, <2>3, DivBounds
  <2>6. Digit(v, n) = u % Radix
    BY DEF Digit
  <2> HIDE DEF u
  <2>7. u % Radix \in 0 .. Radix - 1 /\ u = (u \div Radix) * Radix + (u % Radix)
    BY <1>0, <2>5, Remainder
  <2>8. Upper(v, n + 1) = u
    BY DEF u
  <2>9. Digit(v, n) \in 0 .. Radix - 1
    BY <2>6, <2>7
  <2>10. Upper(v, n + 1) = Upper(v, n) * Radix + Digit(v, n)
    BY ONLY <2>4, <2>6, <2>7, <2>8
  <2> QED BY <2>9, <2>10
<1> QED BY <1>1, <1>2, <1>3, <1>4

\* Three buffers: neighbours differ.
LEMMA BufferFacts ==
  ASSUME NEW r \in Nat \ {0}, NEW n \in Nat
  PROVE  /\ Buffer(r + 1, 0) = Buffer(r, NumRounds)
         /\ Buffer(r, n + 1) # Buffer(r, n) /\ Buffer(r, n + 2) # Buffer(r, n)
<1> DEFINE x == (r - 1) * NumRounds
<1>1. NumRounds \in Nat
  BY Sizes
<1>2. x \in Nat
  <2>1. \A a, b \in Nat : a * b \in Nat
    OBVIOUS
  <2> QED BY <1>1, <2>1
<1>3. ((r + 1) - 1) * NumRounds = x + NumRounds
  BY <1>1
<1> HIDE DEF x
<1>4. (x + (n + 1)) % 3 # (x + n) % 3 /\ (x + (n + 2)) % 3 # (x + n) % 3
  BY <1>2
<1>5. ((r + 1) - 1) * NumRounds + 0 = x + NumRounds
  BY <1>1, <1>2, <1>3
<1> QED BY <1>4, <1>5 DEF Buffer, x

-----------------------------------------------------------------------------
\* The rows of a launch.
LEMMA RowFacts ==
  ASSUME LaunchRight, NEW r \in Rows
  PROVE  /\ r \in Nat \ {0} /\ K(r) \in Nat \ {0} /\ Length(r) \in Nat
         /\ IsFiniteSet(DOMAIN Data(r)) /\ DOMAIN Data(r) \in SUBSET Positions
         /\ DOMAIN Data(r) = 0 .. Length(r) - 1
         /\ \A i \in DOMAIN Data(r) : i \in Nat /\ Data(r)[i] \in Values /\ Data(r)[i] \in Nat
<1>1. /\ r \in Nat \ {0} /\ K(r) \in Nat \ {0} /\ DOMAIN Data(r) \in SUBSET Positions
      /\ \A i \in DOMAIN Data(r) : Data(r)[i] \in Values
  BY LaunchFacts
<1>2. IsFiniteSet(Positions)
  <2>1. NumCtas * ChunkSize \in Nat
    <3>1. \A a, b \in Nat : a * b \in Nat
      OBVIOUS
    <3> QED BY <3>1, Sizes
  <2> DEFINE m == NumCtas * ChunkSize - 1
  <2>2. m \in Int
    BY <2>1
  <2> HIDE DEF m
  <2>3. IsFiniteSet(0 .. m)
    BY <2>2, FS_Interval
  <2> QED BY <2>3 DEF m, Positions
<1>3. IsFiniteSet(DOMAIN Data(r)) /\ Length(r) \in Nat
  BY <1>1, <1>2, FS_Subset, FS_CardinalityType DEF Length
<1>4. DOMAIN Data(r) = 0 .. Length(r) - 1
  BY ParameterAssumption DEF LaunchRight, Launched, Rows, Data, Length
<1>5. \A i \in DOMAIN Data(r) : i \in Nat /\ Data(r)[i] \in Nat
  BY <1>1, <1>3, <1>4 DEF Values
<1> QED BY <1>1, <1>3, <1>4, <1>5

\* The elements of a row with some property.
LEMMA PartFacts ==
  ASSUME LaunchRight, NEW r \in Rows, NEW S, S \subseteq DOMAIN Data(r)
  PROVE  /\ IsFiniteSet(S) /\ Cardinality(S) \in Nat /\ Cardinality(S) <= Length(r)
         /\ \A T : T \subseteq S => /\ IsFiniteSet(T) /\ Cardinality(T) \in Nat
                                    /\ Cardinality(T) <= Cardinality(S)
<1>1. IsFiniteSet(S) /\ Cardinality(S) <= Length(r)
  BY RowFacts, FS_Subset DEF Length
<1>2. Cardinality(S) \in Nat
  BY <1>1, FS_CardinalityType
<1>3. \A T : T \subseteq S => IsFiniteSet(T) /\ Cardinality(T) <= Cardinality(S)
  BY <1>1, FS_Subset
<1>4. \A T : T \subseteq S => Cardinality(T) \in Nat
  BY <1>3, FS_CardinalityType
<1> QED BY <1>1, <1>2, <1>3, <1>4

\* The chunks of the CTAs share out a row, in the order of the CTAs.
LEMMA ChunksOrdered ==
  ASSUME LaunchRight, NEW r \in Rows, NEW c \in Ctas, NEW d \in Ctas, c < d,
         NEW i \in Chunk(c, r), NEW j \in Chunk(d, r)
  PROVE  i < (c + 1) * ChunkSize /\ (c + 1) * ChunkSize <= j /\ i < j
<1> DEFINE x == (c + 1) * ChunkSize
           y == d * ChunkSize
<1>1. x \in Int /\ y \in Int /\ x <= y
  <2>1. c + 1 \in Nat /\ d \in Nat /\ ChunkSize \in Nat /\ c + 1 <= d
    BY Sizes DEF Ctas
  <2>2. \A p, q, s \in Nat : p <= q => p * s <= q * s /\ p * s \in Int /\ q * s \in Int
    OBVIOUS
  <2> QED BY <2>1, <2>2
<1>2. i \in Int /\ i <= x - 1 /\ j \in Int /\ y <= j
  BY RowFacts DEF Chunk
<1> HIDE DEF x, y
<1>3. i < x /\ x <= j /\ i < j
  BY <1>1, <1>2
<1> QED BY <1>3 DEF x

LEMMA ChunksApart ==
  ASSUME LaunchRight, NEW r \in Rows, NEW c \in Ctas, NEW d \in Ctas, c # d
  PROVE  Chunk(c, r) \cap Chunk(d, r) = {}
<1>1. c \in Int /\ d \in Int
  BY DEF Ctas
<1> SUFFICES ASSUME NEW i \in Chunk(c, r), i \in Chunk(d, r) PROVE FALSE
  OBVIOUS
<1>2. i \in Nat
  BY RowFacts DEF Chunk
<1>3. CASE c < d
  BY <1>2, <1>3, ChunksOrdered
<1>4. CASE d < c
  BY <1>2, <1>4, ChunksOrdered
<1> QED BY <1>1, <1>3, <1>4

LEMMA OwnerExists ==
  ASSUME LaunchRight, NEW r \in Rows, NEW i \in DOMAIN Data(r)
  PROVE  \E c \in Ctas : i \in Chunk(c, r)
<1>1. i \in Nat /\ i < NumCtas * ChunkSize /\ NumCtas \in Nat /\ ChunkSize \in Nat \ {0}
  <2>1. NumCtas \in Nat /\ ChunkSize \in Nat \ {0}
    BY Sizes
  <2>2. NumCtas * ChunkSize \in Int
    BY <2>1
  <2>3. i \in 0 .. NumCtas * ChunkSize - 1
    BY RowFacts DEF Positions
  <2> HIDE DEF Positions
  <2> QED BY <2>1, <2>2, <2>3
<1> DEFINE c == i \div ChunkSize
<1>2. c \in Nat /\ c * ChunkSize <= i /\ i < (c + 1) * ChunkSize
  BY <1>1, DivBounds
<1> HIDE DEF c
<1>3. c < NumCtas
  <2> SUFFICES ASSUME NumCtas <= c PROVE FALSE
    BY <1>1, <1>2
  <2>1. NumCtas * ChunkSize <= c * ChunkSize /\ NumCtas * ChunkSize \in Int /\ c * ChunkSize \in Int
    BY <1>1, <1>2
  <2> QED BY <1>1, <1>2, <2>1
<1>4. c \in Ctas
  BY <1>1, <1>2, <1>3 DEF Ctas
<1>5. i \in Chunk(c, r)
  <2>1. c * ChunkSize \in Int /\ (c + 1) * ChunkSize \in Int
    BY <1>1, <1>2
  <2> QED BY <1>1, <1>2, <2>1 DEF Chunk
<1> QED BY <1>4, <1>5

LEMMA OwnedFacts ==
  ASSUME LaunchRight, NEW r \in Rows, NEW S \in SUBSET Ctas
  PROVE  /\ Owned(r, S) \subseteq DOMAIN Data(r) /\ Owned(r, {}) = {}
         /\ S = Ctas => Owned(r, S) = DOMAIN Data(r)
         /\ \A c \in S : Owned(r, S) \cap Chunk(c, r) = Chunk(c, r)
         /\ \A c \in Ctas \ S : /\ Owned(r, S \cup {c}) = Owned(r, S) \cup Chunk(c, r)
                                /\ Owned(r, S) \cap Chunk(c, r) = {}
<1>1. Owned(r, S) \subseteq DOMAIN Data(r) /\ Owned(r, {}) = {}
  BY DEF Owned
<1>2. S = Ctas => Owned(r, S) = DOMAIN Data(r)
  BY OwnerExists DEF Owned
<1>3. \A c \in S : Owned(r, S) \cap Chunk(c, r) = Chunk(c, r)
  BY DEF Owned, Chunk
<1>4. \A c \in Ctas \ S : Owned(r, S \cup {c}) = Owned(r, S) \cup Chunk(c, r)
  BY DEF Owned, Chunk
<1>5. ASSUME NEW c \in Ctas \ S PROVE Owned(r, S) \cap Chunk(c, r) = {}
  <2> SUFFICES ASSUME NEW i \in Owned(r, S), i \in Chunk(c, r) PROVE FALSE
    OBVIOUS
  <2>1. PICK d \in S : i \in Chunk(d, r)
    BY DEF Owned
  <2>2. Chunk(c, r) \cap Chunk(d, r) = {}
    BY ChunksApart
  <2> QED BY <2>1, <2>2
<1> QED BY <1>1, <1>2, <1>3, <1>4, <1>5

-----------------------------------------------------------------------------
\* The digits of the k-th largest element.
LEMMA MoreFacts ==
  ASSUME LaunchRight, NEW r \in Rows, NEW n \in 0 .. NumRounds, NEW p \in Nat
  PROVE  /\ MoreThan(r, n, p) \subseteq AtLeast(r, n, p) /\ AtLeast(r, n, p) \subseteq DOMAIN Data(r)
         /\ Cardinality(MoreThan(r, n, p)) \in Nat /\ Cardinality(AtLeast(r, n, p)) \in Nat
         /\ \A i \in DOMAIN Data(r) : Upper(Data(r)[i], n) \in Nat
<1>1. \A i \in DOMAIN Data(r) : Upper(Data(r)[i], n) \in Nat
  BY RowFacts, UpperFacts
<1>2. MoreThan(r, n, p) \subseteq AtLeast(r, n, p) /\ AtLeast(r, n, p) \subseteq DOMAIN Data(r)
  BY <1>1 DEF MoreThan, AtLeast
<1>3. MoreThan(r, n, p) \subseteq DOMAIN Data(r)
  BY <1>2
<1> QED BY <1>1, <1>2, <1>3, PartFacts

LEMMA FitsUnique ==
  ASSUME LaunchRight, NEW r \in Rows, NEW n \in 0 .. NumRounds, NEW p \in Nat, NEW q \in Nat,
         Fits(r, n, p), Fits(r, n, q)
  PROVE  p = q
<1>1. ASSUME NEW x \in Nat, NEW y \in Nat, Fits(r, n, x), Fits(r, n, y), x < y PROVE FALSE
  <2>1. \A i \in DOMAIN Data(r) : Upper(Data(r)[i], n) \in Nat
    BY MoreFacts
  <2>2. AtLeast(r, n, y) \subseteq MoreThan(r, n, x)
    BY <1>1, <2>1 DEF AtLeast, MoreThan
  <2>3. /\ MoreThan(r, n, x) \subseteq DOMAIN Data(r) /\ Cardinality(MoreThan(r, n, x)) \in Nat
        /\ Cardinality(AtLeast(r, n, y)) \in Nat
    BY MoreFacts
  <2>4. Cardinality(AtLeast(r, n, y)) <= Cardinality(MoreThan(r, n, x))
    BY <2>2, <2>3, PartFacts
  <2>5. K(r) \in Nat
    BY RowFacts
  <2> QED BY <1>1, <2>3, <2>4, <2>5 DEF Fits
<1> QED BY <1>1

LEMMA PrefixOfFits ==
  ASSUME LaunchRight, NEW r \in Rows, NEW n \in 0 .. NumRounds, NEW p \in Values, Fits(r, n, p)
  PROVE  PrefixOf(r, n) = p
<1>1. PrefixOf(r, n) \in Values /\ Fits(r, n, PrefixOf(r, n))
  BY DEF PrefixOf
<1>2. PrefixOf(r, n) \in Nat /\ p \in Nat
  BY <1>1 DEF Values
<1> QED BY <1>1, <1>2, FitsUnique

LEMMA FitsStart ==
  ASSUME LaunchRight, NEW r \in Rows, ~Trivial(r)
  PROVE  Fits(r, 0, 0) /\ Cardinality(MoreThan(r, 0, 0)) = 0
<1>1. \A i \in DOMAIN Data(r) : Upper(Data(r)[i], 0) = 0
  BY RowFacts, UpperFacts
<1>2. MoreThan(r, 0, 0) = {} /\ AtLeast(r, 0, 0) = DOMAIN Data(r)
  BY <1>1 DEF MoreThan, AtLeast
<1>3. Cardinality(MoreThan(r, 0, 0)) = 0
  BY <1>2, FS_EmptySet
<1>4. K(r) \in Nat \ {0} /\ Length(r) \in Nat /\ Length(r) = Cardinality(DOMAIN Data(r))
  BY RowFacts DEF Length
<1> QED BY <1>2, <1>3, <1>4 DEF Fits, Trivial

\* The counts of the buckets from a on count the elements that are in them.
LEMMA CountsFrom ==
  ASSUME NEW S, IsFiniteSet(S), NEW m \in Nat, NEW g, \A i \in S : g[i] \in 0 .. m - 1,
         NEW h, \A b \in 0 .. m - 1 : h[b] = Cardinality({ i \in S : g[i] = b }),
         NEW a \in 0 .. m
  PROVE  SumFunctionOnSet(h, a .. m - 1) = Cardinality({ i \in S : g[i] >= a })
<1> DEFINE From(x) == { i \in S : g[i] >= x }
           T == { n \in Nat : n <= m => SumFunctionOnSet(h, (m - n) .. m - 1) = Cardinality(From(m - n)) }
<1>0. /\ \A x : IsFiniteSet(From(x)) /\ Cardinality(From(x)) \in Nat
      /\ \A x : IsFiniteSet({ i \in S : g[i] = x }) /\ Cardinality({ i \in S : g[i] = x }) \in Nat
  <2>1. \A s \in SUBSET S : IsFiniteSet(s) /\ Cardinality(s) \in Nat
    BY FS_Subset, FS_CardinalityType
  <2>2. \A x : From(x) \in SUBSET S /\ { i \in S : g[i] = x } \in SUBSET S
    OBVIOUS
  <2> HIDE DEF From
  <2> QED BY <2>1, <2>2
<1>1. 0 \in T
  <2>1. (m - 0) .. m - 1 = {} /\ From(m - 0) = {}
    OBVIOUS
  <2>2. SumFunctionOnSet(h, {}) = 0 /\ Cardinality({}) = 0
    BY SumEmpty, FS_EmptySet
  <2> QED BY <2>1, <2>2
<1>2. ASSUME NEW n \in Nat, n \in T PROVE n + 1 \in T
  <2> SUFFICES ASSUME n + 1 <= m
               PROVE  SumFunctionOnSet(h, (m - (n + 1)) .. m - 1) = Cardinality(From(m - (n + 1)))
    OBVIOUS
  <2> DEFINE b == m - (n + 1)
  <2>1. b \in 0 .. m - 1 /\ m - n = b + 1
    OBVIOUS
  <2>2. SumFunctionOnSet(h, (b + 1) .. m - 1) = Cardinality(From(b + 1))
    <3>1. SumFunctionOnSet(h, (m - n) .. m - 1) = Cardinality(From(m - n))
      BY <1>2
    <3> HIDE DEF b, From
    <3> QED BY <2>1, <3>1
  <2> HIDE DEF b
  <2>3. (b .. m - 1) \ {b} = (b + 1) .. m - 1 /\ b \in b .. m - 1 /\ IsFiniteSet(b .. m - 1)
    <3>1. IsFiniteSet(b .. m - 1)
      <4>1. b \in Int /\ m - 1 \in Int
        BY <2>1
      <4> QED BY <4>1, FS_Interval
    <3> QED BY <2>1, <3>1
  <2>4. \A x \in b .. m - 1 : h[x] \in Int
    <3> SUFFICES ASSUME NEW x \in b .. m - 1 PROVE h[x] \in Int
      OBVIOUS
    <3>1. h[x] = Cardinality({ i \in S : g[i] = x })
      BY <2>1
    <3>2. Cardinality({ i \in S : g[i] = x }) \in Nat
      BY <1>0
    <3> QED BY <3>1, <3>2
  <2>5. SumFunctionOnSet(h, b .. m - 1) = h[b] + SumFunctionOnSet(h, (b + 1) .. m - 1)
    BY <2>3, <2>4, SumRemove
  <2>6. /\ From(b) = From(b + 1) \cup { i \in S : g[i] = b }
        /\ From(b + 1) \cap { i \in S : g[i] = b } = {}
    BY <2>1
  <2>7. /\ IsFiniteSet(From(b + 1)) /\ IsFiniteSet({ i \in S : g[i] = b })
        /\ Cardinality(From(b + 1)) \in Nat /\ Cardinality({ i \in S : g[i] = b }) \in Nat
        /\ h[b] = Cardinality({ i \in S : g[i] = b })
    BY <1>0, <2>1
  <2> DEFINE A == From(b + 1)
             B == { i \in S : g[i] = b }
  <2> HIDE DEF From
  <2>8. Cardinality(From(b)) = Cardinality(A) + Cardinality(B)
    <3> HIDE DEF A, B
    <3>1. From(b) = A \cup B /\ A \cap B = {} /\ IsFiniteSet(A) /\ IsFiniteSet(B)
      BY <2>6, <2>7 DEF A, B
    <3> QED BY <3>1, SizeUnion
  <2>9. SumFunctionOnSet(h, b .. m - 1) = Cardinality(From(b))
    BY <2>2, <2>5, <2>7, <2>8
  <2> QED BY <2>9 DEF b
<1>3. Nat \subseteq T
  <2> HIDE DEF T
  <2> QED BY <1>1, <1>2, NatSetInduction
<1>4. m - a \in Nat /\ m - (m - a) = a /\ m - a <= m
  OBVIOUS
<1>5. SumFunctionOnSet(h, (m - (m - a)) .. m - 1) = Cardinality(From(m - (m - a)))
  <2> HIDE DEF From
  <2>1. m - a \in T
    <3> HIDE DEF T
    <3> QED BY <1>3, <1>4
  <2> QED BY <1>4, <2>1
<1> QED BY <1>4, <1>5

\* Values are ordered by their first digits and then by the next.
LEMMA DigitOrder ==
  ASSUME NEW m \in Nat \ {0}, NEW u \in Nat, NEW p \in Nat, NEW d \in 0 .. m - 1, NEW b \in 0 .. m - 1
  PROVE  /\ u * m + d >= p * m + b <=> u > p \/ (u = p /\ d >= b)
         /\ u * m + d > p * m + b <=> u > p \/ (u = p /\ d > b)
<1>0. u * m \in Nat /\ p * m \in Nat
  BY SMT
<1>1. CASE u = p
  BY <1>0, <1>1
<1>2. CASE u > p
  <2>1. (p + 1) * m <= u * m /\ (p + 1) * m = p * m + m
    BY <1>2
  <2>2. u * m + d > p * m + b
    BY <1>0, <2>1
  <2> QED BY <1>0, <1>2, <2>2
<1>3. CASE u < p
  <2>1. (u + 1) * m <= p * m /\ (u + 1) * m = u * m + m
    BY <1>3
  <2>2. u * m + d < p * m + b
    BY <1>0, <2>1
  <2> QED BY <1>0, <1>3, <2>2
<1> QED BY <1>1, <1>2, <1>3

\* The elements that agree with the pivot in the first n digits, and of those the ones
\* whose next digit is b or more.
Alike(r, n, p) == { i \in DOMAIN Data(r) : Upper(Data(r)[i], n) = p }
AlikeFrom(r, n, p, b) == { i \in Alike(r, n, p) : Digit(Data(r)[i], n) >= b }

LEMMA AlikeFacts ==
  ASSUME LaunchRight, NEW r \in Rows, NEW n \in 0 .. NumRounds - 1, NEW p \in Nat
  PROVE  /\ \A b \in 0 .. Radix : Cardinality(AlikeFrom(r, n, p, b)) \in Nat
         /\ Cardinality(AlikeFrom(r, n, p, Radix)) = 0
         /\ Cardinality(AtLeast(r, n, p)) = Cardinality(MoreThan(r, n, p)) + Cardinality(AlikeFrom(r, n, p, 0))
         /\ \A b \in 0 .. Radix - 1 :
              /\ Cardinality(AtLeast(r, n + 1, p * Radix + b)) =
                   Cardinality(MoreThan(r, n, p)) + Cardinality(AlikeFrom(r, n, p, b))
              /\ Cardinality(MoreThan(r, n + 1, p * Radix + b)) =
                   Cardinality(MoreThan(r, n, p)) + Cardinality(AlikeFrom(r, n, p, b + 1))
<1>0. Radix \in Nat \ {0} /\ NumRounds \in Nat
  BY Sizes
<1>1. ASSUME NEW i \in DOMAIN Data(r)
      PROVE  /\ Upper(Data(r)[i], n) \in Nat /\ Digit(Data(r)[i], n) \in 0 .. Radix - 1
             /\ Upper(Data(r)[i], n + 1) = Upper(Data(r)[i], n) * Radix + Digit(Data(r)[i], n)
  <2>1. Data(r)[i] \in Values /\ n \in 0 .. NumRounds
    BY <1>0, RowFacts
  <2> QED BY <2>1, UpperFacts
<1>2. \A b : AlikeFrom(r, n, p, b) \subseteq DOMAIN Data(r)
  BY DEF AlikeFrom, Alike
<1>3. MoreThan(r, n, p) \subseteq DOMAIN Data(r)
  BY DEF MoreThan
<1>4. ASSUME NEW b PROVE Cardinality(AlikeFrom(r, n, p, b)) \in Nat /\ IsFiniteSet(AlikeFrom(r, n, p, b))
  BY <1>2, PartFacts
<1>5. ASSUME NEW b
      PROVE  Cardinality(MoreThan(r, n, p) \cup AlikeFrom(r, n, p, b)) =
               Cardinality(MoreThan(r, n, p)) + Cardinality(AlikeFrom(r, n, p, b))
  <2>1. MoreThan(r, n, p) \cap AlikeFrom(r, n, p, b) = {}
    BY <1>1 DEF MoreThan, AlikeFrom, Alike
  <2>2. IsFiniteSet(MoreThan(r, n, p))
    BY <1>3, PartFacts
  <2> QED BY <1>4, <2>1, <2>2, SizeUnion
<1>6. AlikeFrom(r, n, p, Radix) = {}
  BY <1>0, <1>1 DEF AlikeFrom, Alike
<1>7. AtLeast(r, n, p) = MoreThan(r, n, p) \cup AlikeFrom(r, n, p, 0)
  BY <1>0, <1>1 DEF AtLeast, MoreThan, AlikeFrom, Alike
<1>8. ASSUME NEW b \in 0 .. Radix - 1
      PROVE  /\ AtLeast(r, n + 1, p * Radix + b) = MoreThan(r, n, p) \cup AlikeFrom(r, n, p, b)
             /\ MoreThan(r, n + 1, p * Radix + b) = MoreThan(r, n, p) \cup AlikeFrom(r, n, p, b + 1)
  <2>1. ASSUME NEW i \in DOMAIN Data(r)
        PROVE  /\ Upper(Data(r)[i], n + 1) >= p * Radix + b
                    <=> Upper(Data(r)[i], n) > p \/ (Upper(Data(r)[i], n) = p /\ Digit(Data(r)[i], n) >= b)
               /\ Upper(Data(r)[i], n + 1) > p * Radix + b
                    <=> Upper(Data(r)[i], n) > p \/ (Upper(Data(r)[i], n) = p /\ Digit(Data(r)[i], n) >= b + 1)
    <3> DEFINE u == Upper(Data(r)[i], n)
               d == Digit(Data(r)[i], n)
    <3>1. u \in Nat /\ d \in 0 .. Radix - 1
      BY <1>1
    <3>2. Upper(Data(r)[i], n + 1) = u * Radix + d
      BY <1>1
    <3> HIDE DEF u, d
    <3>3. /\ u * Radix + d >= p * Radix + b <=> u > p \/ (u = p /\ d >= b)
          /\ u * Radix + d > p * Radix + b <=> u > p \/ (u = p /\ d > b)
      BY <1>0, <3>1, DigitOrder
    <3>4. d > b <=> d >= b + 1
      BY <1>0, <3>1
    <3>5. /\ Upper(Data(r)[i], n + 1) >= p * Radix + b <=> u > p \/ (u = p /\ d >= b)
          /\ Upper(Data(r)[i], n + 1) > p * Radix + b <=> u > p \/ (u = p /\ d >= b + 1)
      BY <3>2, <3>3, <3>4
    <3> QED BY <3>5 DEF u, d
  <2> QED BY <2>1 DEF AtLeast, MoreThan, AlikeFrom, Alike
<1>9. Cardinality({}) = 0
  BY FS_EmptySet
<1>10. \A b \in 0 .. Radix : Cardinality(AlikeFrom(r, n, p, b)) \in Nat
  BY <1>4
<1>11. ASSUME NEW b \in 0 .. Radix - 1
       PROVE  /\ Cardinality(AtLeast(r, n + 1, p * Radix + b)) =
                   Cardinality(MoreThan(r, n, p)) + Cardinality(AlikeFrom(r, n, p, b))
              /\ Cardinality(MoreThan(r, n + 1, p * Radix + b)) =
                   Cardinality(MoreThan(r, n, p)) + Cardinality(AlikeFrom(r, n, p, b + 1))
  BY <1>5, <1>8
<1>12. Cardinality(AtLeast(r, n, p)) = Cardinality(MoreThan(r, n, p)) + Cardinality(AlikeFrom(r, n, p, 0))
  BY <1>5, <1>7
<1> QED BY <1>6, <1>9, <1>10, <1>11, <1>12

\* What a CTA reads when all have added their counts.
LEMMA AllCountsFrom ==
  ASSUME LaunchRight, NEW r \in Rows, NEW n \in 0 .. NumRounds - 1, NEW p \in Nat, PrefixOf(r, n) = p,
         NEW b \in 0 .. Radix
  PROVE  SumFunctionOnSet(Counts(r, n, Ctas), b .. Radix - 1) = Cardinality(AlikeFrom(r, n, p, b))
<1> DEFINE S == Alike(r, n, p)
           g == [i \in S |-> Digit(Data(r)[i], n)]
           h == Counts(r, n, Ctas)
<1>1. S \subseteq DOMAIN Data(r) /\ IsFiniteSet(S) /\ Radix \in Nat
  BY PartFacts, Sizes DEF Alike
<1>2. \A i \in S : g[i] \in 0 .. Radix - 1
  <2> SUFFICES ASSUME NEW i \in S PROVE Digit(Data(r)[i], n) \in 0 .. Radix - 1
    OBVIOUS
  <2>1. Data(r)[i] \in Values
    BY <1>1, RowFacts
  <2> QED BY <2>1, UpperFacts
<1>3. \A x \in 0 .. Radix - 1 : h[x] = Cardinality({ i \in S : g[i] = x })
  <2> SUFFICES ASSUME NEW x \in 0 .. Radix - 1 PROVE h[x] = Cardinality({ i \in S : g[i] = x })
    OBVIOUS
  <2>1. Owned(r, Ctas) = DOMAIN Data(r)
    BY OwnedFacts
  <2>2. { i \in Owned(r, Ctas) : Upper(Data(r)[i], n) = PrefixOf(r, n) /\ Digit(Data(r)[i], n) = x }
          = { i \in S : g[i] = x }
    BY <2>1 DEF Alike
  <2>3. h[x] = Cardinality({ i \in Owned(r, Ctas) : Upper(Data(r)[i], n) = PrefixOf(r, n)
                                                     /\ Digit(Data(r)[i], n) = x })
    BY DEF Counts
  <2> QED BY <2>2, <2>3
<1>4. { i \in S : g[i] >= b } = AlikeFrom(r, n, p, b)
  BY DEF AlikeFrom
<1> HIDE DEF S, g, h
<1>5. SumFunctionOnSet(h, b .. Radix - 1) = Cardinality({ i \in S : g[i] >= b })
  BY <1>1, <1>2, <1>3, CountsFrom
<1> QED BY <1>4, <1>5 DEF h

\* One bucket holds the k-th largest element, and its number is the pivot's next digit.
CountFrom(counts, b) == SumFunctionOnSet(counts, b .. Radix - 1)
Found(counts, k) == { b \in 0 .. Radix - 1 : CountFrom(counts, b) >= k /\ CountFrom(counts, b + 1) < k }

LEMMA NextDigit ==
  ASSUME LaunchRight, NEW r \in Rows, NEW n \in 0 .. NumRounds - 1, NEW p \in Values, Fits(r, n, p),
         NEW k \in Nat, k + Cardinality(MoreThan(r, n, p)) = K(r),
         NEW counts, counts = Counts(r, n, Ctas)
  PROVE  /\ Found(counts, k) # {}
         /\ \A b \in Found(counts, k) :
              /\ Fits(r, n + 1, p * Radix + b)
              /\ k - CountFrom(counts, b + 1) + Cardinality(MoreThan(r, n + 1, p * Radix + b)) = K(r)
              /\ k - CountFrom(counts, b + 1) \in Nat
<1>0. /\ Radix \in Nat \ {0, 1} /\ NumRounds \in Nat /\ p \in Nat /\ n \in 0 .. NumRounds
      /\ K(r) \in Nat
  BY Sizes, RowFacts DEF Values
<1>1. PrefixOf(r, n) = p
  BY <1>0, PrefixOfFits
<1> DEFINE C(b) == CountFrom(counts, b)
           F(b) == Cardinality(AlikeFrom(r, n, p, b))
           M == Cardinality(MoreThan(r, n, p))
<1>2. \A b \in 0 .. Radix : C(b) = F(b)
  BY <1>0, <1>1, AllCountsFrom DEF CountFrom
<1>3. /\ \A b \in 0 .. Radix : F(b) \in Nat
      /\ F(Radix) = 0
      /\ Cardinality(AtLeast(r, n, p)) = M + F(0)
      /\ \A b \in 0 .. Radix - 1 :
           /\ Cardinality(AtLeast(r, n + 1, p * Radix + b)) = M + F(b)
           /\ Cardinality(MoreThan(r, n + 1, p * Radix + b)) = M + F(b + 1)
  BY <1>0, AlikeFacts
<1>4. M \in Nat /\ M < K(r) /\ K(r) <= M + F(0)
  BY <1>0, <1>3, MoreFacts DEF Fits
<1>5. k + M = K(r)
  OBVIOUS
<1>9. Found(counts, k) = { b \in 0 .. Radix - 1 : C(b) >= k /\ C(b + 1) < k }
  BY DEF Found
<1> HIDE DEF C, F, M
<1>6. F(0) >= k /\ F(Radix) < k
  BY <1>0, <1>3, <1>4, <1>5
<1>7. \E b \in 0 .. Radix - 1 : F(b) >= k /\ F(b + 1) < k
  <2> DEFINE T == { b \in 0 .. Radix : F(b) < k }
  <2>1. T \subseteq Nat /\ T # {}
    BY <1>0, <1>6
  <2>2. PICK b \in T : \A x \in T : b <= x
    BY <2>1, LeastNumber
  <2>3. b \in 0 .. Radix /\ F(b) < k
    BY <2>2
  <2>4. b # 0
    BY <1>0, <1>3, <1>6, <2>3
  <2>5. b - 1 \in 0 .. Radix - 1 /\ b - 1 \in 0 .. Radix /\ (b - 1) + 1 = b
    BY <1>0, <2>3, <2>4
  <2>6. ~(F(b - 1) < k)
    BY <2>2, <2>5
  <2>7. F(b - 1) >= k
    BY <1>3, <2>5, <2>6
  <2> QED BY <2>3, <2>5, <2>7
<1>8. Found(counts, k) = { b \in 0 .. Radix - 1 : F(b) >= k /\ F(b + 1) < k }
  <2>1. \A b \in 0 .. Radix - 1 : C(b) = F(b) /\ C(b + 1) = F(b + 1)
    BY <1>0, <1>2
  <2> QED BY <1>9, <2>1
<1>10. ASSUME NEW b \in Found(counts, k)
       PROVE  /\ Fits(r, n + 1, p * Radix + b)
              /\ k - C(b + 1) + Cardinality(MoreThan(r, n + 1, p * Radix + b)) = K(r)
              /\ k - C(b + 1) \in Nat
  <2>1. b \in 0 .. Radix - 1 /\ F(b) >= k /\ F(b + 1) < k
    BY <1>8
  <2>2. /\ Cardinality(AtLeast(r, n + 1, p * Radix + b)) = M + F(b)
        /\ Cardinality(MoreThan(r, n + 1, p * Radix + b)) = M + F(b + 1)
        /\ C(b + 1) = F(b + 1) /\ F(b) \in Nat /\ F(b + 1) \in Nat
    BY <1>0, <1>2, <1>3, <2>1
  <2>3. M + F(b + 1) < K(r) /\ K(r) <= M + F(b) /\ k - F(b + 1) + (M + F(b + 1)) = K(r)
        /\ k - F(b + 1) \in Nat
    BY <1>0, <1>4, <1>5, <2>1, <2>2
  <2> QED BY <2>2, <2>3 DEF Fits
<1> QED BY <1>7, <1>8, <1>10 DEF C

\* With all digits the pivot is the k-th largest element.
LEMMA PivotFacts ==
  ASSUME LaunchRight, NEW r \in Rows, NEW p \in Nat, Fits(r, NumRounds, p)
  PROVE  /\ Leading(r) = { i \in DOMAIN Data(r) : Data(r)[i] >= p }
         /\ Larger(r) = { i \in DOMAIN Data(r) : Data(r)[i] > p }
         /\ Border(r) = { i \in DOMAIN Data(r) : Data(r)[i] = p }
         /\ Cardinality(Larger(r)) \in Nat /\ Cardinality(Larger(r)) < K(r)
         /\ Cardinality(Border(r)) \in Nat /\ K(r) <= Cardinality(Larger(r)) + Cardinality(Border(r))
<1>0. NumRounds \in 0 .. NumRounds /\ K(r) \in Nat
  BY Sizes, RowFacts
<1>1. ASSUME NEW i \in DOMAIN Data(r) PROVE Data(r)[i] \in Nat /\ Upper(Data(r)[i], NumRounds) = Data(r)[i]
  BY RowFacts, UpperFacts
<1> DEFINE D == DOMAIN Data(r)
           v == Data(r)
           A == { i \in D : v[i] >= p }
           M == { i \in D : v[i] > p }
<1>2. AtLeast(r, NumRounds, p) = A /\ MoreThan(r, NumRounds, p) = M
  BY <1>1 DEF AtLeast, MoreThan
<1>3. /\ Cardinality(M) \in Nat /\ Cardinality(A) \in Nat /\ Cardinality(M) < K(r)
      /\ K(r) <= Cardinality(A) /\ M \subseteq A /\ A \subseteq D
  BY <1>0, <1>2, MoreFacts DEF Fits
<1>4. Leading(r) = A
  <2>1. ASSUME NEW i \in D PROVE Cardinality({ j \in D : v[j] > v[i] }) < K(r) <=> v[i] >= p
    <3> DEFINE X == { j \in D : v[j] > v[i] }
    <3>1. X \subseteq D
      OBVIOUS
    <3>2. Cardinality(X) \in Nat
      <4> HIDE DEF X
      <4> QED BY <3>1, PartFacts
    <3>3. CASE v[i] >= p
      <4>1. X \subseteq M
        BY <1>1, <3>3
      <4>2. Cardinality(X) <= Cardinality(M)
        <5> HIDE DEF X
        <5> QED BY <1>3, <4>1, PartFacts
      <4>3. Cardinality(X) < K(r)
        <5> HIDE DEF X, M, A
        <5> QED BY <1>0, <1>3, <3>2, <4>2
      <4> QED BY <3>3, <4>3
    <3>4. CASE ~(v[i] >= p)
      <4>1. A \subseteq X
        BY <1>1, <3>4
      <4>2. Cardinality(A) <= Cardinality(X)
        <5> HIDE DEF X
        <5> QED BY <3>1, <4>1, PartFacts
      <4>3. ~(Cardinality(X) < K(r))
        <5> HIDE DEF X, A
        <5> QED BY <1>0, <1>3, <3>2, <4>2
      <4> QED BY <3>4, <4>3
    <3> QED BY <3>3, <3>4
  <2> QED BY <2>1 DEF Leading
<1>5. \E j \in D : v[j] = p
  <2>1. A # M
    <3> HIDE DEF A, M
    <3> QED BY <1>0, <1>3
  <2> QED BY <1>1, <2>1
<1>6. Larger(r) = M
  <2>1. ASSUME NEW i \in D PROVE (\E j \in A : v[i] > v[j]) <=> v[i] > p
    BY <1>1, <1>5
  <2> QED BY <1>4, <2>1 DEF Larger
<1>7. Border(r) = { i \in D : v[i] = p }
  BY <1>1, <1>4, <1>6 DEF Border
<1>8. Cardinality(A) = Cardinality(M) + Cardinality(Border(r)) /\ Cardinality(Border(r)) \in Nat
  <2>1. A = M \cup Border(r) /\ M \cap Border(r) = {} /\ Border(r) \subseteq D
    BY <1>1, <1>7
  <2>2. IsFiniteSet(M) /\ IsFiniteSet(Border(r))
    <3>1. M \subseteq D
      OBVIOUS
    <3> HIDE DEF M
    <3> QED BY <2>1, <3>1, PartFacts
  <2> HIDE DEF A, M
  <2> QED BY <2>1, <2>2, SizeUnion
<1>9. Cardinality(Larger(r)) < K(r) /\ K(r) <= Cardinality(Larger(r)) + Cardinality(Border(r))
  <2> HIDE DEF A, M
  <2> QED BY <1>3, <1>6, <1>8
<1> QED BY <1>3, <1>4, <1>6, <1>7, <1>8, <1>9

-----------------------------------------------------------------------------
\* How far the CTAs are apart: the barriers of its row that CTA c has arrived at.
Reached(c) == PassedHere(c) + IF waiting[c] THEN 1 ELSE 0

LEMMA Together ==
  ASSUME Control, NEW c \in Ctas, NEW d \in Ctas, row[c] \in Rows
  PROVE  /\ PassedHere(c) \in Nat /\ PassedHere(d) \in Nat /\ Reached(c) \in Nat
         /\ Reached(c) <= BarriersIn(row[c])
         /\ row[d] = row[c] => PassedHere(d) <= Reached(c)
         /\ row[d] > row[c] =>
              /\ Reached(c) = BarriersIn(row[c]) /\ PassedHere(d) = 0
              /\ \A r \in Rows : row[c] < r /\ r < row[d] => BarriersIn(r) = 0
<1>0. /\ TypeOK /\ PlacedAt(c) /\ PlacedAt(d) /\ LaunchRight
      /\ row[c] \in 1 .. Len(Launched.rows) + 1 /\ row[d] \in 1 .. Len(Launched.rows) + 1
      /\ waiting[c] \in BOOLEAN
  BY DEF Control, PlacedRight, TypeOK, LaunchRight
<1>1. Len(Launched.rows) \in Nat /\ Rows = 1 .. Len(Launched.rows)
  BY <1>0, LaunchFacts
<1>2. PassedHere(c) \in Nat /\ PassedHere(d) \in Nat /\ BarriersIn(row[c]) \in Nat
  BY <1>0, PassedBounds, BarriersType
<1>3. Reached(c) \in Nat /\ Reached(c) <= BarriersIn(row[c])
  <2>1. PassedHere(c) <= BarriersIn(row[c])
        /\ (pc[c] \in Barriers => PassedHere(c) < BarriersIn(row[c]))
    BY <1>0, PassedBounds
  <2>2. waiting[c] => pc[c] \in Barriers
    BY <1>0 DEF PlacedAt
  <2> QED BY <1>0, <1>2, <2>1, <2>2 DEF Reached
<1>4. barrier_phase[d] <= barrier_phase[c] + IF waiting[c] THEN 1 ELSE 0
  <2>1. pc[c] \notin Exited
    BY <1>0 DEF PlacedAt
  <2>2. Arrivals(c) = barrier_phase[c] + IF waiting[c] THEN 1 ELSE 0
    BY <2>1 DEF Arrivals
  <2> QED BY <2>2 DEF Control, Met
<1>5. /\ barrier_phase[c] = BarriersBefore[row[c]] + PassedHere(c)
      /\ barrier_phase[d] = BarriersBefore[row[d]] + PassedHere(d)
  BY DEF Control, PhasesRight
<1>6. BarriersBefore[row[c]] \in Nat /\ BarriersBefore[row[d]] \in Nat
  <2>1. row[c] \in Nat \ {0} /\ row[d] \in Nat \ {0}
    BY <1>0, <1>1
  <2> QED BY <1>0, <2>1, BarriersBeforeValues
<1>7. BarriersBefore[row[d]] + PassedHere(d) <= BarriersBefore[row[c]] + Reached(c)
  BY <1>0, <1>2, <1>4, <1>5, <1>6 DEF Reached
<1>8. row[d] = row[c] => PassedHere(d) <= Reached(c)
  BY <1>2, <1>3, <1>6, <1>7
<1>9. ASSUME row[d] > row[c]
      PROVE  /\ Reached(c) = BarriersIn(row[c]) /\ PassedHere(d) = 0
             /\ \A r \in Rows : row[c] < r /\ r < row[d] => BarriersIn(r) = 0
  <2>1. /\ row[c] \in Nat \ {0} /\ row[c] + 1 \in Nat \ {0} /\ row[d] \in Nat \ {0}
        /\ row[c] + 1 <= row[d]
    BY <1>0, <1>1, <1>9
  <2>2. /\ BarriersBefore[row[c] + 1] = BarriersBefore[row[c]] + BarriersIn(row[c])
        /\ BarriersBefore[row[c] + 1] <= BarriersBefore[row[d]]
    BY <1>0, <2>1, BarriersBeforeValues, BarriersMonotone
  <2>3. Reached(c) = BarriersIn(row[c]) /\ PassedHere(d) = 0
        /\ BarriersBefore[row[d]] = BarriersBefore[row[c] + 1]
    BY <1>2, <1>3, <1>6, <1>7, <2>2
  <2>4. ASSUME NEW r \in Rows, row[c] < r, r < row[d] PROVE BarriersIn(r) = 0
    <3>1. r \in Nat \ {0} /\ r + 1 \in Nat \ {0} /\ row[c] + 1 <= r /\ r + 1 <= row[d]
      BY <1>1, <2>1, <2>4
    <3>2. /\ BarriersBefore[row[c] + 1] <= BarriersBefore[r]
          /\ BarriersBefore[r + 1] <= BarriersBefore[row[d]]
          /\ BarriersBefore[r + 1] = BarriersBefore[r] + BarriersIn(r)
          /\ BarriersBefore[r] \in Nat /\ BarriersIn(r) \in Nat
      BY <1>0, <2>1, <3>1, BarriersBeforeValues, BarriersMonotone, BarriersType
    <3> QED BY <1>6, <2>3, <3>2
  <2> QED BY <2>3, <2>4
<1> QED BY <1>2, <1>3, <1>8, <1>9

-----------------------------------------------------------------------------
\* A step moves one CTA.
Hops(c) ==
  \/ pc'[c] = pc[c] /\ row'[c] = row[c] /\ round'[c] = round[c] /\ prefix'[c] = prefix[c]
  \/ /\ pc[c] \in Barriers /\ waiting[c] /\ pc'[c] = After(c)
     /\ row'[c] = row[c] /\ round'[c] = round[c] /\ prefix'[c] = prefix[c]
  \/ /\ row[c] \notin Rows /\ pc[c] \in {"row"} \cup Exited /\ pc'[c] \in Exited
     /\ row'[c] = row[c] /\ round'[c] = round[c] /\ prefix'[c] = prefix[c]
  \/ Between(c) /\ \E l, r, n, p : /\ Going(c, l, r, n, p) /\ pc'[c] = l /\ row'[c] = r
                                   /\ round'[c] = n /\ prefix'[c] = p

LEMMA StepHops ==
  ASSUME Control, NEW c \in Ctas, Step(c)
  PROVE  /\ UNCHANGED <<program, launch>> /\ Hops(c)
         /\ \A d \in Ctas \ {c} : /\ pc'[d] = pc[d] /\ row'[d] = row[d] /\ round'[d] = round[d]
                                  /\ prefix'[d] = prefix[d]
<1>0. TypeOK /\ PlacedAt(c)
  BY DEF Control, PlacedRight
<1>1. CASE Arrive(c)
  BY <1>0, <1>1 DEF Arrive, Hops, local
<1>2. CASE Pass(c)
  BY <1>0, <1>2 DEF Pass, Goto, Hops, TypeOK, PlacedAt, local
<1>3. CASE Between(c)
  <2>1. PICK l, r, n, p : Moving(c, l, r, n, p) /\ Going(c, l, r, n, p)
    BY <1>0, <1>3, BetweenMoves
  <2>2. pc'[c] = l /\ row'[c] = r /\ round'[c] = n /\ prefix'[c] = p
    BY <1>0, <2>1 DEF Moving, TypeOK
  <2>3. \A d \in Ctas \ {c} : /\ pc'[d] = pc[d] /\ row'[d] = row[d] /\ round'[d] = round[d]
                              /\ prefix'[d] = prefix[d]
    BY <1>0, <2>1 DEF Moving, TypeOK
  <2>4. UNCHANGED <<program, launch>>
    BY <2>1 DEF Moving
  <2> QED BY <1>3, <2>1, <2>2, <2>3, <2>4 DEF Hops
<1>4. CASE Exit(c)
  BY <1>0, <1>4 DEF Exit, Running, Goto, Hops, TypeOK, Exited, local
<1>5. CASE Reset(c) \/ ResetCounter(c)
  BY <1>0, <1>5 DEF Reset, ResetCounter, Running, Goto, Hops, TypeOK, PlacedAt, Exited, local
<1> QED BY <1>1, <1>2, <1>3, <1>4, <1>5 DEF Step, Between

\* What a step that stays in the launch leaves alone.
LEMMA SameRows ==
  ASSUME UNCHANGED <<program, launch>>, NEW r
  PROVE  /\ Launched' = Launched /\ Rows' = Rows /\ (Collects' <=> Collects)
         /\ Data(r)' = Data(r) /\ K(r)' = K(r) /\ Length(r)' = Length(r) /\ (Trivial(r)' <=> Trivial(r))
         /\ \A c : Chunk(c, r)' = Chunk(c, r)
         /\ \A S : Owned(r, S)' = Owned(r, S)
         /\ \A n, p : /\ MoreThan(r, n, p)' = MoreThan(r, n, p) /\ AtLeast(r, n, p)' = AtLeast(r, n, p)
                      /\ (Fits(r, n, p)' <=> Fits(r, n, p)) /\ PrefixOf(r, n)' = PrefixOf(r, n)
         /\ \A n, S : Counts(r, n, S)' = Counts(r, n, S)
         /\ Leading(r)' = Leading(r) /\ Larger(r)' = Larger(r) /\ Border(r)' = Border(r)
         /\ Cells(launch, r)' = Cells(launch, r)
<1>1. Launched' = Launched /\ Rows' = Rows /\ (Collects' <=> Collects)
  BY DEF Launched, Rows, Collects
<1>2. Data(r)' = Data(r) /\ K(r)' = K(r)
  BY <1>1 DEF Data, K
<1>3. Length(r)' = Length(r) /\ (Trivial(r)' <=> Trivial(r))
  BY <1>2 DEF Length, Trivial
<1>4. \A c : Chunk(c, r)' = Chunk(c, r)
  BY <1>2 DEF Chunk
<1>5. \A S : Owned(r, S)' = Owned(r, S)
  BY <1>2, <1>4 DEF Owned
<1>6. \A n, p : MoreThan(r, n, p)' = MoreThan(r, n, p) /\ AtLeast(r, n, p)' = AtLeast(r, n, p)
  BY <1>2 DEF MoreThan, AtLeast
<1>7. \A n, p : Fits(r, n, p)' <=> Fits(r, n, p)
  BY <1>2, <1>6 DEF Fits
<1>8. \A n : PrefixOf(r, n)' = PrefixOf(r, n)
  BY <1>7 DEF PrefixOf
<1>9. \A n, S : Counts(r, n, S)' = Counts(r, n, S)
  BY <1>2, <1>5, <1>8 DEF Counts
<1>10. Leading(r)' = Leading(r)
  BY <1>2 DEF Leading
<1>11. Larger(r)' = Larger(r) /\ Border(r)' = Border(r)
  BY <1>2, <1>10 DEF Larger, Border
<1>12. Cells(launch, r)' = Cells(launch, r)
  BY DEF Cells
<1> QED BY <1>1, <1>2, <1>3, <1>4, <1>5, <1>6, <1>7, <1>8, <1>9, <1>10, <1>11, <1>12

\* The barriers that a CTA has reached tell what it has done in its row.
LEMMA ReachedFacts ==
  ASSUME Control, NEW d \in Ctas, NEW s \in Rows, row[d] = s, ~Trivial(s), NEW m \in 0 .. NumRounds - 1
  PROVE  /\ PassedHere(d) \in Nat /\ Reached(d) \in Nat /\ PassedHere(d) <= Reached(d)
         /\ BarriersSelecting(s) = 1 + NumRounds /\ BarriersIn(s) \in Nat /\ BarriersIn(s) >= 1 + NumRounds
         /\ HasRead(d, s, m) => PassedHere(d) >= 2 + m
         /\ ~HasRead(d, s, m) => Reached(d) <= 2 + m
         /\ HasAdded(d, s, m) => PassedHere(d) >= 1 + m
         /\ Reached(d) >= 2 + m => HasAdded(d, s, m)
         /\ d = 0 => /\ HasCleared(s, m) => PassedHere(d) >= 1 + m
                     /\ Reached(d) >= 2 + m => HasCleared(s, m)
<1>0. /\ TypeOK /\ PlacedAt(d) /\ LaunchRight /\ pc[d] \in Barriers \cup Steps /\ round[d] \in 0 .. NumRounds
      /\ waiting[d] \in BOOLEAN /\ NumRounds \in Nat /\ s \in Nat
  <2>1. LaunchRight /\ TypeOK /\ PlacedRight
    BY DEF Control, TypeOK, LaunchRight
  <2>2. s \in Nat /\ NumRounds \in Nat
    BY <2>1, RowFacts, Sizes
  <2> QED BY <2>1, <2>2 DEF PlacedRight, TypeOK
<1>1. /\ BarriersSelecting(s) = 1 + NumRounds /\ BarriersIn(s) \in Nat /\ BarriersIn(s) >= 1 + NumRounds
  <2>1. BarriersSelecting(s) = 1 + NumRounds
    BY DEF BarriersSelecting
  <2> QED BY <1>0, <2>1, BarriersType
<1>2. ~(row[d] > s)
  BY <1>0
<1>3. /\ pc[d] \notin Exited \cup {"clear_for_next"}
      /\ waiting[d] => pc[d] \in Barriers
      /\ pc[d] \in Selecting => round[d] < NumRounds
      /\ pc[d] \in {"first", "clear_output"} => round[d] = 0
  BY <1>0 DEF PlacedAt
<1>4. CASE pc[d] = "row"
  <2>1. PassedHere(d) = 0 /\ Reached(d) = 0
    BY <1>3, <1>4 DEF PassedHere, Reached, Barriers
  <2>2. ~HasAdded(d, s, m) /\ ~HasRead(d, s, m) /\ (d = 0 => ~HasCleared(s, m))
    BY <1>2, <1>4 DEF HasAdded, HasRead, HasCleared, Past, Behind, Selecting
  <2> QED BY <1>0, <1>1, <2>1, <2>2
<1>5. CASE pc[d] \in Selecting
  <2>1. /\ PassedHere(d) \in Nat /\ Reached(d) \in Nat /\ PassedHere(d) <= Reached(d)
        /\ Reached(d) <= 2 + round[d]
        /\ round[d] > m => PassedHere(d) >= 2 + m
        /\ pc[d] \in {"add", "clear_next", "round", "read"} => PassedHere(d) >= 1 + round[d]
        /\ Reached(d) >= 2 + round[d] => pc[d] \in {"round", "read"}
    <3>0. round[d] \in Nat
      BY <1>0
    <3>1. CASE pc[d] \in {"first", "clear_output"}
      <4>1. PassedHere(d) \in {0, 1} /\ round[d] = 0 /\ Reached(d) <= 1 /\ PassedHere(d) <= Reached(d)
            /\ Reached(d) \in Nat
        BY <1>3, <3>1 DEF PassedHere, Reached, Barriers, Exited
      <4> QED BY <3>1, <4>1
    <3>2. CASE pc[d] \in {"add", "clear_next"}
      <4>1. PassedHere(d) = 1 + round[d] /\ Reached(d) = 1 + round[d]
        BY <1>3, <3>0, <3>2 DEF PassedHere, Reached, Barriers, Exited
      <4> QED BY <3>0, <3>2, <4>1
    <3>3. CASE pc[d] = "round"
      <4>1. PassedHere(d) = 1 + round[d] /\ Reached(d) = 1 + round[d] + IF waiting[d] THEN 1 ELSE 0
        BY <3>0, <3>3 DEF PassedHere, Reached, Exited
      <4> QED BY <3>0, <3>3, <4>1
    <3>4. CASE pc[d] = "read"
      <4>1. PassedHere(d) = 2 + round[d] /\ Reached(d) = 2 + round[d]
        BY <1>3, <3>0, <3>4 DEF PassedHere, Reached, Barriers, Exited
      <4> QED BY <3>0, <3>4, <4>1
    <3> QED BY <1>5, <3>1, <3>2, <3>3, <3>4 DEF Selecting
  <2>2. HasRead(d, s, m) <=> round[d] > m
    BY <1>2, <1>5 DEF HasRead, Past, Behind, Selecting
  <2>3. HasAdded(d, s, m) <=> round[d] > m \/ (round[d] = m /\ pc[d] \in {"clear_next", "round", "read"})
    BY <2>2 DEF HasAdded
  <2>4. d = 0 => (HasCleared(s, m) <=> round[d] > m \/ (round[d] = m /\ pc[d] \in {"round", "read"}))
    BY <2>2 DEF HasCleared
  <2> QED BY <1>0, <1>1, <2>1, <2>2, <2>3, <2>4
<1>6. CASE pc[d] \in Behind
  <2>1. /\ PassedHere(d) \in Nat /\ Reached(d) \in Nat /\ PassedHere(d) <= Reached(d)
        /\ PassedHere(d) >= 1 + NumRounds
    BY <1>0, <1>1, <1>3, <1>6 DEF PassedHere, Reached, Behind, Exited
  <2>2. HasRead(d, s, m)
    BY <1>6 DEF HasRead, Past
  <2>3. HasAdded(d, s, m) /\ (d = 0 => HasCleared(s, m))
    BY <2>2 DEF HasAdded, HasCleared
  <2> QED BY <1>0, <1>1, <2>1, <2>2, <2>3
<1>7. pc[d] \in {"row"} \cup Selecting \cup Behind
  BY <1>0, <1>3 DEF Barriers, Steps, Selecting, Behind, Exited
<1> QED BY <1>4, <1>5, <1>6, <1>7

\* How a step changes what the CTAs have done.
LEMMA MarksOfOther ==
  ASSUME NEW d, pc'[d] = pc[d], row'[d] = row[d], round'[d] = round[d], NEW r, NEW n
  PROVE  /\ HasRead(d, r, n)' <=> HasRead(d, r, n)
         /\ HasAdded(d, r, n)' <=> HasAdded(d, r, n)
         /\ d = 0 => (HasCleared(r, n)' <=> HasCleared(r, n))
<1>1. HasRead(d, r, n)' <=> HasRead(d, r, n)
  BY DEF HasRead, Past
<1> QED BY <1>1 DEF HasAdded, HasCleared

\* Where a CTA is determines its step.
LEMMA ActionAt ==
  ASSUME Control, NEW c \in Ctas, Step(c)
  PROVE  /\ pc[c] \notin Barriers \cup Exited /\ (pc[c] = "row" => row[c] \in Rows) => Between(c)
         /\ pc[c] = "row" /\ row[c] \in Rows => StartRow(c)
         /\ pc[c] = "clear_for_next" => ClearForNextRow(c)
         /\ pc[c] = "clear_output" => ClearOutputCounter(c)
         /\ pc[c] = "add" => Add(c)
         /\ pc[c] = "clear_next" => ClearNext(c)
         /\ pc[c] = "read" => ReadHistogram(c)
         /\ pc[c] = "mask" => Mask(c)
         /\ pc[c] = "zero_sum" => ZeroSum(c)
         /\ pc[c] = "add_sum" => AddSum(c)
         /\ pc[c] = "normalize" => Normalize(c)
         /\ pc[c] = "claim" => Claim(c)
         /\ pc[c] = "place" => Place(c) \/ AllPlaced(c)
         /\ pc[c] = "count" => Count(c)
         /\ pc[c] = "emit" => Emit(c)
         /\ pc[c] = "transform" => Transform(c)
         /\ pc[c] \in Barriers => Arrive(c) \/ Pass(c)
<1>1. waiting[c] => pc[c] \in Barriers
  BY DEF Control, PlacedRight, PlacedAt
<1>2. Arrive(c) \/ Pass(c) => pc[c] \in Barriers
  BY <1>1 DEF Arrive, Pass
<1>3. Exit(c) \/ Reset(c) \/ ResetCounter(c) =>
        pc[c] \in Exited \/ (pc[c] = "row" /\ row[c] \notin Rows)
  BY DEF Exit, Reset, ResetCounter, Running, Exited
<1>4. /\ StartRow(c) => pc[c] = "row"
      /\ ClearForNextRow(c) => pc[c] = "clear_for_next"
      /\ ClearOutputCounter(c) => pc[c] = "clear_output"
      /\ Add(c) => pc[c] = "add"
      /\ ClearNext(c) => pc[c] = "clear_next"
      /\ ReadHistogram(c) => pc[c] = "read"
      /\ Mask(c) => pc[c] = "mask"
      /\ ZeroSum(c) => pc[c] = "zero_sum"
      /\ AddSum(c) => pc[c] = "add_sum"
      /\ Normalize(c) => pc[c] = "normalize"
      /\ Claim(c) => pc[c] = "claim"
      /\ Place(c) \/ AllPlaced(c) => pc[c] = "place"
      /\ Count(c) => pc[c] = "count"
      /\ Emit(c) => pc[c] = "emit"
      /\ Transform(c) => pc[c] = "transform"
  BY DEF StartRow, ClearForNextRow, ClearOutputCounter, Add, ClearNext, ReadHistogram, Mask, ZeroSum,
     AddSum, Normalize, Claim, Place, AllPlaced, Count, Emit, Transform, Running
<1> USE DEF Step, Between
<1>5. pc[c] \notin Barriers \cup Exited /\ (pc[c] = "row" => row[c] \in Rows) => Between(c)
  BY <1>2, <1>3
<1>6. pc[c] = "row" /\ row[c] \in Rows => StartRow(c)
  BY <1>2, <1>3, <1>4 DEF Barriers, Exited
<1>7. pc[c] \in Barriers => Arrive(c) \/ Pass(c)
  BY <1>3, <1>4 DEF Barriers, Exited
<1>8. /\ pc[c] = "clear_for_next" => ClearForNextRow(c)
      /\ pc[c] = "clear_output" => ClearOutputCounter(c)
      /\ pc[c] = "add" => Add(c)
      /\ pc[c] = "clear_next" => ClearNext(c)
      /\ pc[c] = "read" => ReadHistogram(c)
      /\ pc[c] = "mask" => Mask(c)
      /\ pc[c] = "zero_sum" => ZeroSum(c)
  BY <1>4, <1>5 DEF Barriers, Exited
<1>9. /\ pc[c] = "add_sum" => AddSum(c)
      /\ pc[c] = "normalize" => Normalize(c)
      /\ pc[c] = "claim" => Claim(c)
      /\ pc[c] = "place" => Place(c) \/ AllPlaced(c)
      /\ pc[c] = "count" => Count(c)
      /\ pc[c] = "emit" => Emit(c)
      /\ pc[c] = "transform" => Transform(c)
  BY <1>4, <1>5 DEF Barriers, Exited
<1> QED BY <1>5, <1>6, <1>7, <1>8, <1>9

LEMMA Marks ==
  ASSUME Control, NEW c \in Ctas, Step(c), NEW d \in Ctas,
         NEW r \in Rows, ~Trivial(r), NEW n \in 0 .. NumRounds - 1
  PROVE  /\ HasRead(d, r, n) => HasRead(d, r, n)'
         /\ HasAdded(d, r, n)' <=> \/ HasAdded(d, r, n)
                                   \/ d = c /\ pc[c] = "add" /\ row[c] = r /\ round[c] = n
         /\ d = 0 => (HasCleared(r, n)' <=> \/ HasCleared(r, n)
                                            \/ c = 0 /\ pc[c] = "clear_next" /\ row[c] = r /\ round[c] = n)
<1>0. /\ TypeOK /\ PlacedAt(c) /\ LaunchRight /\ round[c] \in Nat /\ r \in Nat /\ row[c] \in Nat
      /\ Hops(c) /\ NumRounds \in Nat
  <2>1. TypeOK /\ PlacedAt(c) /\ LaunchRight
    BY DEF Control, PlacedRight, TypeOK, LaunchRight
  <2>2. Len(Launched.rows) \in Nat
    BY <2>1, LaunchFacts
  <2>3. round[c] \in Nat /\ row[c] \in Nat
    BY <2>1, <2>2 DEF TypeOK
  <2> QED BY <2>1, <2>3, StepHops, RowFacts, Sizes
<1>1. CASE d # c
  <2>1. pc'[d] = pc[d] /\ row'[d] = row[d] /\ round'[d] = round[d]
    BY <1>1, StepHops
  <2>2. d = 0 => c # 0
    BY <1>1
  <2> QED BY <1>1, <2>1, <2>2, MarksOfOther
<1>2. CASE d = c
  <2>1. CASE pc'[c] = pc[c] /\ row'[c] = row[c] /\ round'[c] = round[c] /\ pc[c] \notin {"add", "clear_next"}
    BY <1>2, <2>1, MarksOfOther
  <2>2. CASE pc[c] \in Barriers /\ pc'[c] = After(c) /\ row'[c] = row[c] /\ round'[c] = round[c]
    <3>1. CASE pc[c] = "first"
      <4>1. pc'[c] \in {"clear_output", "add"} /\ round[c] = 0
        BY <1>0, <2>2, <3>1 DEF After, PlacedAt
      <4> QED BY <1>0, <1>2, <2>2, <3>1, <4>1 DEF HasRead, HasAdded, HasCleared, Past, Behind, Selecting
    <3>2. CASE pc[c] = "round"
      <4>1. pc'[c] = "read"
        BY <2>2, <3>2 DEF After
      <4> QED BY <1>0, <1>2, <2>2, <3>2, <4>1 DEF HasRead, HasAdded, HasCleared, Past, Behind, Selecting
    <3>3. CASE pc[c] \in {"collect", "page", "sum_init", "sum_done"}
      <4>1. pc'[c] \in {"emit", "place", "transform", "add_sum", "normalize"}
        BY <2>2, <3>3 DEF After
      <4>2. pc[c] \in Behind /\ pc'[c] \in Behind
        BY <3>3, <4>1 DEF Behind
      <4>3. HasRead(c, r, n)' <=> HasRead(c, r, n)
        BY <2>2, <3>3, <4>1, <4>2 DEF HasRead, Past, Selecting
      <4> QED BY <1>2, <2>2, <3>3, <4>1, <4>3 DEF HasAdded, HasCleared
    <3> QED BY <2>2, <3>1, <3>2, <3>3 DEF Barriers
  <2>3. CASE row[c] \notin Rows /\ row'[c] = row[c] /\ pc[c] \in {"row"} \cup Exited
    <3>1. row[c] > r
      BY <1>0, <2>3, LaunchFacts DEF TypeOK
    <3> QED BY <1>2, <2>3, <3>1 DEF HasRead, HasAdded, HasCleared, Past, Exited
  <2>4. ASSUME NEW l, NEW y, NEW o, NEW p, Going(c, l, y, o, p), pc'[c] = l, row'[c] = y, round'[c] = o, Between(c)
        PROVE  /\ HasRead(c, r, n) => HasRead(c, r, n)'
               /\ HasAdded(c, r, n)' <=> \/ HasAdded(c, r, n)
                                         \/ pc[c] = "add" /\ row[c] = r /\ round[c] = n
               /\ c = 0 => (HasCleared(r, n)' <=> \/ HasCleared(r, n)
                                                  \/ pc[c] = "clear_next" /\ row[c] = r /\ round[c] = n)
    <3>1. CASE pc[c] = "row"
      <4>1. y = row[c] /\ o = 0 /\ (y = r => l = "first") /\ l \notin {"clear_next", "round", "read", "add"}
        BY <2>4, <3>1 DEF Going
      <4> QED BY <1>0, <2>4, <3>1, <4>1 DEF HasRead, HasAdded, HasCleared, Past, Behind, Selecting
    <3>2. CASE l = "row"
      <4>1. y = row[c] + 1 /\ pc[c] \in Behind /\ o = round[c]
            /\ pc[c] \notin {"clear_next", "round", "read", "add"}
        BY <2>4, <3>2 DEF Going, Behind, AfterSelection
      <4> QED BY <1>0, <2>4, <3>2, <4>1 DEF HasRead, HasAdded, HasCleared, Past, Behind, Selecting
    <3>3. CASE pc[c] = "read"
      <4>1. y = row[c] /\ o = round[c] + 1 /\ round[c] < NumRounds
            /\ (IF o < NumRounds THEN l = "add" ELSE l \in Behind)
        BY <1>0, <2>4, <3>3 DEF Going, Behind, AfterSelection, PlacedAt, Selecting
      <4>2. l \in Behind \cup {"add"} /\ "read" \notin Behind
        BY <4>1 DEF Behind
      <4>3. CASE o < NumRounds
        BY <1>0, <2>4, <3>3, <4>1, <4>3 DEF HasRead, HasAdded, HasCleared, Past, Behind, Selecting
      <4>4. CASE ~(o < NumRounds)
        <5>1. o = NumRounds /\ l \in Behind /\ n <= round[c]
          BY <1>0, <4>1, <4>4
        <5>2. /\ HasRead(c, r, n)' <=> y > r \/ y = r
              /\ HasRead(c, r, n) <=> row[c] > r \/ (row[c] = r /\ round[c] > n)
          BY <2>4, <3>3, <5>1 DEF HasRead, Past, Behind, Selecting
        <5>3. l \notin {"clear_next", "round", "read"}
          BY <5>1 DEF Behind
        <5> QED BY <1>0, <2>4, <3>3, <4>1, <5>1, <5>2, <5>3 DEF HasAdded, HasCleared
      <4> QED BY <4>3, <4>4
    <3>4. CASE pc[c] = "add"
      <4>1. y = row[c] /\ o = round[c] /\ l \in {"clear_next", "round"}
        BY <2>4, <3>4 DEF Going
      <4>2. c = 0 => l = "clear_next"
        <5>1. Add(c)
          BY <3>4, ActionAt
        <5> QED BY <1>0, <2>4, <5>1 DEF Add, Goto, TypeOK
      <4> QED BY <1>0, <2>4, <3>4, <4>1, <4>2 DEF HasRead, HasAdded, HasCleared, Past, Behind, Selecting
    <3>5. CASE pc[c] \notin {"row", "read", "add"} /\ l # "row"
      <4>1. /\ y = row[c] /\ o = round[c]
            /\ \/ pc[c] = "clear_output" /\ l = "add" /\ round[c] = 0
               \/ pc[c] = "clear_next" /\ l = "round"
               \/ pc[c] \in Behind /\ l \in Behind
        BY <1>0, <2>4, <3>5 DEF Going, Behind, PlacedAt
      <4>2. CASE pc[c] \in Behind /\ l \in Behind
        <5>1. pc[c] \notin Selecting /\ l \notin Selecting
          BY <4>2 DEF Behind, Selecting
        <5>2. HasRead(c, r, n)' <=> HasRead(c, r, n)
          BY <2>4, <4>1, <4>2, <5>1 DEF HasRead, Past
        <5> QED BY <2>4, <4>1, <5>1, <5>2 DEF HasAdded, HasCleared, Selecting
      <4>3. CASE ~(pc[c] \in Behind /\ l \in Behind)
        BY <1>0, <2>4, <4>1, <4>3 DEF HasRead, HasAdded, HasCleared, Past, Behind, Selecting
      <4> QED BY <4>2, <4>3
    <3> QED BY <3>1, <3>2, <3>3, <3>4, <3>5
  <2>5. CASE pc'[c] = pc[c] /\ row'[c] = row[c] /\ pc[c] \in {"add", "clear_next"}
    <3>1. FALSE
      <4>3. Add(c) \/ ClearNext(c)
        BY <2>5, ActionAt
      <4> QED BY <1>0, <2>5, <4>3 DEF Add, ClearNext, Running, Goto, TypeOK
    <3> QED BY <3>1
  <2> QED BY <1>0, <1>2, <2>1, <2>2, <2>3, <2>4, <2>5 DEF Hops
<1> QED BY <1>1, <1>2

\* Where the CTAs are in the launch.
LEMMA WhereFacts ==
  ASSUME Control, NEW c \in Ctas
  PROVE  /\ LaunchRight /\ TypeOK /\ PlacedAt(c) /\ Len(Launched.rows) \in Nat /\ Rows = 1 .. Len(Launched.rows)
         /\ row[c] \in Nat \ {0} /\ row[c] <= Len(Launched.rows) + 1 /\ round[c] \in Nat /\ round[c] <= NumRounds
         /\ NumRounds \in Nat \ {0} /\ 0 \in Ctas /\ pc[c] \in Barriers \cup Steps
<1>1. LaunchRight /\ TypeOK /\ PlacedAt(c)
  BY DEF Control, PlacedRight, TypeOK, LaunchRight
<1>2. Len(Launched.rows) \in Nat /\ Rows = 1 .. Len(Launched.rows)
  BY <1>1, LaunchFacts
<1>3. /\ row[c] \in 1 .. Len(Launched.rows) + 1 /\ round[c] \in 0 .. NumRounds
      /\ pc[c] \in Barriers \cup Steps
  BY <1>1 DEF TypeOK
<1>4. NumRounds \in Nat \ {0} /\ 0 \in Ctas
  BY Sizes
<1> QED BY <1>1, <1>2, <1>3, <1>4

\* A cleared histogram is one of the next round's or of the next row's.
LEMMA ReadyMarks ==
  ASSUME Control, NEW c \in Ctas, Step(c), NEW r \in Rows, ~Trivial(r), NEW n \in 0 .. NumRounds - 1,
         Ready(r, n)', ~Ready(r, n)
  PROVE  /\ c = 0
         /\ \/ pc[0] = "clear_next" /\ row[0] = r /\ n = round[0] + 1
            \/ pc[0] = "clear_next" /\ row[0] + 1 = r /\ n = 0 /\ round[0] = NumRounds - 1
            \/ pc[0] = "clear_for_next" /\ row[0] + 1 = r /\ n = 0
<1>0. /\ LaunchRight /\ TypeOK /\ PlacedAt(0) /\ Len(Launched.rows) \in Nat /\ Rows = 1 .. Len(Launched.rows)
      /\ row[0] \in Nat \ {0} /\ round[0] \in Nat /\ NumRounds \in Nat \ {0} /\ 0 \in Ctas
  BY Sizes, WhereFacts
<1>1. UNCHANGED <<program, launch>> /\ (c = 0 => Hops(0)) /\ (c # 0 => row'[0] = row[0])
  BY <1>0, StepHops
<1>2. CASE n > 0
  <2>1. n - 1 \in 0 .. NumRounds - 1
    BY <1>0, <1>2
  <2>2. HasCleared(r, n - 1)' /\ ~HasCleared(r, n - 1)
    BY <1>2 DEF Ready
  <2>3. c = 0 /\ pc[0] = "clear_next" /\ row[0] = r /\ round[0] = n - 1
    BY <1>0, <2>1, <2>2, Marks
  <2> QED BY <1>0, <2>3
<1>3. CASE n = 0
  <2>1. Rows' = Rows /\ Trivial(r - 1)' <=> Trivial(r - 1)
    BY <1>1, SameRows
  <2>2. r # 1 /\ row[0] < r /\ ~(~Trivial(r - 1) /\ HasCleared(r - 1, NumRounds - 1))
    BY <1>0, <1>3 DEF Ready
  <2>3. r - 1 \in Rows /\ NumRounds - 1 \in 0 .. NumRounds - 1
    BY <1>0, <2>2
  <2>4. CASE row'[0] >= r
    <3>1. c = 0 /\ Hops(0)
      BY <1>0, <1>1, <2>2, <2>4
    <3>2. row'[0] # row[0]
      BY <1>0, <2>2, <2>4
    <3>3. PICK l, y, o, p : Going(0, l, y, o, p) /\ row'[0] = y
      BY <3>1, <3>2 DEF Hops
    <3>4. l = "row" /\ y = row[0] + 1 /\ pc[0] \in Behind
      BY <3>2, <3>3 DEF Going, Behind
    <3>5. row[0] = r - 1
      BY <1>0, <2>2, <2>4, <3>3, <3>4
    <3>6. Trivial(r - 1)
      BY <2>2, <3>4, <3>5 DEF HasCleared, HasRead, Past
    <3>7. pc[0] = "clear_for_next"
      BY <1>0, <3>2, <3>3, <3>5, <3>6 DEF Going, PlacedAt
    <3> QED BY <1>0, <1>3, <3>1, <3>5, <3>7
  <2>5. CASE ~(row'[0] >= r)
    <3>1. ~Trivial(r - 1) /\ HasCleared(r - 1, NumRounds - 1)'
      <4>1. ~Trivial(r - 1)' /\ HasCleared(r - 1, NumRounds - 1)'
        BY <1>3, <2>2, <2>5 DEF Ready
      <4>2. Trivial(r - 1)' <=> Trivial(r - 1)
        BY <1>1, SameRows
      <4> QED BY <4>1, <4>2
    <3>2. ~HasCleared(r - 1, NumRounds - 1)
      BY <2>2, <3>1
    <3>3. c = 0 /\ pc[0] = "clear_next" /\ row[0] = r - 1 /\ round[0] = NumRounds - 1
      BY <1>0, <2>3, <3>1, <3>2, Marks
    <3> QED BY <1>0, <1>3, <3>3
  <2> QED BY <2>4, <2>5
<1> QED BY <1>2, <1>3

\* A histogram that the step leaves alone.
LEMMA SlotKept ==
  ASSUME Control, NEW c \in Ctas, Step(c), HistogramsRight,
         NEW r \in Rows, ~Trivial(r), NEW n \in 0 .. NumRounds - 1,
         Ready(r, n), \E d \in Ctas : ~HasRead(d, r, n)',
         ~(pc[c] = "add" /\ row[c] = r /\ round[c] = n),
         histogram'[Buffer(r, n)] = histogram[Buffer(r, n)]
  PROVE  histogram'[Buffer(r, n)] = Counts(r, n, { d \in Ctas : HasAdded(d, r, n)' })
<1>1. \A d \in Ctas : /\ HasRead(d, r, n) => HasRead(d, r, n)'
                      /\ HasAdded(d, r, n)' <=> HasAdded(d, r, n)
  BY Marks
<1>2. { d \in Ctas : HasAdded(d, r, n)' } = { d \in Ctas : HasAdded(d, r, n) }
  BY <1>1
<1>3. histogram[Buffer(r, n)] = Counts(r, n, { d \in Ctas : HasAdded(d, r, n) })
  BY <1>1 DEF HistogramsRight
<1> QED BY <1>2, <1>3

\* The rounds of a row that share a buffer are three or more apart.
LEMMA SlotsApart ==
  ASSUME NEW r \in Nat \ {0}, NEW n \in Nat, NEW m \in Nat, Buffer(r, n) = Buffer(r, m)
  PROVE  n = m \/ n >= m + 3 \/ m >= n + 3
<1> DEFINE x == (r - 1) * NumRounds
<1>1. x \in Nat
  <2>1. \A a, b \in Nat : a * b \in Nat
    OBVIOUS
  <2>2. r - 1 \in Nat /\ NumRounds \in Nat
    BY Sizes
  <2> QED BY <2>1, <2>2
<1>2. (x + n) % 3 = (x + m) % 3
  BY DEF Buffer
<1> HIDE DEF x
<1> QED BY <1>1, <1>2

\* Nobody else needs the histogram that a CTA adds to.
LEMMA AddAlone ==
  ASSUME Control, NEW c \in Ctas, pc[c] = "add",
         NEW r \in Rows, ~Trivial(r), NEW n \in 0 .. NumRounds - 1,
         Ready(r, n), NEW d \in Ctas, ~HasRead(d, r, n), Buffer(r, n) = Buffer(row[c], round[c])
  PROVE  r = row[c] /\ n = round[c]
<1> DEFINE s == row[c]
           m == round[c]
<1>0. /\ LaunchRight /\ TypeOK /\ Len(Launched.rows) \in Nat /\ Rows = 1 .. Len(Launched.rows)
      /\ s \in Rows /\ ~Trivial(s) /\ m \in 0 .. NumRounds - 1 /\ NumRounds \in Nat \ {0}
      /\ 0 \in Ctas /\ row[0] \in Nat \ {0} /\ row[d] \in Nat \ {0} /\ s \in Nat \ {0} /\ r \in Nat \ {0}
  <2>1. /\ LaunchRight /\ TypeOK /\ PlacedAt(c) /\ Len(Launched.rows) \in Nat
        /\ Rows = 1 .. Len(Launched.rows) /\ NumRounds \in Nat \ {0} /\ round[c] \in Nat
        /\ 0 \in Ctas /\ row[0] \in Nat \ {0} /\ row[d] \in Nat \ {0} /\ s \in Nat \ {0}
    BY Sizes, WhereFacts
  <2>2. s \in Rows /\ ~Trivial(s) /\ m < NumRounds
    BY <2>1 DEF PlacedAt, Selecting, Exited
  <2> QED BY <2>1, <2>2
<1>1. PassedHere(c) = 1 + m /\ Reached(c) = 1 + m
  <2>1. ~waiting[c]
    BY WhereFacts DEF PlacedAt, Barriers
  <2>2. PassedHere(c) = 1 + m
    BY DEF PassedHere, Exited
  <2> QED BY <1>0, <2>1, <2>2 DEF Reached
<1>2. BarriersIn(s) \in Nat /\ BarriersIn(s) >= 1 + NumRounds
  BY <1>0, ReachedFacts
<1>3. \A e \in Ctas : ~(row[e] > s) /\ (row[e] = s => PassedHere(e) <= 1 + m)
                      /\ (row[e] < s => PassedHere(c) = 0 \/ row[e] \notin Rows)
                      /\ (row[e] = s => 1 + m <= Reached(e))
  <2> TAKE e \in Ctas
  <2>1. row[e] \in Nat \ {0}
    BY WhereFacts
  <2>2. /\ row[e] = s => PassedHere(e) <= Reached(c)
        /\ row[e] > s => Reached(c) = BarriersIn(s)
    BY <1>0, Together
  <2>3. row[e] \in Rows => /\ s = row[e] => PassedHere(c) <= Reached(e)
                           /\ s > row[e] => PassedHere(c) = 0
    BY Together
  <2> HIDE DEF s, m
  <2> QED BY <1>0, <1>1, <1>2, <2>1, <2>2, <2>3
<1> HIDE DEF s, m
<1>4. ~(r < s)
  <2> SUFFICES ASSUME r < s PROVE FALSE
    OBVIOUS
  <2>1. row[d] <= r
    BY <1>0 DEF HasRead, Past
  <2>2. row[d] < s /\ row[d] \in Rows
    BY <1>0, <2>1
  <2> QED BY <1>0, <1>1, <1>3, <2>2
<1>5. CASE r > s
  <2>1. row[0] <= s
    BY <1>0, <1>3
  <2>2. \A e \in 0 .. NumRounds - 1, y \in Nat : y > s => ~HasCleared(y, e)
    BY <1>0, <2>1 DEF HasCleared, HasRead, Past
  <2>3. n = 0
    <3> SUFFICES ASSUME n > 0 PROVE FALSE
      BY <1>0
    <3>1. HasCleared(r, n - 1) /\ n - 1 \in 0 .. NumRounds - 1
      BY <1>0 DEF Ready
    <3> QED BY <1>0, <1>5, <2>2, <3>1
  <2>4. ~Trivial(r - 1) /\ HasCleared(r - 1, NumRounds - 1)
    BY <1>0, <1>5, <2>1, <2>3 DEF Ready
  <2>5. r - 1 = s
    <3>1. NumRounds - 1 \in 0 .. NumRounds - 1 /\ r - 1 \in Nat
      BY <1>0
    <3>2. ~(r - 1 > s)
      BY <2>2, <2>4, <3>1
    <3> QED BY <1>0, <1>5, <3>1, <3>2
  <2>6. row[0] = s
    BY <1>0, <2>1, <2>4, <2>5 DEF HasCleared, HasRead, Past
  <2>7. PassedHere(0) >= 1 + (NumRounds - 1)
    <3>1. NumRounds - 1 \in 0 .. NumRounds - 1
      BY <1>0
    <3> QED BY <1>0, <2>4, <2>5, <2>6, <3>1, ReachedFacts
  <2>8. PassedHere(0) <= 1 + m /\ PassedHere(0) \in Nat
    BY <1>0, <1>3, <2>6, Together
  <2>9. Buffer(s, NumRounds) = Buffer(s, m)
    <3>1. Buffer(s + 1, 0) = Buffer(s, NumRounds)
      BY <1>0, BufferFacts
    <3> QED BY <1>0, <2>3, <2>5, <3>1 DEF s, m
  <2>10. NumRounds = m \/ NumRounds >= m + 3 \/ m >= NumRounds + 3
    BY <1>0, <2>9, SlotsApart
  <2> QED BY <1>0, <2>7, <2>8, <2>10
<1>6. CASE r = s
  <2>1. n = m \/ n >= m + 3 \/ m >= n + 3
    BY <1>0, <1>6, SlotsApart DEF s, m
  <2>2. ~(n >= m + 3)
    <3> SUFFICES ASSUME n >= m + 3 PROVE FALSE
      OBVIOUS
    <3>1. HasCleared(s, n - 1) /\ n - 1 \in 0 .. NumRounds - 1
      BY <1>0, <1>6 DEF Ready
    <3>2. row[0] = s
      BY <1>0, <1>3, <3>1 DEF HasCleared, HasRead, Past
    <3>3. PassedHere(0) >= 1 + (n - 1)
      BY <1>0, <3>1, <3>2, ReachedFacts
    <3>4. PassedHere(0) <= 1 + m /\ PassedHere(0) \in Nat
      BY <1>0, <1>3, <3>2, Together
    <3> QED BY <1>0, <3>3, <3>4
  <2>3. ~(m >= n + 3)
    <3> SUFFICES ASSUME m >= n + 3 PROVE FALSE
      OBVIOUS
    <3>1. ~(row[d] > s)
      BY <1>3
    <3>2. row[d] = s
      <4> SUFFICES ASSUME row[d] < s PROVE FALSE
        BY <1>0, <3>1
      <4>1. row[d] \in Rows
        BY <1>0
      <4> QED BY <1>0, <1>1, <1>3, <4>1
    <3>3. Reached(d) <= 2 + n /\ Reached(d) \in Nat
      BY <1>0, <1>6, <3>2, ReachedFacts
    <3> QED BY <1>0, <1>3, <3>2, <3>3
  <2> QED BY <1>6, <2>1, <2>2, <2>3 DEF s, m
<1> QED BY <1>0, <1>4, <1>5, <1>6 DEF s, m

\* Nobody needs the histograms that the leading CTA clears.
LEMMA ClearNextAlone ==
  ASSUME Control, pc[0] = "clear_next",
         NEW r \in Rows, ~Trivial(r), NEW n \in 0 .. NumRounds - 1,
         Ready(r, n), NEW d \in Ctas, ~HasRead(d, r, n)
  PROVE  Buffer(r, n) # Buffer(row[0], round[0] + 1)
<1> SUFFICES ASSUME Buffer(r, n) = Buffer(row[0], round[0] + 1) PROVE FALSE
  OBVIOUS
<1> DEFINE s == row[0]
           m == round[0]
<1>0. /\ LaunchRight /\ TypeOK /\ Len(Launched.rows) \in Nat /\ Rows = 1 .. Len(Launched.rows)
      /\ s \in Rows /\ ~Trivial(s) /\ m \in 0 .. NumRounds - 1 /\ NumRounds \in Nat \ {0}
      /\ 0 \in Ctas /\ row[d] \in Nat \ {0} /\ s \in Nat \ {0} /\ r \in Nat \ {0}
  <2>1. /\ LaunchRight /\ TypeOK /\ PlacedAt(0) /\ Len(Launched.rows) \in Nat
        /\ Rows = 1 .. Len(Launched.rows) /\ NumRounds \in Nat \ {0} /\ round[0] \in Nat
        /\ 0 \in Ctas /\ row[0] \in Nat \ {0} /\ row[d] \in Nat \ {0}
    BY Sizes, WhereFacts
  <2>2. s \in Rows /\ ~Trivial(s) /\ m < NumRounds
    BY <2>1 DEF PlacedAt, Selecting, Exited
  <2> QED BY <2>1, <2>2
<1>1. PassedHere(0) = 1 + m
  BY DEF PassedHere, Exited
<1>2. row[d] \in Rows => /\ s = row[d] => 1 + m <= Reached(d)
                         /\ s > row[d] => 1 + m = 0
  BY <1>0, <1>1, Together
<1>3. \A e \in Nat : ~HasRead(0, s, e) \/ e < m
  BY <1>0 DEF HasRead, Past, Behind
<1>4. \A e \in Nat : HasCleared(s, e) => e < m
  BY <1>3 DEF HasCleared
<1>5. \A y \in Nat, e \in Nat : y > s => ~HasCleared(y, e)
  BY <1>0 DEF HasCleared, HasRead, Past
<1>6. Ready(r, n) <=> IF n > 0 THEN HasCleared(r, n - 1)
                      ELSE r = 1 \/ s >= r \/ (~Trivial(r - 1) /\ HasCleared(r - 1, NumRounds - 1))
  BY DEF Ready
<1>7. r <= s => row[d] <= s
  BY <1>0 DEF HasRead, Past
<1>8. r <= s /\ row[d] < s => FALSE
  BY <1>0, <1>2
<1>9. row[d] = s /\ r = s => Reached(d) <= 2 + n /\ Reached(d) \in Nat
  BY <1>0, ReachedFacts
<1>10. r = s => n = m + 1 \/ n >= (m + 1) + 3 \/ m + 1 >= n + 3
  BY <1>0, SlotsApart
<1> HIDE DEF s, m
<1>11. CASE r = s
  <2>1. row[d] = s
    BY <1>0, <1>7, <1>8, <1>11
  <2>2. ~(m + 1 >= n + 3)
    BY <1>0, <1>2, <1>9, <1>11, <2>1
  <2>3. HasCleared(s, n - 1) /\ n - 1 \in Nat
    BY <1>0, <1>6, <1>10, <1>11, <2>2
  <2> QED BY <1>0, <1>4, <1>10, <1>11, <2>2, <2>3
<1>12. CASE r < s
  BY <1>0, <1>2, <1>12, <1>7, <1>8 DEF HasRead, Past, s
<1>13. CASE r > s
  <2>1. n = 0
    <3> SUFFICES ASSUME n > 0 PROVE FALSE
      BY <1>0
    <3>1. n - 1 \in Nat
      BY <1>0
    <3> QED BY <1>0, <1>5, <1>6, <1>13, <3>1
  <2>2. HasCleared(r - 1, NumRounds - 1) /\ r - 1 \in Nat /\ NumRounds - 1 \in Nat
    BY <1>0, <1>6, <1>13, <2>1
  <2>3. r - 1 = s
    <3>1. ~(r - 1 > s)
      BY <1>5, <2>2
    <3> QED BY <1>0, <1>13, <3>1
  <2> QED BY <1>0, <1>4, <2>2, <2>3
<1> QED BY <1>0, <1>11, <1>12, <1>13

\* The rows that need no selection.
LEMMA CopiedFacts ==
  ASSUME CopiedFirst, LaunchRight, NEW s \in Rows, Trivial(s)
  PROVE  /\ Launched.kernel = "mask" => \A r \in 1 .. s : Trivial(r)
         /\ Launched.kernel = "renorm" => s = 1
BY DEF CopiedFirst, CopiedFirstIn, LaunchRight, Launched, Rows, Trivial, K, Length, Data

LEMMA ClearForNextAlone ==
  ASSUME CopiedFirst, Control, pc[0] = "clear_for_next",
         NEW r \in Rows, ~Trivial(r), NEW n \in 0 .. NumRounds - 1,
         Ready(r, n), NEW d \in Ctas, ~HasRead(d, r, n)
  PROVE  FALSE
<1> DEFINE s == row[0]
<1>0. /\ LaunchRight /\ TypeOK /\ Len(Launched.rows) \in Nat /\ Rows = 1 .. Len(Launched.rows)
      /\ s \in Rows /\ Trivial(s) /\ NumRounds \in Nat \ {0}
      /\ 0 \in Ctas /\ row[d] \in Nat \ {0} /\ s \in Nat \ {0} /\ r \in Nat \ {0}
  <2>1. /\ LaunchRight /\ TypeOK /\ PlacedAt(0) /\ Len(Launched.rows) \in Nat
        /\ Rows = 1 .. Len(Launched.rows) /\ NumRounds \in Nat \ {0}
        /\ 0 \in Ctas /\ row[0] \in Nat \ {0} /\ row[d] \in Nat \ {0}
    BY Sizes, WhereFacts
  <2>2. s \in Rows /\ Trivial(s)
    BY <2>1 DEF PlacedAt, Exited
  <2> QED BY <2>1, <2>2
<1>1. r # s
  BY <1>0
<1>2. CASE r > s
  <2>1. \A y \in Nat, e \in Nat : y > s => ~HasCleared(y, e)
    BY <1>0 DEF HasCleared, HasRead, Past
  <2>2. n = 0
    <3> SUFFICES ASSUME n > 0 PROVE FALSE
      BY <1>0
    <3>1. n - 1 \in Nat
      BY <1>0
    <3> QED BY <1>0, <1>2, <2>1, <3>1 DEF Ready
  <2>3. ~Trivial(r - 1) /\ HasCleared(r - 1, NumRounds - 1)
    BY <1>0, <1>2, <2>2 DEF Ready
  <2>4. ~(r - 1 > s)
    <3>1. r - 1 \in Nat /\ NumRounds - 1 \in Nat
      BY <1>0
    <3> QED BY <2>1, <2>3, <3>1
  <2>5. r - 1 = s
    BY <1>0, <1>2, <2>4
  <2> QED BY <1>0, <2>3, <2>5
<1>3. CASE r < s
  <2>1. Launched.kernel \in {"basic", "page_table"}
    <3>1. Launched.kernel \in {"mask", "renorm", "basic", "page_table"}
      BY <1>0, LaunchFacts DEF Kernels
    <3>2. r \in 1 .. s
      BY <1>0, <1>3
    <3>3. Launched.kernel # "mask" /\ Launched.kernel # "renorm"
      BY <1>0, <1>3, <3>2, CopiedFacts
    <3> QED BY <3>1, <3>3
  <2>2. row[d] <= r /\ row[d] \in Rows
    <3>1. row[d] <= r
      BY <1>0 DEF HasRead, Past
    <3> QED BY <1>0, <3>1
  <2>3. BarriersSelecting(r) = 1 + NumRounds
    BY DEF BarriersSelecting
  <2>4. BarriersIn(r) \in Nat /\ BarriersIn(r) >= 2 + NumRounds
    BY <1>0, <2>1, <2>3 DEF BarriersIn
  <2>5. /\ Reached(d) = BarriersIn(row[d])
        /\ row[d] < r => BarriersIn(r) = 0
    BY <1>0, <1>3, <2>2, Together
  <2>6. row[d] = r
    BY <1>0, <2>2, <2>4, <2>5
  <2>7. Reached(d) <= 2 + n
    BY <2>6, ReachedFacts
  <2> QED BY <1>0, <2>4, <2>5, <2>6, <2>7
<1> QED BY <1>0, <1>1, <1>2, <1>3

\* Nobody has added to them since.
LEMMA ClearNextFirst ==
  ASSUME Control, pc[0] = "clear_next", NEW e \in Ctas,
         NEW r \in Rows, ~Trivial(r), NEW n \in 0 .. NumRounds - 1,
         \/ row[0] = r /\ n = round[0] + 1
         \/ row[0] + 1 = r /\ n = 0
  PROVE  ~HasAdded(e, r, n)
<1> SUFFICES ASSUME HasAdded(e, r, n) PROVE FALSE
  OBVIOUS
<1>0. /\ row[0] \in Rows /\ ~Trivial(row[0]) /\ round[0] \in 0 .. NumRounds - 1 /\ NumRounds \in Nat \ {0}
      /\ 0 \in Ctas /\ row[e] \in Nat \ {0} /\ row[0] \in Nat \ {0} /\ ~waiting[0]
  <2>1. PlacedAt(0) /\ NumRounds \in Nat \ {0} /\ round[0] \in Nat
        /\ 0 \in Ctas /\ row[0] \in Nat \ {0} /\ row[e] \in Nat \ {0}
    BY Sizes, WhereFacts
  <2>2. row[0] \in Rows /\ ~Trivial(row[0]) /\ round[0] < NumRounds /\ ~waiting[0]
    BY <2>1 DEF PlacedAt, Selecting, Exited, Barriers
  <2> QED BY <2>1, <2>2
<1>1. PassedHere(0) = 1 + round[0] /\ Reached(0) = 1 + round[0]
  <2>1. PassedHere(0) = 1 + round[0]
    BY DEF PassedHere, Exited
  <2> QED BY <1>0, <2>1 DEF Reached
<1>2. /\ row[e] = row[0] => PassedHere(e) <= 1 + round[0] /\ PassedHere(e) \in Nat
      /\ row[e] > row[0] => 1 + round[0] = BarriersIn(row[0])
  BY <1>0, <1>1, Together
<1>3. BarriersIn(row[0]) \in Nat /\ BarriersIn(row[0]) >= 1 + NumRounds
  BY <1>0, ReachedFacts
<1>4. row[e] <= row[0]
  BY <1>0, <1>2, <1>3
<1>5. row[e] >= r
  BY <1>0 DEF HasAdded, HasRead, Past
<1>6. row[0] = r /\ n = round[0] + 1 /\ row[e] = r
  BY <1>0, <1>4, <1>5
<1>7. PassedHere(e) >= 1 + n
  BY <1>6, ReachedFacts
<1> QED BY <1>0, <1>2, <1>6, <1>7

LEMMA ClearForNextFirst ==
  ASSUME Control, pc[0] = "clear_for_next", NEW e \in Ctas,
         NEW r \in Rows, ~Trivial(r), row[0] + 1 = r
  PROVE  ~HasAdded(e, r, 0)
<1> SUFFICES ASSUME HasAdded(e, r, 0) PROVE FALSE
  OBVIOUS
<1>0. /\ row[0] \in Rows /\ NumRounds \in Nat \ {0} /\ 0 \in 0 .. NumRounds - 1 /\ LaunchRight
      /\ 0 \in Ctas /\ row[e] \in Nat \ {0} /\ row[0] \in Nat \ {0}
  <2>1. PlacedAt(0) /\ NumRounds \in Nat \ {0} /\ LaunchRight
        /\ 0 \in Ctas /\ row[0] \in Nat \ {0} /\ row[e] \in Nat \ {0}
    BY Sizes, WhereFacts
  <2>2. row[0] \in Rows
    BY <2>1 DEF PlacedAt, Exited
  <2> QED BY <2>1, <2>2
<1>1. row[e] >= r
  BY <1>0 DEF HasAdded, HasRead, Past
<1>2. PassedHere(e) = 0 /\ (row[e] > r => BarriersIn(r) = 0)
  BY <1>0, <1>1, Together
<1>3. BarriersSelecting(r) = 1 + NumRounds /\ BarriersIn(r) \in Nat /\ BarriersSelecting(r) <= BarriersIn(r)
  BY <1>0, BarriersType DEF BarriersSelecting
<1>4. row[e] = r
  BY <1>0, <1>1, <1>2, <1>3
<1>5. PassedHere(e) >= 1 + 0
  BY <1>0, <1>4, ReachedFacts
<1> QED BY <1>2, <1>5

\* The counts of no CTA, and of one more.
LEMMA CountsNone == ASSUME NEW r, NEW n PROVE Counts(r, n, {}) = NoCounts
<1>1. Owned(r, {}) = {}
  BY DEF Owned
<1>2. Cardinality({}) = 0
  BY FS_EmptySet
<1>3. \A b : { i \in Owned(r, {}) : Upper(Data(r)[i], n) = PrefixOf(r, n) /\ Digit(Data(r)[i], n) = b } = {}
  BY <1>1
<1> QED BY <1>2, <1>3 DEF Counts, NoCounts

InBucket(c, r, n, b) == Cardinality({ i \in Chunk(c, r) : Upper(Data(r)[i], n) = PrefixOf(r, n) /\ Digit(Data(r)[i], n) = b })

LEMMA CountsGrow ==
  ASSUME LaunchRight, NEW r \in Rows, NEW n, NEW S \in SUBSET Ctas, NEW c \in Ctas \ S,
         NEW b \in 0 .. Radix - 1
  PROVE  Counts(r, n, S \cup {c})[b] = Counts(r, n, S)[b] + InBucket(c, r, n, b)
<1> DEFINE In(X) == { i \in X : Upper(Data(r)[i], n) = PrefixOf(r, n) /\ Digit(Data(r)[i], n) = b }
           A == In(Owned(r, S))
           B == In(Chunk(c, r))
<1>1. /\ Owned(r, S \cup {c}) = Owned(r, S) \cup Chunk(c, r)
      /\ Owned(r, S) \cap Chunk(c, r) = {} /\ Owned(r, S) \subseteq DOMAIN Data(r)
  BY OwnedFacts
<1>2. In(Owned(r, S \cup {c})) = A \cup B /\ A \cap B = {}
  BY <1>1
<1>3. A \subseteq DOMAIN Data(r) /\ B \subseteq DOMAIN Data(r)
  BY <1>1 DEF Chunk
<1>4. Counts(r, n, S \cup {c})[b] = Cardinality(In(Owned(r, S \cup {c}))) /\ Counts(r, n, S)[b] = Cardinality(A)
  BY DEF Counts
<1> HIDE DEF A, B
<1>5. IsFiniteSet(A) /\ IsFiniteSet(B)
  BY <1>3, PartFacts
<1>6. Cardinality(A \cup B) = Cardinality(A) + Cardinality(B)
  BY <1>2, <1>5, SizeUnion
<1>7. InBucket(c, r, n, b) = Cardinality(B)
  BY DEF InBucket, B
<1> QED BY <1>2, <1>4, <1>6, <1>7

\* What the prefix of a CTA says.
LEMMA PrefixKnown ==
  ASSUME Control, PrefixesRight, NEW c \in Ctas, pc[c] \in Selecting
  PROVE  /\ row[c] \in Rows /\ ~Trivial(row[c]) /\ round[c] \in 0 .. NumRounds - 1 /\ prefix[c] \in Values
         /\ Fits(row[c], round[c], prefix[c]) /\ PrefixOf(row[c], round[c]) = prefix[c]
<1>1. /\ row[c] \in Rows /\ ~Trivial(row[c]) /\ round[c] \in 0 .. NumRounds - 1 /\ round[c] \in 0 .. NumRounds
      /\ LaunchRight /\ prefix[c] \in Values
  <2>1. PlacedAt(c) /\ LaunchRight /\ round[c] \in Nat /\ NumRounds \in Nat /\ TypeOK
    BY WhereFacts
  <2>2. row[c] \in Rows /\ ~Trivial(row[c]) /\ round[c] < NumRounds
    BY <2>1 DEF PlacedAt, Selecting, Exited
  <2> QED BY <2>1, <2>2 DEF TypeOK
<1>2. Fits(row[c], round[c], prefix[c])
  BY <1>1 DEF PrefixesRight, Selecting, Exited
<1> QED BY <1>1, <1>2, PrefixOfFits

\* A CTA adds its counts.
LEMMA AddSlot ==
  ASSUME Control, HistogramsRight, PrefixesRight, NEW c \in Ctas, Step(c), pc[c] = "add",
         NEW s, s = row[c], NEW m, m = round[c], Ready(s, m)
  PROVE  histogram'[Buffer(s, m)] = Counts(s, m, { d \in Ctas : HasAdded(d, s, m)' })
<1> DEFINE S == { d \in Ctas : HasAdded(d, s, m) }
<1>0. /\ s \in Rows /\ ~Trivial(s) /\ m \in 0 .. NumRounds - 1 /\ PrefixOf(s, m) = prefix[c] /\ LaunchRight
      /\ s \in Nat \ {0} /\ m \in Nat /\ TypeOK
  BY PrefixKnown, WhereFacts DEF Selecting
<1>1. ~HasRead(c, s, m) /\ c \notin S
  BY <1>0 DEF HasRead, HasAdded, Past, Behind
<1>2. { d \in Ctas : HasAdded(d, s, m)' } = S \cup {c}
  <2>1. \A d \in Ctas : HasAdded(d, s, m)' <=> HasAdded(d, s, m) \/ d = c
    BY <1>0, Marks
  <2> QED BY <2>1
<1>3. histogram[Buffer(s, m)] = Counts(s, m, S)
  BY <1>0, <1>1 DEF HistogramsRight
<1>4. histogram' = [histogram EXCEPT ![Buffer(s, m)] =
                         [b \in DOMAIN @ |-> @[b] + LocalHistogram(c)[b]]]
  BY ActionAt DEF Add
<1>5. DOMAIN Counts(s, m, S) = 0 .. Radix - 1
  BY DEF Counts
<1>6. Buffer(s, m) \in DOMAIN histogram
  BY <1>0, BufferType DEF TypeOK
<1>7. histogram'[Buffer(s, m)] = [b \in 0 .. Radix - 1 |-> Counts(s, m, S)[b] + LocalHistogram(c)[b]]
  <2> HIDE DEF S
  <2> QED BY <1>3, <1>4, <1>5, <1>6
<1>8. \A b \in 0 .. Radix - 1 : LocalHistogram(c)[b] = InBucket(c, s, m, b)
  BY <1>0 DEF LocalHistogram, InBucket
<1>9. \A b \in 0 .. Radix - 1 : Counts(s, m, S \cup {c})[b] = Counts(s, m, S)[b] + InBucket(c, s, m, b)
  <2>1. S \in SUBSET Ctas /\ c \in Ctas \ S
    BY <1>1
  <2> HIDE DEF S
  <2> QED BY <1>0, <2>1, CountsGrow
<1>10. histogram'[Buffer(s, m)] = Counts(s, m, S \cup {c})
  <2>1. Counts(s, m, S \cup {c}) = [b \in 0 .. Radix - 1 |-> Counts(s, m, S \cup {c})[b]]
    BY DEF Counts
  <2> HIDE DEF S
  <2>2. [b \in 0 .. Radix - 1 |-> Counts(s, m, S)[b] + LocalHistogram(c)[b]]
          = [b \in 0 .. Radix - 1 |-> Counts(s, m, S \cup {c})[b]]
    BY <1>8, <1>9
  <2> QED BY <1>7, <2>1, <2>2
<1> QED BY <1>2, <1>10

\* The leading CTA clears.
LEMMA ClearedSlot ==
  ASSUME Control, NEW c \in Ctas, Step(c), pc[c] # "add", NEW r \in Rows, ~Trivial(r), NEW n \in 0 .. NumRounds - 1,
         \A e \in Ctas : ~HasAdded(e, r, n)
  PROVE  Counts(r, n, { d \in Ctas : HasAdded(d, r, n)' }) = NoCounts
<1>1. { d \in Ctas : HasAdded(d, r, n)' } = {}
  BY Marks
<1> QED BY <1>1, CountsNone

LEMMA CountsSame ==
  ASSUME UNCHANGED <<program, launch>>, NEW r, NEW n
  PROVE  Counts(r, n, { e \in Ctas : HasAdded(e, r, n) })' = Counts(r, n, { e \in Ctas : HasAdded(e, r, n)' })
<1>1. /\ Data(r)' = Data(r) /\ \A c : Chunk(c, r)' = Chunk(c, r)
      /\ PrefixOf(r, n)' = PrefixOf(r, n)
  BY SameRows
<1> QED BY <1>1 DEF Counts, Owned

LEMMA HistogramsStep ==
  ASSUME CopiedFirst, Control, NEW c \in Ctas, Step(c), LeaderRight, HistogramsRight, PrefixesRight
  PROVE  HistogramsRight'
<1>0. UNCHANGED <<program, launch>> /\ TypeOK /\ LaunchRight /\ PlacedAt(c) /\ NumRounds \in Nat \ {0}
  BY StepHops, WhereFacts
<1>1. ASSUME NEW r \in Rows, NEW n \in 0 .. NumRounds - 1, ~Trivial(r), Ready(r, n)',
             NEW d \in Ctas, ~HasRead(d, r, n)'
      PROVE  histogram'[Buffer(r, n)] = Counts(r, n, { e \in Ctas : HasAdded(e, r, n)' })
  <2>0. ~HasRead(d, r, n) /\ r \in Nat \ {0} /\ Buffer(r, n) \in 0 .. 2
    <3>1. ~HasRead(d, r, n) /\ r \in Nat \ {0} /\ n \in Nat
      BY <1>0, <1>1, Marks, RowFacts
    <3> QED BY <3>1, BufferType
  <2>1. CASE pc[c] = "add"
    <3>1. Ready(r, n)
      BY <1>1, <2>1, ReadyMarks
    <3>2. CASE Buffer(r, n) = Buffer(row[c], round[c])
      <4>1. r = row[c] /\ n = round[c]
        BY <1>1, <2>0, <2>1, <3>1, <3>2, AddAlone
      <4> QED BY <2>1, <3>1, <4>1, AddSlot
    <3>3. CASE Buffer(r, n) # Buffer(row[c], round[c])
      <4>1. histogram'[Buffer(r, n)] = histogram[Buffer(r, n)]
        <5>1. histogram' = [histogram EXCEPT ![Buffer(row[c], round[c])] =
                               [b \in DOMAIN @ |-> @[b] + LocalHistogram(c)[b]]]
          BY <2>1, ActionAt DEF Add
        <5> QED BY <1>0, <2>0, <3>3, <5>1 DEF TypeOK
      <4>2. ~(row[c] = r /\ round[c] = n)
        BY <3>3
      <4> QED BY <1>1, <3>1, <4>1, <4>2, SlotKept
    <3> QED BY <3>2, <3>3
  <2>2. CASE pc[c] = "clear_next"
    <3>1. c = 0
      BY <2>2 DEF LeaderRight
    <3>2. histogram' = [histogram EXCEPT ![Buffer(row[0], round[0] + 1)] = NoCounts]
      BY <2>2, <3>1, ActionAt DEF ClearNext
    <3>3. CASE Ready(r, n)
      <4>1. Buffer(r, n) # Buffer(row[0], round[0] + 1)
        BY <1>1, <2>0, <2>2, <3>1, <3>3, ClearNextAlone
      <4>2. histogram'[Buffer(r, n)] = histogram[Buffer(r, n)]
        BY <1>0, <2>0, <3>2, <4>1 DEF TypeOK
      <4> QED BY <1>1, <2>2, <3>3, <4>2, SlotKept
    <3>4. CASE ~Ready(r, n)
      <4>1. \/ row[0] = r /\ n = round[0] + 1
            \/ row[0] + 1 = r /\ n = 0 /\ round[0] = NumRounds - 1
        BY <1>1, <2>2, <3>1, <3>4, ReadyMarks
      <4>2. Buffer(r, n) = Buffer(row[0], round[0] + 1)
        <5>1. CASE row[0] = r
          <6>1. n = round[0] + 1
            <7>1. r + 1 # r
              BY <2>0
            <7> QED BY <4>1, <5>1, <7>1
          <6> QED BY <5>1, <6>1
        <5>2. CASE row[0] # r
          <6>1. row[0] + 1 = r /\ n = 0 /\ round[0] + 1 = NumRounds /\ row[0] \in Nat \ {0}
            BY <1>0, <4>1, <5>2, WhereFacts, Sizes
          <6>2. Buffer(row[0] + 1, 0) = Buffer(row[0], NumRounds)
            BY <6>1, BufferFacts
          <6> QED BY <6>1, <6>2
        <5> QED BY <5>1, <5>2
      <4>3. histogram'[Buffer(r, n)] = NoCounts
        BY <1>0, <2>0, <3>2, <4>2 DEF TypeOK
      <4>4. \A e \in Ctas : ~HasAdded(e, r, n)
        BY <1>1, <2>2, <3>1, <4>1, ClearNextFirst
      <4>5. Counts(r, n, { e \in Ctas : HasAdded(e, r, n)' }) = NoCounts
        BY <1>1, <2>2, <4>4, ClearedSlot
      <4> QED BY <4>3, <4>5
    <3> QED BY <3>3, <3>4
  <2>3. CASE pc[c] = "clear_for_next" /\ c = 0
    <3>1. histogram' = [histogram EXCEPT ![Buffer(row[0], NumRounds)] = NoCounts]
      BY <2>3, ActionAt DEF ClearForNextRow
    <3>2. ~Ready(r, n)
      BY <1>1, <2>0, <2>3, ClearForNextAlone
    <3>3. row[0] + 1 = r /\ n = 0
      BY <1>1, <2>3, <3>2, ReadyMarks
    <3>4. Buffer(r, n) = Buffer(row[0], NumRounds)
      <4>1. row[0] \in Nat \ {0}
        BY <2>3, WhereFacts
      <4>2. Buffer(row[0] + 1, 0) = Buffer(row[0], NumRounds)
        BY <4>1, BufferFacts
      <4> QED BY <3>3, <4>2
    <3>5. histogram'[Buffer(r, n)] = NoCounts
      BY <1>0, <2>0, <3>1, <3>4 DEF TypeOK
    <3>6. \A e \in Ctas : ~HasAdded(e, r, n)
      BY <1>1, <2>3, <3>3, ClearForNextFirst
    <3>7. Counts(r, n, { e \in Ctas : HasAdded(e, r, n)' }) = NoCounts
      BY <1>1, <2>3, <3>6, ClearedSlot
    <3> QED BY <3>5, <3>7
  <2>4. CASE pc[c] \notin {"add", "clear_next", "clear_for_next"} \/ (pc[c] = "clear_for_next" /\ c # 0)
    <3>1. Ready(r, n)
      BY <1>1, <2>4, ReadyMarks
    <3>2. pc[c] # "reset"
      <4> SUFFICES ASSUME pc[c] = "reset" PROVE FALSE
        OBVIOUS
      <4>1. pc[d] \in Exited
        BY DEF Control, ResetRight, Exited
      <4>2. row[d] \notin Rows
        BY <4>1, WhereFacts DEF PlacedAt
      <4>3. row[d] > r
        BY <4>2, WhereFacts
      <4> QED BY <2>0, <4>3 DEF HasRead, Past
    <3>3. UNCHANGED histogram
      <4>1. CASE pc[c] \in Barriers \cup Exited
        BY <1>0, <3>2, <4>1 DEF Step, Arrive, Pass, Exit, Reset, ResetCounter, StartRow, ClearForNextRow,
           ClearOutputCounter, Add, ClearNext, ReadHistogram, Mask, ZeroSum, AddSum, Normalize, Claim,
           Place, AllPlaced, Count, Emit, Transform, Running, Barriers, Exited, state
      <4>2. CASE pc[c] \notin Barriers \cup Exited
        BY <2>4, <4>2 DEF Step, Arrive, Pass, Exit, Reset, ResetCounter, StartRow, ClearForNextRow,
           ClearOutputCounter, Add, ClearNext, ReadHistogram, Mask, ZeroSum, AddSum, Normalize, Claim,
           Place, AllPlaced, Count, Emit, Transform, Running, Barriers, Exited, state
      <4> QED BY <4>1, <4>2
    <3> QED BY <1>1, <2>4, <3>1, <3>3, SlotKept
  <2> QED BY <2>1, <2>2, <2>3, <2>4
<1>2. Rows' = Rows
  BY <1>0, SameRows
<1>3. \A r \in Rows : Trivial(r)' <=> Trivial(r)
  BY <1>0, SameRows
<1>4. ASSUME NEW r \in Rows, NEW n \in 0 .. NumRounds - 1, ~Trivial(r)', Ready(r, n)',
             NEW d \in Ctas, ~HasRead(d, r, n)'
      PROVE  histogram'[Buffer(r, n)] = Counts(r, n, { e \in Ctas : HasAdded(e, r, n) })'
  <2>1. ~Trivial(r)
    BY <1>3, <1>4
  <2>2. histogram'[Buffer(r, n)] = Counts(r, n, { e \in Ctas : HasAdded(e, r, n)' })
    BY <1>1, <1>4, <2>1
  <2> QED BY <1>0, <2>2, CountsSame
<1> QED BY <1>2, <1>4 DEF HistogramsRight, Buffer

\* A CTA writes to its row.
OutputElsewhere(c) ==
  /\ \A r \in Rows : r # row[c] => output'[r] = output[r]
  /\ DOMAIN output' = DOMAIN output
  /\ \A r \in Rows : DOMAIN output'[r] = DOMAIN output[r]

LEMMA WriteElsewhere ==
  ASSUME DOMAIN output = Rows, NEW c, NEW cells, Write(c, cells)
  PROVE  OutputElsewhere(c)
<1> DEFINE New == [x \in DOMAIN output[row[c]] |-> IF x \in DOMAIN cells THEN cells[x] ELSE output[row[c]][x]]
<1>1. output' = [output EXCEPT ![row[c]] = New]
  BY DEF Write
<1>2. DOMAIN New = DOMAIN output[row[c]]
  OBVIOUS
<1> HIDE DEF New
<1> QED BY <1>1, <1>2 DEF OutputElsewhere

LEMMA OutputStays ==
  ASSUME UNCHANGED output, NEW c PROVE OutputElsewhere(c)
BY DEF OutputElsewhere

\* What a step leaves alone besides.
LEMMA Frames ==
  ASSUME Control, NEW c \in Ctas, Step(c)
  PROVE  /\ pc[c] \notin {"row", "read"} => UNCHANGED remaining_k
         /\ pc[c] \notin {"claim", "place"} => UNCHANGED todo
         /\ pc[c] \notin {"zero_sum", "add_sum"} => UNCHANGED sum_topk
         /\ pc[c] \notin {"clear_output", "claim", "place"} => UNCHANGED output_counter
         /\ pc[c] \notin {"count", "reset"} => UNCHANGED det_scratch
         /\ pc[c] \notin {"row", "mask", "normalize", "claim", "place", "emit", "transform"} => UNCHANGED output
         /\ \A d \in Ctas \ {c} : remaining_k'[d] = remaining_k[d] /\ todo'[d] = todo[d]
         /\ OutputElsewhere(c)
<1>0. /\ remaining_k \in [Ctas -> Nat] /\ todo \in [Ctas -> SUBSET Positions] /\ DOMAIN output = Rows
      /\ waiting[c] => pc[c] \in Barriers
  BY WhereFacts DEF TypeOK, PlacedAt
<1>1. CASE Arrive(c) \/ Pass(c)
  BY <1>0, <1>1, OutputStays DEF Arrive, Pass, Goto, local, state, Barriers
<1>2. CASE StartRow(c)
  <2>1. /\ \/ output' = output
           \/ Write(c, [x \in {c} |-> Chunk(c, row[c])])
           \/ Write(c, [i \in Chunk(c, row[c]) |-> i])
           \/ Write(c, [i \in DOMAIN Data(row[c]) |-> Paged(i)])
    <3>1. Launched.kernel \in Kernels
      BY WhereFacts, LaunchFacts
    <3> QED BY <1>2, <3>1 DEF StartRow, Kernels
  <2>2. OutputElsewhere(c)
    BY <1>0, <2>1, WriteElsewhere, OutputStays
  <2> QED BY <1>0, <1>2, <2>2 DEF StartRow, Running, state
<1>3. CASE ClearForNextRow(c) \/ ClearOutputCounter(c) \/ Add(c) \/ ClearNext(c) \/ ZeroSum(c) \/ AddSum(c)
           \/ AllPlaced(c) \/ Count(c) \/ Exit(c) \/ Reset(c) \/ ResetCounter(c)
  BY <1>0, <1>3, OutputStays DEF ClearForNextRow, ClearOutputCounter, Add, ClearNext, ZeroSum, AddSum, AllPlaced, Count,
     Exit, Reset, ResetCounter, Running, local, state
<1>4. CASE ReadHistogram(c)
  BY <1>0, <1>4, OutputStays DEF ReadHistogram, Running, state
<1>5. CASE Mask(c) \/ Normalize(c) \/ Claim(c) \/ Emit(c) \/ Transform(c) \/ Place(c)
  <2>2. OutputElsewhere(c)
    <3>1. CASE Mask(c) \/ Normalize(c) \/ Claim(c) \/ Emit(c) \/ Transform(c)
      BY <1>0, <3>1, WriteElsewhere DEF Mask, Normalize, Claim, Emit, Transform
    <3>2. CASE Place(c)
      BY <1>0, <3>2, WriteElsewhere, OutputStays DEF Place
    <3> QED BY <1>5, <3>1, <3>2
  <2>3. CASE Mask(c) \/ Normalize(c) \/ Emit(c) \/ Transform(c)
    BY <1>0, <2>2, <2>3 DEF Mask, Normalize, Emit, Transform, Running, state, local
  <2>4. CASE Claim(c)
    BY <1>0, <2>2, <2>4 DEF Claim, Running
  <2>5. CASE Place(c)
    BY <1>0, <2>2, <2>5 DEF Place, Running
  <2> QED BY <1>5, <2>3, <2>4, <2>5
<1> QED BY <1>1, <1>2, <1>3, <1>4, <1>5 DEF Step

\* Only the leading CTA comes to where the row state is cleared.
LEMMA LeaderStep ==
  ASSUME Control, NEW c \in Ctas, Step(c), LeaderRight
  PROVE  LeaderRight'
<1>1. \A d \in Ctas \ {c} : pc'[d] = pc[d]
  BY StepHops
<1>2. ASSUME pc'[c] \in { "clear_output", "clear_next" } PROVE c = 0
  <2>1. CASE pc[c] = "add"
    <3>1. pc' = [pc EXCEPT ![c] = IF c = 0 THEN "clear_next" ELSE "round"]
      BY <2>1, ActionAt DEF Add, Goto
    <3> QED BY <1>2, <3>1, WhereFacts DEF TypeOK
  <2>2. CASE pc[c] = "first"
    BY <1>2, <2>2, StepHops DEF Hops, After, Between, Going, Exited
  <2>3. CASE pc[c] \notin {"add", "first"}
    <3>1. pc'[c] = pc[c]
      BY <1>2, <2>3, StepHops DEF Hops, Going, Exited, After, AfterSelection, Barriers
    <3> QED BY <1>2, <3>1 DEF LeaderRight
  <2> QED BY <2>1, <2>2, <2>3
<1> QED BY <1>1, <1>2 DEF LeaderRight

\* A CTA that reads the histogram reads the counts of all.
LEMMA ReadAll ==
  ASSUME Control, HistogramsRight, PrefixesRight, NEW c \in Ctas, pc[c] = "read"
  PROVE  histogram[Buffer(row[c], round[c])] = Counts(row[c], round[c], Ctas)
<1> DEFINE s == row[c]
           m == round[c]
<1>0. s \in Rows /\ ~Trivial(s) /\ m \in 0 .. NumRounds - 1 /\ s \in Nat \ {0}
  BY PrefixKnown, WhereFacts DEF Selecting
<1>1. PassedHere(c) = 2 + m
  BY DEF PassedHere, Exited
<1>2. \A d \in Ctas : row[d] >= s /\ (row[d] = s => Reached(d) >= 2 + m)
  <2> SUFFICES ASSUME NEW d \in Ctas PROVE row[d] >= s /\ (row[d] = s => Reached(d) >= 2 + m)
    OBVIOUS
  <2>0. row[d] \in Nat \ {0} /\ Rows = 1 .. Len(Launched.rows) /\ Len(Launched.rows) \in Nat /\ m \in Nat
    BY WhereFacts
  <2>1. row[d] >= s
    <3> SUFFICES ASSUME row[d] < s PROVE FALSE
      BY <1>0, <2>0
    <3>1. row[d] \in Rows
      BY <1>0, <2>0
    <3>2. PassedHere(c) = 0
      BY <1>0, <3>1, Together
    <3> QED BY <1>1, <2>0, <3>2
  <2>2. row[d] = s => Reached(d) >= PassedHere(c)
    BY <1>0, Together
  <2> QED BY <1>1, <2>1, <2>2
<1>3. \A d \in Ctas : HasAdded(d, s, m)
  <2> SUFFICES ASSUME NEW d \in Ctas PROVE HasAdded(d, s, m)
    OBVIOUS
  <2>1. CASE row[d] = s
    BY <1>0, <1>2, <2>1, ReachedFacts
  <2>2. CASE row[d] # s
    <3>1. row[d] > s
      BY <1>0, <1>2, <2>2, WhereFacts
    <3> QED BY <3>1 DEF HasAdded, HasRead, Past
  <2> QED BY <2>1, <2>2
<1>4. Ready(s, m)
  <2>0. 0 \in Ctas
    BY WhereFacts
  <2>1. CASE m > 0
    <3>1. m - 1 \in 0 .. NumRounds - 1
      BY <1>0, <2>1, WhereFacts
    <3>2. CASE row[0] = s
      <4>1. Reached(0) >= 2 + (m - 1)
        BY <1>0, <1>2, <2>0, <3>2, <3>1, ReachedFacts
      <4>2. HasCleared(s, m - 1)
        BY <1>0, <2>0, <3>1, <3>2, <4>1, ReachedFacts
      <4> QED BY <2>1, <4>2 DEF Ready
    <3>3. CASE row[0] # s
      <4>1. row[0] > s
        BY <1>0, <1>2, <2>0, <3>3, WhereFacts
      <4> QED BY <2>1, <4>1 DEF Ready, HasCleared, HasRead, Past
    <3> QED BY <3>2, <3>3
  <2>2. CASE m = 0
    BY <1>2, <2>0, <2>2 DEF Ready
  <2> QED BY <1>0, <2>1, <2>2
<1>5. ~HasRead(c, s, m)
  BY <1>0 DEF HasRead, Past, Behind
<1>6. { d \in Ctas : HasAdded(d, s, m) } = Ctas
  BY <1>3
<1> QED BY <1>0, <1>4, <1>5, <1>6 DEF HistogramsRight

\* What PrefixesRight says of CTA c.
PrefixRight(c) ==
  pc[c] \notin { "row" } \cup Exited =>
    IF Trivial(row[c]) THEN prefix[c] = 0
    ELSE /\ pc[c] \notin Selecting => round[c] = NumRounds
         /\ Fits(row[c], round[c], prefix[c])
         /\ remaining_k[c] + Cardinality(MoreThan(row[c], round[c], prefix[c])) = K(row[c])

LEMMA PrefixByRow ==
  ASSUME NEW d, PrefixRight(d), UNCHANGED <<program, launch>>,
         NEW s, s = row[d], row'[d] = s, round'[d] = round[d], prefix'[d] = prefix[d],
         remaining_k'[d] = remaining_k[d],
         \/ pc'[d] \in { "row" } \cup Exited
         \/ /\ pc[d] \notin { "row" } \cup Exited
            /\ pc[d] \in Selecting => pc'[d] \in Selecting
  PROVE  PrefixRight(d)'
<1>1. /\ K(s)' = K(s) /\ (Trivial(s)' <=> Trivial(s))
      /\ \A n, p : /\ MoreThan(s, n, p)' = MoreThan(s, n, p) /\ (Fits(s, n, p)' <=> Fits(s, n, p))
  BY SameRows
<1>2. pc'[d] \notin { "row" } \cup Exited /\ ~Trivial(s) =>
         /\ pc'[d] \notin Selecting => round[d] = NumRounds
         /\ Fits(s, round[d], prefix[d])
         /\ remaining_k[d] + Cardinality(MoreThan(s, round[d], prefix[d])) = K(s)
  BY DEF PrefixRight
<1>3. pc'[d] \notin { "row" } \cup Exited /\ Trivial(s) => prefix[d] = 0
  BY DEF PrefixRight
<1>5. PrefixRight(d)' <=>
         (pc'[d] \notin { "row" } \cup Exited =>
            IF Trivial(s)' THEN prefix'[d] = 0
            ELSE /\ pc'[d] \notin Selecting => round'[d] = NumRounds
                 /\ Fits(s, round[d], prefix[d])'
                 /\ remaining_k'[d] + Cardinality(MoreThan(s, round[d], prefix[d])') = K(s)')
  BY <1>1 DEF PrefixRight, Selecting, Exited
<1> QED BY <1>1, <1>2, <1>3, <1>5

\* A CTA starts a row, or finds a digit.
LEMMA StartPrefix ==
  ASSUME Control, NEW c \in Ctas, Step(c), pc[c] = "row", row[c] \in Rows, NEW s, s = row[c]
  PROVE  PrefixRight(c)'
<1>0. /\ UNCHANGED <<program, launch>> /\ StartRow(c) /\ LaunchRight /\ TypeOK
      /\ s \in Rows /\ K(s) \in Nat /\ row'[c] = s
  <2>1. StartRow(c) /\ UNCHANGED <<program, launch>> /\ LaunchRight /\ TypeOK
    BY ActionAt, StepHops, WhereFacts
  <2>2. UNCHANGED row
    BY <2>1, LaunchFacts DEF StartRow, Goto, Kernels
  <2> QED BY <2>1, <2>2, RowFacts
<1>1. round'[c] = 0 /\ prefix'[c] = 0 /\ remaining_k'[c] = K(s)
  BY <1>0 DEF StartRow, TypeOK
<1>2. /\ K(s)' = K(s) /\ (Trivial(s)' <=> Trivial(s)) /\ MoreThan(s, 0, 0)' = MoreThan(s, 0, 0)
      /\ (Fits(s, 0, 0)' <=> Fits(s, 0, 0))
  BY <1>0, SameRows
<1>3. ~Trivial(s) => pc'[c] = "first" /\ Fits(s, 0, 0) /\ Cardinality(MoreThan(s, 0, 0)) = 0
  <2>1. ~Trivial(s) => pc'[c] = "first"
    BY <1>0 DEF StartRow, Goto, TypeOK
  <2> QED BY <1>0, <2>1, FitsStart
<1>4. ~Trivial(s) => /\ pc'[c] \in Selecting /\ Fits(s, 0, 0)' /\ K(s)' = K(s)
                     /\ remaining_k'[c] + Cardinality(MoreThan(s, 0, 0)') = K(s)
  <2>1. K(s) + 0 = K(s)
    BY <1>0
  <2> QED BY <1>1, <1>2, <1>3, <2>1 DEF Selecting
<1> QED BY <1>0, <1>1, <1>2, <1>4 DEF PrefixRight

LEMMA ReadPrefix ==
  ASSUME Control, HistogramsRight, PrefixesRight, NEW c \in Ctas, Step(c), pc[c] = "read",
         NEW s, s = row[c], NEW m, m = round[c]
  PROVE  PrefixRight(c)'
<1> DEFINE p == prefix[c]
           k == remaining_k[c]
           h == histogram[Buffer(s, m)]
<1>0. /\ UNCHANGED <<program, launch>> /\ ReadHistogram(c) /\ LaunchRight /\ TypeOK
      /\ s \in Rows /\ ~Trivial(s) /\ m \in 0 .. NumRounds - 1 /\ p \in Values
      /\ Fits(s, m, p) /\ k \in Nat
  BY PrefixKnown, ActionAt, StepHops, WhereFacts DEF Selecting, TypeOK
<1>1. k + Cardinality(MoreThan(s, m, p)) = K(s)
  BY <1>0 DEF PrefixesRight, Exited
<1>2. h = Counts(s, m, Ctas)
  BY ReadAll
<1>3. PICK b \in Found(h, k) :
         /\ prefix'[c] = p * Radix + b /\ remaining_k'[c] = k - CountFrom(h, b + 1)
         /\ round'[c] = m + 1 /\ row'[c] = s
         /\ pc' = [pc EXCEPT ![c] = IF m + 1 < NumRounds THEN "add" ELSE AfterSelection]
  <2>1. Found(h, k) # {}
    BY <1>0, <1>1, <1>2, NextDigit
  <2> DEFINE b == CHOOSE b \in Found(h, k) : TRUE
  <2>2. b \in Found(h, k)
    BY <2>1
  <2>3. /\ prefix' = [prefix EXCEPT ![c] = @ * Radix + b]
        /\ remaining_k' = [remaining_k EXCEPT ![c] = @ - CountFrom(h, b + 1)]
        /\ round' = [round EXCEPT ![c] = @ + 1]
        /\ pc' = [pc EXCEPT ![c] = IF m + 1 < NumRounds THEN "add" ELSE AfterSelection]
        /\ row' = row
    BY <1>0, <2>1 DEF ReadHistogram, Found, CountFrom, Goto, AfterSelection
  <2> HIDE DEF b
  <2> QED BY <1>0, <2>2, <2>3 DEF TypeOK
<1> HIDE DEF h
<1>4. Fits(s, m + 1, p * Radix + b) /\ remaining_k'[c] + Cardinality(MoreThan(s, m + 1, p * Radix + b)) = K(s)
  BY <1>0, <1>1, <1>2, <1>3, NextDigit
<1>5. pc'[c] \in Selecting \/ round'[c] = NumRounds
  <2>1. m + 1 < NumRounds \/ m + 1 = NumRounds
    BY <1>0, Sizes
  <2>2. m + 1 < NumRounds => pc'[c] = "add"
    BY <1>0, <1>3 DEF TypeOK
  <2> QED BY <1>3, <2>1, <2>2 DEF Selecting
<1>6. PICK q : q = p * Radix + b
  OBVIOUS
<1>7. /\ K(s)' = K(s) /\ (Trivial(s)' <=> Trivial(s)) /\ MoreThan(s, m + 1, q)' = MoreThan(s, m + 1, q)
      /\ (Fits(s, m + 1, q)' <=> Fits(s, m + 1, q))
  BY <1>0, SameRows
<1>8. /\ row'[c] = s /\ round'[c] = m + 1 /\ prefix'[c] = q /\ Fits(s, m + 1, q)' /\ ~Trivial(s)'
      /\ remaining_k'[c] + Cardinality(MoreThan(s, m + 1, q)') = K(s)'
  BY <1>0, <1>3, <1>4, <1>6, <1>7
<1> QED BY <1>5, <1>8 DEF PrefixRight

LEMMA PrefixesStep ==
  ASSUME Control, NEW c \in Ctas, Step(c), HistogramsRight, PrefixesRight
  PROVE  PrefixesRight'
<1>0. UNCHANGED <<program, launch>> /\ TypeOK /\ PlacedAt(c)
  BY StepHops, WhereFacts
<1>1. \A d \in Ctas : PrefixRight(d)
  BY DEF PrefixesRight, PrefixRight
<1>2. ASSUME NEW d \in Ctas \ {c} PROVE PrefixRight(d)'
  <2>1. /\ pc'[d] = pc[d] /\ row'[d] = row[d] /\ round'[d] = round[d] /\ prefix'[d] = prefix[d]
        /\ remaining_k'[d] = remaining_k[d]
    BY StepHops, Frames
  <2>2. CASE pc[d] \in { "row" } \cup Exited
    BY <2>1, <2>2 DEF PrefixRight, Exited
  <2>3. CASE pc[d] \notin { "row" } \cup Exited
    BY <1>0, <1>1, <2>1, <2>3, PrefixByRow
  <2> QED BY <2>2, <2>3
<1>3. PrefixRight(c)'
  <2>1. CASE pc[c] = "row" /\ row[c] \in Rows
    BY <2>1, StartPrefix
  <2>2. CASE pc[c] = "read"
    BY <2>2, ReadPrefix
  <2>3. CASE pc'[c] \in { "row" } \cup Exited
    BY <2>3 DEF PrefixRight, Exited
  <2>4. CASE /\ pc'[c] \notin { "row" } \cup Exited
             /\ ~(pc[c] = "row" /\ row[c] \in Rows) /\ pc[c] # "read"
    <3>1. /\ row'[c] = row[c] /\ round'[c] = round[c] /\ prefix'[c] = prefix[c]
          /\ pc[c] \notin { "row" } \cup Exited
          /\ pc[c] \in Selecting => pc'[c] \in Selecting
      <4>1. CASE pc'[c] = pc[c] /\ row'[c] = row[c] /\ round'[c] = round[c] /\ prefix'[c] = prefix[c]
        BY <2>4, <4>1 DEF Exited
      <4>2. CASE /\ pc[c] \in Barriers /\ waiting[c] /\ pc'[c] = After(c)
                 /\ row'[c] = row[c] /\ round'[c] = round[c] /\ prefix'[c] = prefix[c]
        <5>1. pc[c] = "first" => pc'[c] \in {"clear_output", "add"}
          BY <4>2 DEF After
        <5>2. pc[c] = "round" => pc'[c] = "read"
          BY <4>2 DEF After
        <5> QED BY <4>2, <5>1, <5>2 DEF Barriers, Selecting, Exited
      <4>3. CASE Between(c) /\ \E l, r, n, p : /\ Going(c, l, r, n, p) /\ pc'[c] = l /\ row'[c] = r
                                   /\ round'[c] = n /\ prefix'[c] = p
        BY <2>4, <4>3 DEF Going, Selecting, Exited
      <4> QED BY <2>4, <4>1, <4>2, <4>3, StepHops DEF Hops, Exited
    <3>2. remaining_k' = remaining_k
      BY <2>4, <3>1, Frames
    <3> QED BY <1>0, <1>1, <3>1, <3>2, PrefixByRow
  <2> QED BY <2>1, <2>2, <2>3, <2>4
<1> QED BY <1>2, <1>3 DEF PrefixesRight, PrefixRight

\* At the start of a launch nothing is counted.
Fresh ==
  /\ histogram = [b \in 0 .. 2 |-> NoCounts] /\ det_scratch = NoScratch /\ output = Unwritten(launch)
  /\ \A c \in Ctas : row[c] = 1 /\ pc[c] = "row"

LEMMA FreshSelection == Control /\ Fresh => LeaderRight /\ HistogramsRight /\ PrefixesRight
<1> SUFFICES ASSUME Control, Fresh PROVE LeaderRight /\ HistogramsRight /\ PrefixesRight
  OBVIOUS
<1>0. 0 \in Ctas /\ LaunchRight
  BY WhereFacts, Sizes DEF Ctas
<1>1. LeaderRight /\ PrefixesRight
  BY DEF Fresh, LeaderRight, PrefixesRight
<1>2. ASSUME NEW r \in Rows, NEW n \in 0 .. NumRounds - 1
      PROVE  histogram[Buffer(r, n)] = Counts(r, n, { c \in Ctas : HasAdded(c, r, n) })
  <2>1. r \in Nat \ {0} /\ n \in Nat
    BY <1>0, RowFacts
  <2>2. \A c \in Ctas : ~HasAdded(c, r, n)
    BY <2>1 DEF Fresh, HasAdded, HasRead, Past, Behind, Selecting
  <2>3. { c \in Ctas : HasAdded(c, r, n) } = {}
    BY <2>2
  <2>4. histogram[Buffer(r, n)] = NoCounts
    BY <2>1, BufferType DEF Fresh
  <2> QED BY <2>3, <2>4, CountsNone
<1> QED BY <1>1, <1>2 DEF HistogramsRight

LEMMA FreshSelectionNext == (Control /\ Fresh => LeaderRight /\ HistogramsRight /\ PrefixesRight)'
BY FreshSelection, PTL

LEMMA FreshInit == Init => Fresh
BY DEF Init, Fresh

LEMMA FreshLaunch == ASSUME Control, NextLaunch PROVE Fresh'
<1>1. StateZeroed /\ AllDone
  BY DEF Control, NextLaunch
<1>2. histogram' = [b \in 0 .. 2 |-> NoCounts] /\ det_scratch' = NoScratch
  BY <1>1 DEF StateZeroed, NextLaunch, state
<1>3. output' = Unwritten(launch)'
  BY DEF NextLaunch, Unwritten, Cells
<1> QED BY <1>2, <1>3 DEF Fresh, NextLaunch, NoCounts, NoScratch

\* A row of which all is kept.
LEMMA TrivialLeading ==
  ASSUME LaunchRight, NEW r \in Rows, Trivial(r)
  PROVE  Leading(r) = DOMAIN Data(r)
<1> SUFFICES ASSUME NEW i \in DOMAIN Data(r)
             PROVE  Cardinality({ j \in DOMAIN Data(r) : Data(r)[j] > Data(r)[i] }) < K(r)
  BY DEF Leading
<1> DEFINE S == { j \in DOMAIN Data(r) : Data(r)[j] > Data(r)[i] }
<1>1. /\ IsFiniteSet(DOMAIN Data(r)) /\ K(r) \in Nat /\ Data(r)[i] \in Nat /\ Length(r) \in Nat
      /\ Cardinality(DOMAIN Data(r)) = Length(r) /\ Length(r) <= K(r)
  BY RowFacts DEF Length, Trivial
<1>2. S \subseteq DOMAIN Data(r) /\ i \notin S
  BY <1>1
<1> HIDE DEF S
<1>3. S # DOMAIN Data(r)
  BY <1>2
<1>4. Cardinality(S) < Cardinality(DOMAIN Data(r)) /\ Cardinality(S) \in Nat
  BY <1>1, <1>2, <1>3, FS_Subset, FS_CardinalityType
<1> QED BY <1>1, <1>4 DEF S

\* What a CTA knows of its chunk when it has the pivot.
LEMMA PivotKnown ==
  ASSUME Control, PrefixesRight, NEW c \in Ctas, pc[c] \in Behind, NEW s, s = row[c]
  PROVE  /\ s \in Rows /\ Kept(c) = Chunk(c, s) \cap Leading(s)
         /\ ~Trivial(s) => /\ Above(c) = Chunk(c, s) \cap Larger(s)
                           /\ Equal(c) = Chunk(c, s) \cap Border(s)
<1>0. /\ LaunchRight /\ TypeOK /\ PlacedAt(c) /\ pc[c] \notin { "row" } \cup Exited /\ pc[c] \notin Selecting
  BY WhereFacts DEF Behind, Exited, Selecting
<1>1. s \in Rows
  BY <1>0 DEF PlacedAt
<1>2. prefix[c] \in Nat /\ Chunk(c, s) \subseteq DOMAIN Data(s) /\ \A i \in DOMAIN Data(s) : Data(s)[i] \in Nat
  BY <1>0, <1>1, RowFacts, PowerFacts DEF TypeOK, Values, Chunk
<1>3. /\ Above(c) = { i \in Chunk(c, s) : Data(s)[i] > prefix[c] }
      /\ Equal(c) = { i \in Chunk(c, s) : Data(s)[i] = prefix[c] }
      /\ Kept(c) = Above(c) \cup Equal(c)
  BY DEF Above, Equal, Kept
<1>4. CASE Trivial(s)
  <2>1. prefix[c] = 0
    BY <1>0, <1>4 DEF PrefixesRight
  <2>2. Kept(c) = Chunk(c, s)
    BY <1>2, <1>3, <2>1
  <2> QED BY <1>0, <1>1, <1>2, <1>4, <2>2, TrivialLeading
<1>5. CASE ~Trivial(s)
  <2>1. Fits(s, NumRounds, prefix[c])
    BY <1>0, <1>5 DEF PrefixesRight
  <2>2. /\ Leading(s) = { i \in DOMAIN Data(s) : Data(s)[i] >= prefix[c] }
        /\ Larger(s) = { i \in DOMAIN Data(s) : Data(s)[i] > prefix[c] }
        /\ Border(s) = { i \in DOMAIN Data(s) : Data(s)[i] = prefix[c] }
    BY <1>0, <1>1, <1>2, <2>1, PivotFacts
  <2> QED BY <1>1, <1>2, <1>3, <2>2
<1> QED BY <1>4, <1>5

\* Which part of a renormalised row a CTA has reached.
LEMMA RenormPlaces ==
  ASSUME Control, Launched.kernel = "renorm", NEW d \in Ctas, NEW s \in Rows, row[d] = s
  PROVE  /\ BarriersSelecting(s) \in Nat /\ BarriersIn(s) = BarriersSelecting(s) + 2
         /\ ~Trivial(s) => BarriersSelecting(s) > 0
         /\ PassedHere(d) \in Nat /\ Reached(d) \in Nat /\ PassedHere(d) <= Reached(d)
         /\ pc[d] = "zero_sum" => PassedHere(d) = BarriersSelecting(s) /\ Reached(d) = BarriersSelecting(s)
         /\ pc[d] = "add_sum" => PassedHere(d) = BarriersSelecting(s) + 1 /\ Reached(d) = BarriersSelecting(s) + 1
         /\ pc[d] = "sum_done" => PassedHere(d) = BarriersSelecting(s) + 1
         /\ pc[d] \in {"normalize", "clear_for_next"} => PassedHere(d) = BarriersSelecting(s) + 2
         /\ Reached(d) >= BarriersSelecting(s) + 1 =>
              pc[d] \in { "sum_init", "add_sum", "sum_done", "normalize", "clear_for_next" }
         /\ Reached(d) >= BarriersSelecting(s) + 2 => pc[d] \in { "sum_done", "normalize", "clear_for_next" }
<1>0. /\ PlacedAt(d) /\ round[d] \in Nat /\ NumRounds \in Nat \ {0} /\ pc[d] \in Barriers \cup Steps /\ ~Collects
  BY WhereFacts DEF Collects
<1>1. /\ PassedHere(d) \in Nat /\ Reached(d) = PassedHere(d) + (IF waiting[d] THEN 1 ELSE 0)
  BY Together DEF Reached
<1>2. /\ BarriersSelecting(s) = (IF Trivial(s) THEN 0 ELSE 1 + NumRounds) /\ BarriersIn(s) = BarriersSelecting(s) + 2
      /\ BarriersSelecting(s) \in Nat
  BY <1>0 DEF BarriersSelecting, BarriersIn
<1>3. CASE pc[d] \in {"row"} \cup Selecting
  <2>1. pc[d] \in Selecting => round[d] < NumRounds /\ ~Trivial(s)
    BY <1>0 DEF PlacedAt, Selecting
  <2>2. waiting[d] => pc[d] \in Barriers
    BY <1>0 DEF PlacedAt
  <2>3. Reached(d) <= BarriersSelecting(s)
    <3>1. CASE pc[d] = "row"
      BY <1>1, <1>2, <2>2, <3>1 DEF PassedHere, Barriers
    <3>2. CASE pc[d] = "first"
      BY <1>0, <1>1, <1>2, <2>1, <3>2 DEF PassedHere, Selecting
    <3>3. CASE pc[d] = "clear_output"
      BY <1>0, <1>1, <1>2, <2>1, <2>2, <3>3 DEF PassedHere, Selecting, Barriers, Exited
    <3>4. CASE pc[d] \in { "add", "clear_next", "round" }
      BY <1>0, <1>1, <1>2, <2>1, <3>4 DEF PassedHere, Selecting, Exited
    <3>5. CASE pc[d] = "read"
      BY <1>0, <1>1, <1>2, <2>1, <2>2, <3>5 DEF PassedHere, Selecting, Barriers, Exited
    <3> QED BY <1>3, <3>1, <3>2, <3>3, <3>4, <3>5 DEF Selecting
  <2> QED BY <1>1, <1>2, <1>3, <2>3, <1>0 DEF Selecting
<1>4. CASE pc[d] \in { "zero_sum", "sum_init", "add_sum", "sum_done", "normalize", "clear_for_next" }
  <2>1. waiting[d] => pc[d] \in Barriers
    BY <1>0 DEF PlacedAt
  <2> QED BY <1>0, <1>1, <1>2, <1>4, <2>1 DEF PassedHere, Barriers, Exited
<1>5. pc[d] \notin { "mask", "claim", "place", "count", "emit", "collect", "page", "transform" } \cup Exited
  BY <1>0 DEF PlacedAt
<1> QED BY <1>0, <1>3, <1>4, <1>5 DEF Barriers, Steps, Selecting, Exited

\* Two CTAs in different rows.
LEMMA Ahead ==
  ASSUME Control, NEW c \in Ctas, NEW d \in Ctas, row[c] \in Rows, PassedHere(c) # 0
  PROVE  row[d] >= row[c]
<1>0. /\ row[d] \in Nat \ {0} /\ row[c] \in Nat \ {0} /\ Rows = 1 .. Len(Launched.rows)
      /\ Len(Launched.rows) \in Nat
  BY WhereFacts
<1> SUFFICES ASSUME row[d] < row[c] PROVE FALSE
  BY <1>0
<1>1. row[d] \in Rows
  BY <1>0
<1> QED BY <1>0, <1>1, Together

\* How a step changes who has added to the sum.
LEMMA SumMarks ==
  ASSUME Control, NEW c \in Ctas, Step(c), NEW d \in Ctas, NEW r \in Rows, Launched.kernel = "renorm"
  PROVE  /\ HasSummed(d, r)' <=> HasSummed(d, r) \/ (d = c /\ pc[c] = "add_sum" /\ row[c] = r)
         /\ HasWritten(d, r) => HasWritten(d, r)'
         /\ HasWritten(d, r)' => HasWritten(d, r) \/ (d = c /\ pc[c] = "normalize" /\ row[c] = r)
         /\ HasZeroed(r) => HasZeroed(r)'
         /\ HasZeroed(r)' => HasZeroed(r) \/ (c = 0 /\ pc[c] = "zero_sum" /\ row[c] = r)
<1>0. /\ PlacedAt(c) /\ r \in Nat \ {0} /\ row[c] \in Nat \ {0} /\ row[d] \in Nat \ {0} /\ ~Collects
      /\ LaunchRight /\ row[0] \in Nat \ {0} /\ 0 \in Ctas
  <2>1. PlacedAt(c) /\ LaunchRight /\ row[c] \in Nat \ {0} /\ row[d] \in Nat \ {0} /\ ~Collects
        /\ row[0] \in Nat \ {0} /\ 0 \in Ctas
    BY WhereFacts DEF Collects
  <2> QED BY <2>1, RowFacts
<1>1. CASE d # c /\ c # 0
  <2>1. pc'[d] = pc[d] /\ row'[d] = row[d] /\ pc'[0] = pc[0] /\ row'[0] = row[0]
    BY <1>0, <1>1, StepHops
  <2> QED BY <1>1, <2>1 DEF HasSummed, HasWritten, HasZeroed, Past
<1> DEFINE Late == { "sum_done", "normalize", "clear_for_next" }
           All == { "sum_init", "add_sum" } \cup Late
<1>2. /\ Past(c, r, Late)' <=> Past(c, r, Late) \/ (pc[c] = "add_sum" /\ row[c] = r)
      /\ Past(c, r, {"clear_for_next"}) => Past(c, r, {"clear_for_next"})'
      /\ Past(c, r, {"clear_for_next"})' => Past(c, r, {"clear_for_next"}) \/ (pc[c] = "normalize" /\ row[c] = r)
      /\ Past(c, r, All) => Past(c, r, All)'
      /\ Past(c, r, All)' => Past(c, r, All) \/ (pc[c] = "zero_sum" /\ row[c] = r)
  <2>1. CASE pc'[c] = pc[c] /\ row'[c] = row[c]
    <3>1. pc[c] # "add_sum" \/ row[c] # r
      <4> SUFFICES ASSUME pc[c] = "add_sum" PROVE FALSE
        OBVIOUS
      <4>1. pc' = [pc EXCEPT ![c] = "sum_done"]
        BY ActionAt DEF AddSum, Goto
      <4> QED BY <2>1, <4>1, WhereFacts DEF TypeOK
    <3> QED BY <2>1, <3>1 DEF Past
  <2>2. CASE pc[c] \in Barriers /\ waiting[c] /\ pc'[c] = After(c) /\ row'[c] = row[c]
    <3>1. pc[c] \in { "first", "round", "sum_init", "sum_done" }
      BY <1>0, <2>2 DEF PlacedAt, Barriers
    <3> QED BY <2>2, <3>1 DEF After, Past
  <2>3. CASE /\ row[c] \notin Rows /\ pc[c] \in {"row"} \cup Exited /\ pc'[c] \in Exited
             /\ row'[c] = row[c]
    BY <2>3 DEF Past, Exited
  <2>4. CASE Between(c) /\ \E l, rr, n, p : Going(c, l, rr, n, p) /\ pc'[c] = l /\ row'[c] = rr
    <3>1. pc[c] \notin { "mask", "claim", "place", "count", "emit", "collect", "page", "transform" }
      BY <1>0 DEF PlacedAt
    <3>2. row[c] + 1 > row[c] /\ (row[c] > r => row[c] + 1 > r) /\ (row[c] = r => row[c] + 1 > r)
          /\ (row[c] + 1 > r => row[c] > r \/ row[c] = r) /\ (row[c] + 1 # r \/ ~(row[c] + 1 > r)) /\ ~(row[c] > row[c])
      BY <1>0
    <3> HIDE DEF Trivial
    <3> QED BY <2>4, <3>1, <3>2, <1>0 DEF Going, AfterSelection, Past
  <2> QED BY <2>1, <2>2, <2>3, <2>4, StepHops DEF Hops
<1>3. CASE d = c /\ c # 0
  <2>1. pc'[0] = pc[0] /\ row'[0] = row[0]
    BY <1>0, <1>3, StepHops
  <2> QED BY <1>2, <1>3, <2>1 DEF HasSummed, HasWritten, HasZeroed, Past
<1>4. CASE d # c /\ c = 0
  <2>1. pc'[d] = pc[d] /\ row'[d] = row[d]
    BY <1>0, <1>4, StepHops
  <2> QED BY <1>2, <1>4, <2>1 DEF HasSummed, HasWritten, HasZeroed, Past
<1>5. CASE d = c /\ c = 0
  BY <1>2, <1>5 DEF HasSummed, HasWritten, HasZeroed
<1> QED BY <1>1, <1>3, <1>4, <1>5

\* The elements whose values a CTA adds, and the sum of those of the CTAs in S.
SumOver(r, S) == SumFunctionOnSet(Data(r), Owned(r, S) \cap Leading(r))

LEMMA SumGrow ==
  ASSUME LaunchRight, NEW r \in Rows, NEW S \in SUBSET Ctas, NEW c \in Ctas \ S
  PROVE  SumOver(r, S \cup {c}) = SumOver(r, S) + SumFunctionOnSet(Data(r), Chunk(c, r) \cap Leading(r))
<1> DEFINE A == Owned(r, S) \cap Leading(r)
           B == Chunk(c, r) \cap Leading(r)
<1>1. /\ Owned(r, S \cup {c}) = Owned(r, S) \cup Chunk(c, r)
      /\ Owned(r, S) \cap Chunk(c, r) = {} /\ Owned(r, S) \subseteq DOMAIN Data(r)
  BY OwnedFacts
<1>2. Owned(r, S \cup {c}) \cap Leading(r) = A \cup B /\ A \cap B = {}
  BY <1>1
<1>3. A \subseteq DOMAIN Data(r) /\ B \subseteq DOMAIN Data(r)
  BY <1>1 DEF Chunk
<1> HIDE DEF A, B
<1>4. IsFiniteSet(A) /\ IsFiniteSet(B)
  BY <1>3, PartFacts
<1>5. \A i \in A \cup B : Data(r)[i] \in Int
  BY <1>3, RowFacts
<1>6. SumFunctionOnSet(Data(r), A \cup B) = SumFunctionOnSet(Data(r), A) + SumFunctionOnSet(Data(r), B)
  BY <1>2, <1>4, <1>5, SumUnion
<1> QED BY <1>2, <1>6 DEF SumOver, A, B

\* Nobody needs the sum of another row when one is cleared or added to.
LEMMA SumAlone ==
  ASSUME CopiedFirst, Control, Launched.kernel = "renorm", NEW c \in Ctas,
         \/ pc[c] = "zero_sum" /\ c = 0
         \/ pc[c] = "add_sum",
         NEW r \in Rows, HasZeroed(r) \/ r = row[c], NEW d \in Ctas, ~HasWritten(d, r)
  PROVE  r = row[c] /\ (pc[c] = "add_sum" => HasZeroed(r)) /\ (pc[c] = "zero_sum" => \A e \in Ctas : ~HasSummed(e, r))
<1> DEFINE s == row[c]
           B == BarriersSelecting(s)
<1>0. /\ PlacedAt(c) /\ LaunchRight /\ 0 \in Ctas /\ s \in Rows /\ s \in Nat \ {0} /\ r \in Nat \ {0}
      /\ \A e \in Ctas : row[e] \in Nat \ {0}
  <2>1. PlacedAt(c) /\ LaunchRight /\ 0 \in Ctas /\ \A e \in Ctas : row[e] \in Nat \ {0}
    BY WhereFacts
  <2>2. s \in Rows
    BY <2>1 DEF PlacedAt, Exited
  <2> QED BY <2>1, <2>2, RowFacts
<1>1. /\ B \in Nat /\ BarriersIn(s) = B + 2 /\ (~Trivial(s) => B > 0)
      /\ pc[c] = "zero_sum" => PassedHere(c) = B /\ Reached(c) = B
      /\ pc[c] = "add_sum" => PassedHere(c) = B + 1 /\ Reached(c) = B + 1
  BY <1>0, RenormPlaces
<1>2. Trivial(s) => s = 1
  BY <1>0, CopiedFacts
<1>3. \A e \in Ctas : row[e] <= s
  <2> SUFFICES ASSUME NEW e \in Ctas, row[e] > s PROVE FALSE
    BY <1>0
  <2>1. Reached(c) = B + 2
    BY <1>0, <1>1, Together
  <2> QED BY <1>1, <2>1
<1>4. \A e \in Ctas : row[e] >= s
  <2>1. PassedHere(c) # 0 \/ s = 1
    BY <1>1, <1>2
  <2> QED BY <1>0, <2>1, Ahead
<1>5. \A e \in Ctas : row[e] = s
  BY <1>0, <1>3, <1>4
<1>6. r = s
  <2>1. CASE HasZeroed(r)
    <3>1. r <= s
      BY <1>0, <1>5, <2>1 DEF HasZeroed, Past
    <3>2. ~(s > r)
      BY <1>5 DEF HasWritten, Past
    <3> QED BY <1>0, <3>1, <3>2
  <2> QED BY <2>1
<1>7. ASSUME pc[c] = "add_sum" PROVE HasZeroed(r)
  <2>1. Reached(0) >= B + 1
    <3>1. PassedHere(c) <= Reached(0)
      BY <1>0, <1>5, Together
    <3> QED BY <1>1, <1>7, <3>1
  <2>2. pc[0] \in { "sum_init", "add_sum", "sum_done", "normalize", "clear_for_next" }
    BY <1>0, <1>5, <2>1, RenormPlaces
  <2> QED BY <1>0, <1>5, <1>6, <2>2 DEF HasZeroed, Past
<1>8. ASSUME pc[c] = "zero_sum", NEW e \in Ctas PROVE ~HasSummed(e, r)
  <2>1. PassedHere(e) <= B
    BY <1>0, <1>1, <1>5, <1>8, Together
  <2>2. pc[e] \notin { "sum_done", "normalize", "clear_for_next" }
    BY <1>0, <1>1, <1>5, <2>1, RenormPlaces
  <2>3. ~(s > s)
    BY <1>0
  <2> QED BY <1>5, <1>6, <2>2, <2>3 DEF HasSummed, Past
<1> QED BY <1>6, <1>7, <1>8

LEMMA SumStep ==
  ASSUME CopiedFirst, Control, NEW c \in Ctas, Step(c), PrefixesRight, SumRight
  PROVE  SumRight'
<1> SUFFICES ASSUME Launched'.kernel = "renorm", NEW r \in Rows', HasZeroed(r)',
                    NEW d \in Ctas, ~HasWritten(d, r)'
             PROVE  sum_topk' = SumFunctionOnSet(Data(r), Owned(r, { e \in Ctas : HasSummed(e, r) }) \cap Leading(r))'
  BY DEF SumRight
<1>0. /\ UNCHANGED <<program, launch>> /\ Launched.kernel = "renorm" /\ r \in Rows /\ LaunchRight
      /\ Data(r)' = Data(r) /\ Leading(r)' = Leading(r) /\ \A S : Owned(r, S)' = Owned(r, S)
  <2>1. UNCHANGED <<program, launch>> /\ LaunchRight
    BY StepHops, WhereFacts
  <2> QED BY <2>1, SameRows
<1>1. ~HasWritten(d, r)
  BY <1>0, SumMarks
<1> DEFINE S == { e \in Ctas : HasSummed(e, r) }
           T == { e \in Ctas : HasSummed(e, r)' }
<1>2. sum_topk' = SumOver(r, T)
  <2>1. CASE pc[c] = "zero_sum" /\ c = 0
    <3>1. sum_topk' = 0
      BY <2>1, ActionAt DEF ZeroSum
    <3>2. HasZeroed(r) \/ r = row[c]
      BY <1>0, SumMarks
    <3>3. \A e \in Ctas : ~HasSummed(e, r)
      BY <1>0, <1>1, <2>1, <3>2, SumAlone
    <3>4. T = {}
      BY <1>0, <2>1, <3>3, SumMarks
    <3>5. Owned(r, {}) \cap Leading(r) = {}
      BY DEF Owned
    <3> QED BY <3>1, <3>4, <3>5, SumEmpty DEF SumOver
  <2>2. CASE pc[c] = "add_sum"
    <3>1. HasZeroed(r) /\ row[c] = r
      <4>1. HasZeroed(r) \/ r = row[c]
        BY <1>0, SumMarks
      <4> QED BY <1>0, <1>1, <2>2, <4>1, SumAlone
    <3>2. sum_topk = SumOver(r, S)
      BY <1>0, <1>1, <3>1 DEF SumRight, SumOver
    <3>3. sum_topk' = sum_topk + SumFunctionOnSet(Data(r), Chunk(c, r) \cap Leading(r))
      <4>1. Kept(c) = Chunk(c, r) \cap Leading(r)
        BY <2>2, <3>1, PivotKnown DEF Behind
      <4>2. sum_topk' = sum_topk + SumFunctionOnSet(Data(row[c]), Kept(c))
        BY <2>2, ActionAt DEF AddSum
      <4> QED BY <3>1, <4>1, <4>2
    <3>4. c \in Ctas \ S
      <4>1. ~(r > r)
        BY <1>0, RowFacts
      <4> QED BY <2>2, <3>1, <4>1 DEF HasSummed, Past
    <3>5. T = S \cup {c}
      <4>1. \A e \in Ctas : HasSummed(e, r)' <=> HasSummed(e, r) \/ e = c
        BY <1>0, <2>2, <3>1, SumMarks
      <4> QED BY <4>1
    <3>6. SumOver(r, S \cup {c}) = SumOver(r, S) + SumFunctionOnSet(Data(r), Chunk(c, r) \cap Leading(r))
      <4>1. S \in SUBSET Ctas
        OBVIOUS
      <4> HIDE DEF S
      <4> QED BY <1>0, <3>4, <4>1, SumGrow
    <3> HIDE DEF S, T
    <3> QED BY <3>2, <3>3, <3>5, <3>6
  <2>3. CASE pc[c] # "add_sum" /\ ~(pc[c] = "zero_sum" /\ c = 0)
    <3>1. sum_topk' = sum_topk
      <4>1. pc[c] = "zero_sum" => sum_topk' = sum_topk
        BY <2>3, ActionAt DEF ZeroSum
      <4> QED BY <2>3, <4>1, Frames
    <3>2. HasZeroed(r)
      BY <1>0, <2>3, SumMarks
    <3>3. T = S
      <4>1. \A e \in Ctas : HasSummed(e, r)' <=> HasSummed(e, r)
        BY <1>0, <2>3, SumMarks
      <4> QED BY <4>1
    <3>4. sum_topk = SumOver(r, S)
      BY <1>0, <1>1, <3>2 DEF SumRight, SumOver
    <3> HIDE DEF S, T
    <3> QED BY <3>1, <3>3, <3>4
  <2> QED BY <2>1, <2>2, <2>3
<1>3. { e \in Ctas : HasSummed(e, r) }' = T
  OBVIOUS
<1>4. SumFunctionOnSet(Data(r), Owned(r, { e \in Ctas : HasSummed(e, r) }) \cap Leading(r))' = SumOver(r, T)
  <2> HIDE DEF T
  <2> QED BY <1>0, <1>3 DEF SumOver
<1> QED BY <1>2, <1>4

LEMMA WriteCells ==
  ASSUME DOMAIN output = Rows, NEW c, row[c] \in Rows, NEW cells, Write(c, cells)
  PROVE  \A x \in DOMAIN output[row[c]] :
           output'[row[c]][x] = IF x \in DOMAIN cells THEN cells[x] ELSE output[row[c]][x]
<1> DEFINE New == [x \in DOMAIN output[row[c]] |-> IF x \in DOMAIN cells THEN cells[x] ELSE output[row[c]][x]]
<1>1. output' = [output EXCEPT ![row[c]] = New]
  BY DEF Write
<1>2. output'[row[c]] = New
  <2> HIDE DEF New
  <2> QED BY <1>1
<1> QED BY <1>2

\* Of a row whose output is a chunk of each CTA, each writes its own.
LEMMA WriteOwn ==
  ASSUME DOMAIN output = Rows, NEW c \in Ctas, row[c] \in Rows, DOMAIN output[row[c]] = Ctas,
         NEW v, Write(c, [x \in {c} |-> v])
  PROVE  /\ output'[row[c]][c] = v
         /\ \A d \in Ctas \ {c} : output'[row[c]][d] = output[row[c]][d]
<1> DEFINE cells == [x \in {c} |-> v]
<1>1. DOMAIN cells = {c} /\ cells[c] = v /\ Write(c, cells)
  OBVIOUS
<1> HIDE DEF cells
<1>2. \A x \in DOMAIN output[row[c]] :
           output'[row[c]][x] = IF x \in DOMAIN cells THEN cells[x] ELSE output[row[c]][x]
  BY <1>1, WriteCells
<1> QED BY <1>1, <1>2

\* How a step changes who has written.
LEMMA WrittenMarks ==
  ASSUME Control, NEW c \in Ctas, Step(c), NEW d \in Ctas, NEW r \in Rows,
         Launched.kernel = "mask" \/ (Collects /\ Trivial(r)), HasWritten(d, r)'
  PROVE  \/ HasWritten(d, r)
         \/ d = c /\ row[c] = r /\ (pc[c] = "mask" \/ (pc[c] = "row" /\ Trivial(r)))
<1>0. /\ PlacedAt(c) /\ r \in Nat \ {0} /\ row[c] \in Nat \ {0} /\ Launched.kernel # "renorm" /\ LaunchRight
  <2>1. PlacedAt(c) /\ LaunchRight /\ row[c] \in Nat \ {0}
    BY WhereFacts
  <2> QED BY <2>1, RowFacts DEF Collects
<1>1. CASE d # c
  <2>1. pc'[d] = pc[d] /\ row'[d] = row[d]
    BY <1>1, StepHops
  <2> QED BY <2>1 DEF HasWritten, Past
<1>2. CASE d = c
  <2>0. Past(c, r, {"clear_for_next"})'
    BY <1>2 DEF HasWritten
  <2>1. CASE pc'[c] = pc[c] /\ row'[c] = row[c]
    BY <1>2, <2>0, <2>1 DEF HasWritten, Past
  <2>2. CASE pc[c] \in Barriers /\ waiting[c] /\ pc'[c] = After(c) /\ row'[c] = row[c]
    BY <1>2, <2>0, <2>2 DEF HasWritten, Past, After, Barriers
  <2>3. CASE /\ row[c] \notin Rows /\ pc[c] \in {"row"} \cup Exited /\ pc'[c] \in Exited
             /\ row'[c] = row[c]
    BY <1>2, <2>0, <2>3 DEF HasWritten, Past, Exited
  <2>4. CASE Between(c) /\ \E l, rr, n, p : Going(c, l, rr, n, p) /\ pc'[c] = l /\ row'[c] = rr
    <3>1. /\ pc[c] \notin { "zero_sum", "sum_init", "add_sum", "sum_done", "normalize" }
          /\ pc[c] \in { "claim", "place", "count", "emit", "collect", "page", "transform" } => Collects /\ ~Trivial(row[c])
      BY <1>0 DEF PlacedAt
    <3>2. row[c] + 1 > r => row[c] > r \/ row[c] = r
      BY <1>0
    <3>3. Collects => Launched.kernel # "mask"
      BY DEF Collects
    <3> HIDE DEF Trivial, Collects
    <3> QED BY <1>0, <1>2, <2>0, <2>4, <3>1, <3>2, <3>3 DEF Going, AfterSelection, HasWritten, Past
  <2> QED BY <2>1, <2>2, <2>3, <2>4, StepHops DEF Hops
<1> QED BY <1>1, <1>2

LEMMA MaskStep ==
  ASSUME Control, NEW c \in Ctas, Step(c), PrefixesRight, NEW r \in Rows, Launched.kernel = "mask",
         DOMAIN output[r] = Cells(launch, r), RowRight(r)
  PROVE  RowRight(r)'
<1>0. /\ UNCHANGED <<program, launch>> /\ LaunchRight /\ TypeOK /\ DOMAIN output = Rows
      /\ Launched'.kernel = "mask" /\ Leading(r)' = Leading(r) /\ \A d : Chunk(d, r)' = Chunk(d, r)
  <2>1. UNCHANGED <<program, launch>> /\ LaunchRight /\ TypeOK
    BY StepHops, WhereFacts
  <2> QED BY <2>1, SameRows DEF TypeOK
<1>1. DOMAIN output[r] = Ctas
  BY DEF Cells, Launched
<1>2. \A d \in Ctas : HasWritten(d, r) => output[r][d] = Chunk(d, r) \cap Leading(r)
  BY DEF RowRight, Collects
<1>3. ASSUME NEW d \in Ctas, HasWritten(d, r)'
      PROVE  output'[r][d] = Chunk(d, r) \cap Leading(r)
  <2>1. CASE row[c] = r /\ (pc[c] = "mask" \/ (pc[c] = "row" /\ Trivial(r)))
    <3> DEFINE v == Chunk(c, r) \cap Leading(r)
    <3>1. Write(c, [x \in {c} |-> v])
      <4>1. CASE pc[c] = "mask"
        <5>1. Kept(c) = Chunk(c, r) \cap Leading(r)
          BY <2>1, <4>1, PivotKnown DEF Behind
        <5>2. Write(c, [x \in {c} |-> Kept(c)])
          BY <4>1, ActionAt DEF Mask
        <5> QED BY <5>1, <5>2
      <4>2. CASE pc[c] = "row" /\ Trivial(r)
        <5>1. Chunk(c, r) = Chunk(c, r) \cap Leading(r)
          BY <1>0, <4>2, TrivialLeading DEF Chunk
        <5>2. Write(c, [x \in {c} |-> Chunk(c, r)])
          BY <2>1, <4>2, ActionAt DEF StartRow
        <5> QED BY <5>1, <5>2
      <4> QED BY <2>1, <4>1, <4>2
    <3>2. /\ output'[r][c] = Chunk(c, r) \cap Leading(r)
          /\ \A e \in Ctas \ {c} : output'[r][e] = output[r][e]
      <4> HIDE DEF v
      <4>1. /\ output'[row[c]][c] = v
            /\ \A e \in Ctas \ {c} : output'[row[c]][e] = output[row[c]][e]
        BY <1>0, <1>1, <2>1, <3>1, WriteOwn
      <4> QED BY <2>1, <4>1 DEF v
    <3> QED BY <1>2, <1>3, <3>2, WrittenMarks
  <2>2. CASE ~(row[c] = r /\ (pc[c] = "mask" \/ (pc[c] = "row" /\ Trivial(r))))
    <3>1. HasWritten(d, r)
      BY <1>3, <2>2, WrittenMarks
    <3>2. output'[r] = output[r]
      <4>1. CASE row[c] # r
        BY <4>1, Frames DEF OutputElsewhere
      <4>2. CASE row[c] = r /\ pc[c] = "row"
        BY <2>2, <4>2, ActionAt DEF StartRow
      <4>3. CASE row[c] = r /\ pc[c] # "row"
        <5>1. pc[c] \notin { "normalize", "claim", "place", "emit", "transform" }
          BY WhereFacts DEF PlacedAt, Collects
        <5> QED BY <2>2, <4>3, <5>1, Frames
      <4> QED BY <4>1, <4>2, <4>3
    <3> QED BY <1>2, <3>1, <3>2
  <2> QED BY <2>1, <2>2
<1> QED BY <1>0, <1>3 DEF RowRight, Collects

\* A CTA that normalises has the sum of all.
LEMMA SumComplete ==
  ASSUME Control, SumRight, NEW c \in Ctas, pc[c] = "normalize", NEW r, r = row[c]
  PROVE  sum_topk = SumFunctionOnSet(Data(r), Leading(r))
<1>0. /\ PlacedAt(c) /\ LaunchRight /\ 0 \in Ctas /\ r \in Rows /\ r \in Nat \ {0} /\ Launched.kernel = "renorm"
      /\ \A e \in Ctas : row[e] \in Nat \ {0}
  <2>1. PlacedAt(c) /\ LaunchRight /\ 0 \in Ctas /\ \A e \in Ctas : row[e] \in Nat \ {0}
    BY WhereFacts
  <2>2. r \in Rows /\ Launched.kernel = "renorm"
    BY <2>1 DEF PlacedAt, Exited
  <2> QED BY <2>1, <2>2, RowFacts
<1>1. BarriersSelecting(r) \in Nat /\ PassedHere(c) = BarriersSelecting(r) + 2
  BY <1>0, RenormPlaces
<1>2. ASSUME NEW e \in Ctas
      PROVE  Past(e, r, { "sum_done", "normalize", "clear_for_next" })
  <2>1. row[e] >= r
    BY <1>0, <1>1, Ahead
  <2>2. CASE row[e] = r
    <3>1. PassedHere(c) <= Reached(e)
      BY <1>0, <2>2, Together
    <3>2. Reached(e) >= BarriersSelecting(r) + 2
      BY <1>1, <3>1
    <3> QED BY <1>0, <2>2, <3>2, RenormPlaces DEF Past
  <2> QED BY <1>0, <2>1, <2>2 DEF Past
<1>3. { e \in Ctas : HasSummed(e, r) } = Ctas
  BY <1>2 DEF HasSummed
<1>4. HasZeroed(r)
  BY <1>0, <1>2 DEF HasZeroed, Past
<1>5. ~HasWritten(c, r)
  <2>1. ~(r > r)
    BY <1>0
  <2> QED BY <2>1 DEF HasWritten, Past
<1>6. Owned(r, Ctas) \cap Leading(r) = Leading(r)
  BY <1>0, OwnedFacts DEF Leading
<1> QED BY <1>0, <1>3, <1>4, <1>5, <1>6 DEF SumRight

LEMMA RenormStep ==
  ASSUME Control, NEW c \in Ctas, Step(c), PrefixesRight, SumRight, NEW r \in Rows, Launched.kernel = "renorm",
         DOMAIN output[r] = Cells(launch, r), RowRight(r)
  PROVE  RowRight(r)'
<1>0. /\ UNCHANGED <<program, launch>> /\ LaunchRight /\ TypeOK /\ DOMAIN output = Rows
      /\ Launched'.kernel = "renorm" /\ Leading(r)' = Leading(r) /\ \A d : Chunk(d, r)' = Chunk(d, r)
      /\ Data(r)' = Data(r)
  <2>1. UNCHANGED <<program, launch>> /\ LaunchRight /\ TypeOK
    BY StepHops, WhereFacts
  <2> QED BY <2>1, SameRows DEF TypeOK
<1> DEFINE w(d) == <<Chunk(d, r) \cap Leading(r), SumFunctionOnSet(Data(r), Leading(r))>>
<1>1. DOMAIN output[r] = Ctas
  BY DEF Cells, Launched
<1>2. \A d \in Ctas : HasWritten(d, r) => output[r][d] = w(d)
  BY DEF RowRight, Collects
<1>3. ASSUME NEW d \in Ctas, HasWritten(d, r)'
      PROVE  output'[r][d] = w(d)
  <2>1. CASE row[c] = r /\ pc[c] = "normalize"
    <3> DEFINE v == w(c)
    <3>1. Write(c, [x \in {c} |-> v])
      <4>1. Kept(c) = Chunk(c, r) \cap Leading(r)
        BY <2>1, PivotKnown DEF Behind
      <4>2. Write(c, [x \in {c} |-> <<Kept(c), sum_topk>>])
        BY <2>1, ActionAt DEF Normalize
      <4>3. sum_topk = SumFunctionOnSet(Data(r), Leading(r))
        BY <2>1, SumComplete
      <4> QED BY <4>1, <4>2, <4>3
    <3>2. /\ output'[r][c] = w(c)
          /\ \A e \in Ctas \ {c} : output'[r][e] = output[r][e]
      <4> HIDE DEF v
      <4>1. /\ output'[row[c]][c] = v
            /\ \A e \in Ctas \ {c} : output'[row[c]][e] = output[row[c]][e]
        BY <1>0, <1>1, <2>1, <3>1, WriteOwn
      <4> QED BY <2>1, <4>1 DEF v
    <3> QED BY <1>2, <1>3, <3>2, SumMarks
  <2>2. CASE ~(row[c] = r /\ pc[c] = "normalize")
    <3>1. HasWritten(d, r)
      BY <1>3, <2>2, SumMarks
    <3>2. output'[r] = output[r]
      <4>1. CASE row[c] # r
        BY <4>1, Frames DEF OutputElsewhere
      <4>2. CASE row[c] = r /\ pc[c] = "row"
        BY <1>0, <4>2, ActionAt DEF StartRow
      <4>3. CASE row[c] = r /\ pc[c] # "row"
        <5>1. pc[c] \notin { "mask", "claim", "place", "emit", "transform" }
          BY WhereFacts DEF PlacedAt, Collects
        <5> QED BY <2>2, <4>3, <5>1, Frames
      <4> QED BY <4>1, <4>2, <4>3
    <3> QED BY <1>2, <3>1, <3>2
  <2> QED BY <2>1, <2>2
<1> QED BY <1>0, <1>3 DEF RowRight, Collects

\* A row that is copied.
LEMMA CopiedStep ==
  ASSUME Control, NEW c \in Ctas, Step(c), NEW r \in Rows, Collects, Trivial(r),
         DOMAIN output[r] = Cells(launch, r), RowRight(r)
  PROVE  RowRight(r)'
<1>0. /\ UNCHANGED <<program, launch>> /\ LaunchRight /\ TypeOK /\ DOMAIN output = Rows
      /\ Launched'.kernel = Launched.kernel /\ \A d : Chunk(d, r)' = Chunk(d, r)
      /\ Data(r)' = Data(r) /\ Trivial(r)' /\ Collects'
  <2>1. UNCHANGED <<program, launch>> /\ LaunchRight /\ TypeOK
    BY StepHops, WhereFacts
  <2> QED BY <2>1, SameRows DEF TypeOK
<1>1. DOMAIN output[r] = DOMAIN Data(r)
  <2>1. /\ K(r) \in Nat /\ Length(r) \in Nat /\ Length(r) <= K(r) /\ DOMAIN Data(r) = 0 .. Length(r) - 1
    BY <1>0, RowFacts DEF Trivial
  <2>2. Cells(launch, r) = 0 .. Min({K(r), Length(r)}) - 1
    BY DEF Cells, Collects, Launched, K, Length, Data
  <2>3. Min({K(r), Length(r)}) = Length(r)
    <3> HIDE DEF K, Length
    <3> QED BY <2>1 DEF Min
  <2> QED BY <2>1, <2>2, <2>3
<1> DEFINE w(i) == IF Launched.kernel = "basic" THEN i ELSE Paged(i)
           mine(d) == IF Launched.kernel = "basic" THEN Chunk(d, r) ELSE DOMAIN Data(r)
<1>2. \A d \in Ctas : HasWritten(d, r) => \A i \in mine(d) : output[r][i] = w(i)
  BY DEF RowRight, Collects
<1>3. ASSUME NEW d \in Ctas, HasWritten(d, r)', NEW i \in mine(d)
      PROVE  output'[r][i] = w(i)
  <2>0. \A e : mine(e) \subseteq DOMAIN Data(r)
    BY DEF Chunk
  <2>1. CASE row[c] = r /\ pc[c] = "row"
    <3>1. Write(c, [j \in mine(c) |-> w(j)])
      <4>1. StartRow(c)
        BY <2>1, ActionAt
      <4> QED BY <2>1, <4>1 DEF StartRow, Collects
    <3> DEFINE cells == [j \in mine(c) |-> w(j)]
    <3>2. DOMAIN cells = mine(c) /\ \A j \in mine(c) : cells[j] = w(j)
      OBVIOUS
    <3>3. \A x \in DOMAIN output[row[c]] :
            output'[row[c]][x] = IF x \in DOMAIN cells THEN cells[x] ELSE output[row[c]][x]
      <4> HIDE DEF cells
      <4> QED BY <1>0, <2>1, <3>1, WriteCells DEF cells
    <3> HIDE DEF cells
    <3>4. i \in mine(c) => output'[r][i] = w(i)
      BY <1>1, <2>0, <2>1, <3>2, <3>3
    <3>5. i \notin mine(c) => output'[r][i] = output[r][i]
      BY <1>1, <1>3, <2>0, <2>1, <3>2, <3>3
    <3>6. i \notin mine(c) => output[r][i] = w(i)
      <4>1. d # c => HasWritten(d, r)
        BY <1>3, WrittenMarks
      <4> QED BY <1>2, <1>3, <4>1
    <3> QED BY <3>4, <3>5, <3>6
  <2>2. CASE ~(row[c] = r /\ pc[c] = "row")
    <3>0. ~(row[c] = r /\ pc[c] \in { "mask", "normalize", "claim", "place", "emit", "transform" })
      BY WhereFacts DEF PlacedAt, Collects
    <3>1. HasWritten(d, r)
      BY <1>3, <2>2, <3>0, WrittenMarks
    <3>2. output'[r] = output[r]
      <4>1. CASE row[c] # r
        BY <4>1, Frames DEF OutputElsewhere
      <4>2. CASE row[c] = r
        BY <2>2, <3>0, <4>2, Frames
      <4> QED BY <4>1, <4>2
    <3> QED BY <1>2, <1>3, <3>1, <3>2
  <2> QED BY <2>1, <2>2
<1>4. Launched.kernel \in {"basic", "page_table"}
  BY DEF Collects
<1> QED BY <1>0, <1>3, <1>4 DEF RowRight, Paged

\* Which part of a row with a list a CTA has reached.
LEMMA ListPlaces ==
  ASSUME Control, Collects, NEW d \in Ctas, NEW s \in Rows, ~Trivial(s), row[d] = s,
         NEW B, B = BarriersSelecting(s)
  PROVE  /\ B \in Nat /\ B > 0
         /\ BarriersIn(s) = B + (IF Launched.kernel = "page_table" THEN 2 ELSE 1)
         /\ PassedHere(d) \in Nat /\ Reached(d) \in Nat /\ PassedHere(d) <= Reached(d)
         /\ pc[d] \in {"claim", "count"} => PassedHere(d) = B /\ Reached(d) = B
         /\ pc[d] \in {"place", "emit"} => PassedHere(d) = B + 1 /\ Reached(d) = B + 1
         /\ pc[d] = "collect" => PassedHere(d) = B
         /\ pc[d] = "page" => PassedHere(d) = B + 1
         /\ pc[d] = "transform" => PassedHere(d) = B + 2
         /\ pc[d] = "clear_output" => PassedHere(d) = 1 /\ Reached(d) = 1
         /\ pc[d] \in {"row", "first"} => PassedHere(d) = 0
         /\ Reached(d) >= B => pc[d] \in { "add", "clear_next", "round", "read", "claim", "count", "collect",
                                           "place", "emit", "page", "transform" }
         /\ Reached(d) >= B + 1 => pc[d] \in { "collect", "place", "emit", "page", "transform" }
         /\ Reached(d) >= B + 2 => pc[d] \in { "page", "transform" }
         /\ pc[d] \in {"row"} \cup Selecting \cup {"claim", "count", "collect", "place", "emit", "page", "transform"}
<1>0. /\ PlacedAt(d) /\ round[d] \in Nat /\ NumRounds \in Nat \ {0} /\ pc[d] \in Barriers \cup Steps
      /\ Launched.kernel \in {"basic", "page_table"}
  BY WhereFacts DEF Collects
<1>1. /\ PassedHere(d) \in Nat /\ Reached(d) = PassedHere(d) + (IF waiting[d] THEN 1 ELSE 0)
  BY Together DEF Reached
<1>2. /\ B = 1 + NumRounds
      /\ BarriersIn(s) = B + (IF Launched.kernel = "page_table" THEN 2 ELSE 1)
  BY <1>0 DEF BarriersSelecting, BarriersIn
<1>3. waiting[d] => pc[d] \in Barriers
  BY <1>0 DEF PlacedAt
<1>4. pc[d] \notin { "mask", "zero_sum", "sum_init", "add_sum", "sum_done", "normalize", "clear_for_next" } \cup Exited
  BY <1>0 DEF PlacedAt
<1>5. pc[d] \in Selecting => round[d] < NumRounds
  BY <1>0 DEF PlacedAt
<1>6. CASE pc[d] = "row"
  BY <1>0, <1>1, <1>2, <1>3, <1>6 DEF PassedHere, Barriers
<1>7. CASE pc[d] \in {"first", "clear_output"}
  <2>1. PassedHere(d) = IF pc[d] = "first" THEN 0 ELSE 1
    BY <1>7 DEF PassedHere, Exited
  <2>2. Reached(d) < B
    BY <1>0, <1>1, <1>2, <1>3, <1>7, <2>1 DEF Barriers
  <2> QED BY <1>0, <1>1, <1>2, <1>3, <1>7, <2>1, <2>2 DEF Barriers, Selecting
<1>8. CASE pc[d] \in { "add", "clear_next", "round", "read" }
  <2>1. PassedHere(d) = IF pc[d] = "read" THEN 2 + round[d] ELSE 1 + round[d]
    BY <1>8 DEF PassedHere, Exited
  <2>2. Reached(d) <= B
    BY <1>0, <1>1, <1>2, <1>3, <1>5, <1>8, <2>1 DEF Barriers, Selecting
  <2> QED BY <1>0, <1>1, <1>2, <1>3, <1>8, <2>1, <2>2 DEF Barriers, Selecting
<1>9. CASE pc[d] \in { "claim", "count", "collect", "place", "emit", "page", "transform" }
  <2>1. PassedHere(d) = IF pc[d] \in {"claim", "count", "collect"} THEN B
                        ELSE IF pc[d] = "transform" THEN B + 2 ELSE B + 1
    BY <1>9 DEF PassedHere, Exited
  <2> QED BY <1>0, <1>1, <1>2, <1>3, <1>9, <2>1 DEF Barriers
<1> QED BY <1>0, <1>4, <1>6, <1>7, <1>8, <1>9 DEF Barriers, Steps, Selecting, Exited

\* Where the others are when one works on its list.
LEMMA ListTogether ==
  ASSUME Control, Collects, NEW c \in Ctas, NEW s, s = row[c],
         pc[c] \in {"clear_output", "claim", "count", "place", "emit", "transform"}
  PROVE  /\ s \in Rows /\ s \in Nat \ {0} /\ ~Trivial(s)
         /\ \A d \in Ctas : row[d] >= s
         /\ pc[c] \in {"clear_output", "claim", "count"} =>
              \A d \in Ctas : row[d] = s /\ pc[d] \notin {"place", "emit", "page", "transform"}
         /\ pc[c] = "clear_output" => \A d \in Ctas : pc[d] \notin {"claim", "count", "collect"}
         /\ pc[c] \in {"claim", "count"} =>
              \A d \in Ctas : pc[d] \in { "add", "clear_next", "round", "read", "claim", "count", "collect" }
         /\ pc[c] \in {"place", "emit"} =>
              /\ \A d \in Ctas : row[d] = s => pc[d] \in { "collect", "place", "emit", "page" }
              /\ Launched.kernel = "page_table" => \A d \in Ctas : row[d] = s
         /\ pc[c] = "transform" => \A d \in Ctas : row[d] = s => pc[d] \in { "page", "transform" }
<1> DEFINE B == BarriersSelecting(s)
<1>0. /\ PlacedAt(c) /\ LaunchRight /\ s \in Rows /\ s \in Nat \ {0} /\ ~Trivial(s)
      /\ \A d \in Ctas : row[d] \in Nat \ {0}
  <2>1. PlacedAt(c) /\ LaunchRight /\ \A d \in Ctas : row[d] \in Nat \ {0}
    BY WhereFacts
  <2>2. s \in Rows /\ ~Trivial(s)
    BY <2>1 DEF PlacedAt, Selecting, Exited
  <2> QED BY <2>1, <2>2, RowFacts
<1>1. /\ B \in Nat /\ B > 0
      /\ BarriersIn(s) = B + (IF Launched.kernel = "page_table" THEN 2 ELSE 1)
      /\ pc[c] \in {"claim", "count"} => PassedHere(c) = B /\ Reached(c) = B
      /\ pc[c] \in {"place", "emit"} => PassedHere(c) = B + 1 /\ Reached(c) = B + 1
      /\ pc[c] = "transform" => PassedHere(c) = B + 2
      /\ pc[c] = "clear_output" => PassedHere(c) = 1 /\ Reached(c) = 1
  BY <1>0, ListPlaces
<1>2. PassedHere(c) # 0
  BY <1>1
<1>3. \A d \in Ctas : row[d] >= s
  BY <1>0, <1>2, Ahead
<1>4. \A d \in Ctas : row[d] > s => Reached(c) = BarriersIn(s)
  BY <1>0, Together
<1>5. \A d \in Ctas : row[d] = s => PassedHere(d) <= Reached(c) /\ PassedHere(c) <= Reached(d)
  <2> SUFFICES ASSUME NEW d \in Ctas, row[d] = s PROVE PassedHere(d) <= Reached(c) /\ PassedHere(c) <= Reached(d)
    OBVIOUS
  <2> QED BY <1>0, Together
<1>6. ASSUME pc[c] \in {"clear_output", "claim", "count"}
      PROVE  \A d \in Ctas : row[d] = s /\ pc[d] \notin {"place", "emit", "page", "transform"}
  <2> SUFFICES ASSUME NEW d \in Ctas PROVE row[d] = s /\ pc[d] \notin {"place", "emit", "page", "transform"}
    OBVIOUS
  <2>1. Reached(c) <= B
    BY <1>1, <1>6
  <2>2. row[d] = s
    BY <1>0, <1>1, <1>3, <1>4, <2>1
  <2>3. PassedHere(d) <= B /\ PassedHere(d) \in Nat
    <3>1. PassedHere(d) \in Nat /\ PassedHere(d) <= Reached(c) /\ Reached(c) \in Nat
      BY <1>0, <1>5, <2>2, ListPlaces
    <3> QED BY <1>1, <2>1, <3>1
  <2>4. B # B + 1 /\ B # B + 2 /\ ~(B + 1 <= B) /\ ~(B + 2 <= B)
    BY <1>1
  <2> QED BY <1>0, <2>2, <2>3, <2>4, ListPlaces
<1>7. ASSUME pc[c] = "clear_output", NEW d \in Ctas PROVE pc[d] \notin {"claim", "count", "collect"}
  <2>1. row[d] = s
    BY <1>6, <1>7
  <2>2. PassedHere(d) <= 1 /\ B > 1
    <3>1. B = 1 + NumRounds /\ NumRounds \in Nat \ {0}
      BY <1>0, Sizes DEF BarriersSelecting
    <3> QED BY <1>1, <1>5, <1>7, <2>1, <3>1
  <2> QED BY <1>0, <1>1, <2>1, <2>2, ListPlaces
<1>8. ASSUME pc[c] \in {"claim", "count"}, NEW d \in Ctas
      PROVE  pc[d] \in { "add", "clear_next", "round", "read", "claim", "count", "collect" }
  <2>1. row[d] = s /\ pc[d] \notin {"place", "emit", "page", "transform"}
    BY <1>6, <1>8
  <2>2. Reached(d) >= B
    <3>1. Reached(d) \in Nat
      BY <1>0, <2>1, ListPlaces
    <3> QED BY <1>1, <1>5, <1>8, <2>1, <3>1
  <2> QED BY <1>0, <2>1, <2>2, ListPlaces
<1>9. ASSUME pc[c] \in {"place", "emit"}, NEW d \in Ctas, row[d] = s
      PROVE  pc[d] \in { "collect", "place", "emit", "page" }
  <2>1. PassedHere(d) <= B + 1 /\ Reached(d) >= B + 1
    <3>1. Reached(d) \in Nat /\ PassedHere(d) \in Nat
      BY <1>0, <1>9, ListPlaces
    <3> QED BY <1>1, <1>5, <1>9, <3>1
  <2>2. pc[d] # "transform"
    <3> SUFFICES ASSUME pc[d] = "transform" PROVE FALSE
      OBVIOUS
    <3>1. PassedHere(d) = B + 2
      BY <1>0, <1>9, ListPlaces
    <3> QED BY <1>1, <2>1, <3>1
  <2> QED BY <1>0, <1>9, <2>1, <2>2, ListPlaces
<1>10. ASSUME pc[c] \in {"place", "emit"}, NEW d \in Ctas, Launched.kernel = "page_table"
       PROVE  row[d] = s
  BY <1>0, <1>1, <1>3, <1>4, <1>10
<1>11. ASSUME pc[c] = "transform", NEW d \in Ctas, row[d] = s
       PROVE  pc[d] \in { "page", "transform" }
  <2>1. Reached(d) >= B + 2
    <3>1. Reached(d) \in Nat
      BY <1>0, <1>11, ListPlaces
    <3> QED BY <1>1, <1>5, <1>11, <3>1
  <2> QED BY <1>0, <1>11, <2>1, ListPlaces
<1> QED BY <1>0, <1>3, <1>6, <1>7, <1>8, <1>9, <1>10, <1>11

\* How a step changes how far the CTAs are with a list.
LEMMA OwnListMarks ==
  ASSUME Control, NEW c \in Ctas, Step(c), NEW r \in Rows, Collects, ~Trivial(r)
  PROVE  /\ HasEmitted(c, r)' <=> \/ HasEmitted(c, r)
                                  \/ row[c] = r /\ (pc[c] = "emit" \/ (pc[c] = "place" /\ pc'[c] # "place"))
         /\ Launched.deterministic =>
              (HasCounted(c, r)' <=> HasCounted(c, r) \/ (row[c] = r /\ pc[c] = "count"))
         /\ ~Launched.deterministic =>
              (HasClaimed(c, r)' <=> HasClaimed(c, r) \/ (row[c] = r /\ pc[c] = "claim"))
         /\ c = 0 => (HasOpened(r)' <=> HasOpened(r) \/ (row[c] = r /\ pc[c] = "clear_output"))
<1>0. /\ PlacedAt(c) /\ r \in Nat \ {0} /\ row[c] \in Nat \ {0} /\ LaunchRight /\ TypeOK
      /\ Launched.kernel \in {"basic", "page_table"}
  <2>1. PlacedAt(c) /\ LaunchRight /\ TypeOK /\ row[c] \in Nat \ {0}
    BY WhereFacts
  <2> QED BY <2>1, RowFacts DEF Collects
<1>1. /\ pc[c] \notin { "mask", "zero_sum", "sum_init", "add_sum", "sum_done", "normalize" }
      /\ pc[c] \in { "count", "emit" } => Launched.deterministic
      /\ pc[c] \in { "claim", "place" } => ~Launched.deterministic
  BY <1>0 DEF PlacedAt
<1> DEFINE In(places) == row[c] > r \/ (row[c] = r /\ pc[c] \in places)
           Gets(places) == row'[c] > r \/ (row'[c] = r /\ pc'[c] \in places)
           Emitted == {"page", "transform"}
           Started == {"collect", "emit", "page", "transform"}
           Claiming == {"collect", "place", "page", "transform"}
           Open == {"add", "clear_next", "round", "read"} \cup Behind
<1> DEFINE Goal == /\ Gets(Emitted) <=> \/ In(Emitted)
                                        \/ row[c] = r /\ (pc[c] = "emit" \/ (pc[c] = "place" /\ pc'[c] # "place"))
                   /\ Launched.deterministic => (Gets(Started) <=> In(Started) \/ (row[c] = r /\ pc[c] = "count"))
                   /\ ~Launched.deterministic => (Gets(Claiming) <=> In(Claiming) \/ (row[c] = r /\ pc[c] = "claim"))
                   /\ c = 0 => (Gets(Open) <=> In(Open) \/ (row[c] = r /\ pc[c] = "clear_output"))
<1>2. Goal
  <2>1. CASE pc'[c] = pc[c] /\ row'[c] = row[c]
    <3>1. pc[c] \notin {"emit", "count", "claim", "clear_output"}
      <4> SUFFICES ASSUME pc[c] \in {"emit", "count", "claim", "clear_output"} PROVE pc'[c] # pc[c]
        BY <2>1
      <4>1. \/ \E l \in {"collect", "page", "row", "add"} : pc' = [pc EXCEPT ![c] = l]
        BY ActionAt DEF Emit, Count, Claim, ClearOutputCounter, EndCollect, Goto, NextRow
      <4> QED BY <1>0, <4>1 DEF TypeOK
    <3> QED BY <2>1, <3>1
  <2>2. CASE pc[c] \in Barriers /\ waiting[c] /\ pc'[c] = After(c) /\ row'[c] = row[c]
    <3>1. pc[c] \in { "first", "round", "collect", "page" }
      BY <1>1, <2>2 DEF Barriers
    <3>2. /\ pc[c] = "first" => pc'[c] = (IF c = 0 THEN "clear_output" ELSE "add")
          /\ pc[c] = "round" => pc'[c] = "read"
          /\ pc[c] = "collect" => pc'[c] = (IF Launched.deterministic THEN "emit" ELSE "place")
          /\ pc[c] = "page" => pc'[c] = "transform"
      BY <2>2 DEF After
    <3> QED BY <2>2, <3>1, <3>2 DEF Behind
  <2>3. CASE /\ row[c] \notin Rows /\ pc[c] \in {"row"} \cup Exited /\ pc'[c] \in Exited
             /\ row'[c] = row[c]
    BY <2>3 DEF Exited
  <2>4. CASE Between(c) /\ \E l, rr, n, p : Going(c, l, rr, n, p) /\ pc'[c] = l /\ row'[c] = rr
    <3>1. row[c] + 1 > row[c] /\ (row[c] > r => row[c] + 1 > r) /\ (row[c] = r => row[c] + 1 > r)
          /\ (row[c] + 1 > r => row[c] > r \/ row[c] = r) /\ (row[c] + 1 # r \/ ~(row[c] + 1 > r)) /\ ~(row[c] > row[c])
          /\ (row[c] = r => row[c] + 1 # r) /\ ~(r > r)
      BY <1>0
    <3>2. row[c] = r => pc[c] # "clear_for_next"
      BY <1>0 DEF PlacedAt
    <3> HIDE DEF Trivial, Collects
    <3>3. CASE pc[c] = "row" \/ pc[c] \in Selecting
      BY <1>0, <1>1, <2>4, <3>1, <3>3 DEF Going, AfterSelection, Behind, Selecting
    <3>4. CASE pc[c] \in {"claim", "count", "clear_for_next", "transform"}
      BY <1>0, <1>1, <2>4, <3>1, <3>2, <3>4 DEF Going, Behind
    <3>5. CASE pc[c] \in {"place", "emit"}
      BY <1>0, <1>1, <2>4, <3>1, <3>2, <3>5 DEF Going, Behind
    <3>6. pc[c] \in {"row", "claim", "count", "clear_for_next", "transform", "place", "emit"} \cup Selecting
      BY <1>1, <2>4 DEF Going, Selecting
    <3> QED BY <3>3, <3>4, <3>5, <3>6
  <2> QED BY <2>1, <2>2, <2>3, <2>4, StepHops DEF Hops
<1>3. /\ HasEmitted(c, r) <=> In(Emitted)
      /\ HasCounted(c, r) <=> In(Started)
      /\ HasClaimed(c, r) <=> In(Claiming)
      /\ c = 0 => (HasOpened(r) <=> In(Open))
      /\ HasEmitted(c, r)' <=> Gets(Emitted)
      /\ HasCounted(c, r)' <=> Gets(Started)
      /\ HasClaimed(c, r)' <=> Gets(Claiming)
      /\ c = 0 => (HasOpened(r)' <=> Gets(Open))
  BY DEF HasEmitted, HasCounted, HasClaimed, HasOpened, Past, Behind
<1> HIDE DEF In, Gets
<1> QED BY <1>2, <1>3

LEMMA ListMarks ==
  ASSUME Control, NEW c \in Ctas, Step(c), NEW r \in Rows, Collects, ~Trivial(r), NEW d \in Ctas
  PROVE  /\ HasEmitted(d, r)' <=> \/ HasEmitted(d, r)
                                  \/ d = c /\ row[c] = r /\ (pc[c] = "emit" \/ (pc[c] = "place" /\ pc'[c] # "place"))
         /\ Launched.deterministic =>
              (HasCounted(d, r)' <=> HasCounted(d, r) \/ (d = c /\ row[c] = r /\ pc[c] = "count"))
         /\ ~Launched.deterministic =>
              (HasClaimed(d, r)' <=> HasClaimed(d, r) \/ (d = c /\ row[c] = r /\ pc[c] = "claim"))
         /\ HasOpened(r)' <=> HasOpened(r) \/ (c = 0 /\ row[c] = r /\ pc[c] = "clear_output")
<1>1. d # c => /\ HasEmitted(d, r)' <=> HasEmitted(d, r)
               /\ HasCounted(d, r)' <=> HasCounted(d, r)
               /\ HasClaimed(d, r)' <=> HasClaimed(d, r)
  <2> SUFFICES ASSUME d # c
               PROVE  /\ HasEmitted(d, r)' <=> HasEmitted(d, r)
                      /\ HasCounted(d, r)' <=> HasCounted(d, r)
                      /\ HasClaimed(d, r)' <=> HasClaimed(d, r)
    OBVIOUS
  <2>1. pc'[d] = pc[d] /\ row'[d] = row[d]
    BY StepHops
  <2> QED BY <2>1 DEF HasEmitted, HasCounted, HasClaimed, Past
<1>3. HasOpened(r)' <=> HasOpened(r) \/ (c = 0 /\ row[c] = r /\ pc[c] = "clear_output")
  <2>1. CASE c = 0
    BY <2>1, OwnListMarks
  <2>2. CASE c # 0
    <3>1. pc'[0] = pc[0] /\ row'[0] = row[0]
      BY <2>2, StepHops, WhereFacts
    <3> QED BY <2>2, <3>1 DEF HasOpened, Past
  <2> QED BY <2>1, <2>2
<1> QED BY <1>1, <1>3, OwnListMarks

\* The sizes of what a CTA knows of its chunk.
ScratchOf(e, r) == [gt |-> Cardinality(Chunk(e, r) \cap Larger(r)),
                    eq |-> Cardinality(Chunk(e, r) \cap Border(r))]

LEMMA ScratchStep ==
  ASSUME Control, NEW c \in Ctas, Step(c), PrefixesRight, ScratchRight
  PROVE  ScratchRight'
<1> SUFFICES ASSUME Collects', Launched'.deterministic, NEW r \in Rows', NEW e \in Ctas,
                    ~Trivial(r)', HasCounted(e, r)', NEW d \in Ctas, ~HasEmitted(d, r)'
             PROVE  det_scratch'[e] = ScratchOf(e, r)'
  BY DEF ScratchRight, ScratchOf
<1>0. /\ UNCHANGED <<program, launch>> /\ Collects /\ Launched.deterministic /\ r \in Rows /\ ~Trivial(r)
      /\ ScratchOf(e, r)' = ScratchOf(e, r) /\ LaunchRight /\ TypeOK /\ r \in Nat \ {0}
  <2>1. UNCHANGED <<program, launch>> /\ LaunchRight /\ TypeOK
    BY StepHops, WhereFacts
  <2>2. /\ Chunk(e, r)' = Chunk(e, r) /\ Larger(r)' = Larger(r) /\ Border(r)' = Border(r)
        /\ r \in Rows /\ Collects /\ ~Trivial(r) /\ Launched.deterministic
    BY <2>1, SameRows
  <2> QED BY <2>1, <2>2, RowFacts DEF ScratchOf
<1>1. ~HasEmitted(d, r)
  BY <1>0, ListMarks
<1>2. HasCounted(e, r) => det_scratch[e] = ScratchOf(e, r)
  BY <1>0, <1>1 DEF ScratchRight, ScratchOf
<1>3. CASE pc[c] = "count"
  <2>1. row[c] \in Nat /\ \A a \in Ctas : row[a] = row[c]
    BY <1>0, <1>3, ListTogether
  <2>2. det_scratch' = [det_scratch EXCEPT ![c] = [gt |-> Cardinality(Above(c)), eq |-> Cardinality(Equal(c))]]
    BY <1>3, ActionAt DEF Count
  <2>3. CASE e = c /\ row[c] = r
    <3>1. Above(c) = Chunk(c, r) \cap Larger(r) /\ Equal(c) = Chunk(c, r) \cap Border(r)
      BY <1>0, <1>3, <2>3, PivotKnown DEF Behind
    <3> QED BY <1>0, <2>2, <2>3, <3>1 DEF ScratchOf, TypeOK
  <2>4. CASE e # c /\ row[c] = r
    BY <1>0, <1>2, <2>2, <2>4, ListMarks DEF TypeOK
  <2>5. CASE row[c] # r
    <3>1. HasCounted(e, r)
      BY <1>0, <2>5, ListMarks
    <3>2. row[e] >= r
      BY <1>0, <2>1, <3>1 DEF HasCounted, Past
    <3>3. row[d] > r
      BY <1>0, <2>1, <2>5, <3>2
    <3> QED BY <1>1, <3>3 DEF HasEmitted, Past
  <2> QED BY <2>3, <2>4, <2>5
<1>4. CASE pc[c] # "count"
  <2>1. HasCounted(e, r)
    BY <1>0, <1>4, ListMarks
  <2>2. pc[c] # "reset"
    <3> SUFFICES ASSUME pc[c] = "reset" PROVE FALSE
      OBVIOUS
    <3>1. pc[d] \in Exited
      BY DEF Control, ResetRight, Exited
    <3>2. row[d] \notin Rows
      BY <3>1, WhereFacts DEF PlacedAt
    <3>3. row[d] > r
      BY <1>0, <3>2, WhereFacts
    <3> QED BY <1>1, <3>3 DEF HasEmitted, Past
  <2>3. det_scratch' = det_scratch
    BY <1>4, <2>2, Frames
  <2> QED BY <1>0, <1>2, <2>1, <2>3
<1> QED BY <1>3, <1>4

\* What TodoRight says of CTA c.
TodoOf(c) ==
  pc[c] \in { "collect", "place" } /\ ~Launched.deterministic =>
    /\ todo[c] \subseteq Chunk(c, row[c]) \cap Border(row[c])
    /\ pc[c] = "collect" => todo[c] = Chunk(c, row[c]) \cap Border(row[c])

LEMMA TodoKept ==
  ASSUME NEW d, TodoOf(d), UNCHANGED <<program, launch>>, NEW s, s = row[d], row'[d] = s,
         todo'[d] \subseteq todo[d], pc'[d] = "collect" => pc[d] = "collect" /\ todo'[d] = todo[d],
         pc'[d] = "place" => pc[d] \in {"collect", "place"}
  PROVE  TodoOf(d)'
<1>1. /\ Chunk(d, s)' = Chunk(d, s) /\ Border(s)' = Border(s) /\ Launched' = Launched
  BY SameRows
<1>2. TodoOf(d)' <=>
        (pc'[d] \in { "collect", "place" } /\ ~Launched'.deterministic =>
          /\ todo'[d] \subseteq Chunk(d, s)' \cap Border(s)'
          /\ pc'[d] = "collect" => todo'[d] = Chunk(d, s)' \cap Border(s)')
  BY DEF TodoOf
<1> QED BY <1>1, <1>2 DEF TodoOf

LEMMA TodoStep ==
  ASSUME Control, NEW c \in Ctas, Step(c), PrefixesRight, TodoRight
  PROVE  TodoRight'
<1>0. UNCHANGED <<program, launch>> /\ TypeOK /\ PlacedAt(c)
  BY StepHops, WhereFacts
<1>1. \A d \in Ctas : TodoOf(d)
  BY DEF TodoRight, TodoOf
<1>2. ASSUME NEW d \in Ctas \ {c} PROVE TodoOf(d)'
  <2>1. pc'[d] = pc[d] /\ row'[d] = row[d] /\ todo'[d] = todo[d]
    BY StepHops, Frames
  <2> QED BY <1>0, <1>1, <2>1, TodoKept
<1>3. TodoOf(c)'
  <2>1. CASE pc[c] = "claim"
    <3>1. PICK s : s = row[c]
      OBVIOUS
    <3>2. /\ s \in Rows /\ ~Trivial(s) /\ Equal(c) = Chunk(c, s) \cap Border(s)
      BY <1>0, <2>1, <3>1, PivotKnown DEF Behind, PlacedAt
    <3>3. todo'[c] = Equal(c) /\ row'[c] = s
      BY <1>0, <2>1, <3>1, ActionAt DEF Claim, Goto, TypeOK
    <3>4. Chunk(c, s)' = Chunk(c, s) /\ Border(s)' = Border(s)
      BY <1>0, SameRows
    <3>5. todo'[c] = Chunk(c, row[c])' \cap Border(row[c])'
      BY <3>2, <3>3, <3>4
    <3> QED BY <3>5 DEF TodoOf
  <2>2. CASE pc[c] = "place"
    <3>1. CASE Place(c)
      <4>1. PICK i \in todo[c] : todo' = [todo EXCEPT ![c] = @ \ {i}]
        BY <3>1 DEF Place
      <4>2. pc'[c] = "place" /\ row'[c] = row[c]
        BY <1>0, <3>1 DEF Place, Goto, TypeOK
      <4>3. todo'[c] \subseteq todo[c]
        BY <1>0, <4>1 DEF TypeOK
      <4> QED BY <1>0, <1>1, <2>2, <4>2, <4>3, TodoKept
    <3>2. CASE AllPlaced(c)
      <4>1. pc'[c] \in {"page", "row"}
        BY <1>0, <3>2 DEF AllPlaced, EndCollect, Goto, NextRow, TypeOK
      <4> QED BY <4>1 DEF TodoOf
    <3> QED BY <2>2, <3>1, <3>2, ActionAt
  <2>3. CASE pc[c] \notin {"claim", "place"}
    <3>1. todo' = todo
      BY <2>3, Frames
    <3>2. CASE pc'[c] \notin {"collect", "place"}
      BY <3>2 DEF TodoOf
    <3>3. CASE pc'[c] \in {"collect", "place"} /\ pc[c] = "count"
      <4>1. Launched'.deterministic
        BY <1>0, <3>3 DEF PlacedAt, Launched
      <4> QED BY <4>1 DEF TodoOf
    <3>4. CASE pc'[c] \in {"collect", "place"} /\ pc[c] # "count"
      <4>1. row'[c] = row[c] /\ (pc'[c] = "collect" => pc[c] = "collect")
            /\ (pc'[c] = "place" => pc[c] \in {"collect", "place"})
        <5>1. CASE pc[c] \in Barriers /\ pc'[c] = After(c) /\ row'[c] = row[c]
          BY <3>4, <5>1 DEF Barriers, After
        <5>2. CASE Between(c) /\ \E l, rr, n, p : Going(c, l, rr, n, p) /\ pc'[c] = l /\ row'[c] = rr
          BY <2>3, <3>4, <5>2 DEF Going, AfterSelection
        <5> QED BY <3>4, <5>1, <5>2, StepHops DEF Hops, Exited
      <4> QED BY <1>0, <1>1, <3>1, <4>1, TodoKept
    <3> QED BY <3>2, <3>3, <3>4
  <2> QED BY <2>1, <2>2, <2>3
<1> QED BY <1>2, <1>3 DEF TodoRight, TodoOf

\* The parts of a list.
LEMMA ListParts ==
  ASSUME LaunchRight, NEW r \in Rows
  PROVE  /\ Claimed(r) \subseteq Larger(r) /\ Taken(r) \subseteq Border(r)
         /\ Larger(r) \subseteq DOMAIN Data(r) /\ Border(r) \subseteq DOMAIN Data(r)
         /\ Larger(r) \cap Border(r) = {}
         /\ IsFiniteSet(Claimed(r)) /\ IsFiniteSet(Taken(r)) /\ PlacesTaken(r) \in Nat
         /\ PlacesTaken(r) = Cardinality(Claimed(r)) + Cardinality(Taken(r))
         /\ Cardinality(Claimed(r)) \in Nat /\ Cardinality(Taken(r)) \in Nat
<1>1. /\ Claimed(r) \subseteq Larger(r) /\ Taken(r) \subseteq Border(r)
      /\ Larger(r) \subseteq DOMAIN Data(r) /\ Border(r) \subseteq DOMAIN Data(r)
      /\ Larger(r) \cap Border(r) = {}
  BY DEF Claimed, Taken, Larger, Border, Leading
<1>2. /\ IsFiniteSet(Claimed(r)) /\ IsFiniteSet(Taken(r))
      /\ Cardinality(Claimed(r)) \in Nat /\ Cardinality(Taken(r)) \in Nat
  <2>1. Claimed(r) \subseteq DOMAIN Data(r) /\ Taken(r) \subseteq DOMAIN Data(r)
    BY <1>1
  <2> QED BY <2>1, PartFacts
<1> QED BY <1>1, <1>2 DEF PlacesTaken

LEMMA UntakenFacts ==
  ASSUME Control, TodoRight, Collects, ~Launched.deterministic, NEW r \in Rows, NEW d \in Ctas
  PROVE  Untaken(d, r) \subseteq Chunk(d, r) \cap Border(r)
<1>1. CASE HasEmitted(d, r)
  BY <1>1 DEF Untaken
<1>2. CASE ~HasEmitted(d, r) /\ ~HasClaimed(d, r)
  BY <1>2 DEF Untaken
<1>3. CASE ~HasEmitted(d, r) /\ HasClaimed(d, r)
  <2>1. row[d] = r /\ pc[d] \in {"collect", "place"}
    BY <1>3 DEF HasEmitted, HasClaimed, Past
  <2> QED BY <1>3, <2>1 DEF Untaken, TodoRight
<1> QED BY <1>1, <1>2, <1>3

LEMMA ClaimedStep ==
  ASSUME Control, NEW c \in Ctas, Step(c), Collects, ~Launched.deterministic, NEW r \in Rows, ~Trivial(r)
  PROVE  /\ pc[c] = "claim" /\ row[c] = r =>
              Claimed(r)' = Claimed(r) \cup (Chunk(c, r) \cap Larger(r)) /\ Claimed(r) \cap Chunk(c, r) = {}
         /\ ~(pc[c] = "claim" /\ row[c] = r) => Claimed(r)' = Claimed(r)
<1> DEFINE S == { d \in Ctas : HasClaimed(d, r) }
           T == { d \in Ctas : HasClaimed(d, r)' }
<1>0. /\ UNCHANGED <<program, launch>> /\ LaunchRight /\ Larger(r)' = Larger(r)
      /\ \A X : Owned(r, X)' = Owned(r, X)
  <2>1. UNCHANGED <<program, launch>> /\ LaunchRight
    BY StepHops, WhereFacts
  <2> QED BY <2>1, SameRows
<1>1. Claimed(r) = Owned(r, S) \cap Larger(r)
  BY DEF Claimed
<1>2. Claimed(r)' = Owned(r, T) \cap Larger(r)
  <2>1. { d \in Ctas : HasClaimed(d, r) }' = T
    OBVIOUS
  <2> HIDE DEF T
  <2> QED BY <1>0, <2>1 DEF Claimed
<1>3. CASE pc[c] = "claim" /\ row[c] = r
  <2>1. T = S \cup {c}
    <3>1. \A d \in Ctas : HasClaimed(d, r)' <=> HasClaimed(d, r) \/ d = c
      BY <1>3, ListMarks
    <3> QED BY <3>1
  <2>2. c \in Ctas \ S
    <3>1. ~(r > r)
      BY <1>0, RowFacts
    <3> QED BY <1>3, <3>1 DEF HasClaimed, Past
  <2>3. S \in SUBSET Ctas
    OBVIOUS
  <2> HIDE DEF S, T
  <2>4. /\ Owned(r, S \cup {c}) = Owned(r, S) \cup Chunk(c, r)
        /\ Owned(r, S) \cap Chunk(c, r) = {}
    BY <1>0, <2>2, <2>3, OwnedFacts
  <2> QED BY <1>1, <1>2, <1>3, <2>1, <2>4
<1>4. CASE ~(pc[c] = "claim" /\ row[c] = r)
  <2>1. T = S
    <3>1. \A d \in Ctas : HasClaimed(d, r)' <=> HasClaimed(d, r)
      BY <1>4, ListMarks
    <3> QED BY <3>1
  <2> QED BY <1>1, <1>2, <1>4, <2>1
<1> QED BY <1>3, <1>4

\* A step takes at most one of the elements that are left.
LEMMA UntakenStep ==
  ASSUME Control, NEW c \in Ctas, Step(c), PrefixesRight, TodoRight, Collects, ~Launched.deterministic,
         NEW r \in Rows, ~Trivial(r), NEW d \in Ctas
  PROVE  /\ ~(Place(c) /\ row[c] = r /\ d = c) => Untaken(d, r)' = Untaken(d, r)
         /\ Place(c) /\ row[c] = r /\ d = c => Untaken(d, r) = todo[c] /\ Untaken(d, r)' = todo'[c]
<1>0. /\ UNCHANGED <<program, launch>> /\ LaunchRight /\ Border(r)' = Border(r) /\ TypeOK
      /\ Chunk(d, r)' = Chunk(d, r) /\ r \in Nat /\ row[c] \in Nat /\ ~(r > r)
  <2>1. UNCHANGED <<program, launch>> /\ LaunchRight /\ TypeOK /\ row[c] \in Nat
    BY StepHops, WhereFacts
  <2>2. r \in Nat
    BY <2>1, RowFacts
  <2> QED BY <2>1, <2>2, SameRows
<1>1. /\ Untaken(d, r) = IF HasEmitted(d, r) THEN {}
                         ELSE IF HasClaimed(d, r) THEN todo[d] ELSE Chunk(d, r) \cap Border(r)
      /\ Untaken(d, r)' = IF HasEmitted(d, r)' THEN {}
                          ELSE IF HasClaimed(d, r)' THEN todo'[d] ELSE Chunk(d, r) \cap Border(r)
  BY <1>0 DEF Untaken
<1>2. CASE d # c \/ row[c] # r
  <2>1. (HasEmitted(d, r)' <=> HasEmitted(d, r)) /\ (HasClaimed(d, r)' <=> HasClaimed(d, r))
    BY <1>2, ListMarks
  <2>2. CASE d # c
    <3>1. todo'[d] = todo[d]
      BY <2>2, Frames
    <3> QED BY <1>1, <2>1, <2>2, <3>1
  <2>3. CASE d = c /\ row[c] # r
    <3>1. HasEmitted(d, r) \/ ~HasClaimed(d, r)
      BY <2>3 DEF HasEmitted, HasClaimed, Past
    <3> QED BY <1>1, <2>1, <2>3, <3>1
  <2> QED BY <1>2, <2>2, <2>3
<1>3. CASE d = c /\ row[c] = r /\ pc[c] = "claim"
  <2>1. ~HasEmitted(c, r) /\ ~HasClaimed(c, r)
    BY <1>0, <1>3 DEF HasEmitted, HasClaimed, Past
  <2>2. ~HasEmitted(c, r)' /\ HasClaimed(c, r)'
    BY <1>3, <2>1, ListMarks
  <2>3. todo'[c] = Chunk(c, r) \cap Border(r)
    <3>1. Equal(c) = Chunk(c, r) \cap Border(r)
      BY <1>3, PivotKnown DEF Behind
    <3>2. todo' = [todo EXCEPT ![c] = Equal(c)]
      BY <1>3, ActionAt DEF Claim
    <3> QED BY <1>0, <3>1, <3>2 DEF TypeOK
  <2>4. ~Place(c)
    BY <1>3 DEF Place, Running
  <2> QED BY <1>1, <1>3, <2>1, <2>2, <2>3, <2>4
<1>4. CASE d = c /\ row[c] = r /\ pc[c] = "place"
  <2>1. ~HasEmitted(c, r) /\ HasClaimed(c, r)
    BY <1>0, <1>4 DEF HasEmitted, HasClaimed, Past
  <2>2. CASE Place(c)
    <3>1. pc'[c] = "place"
      BY <1>0, <2>2 DEF Place, Goto, TypeOK
    <3>2. ~HasEmitted(c, r)' /\ HasClaimed(c, r)'
      BY <1>4, <2>1, <3>1, ListMarks
    <3> QED BY <1>1, <1>4, <2>1, <2>2, <3>2
  <2>3. CASE AllPlaced(c) /\ ~Place(c)
    <3>1. pc'[c] # "place" /\ todo[c] = {}
      BY <1>0, <2>3 DEF AllPlaced, EndCollect, Goto, NextRow, TypeOK
    <3>2. HasEmitted(c, r)'
      BY <1>4, <3>1, ListMarks
    <3> QED BY <1>1, <1>4, <2>1, <2>3, <3>1, <3>2
  <2> QED BY <1>4, <2>2, <2>3, ActionAt
<1>5. CASE d = c /\ row[c] = r /\ pc[c] \notin {"claim", "place"}
  <2>1. todo' = todo
    BY <1>5, Frames
  <2>2. ~Place(c)
    BY <1>5 DEF Place, Running
  <2>3. pc[c] # "emit"
    BY WhereFacts DEF PlacedAt
  <2>4. (HasEmitted(d, r)' <=> HasEmitted(d, r)) /\ (HasClaimed(d, r)' <=> HasClaimed(d, r))
    BY <1>5, <2>3, ListMarks
  <2> QED BY <1>1, <1>5, <2>1, <2>2, <2>4
<1> QED BY <1>2, <1>3, <1>4, <1>5

LEMMA TakenStep ==
  ASSUME Control, NEW c \in Ctas, Step(c), PrefixesRight, TodoRight, Collects, ~Launched.deterministic,
         NEW r \in Rows, ~Trivial(r)
  PROVE  /\ ~(Place(c) /\ row[c] = r) => Taken(r)' = Taken(r)
         /\ Place(c) /\ row[c] = r =>
              \A i \in todo[c] : todo'[c] = todo[c] \ {i} =>
                 Taken(r)' = Taken(r) \cup {i} /\ i \in Border(r) /\ i \notin Taken(r)
<1>0. /\ UNCHANGED <<program, launch>> /\ LaunchRight /\ Border(r)' = Border(r)
  <2>1. UNCHANGED <<program, launch>> /\ LaunchRight
    BY StepHops, WhereFacts
  <2> QED BY <2>1, SameRows
<1>1. /\ Taken(r) = { i \in Border(r) : \A d \in Ctas : i \notin Untaken(d, r) }
      /\ Taken(r)' = { i \in Border(r) : \A d \in Ctas : i \notin Untaken(d, r)' }
  BY <1>0 DEF Taken
<1>2. ~(Place(c) /\ row[c] = r) => \A d \in Ctas : Untaken(d, r)' = Untaken(d, r)
  BY UntakenStep
<1>3. ASSUME Place(c), row[c] = r, NEW i \in todo[c], todo'[c] = todo[c] \ {i}
      PROVE  Taken(r)' = Taken(r) \cup {i} /\ i \in Border(r) /\ i \notin Taken(r)
  <2>1. Untaken(c, r) = todo[c] /\ Untaken(c, r)' = todo[c] \ {i}
    BY <1>3, UntakenStep
  <2>2. i \in Chunk(c, r) /\ i \in Border(r)
    BY <2>1, <1>3, UntakenFacts
  <2>3. \A d \in Ctas \ {c} : Untaken(d, r)' = Untaken(d, r) /\ i \notin Untaken(d, r)
    <3> SUFFICES ASSUME NEW d \in Ctas \ {c} PROVE Untaken(d, r)' = Untaken(d, r) /\ i \notin Untaken(d, r)
      OBVIOUS
    <3>1. Untaken(d, r) \subseteq Chunk(d, r)
      BY UntakenFacts
    <3>2. Chunk(d, r) \cap Chunk(c, r) = {}
      BY <1>0, ChunksApart
    <3> QED BY <2>2, <3>1, <3>2, UntakenStep
  <2> QED BY <1>1, <1>3, <2>1, <2>2, <2>3
<1> QED BY <1>1, <1>2, <1>3

\* Nobody needs the output counter for another row.
LEMMA CounterAlone ==
  ASSUME Control, Collects, ~Launched.deterministic, NEW c \in Ctas, NEW r \in Rows, ~Trivial(r),
         \/ pc[c] = "clear_output" /\ c = 0 /\ (HasOpened(r) \/ row[c] = r)
         \/ pc[c] \in {"claim", "place"} /\ HasOpened(r),
         NEW d \in Ctas, ~HasEmitted(d, r)
  PROVE  row[c] = r
<1>1. /\ row[c] \in Nat \ {0} /\ \A e \in Ctas : row[e] >= row[c]
  BY ListTogether
<1>2. r \in Nat /\ 0 \in Ctas /\ \A e \in Ctas : row[e] \in Nat
  BY WhereFacts, RowFacts
<1>3. ~(row[c] > r)
  <2>1. row[d] <= r
    BY <1>2 DEF HasEmitted, Past
  <2> QED BY <1>1, <1>2, <2>1
<1> SUFFICES ASSUME row[c] # r PROVE FALSE
  OBVIOUS
<1>4. HasOpened(r)
  OBVIOUS
<1>5. row[0] > row[c]
  BY <1>1, <1>2, <1>3, <1>4 DEF HasOpened, Past
<1>6. CASE pc[c] \in {"clear_output", "claim"}
  <2>1. row[0] = row[c]
    BY <1>2, <1>6, ListTogether
  <2> QED BY <1>1, <1>5, <2>1
<1>7. CASE pc[c] = "place"
  <2>1. row[c] \in Rows
    BY <1>7, ListTogether
  <2>2. /\ PassedHere(0) = 0
        /\ \A s \in Rows : row[c] < s /\ s < row[0] => BarriersIn(s) = 0
    BY <1>2, <1>5, <2>1, Together
  <2>3. row[c] < r
    BY <1>1, <1>2, <1>3
  <2>4. CASE row[0] > r
    <3>1. BarriersIn(r) = 0
      BY <1>2, <2>2, <2>3, <2>4
    <3>2. BarriersIn(r) >= 1 + NumRounds /\ BarriersIn(r) \in Nat
      <4>1. BarriersSelecting(r) = 1 + NumRounds /\ LaunchRight
        BY WhereFacts DEF BarriersSelecting
      <4> QED BY <4>1, BarriersType
    <3> QED BY <3>1, <3>2, Sizes
  <2>5. CASE row[0] = r
    <3>1. pc[0] \in { "add", "clear_next", "round", "read" } \cup Behind
      BY <1>2, <1>4, <2>5 DEF HasOpened, Past
    <3>2. BarriersSelecting(r) \in Nat /\ BarriersSelecting(r) > 0 /\ round[0] \in Nat
          /\ pc[0] \in {"row"} \cup Selecting \cup {"claim", "count", "collect", "place", "emit", "page", "transform"}
      BY <1>2, <2>5, ListPlaces, WhereFacts
    <3>3. PassedHere(0) # 0
      BY <2>5, <3>1, <3>2 DEF PassedHere, Behind, Selecting, Exited
    <3> QED BY <2>2, <3>3
  <2> QED BY <1>2, <1>4, <2>4, <2>5 DEF HasOpened, Past
<1> QED BY <1>6, <1>7

\* When the output counter is cleared nothing is claimed.
LEMMA NothingTaken ==
  ASSUME Control, Collects, NEW r \in Rows,
         \A d \in Ctas : ~HasEmitted(d, r) /\ (HasClaimed(d, r) => todo[d] = Chunk(d, r) \cap Border(r))
  PROVE  Taken(r) = {}
<1>0. LaunchRight /\ Border(r) \subseteq DOMAIN Data(r)
  <2>1. LaunchRight
    BY DEF Control, TypeOK, LaunchRight
  <2> QED BY <2>1, ListParts
<1>1. \A d \in Ctas : Untaken(d, r) = Chunk(d, r) \cap Border(r)
  BY DEF Untaken
<1>2. \A i \in Border(r) : \E d \in Ctas : i \in Chunk(d, r)
  BY <1>0, OwnerExists
<1> QED BY <1>1, <1>2 DEF Taken

LEMMA OutputCounterStep ==
  ASSUME Control, NEW c \in Ctas, Step(c), PrefixesRight, TodoRight, LeaderRight, OutputCounterRight
  PROVE  OutputCounterRight'
<1> SUFFICES ASSUME Collects', ~Launched'.deterministic, NEW r \in Rows', ~Trivial(r)', HasOpened(r)',
                    NEW d \in Ctas, ~HasEmitted(d, r)'
             PROVE  output_counter' = PlacesTaken(r)'
  BY DEF OutputCounterRight
<1>0. /\ UNCHANGED <<program, launch>> /\ LaunchRight /\ TypeOK /\ Collects /\ ~Launched.deterministic
      /\ r \in Rows /\ ~Trivial(r)
  <2>1. UNCHANGED <<program, launch>> /\ LaunchRight /\ TypeOK
    BY StepHops, WhereFacts
  <2> QED BY <2>1, SameRows
<1>1. ~HasEmitted(d, r) /\ (HasOpened(r) \/ (c = 0 /\ row[c] = r /\ pc[c] = "clear_output"))
  BY <1>0, ListMarks
<1>2. HasOpened(r) => output_counter = PlacesTaken(r)
  BY <1>0, <1>1 DEF OutputCounterRight
<1>3. PlacesTaken(r)' = Cardinality(Claimed(r)') + Cardinality(Taken(r)')
  BY DEF PlacesTaken
<1>4. /\ Claimed(r) \subseteq Larger(r) /\ Taken(r) \subseteq Border(r)
      /\ Larger(r) \subseteq DOMAIN Data(r) /\ IsFiniteSet(Claimed(r)) /\ IsFiniteSet(Taken(r))
      /\ PlacesTaken(r) = Cardinality(Claimed(r)) + Cardinality(Taken(r))
      /\ Cardinality(Claimed(r)) \in Nat /\ Cardinality(Taken(r)) \in Nat
  BY <1>0, ListParts
<1>5. CASE pc[c] = "clear_output"
  <2>0. c = 0 /\ row[c] = r
    <3>1. c = 0
      BY <1>5 DEF LeaderRight
    <3> QED BY <1>0, <1>1, <1>5, <3>1, CounterAlone
  <2>1. \A e \in Ctas : ~HasEmitted(e, r) /\ ~HasClaimed(e, r)
    <3>1. \A e \in Ctas : row[e] = r /\ pc[e] \notin {"place", "emit", "page", "transform", "collect"}
      BY <1>0, <1>5, <2>0, ListTogether
    <3>2. ~(r > r)
      BY <1>0, RowFacts
    <3> QED BY <3>1, <3>2 DEF HasEmitted, HasClaimed, Past
  <2>2. Taken(r) = {}
    BY <1>0, <2>1, NothingTaken
  <2>3. Claimed(r) = {}
    <3>1. { e \in Ctas : HasClaimed(e, r) } = {}
      BY <2>1
    <3> QED BY <3>1 DEF Claimed, Owned
  <2>4. Claimed(r)' = Claimed(r) /\ Taken(r)' = Taken(r)
    <3>1. ~Place(c)
      BY <1>5 DEF Place, Running
    <3> QED BY <1>0, <1>5, <3>1, ClaimedStep, TakenStep
  <2>5. output_counter' = 0
    BY <1>5, ActionAt DEF ClearOutputCounter
  <2>6. Cardinality({}) = 0
    BY FS_EmptySet
  <2> QED BY <1>3, <2>2, <2>3, <2>4, <2>5, <2>6
<1>6. CASE pc[c] = "claim"
  <2>0. HasOpened(r)
    BY <1>1, <1>6
  <2>1. row[c] = r
    BY <1>0, <1>1, <1>6, <2>0, CounterAlone
  <2>2. Above(c) = Chunk(c, r) \cap Larger(r) /\ output_counter' = output_counter + Cardinality(Above(c))
    <3>1. Above(c) = Chunk(c, r) \cap Larger(r)
      BY <1>0, <1>6, <2>1, PivotKnown DEF Behind
    <3>2. Claim(c)
      BY <1>6, ActionAt
    <3> QED BY <3>1, <3>2 DEF Claim
  <2>3. Claimed(r)' = Claimed(r) \cup Above(c) /\ Claimed(r) \cap Above(c) = {}
    BY <1>0, <1>6, <2>1, <2>2, ClaimedStep
  <2>4. Taken(r)' = Taken(r)
    <3>1. ~Place(c)
      BY <1>6 DEF Place, Running
    <3> QED BY <1>0, <3>1, TakenStep
  <2>5. IsFiniteSet(Above(c)) /\ Cardinality(Above(c)) \in Nat
    BY <1>0, <1>4, <2>2, PartFacts
  <2>6. Cardinality(Claimed(r) \cup Above(c)) = Cardinality(Claimed(r)) + Cardinality(Above(c))
    BY <1>4, <2>3, <2>5, SizeUnion
  <2>7. output_counter = Cardinality(Claimed(r)) + Cardinality(Taken(r))
    BY <1>2, <1>4, <2>0
  <2> QED BY <1>3, <1>4, <2>2, <2>3, <2>4, <2>5, <2>6, <2>7
<1>7. CASE pc[c] = "place"
  <2>0. HasOpened(r)
    BY <1>1, <1>7
  <2>1. row[c] = r
    BY <1>0, <1>1, <1>7, <2>0, CounterAlone
  <2>2. Claimed(r)' = Claimed(r)
    BY <1>0, <1>7, ClaimedStep
  <2>3. output_counter = Cardinality(Claimed(r)) + Cardinality(Taken(r))
    BY <1>2, <1>4, <2>0
  <2>4. CASE Place(c)
    <3>1. PICK i \in todo[c] : todo' = [todo EXCEPT ![c] = @ \ {i}]
      BY <2>4 DEF Place
    <3>2. output_counter' = output_counter + 1 /\ todo'[c] = todo[c] \ {i}
      BY <1>0, <2>4, <3>1 DEF Place, TypeOK
    <3>3. Taken(r)' = Taken(r) \cup {i} /\ i \notin Taken(r)
      BY <1>0, <2>1, <2>4, <3>2, TakenStep
    <3>4. Cardinality(Taken(r) \cup {i}) = Cardinality(Taken(r)) + 1
      BY <1>4, <3>3, FS_AddElement
    <3> QED BY <1>3, <1>4, <2>2, <2>3, <3>2, <3>3, <3>4
  <2>5. CASE AllPlaced(c) /\ ~Place(c)
    <3>1. output_counter' = output_counter
      BY <2>5 DEF AllPlaced, state
    <3>2. Taken(r)' = Taken(r)
      BY <1>0, <2>5, TakenStep
    <3> QED BY <1>3, <2>2, <2>3, <3>1, <3>2
  <2> QED BY <1>7, <2>4, <2>5, ActionAt
<1>8. CASE pc[c] \notin {"clear_output", "claim", "place"}
  <2>1. output_counter' = output_counter
    BY <1>8, Frames
  <2>2. Claimed(r)' = Claimed(r) /\ Taken(r)' = Taken(r)
    <3>1. ~Place(c)
      BY <1>8 DEF Place, Running
    <3> QED BY <1>0, <1>8, <3>1, ClaimedStep, TakenStep
  <2> QED BY <1>1, <1>2, <1>3, <1>4, <1>8, <2>1, <2>2
<1> QED BY <1>5, <1>6, <1>7, <1>8

\* The place of an element among those of a set.
Rank(S, i) == Cardinality({ j \in S : j < i })

LEMMA RankFacts ==
  ASSUME NEW S \in SUBSET Nat, IsFiniteSet(S)
  PROVE  /\ \A i \in S : Rank(S, i) \in 0 .. Cardinality(S) - 1
         /\ \A i \in S, j \in S : i < j => Rank(S, i) < Rank(S, j)
<1> DEFINE Below(i) == { j \in S : j < i }
<1>1. Cardinality(S) \in Nat
  BY FS_CardinalityType
<1>2. ASSUME NEW i \in S
      PROVE  /\ IsFiniteSet(Below(i)) /\ Cardinality(Below(i)) \in Nat
             /\ IsFiniteSet(Below(i) \cup {i}) /\ Cardinality(Below(i) \cup {i}) = Cardinality(Below(i)) + 1
  <2>1. Below(i) \subseteq S /\ i \notin Below(i)
    OBVIOUS
  <2> HIDE DEF Below
  <2>2. IsFiniteSet(Below(i))
    BY <2>1, FS_Subset
  <2> QED BY <2>1, <2>2, FS_AddElement, FS_CardinalityType
<1>3. ASSUME NEW i \in S PROVE Rank(S, i) \in 0 .. Cardinality(S) - 1
  <2>1. Below(i) \cup {i} \subseteq S
    OBVIOUS
  <2> HIDE DEF Below
  <2>2. Cardinality(Below(i) \cup {i}) <= Cardinality(S)
    BY <2>1, FS_Subset
  <2>3. Rank(S, i) = Cardinality(Below(i))
    BY DEF Rank, Below
  <2> QED BY <1>1, <1>2, <2>2, <2>3
<1>4. ASSUME NEW i \in S, NEW j \in S, i < j PROVE Rank(S, i) < Rank(S, j)
  <2>0. \A e \in S : e \in Nat
    OBVIOUS
  <2>1. Below(i) \cup {i} \subseteq Below(j)
    <3> SUFFICES ASSUME NEW e \in Below(i) \cup {i} PROVE e \in S /\ e < j
      OBVIOUS
    <3>1. e \in S /\ e \in Nat /\ i \in Nat /\ j \in Nat /\ (e < i \/ e = i)
      BY <2>0
    <3> QED BY <1>4, <3>1
  <2> HIDE DEF Below
  <2>2. Cardinality(Below(i) \cup {i}) <= Cardinality(Below(j))
    BY <1>2, <2>1, FS_Subset
  <2>3. Rank(S, i) = Cardinality(Below(i)) /\ Rank(S, j) = Cardinality(Below(j))
    BY DEF Rank, Below
  <2>4. /\ Cardinality(Below(i)) \in Nat /\ Cardinality(Below(j)) \in Nat
        /\ Cardinality(Below(i) \cup {i}) = Cardinality(Below(i)) + 1
    BY <1>2
  <2> QED BY <2>2, <2>3, <2>4
<1> QED BY <1>3, <1>4

\* Every place is taken.
LEMMA RankTaken ==
  ASSUME NEW S \in SUBSET Nat, IsFiniteSet(S), NEW n \in 0 .. Cardinality(S) - 1
  PROVE  \E i \in S : Rank(S, i) = n
<1> DEFINE T == { m \in Nat : m < Cardinality(S) => \E i \in S : Rank(S, i) = m }
<1>0. Cardinality(S) \in Nat
  BY FS_CardinalityType
<1>1. 0 \in T
  <2> SUFFICES ASSUME 0 < Cardinality(S) PROVE \E i \in S : Rank(S, i) = 0
    OBVIOUS
  <2>1. S # {}
    BY FS_EmptySet
  <2>2. PICK i \in S : \A j \in S : i <= j
    BY <2>1, LeastNumber
  <2>3. { j \in S : j < i } = {}
    <3>1. \A j \in S : j \in Nat
      OBVIOUS
    <3> SUFFICES ASSUME NEW j \in S, j < i PROVE FALSE
      OBVIOUS
    <3> QED BY <2>2, <3>1
  <2> QED BY <2>3, FS_EmptySet DEF Rank
<1>2. ASSUME NEW m \in Nat, m \in T PROVE m + 1 \in T
  <2> SUFFICES ASSUME m + 1 < Cardinality(S) PROVE \E i \in S : Rank(S, i) = m + 1
    OBVIOUS
  <2>1. PICK i \in S : Rank(S, i) = m
    BY <1>0, <1>2
  <2> DEFINE Below == { j \in S : j < i }
             Over == { j \in S : j > i }
  <2>2. Below \subseteq S /\ i \notin Below
    OBVIOUS
  <2>3. IsFiniteSet(Below) /\ Cardinality(Below) = m
    BY <2>1, <2>2, FS_Subset DEF Rank
  <2>4. Cardinality(Below \cup {i}) = m + 1
    <3> HIDE DEF Below
    <3> QED BY <2>2, <2>3, FS_AddElement
  <2>5. Over # {}
    <3> SUFFICES ASSUME Over = {} PROVE FALSE
      OBVIOUS
    <3>0. \A j \in S : j \in Nat
      OBVIOUS
    <3>1. S = Below \cup {i}
      <4> SUFFICES ASSUME NEW j \in S, ~(j < i), j # i PROVE FALSE
        OBVIOUS
      <4>1. j > i
        BY <3>0
      <4> QED BY <4>1
    <3> HIDE DEF Below, Over
    <3> QED BY <1>0, <2>4, <3>1
  <2>6. PICK k \in Over : \A j \in Over : k <= j
    BY <2>5, LeastNumber
  <2>7. { j \in S : j < k } = Below \cup {i}
    <3>0. \A j \in S : j \in Nat
      OBVIOUS
    <3>1. k \in S /\ k > i /\ k \in Nat /\ i \in Nat
      BY <3>0
    <3>2. ASSUME NEW j \in S PROVE j < k <=> j < i \/ j = i
      <4>1. j > i => k <= j
        BY <2>6
      <4>2. j \in Nat
        BY <3>0
      <4> QED BY <3>1, <4>1, <4>2
    <3> QED BY <3>2
  <2> QED BY <2>4, <2>6, <2>7 DEF Rank
<1>3. Nat \subseteq T
  <2> HIDE DEF T
  <2> QED BY <1>1, <1>2, NatSetInduction
<1> QED BY <1>0, <1>3

\* Elements at consecutive places.
LEMMA PlacedFacts ==
  ASSUME NEW S \in SUBSET Nat, IsFiniteSet(S), NEW base \in Nat
  PROVE  /\ DOMAIN Placed(S, base) = base .. base + Cardinality(S) - 1
         /\ \A x \in DOMAIN Placed(S, base) : Placed(S, base)[x] \in S /\ Rank(S, Placed(S, base)[x]) = x - base
         /\ \A i \in S : /\ base + Rank(S, i) \in DOMAIN Placed(S, base)
                         /\ Placed(S, base)[base + Rank(S, i)] = i
         /\ \A x \in DOMAIN Placed(S, base), y \in DOMAIN Placed(S, base) :
              Placed(S, base)[x] = Placed(S, base)[y] => x = y
<1>0. Cardinality(S) \in Nat
  BY FS_CardinalityType
<1>1. Placed(S, base) = [x \in base .. base + Cardinality(S) - 1 |-> CHOOSE i \in S : Rank(S, i) = x - base]
  BY DEF Placed, Rank
<1>2. DOMAIN Placed(S, base) = base .. base + Cardinality(S) - 1
  BY <1>1
<1>3. ASSUME NEW x \in DOMAIN Placed(S, base)
      PROVE  Placed(S, base)[x] \in S /\ Rank(S, Placed(S, base)[x]) = x - base
  <2>1. x - base \in 0 .. Cardinality(S) - 1
    BY <1>0, <1>2
  <2>2. \E i \in S : Rank(S, i) = x - base
    BY <2>1, RankTaken
  <2>3. Placed(S, base)[x] = CHOOSE i \in S : Rank(S, i) = x - base
    BY <1>1, <1>2
  <2> QED BY <2>2, <2>3
<1>4. ASSUME NEW i \in S
      PROVE  base + Rank(S, i) \in DOMAIN Placed(S, base) /\ Placed(S, base)[base + Rank(S, i)] = i
  <2>1. Rank(S, i) \in 0 .. Cardinality(S) - 1
    BY RankFacts
  <2>2. base + Rank(S, i) \in DOMAIN Placed(S, base)
    BY <1>0, <1>2, <2>1
  <2> DEFINE j == Placed(S, base)[base + Rank(S, i)]
  <2>3. j \in S /\ Rank(S, j) = Rank(S, i)
    <3> DEFINE x == base + Rank(S, i)
    <3>2. x \in DOMAIN Placed(S, base) /\ x - base = Rank(S, i)
      BY <2>1, <2>2
    <3> HIDE DEF x
    <3>3. Placed(S, base)[x] \in S /\ Rank(S, Placed(S, base)[x]) = x - base
      BY <1>3, <3>2
    <3> QED BY <3>2, <3>3 DEF x
  <2> HIDE DEF j
  <2>4. i \in Nat /\ j \in Nat /\ Rank(S, i) \in Nat /\ Rank(S, j) \in Nat
    BY <2>1, <2>3
  <2>5. i = j
    BY <2>3, <2>4, RankFacts
  <2> QED BY <2>2, <2>5 DEF j
<1>5. ASSUME NEW x \in DOMAIN Placed(S, base), NEW y \in DOMAIN Placed(S, base),
             Placed(S, base)[x] = Placed(S, base)[y]
      PROVE  x = y
  <2>1. x - base = y - base
    BY <1>3, <1>5
  <2> QED BY <1>0, <1>2, <2>1
<1> QED BY <1>2, <1>3, <1>4, <1>5

\* The shares of the CTAs in the output of a row.
ShareSize(r) == (K(r) + NumCtas - 1) \div NumCtas

LEMMA ShareFacts ==
  ASSUME LaunchRight, NEW r \in Rows, Collects, ~Trivial(r), DOMAIN output[r] = Cells(launch, r)
  PROVE  /\ DOMAIN output[r] = 0 .. K(r) - 1
         /\ \A d \in Ctas : Share(d, r) = { x \in DOMAIN output[r] : d * ShareSize(r) <= x /\ x < (d + 1) * ShareSize(r) }
         /\ \A d \in Ctas, e \in Ctas : d # e => Share(d, r) \cap Share(e, r) = {}
         /\ \A x \in DOMAIN output[r] : \E d \in Ctas : x \in Share(d, r)
<1>0. /\ K(r) \in Nat \ {0} /\ Length(r) \in Nat /\ NumCtas \in Nat \ {0} /\ K(r) < Length(r)
      /\ \A d \in Ctas : d \in Nat /\ d < NumCtas
  BY RowFacts, Sizes DEF Trivial, Ctas
<1>1. DOMAIN output[r] = 0 .. K(r) - 1
  <2>1. Cells(launch, r) = 0 .. Min({K(r), Length(r)}) - 1
    BY DEF Cells, Collects, Launched, K, Length, Data
  <2>2. Min({K(r), Length(r)}) = K(r)
    <3> HIDE DEF K, Length
    <3> QED BY <1>0 DEF Min
  <2> QED BY <2>1, <2>2
<1>2. \A d \in Ctas : Share(d, r) = { x \in DOMAIN output[r] : d * ShareSize(r) <= x /\ x < (d + 1) * ShareSize(r) }
  BY DEF Share, ShareSize
<1> DEFINE w == ShareSize(r)
           k == K(r)
           N == NumCtas
<1>3. w \in Nat /\ w * N <= k + N - 1 /\ k + N - 1 < (w + 1) * N
  <2>1. k + N - 1 \in Nat
    BY <1>0
  <2> QED BY <1>0, <2>1, DivBounds DEF ShareSize
<1> HIDE DEF w, k, N
<1>4. k \in Nat \ {0} /\ N \in Nat \ {0} /\ (w + 1) * N = w * N + N /\ w * N \in Nat /\ k <= w * N
  <2>1. k \in Nat \ {0} /\ N \in Nat \ {0}
    BY <1>0 DEF k, N
  <2>2. (w + 1) * N = w * N + N /\ w * N \in Nat
    BY <1>3, <2>1
  <2> QED BY <1>3, <2>1, <2>2
<1>5. w # 0
  <2> SUFFICES ASSUME w = 0 PROVE FALSE
    OBVIOUS
  <2>1. w * N = 0
    BY <1>4
  <2> QED BY <1>4, <2>1
<1>6. ASSUME NEW d \in Ctas, NEW e \in Ctas, d < e, NEW x, x \in Share(d, r), x \in Share(e, r)
      PROVE  FALSE
  <2>1. x \in Nat /\ x < (d + 1) * w /\ e * w <= x
    BY <1>0, <1>1, <1>2, <1>6 DEF w
  <2>2. PICK f \in Nat : e = d + 1 + f
    <3>1. e - (d + 1) \in Nat /\ e = d + 1 + (e - (d + 1))
      BY <1>0, <1>6
    <3> QED BY <3>1
  <2>3. e * w = (d + 1) * w + f * w /\ f * w \in Nat /\ (d + 1) * w \in Nat
    BY <1>0, <1>3, <2>2
  <2> QED BY <2>1, <2>3
<1>7. \A d \in Ctas, e \in Ctas : d # e => Share(d, r) \cap Share(e, r) = {}
  <2> SUFFICES ASSUME NEW d \in Ctas, NEW e \in Ctas, d # e, NEW x \in Share(d, r) \cap Share(e, r)
               PROVE  FALSE
    OBVIOUS
  <2>1. d < e \/ e < d
    BY <1>0
  <2> QED BY <1>6, <2>1
<1>8. ASSUME NEW x \in DOMAIN output[r] PROVE \E d \in Ctas : x \in Share(d, r)
  <2>0. x \in Nat /\ x < k
    BY <1>0, <1>1 DEF k
  <2> DEFINE d == x \div w
  <2>1. d \in Nat /\ d * w <= x /\ x < (d + 1) * w
    BY <1>3, <1>5, <2>0, DivBounds
  <2> HIDE DEF d
  <2>2. d < N
    <3> SUFFICES ASSUME d >= N PROVE FALSE
      BY <1>4, <2>1
    <3>1. PICK f \in Nat : d = N + f
      <4>1. d - N \in Nat /\ d = N + (d - N)
        BY <1>4, <2>1
      <4> QED BY <4>1
    <3>2. d * w = w * N + f * w /\ f * w \in Nat
      BY <1>3, <1>4, <3>1
    <3> QED BY <1>4, <2>0, <2>1, <3>2
  <2>3. d \in Ctas
    BY <1>4, <2>1, <2>2 DEF Ctas, N
  <2> QED BY <1>2, <1>8, <2>1, <2>3 DEF w
<1> QED BY <1>1, <1>2, <1>7, <1>8

\* The places of a list that have been sent through the page table.
Sent(r, x) == Launched.kernel = "page_table" /\ \E d \in Ctas : row[d] > r /\ x \in Share(d, r)

LEMMA ListedSent ==
  ASSUME NEW r, NEW x PROVE Listed(r, x) = IF Sent(r, x) THEN Unpaged(output[r][x]) ELSE output[r][x]
BY DEF Listed, Sent

\* A CTA leaves a row of the page table kernel when it has sent its share.
LEMMA LeavesRow ==
  ASSUME Control, NEW c \in Ctas, Step(c), Launched.kernel = "page_table", NEW r \in Rows, ~Trivial(r), NEW d \in Ctas
  PROVE  row'[d] > r <=> row[d] > r \/ (d = c /\ row[c] = r /\ pc[c] = "transform")
<1>0. /\ PlacedAt(c) /\ r \in Nat \ {0} /\ row[c] \in Nat \ {0} /\ LaunchRight /\ TypeOK
  <2>1. PlacedAt(c) /\ LaunchRight /\ TypeOK /\ row[c] \in Nat \ {0}
    BY WhereFacts
  <2> QED BY <2>1, RowFacts
<1>1. CASE d # c
  <2>1. row'[d] = row[d]
    BY <1>1, StepHops
  <2> QED BY <1>1, <2>1
<1>2. CASE d = c /\ row'[c] = row[c]
  <2>1. pc[c] # "transform"
    <3> SUFFICES ASSUME pc[c] = "transform" PROVE FALSE
      OBVIOUS
    <3>1. row' = [row EXCEPT ![c] = @ + 1]
      BY ActionAt DEF Transform, NextRow
    <3>2. row'[c] = row[c] + 1
      BY <1>0, <3>1 DEF TypeOK
    <3> QED BY <1>0, <1>2, <3>2
  <2> QED BY <1>2, <2>1
<1>3. CASE d = c /\ row'[c] # row[c]
  <2>1. /\ row'[c] = row[c] + 1
        /\ \/ pc[c] \in {"clear_for_next", "mask", "transform"}
           \/ pc[c] = "normalize" /\ ~Trivial(row[c])
    BY <1>3, StepHops DEF Hops, Going
  <2>2. pc[c] = "transform" \/ Trivial(row[c])
    BY <1>0, <2>1 DEF PlacedAt
  <2>3. row[c] = r => pc[c] = "transform"
    BY <2>2
  <2>4. pc[c] = "clear_for_next" \/ pc[c] = "transform"
    BY <1>0, <2>1 DEF PlacedAt
  <2> QED BY <1>0, <1>3, <2>1, <2>3
<1> QED BY <1>1, <1>2, <1>3

LEMMA SentStep ==
  ASSUME Control, NEW c \in Ctas, Step(c), Collects, NEW r \in Rows, ~Trivial(r)
  PROVE  /\ DOMAIN output'[r] = DOMAIN output[r] /\ \A d : Share(d, r)' = Share(d, r)
         /\ \A x : Sent(r, x)' <=> \/ Sent(r, x)
                                   \/ row[c] = r /\ pc[c] = "transform" /\ x \in Share(c, r)
<1>0. UNCHANGED <<program, launch>> /\ TypeOK /\ PlacedAt(c) /\ DOMAIN output'[r] = DOMAIN output[r]
  BY StepHops, WhereFacts, Frames DEF OutputElsewhere
<1>1. Launched' = Launched /\ K(r)' = K(r)
  BY <1>0, SameRows
<1>2. \A d : Share(d, r)' = Share(d, r)
  BY <1>0, <1>1 DEF Share
<1>3. row[c] = r /\ pc[c] = "transform" => Launched.kernel = "page_table"
  BY <1>0 DEF PlacedAt
<1>4. ASSUME NEW x
      PROVE  Sent(r, x)' <=> Sent(r, x) \/ (row[c] = r /\ pc[c] = "transform" /\ x \in Share(c, r))
  <2>1. Sent(r, x)' <=> Launched.kernel = "page_table" /\ \E d \in Ctas : row'[d] > r /\ x \in Share(d, r)
    BY <1>1, <1>2 DEF Sent
  <2>2. CASE Launched.kernel = "page_table"
    <3>1. \A d \in Ctas : row'[d] > r <=> row[d] > r \/ (d = c /\ row[c] = r /\ pc[c] = "transform")
      BY <2>2, LeavesRow
    <3> QED BY <2>1, <2>2, <3>1 DEF Sent
  <2>3. CASE Launched.kernel # "page_table"
    BY <1>3, <2>1, <2>3 DEF Sent
  <2> QED BY <2>2, <2>3
<1> QED BY <1>0, <1>2, <1>4

\* Steps that do not work on the list.
LEMMA ListedKept ==
  ASSUME Control, NEW c \in Ctas, Step(c), Collects, NEW r \in Rows, ~Trivial(r),
         ~(row[c] = r /\ pc[c] \in {"claim", "place", "emit", "transform"}), NEW x
  PROVE  Listed(r, x)' = Listed(r, x)
<1>1. output'[r] = output[r]
  <2>1. CASE row[c] # r
    BY <2>1, Frames DEF OutputElsewhere
  <2>2. CASE row[c] = r /\ pc[c] = "row"
    BY <2>2, ActionAt DEF StartRow
  <2>3. CASE row[c] = r /\ pc[c] # "row"
    <3>1. pc[c] \notin { "mask", "normalize" }
      BY WhereFacts DEF PlacedAt, Collects
    <3> QED BY <2>3, <3>1, Frames
  <2> QED BY <2>1, <2>2, <2>3
<1>2. Sent(r, x)' <=> Sent(r, x)
  BY SentStep
<1>3. Listed(r, x)' = IF Sent(r, x)' THEN Unpaged(output'[r][x]) ELSE output'[r][x]
  BY DEF Listed, Sent, Unpaged, Paged
<1> QED BY <1>1, <1>2, <1>3, ListedSent

\* Sending a place through the page table.
LEMMA ListedTransformed ==
  ASSUME Control, NEW c \in Ctas, Step(c), Collects, NEW r \in Rows, ~Trivial(r),
         row[c] = r, pc[c] = "transform", DOMAIN output[r] = Cells(launch, r),
         NEW x \in DOMAIN output[r], Listed(r, x) \in Nat, Listed(r, x) # None
  PROVE  Listed(r, x)' = Listed(r, x)
<1>0. /\ LaunchRight /\ TypeOK /\ DOMAIN output = Rows /\ r \in Nat \ {0} /\ Launched.kernel = "page_table"
  <2>1. LaunchRight /\ TypeOK /\ PlacedAt(c)
    BY WhereFacts
  <2> QED BY <2>1, RowFacts DEF TypeOK, PlacedAt
<1>1. Listed(r, x)' = IF Sent(r, x)' THEN Unpaged(output'[r][x]) ELSE output'[r][x]
  BY DEF Listed, Sent, Unpaged, Paged
<1>2. Write(c, [y \in Share(c, r) |-> IF output[r][y] = None THEN None ELSE Paged(output[r][y])])
  BY ActionAt DEF Transform, Share
<1> DEFINE cells == [y \in Share(c, r) |-> IF output[r][y] = None THEN None ELSE Paged(output[r][y])]
<1>3. DOMAIN cells = Share(c, r) /\ (x \in Share(c, r) => cells[x] = IF output[r][x] = None THEN None ELSE Paged(output[r][x]))
  OBVIOUS
<1>4. output'[r][x] = IF x \in DOMAIN cells THEN cells[x] ELSE output[r][x]
  <2> HIDE DEF cells
  <2> QED BY <1>0, <1>2, WriteCells DEF cells
<1> HIDE DEF cells
<1>5. Sent(r, x)' <=> Sent(r, x) \/ x \in Share(c, r)
  BY SentStep
<1>6. CASE x \notin Share(c, r)
  BY <1>1, <1>3, <1>4, <1>5, <1>6, ListedSent
<1>7. CASE x \in Share(c, r)
  <2>1. ~Sent(r, x)
    <3> SUFFICES ASSUME NEW d \in Ctas, row[d] > r, x \in Share(d, r) PROVE FALSE
      BY DEF Sent
    <3>1. d # c
      BY <1>0
    <3> QED BY <1>0, <1>7, <3>1, ShareFacts
  <2>2. Listed(r, x) = output[r][x]
    BY <2>1, ListedSent
  <2>3. output'[r][x] = Paged(output[r][x])
    BY <1>3, <1>4, <1>7, <2>2
  <2>4. Listed(r, x)' = Unpaged(Paged(output[r][x]))
    BY <1>1, <1>5, <1>7, <2>3
  <2> QED BY <2>2, <2>4 DEF Unpaged, Paged
<1> QED BY <1>6, <1>7

\* Writing to a list.
LEMMA ListedWritten ==
  ASSUME Control, NEW c \in Ctas, Step(c), Collects, NEW r \in Rows, ~Trivial(r),
         row[c] = r, pc[c] \in {"claim", "place", "emit"},
         NEW cells, Write(c, cells), NEW x \in DOMAIN output[r]
  PROVE  /\ Listed(r, x)' = IF x \in DOMAIN cells THEN cells[x] ELSE Listed(r, x)
         /\ Listed(r, x) = output[r][x]
<1>0. /\ TypeOK /\ DOMAIN output = Rows /\ r \in Nat
  <2>1. LaunchRight /\ TypeOK
    BY WhereFacts
  <2> QED BY <2>1, RowFacts DEF TypeOK
<1>1. output'[r][x] = IF x \in DOMAIN cells THEN cells[x] ELSE output[r][x]
  BY <1>0, WriteCells
<1>2. ~Sent(r, x)
  <2>1. Launched.kernel = "page_table" => \A d \in Ctas : row[d] = r
    BY ListTogether
  <2> QED BY <1>0, <2>1 DEF Sent
<1>3. ~Sent(r, x)'
  BY <1>2, SentStep
<1>4. Listed(r, x)' = IF Sent(r, x)' THEN Unpaged(output'[r][x]) ELSE output'[r][x]
  BY DEF Listed, Sent, Unpaged, Paged
<1> QED BY <1>1, <1>2, <1>3, <1>4, ListedSent

\* The list of a row, as far as its places are taken: f says what is at a place.
IsList(f, places, claimed, taken) ==
  /\ \A x \in places : f[x] \in claimed \cup taken
  /\ \A x, y \in places : f[x] = f[y] => x = y
  /\ \A i \in claimed : \E x \in places : f[x] = i

ListOf(r) == [x \in DOMAIN output[r] |-> Listed(r, x)]
PlacesOf(r) == { x \in DOMAIN output[r] : x < PlacesTaken(r) }

LEMMA ListRightIs ==
  ASSUME NEW r, ~Launched.deterministic
  PROVE  ListRight(r) <=> IsList(ListOf(r), PlacesOf(r), Claimed(r), Taken(r))
<1>1. \A x \in PlacesOf(r) : ListOf(r)[x] = Listed(r, x)
  BY DEF ListOf, PlacesOf
<1>2. ListRight(r) <=> /\ \A x \in PlacesOf(r) : Listed(r, x) \in Claimed(r) \cup Taken(r)
                       /\ \A x, y \in PlacesOf(r) : Listed(r, x) = Listed(r, y) => x = y
                       /\ \A i \in Claimed(r) : \E x \in PlacesOf(r) : Listed(r, x) = i
  BY DEF ListRight, PlacesOf
<1> QED BY <1>1, <1>2 DEF IsList

\* The same list in different words.
LEMMA SameList ==
  ASSUME NEW f, NEW g, NEW P, NEW C, NEW T, IsList(f, P, C, T), \A x \in P : g[x] = f[x]
  PROVE  IsList(g, P, C, T)
BY DEF IsList

\* A list grows by new elements at new places.
LEMMA GrownList ==
  ASSUME NEW f, NEW g, NEW P, NEW Q, NEW C, NEW T, NEW A, NEW B, IsList(f, P, C, T),
         \A x \in P : g[x] = f[x],
         \A x \in Q : g[x] \in A \cup B, \A x, y \in Q : g[x] = g[y] => x = y,
         \A i \in A : \E x \in Q : g[x] = i,
         (A \cup B) \cap (C \cup T) = {}
  PROVE  IsList(g, P \cup Q, C \cup A, T \cup B)
<1>1. \A x \in P \cup Q : g[x] \in (C \cup A) \cup (T \cup B)
  BY DEF IsList
<1>2. ASSUME NEW x \in P \cup Q, NEW y \in P \cup Q, g[x] = g[y] PROVE x = y
  <2>1. CASE x \in P /\ y \in P
    BY <1>2, <2>1 DEF IsList
  <2>2. CASE x \in Q /\ y \in Q
    BY <1>2, <2>2
  <2>3. CASE (x \in P /\ y \in Q) \/ (x \in Q /\ y \in P)
    BY <1>2, <2>3 DEF IsList
  <2> QED BY <2>1, <2>2, <2>3
<1>3. \A i \in C \cup A : \E x \in P \cup Q : g[x] = i
  BY DEF IsList
<1> QED BY <1>1, <1>2, <1>3 DEF IsList

\* The counter of a row that is being written.
LEMMA CounterHere ==
  ASSUME Control, OutputCounterRight, Collects, ~Launched.deterministic, NEW c \in Ctas, NEW r, r = row[c],
         pc[c] \in {"claim", "place"}
  PROVE  /\ r \in Rows /\ ~Trivial(r) /\ HasOpened(r) /\ ~HasEmitted(c, r) /\ output_counter = PlacesTaken(r)
<1>1. r \in Rows /\ ~Trivial(r) /\ r \in Nat /\ 0 \in Ctas /\ row[0] >= r /\ row[0] \in Nat
  BY ListTogether, WhereFacts
<1>2. HasOpened(r)
  <2>1. CASE row[0] = r
    <3>1. pc[0] \in {"add", "clear_next", "round", "read"} \cup Behind
      BY <1>1, <2>1, ListTogether DEF Behind
    <3> QED BY <2>1, <3>1 DEF HasOpened, Past
  <2>2. CASE row[0] # r
    BY <1>1, <2>2 DEF HasOpened, Past
  <2> QED BY <2>1, <2>2
<1>3. ~HasEmitted(c, r)
  BY <1>1 DEF HasEmitted, Past
<1>4. output_counter = PlacesTaken(r)
  BY <1>1, <1>2, <1>3 DEF OutputCounterRight
<1> QED BY <1>1, <1>2, <1>3, <1>4

LEMMA ListRightNext ==
  ASSUME NEW r, ~Launched'.deterministic
  PROVE  ListRight(r)' <=> IsList(ListOf(r)', PlacesOf(r)', Claimed(r)', Taken(r)')
<1>1. \A x \in PlacesOf(r)' : ListOf(r)'[x] = Listed(r, x)'
  BY DEF ListOf, PlacesOf
<1>2. ListRight(r)' <=> /\ \A x \in PlacesOf(r)' : Listed(r, x)' \in Claimed(r)' \cup Taken(r)'
                        /\ \A x, y \in PlacesOf(r)' : Listed(r, x)' = Listed(r, y)' => x = y
                        /\ \A i \in Claimed(r)' : \E x \in PlacesOf(r)' : Listed(r, x)' = i
  BY DEF ListRight, PlacesOf
<1> QED BY <1>1, <1>2 DEF IsList

\* How the places of a list grow.
LEMMA ListNow ==
  ASSUME Control, NEW c \in Ctas, Step(c), Collects, NEW r \in Rows, ~Trivial(r)
  PROVE  /\ PlacesOf(r)' = { x \in DOMAIN output[r] : x < PlacesTaken(r)' }
         /\ \A x \in DOMAIN output[r] : ListOf(r)[x] = Listed(r, x) /\ ListOf(r)'[x] = Listed(r, x)'
         /\ Launched' = Launched
<1>1. DOMAIN output'[r] = DOMAIN output[r]
  BY SentStep
<1>2. UNCHANGED <<program, launch>>
  BY StepHops
<1> QED BY <1>1, <1>2, SameRows DEF PlacesOf, ListOf

LEMMA ListUnmoved ==
  ASSUME Control, NEW c \in Ctas, Step(c), Collects, ~Launched.deterministic, NEW r \in Rows, ~Trivial(r),
         Claimed(r)' = Claimed(r), Taken(r)' = Taken(r), ListRight(r),
         \A x \in PlacesOf(r) : Listed(r, x)' = Listed(r, x)
  PROVE  ListRight(r)'
<1>1. PlacesTaken(r)' = PlacesTaken(r)
  BY DEF PlacesTaken
<1>2. PlacesOf(r)' = PlacesOf(r)
  BY <1>1, ListNow DEF PlacesOf
<1>3. PlacesOf(r) \subseteq DOMAIN output[r]
  BY DEF PlacesOf
<1>4. \A x \in PlacesOf(r) : ListOf(r)'[x] = ListOf(r)[x]
  BY <1>3, ListNow
<1>5. IsList(ListOf(r), PlacesOf(r), Claimed(r), Taken(r))
  BY ListRightIs
<1>6. IsList(ListOf(r)', PlacesOf(r), Claimed(r), Taken(r))
  BY <1>4, <1>5, SameList
<1> QED BY <1>2, <1>6, ListRightNext, ListNow

LEMMA ListClaimed ==
  ASSUME Control, NEW c \in Ctas, Step(c), PrefixesRight, TodoRight, OutputCounterRight, Collects,
         ~Launched.deterministic, NEW r \in Rows, ~Trivial(r), DOMAIN output[r] = Cells(launch, r), ListRight(r),
         row[c] = r, pc[c] = "claim"
  PROVE  ListRight(r)'
<1> DEFINE A == Above(c)
           Q == DOMAIN Placed(A, output_counter)
<1>0. /\ LaunchRight /\ DOMAIN output[r] = 0 .. K(r) - 1 /\ K(r) \in Nat
  <2>1. LaunchRight
    BY WhereFacts
  <2> QED BY <2>1, ShareFacts, RowFacts
<1>1. output_counter = PlacesTaken(r)
  BY CounterHere
<1>2. A = Chunk(c, r) \cap Larger(r) /\ Cardinality(Larger(r)) < K(r)
  <2>1. A = Chunk(c, r) \cap Larger(r)
    BY PivotKnown DEF Behind
  <2>2. Fits(r, NumRounds, prefix[c]) /\ prefix[c] \in Nat
    <3>1. Fits(r, round[c], prefix[c]) /\ round[c] = NumRounds
      BY DEF PrefixesRight, Exited, Selecting
    <3>2. prefix[c] \in Nat
      BY WhereFacts, Sizes DEF TypeOK, Values
    <3> QED BY <3>1, <3>2
  <2> QED BY <1>0, <2>1, <2>2, PivotFacts
<1>3. Taken(r) = {}
  <2>1. \A d \in Ctas : row[d] = r /\ pc[d] \in { "add", "clear_next", "round", "read", "claim", "count", "collect" }
    BY ListTogether
  <2>2. r \in Nat
    BY <1>0, RowFacts
  <2>3. \A d \in Ctas : ~HasEmitted(d, r) /\ (HasClaimed(d, r) => todo[d] = Chunk(d, r) \cap Border(r))
    <3> SUFFICES ASSUME NEW d \in Ctas
                 PROVE  ~HasEmitted(d, r) /\ (HasClaimed(d, r) => todo[d] = Chunk(d, r) \cap Border(r))
      OBVIOUS
    <3>1. ~HasEmitted(d, r) /\ (HasClaimed(d, r) => pc[d] = "collect")
      BY <2>1, <2>2 DEF HasEmitted, HasClaimed, Past
    <3> QED BY <2>1, <3>1 DEF TodoRight
  <2> QED BY <2>3, NothingTaken
<1>4. Claimed(r)' = Claimed(r) \cup A /\ Claimed(r) \cap A = {}
  BY <1>2, ClaimedStep
<1>5. Taken(r)' = {}
  <2>1. ~Place(c)
    BY DEF Place, Running
  <2> QED BY <1>3, <2>1, TakenStep
<1>6. /\ Claimed(r) \subseteq Larger(r) /\ Larger(r) \subseteq DOMAIN Data(r)
      /\ IsFiniteSet(Claimed(r)) /\ PlacesTaken(r) = Cardinality(Claimed(r))
      /\ Cardinality(Claimed(r)) \in Nat
  <2>1. Cardinality({}) = 0
    BY FS_EmptySet
  <2>2. Cardinality(Taken(r)) = 0
    BY <1>3, <2>1
  <2>3. /\ Claimed(r) \subseteq Larger(r) /\ Larger(r) \subseteq DOMAIN Data(r) /\ IsFiniteSet(Claimed(r))
        /\ PlacesTaken(r) = Cardinality(Claimed(r)) + Cardinality(Taken(r)) /\ Cardinality(Claimed(r)) \in Nat
    BY <1>0, ListParts
  <2> QED BY <2>2, <2>3
<1>7. IsFiniteSet(A) /\ Cardinality(A) \in Nat /\ A \in SUBSET Nat
  <2>1. A \subseteq DOMAIN Data(r)
    BY <1>2, <1>6
  <2>2. DOMAIN Data(r) \subseteq Nat
    BY <1>0, RowFacts
  <2> HIDE DEF A
  <2> QED BY <1>0, <2>1, <2>2, PartFacts
<1>8. Cardinality(Claimed(r) \cup A) = Cardinality(Claimed(r)) + Cardinality(A)
      /\ Cardinality(Claimed(r) \cup A) <= Cardinality(Larger(r)) /\ Cardinality(Larger(r)) \in Nat
  <2>1. Claimed(r) \cup A \subseteq Larger(r)
    BY <1>2, <1>6
  <2> HIDE DEF A
  <2>2. Cardinality(Claimed(r) \cup A) = Cardinality(Claimed(r)) + Cardinality(A)
    BY <1>4, <1>6, <1>7, SizeUnion
  <2> QED BY <1>0, <1>6, <2>1, <2>2, PartFacts
<1> HIDE DEF A
<1>9. /\ Q = PlacesTaken(r) .. PlacesTaken(r) + Cardinality(A) - 1
      /\ \A x \in Q : Placed(A, output_counter)[x] \in A
      /\ \A i \in A : \E x \in Q : Placed(A, output_counter)[x] = i
      /\ \A x, y \in Q : Placed(A, output_counter)[x] = Placed(A, output_counter)[y] => x = y
  BY <1>1, <1>6, <1>7, PlacedFacts
<1>10. Write(c, Placed(A, output_counter))
  BY ActionAt DEF Claim, A
<1>11. \A x \in DOMAIN output[r] : Listed(r, x)' = IF x \in Q THEN Placed(A, output_counter)[x] ELSE Listed(r, x)
  BY <1>10, ListedWritten
<1> HIDE DEF Q
<1>12. PlacesTaken(r)' = PlacesTaken(r) + Cardinality(A)
  <2>1. PlacesTaken(r)' = Cardinality(Claimed(r)') + Cardinality(Taken(r)')
    BY DEF PlacesTaken
  <2>2. Cardinality({}) = 0
    BY FS_EmptySet
  <2> QED BY <1>4, <1>5, <1>6, <1>7, <1>8, <2>1, <2>2
<1>13. PlacesOf(r)' = PlacesOf(r) \cup Q /\ Q \subseteq DOMAIN output[r] /\ PlacesOf(r) \cap Q = {}
  <2>1. PlacesTaken(r) + Cardinality(A) <= K(r) - 1
    BY <1>0, <1>2, <1>6, <1>7, <1>8
  <2>2. PlacesOf(r) = { x \in DOMAIN output[r] : x < PlacesTaken(r) }
    BY DEF PlacesOf
  <2>3. PlacesOf(r)' = { x \in DOMAIN output[r] : x < PlacesTaken(r) + Cardinality(A) }
    BY <1>12, ListNow
  <2>4. PlacesTaken(r) \in Nat
    BY <1>6
  <2>5. Q \subseteq DOMAIN output[r]
    BY <1>0, <1>7, <1>9, <2>1, <2>4
  <2>6. PlacesOf(r) \cap Q = {}
    BY <1>0, <1>7, <1>9, <2>2, <2>4
  <2>7. PlacesOf(r)' = PlacesOf(r) \cup Q
    BY <1>0, <1>7, <1>9, <2>1, <2>2, <2>3, <2>4
  <2> QED BY <2>5, <2>6, <2>7
<1>14. /\ \A x \in PlacesOf(r) : ListOf(r)'[x] = ListOf(r)[x]
       /\ \A x \in Q : ListOf(r)'[x] = Placed(A, output_counter)[x]
  <2>1. PlacesOf(r) \subseteq DOMAIN output[r]
    BY DEF PlacesOf
  <2> QED BY <1>11, <1>13, <2>1, ListNow
<1>15. IsList(ListOf(r), PlacesOf(r), Claimed(r), Taken(r))
  BY ListRightIs
<1>16. IsList(ListOf(r)', PlacesOf(r) \cup Q, Claimed(r) \cup A, Taken(r) \cup Taken(r))
  <2>1. \A x \in Q : ListOf(r)'[x] \in A \cup Taken(r)
    BY <1>9, <1>14
  <2>2. \A x, y \in Q : ListOf(r)'[x] = ListOf(r)'[y] => x = y
    BY <1>9, <1>14
  <2>3. \A i \in A : \E x \in Q : ListOf(r)'[x] = i
    BY <1>9, <1>14
  <2>4. (A \cup Taken(r)) \cap (Claimed(r) \cup Taken(r)) = {}
    BY <1>3, <1>4
  <2>5. \A x \in PlacesOf(r) : ListOf(r)'[x] = ListOf(r)[x]
    BY <1>14
  <2> DEFINE f == ListOf(r)
             g == ListOf(r)'
             P == PlacesOf(r)
             C == Claimed(r)
             T == Taken(r)
  <2>6. /\ IsList(f, P, C, T) /\ (\A x \in P : g[x] = f[x]) /\ (\A x \in Q : g[x] \in A \cup T)
        /\ (\A x, y \in Q : g[x] = g[y] => x = y) /\ (\A i \in A : \E x \in Q : g[x] = i)
        /\ (A \cup T) \cap (C \cup T) = {}
    BY <1>15, <2>1, <2>2, <2>3, <2>4, <2>5
  <2> HIDE DEF f, g, P, C, T
  <2>7. IsList(g, P \cup Q, C \cup A, T \cup T)
    BY <2>6, GrownList
  <2> QED BY <2>7 DEF f, g, P, C, T
<1>17. IsList(ListOf(r)', PlacesOf(r)', Claimed(r)', Taken(r)')
  BY <1>3, <1>4, <1>5, <1>13, <1>16
<1> QED BY <1>17, ListRightNext, ListNow

LEMMA ListPlaced ==
  ASSUME Control, NEW c \in Ctas, Step(c), PrefixesRight, TodoRight, OutputCounterRight, Collects,
         ~Launched.deterministic, NEW r \in Rows, ~Trivial(r), DOMAIN output[r] = Cells(launch, r), ListRight(r),
         row[c] = r, Place(c)
  PROVE  ListRight(r)'
<1>0. /\ LaunchRight /\ DOMAIN output[r] = 0 .. K(r) - 1 /\ K(r) \in Nat /\ TypeOK /\ pc[c] = "place"
  <2>1. LaunchRight /\ TypeOK
    BY WhereFacts
  <2> QED BY <2>1, ShareFacts, RowFacts DEF Place, Running
<1>1. output_counter = PlacesTaken(r)
  BY <1>0, CounterHere
<1>2. PICK i \in todo[c] :
        /\ IF output_counter < K(r) THEN Write(c, Placed({i}, output_counter)) ELSE UNCHANGED output
        /\ todo' = [todo EXCEPT ![c] = @ \ {i}]
  BY DEF Place
<1>3. Claimed(r)' = Claimed(r)
  BY <1>0, ClaimedStep
<1>4. Taken(r)' = Taken(r) \cup {i} /\ i \in Border(r) /\ i \notin Taken(r)
  <2>1. todo'[c] = todo[c] \ {i}
    BY <1>0, <1>2 DEF TypeOK
  <2> QED BY <2>1, TakenStep
<1>5. /\ Claimed(r) \subseteq Larger(r) /\ Border(r) \subseteq DOMAIN Data(r) /\ Larger(r) \cap Border(r) = {}
      /\ IsFiniteSet(Taken(r)) /\ PlacesTaken(r) \in Nat
      /\ PlacesTaken(r) = Cardinality(Claimed(r)) + Cardinality(Taken(r))
      /\ Cardinality(Claimed(r)) \in Nat /\ Cardinality(Taken(r)) \in Nat
  BY <1>0, ListParts
<1>6. PlacesTaken(r)' = PlacesTaken(r) + 1
  <2>1. PlacesTaken(r)' = Cardinality(Claimed(r)') + Cardinality(Taken(r)')
    BY DEF PlacesTaken
  <2>2. Cardinality(Taken(r) \cup {i}) = Cardinality(Taken(r)) + 1
    BY <1>4, <1>5, FS_AddElement
  <2> QED BY <1>3, <1>4, <1>5, <2>1, <2>2
<1>7. /\ PlacesOf(r) = { x \in DOMAIN output[r] : x < PlacesTaken(r) }
      /\ PlacesOf(r)' = { x \in DOMAIN output[r] : x < PlacesTaken(r) + 1 }
      /\ PlacesOf(r) \subseteq DOMAIN output[r]
  BY <1>6, ListNow DEF PlacesOf
<1>8. IsList(ListOf(r), PlacesOf(r), Claimed(r), Taken(r))
  BY ListRightIs
<1>9. CASE output_counter < K(r)
  <2> DEFINE n == PlacesTaken(r)
             cells == Placed({i}, n)
  <2>1. DOMAIN cells = {n} /\ cells[n] = i
    <3>1. {i} \in SUBSET Nat /\ IsFiniteSet({i}) /\ Cardinality({i}) = 1
      <4>1. i \in Nat
        BY <1>0, <1>4, <1>5, RowFacts
      <4> QED BY <4>1, FS_Singleton
    <3>2. DOMAIN cells = n .. n + Cardinality({i}) - 1 /\ \A x \in DOMAIN cells : cells[x] \in {i}
      BY <1>5, <3>1, PlacedFacts
    <3>3. n \in Nat
      BY <1>5
    <3> HIDE DEF cells, n
    <3>4. n .. n + Cardinality({i}) - 1 = {n}
      BY <3>1, <3>3
    <3> QED BY <3>2, <3>4
  <2>2. Write(c, cells)
    BY <1>1, <1>2, <1>9
  <2>3. \A x \in DOMAIN output[r] : Listed(r, x)' = IF x \in DOMAIN cells THEN cells[x] ELSE Listed(r, x)
    BY <1>0, <2>2, ListedWritten
  <2> HIDE DEF cells
  <2>4. n \in DOMAIN output[r] /\ n \notin PlacesOf(r) /\ PlacesOf(r)' = PlacesOf(r) \cup {n}
    <3>1. n \in Nat /\ n < K(r)
      BY <1>1, <1>5, <1>9
    <3>2. n \in DOMAIN output[r]
      BY <1>0, <3>1
    <3>3. n \notin PlacesOf(r)
      BY <1>7, <3>1
    <3>4. ASSUME NEW x \in DOMAIN output[r] PROVE x < n + 1 <=> x < n \/ x = n
      <4>1. x \in Nat
        BY <1>0
      <4> HIDE DEF n
      <4> QED BY <3>1, <4>1
    <3>5. PlacesOf(r)' = PlacesOf(r) \cup {n}
      BY <1>7, <3>2, <3>4
    <3> QED BY <3>2, <3>3, <3>5
  <2>5. (\A x \in PlacesOf(r) : ListOf(r)'[x] = ListOf(r)[x]) /\ ListOf(r)'[n] = i
    BY <1>7, <2>1, <2>3, <2>4, ListNow
  <2> HIDE DEF n
  <2>6. IsList(ListOf(r)', PlacesOf(r) \cup {n}, Claimed(r) \cup {}, Taken(r) \cup {i})
    <3>1. ({} \cup {i}) \cap (Claimed(r) \cup Taken(r)) = {}
      BY <1>4, <1>5
    <3>2. \A x \in {n} : ListOf(r)'[x] \in {} \cup {i}
      BY <2>5
    <3> QED BY <1>8, <2>5, <3>1, <3>2, GrownList
  <2>7. IsList(ListOf(r)', PlacesOf(r)', Claimed(r)', Taken(r)')
    BY <1>3, <1>4, <2>4, <2>6
  <2> QED BY <2>7, ListRightNext, ListNow
<1>10. CASE ~(output_counter < K(r))
  <2>1. PlacesOf(r)' = PlacesOf(r)
    <3>1. \A x \in DOMAIN output[r] : x < PlacesTaken(r) /\ x < PlacesTaken(r) + 1
      BY <1>0, <1>1, <1>5, <1>10
    <3> QED BY <1>7, <3>1
  <2>2. \A x \in PlacesOf(r) : ListOf(r)'[x] = ListOf(r)[x]
    <3>1. \A x : Sent(r, x)' <=> Sent(r, x)
      BY <1>0, SentStep
    <3>2. output' = output
      BY <1>2, <1>10
    <3>3. \A x : Listed(r, x)' = IF Sent(r, x)' THEN Unpaged(output'[r][x]) ELSE output'[r][x]
      BY DEF Listed, Sent, Unpaged, Paged
    <3>4. \A x : Listed(r, x)' = Listed(r, x)
      BY <3>1, <3>2, <3>3, ListedSent
    <3> QED BY <1>7, <3>4, ListNow
  <2>3. IsList(ListOf(r)', PlacesOf(r), Claimed(r), Taken(r))
    BY <1>8, <2>2, SameList
  <2>4. IsList(ListOf(r)', PlacesOf(r), Claimed(r), Taken(r) \cup {i})
    BY <2>3 DEF IsList
  <2>5. IsList(ListOf(r)', PlacesOf(r)', Claimed(r)', Taken(r)')
    BY <1>3, <1>4, <2>1, <2>4
  <2> QED BY <2>5, ListRightNext, ListNow
<1> QED BY <1>9, <1>10

LEMMA AtomicListStep ==
  ASSUME Control, NEW c \in Ctas, Step(c), PrefixesRight, TodoRight, OutputCounterRight, Collects,
         ~Launched.deterministic, NEW r \in Rows, ~Trivial(r), DOMAIN output[r] = Cells(launch, r), ListRight(r)
  PROVE  ListRight(r)'
<1>1. CASE row[c] = r /\ pc[c] = "claim"
  BY <1>1, ListClaimed
<1>2. CASE row[c] = r /\ Place(c)
  BY <1>2, ListPlaced
<1>3. CASE ~(row[c] = r /\ pc[c] = "claim") /\ ~(row[c] = r /\ Place(c))
  <2>1. Claimed(r)' = Claimed(r)
    BY <1>3, ClaimedStep
  <2>2. Taken(r)' = Taken(r)
    BY <1>3, TakenStep
  <2>3. ASSUME NEW x \in PlacesOf(r) PROVE Listed(r, x)' = Listed(r, x)
    <3>0. x \in DOMAIN output[r]
      BY DEF PlacesOf
    <3>1. CASE ~(row[c] = r /\ pc[c] \in {"claim", "place", "emit", "transform"})
      BY <3>1, ListedKept
    <3>2. CASE row[c] = r /\ pc[c] = "transform"
      <4>1. Listed(r, x) \in Claimed(r) \cup Taken(r)
        BY DEF ListRight, PlacesOf
      <4>2. Listed(r, x) \in DOMAIN Data(r) /\ LaunchRight
        <5>1. LaunchRight
          BY WhereFacts
        <5> QED BY <4>1, <5>1, ListParts
      <4>3. Listed(r, x) \in Nat /\ Listed(r, x) # None
        BY <4>2, RowFacts, ParameterAssumption
      <4> QED BY <3>0, <3>2, <4>3, ListedTransformed
    <3>3. CASE row[c] = r /\ pc[c] = "place"
      <4>1. AllPlaced(c)
        BY <1>3, <3>3, ActionAt
      <4>2. output' = output
        BY <4>1 DEF AllPlaced
      <4>3. Sent(r, x)' <=> Sent(r, x)
        BY <3>3, SentStep
      <4>4. Listed(r, x)' = IF Sent(r, x)' THEN Unpaged(output'[r][x]) ELSE output'[r][x]
        BY DEF Listed, Sent, Unpaged, Paged
      <4> QED BY <4>2, <4>3, <4>4, ListedSent
    <3>4. pc[c] # "emit"
      BY WhereFacts DEF PlacedAt
    <3> QED BY <1>3, <3>1, <3>2, <3>3, <3>4
  <2> QED BY <2>1, <2>2, <2>3, ListUnmoved
<1> QED BY <1>1, <1>2, <1>3

\* The CTAs before CTA n, and the elements of X in their chunks.
Before(n) == 0 .. n - 1
Earlier(r, X, n) == Owned(r, Before(n)) \cap X

\* The counts of the CTAs before CTA n add up.
LEMMA CountBefore ==
  ASSUME LaunchRight, NEW r \in Rows, NEW X, X \subseteq DOMAIN Data(r),
         NEW h, \A d \in Ctas : h[d] = Cardinality(Chunk(d, r) \cap X), NEW n \in Nat, n <= NumCtas
  PROVE  SumFunctionOnSet(h, Before(n)) = Cardinality(Earlier(r, X, n))
<1> DEFINE T == { m \in Nat : m <= NumCtas => SumFunctionOnSet(h, Before(m)) = Cardinality(Earlier(r, X, m)) }
<1>0. NumCtas \in Nat
  BY Sizes
<1>1. 0 \in T
  <2>1. Before(0) = {}
    BY DEF Before
  <2>2. Earlier(r, X, 0) = {}
    BY <2>1, OwnedFacts DEF Earlier
  <2>3. SumFunctionOnSet(h, {}) = 0 /\ Cardinality({}) = 0
    BY SumEmpty, FS_EmptySet
  <2>4. SumFunctionOnSet(h, Before(0)) = Cardinality(Earlier(r, X, 0))
    BY <2>1, <2>2, <2>3
  <2> QED BY <2>4
<1>2. ASSUME NEW m \in Nat, m \in T PROVE m + 1 \in T
  <2> SUFFICES ASSUME m + 1 <= NumCtas
               PROVE  SumFunctionOnSet(h, Before(m + 1)) = Cardinality(Earlier(r, X, m + 1))
    OBVIOUS
  <2>1. SumFunctionOnSet(h, Before(m)) = Cardinality(Earlier(r, X, m))
    BY <1>0, <1>2
  <2>2. m \in Ctas \ Before(m) /\ Before(m) \in SUBSET Ctas /\ Before(m + 1) = Before(m) \cup {m}
    BY <1>0 DEF Ctas, Before
  <2>3. Earlier(r, X, m + 1) = Earlier(r, X, m) \cup (Chunk(m, r) \cap X) /\ Earlier(r, X, m) \cap (Chunk(m, r) \cap X) = {}
    <3>1. /\ Owned(r, Before(m) \cup {m}) = Owned(r, Before(m)) \cup Chunk(m, r)
          /\ Owned(r, Before(m)) \cap Chunk(m, r) = {}
      BY <2>2, OwnedFacts
    <3> QED BY <2>2, <3>1 DEF Earlier
  <2>4. \A d \in Ctas : h[d] \in Nat
    <3> SUFFICES ASSUME NEW d \in Ctas PROVE h[d] \in Nat
      OBVIOUS
    <3> DEFINE Y == Chunk(d, r) \cap X
    <3>1. Y \subseteq DOMAIN Data(r) /\ h[d] = Cardinality(Y)
      OBVIOUS
    <3> HIDE DEF Y
    <3> QED BY <3>1, PartFacts
  <2>5. SumFunctionOnSet(h, Before(m) \cup {m}) = h[m] + SumFunctionOnSet(h, Before(m))
    <3>1. IsFiniteSet(Before(m) \cup {m}) /\ m \in Before(m) \cup {m}
      <4>1. IsFiniteSet(0 .. (m + 1) - 1)
        BY FS_Interval
      <4> QED BY <2>2, <4>1 DEF Before
    <3>2. \A d \in Before(m) \cup {m} : h[d] \in Int
      BY <2>2, <2>4
    <3>3. (Before(m) \cup {m}) \ {m} = Before(m)
      BY <2>2
    <3> QED BY <3>1, <3>2, <3>3, SumRemove
  <2>6. /\ Cardinality(Earlier(r, X, m + 1)) = Cardinality(Earlier(r, X, m)) + h[m]
        /\ Cardinality(Earlier(r, X, m)) \in Nat
    <3> DEFINE E == Earlier(r, X, m)
               Y == Chunk(m, r) \cap X
    <3>1. E \subseteq DOMAIN Data(r) /\ Y \subseteq DOMAIN Data(r) /\ h[m] = Cardinality(Y)
      BY <2>2 DEF Earlier
    <3>2. Earlier(r, X, m + 1) = E \cup Y /\ E \cap Y = {}
      BY <2>3
    <3> HIDE DEF E, Y
    <3>3. IsFiniteSet(E) /\ IsFiniteSet(Y)
      BY <3>1, PartFacts
    <3>4. Cardinality(E \cup Y) = Cardinality(E) + Cardinality(Y) /\ Cardinality(E) \in Nat
      BY <3>2, <3>3, SizeUnion
    <3> QED BY <3>1, <3>2, <3>4 DEF E
  <2>7. h[m] \in Nat
    BY <2>2, <2>4
  <2>8. SumFunctionOnSet(h, Before(m + 1)) = h[m] + Cardinality(Earlier(r, X, m))
    BY <2>1, <2>2, <2>5
  <2> QED BY <2>6, <2>7, <2>8
<1>3. Nat \subseteq T
  <2> HIDE DEF T
  <2> QED BY <1>1, <1>2, NatSetInduction
<1> QED BY <1>3

LEMMA CountAll ==
  ASSUME LaunchRight, NEW r \in Rows, NEW X, X \subseteq DOMAIN Data(r),
         NEW h, \A d \in Ctas : h[d] = Cardinality(Chunk(d, r) \cap X), DOMAIN h = Ctas
  PROVE  SumFunction(h) = Cardinality(X)
<1>1. NumCtas \in Nat /\ NumCtas <= NumCtas
  BY Sizes
<1>2. SumFunctionOnSet(h, Before(NumCtas)) = Cardinality(Earlier(r, X, NumCtas))
  BY <1>1, CountBefore
<1>3. Before(NumCtas) = Ctas
  BY DEF Before, Ctas
<1>4. Earlier(r, X, NumCtas) = X
  <2>1. Owned(r, Ctas) = DOMAIN Data(r)
    BY OwnedFacts
  <2> QED BY <1>3, <2>1 DEF Earlier
<1> QED BY <1>2, <1>3, <1>4 DEF SumFunction

\* The place of an element among all of X: behind those in the chunks of the
\* CTAs before its own.
LEMMA RankAcross ==
  ASSUME LaunchRight, NEW r \in Rows, NEW X, X \subseteq DOMAIN Data(r), NEW c \in Ctas,
         NEW i \in Chunk(c, r) \cap X
  PROVE  Rank(X, i) = Cardinality(Earlier(r, X, c)) + Rank(Chunk(c, r) \cap X, i)
<1> DEFINE E == Earlier(r, X, c)
           Y == { j \in Chunk(c, r) \cap X : j < i }
<1>0. c \in Nat /\ Before(c) \in SUBSET Ctas /\ \A d \in Ctas : d \in Nat /\ (d \in Before(c) <=> d < c)
  BY Sizes DEF Ctas, Before
<1>1. E \subseteq DOMAIN Data(r) /\ Y \subseteq DOMAIN Data(r)
  BY DEF Earlier
<1>9. Owned(r, Before(c)) \cap Chunk(c, r) = {}
  <2>1. c \in Ctas \ Before(c)
    BY <1>0
  <2> QED BY <1>0, <2>1, OwnedFacts
<1>2. E \cap Y = {}
  <2>1. Owned(r, Before(c)) \cap Chunk(c, r) = {}
    BY <1>9
  <2> QED BY <2>1 DEF Earlier
<1>3. { j \in X : j < i } = E \cup Y
  <2>1. ASSUME NEW j \in X PROVE j < i <=> j \in E \/ j \in Y
    <3>1. PICK d \in Ctas : j \in Chunk(d, r)
      BY OwnerExists
    <3>2. i \in Nat /\ j \in Nat
      BY RowFacts
    <3>3. CASE d = c
      <4>1. j \notin E
        BY <1>9, <3>1, <3>3 DEF Earlier
      <4> QED BY <3>1, <3>3, <4>1
    <3>4. CASE d < c
      <4>1. j < i
        BY <3>1, <3>4, ChunksOrdered
      <4>2. j \in E
        BY <1>0, <3>1, <3>4 DEF Earlier, Owned
      <4> QED BY <4>1, <4>2
    <3>5. CASE c < d
      <4>1. i < j
        BY <3>1, <3>5, ChunksOrdered
      <4>2. j \notin Chunk(c, r)
        BY <1>0, <3>1, <3>5, ChunksApart
      <4>3. j \notin E
        <5> SUFFICES ASSUME NEW e \in Before(c), j \in Chunk(e, r) PROVE FALSE
          BY DEF Earlier, Owned
        <5>1. e \in Ctas /\ e # d
          BY <1>0, <3>5
        <5> QED BY <3>1, <5>1, ChunksApart
      <4> QED BY <3>2, <4>1, <4>2, <4>3
    <3> QED BY <1>0, <3>3, <3>4, <3>5
  <2>2. \A j \in E : j \in X
    BY DEF Earlier
  <2> HIDE DEF E
  <2> QED BY <2>1, <2>2
<1>4. Rank(X, i) = Cardinality(E \cup Y) /\ Rank(Chunk(c, r) \cap X, i) = Cardinality(Y)
  BY <1>3 DEF Rank
<1> HIDE DEF E, Y
<1>5. IsFiniteSet(E) /\ IsFiniteSet(Y)
  BY <1>1, PartFacts
<1>6. Cardinality(E \cup Y) = Cardinality(E) + Cardinality(Y)
  BY <1>2, <1>5, SizeUnion
<1> QED BY <1>4, <1>6 DEF E

\* No two elements have the same place.
LEMMA TargetFacts ==
  ASSUME LaunchRight, NEW r \in Rows
  PROVE  /\ \A i \in Larger(r) : Target(r, i) = Rank(Larger(r), i)
         /\ \A i \in Border(r) : Target(r, i) = Cardinality(Larger(r)) + Rank(Border(r), i)
         /\ \A i \in Leading(r) : i \in Larger(r) \/ i \in Border(r)
         /\ \A i \in Leading(r) : Target(r, i) \in Nat
         /\ \A i \in Leading(r), j \in Leading(r) : Target(r, i) = Target(r, j) => i = j
<1> DEFINE L == Larger(r)
           B == Border(r)
           n == Cardinality(L)
<1>1. /\ L \subseteq DOMAIN Data(r) /\ B \subseteq DOMAIN Data(r) /\ L \cap B = {}
  BY ListParts
<1>2. \A i \in Leading(r) : i \in L \/ i \in B
  BY DEF Border
<1>3. \A i \in L : Target(r, i) = Rank(L, i)
  BY DEF Target, Rank
<1>4. \A i \in B : Target(r, i) = n + Rank(B, i)
  BY <1>1 DEF Target, Rank
<1>5. L \in SUBSET Nat /\ B \in SUBSET Nat /\ IsFiniteSet(L) /\ IsFiniteSet(B) /\ n \in Nat /\ Cardinality(B) \in Nat
  <2>1. DOMAIN Data(r) \subseteq Nat
    BY RowFacts
  <2> HIDE DEF L, B
  <2> QED BY <1>1, <2>1, PartFacts DEF n
<1> HIDE DEF L, B, n
<1>6. /\ \A i \in L : Rank(L, i) \in Nat /\ Rank(L, i) < n
      /\ \A i \in L, j \in L : i < j => Rank(L, i) < Rank(L, j)
      /\ \A i \in B : Rank(B, i) \in Nat
      /\ \A i \in B, j \in B : i < j => Rank(B, i) < Rank(B, j)
  <2>1. /\ \A i \in L : Rank(L, i) \in 0 .. n - 1
        /\ \A i \in L, j \in L : i < j => Rank(L, i) < Rank(L, j)
    BY <1>5, RankFacts DEF n
  <2>2. /\ \A i \in B : Rank(B, i) \in 0 .. Cardinality(B) - 1
        /\ \A i \in B, j \in B : i < j => Rank(B, i) < Rank(B, j)
    BY <1>5, RankFacts
  <2> QED BY <1>5, <2>1, <2>2
<1>7. \A i \in Leading(r) : Target(r, i) \in Nat
  <2> SUFFICES ASSUME NEW i \in Leading(r) PROVE Target(r, i) \in Nat
    OBVIOUS
  <2>1. CASE i \in L
    BY <1>3, <1>6, <2>1
  <2>2. CASE i \in B
    <3>1. Rank(B, i) \in Nat /\ Target(r, i) = n + Rank(B, i)
      BY <1>4, <1>6, <2>2
    <3> QED BY <1>5, <3>1
  <2> QED BY <1>2, <2>1, <2>2
<1>8. ASSUME NEW i \in Leading(r), NEW j \in Leading(r), Target(r, i) = Target(r, j)
      PROVE  i = j
  <2>0. (i \in L \/ i \in B) /\ (j \in L \/ j \in B) /\ i \in Nat /\ j \in Nat
    <3>1. (i \in L \/ i \in B) /\ (j \in L \/ j \in B)
      BY <1>2
    <3> QED BY <1>5, <3>1
  <2>1. CASE i \in L /\ j \in L
    <3>1. Rank(L, i) = Rank(L, j) /\ Rank(L, i) \in Nat
      BY <1>3, <1>6, <1>8, <2>1
    <3>2. ~(i < j) /\ ~(j < i)
      BY <1>6, <2>1, <3>1
    <3> QED BY <2>0, <3>2
  <2>2. CASE i \in B /\ j \in B
    <3>1. Rank(B, i) \in Nat /\ Rank(B, j) \in Nat /\ n + Rank(B, i) = n + Rank(B, j)
      BY <1>4, <1>6, <1>8, <2>2
    <3>2. Rank(B, i) = Rank(B, j)
      BY <1>5, <3>1
    <3>3. ~(i < j) /\ ~(j < i)
      BY <1>6, <2>2, <3>1, <3>2
    <3> QED BY <2>0, <3>3
  <2>3. CASE i \in L /\ j \in B
    BY <1>3, <1>4, <1>5, <1>6, <1>8, <2>3
  <2>4. CASE i \in B /\ j \in L
    BY <1>3, <1>4, <1>5, <1>6, <1>8, <2>4
  <2> QED BY <2>0, <2>1, <2>2, <2>3, <2>4
<1> QED BY <1>2, <1>3, <1>4, <1>7, <1>8 DEF L, B, n

\* The first elements of a set keep their places.
LEMMA FirstFacts ==
  ASSUME NEW S \in SUBSET Nat, IsFiniteSet(S), NEW m \in Nat,
         NEW F \in SUBSET S, \A i \in S : i \in F <=> Rank(S, i) < m
  PROVE  /\ F \in SUBSET Nat /\ IsFiniteSet(F) /\ F \subseteq S
         /\ \A i \in F : Rank(F, i) = Rank(S, i)
<1>1. F \subseteq S
  OBVIOUS
<1>2. IsFiniteSet(F)
  BY <1>1, FS_Subset
<1>3. ASSUME NEW i \in F PROVE Rank(F, i) = Rank(S, i)
  <2>1. { j \in S : j < i } = { j \in F : j < i }
    <3>1. \A j \in S : j < i => j \in F
      <4> SUFFICES ASSUME NEW j \in S, j < i PROVE Rank(S, j) < m
        OBVIOUS
      <4>1. i \in S /\ Rank(S, i) < m
        OBVIOUS
      <4>2. Rank(S, j) < Rank(S, i)
        BY <4>1, RankFacts
      <4>3. Rank(S, i) \in 0 .. Cardinality(S) - 1 /\ Rank(S, j) \in 0 .. Cardinality(S) - 1 /\ Cardinality(S) \in Nat
        BY <4>1, RankFacts, FS_CardinalityType
      <4> QED BY <4>1, <4>2, <4>3
    <3> QED BY <1>1, <3>1
  <2> QED BY <2>1 DEF Rank
<1> QED BY <1>1, <1>2, <1>3

\* What a CTA writes in the deterministic kernels.
CountsAbove == [d \in Ctas |-> det_scratch[d].gt]
CountsEqual == [d \in Ctas |-> det_scratch[d].eq]
Take(c) == Max({ 0, Min({ CountsEqual[c],
                          K(row[c]) - SumFunction(CountsAbove) - SumFunctionOnSet(CountsEqual, 0 .. c - 1) }) })
First(c) == { i \in Equal(c) : Cardinality({ j \in Equal(c) : j < i }) < Take(c) }
EmittedAbove(c) == Placed(Above(c), SumFunctionOnSet(CountsAbove, 0 .. c - 1))
EmittedEqual(c) == Placed(First(c), SumFunction(CountsAbove) + SumFunctionOnSet(CountsEqual, 0 .. c - 1))
Emitted(c) == [x \in DOMAIN EmittedAbove(c) \cup DOMAIN EmittedEqual(c) |->
                 IF x \in DOMAIN EmittedAbove(c) THEN EmittedAbove(c)[x] ELSE EmittedEqual(c)[x]]

LEMMA EmitWrites == ASSUME NEW c, Emit(c) PROVE Write(c, Emitted(c))
BY DEF Emit, Emitted, EmittedAbove, EmittedEqual, First, Take, CountsAbove, CountsEqual

LEMMA TakeFacts ==
  ASSUME NEW e \in Nat, NEW k \in Int, NEW t, t = Max({ 0, Min({ e, k }) })
  PROVE  t \in Nat /\ \A q \in Nat : q < e => (q < t <=> q < k)
<1>1. Min({ e, k }) = IF e <= k THEN e ELSE k
  BY DEF Min
<1> DEFINE m == Min({ e, k })
<1>2. m \in Int
  BY <1>1
<1> HIDE DEF m
<1>3. Max({ 0, m }) = IF m <= 0 THEN 0 ELSE m
  BY <1>2 DEF Max
<1> QED BY <1>1, <1>2, <1>3 DEF m

\* Everybody has published its counts.
LEMMA ScratchKnown ==
  ASSUME Control, NEW c \in Ctas, Step(c), ScratchRight, Collects, Launched.deterministic, NEW r \in Rows, row[c] = r,
         pc[c] = "emit"
  PROVE  /\ ~Trivial(r)
         /\ \A d \in Ctas : /\ CountsAbove[d] = Cardinality(Chunk(d, r) \cap Larger(r))
                            /\ CountsEqual[d] = Cardinality(Chunk(d, r) \cap Border(r))
<1>1. ~Trivial(r) /\ r \in Nat /\ \A d \in Ctas : row[d] >= r /\ (row[d] = r => pc[d] \in { "collect", "place", "emit", "page" })
  BY ListTogether
<1>2. \A d \in Ctas : row[d] \in Nat /\ pc[d] # "place"
  BY WhereFacts DEF PlacedAt
<1>3. \A d \in Ctas : HasCounted(d, r)
  BY <1>1, <1>2 DEF HasCounted, Past
<1>4. ~HasEmitted(c, r)
  BY <1>1 DEF HasEmitted, Past
<1>5. \A d \in Ctas : det_scratch[d] = [gt |-> Cardinality(Chunk(d, r) \cap Larger(r)),
                                        eq |-> Cardinality(Chunk(d, r) \cap Border(r))]
  BY <1>1, <1>3, <1>4 DEF ScratchRight
<1>6. ASSUME NEW d \in Ctas
      PROVE  /\ CountsAbove[d] = Cardinality(Chunk(d, r) \cap Larger(r))
             /\ CountsEqual[d] = Cardinality(Chunk(d, r) \cap Border(r))
  <2>1. CountsAbove[d] = det_scratch[d].gt /\ CountsEqual[d] = det_scratch[d].eq
    BY DEF CountsAbove, CountsEqual
  <2>2. det_scratch[d] = [gt |-> Cardinality(Chunk(d, r) \cap Larger(r)),
                          eq |-> Cardinality(Chunk(d, r) \cap Border(r))]
    BY <1>5
  <2> QED BY <2>1, <2>2
<1> QED BY <1>1, <1>6

\* The elements of its chunk that belong to the list, each at its place.
LEMMA EmittedFacts ==
  ASSUME Control, NEW c \in Ctas, Step(c), PrefixesRight, ScratchRight, Collects, Launched.deterministic,
         NEW r \in Rows, row[c] = r, pc[c] = "emit"
  PROVE  /\ \A x \in DOMAIN Emitted(c) : \E i \in Chunk(c, r) \cap Leading(r) : Target(r, i) = x /\ Emitted(c)[x] = i
         /\ \A i \in Chunk(c, r) \cap Leading(r) : Target(r, i) < K(r) =>
              Target(r, i) \in DOMAIN Emitted(c) /\ Emitted(c)[Target(r, i)] = i
<1> DEFINE L == Larger(r)
           B == Border(r)
           A == Chunk(c, r) \cap L
           E == Chunk(c, r) \cap B
           n == Cardinality(L)
           a == Cardinality(Earlier(r, L, c))
           b == Cardinality(Earlier(r, B, c))
<1>0. /\ LaunchRight /\ c \in Nat /\ c <= NumCtas /\ K(r) \in Nat /\ 0 .. c - 1 = Before(c)
  <2>1. LaunchRight
    BY WhereFacts
  <2> QED BY <2>1, RowFacts, Sizes DEF Ctas, Before
<1>1. Above(c) = A /\ Equal(c) = E
  <2>1. ~Trivial(r)
    BY ScratchKnown
  <2> QED BY <2>1, PivotKnown DEF Behind
<1>2. /\ L \subseteq DOMAIN Data(r) /\ B \subseteq DOMAIN Data(r) /\ L \cap B = {}
      /\ L \subseteq Leading(r) /\ B \subseteq Leading(r)
  <2>1. L \subseteq DOMAIN Data(r) /\ B \subseteq DOMAIN Data(r) /\ L \cap B = {}
    BY <1>0, ListParts
  <2>2. Fits(r, NumRounds, prefix[c]) /\ prefix[c] \in Nat
    <3>1. Fits(r, round[c], prefix[c]) /\ round[c] = NumRounds
      BY ScratchKnown DEF PrefixesRight, Exited, Selecting
    <3>2. prefix[c] \in Nat
      BY WhereFacts, Sizes DEF TypeOK, Values
    <3> QED BY <3>1, <3>2
  <2>3. L = { i \in DOMAIN Data(r) : Data(r)[i] > prefix[c] } /\ Leading(r) = { i \in DOMAIN Data(r) : Data(r)[i] >= prefix[c] }
    BY <1>0, <2>2, PivotFacts
  <2>4. \A i \in DOMAIN Data(r) : Data(r)[i] \in Nat
    BY <1>0, RowFacts
  <2>5. L \subseteq Leading(r)
    BY <2>2, <2>3, <2>4
  <2> QED BY <2>1, <2>5 DEF Border
<1>3. /\ \A i \in A : Target(r, i) = a + Rank(A, i)
      /\ \A i \in E : Target(r, i) = n + (b + Rank(E, i))
      /\ \A i \in A : Target(r, i) = Rank(L, i)
      /\ a \in Nat /\ b \in Nat /\ n \in Nat
  <2>1. /\ \A i \in L : Target(r, i) = Rank(L, i)
        /\ \A i \in B : Target(r, i) = n + Rank(B, i)
    BY <1>0, TargetFacts
  <2>2. \A i \in A : Rank(L, i) = a + Rank(A, i)
    BY <1>0, <1>2, RankAcross
  <2>3. \A i \in E : Rank(B, i) = b + Rank(E, i)
    BY <1>0, <1>2, RankAcross
  <2>4. Earlier(r, L, c) \subseteq L /\ Earlier(r, B, c) \subseteq B
    BY DEF Earlier
  <2>5. a \in Nat /\ b \in Nat /\ n \in Nat
    <3>1. Earlier(r, L, c) \subseteq DOMAIN Data(r) /\ Earlier(r, B, c) \subseteq DOMAIN Data(r)
      BY <1>2, <2>4
    <3> QED BY <1>0, <1>2, <3>1, PartFacts
  <2> QED BY <2>1, <2>2, <2>3, <2>5
<1>4. /\ SumFunctionOnSet(CountsAbove, 0 .. c - 1) = a
      /\ SumFunctionOnSet(CountsEqual, 0 .. c - 1) = b
      /\ SumFunction(CountsAbove) = n
  <2>1. \A d \in Ctas : CountsAbove[d] = Cardinality(Chunk(d, r) \cap L)
    BY ScratchKnown
  <2>2. \A d \in Ctas : CountsEqual[d] = Cardinality(Chunk(d, r) \cap B)
    BY ScratchKnown
  <2>3. DOMAIN CountsAbove = Ctas
    BY DEF CountsAbove
  <2>4. SumFunction(CountsAbove) = n
    BY <1>0, <1>2, <2>1, <2>3, CountAll
  <2> HIDE DEF L, B
  <2>7. c \in Nat /\ c <= NumCtas /\ LaunchRight /\ L \subseteq DOMAIN Data(r) /\ B \subseteq DOMAIN Data(r)
    BY <1>0, <1>2
  <2>5. SumFunctionOnSet(CountsAbove, Before(c)) = a
    BY <2>1, <2>7, CountBefore
  <2>6. SumFunctionOnSet(CountsEqual, Before(c)) = b
    BY <2>2, <2>7, CountBefore, SMTT(60)
  <2> QED BY <1>0, <2>4, <2>5, <2>6
<1>5. /\ A \in SUBSET Nat /\ IsFiniteSet(A) /\ E \in SUBSET Nat /\ IsFiniteSet(E) /\ Cardinality(E) \in Nat
      /\ CountsEqual[c] = Cardinality(E)
  <2>1. CountsEqual[c] = Cardinality(E)
    BY ScratchKnown
  <2>2. DOMAIN Data(r) \subseteq Nat
    BY <1>0, RowFacts
  <2>3. A \subseteq DOMAIN Data(r) /\ E \subseteq DOMAIN Data(r)
    BY <1>2
  <2> HIDE DEF A, E
  <2> QED BY <1>0, <2>1, <2>2, <2>3, PartFacts
<1>6. A \subseteq Chunk(c, r) \cap Leading(r) /\ E \subseteq Chunk(c, r) \cap Leading(r) /\ A \subseteq L /\ E \subseteq B
      /\ \A i \in Chunk(c, r) \cap Leading(r) : i \in A \/ i \in E
  BY <1>2 DEF Border
<1>7. A \cap E = {}
  BY <1>2
<1> HIDE DEF A, E, n, a, b, L, B
<1>8. /\ Take(c) \in Nat
      /\ \A q \in Nat : q < Cardinality(E) => (q < Take(c) <=> n + (b + q) < K(r))
  <2>1. Take(c) = Max({ 0, Min({ Cardinality(E), (K(r) - n) - b }) })
    BY <1>4, <1>5 DEF Take
  <2>2. (K(r) - n) - b \in Int
    BY <1>0, <1>3
  <2>3. /\ Take(c) \in Nat
        /\ \A q \in Nat : q < Cardinality(E) => (q < Take(c) <=> q < (K(r) - n) - b)
    BY <1>5, <2>1, <2>2, TakeFacts
  <2> HIDE DEF K
  <2> QED BY <1>0, <1>3, <2>3
<1> DEFINE F == First(c)
           above == EmittedAbove(c)
           equal == EmittedEqual(c)
<1>9. F = { i \in E : Rank(E, i) < Take(c) }
  BY <1>1 DEF First, Rank
<1>10. above = Placed(A, a) /\ equal = Placed(F, n + b)
  BY <1>1, <1>4 DEF EmittedAbove, EmittedEqual
<1>11. /\ F \in SUBSET Nat /\ IsFiniteSet(F) /\ F \subseteq E /\ \A i \in F : Rank(F, i) = Rank(E, i)
  <2>1. F \in SUBSET E /\ \A i \in E : i \in F <=> Rank(E, i) < Take(c)
    BY <1>9
  <2> HIDE DEF F
  <2> QED BY <1>5, <1>8, <2>1, FirstFacts
<1>12. /\ Emitted(c) = [x \in DOMAIN above \cup DOMAIN equal |-> IF x \in DOMAIN above THEN above[x] ELSE equal[x]]
  BY DEF Emitted
<1> HIDE DEF F, above, equal
<1>13. /\ \A x \in DOMAIN above : above[x] \in A /\ Target(r, above[x]) = x
       /\ \A i \in A : Target(r, i) \in DOMAIN above /\ above[Target(r, i)] = i
  <2>1. /\ DOMAIN above = a .. a + Cardinality(A) - 1
        /\ \A x \in DOMAIN above : above[x] \in A /\ Rank(A, above[x]) = x - a
        /\ \A i \in A : a + Rank(A, i) \in DOMAIN above /\ above[a + Rank(A, i)] = i
    BY <1>3, <1>5, <1>10, PlacedFacts
  <2>2. ASSUME NEW x \in DOMAIN above PROVE above[x] \in A /\ Target(r, above[x]) = x
    <3>1. x \in Int /\ above[x] \in A /\ Rank(A, above[x]) = x - a
      BY <1>3, <2>1
    <3>2. Target(r, above[x]) = a + (x - a)
      BY <1>3, <3>1
    <3> QED BY <1>3, <3>1, <3>2
  <2> QED BY <1>3, <2>1, <2>2
<1>14. /\ \A x \in DOMAIN equal : equal[x] \in F /\ Target(r, equal[x]) = x
       /\ \A i \in F : Target(r, i) \in DOMAIN equal /\ equal[Target(r, i)] = i
  <2>0. n + b \in Nat
    BY <1>3
  <2>1. /\ DOMAIN equal = (n + b) .. (n + b) + Cardinality(F) - 1
        /\ \A x \in DOMAIN equal : equal[x] \in F /\ Rank(F, equal[x]) = x - (n + b)
        /\ \A i \in F : (n + b) + Rank(F, i) \in DOMAIN equal /\ equal[(n + b) + Rank(F, i)] = i
    <3> DEFINE p == n + b
    <3>1. p \in Nat /\ equal = Placed(F, p)
      BY <1>10, <2>0
    <3> HIDE DEF p
    <3>2. /\ DOMAIN equal = p .. p + Cardinality(F) - 1
          /\ \A x \in DOMAIN equal : equal[x] \in F /\ Rank(F, equal[x]) = x - p
          /\ \A i \in F : p + Rank(F, i) \in DOMAIN equal /\ equal[p + Rank(F, i)] = i
      BY <1>11, <3>1, PlacedFacts
    <3> QED BY <3>2 DEF p
  <2>2. \A i \in F : Target(r, i) = (n + b) + Rank(F, i) /\ Rank(F, i) \in Nat
    <3> SUFFICES ASSUME NEW i \in F PROVE Target(r, i) = (n + b) + Rank(F, i) /\ Rank(F, i) \in Nat
      OBVIOUS
    <3>1. Target(r, i) = n + (b + Rank(F, i))
      BY <1>3, <1>11
    <3>2. Rank(F, i) \in 0 .. Cardinality(F) - 1
      BY <1>11, RankFacts
    <3> QED BY <1>3, <3>1, <3>2
  <2>3. ASSUME NEW x \in DOMAIN equal PROVE equal[x] \in F /\ Target(r, equal[x]) = x
    <3>1. x \in Int /\ equal[x] \in F /\ Rank(F, equal[x]) = x - (n + b)
      BY <2>0, <2>1
    <3>2. Target(r, equal[x]) = (n + b) + (x - (n + b))
      BY <2>2, <3>1
    <3> QED BY <2>0, <3>1, <3>2
  <2> QED BY <2>1, <2>2, <2>3
<1>15. ASSUME NEW x \in DOMAIN Emitted(c)
       PROVE  \E i \in Chunk(c, r) \cap Leading(r) : Target(r, i) = x /\ Emitted(c)[x] = i
  <2>1. CASE x \in DOMAIN above
    BY <1>6, <1>12, <1>13, <2>1
  <2>2. CASE x \notin DOMAIN above
    <3>1. x \in DOMAIN equal /\ Emitted(c)[x] = equal[x]
      BY <1>12, <2>2
    <3>2. equal[x] \in E
      BY <1>11, <1>14, <3>1
    <3> QED BY <1>6, <1>14, <3>1, <3>2
  <2> QED BY <2>1, <2>2
<1>16. ASSUME NEW i \in Chunk(c, r) \cap Leading(r), Target(r, i) < K(r)
       PROVE  Target(r, i) \in DOMAIN Emitted(c) /\ Emitted(c)[Target(r, i)] = i
  <2>1. CASE i \in A
    BY <1>12, <1>13, <2>1
  <2>2. CASE i \in E
    <3>1. Rank(E, i) \in Nat /\ Rank(E, i) < Cardinality(E)
      <4>1. Rank(E, i) \in 0 .. Cardinality(E) - 1
        BY <1>5, <2>2, RankFacts
      <4> QED BY <1>5, <4>1
    <3>2. Rank(E, i) < Take(c)
      BY <1>3, <1>8, <1>16, <2>2, <3>1
    <3>3. i \in F
      BY <1>9, <2>2, <3>2
    <3>4. Target(r, i) \notin DOMAIN above
      <4> SUFFICES ASSUME Target(r, i) \in DOMAIN above PROVE FALSE
        OBVIOUS
      <4>1. above[Target(r, i)] \in A /\ Target(r, above[Target(r, i)]) = Target(r, i)
        BY <1>13
      <4>2. above[Target(r, i)] = i
        BY <1>0, <1>6, <4>1, TargetFacts
      <4> QED BY <1>7, <2>2, <4>1, <4>2
    <3>5. Target(r, i) \in DOMAIN equal /\ equal[Target(r, i)] = i
      BY <1>14, <3>3
    <3> QED BY <1>12, <3>4, <3>5
  <2> QED BY <1>6, <2>1, <2>2
<1> QED BY <1>15, <1>16

\* The list of the deterministic kernels, as far as the CTAs have written it.
OrderedList(r) == \A c \in Ctas : HasEmitted(c, r) =>
                    \A i \in Chunk(c, r) \cap Leading(r) : \A x :
                      x = Target(r, i) /\ x < K(r) => Listed(r, x) = i

LEMMA OrderedListIs ==
  ASSUME NEW r PROVE Launched.deterministic => (ListRight(r) <=> OrderedList(r))
BY DEF ListRight, OrderedList

LEMMA OrderedListIsNext ==
  ASSUME NEW r PROVE (Launched.deterministic => (ListRight(r) <=> OrderedList(r)))'
BY OrderedListIs, PTL

LEMMA OrderedListStep ==
  ASSUME Control, NEW c \in Ctas, Step(c), PrefixesRight, ScratchRight, Collects, Launched.deterministic,
         NEW r \in Rows, ~Trivial(r), DOMAIN output[r] = Cells(launch, r), ListRight(r)
  PROVE  ListRight(r)'
<1>0. UNCHANGED <<program, launch>> /\ LaunchRight /\ DOMAIN output[r] = 0 .. K(r) - 1 /\ K(r) \in Nat
  <2>1. LaunchRight /\ UNCHANGED <<program, launch>>
    BY StepHops, WhereFacts
  <2> QED BY <2>1, ShareFacts, RowFacts
<1>1. /\ Launched' = Launched /\ K(r)' = K(r) /\ Leading(r)' = Leading(r)
      /\ \A d : Chunk(d, r)' = Chunk(d, r)
      /\ \A i : Target(r, i)' = Target(r, i)
  <2>1. /\ Launched' = Launched /\ K(r)' = K(r) /\ Leading(r)' = Leading(r)
        /\ Larger(r)' = Larger(r) /\ Border(r)' = Border(r) /\ \A d : Chunk(d, r)' = Chunk(d, r)
    BY <1>0, SameRows
  <2> QED BY <2>1 DEF Target
<1> SUFFICES ASSUME NEW d \in Ctas, HasEmitted(d, r)', NEW i \in Chunk(d, r) \cap Leading(r),
                    NEW x, x = Target(r, i), x < K(r)
             PROVE  Listed(r, x)' = i
  <2>1. OrderedList(r)' <=> \A d \in Ctas : HasEmitted(d, r)' =>
          \A i \in Chunk(d, r)' \cap Leading(r)' : \A x :
            x = Target(r, i)' /\ x < K(r)' => Listed(r, x)' = i
    BY DEF OrderedList
  <2>2. OrderedList(r)'
    BY <1>1, <2>1
  <2> QED BY <1>1, <2>2, OrderedListIsNext
<1>2. x \in DOMAIN output[r] /\ i \in Nat /\ i # None
  <2>1. x \in Nat
    BY <1>0, TargetFacts
  <2>2. i \in DOMAIN Data(r)
    BY DEF Leading
  <2>3. i \in Nat /\ i # None
    BY <1>0, <2>2, RowFacts, ParameterAssumption
  <2> QED BY <1>0, <2>1, <2>3
<1>3. HasEmitted(d, r) => Listed(r, x) = i
  BY OrderedListIs DEF OrderedList
<1>5. pc[c] \notin {"claim", "place"}
  BY WhereFacts DEF PlacedAt
<1>6. CASE row[c] = r /\ pc[c] = "emit"
  <2>1. Write(c, Emitted(c))
    BY <1>6, ActionAt, EmitWrites
  <2>2. Listed(r, x)' = IF x \in DOMAIN Emitted(c) THEN Emitted(c)[x] ELSE Listed(r, x)
    BY <1>2, <1>6, <2>1, ListedWritten
  <2>3. CASE d = c
    <3>1. x \in DOMAIN Emitted(c) /\ Emitted(c)[x] = i
      BY <1>6, <2>3, EmittedFacts
    <3> QED BY <2>2, <3>1
  <2>4. CASE d # c
    <3>1. Listed(r, x) = i
      BY <1>3, <1>6, <2>4, ListMarks
    <3>2. CASE x \in DOMAIN Emitted(c)
      <4>1. PICK j \in Chunk(c, r) \cap Leading(r) : Target(r, j) = x /\ Emitted(c)[x] = j
        BY <1>6, <3>2, EmittedFacts
      <4>2. j = i
        BY <1>0, <4>1, TargetFacts
      <4> QED BY <2>2, <3>2, <4>1, <4>2
    <3> QED BY <2>2, <3>1, <3>2
  <2> QED BY <2>3, <2>4
<1>7. CASE ~(row[c] = r /\ pc[c] = "emit")
  <2>1. Listed(r, x) = i
    BY <1>3, <1>5, <1>7, ListMarks
  <2>2. CASE row[c] = r /\ pc[c] = "transform"
    BY <1>2, <2>1, <2>2, ListedTransformed
  <2>3. CASE ~(row[c] = r /\ pc[c] = "transform")
    <3>1. ~(row[c] = r /\ pc[c] \in {"claim", "place", "emit", "transform"})
      BY <1>5, <1>7, <2>3
    <3>2. Listed(r, x)' = Listed(r, x)
      BY <3>1, ListedKept
    <3> QED BY <2>1, <3>2
  <2> QED BY <2>2, <2>3
<1> QED BY <1>6, <1>7

\* The output stays right, whatever the kernel.
LEMMA OutputsStep ==
  ASSUME Control, NEW c \in Ctas, Step(c), PrefixesRight, SumRight, ScratchRight, TodoRight, OutputCounterRight,
         OutputsRight
  PROVE  OutputsRight'
<1>0. UNCHANGED <<program, launch>> /\ LaunchRight
  BY StepHops, WhereFacts
<1>1. Rows' = Rows
  BY <1>0, SameRows
<1> SUFFICES ASSUME NEW r \in Rows PROVE DOMAIN output'[r] = Cells(launch, r)' /\ RowRight(r)'
  BY <1>1 DEF OutputsRight
<1>2. DOMAIN output[r] = Cells(launch, r) /\ RowRight(r)
  BY DEF OutputsRight
<1>3. DOMAIN output'[r] = Cells(launch, r)'
  <2>1. DOMAIN output'[r] = DOMAIN output[r]
    BY Frames DEF OutputElsewhere
  <2>2. Cells(launch, r)' = Cells(launch, r)
    BY <1>0, SameRows
  <2> QED BY <1>2, <2>1, <2>2
<1> SUFFICES RowRight(r)'
  BY <1>3
<1>4. CASE Launched.kernel = "mask"
  BY <1>2, <1>4, MaskStep
<1>5. CASE Launched.kernel = "renorm"
  BY <1>2, <1>5, RenormStep
<1>6. CASE Collects /\ Trivial(r)
  BY <1>2, <1>6, CopiedStep
<1>7. CASE Collects /\ ~Trivial(r)
  <2>1. ListRight(r)
    BY <1>2, <1>7 DEF RowRight, Collects
  <2>2. ListRight(r)'
    <3>1. CASE Launched.deterministic
      BY <1>2, <1>7, <2>1, <3>1, OrderedListStep
    <3>2. CASE ~Launched.deterministic
      BY <1>2, <1>7, <2>1, <3>2, AtomicListStep
    <3> QED BY <3>1, <3>2
  <2>3. Collects' /\ ~Trivial(r)'
    BY <1>0, <1>7, SameRows
  <2> QED BY <2>2, <2>3 DEF RowRight, Collects
<1>8. Launched.kernel \in Kernels
  BY <1>0, ParameterAssumption DEF LaunchRight, Launched
<1> QED BY <1>4, <1>5, <1>6, <1>7, <1>8 DEF Kernels, Collects

\* Before the first row nothing is counted, claimed or written.
LEMMA FreshOutputs == Control /\ Fresh => SumRight /\ ScratchRight /\ TodoRight /\ OutputCounterRight /\ OutputsRight
<1> SUFFICES ASSUME Control, Fresh PROVE SumRight /\ ScratchRight /\ TodoRight /\ OutputCounterRight /\ OutputsRight
  OBVIOUS
<1>0. 0 \in Ctas /\ LaunchRight /\ (\A r \in Rows : r \in Nat \ {0}) /\ \A c \in Ctas : row[c] = 1 /\ pc[c] = "row"
  <2>1. 0 \in Ctas /\ LaunchRight
    BY WhereFacts, Sizes DEF Ctas
  <2> QED BY <2>1, RowFacts DEF Fresh
<1>1. ASSUME NEW r \in Rows, NEW c \in Ctas
      PROVE  ~HasCounted(c, r) /\ ~HasClaimed(c, r) /\ ~HasEmitted(c, r) /\ ~HasWritten(c, r)
             /\ ~HasZeroed(r) /\ ~HasOpened(r)
  <2>1. ~(1 > r)
    BY <1>0
  <2> QED BY <1>0, <2>1 DEF HasCounted, HasClaimed, HasEmitted, HasWritten, HasZeroed, HasOpened, Past, Behind
<1>2. SumRight /\ ScratchRight /\ TodoRight /\ OutputCounterRight
  <2>1. SumRight
    BY <1>0, <1>1 DEF SumRight
  <2>2. ScratchRight
    BY <1>1 DEF ScratchRight
  <2>3. TodoRight
    BY <1>0 DEF TodoRight
  <2>4. OutputCounterRight
    BY <1>0, <1>1 DEF OutputCounterRight
  <2> QED BY <2>1, <2>2, <2>3, <2>4
<1>3. ASSUME NEW r \in Rows PROVE DOMAIN output[r] = Cells(launch, r) /\ RowRight(r)
  <2>1. DOMAIN output[r] = Cells(launch, r)
    <3>1. output = [s \in Rows |-> [x \in Cells(launch, s) |-> None]]
      BY DEF Fresh, Unwritten, Rows, Launched
    <3> QED BY <3>1
  <2>2. CASE Collects /\ ~Trivial(r)
    <3>1. CASE Launched.deterministic
      BY <1>1, <2>1, <2>2, <3>1 DEF RowRight, ListRight, Collects
    <3>2. CASE ~Launched.deterministic
      <4>1. Claimed(r) = {}
        <5>1. { c \in Ctas : HasClaimed(c, r) } = {}
          BY <1>1
        <5> QED BY <5>1 DEF Claimed, Owned
      <4>2. Taken(r) = {}
        BY <1>1, <2>2, NothingTaken
      <4>3. PlacesTaken(r) = 0
        <5>1. Cardinality({}) = 0
          BY FS_EmptySet
        <5>2. Cardinality(Claimed(r)) = 0 /\ Cardinality(Taken(r)) = 0
          BY <4>1, <4>2, <5>1
        <5> QED BY <5>2 DEF PlacesTaken
      <4>4. PlacesOf(r) = {}
        <5>1. DOMAIN output[r] = 0 .. K(r) - 1
          BY <1>0, <2>1, <2>2, ShareFacts
        <5>2. \A x \in DOMAIN output[r] : ~(x < 0)
          BY <5>1
        <5> QED BY <4>3, <5>2 DEF PlacesOf
      <4>5. IsList(ListOf(r), PlacesOf(r), Claimed(r), Taken(r))
        BY <4>1, <4>4 DEF IsList
      <4>6. ListRight(r)
        BY <3>2, <4>5, ListRightIs
      <4> QED BY <2>1, <2>2, <4>6 DEF RowRight, Collects
    <3> QED BY <2>1, <3>1, <3>2
  <2>3. CASE ~(Collects /\ ~Trivial(r))
    <3>1. Launched.kernel \in Kernels
      BY <1>0, ParameterAssumption DEF LaunchRight, Launched
    <3> QED BY <1>1, <2>1, <2>3, <3>1 DEF RowRight, Collects, Kernels
  <2> QED BY <2>1, <2>2, <2>3
<1>4. OutputsRight
  BY <1>3 DEF OutputsRight
<1> QED BY <1>2, <1>4

LEMMA FreshData == Control /\ Fresh => DataRight
BY FreshSelection, FreshOutputs DEF DataRight

LEMMA FreshDataNext == (Control /\ Fresh => DataRight)'
BY FreshData, PTL

\* A step keeps the data right.
LEMMA DataStep ==
  ASSUME CopiedFirst, Control, DataRight, NEW c \in Ctas, Step(c)
  PROVE  DataRight'
BY LeaderStep, HistogramsStep, PrefixesStep, SumStep, ScratchStep, TodoStep, OutputCounterStep, OutputsStep
   DEF DataRight

\* Nothing happens.
LEMMA StutterMarks ==
  ASSUME UNCHANGED vars
  PROVE  /\ \A c, r, n : (HasRead(c, r, n)' <=> HasRead(c, r, n)) /\ (HasAdded(c, r, n)' <=> HasAdded(c, r, n))
         /\ \A r, n : Ready(r, n)' <=> Ready(r, n)
         /\ \A c, r : /\ (HasSummed(c, r)' <=> HasSummed(c, r)) /\ (HasWritten(c, r)' <=> HasWritten(c, r))
                      /\ (HasCounted(c, r)' <=> HasCounted(c, r)) /\ (HasEmitted(c, r)' <=> HasEmitted(c, r))
                      /\ (HasClaimed(c, r)' <=> HasClaimed(c, r))
         /\ \A r : (HasZeroed(r)' <=> HasZeroed(r)) /\ (HasOpened(r)' <=> HasOpened(r))
<1>0. UNCHANGED <<program, launch>> /\ pc' = pc /\ row' = row /\ round' = round
  BY DEF vars, local
<1>1. \A c, r, S : Past(c, r, S)' <=> Past(c, r, S)
  BY <1>0 DEF Past
<1>2. \A c, r, n : HasRead(c, r, n)' <=> HasRead(c, r, n)
  BY <1>0 DEF HasRead, Past
<1>3. \A c, r, n : HasAdded(c, r, n)' <=> HasAdded(c, r, n)
  BY <1>0, <1>2 DEF HasAdded
<1>4. \A r, n : HasCleared(r, n)' <=> HasCleared(r, n)
  BY <1>0, <1>2 DEF HasCleared
<1>5. \A r : Trivial(r)' <=> Trivial(r)
  BY <1>0, SameRows
<1>6. \A r, n : Ready(r, n)' <=> Ready(r, n)
  BY <1>0, <1>4, <1>5 DEF Ready
<1> QED BY <1>0, <1>2, <1>3, <1>6
        DEF HasSummed, HasWritten, HasCounted, HasEmitted, HasClaimed, HasZeroed, HasOpened, Past

LEMMA StutterSelection ==
  ASSUME UNCHANGED vars, LeaderRight, HistogramsRight, PrefixesRight
  PROVE  LeaderRight' /\ HistogramsRight' /\ PrefixesRight'
<1>0. /\ UNCHANGED <<program, launch>> /\ pc' = pc /\ row' = row /\ round' = round /\ histogram' = histogram
      /\ prefix' = prefix /\ remaining_k' = remaining_k
  BY DEF vars, state, local
<1>1. LeaderRight'
  BY <1>0 DEF LeaderRight
<1>2. HistogramsRight'
  <2> SUFFICES ASSUME NEW r \in Rows', NEW n \in 0 .. NumRounds - 1,
                      ~Trivial(r)', Ready(r, n)', \E c \in Ctas : ~HasRead(c, r, n)'
               PROVE  histogram'[Buffer(r, n)] = Counts(r, n, { c \in Ctas : HasAdded(c, r, n) })'
    BY DEF HistogramsRight
  <2>1. r \in Rows /\ ~Trivial(r) /\ Ready(r, n) /\ \E c \in Ctas : ~HasRead(c, r, n)
    BY <1>0, SameRows, StutterMarks
  <2>2. histogram[Buffer(r, n)] = Counts(r, n, { c \in Ctas : HasAdded(c, r, n) })
    BY <2>1 DEF HistogramsRight
  <2>3. { c \in Ctas : HasAdded(c, r, n)' } = { c \in Ctas : HasAdded(c, r, n) }
    BY StutterMarks
  <2>4. Counts(r, n, { c \in Ctas : HasAdded(c, r, n) })' = Counts(r, n, { c \in Ctas : HasAdded(c, r, n)' })
    BY <1>0, CountsSame
  <2> QED BY <1>0, <2>2, <2>3, <2>4
<1>3. PrefixesRight'
  <2> SUFFICES ASSUME NEW c \in Ctas PROVE PrefixRight(c)'
    BY DEF PrefixesRight, PrefixRight
  <2>1. PrefixRight(c)
    BY DEF PrefixesRight, PrefixRight
  <2> QED BY <1>0, <2>1, PrefixByRow
<1> QED BY <1>1, <1>2, <1>3

LEMMA StutterShared ==
  ASSUME UNCHANGED vars, SumRight, ScratchRight, TodoRight
  PROVE  SumRight' /\ ScratchRight' /\ TodoRight'
<1>0. /\ UNCHANGED <<program, launch>> /\ pc' = pc /\ row' = row /\ sum_topk' = sum_topk
      /\ det_scratch' = det_scratch /\ todo' = todo
  BY DEF vars, state, local
<1>1. SumRight'
  <2> SUFFICES ASSUME Launched'.kernel = "renorm", NEW r \in Rows', HasZeroed(r)', \E c \in Ctas : ~HasWritten(c, r)'
               PROVE  sum_topk' = SumFunctionOnSet(Data(r), Owned(r, { c \in Ctas : HasSummed(c, r) }) \cap Leading(r))'
    BY DEF SumRight
  <2>1. /\ r \in Rows /\ HasZeroed(r) /\ \E c \in Ctas : ~HasWritten(c, r)
        /\ Launched.kernel = "renorm" /\ Data(r)' = Data(r) /\ Leading(r)' = Leading(r)
        /\ \A S : Owned(r, S)' = Owned(r, S)
    BY <1>0, SameRows, StutterMarks
  <2>2. sum_topk = SumFunctionOnSet(Data(r), Owned(r, { c \in Ctas : HasSummed(c, r) }) \cap Leading(r))
    BY <2>1 DEF SumRight
  <2> DEFINE T == { c \in Ctas : HasSummed(c, r)' }
  <2>3. T = { c \in Ctas : HasSummed(c, r) }
    BY StutterMarks
  <2>4. { c \in Ctas : HasSummed(c, r) }' = T
    OBVIOUS
  <2> HIDE DEF T
  <2>5. SumFunctionOnSet(Data(r), Owned(r, { c \in Ctas : HasSummed(c, r) }) \cap Leading(r))'
          = SumFunctionOnSet(Data(r), Owned(r, T) \cap Leading(r))
    BY <2>1, <2>4
  <2> QED BY <1>0, <2>2, <2>3, <2>5
<1>2. ScratchRight'
  <2> SUFFICES ASSUME Collects', Launched'.deterministic, NEW r \in Rows', NEW c \in Ctas, ~Trivial(r)',
                      HasCounted(c, r)', \E d \in Ctas : ~HasEmitted(d, r)'
               PROVE  det_scratch'[c] = [gt |-> Cardinality(Chunk(c, r) \cap Larger(r)),
                                         eq |-> Cardinality(Chunk(c, r) \cap Border(r))]'
    BY DEF ScratchRight
  <2>1. /\ r \in Rows /\ ~Trivial(r) /\ HasCounted(c, r) /\ \E d \in Ctas : ~HasEmitted(d, r)
        /\ Collects /\ Launched.deterministic
        /\ Larger(r)' = Larger(r) /\ Border(r)' = Border(r) /\ Chunk(c, r)' = Chunk(c, r)
    BY <1>0, SameRows, StutterMarks
  <2> QED BY <1>0, <2>1 DEF ScratchRight
<1>3. TodoRight'
  <2> SUFFICES ASSUME NEW c \in Ctas PROVE TodoOf(c)'
    BY DEF TodoRight, TodoOf
  <2>1. TodoOf(c)
    BY DEF TodoRight, TodoOf
  <2> QED BY <1>0, <2>1, TodoKept
<1> QED BY <1>1, <1>2, <1>3

LEMMA StutterOutputs ==
  ASSUME UNCHANGED vars, LaunchRight, OutputCounterRight, OutputsRight
  PROVE  OutputCounterRight' /\ OutputsRight'
<1>0. /\ UNCHANGED <<program, launch>> /\ pc' = pc /\ row' = row /\ output' = output
      /\ output_counter' = output_counter /\ todo' = todo
  BY DEF vars, state, local
<1>1. ASSUME NEW r
      PROVE  Claimed(r)' = Claimed(r) /\ Taken(r)' = Taken(r) /\ PlacesTaken(r)' = PlacesTaken(r)
  <2> DEFINE T == { c \in Ctas : HasClaimed(c, r)' }
  <2>1. T = { c \in Ctas : HasClaimed(c, r) }
    BY StutterMarks
  <2>2. { c \in Ctas : HasClaimed(c, r) }' = T
    OBVIOUS
  <2> HIDE DEF T
  <2>3. Larger(r)' = Larger(r) /\ Border(r)' = Border(r) /\ \A S : Owned(r, S)' = Owned(r, S)
    BY <1>0, SameRows
  <2>4. Claimed(r)' = Claimed(r)
    BY <2>1, <2>2, <2>3 DEF Claimed
  <2>5. \A c : Untaken(c, r)' = Untaken(c, r)
    <3>1. \A c : Chunk(c, r)' = Chunk(c, r)
      BY <1>0, SameRows
    <3> QED BY <1>0, <2>3, <3>1, StutterMarks DEF Untaken
  <2>6. Taken(r)' = Taken(r)
    <3>1. Taken(r)' = { i \in Border(r) : \A c \in Ctas : i \notin Untaken(c, r)' }
      BY <2>3 DEF Taken
    <3>2. { i \in Border(r) : \A c \in Ctas : i \notin Untaken(c, r)' } = { i \in Border(r) : \A c \in Ctas : i \notin Untaken(c, r) }
      BY <2>5
    <3> QED BY <3>1, <3>2 DEF Taken
  <2> QED BY <2>4, <2>6 DEF PlacesTaken
<1>2. OutputCounterRight'
  <2> SUFFICES ASSUME Collects', ~Launched'.deterministic, NEW r \in Rows', ~Trivial(r)', HasOpened(r)',
                      \E c \in Ctas : ~HasEmitted(c, r)'
               PROVE  output_counter' = PlacesTaken(r)'
    BY DEF OutputCounterRight
  <2>1. /\ r \in Rows /\ ~Trivial(r) /\ HasOpened(r) /\ \E c \in Ctas : ~HasEmitted(c, r)
        /\ Collects /\ ~Launched.deterministic
    BY <1>0, SameRows, StutterMarks
  <2> QED BY <1>0, <1>1, <2>1 DEF OutputCounterRight
<1>3. ASSUME NEW r, NEW x PROVE Listed(r, x)' = Listed(r, x)
  <2>1. Launched' = Launched /\ K(r)' = K(r)
    BY <1>0, SameRows
  <2>2. \A c : Share(c, r)' = Share(c, r)
    BY <1>0, <2>1 DEF Share
  <2>3. Sent(r, x)' <=> Sent(r, x)
    BY <1>0, <2>1, <2>2 DEF Sent
  <2>4. Listed(r, x)' = IF Sent(r, x)' THEN Unpaged(output'[r][x]) ELSE output'[r][x]
    BY DEF Listed, Sent, Unpaged, Paged
  <2> QED BY <1>0, <2>3, <2>4, ListedSent
<1>4. ASSUME NEW r \in Rows, ListRight(r) PROVE ListRight(r)'
  <2>0. Launched' = Launched
    BY <1>0, SameRows
  <2>1. CASE Launched.deterministic
    <3>1. OrderedList(r)
      BY <1>4, <2>1, OrderedListIs
    <3>2. /\ K(r)' = K(r) /\ Leading(r)' = Leading(r) /\ \A d : Chunk(d, r)' = Chunk(d, r)
          /\ \A i : Target(r, i)' = Target(r, i)
      <4>1. /\ K(r)' = K(r) /\ Leading(r)' = Leading(r)
            /\ Larger(r)' = Larger(r) /\ Border(r)' = Border(r) /\ \A d : Chunk(d, r)' = Chunk(d, r)
        BY <1>0, SameRows
      <4> QED BY <4>1 DEF Target
    <3>3. OrderedList(r)' <=> \A d \in Ctas : HasEmitted(d, r)' =>
            \A i \in Chunk(d, r)' \cap Leading(r)' : \A x :
              x = Target(r, i)' /\ x < K(r)' => Listed(r, x)' = i
      BY DEF OrderedList
    <3>4. OrderedList(r)'
      <4> SUFFICES ASSUME NEW d \in Ctas, HasEmitted(d, r)', NEW i \in Chunk(d, r) \cap Leading(r),
                          NEW x, x = Target(r, i), x < K(r)
                   PROVE  Listed(r, x)' = i
        BY <3>2, <3>3
      <4>1. HasEmitted(d, r)
        BY StutterMarks
      <4>2. Listed(r, x) = i
        BY <3>1, <4>1 DEF OrderedList
      <4> QED BY <1>3, <4>2
    <3> QED BY <2>0, <2>1, <3>4, OrderedListIsNext
  <2>2. CASE ~Launched.deterministic
    <3>1. IsList(ListOf(r), PlacesOf(r), Claimed(r), Taken(r))
      BY <1>4, <2>2, ListRightIs
    <3>2. PlacesOf(r)' = PlacesOf(r)
      BY <1>0, <1>1 DEF PlacesOf
    <3>3. \A x \in PlacesOf(r) : ListOf(r)'[x] = ListOf(r)[x]
      <4> SUFFICES ASSUME NEW x \in PlacesOf(r) PROVE ListOf(r)'[x] = ListOf(r)[x]
        OBVIOUS
      <4>1. x \in DOMAIN output[r]
        BY DEF PlacesOf
      <4>2. ListOf(r)[x] = Listed(r, x) /\ ListOf(r)'[x] = Listed(r, x)'
        BY <1>0, <4>1 DEF ListOf
      <4> QED BY <1>3, <4>2
    <3>4. IsList(ListOf(r)', PlacesOf(r), Claimed(r), Taken(r))
      BY <3>1, <3>3, SameList
    <3> QED BY <1>1, <2>0, <2>2, <3>2, <3>4, ListRightNext
  <2> QED BY <2>1, <2>2
<1>5. ASSUME NEW r \in Rows PROVE DOMAIN output'[r] = Cells(launch, r)' /\ RowRight(r)'
  <2>1. /\ Launched' = Launched /\ Data(r)' = Data(r) /\ Leading(r)' = Leading(r) /\ (Trivial(r)' <=> Trivial(r))
        /\ (\A c : Chunk(c, r)' = Chunk(c, r)) /\ Cells(launch, r)' = Cells(launch, r) /\ (Collects' <=> Collects)
    BY <1>0, SameRows
  <2>2. DOMAIN output[r] = Cells(launch, r) /\ RowRight(r)
    BY DEF OutputsRight
  <2>3. \A c : HasWritten(c, r)' <=> HasWritten(c, r)
    BY StutterMarks
  <2>4. ListRight(r) => ListRight(r)'
    BY <1>4
  <2>5. RowRight(r)'
    <3>1. CASE Launched.kernel = "mask"
      BY <1>0, <2>1, <2>2, <2>3, <3>1 DEF RowRight, Collects
    <3>2. CASE Launched.kernel = "renorm"
      <4> DEFINE w(c) == <<Chunk(c, r) \cap Leading(r), SumFunctionOnSet(Data(r), Leading(r))>>
      <4>1. \A c \in Ctas : HasWritten(c, r) => output[r][c] = w(c)
        BY <2>2, <3>2 DEF RowRight, Collects
      <4>2. \A c : w(c)' = w(c)
        BY <2>1
      <4>3. RowRight(r)' <=> \A c \in Ctas : HasWritten(c, r)' => output'[r][c] = w(c)'
        BY <2>1, <3>2 DEF RowRight, Collects
      <4> HIDE DEF w
      <4> QED BY <1>0, <2>3, <4>1, <4>2, <4>3
    <3>3. CASE Collects /\ Trivial(r) /\ Launched.kernel = "basic"
      BY <1>0, <2>1, <2>2, <2>3, <3>3 DEF RowRight, Collects
    <3>4. CASE Collects /\ Trivial(r) /\ Launched.kernel = "page_table"
      BY <1>0, <2>1, <2>2, <2>3, <3>4 DEF RowRight, Collects, Paged
    <3>5. CASE Collects /\ ~Trivial(r)
      <4>1. ListRight(r)
        BY <2>2, <3>5 DEF RowRight, Collects
      <4> QED BY <2>1, <2>4, <3>5, <4>1 DEF RowRight, Collects
    <3>6. Launched.kernel \in Kernels
      BY ParameterAssumption DEF LaunchRight, Launched
    <3> QED BY <3>1, <3>2, <3>3, <3>4, <3>5, <3>6 DEF Kernels, Collects
  <2> QED BY <1>0, <2>1, <2>2, <2>5
<1>6. OutputsRight'
  <2>1. Rows' = Rows
    BY <1>0, SameRows
  <2> QED BY <1>5, <2>1 DEF OutputsRight
<1> QED BY <1>2, <1>6

\* The data of a launch stays right; what a row needs of the rows before it is
\* CopiedFirst.
THEOREM InductiveInvariant == CopiedFirst => (Spec => []IInv)
<1> SUFFICES ASSUME CopiedFirst PROVE Spec => []IInv
  OBVIOUS
<1>1. Init /\ Control => DataRight
  BY FreshInit, FreshData
<1>2. DataRight /\ Control /\ Control' /\ [Next]_vars => DataRight'
  <2> SUFFICES ASSUME DataRight, Control, Control', [Next]_vars PROVE DataRight'
    OBVIOUS
  <2>1. CASE NextLaunch
    BY <2>1, FreshLaunch, FreshDataNext
  <2>2. ASSUME NEW c \in Ctas, Step(c) PROVE DataRight'
    BY <2>2, DataStep
  <2>3. CASE UNCHANGED vars
    <3>1. LaunchRight
      BY DEF Control, TypeOK, LaunchRight
    <3> QED BY <2>3, <3>1, StutterSelection, StutterShared, StutterOutputs DEF DataRight
  <2> QED BY <2>1, <2>2, <2>3 DEF Next
<1>3. IInv <=> Control /\ DataRight
  BY DEF IInv
<1> QED BY <1>1, <1>2, <1>3, ControlHolds, PTL DEF Spec

\* A row has a pivot.
LEMMA PivotExists ==
  ASSUME LaunchRight, NEW r \in Rows, ~Trivial(r)
  PROVE  \E p \in Nat : Fits(r, NumRounds, p)
<1> DEFINE T == { n \in Nat : n <= NumRounds => \E p \in Nat : p < Power[n] /\ Fits(r, n, p) }
<1>0. NumRounds \in Nat \ {0} /\ Power[0] = 1
  BY Sizes, PowerValues
<1>1. 0 \in T
  <2>1. Fits(r, 0, 0)
    BY FitsStart
  <2>2. 0 < Power[0] /\ 0 \in Nat
    BY <1>0
  <2>3. \E p \in Nat : p < Power[0] /\ Fits(r, 0, p)
    BY <2>1, <2>2
  <2> QED BY <2>3
<1>2. ASSUME NEW n \in Nat, n \in T PROVE n + 1 \in T
  <2> SUFFICES ASSUME n + 1 <= NumRounds PROVE \E p \in Nat : p < Power[n + 1] /\ Fits(r, n + 1, p)
    OBVIOUS
  <2>1. PICK p \in Nat : p < Power[n] /\ Fits(r, n, p)
    BY <1>0, <1>2
  <2>2. n \in 0 .. NumRounds - 1 /\ p \in Values
    <3>1. Power[n] <= Power[NumRounds] /\ Power[n] \in Nat /\ Power[NumRounds] \in Nat
      BY <1>0, PowerFacts
    <3> QED BY <1>0, <2>1, <3>1 DEF Values
  <2> DEFINE k == K(r) - Cardinality(MoreThan(r, n, p))
             h == Counts(r, n, Ctas)
  <2>3. k \in Nat /\ k + Cardinality(MoreThan(r, n, p)) = K(r)
    <3>1. n \in 0 .. NumRounds
      BY <1>0, <2>2
    <3>2. Cardinality(MoreThan(r, n, p)) \in Nat
      BY <3>1, MoreFacts
    <3>3. Cardinality(MoreThan(r, n, p)) < K(r) /\ K(r) \in Nat
      BY <2>1, RowFacts DEF Fits
    <3> QED BY <3>2, <3>3
  <2> HIDE DEF k
  <2>4. /\ Found(h, k) # {}
        /\ \A b \in Found(h, k) : Fits(r, n + 1, p * Radix + b)
    BY <2>1, <2>2, <2>3, NextDigit
  <2>5. PICK b \in Found(h, k) : TRUE
    BY <2>4
  <2>6. b \in 0 .. Radix - 1
    BY DEF Found
  <2>7. p * Radix + b \in Nat /\ p * Radix + b < Power[n + 1]
    BY <2>1, <2>6, PrefixStep
  <2> QED BY <2>4, <2>7
<1>3. Nat \subseteq T
  <2> HIDE DEF T
  <2> QED BY <1>1, <1>2, NatSetInduction
<1> QED BY <1>0, <1>3

\* The sizes of the parts of the leading elements.
LEMMA LeadingFacts ==
  ASSUME LaunchRight, NEW r \in Rows, ~Trivial(r)
  PROVE  /\ Larger(r) \subseteq Leading(r) /\ Leading(r) = Larger(r) \cup Border(r)
         /\ Cardinality(Larger(r)) \in Nat /\ Cardinality(Border(r)) \in Nat
         /\ Cardinality(Larger(r)) < K(r) /\ K(r) <= Cardinality(Larger(r)) + Cardinality(Border(r))
<1>1. PICK p \in Nat : Fits(r, NumRounds, p)
  BY PivotExists
<1>2. /\ Leading(r) = { i \in DOMAIN Data(r) : Data(r)[i] >= p }
      /\ Larger(r) = { i \in DOMAIN Data(r) : Data(r)[i] > p }
      /\ Cardinality(Larger(r)) \in Nat /\ Cardinality(Larger(r)) < K(r)
      /\ Cardinality(Border(r)) \in Nat /\ K(r) <= Cardinality(Larger(r)) + Cardinality(Border(r))
  BY <1>1, PivotFacts
<1>3. \A i \in DOMAIN Data(r) : Data(r)[i] \in Nat
  BY RowFacts
<1>4. Larger(r) \subseteq Leading(r)
  BY <1>2, <1>3
<1> QED BY <1>2, <1>4 DEF Border

\* As many elements as places.
LEMMA ListSize ==
  ASSUME NEW f, NEW P, IsFiniteSet(P), \A x, y \in P : f[x] = f[y] => x = y,
         NEW S, \A x \in P : f[x] \in S, \A i \in S : \E x \in P : f[x] = i
  PROVE  Cardinality(S) = Cardinality(P)
<1> DEFINE g == [x \in P |-> f[x]]
<1>1. g \in [P -> S] /\ (\A x, y \in P : g[x] = g[y] => x = y) /\ (\A i \in S : \E x \in P : g[x] = i) /\ DOMAIN g = P
  OBVIOUS
<1> HIDE DEF g
<1>2. g \in Bijection(P, S)
  BY <1>1 DEF Bijection, Injection, Surjection, IsInjective
<1> QED BY <1>2, FS_Bijection DEF ExistsBijection

Entry(i) == IF Launched.kernel = "page_table" THEN Paged(i) ELSE i

LEMMA SelectedIs ==
  ASSUME NEW r
  PROVE  Selected(r) = { i \in DOMAIN Data(r) : \E x \in DOMAIN output[r] : output[r][x] = Entry(i) }
BY DEF Selected, Entry

\* A list that is complete is right.
LEMMA ListSelects ==
  ASSUME LaunchRight, NEW r \in Rows, Collects, ~Trivial(r), DOMAIN output[r] = Cells(launch, r),
         \A c \in Ctas : row[c] > r,
         IsList(ListOf(r), DOMAIN output[r], Larger(r), Border(r))
  PROVE  /\ \A i \in DOMAIN Data(r) : i \in Selected(r) <=> \E x \in DOMAIN output[r] : Listed(r, x) = i
         /\ Larger(r) \subseteq Selected(r) /\ Selected(r) \subseteq Leading(r)
         /\ Cardinality(Selected(r)) = Cardinality(DOMAIN output[r])
<1>0. /\ DOMAIN output[r] = 0 .. K(r) - 1 /\ \A x \in DOMAIN output[r] : \E d \in Ctas : x \in Share(d, r)
  BY ShareFacts
<1>1. \A x \in DOMAIN output[r] : ListOf(r)[x] = Listed(r, x)
  BY DEF ListOf
<1>2. Larger(r) \subseteq DOMAIN Data(r) /\ Border(r) \subseteq DOMAIN Data(r) /\ Leading(r) = Larger(r) \cup Border(r)
  BY ListParts, LeadingFacts
<1>3. ASSUME NEW x \in DOMAIN output[r], NEW i \in DOMAIN Data(r)
      PROVE  Listed(r, x) = i <=> output[r][x] = Entry(i)
  <2>0. i \in Nat /\ i # None
    BY RowFacts, ParameterAssumption
  <2>1. Sent(r, x) <=> Launched.kernel = "page_table"
    BY <1>0 DEF Sent
  <2>2. CASE Launched.kernel = "page_table"
    <3>1. Listed(r, x) = Unpaged(output[r][x]) /\ Entry(i) = -1 - i
      BY <2>1, <2>2, ListedSent DEF Entry, Paged
    <3>2. ASSUME output[r][x] = -1 - i PROVE Unpaged(output[r][x]) = i
      BY <2>0, <3>2 DEF Unpaged, Paged
    <3>3. ASSUME Unpaged(output[r][x]) = i PROVE output[r][x] = -1 - i
      <4>1. output[r][x] \in Int /\ i = -1 - output[r][x]
        BY <2>0, <3>3 DEF Unpaged, Paged
      <4> QED BY <2>0, <4>1
    <3> QED BY <3>1, <3>2, <3>3
  <2>3. CASE Launched.kernel # "page_table"
    BY <2>1, <2>3, ListedSent DEF Entry
  <2> QED BY <2>2, <2>3
<1>4. \A i \in DOMAIN Data(r) : i \in Selected(r) <=> \E x \in DOMAIN output[r] : Listed(r, x) = i
  BY <1>3, SelectedIs
<1>5. Selected(r) \subseteq DOMAIN Data(r)
  BY SelectedIs
<1>6. \A x \in DOMAIN output[r] : ListOf(r)[x] \in Selected(r) /\ ListOf(r)[x] \in Leading(r)
  BY <1>1, <1>2, <1>4 DEF IsList
<1>7. \A i \in Selected(r) : \E x \in DOMAIN output[r] : ListOf(r)[x] = i
  BY <1>1, <1>4, <1>5
<1>8. Cardinality(Selected(r)) = Cardinality(DOMAIN output[r])
  <2>1. IsFiniteSet(DOMAIN output[r])
    <3>1. K(r) \in Nat
      BY RowFacts
    <3>2. IsFiniteSet(0 .. K(r) - 1)
      BY <3>1, FS_Interval
    <3> QED BY <1>0, <3>2
  <2>2. \A x, y \in DOMAIN output[r] : ListOf(r)[x] = ListOf(r)[y] => x = y
    BY DEF IsList
  <2> QED BY <1>6, <1>7, <2>1, <2>2, ListSize
<1>9. Larger(r) \subseteq Selected(r)
  BY <1>1, <1>2, <1>4 DEF IsList
<1>10. Selected(r) \subseteq Leading(r)
  BY <1>6, <1>7
<1> QED BY <1>4, <1>8, <1>9, <1>10

\* The atomic kernels have taken all places.
LEMMA AtomicComplete ==
  ASSUME Control, OutputsRight, Collects, ~Launched.deterministic, NEW r \in Rows, ~Trivial(r),
         \A c \in Ctas : row[c] > r
  PROVE  IsList(ListOf(r), DOMAIN output[r], Larger(r), Border(r))
<1>0. LaunchRight /\ DOMAIN output[r] = Cells(launch, r) /\ ListRight(r)
  <2>1. LaunchRight
    BY DEF Control, TypeOK, LaunchRight
  <2>2. DOMAIN output[r] = Cells(launch, r) /\ RowRight(r)
    BY DEF OutputsRight
  <2> QED BY <2>1, <2>2 DEF RowRight, Collects
<1>1. \A c \in Ctas : HasClaimed(c, r) /\ HasEmitted(c, r)
  BY DEF HasClaimed, HasEmitted, Past
<1>2. Larger(r) \subseteq DOMAIN Data(r)
  BY <1>0, ListParts
<1>3. Claimed(r) = Larger(r)
  <2>1. { c \in Ctas : HasClaimed(c, r) } = Ctas
    BY <1>1
  <2>2. Owned(r, Ctas) = DOMAIN Data(r)
    BY <1>0, OwnedFacts
  <2> QED BY <1>2, <2>1, <2>2 DEF Claimed
<1>4. Taken(r) = Border(r)
  BY <1>1 DEF Taken, Untaken
<1>5. PlacesOf(r) = DOMAIN output[r]
  <2>1. PlacesTaken(r) = Cardinality(Larger(r)) + Cardinality(Border(r))
    BY <1>3, <1>4 DEF PlacesTaken
  <2>2. DOMAIN output[r] = 0 .. K(r) - 1 /\ K(r) \in Nat
    BY <1>0, ShareFacts, RowFacts
  <2>3. K(r) <= PlacesTaken(r) /\ PlacesTaken(r) \in Nat
    BY <1>0, <2>1, LeadingFacts
  <2>4. \A x \in DOMAIN output[r] : x < PlacesTaken(r)
    BY <2>2, <2>3
  <2> QED BY <2>4 DEF PlacesOf
<1> QED BY <1>0, <1>3, <1>4, <1>5, ListRightIs

\* An element for every place of the deterministic list.
LEMMA TargetExists ==
  ASSUME LaunchRight, NEW r \in Rows, ~Trivial(r), NEW x \in 0 .. K(r) - 1
  PROVE  \E i \in Leading(r) : Target(r, i) = x
<1> DEFINE L == Larger(r)
           B == Border(r)
           n == Cardinality(L)
           m == Cardinality(B)
<1>1. /\ Leading(r) = L \cup B /\ n \in Nat /\ m \in Nat /\ K(r) <= n + m /\ K(r) \in Nat
      /\ \A i \in L : Target(r, i) = Rank(L, i)
      /\ \A i \in B : Target(r, i) = n + Rank(B, i)
  <2>1. /\ \A i \in L : Target(r, i) = Rank(L, i)
        /\ \A i \in B : Target(r, i) = n + Rank(B, i)
    BY TargetFacts
  <2> QED BY <2>1, LeadingFacts, RowFacts
<1>2. L \in SUBSET Nat /\ B \in SUBSET Nat /\ IsFiniteSet(L) /\ IsFiniteSet(B)
  <2>1. DOMAIN Data(r) \subseteq Nat /\ L \subseteq DOMAIN Data(r) /\ B \subseteq DOMAIN Data(r)
    BY RowFacts, ListParts
  <2> HIDE DEF L, B
  <2> QED BY <2>1, PartFacts
<1> HIDE DEF L, B
<1>3. CASE x < n
  <2>1. x \in 0 .. Cardinality(L) - 1
    BY <1>1, <1>3
  <2>2. \E i \in L : Rank(L, i) = x
    BY <1>2, <2>1, RankTaken
  <2> QED BY <1>1, <2>2
<1>4. CASE ~(x < n)
  <2>1. x - n \in 0 .. Cardinality(B) - 1
    BY <1>1, <1>4
  <2>2. PICK i \in B : Rank(B, i) = x - n
    BY <1>2, <2>1, RankTaken
  <2>3. n + (x - n) = x
    BY <1>1
  <2>4. Target(r, i) = x
    BY <1>1, <2>2, <2>3
  <2> QED BY <1>1, <2>4
<1> QED BY <1>3, <1>4

\* The deterministic kernels have written all places.
LEMMA OrderedComplete ==
  ASSUME Control, OutputsRight, Collects, Launched.deterministic, NEW r \in Rows, ~Trivial(r),
         \A c \in Ctas : row[c] > r
  PROVE  /\ DOMAIN output[r] = 0 .. K(r) - 1
         /\ \A i \in Leading(r), x \in DOMAIN output[r] : Target(r, i) = x <=> Listed(r, x) = i
         /\ IsList(ListOf(r), DOMAIN output[r], Larger(r), Border(r))
<1>0. LaunchRight /\ DOMAIN output[r] = Cells(launch, r) /\ OrderedList(r)
  <2>1. LaunchRight
    BY DEF Control, TypeOK, LaunchRight
  <2>2. DOMAIN output[r] = Cells(launch, r) /\ RowRight(r)
    BY DEF OutputsRight
  <2>3. ListRight(r)
    BY <2>2 DEF RowRight, Collects
  <2> QED BY <2>1, <2>2, <2>3, OrderedListIs
<1>1. DOMAIN output[r] = 0 .. K(r) - 1 /\ K(r) \in Nat
  BY <1>0, ShareFacts, RowFacts
<1>2. \A c \in Ctas : HasEmitted(c, r)
  BY DEF HasEmitted, Past
<1>3. /\ Leading(r) = Larger(r) \cup Border(r) /\ Leading(r) \subseteq DOMAIN Data(r)
      /\ Cardinality(Larger(r)) \in Nat /\ Cardinality(Larger(r)) < K(r)
  BY <1>0, LeadingFacts DEF Leading
<1>4. ASSUME NEW i \in Leading(r), NEW x \in DOMAIN output[r], Target(r, i) = x PROVE Listed(r, x) = i
  <2>1. PICK c \in Ctas : i \in Chunk(c, r)
    BY <1>0, <1>3, OwnerExists
  <2>2. x < K(r)
    BY <1>1
  <2> QED BY <1>0, <1>2, <1>4, <2>1, <2>2 DEF OrderedList
<1>5. \A x \in DOMAIN output[r] : \E i \in Leading(r) : Target(r, i) = x /\ Listed(r, x) = i
  BY <1>0, <1>1, <1>4, TargetExists
<1>6. \A i \in Leading(r), x \in DOMAIN output[r] : Target(r, i) = x <=> Listed(r, x) = i
  BY <1>4, <1>5
<1>7. \A x \in DOMAIN output[r] : ListOf(r)[x] = Listed(r, x)
  BY DEF ListOf
<1>8. \A i \in Larger(r) : Target(r, i) \in DOMAIN output[r]
  <2> SUFFICES ASSUME NEW i \in Larger(r) PROVE Target(r, i) \in 0 .. K(r) - 1
    BY <1>1
  <2>1. Target(r, i) = Rank(Larger(r), i)
    BY <1>0, TargetFacts
  <2>2. Rank(Larger(r), i) \in 0 .. Cardinality(Larger(r)) - 1
    <3>1. Larger(r) \subseteq DOMAIN Data(r) /\ DOMAIN Data(r) \subseteq Nat
      BY <1>0, ListParts, RowFacts
    <3>2. Larger(r) \in SUBSET Nat /\ IsFiniteSet(Larger(r))
      BY <1>0, <3>1, PartFacts
    <3> QED BY <3>2, RankFacts
  <2> QED BY <1>1, <1>3, <2>1, <2>2
<1>9. IsList(ListOf(r), DOMAIN output[r], Larger(r), Border(r))
  <2>1. \A x \in DOMAIN output[r] : ListOf(r)[x] \in Larger(r) \cup Border(r)
    BY <1>3, <1>5, <1>7
  <2>2. ASSUME NEW x \in DOMAIN output[r], NEW y \in DOMAIN output[r], ListOf(r)[x] = ListOf(r)[y]
        PROVE  x = y
    <3>1. PICK i \in Leading(r) : Target(r, i) = x /\ Listed(r, x) = i
      BY <1>5
    <3>2. Listed(r, y) = i
      BY <1>7, <2>2, <3>1
    <3>3. Target(r, i) = y
      BY <1>6, <3>2
    <3> QED BY <3>1, <3>3
  <2>3. \A i \in Larger(r) : \E x \in DOMAIN output[r] : ListOf(r)[x] = i
    BY <1>3, <1>6, <1>7, <1>8
  <2> QED BY <2>1, <2>2, <2>3 DEF IsList
<1> QED BY <1>1, <1>6, <1>9

\* Of equal elements the deterministic kernels list the first.
LEMMA OrderedFirst ==
  ASSUME Control, OutputsRight, Collects, Launched.deterministic, NEW r \in Rows, ~Trivial(r),
         \A c \in Ctas : row[c] > r,
         NEW i \in Leading(r) \ Selected(r), NEW j \in Selected(r) \ Larger(r)
  PROVE  j < i
<1>0. /\ LaunchRight /\ DOMAIN output[r] = Cells(launch, r)
      /\ DOMAIN output[r] = 0 .. K(r) - 1 /\ K(r) \in Nat
      /\ \A e \in Leading(r), x \in DOMAIN output[r] : Target(r, e) = x <=> Listed(r, x) = e
      /\ IsList(ListOf(r), DOMAIN output[r], Larger(r), Border(r))
  <2>1. LaunchRight
    BY DEF Control, TypeOK, LaunchRight
  <2>2. DOMAIN output[r] = Cells(launch, r)
    BY DEF OutputsRight
  <2> QED BY <2>1, <2>2, OrderedComplete, RowFacts
<1>1. /\ \A e \in DOMAIN Data(r) : e \in Selected(r) <=> \E x \in DOMAIN output[r] : Listed(r, x) = e
      /\ Larger(r) \subseteq Selected(r) /\ Selected(r) \subseteq Leading(r)
  BY <1>0, ListSelects
<1>2. Leading(r) \subseteq DOMAIN Data(r) /\ Leading(r) = Larger(r) \cup Border(r)
  BY <1>0, LeadingFacts DEF Leading
<1>3. i \in Border(r) /\ j \in Border(r) /\ i \in Leading(r) /\ j \in Leading(r)
  BY <1>1, <1>2
<1>4. Target(r, i) \notin DOMAIN output[r]
  BY <1>0, <1>1, <1>2, <1>3
<1>5. Target(r, j) \in DOMAIN output[r]
  BY <1>0, <1>1, <1>2, <1>3
<1>6. /\ Target(r, i) = Cardinality(Larger(r)) + Rank(Border(r), i)
      /\ Target(r, j) = Cardinality(Larger(r)) + Rank(Border(r), j)
      /\ Target(r, i) \in Nat
  BY <1>0, <1>3, TargetFacts
<1>7. Border(r) \in SUBSET Nat /\ IsFiniteSet(Border(r)) /\ Cardinality(Border(r)) \in Nat /\ Cardinality(Larger(r)) \in Nat
  <2>1. Border(r) \subseteq DOMAIN Data(r) /\ DOMAIN Data(r) \subseteq Nat
    BY <1>0, ListParts, RowFacts
  <2> QED BY <1>0, <2>1, PartFacts, LeadingFacts
<1>8. /\ Rank(Border(r), i) \in Nat /\ Rank(Border(r), j) \in Nat
      /\ i < j => Rank(Border(r), i) < Rank(Border(r), j)
      /\ i \in Nat /\ j \in Nat
  <2>1. Rank(Border(r), i) \in 0 .. Cardinality(Border(r)) - 1 /\ Rank(Border(r), j) \in 0 .. Cardinality(Border(r)) - 1
        /\ (i < j => Rank(Border(r), i) < Rank(Border(r), j))
    BY <1>3, <1>7, RankFacts
  <2> QED BY <1>3, <1>7, <2>1
<1>9. ~(i < j) /\ i # j
  <2>1. Target(r, i) >= K(r) /\ Target(r, j) < K(r)
    BY <1>0, <1>4, <1>5, <1>6
  <2> QED BY <1>0, <1>6, <1>7, <1>8, <2>1
<1> QED BY <1>8, <1>9

\* A row that was copied.
LEMMA CopiedCorrect ==
  ASSUME Control, OutputsRight, Collects, NEW r \in Rows, Trivial(r), \A c \in Ctas : row[c] > r
  PROVE  RowCorrect(r)
<1>0. LaunchRight /\ DOMAIN output[r] = Cells(launch, r) /\ RowRight(r) /\ 0 \in Ctas
  <2>1. LaunchRight
    BY DEF Control, TypeOK, LaunchRight
  <2> QED BY <2>1, Sizes DEF OutputsRight, Ctas
<1>1. DOMAIN output[r] = DOMAIN Data(r)
  <2>1. /\ K(r) \in Nat /\ Length(r) \in Nat /\ Length(r) <= K(r) /\ DOMAIN Data(r) = 0 .. Length(r) - 1
    BY <1>0, RowFacts DEF Trivial
  <2>2. Cells(launch, r) = 0 .. Min({K(r), Length(r)}) - 1
    BY DEF Cells, Collects, Launched, K, Length, Data
  <2>3. Min({K(r), Length(r)}) = Length(r)
    <3> HIDE DEF K, Length
    <3> QED BY <2>1 DEF Min
  <2> QED BY <1>0, <2>1, <2>2, <2>3
<1>2. \A c \in Ctas : HasWritten(c, r)
  BY DEF HasWritten, Past
<1>3. \A i \in DOMAIN Data(r) : output[r][i] = Entry(i)
  <2>1. CASE Launched.kernel = "basic"
    <3>1. \A c \in Ctas : \A i \in Chunk(c, r) : output[r][i] = i
      BY <1>0, <1>2, <2>1 DEF RowRight, Collects
    <3>2. \A i \in DOMAIN Data(r) : \E c \in Ctas : i \in Chunk(c, r)
      BY <1>0, OwnerExists
    <3> QED BY <2>1, <3>1, <3>2 DEF Entry
  <2>2. CASE Launched.kernel = "page_table"
    BY <1>0, <1>2, <2>2 DEF RowRight, Collects, Entry
  <2> QED BY <2>1, <2>2 DEF Collects
<1>4. Selected(r) = DOMAIN Data(r)
  BY <1>1, <1>3, SelectedIs
<1>5. Leading(r) = DOMAIN Data(r) /\ Larger(r) \subseteq DOMAIN Data(r)
  BY <1>0, TrivialLeading, ListParts
<1> QED BY <1>1, <1>4, <1>5 DEF RowCorrect, Collects

LEMMA ListCorrect ==
  ASSUME Control, OutputsRight, Collects, NEW r \in Rows, ~Trivial(r), \A c \in Ctas : row[c] > r
  PROVE  RowCorrect(r)
<1>0. LaunchRight /\ DOMAIN output[r] = Cells(launch, r)
  BY DEF Control, TypeOK, LaunchRight, OutputsRight
<1>1. IsList(ListOf(r), DOMAIN output[r], Larger(r), Border(r))
  BY AtomicComplete, OrderedComplete
<1>2. /\ Larger(r) \subseteq Selected(r) /\ Selected(r) \subseteq Leading(r)
      /\ Cardinality(Selected(r)) = Cardinality(DOMAIN output[r])
  BY <1>0, <1>1, ListSelects
<1>3. Launched.deterministic => \A i \in Leading(r) \ Selected(r), j \in Selected(r) \ Larger(r) : j < i
  BY OrderedFirst
<1> QED BY <1>2, <1>3 DEF RowCorrect, Collects

\* When all have left a row what they have written is right.
LEMMA OutputsCorrect ==
  ASSUME Control, OutputsRight
  PROVE  ResultCorrect
<1> SUFFICES ASSUME NEW r \in Rows, \A c \in Ctas : row[c] > r PROVE RowCorrect(r)
  BY DEF ResultCorrect
<1>1. RowRight(r) /\ \A c \in Ctas : HasWritten(c, r)
  BY DEF OutputsRight, HasWritten, Past
<1>2. CASE Launched.kernel = "mask"
  BY <1>1, <1>2 DEF RowRight, RowCorrect, Collects
<1>3. CASE Launched.kernel = "renorm"
  BY <1>1, <1>3 DEF RowRight, RowCorrect, Collects
<1>4. CASE Collects
  BY <1>4, CopiedCorrect, ListCorrect
<1>5. Launched.kernel \in Kernels
  <2>1. LaunchRight
    BY DEF Control, TypeOK, LaunchRight
  <2> QED BY <2>1, ParameterAssumption DEF LaunchRight, Launched
<1> QED BY <1>2, <1>3, <1>4, <1>5 DEF Kernels, Collects

\* Every row that all CTAs have left has the right result, whatever the order
\* in which they overtook each other: the k largest for the kernels that mask
\* and renormalise, k largest for those that list them, the first of equal
\* ones for the deterministic ones.
THEOREM ResultCorrectHolds == CopiedFirst => (Spec => []ResultCorrect)
<1>1. IInv => ResultCorrect
  BY OutputsCorrect DEF IInv, DataRight
<1>2. ASSUME CopiedFirst PROVE Spec => []ResultCorrect
  <2>1. Spec => []IInv
    BY <1>2, InductiveInvariant
  <2> QED BY <1>1, <2>1, PTL
<1> QED BY <1>2
=============================================================================
