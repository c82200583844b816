------------------------- MODULE DecodePlan_proofs -------------------------
(***************************************************************************)
(* Proofs about DecodePlan, for any number and lengths of requests, any    *)
(* grid size and any setups: what the binary search returns and how many   *)
(* rows the schedule has, the inductive invariant of plan(), run(), graphs *)
(* and the stream, and from these that every launch reads every page of    *)
(* every request once.                                                     *)
(*                                                                         *)
(* The search is a recursive function and the numbers of rows are sums     *)
(* over sets.  What they compute is proved by induction, for which the     *)
(* least number of a set of natural numbers (WFMin) is enough.             *)
(***************************************************************************)
EXTENDS DecodePlan, WellFoundedInduction, FiniteSetTheorems, TLAPS

\* A set of natural numbers that is not empty has a least element.
LEMMA LeastNumber == ASSUME NEW T \in SUBSET Nat, T # {}
                     PROVE  \E n \in T : \A m \in T : n <= m
<1>1. PICK n \in T : \A m \in T : ~ (<<m, n>> \in OpToRel(<, Nat))
  BY NatLessThanWellFounded, WFMin
<1>2. \A m \in T : ~ (m < n)
  BY <1>1 DEF OpToRel
<1> QED BY <1>2

\* Induction, for a property given as the set of numbers that have it.
LEMMA NatSetInduction == ASSUME NEW T, 0 \in T, \A n \in Nat : n \in T => n + 1 \in T
                         PROVE  Nat \subseteq T
<1> SUFFICES ASSUME Nat \ T # {} PROVE FALSE
  OBVIOUS
<1>1. PICK n \in Nat \ T : \A m \in Nat \ T : n <= m
  BY LeastNumber
<1>2. n = 0 \/ n - 1 \in T
  BY <1>1
<1> QED BY <1>1, <1>2

-----------------------------------------------------------------------------
\* Sums: SumFunctionOnSet takes the elements of a set one at a time, in an order
\* that CHOOSE fixes.

Pick(s) == CHOOSE x \in s : TRUE
Sums(f, S) ==
  CHOOSE iter : iter = [s \in SUBSET S |-> IF s = {} THEN 0
                                          ELSE f[Pick(s)] + iter[s \ {Pick(s)}]]

LEMMA SumUnfolded == ASSUME NEW f, NEW S PROVE SumFunctionOnSet(f, S) = Sums(f, S)[S]
BY DEF SumFunctionOnSet, FoldFunctionOnSet, MapThenFoldSet, Sums, Pick

\* The subsets with at most n elements, and a function that sums over them.
Small(S, n) == {s \in SUBSET S : Cardinality(s) <= n}
IsSum(g, f, D) == g = [s \in D |-> IF s = {} THEN 0 ELSE f[Pick(s)] + g[s \ {Pick(s)}]]

\* What is left of a finite set when an element has been taken.
LEMMA PickFacts ==
  ASSUME NEW s, IsFiniteSet(s), s # {}
  PROVE  /\ Pick(s) \in s /\ IsFiniteSet(s \ {Pick(s)})
         /\ Cardinality(s) \in Nat /\ Cardinality(s \ {Pick(s)}) = Cardinality(s) - 1
<1>1. Pick(s) \in s
  BY DEF Pick
<1> QED BY <1>1, FS_RemoveElement, FS_CardinalityType

\* By induction on their size: the subsets have a function that sums over them;
LEMMA SumsExist ==
  ASSUME NEW f, NEW S, IsFiniteSet(S), NEW n \in Nat
  PROVE  \E g : IsSum(g, f, Small(S, n))
<1> DEFINE T == {m \in Nat : \E g : IsSum(g, f, Small(S, m))}
<1>0. \A s \in SUBSET S : IsFiniteSet(s) /\ Cardinality(s) \in Nat
  BY FS_Subset, FS_CardinalityType
<1>1. 0 \in T
  <2> DEFINE g == [s \in Small(S, 0) |-> 0]
  <2>1. \A s \in Small(S, 0) : s = {}
    BY <1>0, FS_EmptySet DEF Small
  <2>2. IsSum(g, f, Small(S, 0))
    BY <2>1 DEF IsSum
  <2> QED BY <2>2
<1>2. ASSUME NEW m \in Nat, m \in T PROVE m + 1 \in T
  <2>1. PICK h : IsSum(h, f, Small(S, m))
    BY <1>2
  <2> DEFINE g == [s \in Small(S, m + 1) |->
                     IF s = {} THEN 0 ELSE f[Pick(s)] + h[s \ {Pick(s)}]]
  <2>2. \A s \in Small(S, m) : s \in Small(S, m + 1) /\ h[s] = g[s]
    <3> SUFFICES ASSUME NEW s \in Small(S, m) PROVE s \in Small(S, m + 1) /\ h[s] = g[s]
      OBVIOUS
    <3>1. s \in Small(S, m + 1)
      BY <1>0 DEF Small
    <3> QED BY <2>1, <3>1 DEF IsSum
  <2>3. \A s \in Small(S, m + 1) : s # {} => s \ {Pick(s)} \in Small(S, m)
    <3> SUFFICES ASSUME NEW s \in Small(S, m + 1), s # {} PROVE s \ {Pick(s)} \in Small(S, m)
      OBVIOUS
    <3>1. s \in SUBSET S /\ IsFiniteSet(s) /\ Cardinality(s) <= m + 1
      BY <1>0 DEF Small
    <3>2. Cardinality(s) \in Nat /\ Cardinality(s \ {Pick(s)}) = Cardinality(s) - 1
      BY <3>1, PickFacts
    <3> QED BY <3>1, <3>2 DEF Small
  <2>4. IsSum(g, f, Small(S, m + 1))
    BY <2>2, <2>3 DEF IsSum
  <2> QED BY <2>4
<1>3. Nat \subseteq T
  <2> HIDE DEF T
  <2> QED BY <1>1, <1>2, NatSetInduction
<1> QED BY <1>3

\* so the one that the definition chooses is such a function.
LEMMA SumsDefined ==
  ASSUME NEW f, NEW S, IsFiniteSet(S)
  PROVE  \A s \in SUBSET S :
           Sums(f, S)[s] = IF s = {} THEN 0 ELSE f[Pick(s)] + Sums(f, S)[s \ {Pick(s)}]
<1>1. Cardinality(S) \in Nat /\ SUBSET S = Small(S, Cardinality(S))
  <2>1. \A s \in SUBSET S : Cardinality(s) <= Cardinality(S)
    BY FS_Subset
  <2>2. Cardinality(S) \in Nat
    BY FS_CardinalityType
  <2>3. \A s \in SUBSET S : s \in Small(S, Cardinality(S))
    BY <2>1 DEF Small
  <2>4. \A s \in Small(S, Cardinality(S)) : s \in SUBSET S
    BY DEF Small
  <2> QED BY <2>2, <2>3, <2>4
<1>2. \E g : IsSum(g, f, SUBSET S)
  <2>1. \E g : IsSum(g, f, Small(S, Cardinality(S)))
    BY <1>1, SumsExist
  <2> QED BY <1>1, <2>1
<1>3. IsSum(Sums(f, S), f, SUBSET S)
  BY <1>2 DEF IsSum, Sums
<1> HIDE DEF Sums
<1> QED BY <1>3 DEF IsSum

\* The sums over a set of which only a subset is summed are those over the subset.
LEMMA SumsOfSubset ==
  ASSUME NEW f, NEW S, IsFiniteSet(S), NEW s \in SUBSET S
  PROVE  Sums(f, S)[s] = SumFunctionOnSet(f, s)
<1> DEFINE T == {n \in Nat : \A u \in SUBSET s :
                               Cardinality(u) <= n => Sums(f, S)[u] = Sums(f, s)[u]}
<1>0. \A u \in SUBSET s : IsFiniteSet(u) /\ Cardinality(u) \in Nat /\ u \in SUBSET S
  BY FS_Subset, FS_CardinalityType
<1>1. IsFiniteSet(s) /\ Cardinality(s) \in Nat
  BY <1>0
<1>2. 0 \in T
  <2> SUFFICES ASSUME NEW u \in SUBSET s, Cardinality(u) <= 0 PROVE Sums(f, S)[u] = Sums(f, s)[u]
    OBVIOUS
  <2>1. u = {}
    BY <1>0, FS_EmptySet
  <2> QED BY <1>0, <1>1, <2>1, SumsDefined
<1>3. ASSUME NEW n \in Nat, n \in T PROVE n + 1 \in T
  <2> SUFFICES ASSUME NEW u \in SUBSET s, Cardinality(u) <= n + 1
               PROVE  Sums(f, S)[u] = Sums(f, s)[u]
    OBVIOUS
  <2>1. CASE u = {}
    BY <1>0, <1>1, <2>1, SumsDefined
  <2>2. CASE u # {}
    <3>1. IsFiniteSet(u)
      BY <1>0
    <3>2. /\ Cardinality(u) \in Nat /\ Cardinality(u \ {Pick(u)}) = Cardinality(u) - 1
          /\ u \ {Pick(u)} \in SUBSET s
      BY <2>2, <3>1, PickFacts
    <3>3. Cardinality(u \ {Pick(u)}) <= n
      BY <3>2
    <3>4. Sums(f, S)[u \ {Pick(u)}] = Sums(f, s)[u \ {Pick(u)}]
      BY <1>3, <3>2, <3>3
    <3>5. Sums(f, S)[u] = f[Pick(u)] + Sums(f, S)[u \ {Pick(u)}]
      <4>1. u \in SUBSET S
        OBVIOUS
      <4>2. \A v \in SUBSET S :
              Sums(f, S)[v] = IF v = {} THEN 0 ELSE f[Pick(v)] + Sums(f, S)[v \ {Pick(v)}]
        BY SumsDefined
      <4> QED BY <2>2, <4>1, <4>2
    <3>6. Sums(f, s)[u] = f[Pick(u)] + Sums(f, s)[u \ {Pick(u)}]
      BY <1>1, <2>2, SumsDefined
    <3> QED BY <3>4, <3>5, <3>6
  <2> QED BY <2>1, <2>2
<1>4. Cardinality(s) \in T
  <2> HIDE DEF T
  <2> QED BY <1>1, <1>2, <1>3, NatSetInduction
<1> QED BY <1>1, <1>4, SumUnfolded

\* The sum unfolds by one element.
LEMMA SumPicked ==
  ASSUME NEW f, NEW S, IsFiniteSet(S)
  PROVE  SumFunctionOnSet(f, S) =
           IF S = {} THEN 0 ELSE f[Pick(S)] + SumFunctionOnSet(f, S \ {Pick(S)})
<1>1. S \ {Pick(S)} \in SUBSET S /\ S \in SUBSET S
  OBVIOUS
<1>2. Sums(f, S)[S \ {Pick(S)}] = SumFunctionOnSet(f, S \ {Pick(S)})
  BY <1>1, SumsOfSubset
<1>3. Sums(f, S)[S] = IF S = {} THEN 0 ELSE f[Pick(S)] + Sums(f, S)[S \ {Pick(S)}]
  BY <1>1, SumsDefined
<1> QED BY <1>2, <1>3, SumUnfolded

LEMMA SumEmpty == ASSUME NEW f PROVE SumFunctionOnSet(f, {}) = 0
BY SumPicked, FS_EmptySet

\* A sum of integers is an integer.
LEMMA SumType ==
  ASSUME NEW f, NEW S, IsFiniteSet(S), \A x \in S : f[x] \in Int
  PROVE  SumFunctionOnSet(f, S) \in Int
<1> DEFINE T == {n \in Nat : \A s \in SUBSET S :
                               Cardinality(s) <= n => SumFunctionOnSet(f, s) \in Int}
<1>0. \A s \in SUBSET S : IsFiniteSet(s) /\ Cardinality(s) \in Nat
  BY FS_Subset, FS_CardinalityType
<1>1. 0 \in T
  <2> SUFFICES ASSUME NEW s \in SUBSET S, Cardinality(s) <= 0 PROVE SumFunctionOnSet(f, s) \in Int
    OBVIOUS
  <2>1. s = {}
    BY <1>0, FS_EmptySet
  <2> QED BY <2>1, SumEmpty
<1>2. ASSUME NEW n \in Nat, n \in T PROVE n + 1 \in T
  <2> SUFFICES ASSUME NEW s \in SUBSET S, Cardinality(s) <= n + 1, s # {}
               PROVE  SumFunctionOnSet(f, s) \in Int
    BY SumEmpty
  <2>1. /\ Pick(s) \in S /\ Cardinality(s) \in Nat
        /\ Cardinality(s \ {Pick(s)}) = Cardinality(s) - 1
    BY <1>0, PickFacts
  <2>2. SumFunctionOnSet(f, s \ {Pick(s)}) \in Int
    BY <1>2, <2>1
  <2>3. SumFunctionOnSet(f, s) = f[Pick(s)] + SumFunctionOnSet(f, s \ {Pick(s)})
    BY <1>0, SumPicked
  <2> QED BY <2>1, <2>2, <2>3
<1>3. Cardinality(S) \in T
  <2> HIDE DEF T
  <2> QED BY <1>0, <1>1, <1>2, NatSetInduction
<1> QED BY <1>0, <1>3

\* The order does not matter.
LEMMA SumRemove ==
  ASSUME NEW f, NEW S, IsFiniteSet(S), NEW x \in S, \A y \in S : f[y] \in Int
  PROVE  SumFunctionOnSet(f, S) = f[x] + SumFunctionOnSet(f, S \ {x})
<1> DEFINE T == {n \in Nat : \A s \in SUBSET S : \A a \in s : Cardinality(s) <= n =>
                   SumFunctionOnSet(f, s) = f[a] + SumFunctionOnSet(f, s \ {a})}
<1>0. \A s \in SUBSET S : IsFiniteSet(s) /\ Cardinality(s) \in Nat
  BY FS_Subset, FS_CardinalityType
<1>1. 0 \in T
  <2> SUFFICES ASSUME NEW s \in SUBSET S, NEW a \in s, Cardinality(s) <= 0 PROVE FALSE
    OBVIOUS
  <2>1. s = {}
    BY <1>0, FS_EmptySet
  <2> QED BY <2>1
<1>2. ASSUME NEW n \in Nat, n \in T PROVE n + 1 \in T
  <2> SUFFICES ASSUME NEW s \in SUBSET S, NEW a \in s, Cardinality(s) <= n + 1
               PROVE  SumFunctionOnSet(f, s) = f[a] + SumFunctionOnSet(f, s \ {a})
    OBVIOUS
  <2> DEFINE y == Pick(s)
  <2>1. y \in s
    BY <1>0, PickFacts
  <2>2. SumFunctionOnSet(f, s) = f[y] + SumFunctionOnSet(f, s \ {y})
    BY <1>0, SumPicked
  <2> HIDE DEF y
  <2>3. CASE y = a
    BY <2>2, <2>3
  <2>4. CASE y # a
    <3> DEFINE u == s \ {y}
               v == s \ {a}
               w == s \ {a, y}
    <3>1. /\ a \in u /\ u \in SUBSET S /\ u \ {a} = w
          /\ y \in v /\ v \in SUBSET S /\ v \ {y} = w /\ w \in SUBSET S
      BY <2>1, <2>4
    <3>2. IsFiniteSet(s) /\ Cardinality(s) \in Nat
      BY <1>0
    <3>3. Cardinality(u) = Cardinality(s) - 1 /\ Cardinality(v) = Cardinality(s) - 1
      BY <2>1, <3>2, FS_RemoveElement
    <3>4. Cardinality(u) <= n /\ Cardinality(v) <= n
      BY <3>2, <3>3
    <3> HIDE DEF u, v, w
    <3>5. SumFunctionOnSet(f, u) = f[a] + SumFunctionOnSet(f, w)
      BY <1>2, <3>1, <3>4
    <3>6. SumFunctionOnSet(f, v) = f[y] + SumFunctionOnSet(f, w)
      BY <1>2, <3>1, <3>4
    <3>7. /\ SumFunctionOnSet(f, w) \in Int /\ f[a] \in Int /\ f[y] \in Int
      BY <1>0, <2>1, <3>1, SumType
    <3> QED BY <2>2, <3>5, <3>6, <3>7 DEF u, v
  <2> QED BY <2>3, <2>4
<1>3. Cardinality(S) \in T
  <2> HIDE DEF T
  <2> QED BY <1>0, <1>1, <1>2, NatSetInduction
<1> QED BY <1>0, <1>3

\* Larger terms make a larger sum.
LEMMA SumMonotone ==
  ASSUME NEW f, NEW g, NEW S, IsFiniteSet(S),
         \A x \in S : f[x] \in Int /\ g[x] \in Int /\ f[x] <= g[x]
  PROVE  SumFunctionOnSet(f, S) <= SumFunctionOnSet(g, S)
<1> DEFINE T == {n \in Nat : \A s \in SUBSET S : Cardinality(s) <= n =>
                               SumFunctionOnSet(f, s) <= SumFunctionOnSet(g, s)}
<1>0. \A s \in SUBSET S : IsFiniteSet(s) /\ Cardinality(s) \in Nat
  BY FS_Subset, FS_CardinalityType
<1>1. 0 \in T
  <2> SUFFICES ASSUME NEW s \in SUBSET S, Cardinality(s) <= 0
               PROVE  SumFunctionOnSet(f, s) <= SumFunctionOnSet(g, s)
    OBVIOUS
  <2>1. s = {}
    BY <1>0, FS_EmptySet
  <2> QED BY <2>1, SumEmpty
<1>2. ASSUME NEW n \in Nat, n \in T PROVE n + 1 \in T
  <2> SUFFICES ASSUME NEW s \in SUBSET S, Cardinality(s) <= n + 1, s # {}
               PROVE  SumFunctionOnSet(f, s) <= SumFunctionOnSet(g, s)
    BY SumEmpty
  <2>1. /\ Pick(s) \in S /\ Cardinality(s) \in Nat
        /\ Cardinality(s \ {Pick(s)}) = Cardinality(s) - 1
    BY <1>0, PickFacts
  <2> DEFINE u == s \ {Pick(s)}
  <2>2. SumFunctionOnSet(f, u) <= SumFunctionOnSet(g, u)
    BY <1>2, <2>1
  <2>3. /\ SumFunctionOnSet(f, s) = f[Pick(s)] + SumFunctionOnSet(f, u)
        /\ SumFunctionOnSet(g, s) = g[Pick(s)] + SumFunctionOnSet(g, u)
    BY <1>0, SumPicked
  <2>4. SumFunctionOnSet(f, u) \in Int /\ SumFunctionOnSet(g, u) \in Int
    <3>1. IsFiniteSet(u) /\ \A x \in u : f[x] \in Int /\ g[x] \in Int
      BY <1>0
    <3> HIDE DEF u
    <3> QED BY <3>1, SumType
  <2> HIDE DEF u
  <2> QED BY <2>1, <2>2, <2>3, <2>4
<1>3. Cardinality(S) \in T
  <2> HIDE DEF T
  <2> QED BY <1>0, <1>1, <1>2, NatSetInduction
<1> QED BY <1>0, <1>3

\* Only the values on the set count.
LEMMA SumSame ==
  ASSUME NEW f, NEW g, NEW S, IsFiniteSet(S), \A x \in S : f[x] \in Int /\ f[x] = g[x]
  PROVE  SumFunctionOnSet(f, S) = SumFunctionOnSet(g, S)
<1>1. /\ SumFunctionOnSet(f, S) <= SumFunctionOnSet(g, S)
      /\ SumFunctionOnSet(g, S) <= SumFunctionOnSet(f, S)
  BY SumMonotone
<1>2. SumFunctionOnSet(f, S) \in Int /\ SumFunctionOnSet(g, S) \in Int
  BY SumType
<1> QED BY <1>1, <1>2

\* A sum of ones counts the set.
LEMMA SumOfOnes ==
  ASSUME NEW f, NEW S, IsFiniteSet(S), \A x \in S : f[x] = 1
  PROVE  SumFunctionOnSet(f, S) = Cardinality(S)
<1> DEFINE T == {n \in Nat : \A s \in SUBSET S : Cardinality(s) <= n =>
                               SumFunctionOnSet(f, s) = Cardinality(s)}
<1>0. \A s \in SUBSET S : IsFiniteSet(s) /\ Cardinality(s) \in Nat
  BY FS_Subset, FS_CardinalityType
<1>1. 0 \in T
  <2> SUFFICES ASSUME NEW s \in SUBSET S, Cardinality(s) <= 0
               PROVE  SumFunctionOnSet(f, s) = Cardinality(s)
    OBVIOUS
  <2>1. s = {}
    BY <1>0, FS_EmptySet
  <2> QED BY <2>1, SumEmpty, FS_EmptySet
<1>2. ASSUME NEW n \in Nat, n \in T PROVE n + 1 \in T
  <2> SUFFICES ASSUME NEW s \in SUBSET S, Cardinality(s) <= n + 1, s # {}
               PROVE  SumFunctionOnSet(f, s) = Cardinality(s)
    BY SumEmpty, FS_EmptySet
  <2>1. /\ Pick(s) \in S /\ Cardinality(s) \in Nat
        /\ Cardinality(s \ {Pick(s)}) = Cardinality(s) - 1
    BY <1>0, PickFacts
  <2>2. SumFunctionOnSet(f, s \ {Pick(s)}) = Cardinality(s) - 1
    BY <1>2, <2>1
  <2>3. SumFunctionOnSet(f, s) = f[Pick(s)] + SumFunctionOnSet(f, s \ {Pick(s)})
    BY <1>0, SumPicked
  <2> QED BY <2>1, <2>2, <2>3
<1>3. Cardinality(S) \in T
  <2> HIDE DEF T
  <2> QED BY <1>0, <1>1, <1>2, NatSetInduction
<1> QED BY <1>0, <1>3

\* Summands that are at least one and add up to their number are all one.
LEMMA AllOnes ==
  ASSUME NEW f, NEW S, IsFiniteSet(S), \A x \in S : f[x] \in Int /\ f[x] >= 1,
         SumFunctionOnSet(f, S) <= Cardinality(S), NEW x \in S
  PROVE  f[x] = 1
<1> DEFINE u == S \ {x}
           ones == [y \in S |-> 1]
<1>1. SumFunctionOnSet(f, S) = f[x] + SumFunctionOnSet(f, u)
  BY SumRemove
<1>2. IsFiniteSet(u) /\ Cardinality(u) = Cardinality(S) - 1 /\ Cardinality(S) \in Nat
  BY FS_RemoveElement, FS_CardinalityType
<1>3. /\ \A y \in u : /\ f[y] \in Int /\ ones[y] \in Int /\ ones[y] <= f[y]
                      /\ ones[y] = 1
  OBVIOUS
<1> HIDE DEF u, ones
<1>4. SumFunctionOnSet(ones, u) <= SumFunctionOnSet(f, u) /\ SumFunctionOnSet(f, u) \in Int
  BY <1>2, <1>3, SumMonotone, SumType
<1>5. SumFunctionOnSet(ones, u) = Cardinality(u)
  BY <1>2, <1>3, SumOfOnes
<1> QED BY <1>1, <1>2, <1>4, <1>5

-----------------------------------------------------------------------------
\* The binary search.  What it returns for an interval, and that a function with
\* these values exists and is the one that the recursion defines.
Fits(lens, high, c) == c = high \/ ~Exceeds(SearchRows(lens, c))
IsLeast(lens, low, high, c) ==
  IF low >= high THEN c = low
  ELSE c \in low .. high /\ Fits(lens, high, c) /\ \A b \in low .. c - 1 : ~Fits(lens, high, b)

IsSearch(lens, f) ==
  f = [range \in (Nat \ {0}) \X Nat |->
         LET low == range[1]
             high == range[2]
             mid == (low + high) \div 2
         IN  IF low >= high THEN low
             ELSE IF Exceeds(SearchRows(lens, mid)) THEN f[<<mid + 1, high>>]
                                                    ELSE f[<<low, mid>>]]
Antitone(lens) == \A c \in Nat \ {0} : \A b \in 1 .. c :
                    Exceeds(SearchRows(lens, c)) => Exceeds(SearchRows(lens, b))

LEMMA MidFacts ==
  ASSUME NEW low \in Nat \ {0}, NEW high \in Nat, low < high
  PROVE  (low + high) \div 2 \in low .. high - 1
OBVIOUS

\* There is a least chunk that fits, the end of the range standing for one that does;
LEMMA LeastExists ==
  ASSUME NEW lens, NEW low \in Nat \ {0}, NEW high \in Nat
  PROVE  \E c \in Nat : IsLeast(lens, low, high, c)
<1>1. CASE low >= high
  BY <1>1 DEF IsLeast
<1>2. CASE low < high
  <2> DEFINE T == {c \in low .. high : Fits(lens, high, c)}
  <2>1. high \in T /\ T \in SUBSET Nat
    BY <1>2 DEF Fits
  <2>2. PICK c \in T : \A b \in T : c <= b
    BY <2>1, LeastNumber
  <2>3. \A b \in low .. c - 1 : b \in low .. high /\ ~(c <= b)
    OBVIOUS
  <2> QED BY <1>2, <2>2, <2>3 DEF IsLeast
<1> QED BY <1>1, <1>2

\* and only one.
LEMMA LeastUnique ==
  ASSUME NEW lens, NEW low \in Nat \ {0}, NEW high \in Nat, NEW b, NEW c,
         IsLeast(lens, low, high, b), IsLeast(lens, low, high, c)
  PROVE  b = c
<1>1. CASE low >= high
  BY <1>1 DEF IsLeast
<1>2. CASE low < high
  <2>1. b \in low .. high /\ c \in low .. high
    BY <1>2 DEF IsLeast
  <2> QED BY <1>2, <2>1 DEF IsLeast
<1> QED BY <1>1, <1>2

\* One step of the search.
LEMMA LeastStep ==
  ASSUME NEW lens, Antitone(lens), NEW low \in Nat \ {0}, NEW high \in Nat, low < high,
         NEW mid \in low .. high - 1, NEW c,
         IF Exceeds(SearchRows(lens, mid)) THEN IsLeast(lens, mid + 1, high, c)
                                           ELSE IsLeast(lens, low, mid, c)
  PROVE  IsLeast(lens, low, high, c)
<1>1. CASE Exceeds(SearchRows(lens, mid))
  <2>1. \A b \in low .. mid : ~Fits(lens, high, b)
    BY <1>1 DEF Antitone, Fits
  <2>2. /\ c \in mid + 1 .. high /\ Fits(lens, high, c)
        /\ \A b \in mid + 1 .. c - 1 : ~Fits(lens, high, b)
    BY <1>1 DEF IsLeast, Fits
  <2>3. \A b \in low .. c - 1 : b \in low .. mid \/ b \in mid + 1 .. c - 1
    BY <2>2
  <2>4. c \in low .. high
    BY <2>2
  <2> QED BY <2>1, <2>2, <2>3, <2>4 DEF IsLeast
<1>2. CASE ~Exceeds(SearchRows(lens, mid))
  <2>1. c \in low .. mid /\ ~Exceeds(SearchRows(lens, c))
    BY <1>2 DEF IsLeast, Fits
  <2>2. \A b \in low .. c - 1 : Exceeds(SearchRows(lens, b))
    BY <1>2 DEF IsLeast, Fits
  <2>3. \A b \in low .. c - 1 : b # high
    BY <2>1
  <2> QED BY <2>1, <2>2, <2>3 DEF IsLeast, Fits
<1> QED BY <1>1, <1>2

\* The recursion has a solution: the function that returns the least chunk that fits;
LEMMA SearchExists ==
  ASSUME NEW lens, Antitone(lens)
  PROVE  \E f : IsSearch(lens, f)
<1> DEFINE f == [range \in (Nat \ {0}) \X Nat |->
               CHOOSE c \in Nat : IsLeast(lens, range[1], range[2], c)]
<1>1. \A low \in Nat \ {0}, high \in Nat : IsLeast(lens, low, high, f[<<low, high>>])
  BY LeastExists
<1>2. ASSUME NEW low \in Nat \ {0}, NEW high \in Nat
      PROVE  f[<<low, high>>] = LET mid == (low + high) \div 2
                            IN  IF low >= high THEN low
                                ELSE IF Exceeds(SearchRows(lens, mid)) THEN f[<<mid + 1, high>>]
                                                                       ELSE f[<<low, mid>>]
  <2> DEFINE mid == (low + high) \div 2
             next == IF Exceeds(SearchRows(lens, mid)) THEN f[<<mid + 1, high>>] ELSE f[<<low, mid>>]
  <2>1. CASE low >= high
    BY <1>1, <2>1 DEF IsLeast
  <2>2. CASE low < high
    <3>1. mid \in low .. high - 1
      BY <2>2, MidFacts
    <3>2. mid \in Nat /\ mid + 1 \in Nat \ {0}
      BY <3>1
    <3>3. IF Exceeds(SearchRows(lens, mid)) THEN IsLeast(lens, mid + 1, high, next)
                                            ELSE IsLeast(lens, low, mid, next)
      BY <1>1, <3>2
    <3> HIDE DEF mid, next, f
    <3>4. IsLeast(lens, low, high, next)
      BY <2>2, <3>1, <3>3, LeastStep
    <3>5. f[<<low, high>>] = next
      BY <1>1, <3>4, LeastUnique
    <3> QED BY <2>2, <3>5 DEF next, mid
  <2> QED BY <2>1, <2>2
<1>3. ASSUME NEW range \in (Nat \ {0}) \X Nat
      PROVE  f[range] = LET low == range[1]
                            high == range[2]
                            mid == (low + high) \div 2
                        IN  IF low >= high THEN low
                            ELSE IF Exceeds(SearchRows(lens, mid)) THEN f[<<mid + 1, high>>]
                                                                   ELSE f[<<low, mid>>]
  <2>1. range = <<range[1], range[2]>> /\ range[1] \in Nat \ {0} /\ range[2] \in Nat
    OBVIOUS
  <2> HIDE DEF f
  <2> QED BY <1>2, <2>1
<1>4. f = [range \in (Nat \ {0}) \X Nat |-> f[range]]
  OBVIOUS
<1>5. IsSearch(lens, f)
  <2> HIDE DEF f
  <2> QED BY <1>3, <1>4 DEF IsSearch
<1> QED BY <1>5

\* and whatever solves it returns that chunk.
LEMMA SearchValues ==
  ASSUME NEW lens, Antitone(lens), NEW f, IsSearch(lens, f)
  PROVE  \A low \in Nat \ {0}, high \in Nat : IsLeast(lens, low, high, f[<<low, high>>])
<1> DEFINE T == {n \in Nat : \A low \in Nat \ {0}, high \in Nat :
                   high - low <= n => IsLeast(lens, low, high, f[<<low, high>>])}
<1>1. 0 \in T
  BY DEF IsSearch, IsLeast
<1>2. ASSUME NEW n \in Nat, n \in T PROVE n + 1 \in T
  <2> SUFFICES ASSUME NEW low \in Nat \ {0}, NEW high \in Nat, high - low <= n + 1
               PROVE  IsLeast(lens, low, high, f[<<low, high>>])
    OBVIOUS
  <2>1. CASE low >= high
    BY <2>1 DEF IsSearch, IsLeast
  <2>2. CASE low < high
    <3> DEFINE mid == (low + high) \div 2
    <3>1. mid \in low .. high - 1
      BY <2>2, MidFacts
    <3>2. f[<<low, high>>] = IF Exceeds(SearchRows(lens, mid)) THEN f[<<mid + 1, high>>]
                                                               ELSE f[<<low, mid>>]
      BY <2>2 DEF IsSearch
    <3> HIDE DEF mid
    <3>3. /\ IsLeast(lens, mid + 1, high, f[<<mid + 1, high>>])
          /\ IsLeast(lens, low, mid, f[<<low, mid>>])
      BY <1>2, <3>1
    <3> QED BY <2>2, <3>1, <3>2, <3>3, LeastStep
  <2> QED BY <2>1, <2>2
<1>3. Nat \subseteq T
  <2> HIDE DEF T
  <2> QED BY <1>1, <1>2, NatSetInduction
<1> SUFFICES ASSUME NEW low \in Nat \ {0}, NEW high \in Nat
             PROVE  IsLeast(lens, low, high, f[<<low, high>>])
  OBVIOUS
<1>4. \E n \in Nat : high - low <= n
  <2>1. CASE high >= low
    BY <2>1
  <2>2. CASE high < low
    BY <2>2
  <2> QED BY <2>1, <2>2
<1> QED BY <1>3, <1>4

LEMMA BinarySearchIsLeast ==
  ASSUME NEW lens, Antitone(lens), setup.min_pages \in Nat \ {0}, Longest(lens) \in Nat
  PROVE  IsLeast(lens, setup.min_pages, Longest(lens), BinarySearch(lens))
<1> DEFINE search == CHOOSE f : IsSearch(lens, f)
<1>1. IsSearch(lens, search)
  BY SearchExists
<1>2. BinarySearch(lens) = search[<<setup.min_pages, Longest(lens)>>]
  BY DEF BinarySearch, IsSearch
<1> HIDE DEF search
<1> QED BY <1>1, <1>2, SearchValues

-----------------------------------------------------------------------------
\* Rows.

LEMMA RequestsFacts == /\ BatchSize \in Nat \ {0} /\ IsFiniteSet(Requests)
                       /\ Cardinality(Requests) = BatchSize /\ 0 \in Requests
<1>1. BatchSize \in Nat \ {0} /\ 0 \in Int /\ BatchSize - 1 \in Int
  BY SizesAssumption
<1> QED BY <1>1, FS_Interval DEF Requests

\* As many chunks as reach the length, and no more.
LEMMA CeilDivFacts ==
  ASSUME NEW a \in Nat, NEW b \in Nat \ {0}
  PROVE  /\ CeilDiv(a, b) \in Nat /\ a <= CeilDiv(a, b) * b /\ CeilDiv(a, b) * b < a + b
         /\ a > 0 => CeilDiv(a, b) >= 1
         /\ a <= b => CeilDiv(a, b) <= 1
<1>1. /\ CeilDiv(a, b) \in Nat /\ a <= CeilDiv(a, b) * b /\ CeilDiv(a, b) * b < a + b
  BY SMT DEF CeilDiv
<1>2. a > 0 => CeilDiv(a, b) >= 1
  BY <1>1
<1>3. a <= b => CeilDiv(a, b) <= 1
  BY <1>1
<1> QED BY <1>1, <1>2, <1>3

\* Larger chunks are fewer, in a request and in a batch.
LEMMA CeilDivAntitone ==
  ASSUME NEW a \in Nat, NEW b \in Nat \ {0}, NEW c \in Nat \ {0}, b <= c
  PROVE  CeilDiv(a, c) <= CeilDiv(a, b)
<1> DEFINE x == CeilDiv(a, c)
           y == CeilDiv(a, b)
<1>1. x \in Nat /\ y \in Nat /\ a <= y * b /\ x * c < a + c
  BY CeilDivFacts
<1> HIDE DEF x, y
<1>2. y * b <= y * c
  BY <1>1
<1>3. x * c < y * c + c
  BY <1>1, <1>2
<1>4. (y + 1) * c = y * c + c
  BY <1>1
<1>5. ~(y + 1 <= x)
  <2> SUFFICES ASSUME y + 1 <= x PROVE FALSE
    OBVIOUS
  <2>1. (y + 1) * c <= x * c
    BY <1>1
  <2> QED BY <1>1, <1>3, <1>4, <2>1
<1> QED BY <1>1, <1>5 DEF x, y

LEMMA SearchRowsFacts ==
  ASSUME NEW lens \in [Requests -> Nat], NEW b \in Nat \ {0}
  PROVE  /\ SearchRows(lens, b) \in Int
         /\ \A c \in Nat \ {0} : b <= c => SearchRows(lens, c) <= SearchRows(lens, b)
         /\ (\A r \in Requests : lens[r] <= b) => SearchRows(lens, b) <= BatchSize
<1> DEFINE f(c) == [r \in Requests |-> CeilDiv(lens[r], c)]
           ones == [r \in Requests |-> 1]
<1>1. \A c \in Nat \ {0} : \A r \in Requests : f(c)[r] \in Int /\ f(c)[r] = CeilDiv(lens[r], c)
  BY CeilDivFacts
<1>2. \A c \in Nat \ {0} : SearchRows(lens, c) = SumFunctionOnSet(f(c), Requests)
  BY DEF SearchRows
<1>3. \A r \in Requests : ones[r] = 1
  OBVIOUS
<1>4. \A c \in Nat \ {0} : b <= c => \A r \in Requests : f(c)[r] <= f(b)[r]
  BY CeilDivAntitone
<1>5. (\A r \in Requests : lens[r] <= b) => \A r \in Requests : f(b)[r] <= ones[r]
  BY CeilDivFacts
<1> HIDE DEF f, ones
<1>6. SearchRows(lens, b) \in Int
  BY <1>1, <1>2, RequestsFacts, SumType
<1>7. \A c \in Nat \ {0} : b <= c => SearchRows(lens, c) <= SearchRows(lens, b)
  BY <1>1, <1>2, <1>4, RequestsFacts, SumMonotone
<1>8. (\A r \in Requests : lens[r] <= b) => SearchRows(lens, b) <= BatchSize
  <2>1. SumFunctionOnSet(ones, Requests) = BatchSize
    BY <1>3, RequestsFacts, SumOfOnes
  <2> QED BY <1>1, <1>2, <1>3, <1>5, <2>1, RequestsFacts, SumMonotone
<1> QED BY <1>6, <1>7, <1>8

SetupRight == heads \in Nat \ {0} /\ setup.min_pages \in Nat \ {0} /\ MaxGridSize \in Nat \ {0}

LEMMA SearchRowsAntitone ==
  ASSUME NEW lens \in [Requests -> Nat], SetupRight
  PROVE  Antitone(lens)
<1> SUFFICES ASSUME NEW c \in Nat \ {0}, NEW b \in 1 .. c, Exceeds(SearchRows(lens, c))
             PROVE  Exceeds(SearchRows(lens, b))
  BY DEF Antitone
<1>1. /\ SearchRows(lens, b) \in Int /\ SearchRows(lens, c) \in Int
      /\ SearchRows(lens, c) <= SearchRows(lens, b)
  BY SearchRowsFacts
<1>2. SearchRows(lens, c) * heads <= SearchRows(lens, b) * heads
  BY <1>1 DEF SetupRight
<1> QED BY <1>1, <1>2 DEF SetupRight, Exceeds

LEMMA LongestFacts ==
  ASSUME NEW lens \in [Requests -> 0 .. MaxLength]
  PROVE  /\ Longest(lens) \in 0 .. MaxLength
         /\ \A r \in Requests : lens[r] <= Longest(lens)
<1> DEFINE U == {m \in 0 .. MaxLength : \A r \in Requests : lens[r] <= m}
           V == {lens[r] : r \in Requests}
<1>0. MaxLength \in Nat
  BY SizesAssumption
<1>1. MaxLength \in U /\ U \in SUBSET Nat
  BY <1>0
<1>2. PICK m \in U : \A n \in U : m <= n
  BY <1>1, LeastNumber
<1>3. \E r \in Requests : lens[r] = m
  <2> SUFFICES ASSUME \A r \in Requests : lens[r] # m PROVE FALSE
    OBVIOUS
  <2>1. \A r \in Requests : lens[r] <= m - 1
    BY <1>0
  <2>2. m - 1 \in U
    BY <1>0, <2>1, RequestsFacts
  <2> QED BY <1>0, <1>2, <2>2
<1>4. m \in V /\ \A n \in V : m >= n
  BY <1>0, <1>3
<1>5. Longest(lens) \in V /\ \A n \in V : Longest(lens) >= n
  BY <1>4 DEF Longest, Max
<1> QED BY <1>0, <1>5

-----------------------------------------------------------------------------
\* The schedule.

LEMMA NumChunksFacts ==
  ASSUME NEW len \in Nat, NEW chunk \in Nat \ {0}
  PROVE  /\ NumChunks(len, chunk) \in Nat /\ NumChunks(len, chunk) >= 1
         /\ len <= NumChunks(len, chunk) * chunk
         /\ NumChunks(len, chunk) * chunk < AtLeastOne(len) + chunk
         /\ AtLeastOne(len) <= chunk => NumChunks(len, chunk) = 1
<1>1. AtLeastOne(len) \in Nat /\ AtLeastOne(len) >= 1 /\ len <= AtLeastOne(len)
  BY DEF AtLeastOne
<1> DEFINE a == AtLeastOne(len)
<1>2. /\ CeilDiv(a, chunk) \in Nat /\ a <= CeilDiv(a, chunk) * chunk
      /\ CeilDiv(a, chunk) * chunk < a + chunk
      /\ CeilDiv(a, chunk) >= 1
      /\ a <= chunk => CeilDiv(a, chunk) <= 1
  <2>1. a \in Nat /\ a > 0
    BY <1>1
  <2> HIDE DEF a
  <2> QED BY <2>1, CeilDivFacts
<1>3. NumChunks(len, chunk) = CeilDiv(a, chunk)
  BY DEF NumChunks
<1> HIDE DEF a
<1>4. CeilDiv(a, chunk) * chunk \in Nat
  BY <1>2
<1> QED BY <1>1, <1>2, <1>3, <1>4 DEF a

LEMMA TilesFacts ==
  ASSUME NEW lens \in [Requests -> Nat], NEW chunk \in Nat \ {0}
  PROVE  \A r \in Requests : /\ Tiles(lens, chunk)[r] = NumChunks(lens[r], chunk)
                             /\ Tiles(lens, chunk)[r] \in Nat /\ Tiles(lens, chunk)[r] >= 1
BY NumChunksFacts DEF Tiles

\* The rows of the requests follow one another, with none between them.
LEMMA FirstFacts ==
  ASSUME NEW lens \in [Requests -> Nat], NEW chunk \in Nat \ {0}
  PROVE  /\ OIndptr(lens, chunk) \in [0 .. BatchSize -> Int]
         /\ OIndptr(lens, chunk)[0] = 0
         /\ \A r \in Requests :
              OIndptr(lens, chunk)[r + 1] = OIndptr(lens, chunk)[r] + Tiles(lens, chunk)[r]
         /\ OIndptr(lens, chunk)[BatchSize] = NumRows(lens, chunk)
<1> DEFINE f == Tiles(lens, chunk)
           first == OIndptr(lens, chunk)
           B(r) == {q \in Requests : q < r}
<1>1. \A r \in 0 .. BatchSize : first[r] = SumFunctionOnSet(f, B(r))
  BY DEF OIndptr
<1>2. \A r : B(r) \in SUBSET Requests /\ IsFiniteSet(B(r))
  BY RequestsFacts, FS_Subset
<1>3. \A q \in Requests : f[q] \in Int
  BY TilesFacts
<1>4. \A r \in 0 .. BatchSize : first[r] \in Int
  <2> SUFFICES ASSUME NEW r \in 0 .. BatchSize PROVE SumFunctionOnSet(f, B(r)) \in Int
    BY <1>1
  <2> HIDE DEF f
  <2>1. \A q \in B(r) : f[q] \in Int
    BY <1>3
  <2> HIDE DEF B
  <2> QED BY <1>2, <2>1, SumType
<1>5. first \in [0 .. BatchSize -> Int]
  BY <1>4 DEF OIndptr
<1>6. first[0] = 0
  <2>1. B(0) = {} /\ 0 \in 0 .. BatchSize
    BY RequestsFacts DEF Requests
  <2> QED BY <1>1, <2>1, SumEmpty
<1>7. ASSUME NEW r \in Requests PROVE first[r + 1] = first[r] + f[r]
  <2>1. r \in 0 .. BatchSize /\ r + 1 \in 0 .. BatchSize
    BY RequestsFacts DEF Requests
  <2>2. r \in B(r + 1) /\ B(r + 1) \ {r} = B(r)
    BY RequestsFacts DEF Requests
  <2>3. \A q \in B(r + 1) : f[q] \in Int
    BY <1>3
  <2> HIDE DEF B, f
  <2>4. SumFunctionOnSet(f, B(r + 1)) = f[r] + SumFunctionOnSet(f, B(r))
    BY <1>2, <2>2, <2>3, SumRemove
  <2>5. SumFunctionOnSet(f, B(r)) \in Int /\ f[r] \in Int
    BY <1>1, <1>3, <1>4, <2>1
  <2> HIDE DEF first
  <2> QED BY <1>1, <2>1, <2>4, <2>5
<1>8. first[BatchSize] = NumRows(lens, chunk)
  <2>1. B(BatchSize) = Requests /\ BatchSize \in 0 .. BatchSize
    BY RequestsFacts DEF Requests
  <2> QED BY <1>1, <2>1 DEF NumRows
<1> QED BY <1>5, <1>6, <1>7, <1>8

LEMMA FirstMonotone ==
  ASSUME NEW lens \in [Requests -> Nat], NEW chunk \in Nat \ {0},
         NEW r \in 0 .. BatchSize, NEW q \in 0 .. r
  PROVE  OIndptr(lens, chunk)[q] <= OIndptr(lens, chunk)[r]
<1> DEFINE first == OIndptr(lens, chunk)
           T == {n \in Nat : n <= BatchSize => \A p \in 0 .. n : first[p] <= first[n]}
<1>1. /\ first \in [0 .. BatchSize -> Int] /\ BatchSize \in Nat
      /\ \A p \in Requests : first[p + 1] >= first[p]
  <2>1. first \in [0 .. BatchSize -> Int] /\ BatchSize \in Nat
    BY FirstFacts, RequestsFacts
  <2>2. ASSUME NEW p \in Requests PROVE first[p + 1] >= first[p]
    <3>1. first[p] \in Int
      BY <2>1 DEF Requests
    <3>2. first[p + 1] = first[p] + Tiles(lens, chunk)[p]
      BY FirstFacts
    <3>3. Tiles(lens, chunk)[p] \in Nat
      BY TilesFacts
    <3> HIDE DEF first
    <3> QED BY <3>1, <3>2, <3>3
  <2> QED BY <2>1, <2>2
<1> HIDE DEF first
<1>2. 0 \in T
  BY <1>1
<1>3. ASSUME NEW n \in Nat, n \in T PROVE n + 1 \in T
  <2> SUFFICES ASSUME n + 1 <= BatchSize, NEW p \in 0 .. n + 1 PROVE first[p] <= first[n + 1]
    OBVIOUS
  <2>1. n \in Requests /\ n <= BatchSize
    BY <1>1 DEF Requests
  <2>2. first[n] <= first[n + 1] /\ first[n] \in Int /\ first[n + 1] \in Int
    BY <1>1, <2>1
  <2>3. CASE p = n + 1
    BY <2>2, <2>3
  <2>4. CASE p # n + 1
    <3>1. p \in 0 .. n /\ p \in 0 .. BatchSize
      BY <1>1, <2>1, <2>4
    <3>2. first[p] <= first[n] /\ first[p] \in Int
      BY <1>1, <1>3, <2>1, <3>1
    <3> QED BY <2>2, <3>2
  <2> QED BY <2>3, <2>4
<1>4. Nat \subseteq T
  <2> HIDE DEF T
  <2> QED BY <1>2, <1>3, NatSetInduction
<1> QED BY <1>1, <1>4 DEF first

\* Row i is one of request r's.
RowOf(lens, chunk, r, i) == i \in OIndptr(lens, chunk)[r] .. OIndptr(lens, chunk)[r + 1] - 1

\* Every row is some request's, and of one request only.
LEMMA RowOfSome ==
  ASSUME NEW lens \in [Requests -> Nat], NEW chunk \in Nat \ {0},
         NEW i \in 0 .. NumRows(lens, chunk) - 1
  PROVE  \E r \in Requests : RowOf(lens, chunk, r, i)
<1> DEFINE first == OIndptr(lens, chunk)
           T == {r \in 0 .. BatchSize : i < first[r]}
<1>1. /\ first \in [0 .. BatchSize -> Int] /\ BatchSize \in Nat
      /\ first[0] = 0 /\ first[BatchSize] = NumRows(lens, chunk)
  BY FirstFacts, RequestsFacts
<1>2. \A r \in Requests : RowOf(lens, chunk, r, i) <=> (first[r] <= i /\ i < first[r + 1])
  <2> SUFFICES ASSUME NEW r \in Requests
               PROVE  RowOf(lens, chunk, r, i) <=> (first[r] <= i /\ i < first[r + 1])
    OBVIOUS
  <2>1. first[r] \in Int /\ first[r + 1] \in Int
    BY <1>1 DEF Requests
  <2>2. i \in Int
    BY <1>1
  <2> QED BY <2>1, <2>2 DEF RowOf
<1> HIDE DEF first
<1>3. BatchSize \in T /\ T \in SUBSET Nat
  BY <1>1
<1>4. PICK r \in T : \A q \in T : r <= q
  BY <1>3, LeastNumber
<1>5. r # 0
  BY <1>1, <1>4
<1>6. r - 1 \in Requests /\ r - 1 \in 0 .. BatchSize /\ r - 1 \notin T
  BY <1>1, <1>4, <1>5 DEF Requests
<1>7. ~(i < first[r - 1]) /\ first[r - 1] \in Int
  BY <1>1, <1>6
<1>8. first[r - 1] <= i /\ i < first[(r - 1) + 1]
  BY <1>1, <1>4, <1>7
<1> QED BY <1>2, <1>6, <1>8

LEMMA RowOfOne ==
  ASSUME NEW lens \in [Requests -> Nat], NEW chunk \in Nat \ {0}, NEW i,
         NEW q \in Requests, NEW r \in Requests,
         RowOf(lens, chunk, q, i), RowOf(lens, chunk, r, i)
  PROVE  q = r /\ i \in 0 .. NumRows(lens, chunk) - 1
<1> DEFINE first == OIndptr(lens, chunk)
<1>1. /\ first \in [0 .. BatchSize -> Int] /\ BatchSize \in Nat
      /\ first[0] = 0 /\ first[BatchSize] = NumRows(lens, chunk)
  BY FirstFacts, RequestsFacts
<1>2. \A m, n \in 0 .. BatchSize : m <= n => first[m] <= first[n]
  <2> HIDE DEF first
  <2> SUFFICES ASSUME NEW m \in 0 .. BatchSize, NEW n \in 0 .. BatchSize, m <= n
               PROVE  first[m] <= first[n]
    OBVIOUS
  <2>1. m \in 0 .. n
    OBVIOUS
  <2> QED BY <2>1, FirstMonotone DEF first
<1>3. i \in Int /\ first[q] <= i /\ i < first[q + 1] /\ first[r] <= i /\ i < first[r + 1]
  <2>1. \A p \in Requests : first[p] \in Int /\ first[p + 1] \in Int
    BY <1>1 DEF Requests
  <2> QED BY <2>1 DEF RowOf
<1> HIDE DEF first
<1>4. /\ q \in 0 .. BatchSize /\ q + 1 \in 0 .. BatchSize /\ r \in 0 .. BatchSize
      /\ r + 1 \in 0 .. BatchSize /\ 0 \in 0 .. BatchSize /\ BatchSize \in 0 .. BatchSize
  BY <1>1 DEF Requests
<1>5. ~(q + 1 <= r)
  <2>1. q + 1 <= r => first[q + 1] <= first[r]
    BY <1>2, <1>4
  <2> QED BY <1>1, <1>3, <1>4, <2>1
<1>6. ~(r + 1 <= q)
  <2>1. r + 1 <= q => first[r + 1] <= first[q]
    BY <1>2, <1>4
  <2> QED BY <1>1, <1>3, <1>4, <2>1
<1>7. first[0] <= first[q] /\ first[q + 1] <= first[BatchSize]
  BY <1>1, <1>2, <1>4
<1>8. first[q] \in Int /\ first[q + 1] \in Int /\ NumRows(lens, chunk) \in Int
  BY <1>1, <1>4
<1> QED BY <1>1, <1>3, <1>4, <1>5, <1>6, <1>7, <1>8

\* The rows of the schedule.
LEMMA ScheduleRows ==
  ASSUME NEW lens \in [Requests -> Nat], NEW work, work.chunk \in Nat \ {0}
  PROVE  LET schedule == Schedule(lens, work)
         IN  /\ DOMAIN schedule.rows = 0 .. NumRows(lens, work.chunk) - 1
             /\ \A r \in Requests : \A i \in DOMAIN schedule.rows :
                  RowOf(lens, work.chunk, r, i) =>
                    schedule.rows[i] = [request |-> r, tile |-> i - OIndptr(lens, work.chunk)[r]]
<1> DEFINE chunk == work.chunk
           first == OIndptr(lens, chunk)
           D == 0 .. NumRows(lens, chunk) - 1
           RequestOf(i) == CHOOSE r \in Requests : first[r] <= i /\ i < first[r + 1]
           rows == [i \in D |-> [request |-> RequestOf(i), tile |-> i - first[RequestOf(i)]]]
<1>1. /\ first \in [0 .. BatchSize -> Int] /\ BatchSize \in Nat
      /\ first[BatchSize] = NumRows(lens, chunk)
  BY FirstFacts, RequestsFacts
<1>2. Schedule(lens, work).rows = rows
  BY <1>1 DEF Schedule
<1>3. ASSUME NEW r \in Requests, NEW i \in D, RowOf(lens, chunk, r, i)
      PROVE  RequestOf(i) = r
  <2>1. \A q \in Requests : RowOf(lens, chunk, q, i) <=> (first[q] <= i /\ i < first[q + 1])
    <3> SUFFICES ASSUME NEW q \in Requests
                 PROVE  RowOf(lens, chunk, q, i) <=> (first[q] <= i /\ i < first[q + 1])
      OBVIOUS
    <3>1. first[q] \in Int /\ first[q + 1] \in Int
      BY <1>1 DEF Requests
    <3>2. i \in Int
      BY <1>1
    <3> QED BY <3>1, <3>2 DEF RowOf
  <2>2. \A q \in Requests : first[q] <= i /\ i < first[q + 1] => q = r
    <3> HIDE DEF first
    <3> QED BY <1>3, <2>1, RowOfOne
  <2>3. first[r] <= i /\ i < first[r + 1]
    BY <1>3, <2>1
  <2> HIDE DEF first
  <2> QED BY <2>2, <2>3
<1> HIDE DEF first, RequestOf
<1>4. DOMAIN rows = D
  OBVIOUS
<1>5. \A r \in Requests : \A i \in D : RowOf(lens, chunk, r, i) =>
        rows[i] = [request |-> r, tile |-> i - first[r]]
  BY <1>3
<1> QED BY <1>2, <1>4, <1>5 DEF first

-----------------------------------------------------------------------------
NoEmpty(lens) == EnableCudaGraph => \A r \in Requests : lens[r] >= 1

LEMMA MaxOfTwo == ASSUME NEW a \in Nat, NEW b \in Nat
                  PROVE  /\ Max({a, b}) \in Nat /\ Max({a, b}) \in {a, b}
                         /\ Max({a, b}) >= a /\ Max({a, b}) >= b
<1>1. \E x \in {a, b} : \A y \in {a, b} : x >= y
  <2>1. CASE a >= b
    BY <2>1
  <2>2. CASE b >= a
    BY <2>2
  <2> QED BY <2>1, <2>2
<1>2. Max({a, b}) \in {a, b} /\ \A y \in {a, b} : Max({a, b}) >= y
  BY <1>1 DEF Max
<1> QED BY <1>2

\* The chunk that the host finds fits the GPU, and no smaller one does.
LEMMA SearchFacts ==
  ASSUME SetupRight, NEW lens \in [Requests -> 0 .. MaxLength], BatchSize * heads < MaxGridSize
  PROVE  LET chunk == BinarySearch(lens)
         IN  /\ chunk \in setup.min_pages .. Max({setup.min_pages, MaxLength})
             /\ ~Exceeds(SearchRows(lens, chunk))
             /\ \A c \in setup.min_pages .. chunk - 1 : Exceeds(SearchRows(lens, c))
<1> DEFINE chunk == BinarySearch(lens)
           low == setup.min_pages
           high == Longest(lens)
<1>0. lens \in [Requests -> Nat] /\ MaxLength \in Nat
  BY SizesAssumption
<1>1. high \in 0 .. MaxLength /\ \A r \in Requests : lens[r] <= high
  BY LongestFacts
<1>2. low \in Nat \ {0}
  BY DEF SetupRight
<1>3. IsLeast(lens, low, high, chunk)
  BY <1>0, <1>1, <1>2, SearchRowsAntitone, BinarySearchIsLeast
<1>4. /\ low <= Max({low, MaxLength}) /\ MaxLength <= Max({low, MaxLength})
      /\ Max({low, MaxLength}) \in Nat
  BY <1>0, <1>2, MaxOfTwo
<1> HIDE DEF chunk, low, high
<1>5. ASSUME NEW c \in Nat \ {0}, \A r \in Requests : lens[r] <= c
      PROVE  ~Exceeds(SearchRows(lens, c))
  <2>1. SearchRows(lens, c) \in Int /\ SearchRows(lens, c) <= BatchSize
    BY <1>0, <1>5, SearchRowsFacts
  <2>2. SearchRows(lens, c) * heads <= BatchSize * heads
    BY <2>1, RequestsFacts DEF SetupRight
  <2>3. SearchRows(lens, c) * heads \in Int /\ BatchSize * heads \in Int
    BY <2>1, RequestsFacts DEF SetupRight
  <2> QED BY <2>2, <2>3 DEF Exceeds, SetupRight
<1>6. CASE low >= high
  <2>1. chunk = low
    BY <1>3, <1>6 DEF IsLeast
  <2>2. \A r \in Requests : lens[r] <= low
    BY <1>0, <1>1, <1>2, <1>6
  <2> QED BY <1>2, <1>4, <1>5, <2>1, <2>2 DEF chunk, low
<1>7. CASE low < high
  <2>1. /\ chunk \in low .. high /\ Fits(lens, high, chunk)
        /\ \A c \in low .. chunk - 1 : ~Fits(lens, high, c)
    BY <1>1, <1>2, <1>3, <1>7 DEF IsLeast
  <2>2. ~Exceeds(SearchRows(lens, high))
    BY <1>1, <1>2, <1>5, <1>7
  <2>3. ~Exceeds(SearchRows(lens, chunk))
    BY <2>1, <2>2 DEF Fits
  <2>4. \A c \in low .. chunk - 1 : Exceeds(SearchRows(lens, c))
    BY <2>1 DEF Fits
  <2>5. chunk \in low .. Max({low, MaxLength})
    <3>1. chunk \in Int /\ low <= chunk /\ chunk <= high /\ high <= MaxLength /\ high \in Int
      BY <1>0, <1>1, <1>2, <2>1
    <3> DEFINE top == Max({low, MaxLength})
    <3>2. MaxLength <= top /\ top \in Nat
      BY <1>4
    <3> HIDE DEF top
    <3>3. chunk \in low .. top
      BY <1>0, <1>2, <3>1, <3>2
    <3> QED BY <3>3 DEF top
  <2> QED BY <2>3, <2>4, <2>5 DEF chunk, low
<1> QED BY <1>1, <1>2, <1>6, <1>7

\* What the partition decides, for lengths of at most MaxLength pages.
LEMMA WorkFacts ==
  ASSUME SetupRight, NEW lens \in [Requests -> 0 .. MaxLength]
  PROVE  LET work == WorkEstimation(lens)
         IN  /\ work.split \in BOOLEAN
             /\ work.chunk \in 1 .. Max({MaxLength, setup.min_pages})
             /\ work.rows = NumRows(lens, work.chunk)
             /\ BatchSize * heads >= MaxGridSize => ~work.split /\ work.rows = BatchSize
             /\ BatchSize * heads < MaxGridSize =>
                  /\ work.split <=> (work.rows # BatchSize \/ EnableCudaGraph)
                  /\ work.chunk = BinarySearch(lens)
<1> DEFINE work == WorkEstimation(lens)
           top == Max({MaxLength, setup.min_pages})
<1>0. lens \in [Requests -> Nat] /\ MaxLength \in Nat \ {0}
  BY SizesAssumption
<1>1. top \in Nat /\ MaxLength <= top
  BY <1>0, MaxOfTwo DEF SetupRight
<1>2. CASE BatchSize * heads >= MaxGridSize
  <2> DEFINE chunk == AtLeastOne(Longest(lens))
  <2>1. work = [split |-> FALSE, chunk |-> chunk, rows |-> BatchSize]
    BY <1>2 DEF WorkEstimation
  <2>2. Longest(lens) \in 0 .. MaxLength /\ \A r \in Requests : lens[r] <= Longest(lens)
    BY LongestFacts
  <2>3. chunk \in 1 .. MaxLength
    BY <1>0, <2>2 DEF AtLeastOne
  <2>4. \A r \in Requests : Tiles(lens, chunk)[r] = 1
    <3> SUFFICES ASSUME NEW r \in Requests PROVE NumChunks(lens[r], chunk) = 1
      BY DEF Tiles
    <3>1. lens[r] \in Nat /\ lens[r] <= Longest(lens) /\ Longest(lens) \in Nat
      BY <1>0, <2>2
    <3>2. AtLeastOne(lens[r]) <= chunk
      BY <3>1 DEF AtLeastOne
    <3> HIDE DEF chunk
    <3>3. chunk \in Nat \ {0}
      BY <1>0, <2>3
    <3> QED BY <3>1, <3>2, <3>3, NumChunksFacts
  <2> HIDE DEF chunk
  <2>5. NumRows(lens, chunk) = BatchSize
    BY <2>4, RequestsFacts, SumOfOnes DEF NumRows
  <2> HIDE DEF work, top
  <2>6. chunk \in 1 .. top
    BY <1>0, <1>1, <2>3
  <2>7. ~(BatchSize * heads < MaxGridSize)
    BY <1>2, RequestsFacts DEF SetupRight
  <2>8. work.split = FALSE /\ work.chunk = chunk /\ work.rows = BatchSize
    BY <2>1
  <2> QED BY <2>5, <2>6, <2>7, <2>8 DEF work, top
<1>3. CASE ~(BatchSize * heads >= MaxGridSize)
  <2> DEFINE chunk == BinarySearch(lens)
             rows == NumRows(lens, chunk)
  <2>0. BatchSize * heads < MaxGridSize
    BY <1>3, RequestsFacts DEF SetupRight
  <2>1. work = [split |-> rows # BatchSize \/ EnableCudaGraph, chunk |-> chunk, rows |-> rows]
    BY <1>3 DEF WorkEstimation
  <2>2. chunk \in setup.min_pages .. Max({setup.min_pages, MaxLength})
    BY <2>0, SearchFacts
  <2>3. {setup.min_pages, MaxLength} = {MaxLength, setup.min_pages}
    OBVIOUS
  <2>4. Max({setup.min_pages, MaxLength}) = top
    BY <2>3
  <2>5. chunk \in 1 .. top
    <3> HIDE DEF chunk, top
    <3> QED BY <1>1, <2>2, <2>4 DEF SetupRight
  <2> HIDE DEF chunk, rows, work, top
  <2>6. work.split = (rows # BatchSize \/ EnableCudaGraph) /\ work.chunk = chunk /\ work.rows = rows
    BY <2>1
  <2>7. (rows # BatchSize \/ EnableCudaGraph) \in BOOLEAN
    OBVIOUS
  <2> QED BY <1>3, <2>5, <2>6, <2>7 DEF work, top, chunk, rows
<1> QED BY <1>2, <1>3

\* The launch shape, and that the schedule fits it where no graph meets an
\* empty request.
LEMMA InfoFacts ==
  ASSUME SetupRight, EnableCudaGraph \in BOOLEAN, NEW lens \in [Requests -> 0 .. MaxLength]
  PROVE  LET info == InfoOf(lens)
             work == WorkEstimation(lens)
         IN  /\ info \in [padded_batch_size : Nat \ {0}, split : BOOLEAN]
             /\ info.split = work.split
             /\ NoEmpty(lens) => NumRows(lens, work.chunk) <= info.padded_batch_size
<1> DEFINE work == WorkEstimation(lens)
           padded == PaddedBatchSize(work)
           rows == NumRows(lens, work.chunk)
<1>0. lens \in [Requests -> Nat] /\ MaxLength \in Nat \ {0} /\ BatchSize \in Nat \ {0}
  BY SizesAssumption
<1>1. /\ work.split \in BOOLEAN
      /\ work.chunk \in Nat \ {0} /\ work.rows = rows
      /\ BatchSize * heads >= MaxGridSize => ~work.split /\ rows = BatchSize
      /\ BatchSize * heads < MaxGridSize =>
           /\ work.split <=> (rows # BatchSize \/ EnableCudaGraph)
           /\ work.chunk = BinarySearch(lens)
  <2>1. work.chunk \in 1 .. Max({MaxLength, setup.min_pages}) => work.chunk \in Nat \ {0}
    OBVIOUS
  <2> HIDE DEF work, rows
  <2> QED BY <2>1, WorkFacts DEF work, rows
<1>2. InfoOf(lens) = [padded_batch_size |-> padded, split |-> work.split]
  BY DEF InfoOf
<1>3. \A r \in Requests : Tiles(lens, work.chunk)[r] \in Nat /\ Tiles(lens, work.chunk)[r] >= 1
  BY <1>0, <1>1, TilesFacts
<1>4. rows \in Nat /\ rows >= 1
  <2> DEFINE f == Tiles(lens, work.chunk)
             ones == [r \in Requests |-> 1]
  <2>1. \A r \in Requests : f[r] \in Int /\ ones[r] \in Int /\ ones[r] <= f[r] /\ ones[r] = 1
    BY <1>3
  <2>2. rows = SumFunctionOnSet(f, Requests)
    BY DEF NumRows
  <2> HIDE DEF f, ones, rows
  <2>3. rows \in Int /\ SumFunctionOnSet(ones, Requests) <= rows
    BY <2>1, <2>2, RequestsFacts, SumType, SumMonotone
  <2>4. SumFunctionOnSet(ones, Requests) = BatchSize
    BY <2>1, RequestsFacts, SumOfOnes
  <2> QED BY <1>0, <2>3, <2>4
<1>5. CASE ~EnableCudaGraph
  <2>1. padded = work.rows
    BY <1>5 DEF PaddedBatchSize
  <2> HIDE DEF work, padded, rows
  <2> QED BY <1>1, <1>2, <1>4, <2>1 DEF work, rows
<1>6. CASE EnableCudaGraph /\ BatchSize * heads >= MaxGridSize
  <2>1. padded = BatchSize
    BY <1>1, <1>6 DEF PaddedBatchSize
  <2> HIDE DEF work, padded, rows
  <2> QED BY <1>0, <1>1, <1>2, <1>6, <2>1 DEF work, rows
<1>7. CASE EnableCudaGraph /\ ~(BatchSize * heads >= MaxGridSize)
  <2>0. BatchSize * heads < MaxGridSize
    BY <1>7, RequestsFacts DEF SetupRight
  <2>1. work.split
    BY <1>1, <1>7, <2>0
  <2>2. padded = MaxGridSize \div heads
    BY <1>7, <2>1 DEF PaddedBatchSize
  <2>3. padded \in Nat /\ \A n \in Nat : n * heads <= MaxGridSize => n <= padded
    <3> HIDE DEF padded
    <3>1. padded \in Nat /\ MaxGridSize < padded * heads + heads
      BY <2>2 DEF SetupRight
    <3> SUFFICES ASSUME NEW n \in Nat, n * heads <= MaxGridSize, padded + 1 <= n PROVE FALSE
      BY <3>1
    <3>2. (padded + 1) * heads <= n * heads
      BY <3>1 DEF SetupRight
    <3>3. (padded + 1) * heads = padded * heads + heads
      BY <3>1 DEF SetupRight
    <3>4. padded * heads \in Int /\ n * heads \in Int
      BY <3>1 DEF SetupRight
    <3> QED BY <3>1, <3>2, <3>3, <3>4 DEF SetupRight
  <2>4. padded >= 1
    <3>1. 1 * heads <= BatchSize * heads /\ 1 * heads \in Int /\ BatchSize * heads \in Int
      BY <1>0 DEF SetupRight
    <3>2. 1 * heads <= MaxGridSize
      BY <2>0, <3>1 DEF SetupRight
    <3> HIDE DEF padded
    <3> QED BY <2>3, <3>2
  <2>5. ASSUME NoEmpty(lens) PROVE rows <= padded
    <3>1. ~Exceeds(SearchRows(lens, work.chunk))
      BY <1>1, <2>0, SearchFacts
    <3> DEFINE f == Tiles(lens, work.chunk)
               g == [r \in Requests |-> CeilDiv(lens[r], work.chunk)]
    <3>2. \A r \in Requests : f[r] = g[r]
      BY <1>0, <1>7, <2>5 DEF NoEmpty, Tiles, NumChunks, AtLeastOne
    <3>3. /\ rows = SumFunctionOnSet(f, Requests)
          /\ SearchRows(lens, work.chunk) = SumFunctionOnSet(g, Requests)
      BY DEF NumRows, SearchRows
    <3>4. \A r \in Requests : f[r] \in Int
      BY <1>3
    <3> HIDE DEF f, g, rows
    <3>5. SearchRows(lens, work.chunk) = rows
      BY <3>2, <3>3, <3>4, RequestsFacts, SumSame
    <3>6. rows * heads <= MaxGridSize
      BY <1>4, <3>1, <3>5 DEF Exceeds, SetupRight
    <3> HIDE DEF padded
    <3> QED BY <1>4, <2>3, <3>6
  <2> HIDE DEF work, padded, rows
  <2> QED BY <1>1, <1>2, <2>3, <2>4, <2>5 DEF work, rows
<1> QED BY <1>5, <1>6, <1>7

ScheduleRight(schedule) ==
  /\ schedule.chunk \in 1 .. Max({MaxLength, setup.min_pages})
  /\ schedule.o_indptr[BatchSize] = Cardinality(DOMAIN schedule.rows)
  /\ \A i \in DOMAIN schedule.rows :
       /\ schedule.rows[i].request \in Requests
       /\ schedule.rows[i].tile * schedule.chunk \in 0 .. AtLeastOne(MaxLength) - 1

\* The schedule has a row for every chunk, as OIndptr counts them.
LEMMA ScheduleFacts ==
  ASSUME SetupRight, EnableCudaGraph \in BOOLEAN, NEW lens \in [Requests -> 0 .. MaxLength]
  PROVE  LET schedule == ScheduleOf(lens)
             chunk == WorkEstimation(lens).chunk
         IN  /\ ScheduleRight(schedule)
             /\ schedule.chunk = chunk /\ schedule.valid = NumRows(lens, chunk)
             /\ schedule.o_indptr = OIndptr(lens, chunk)
             /\ DOMAIN schedule.rows = 0 .. NumRows(lens, chunk) - 1
             /\ Cardinality(DOMAIN schedule.rows) = NumRows(lens, chunk)
             /\ \A r \in Requests : \A i \in DOMAIN schedule.rows :
                  RowOf(lens, chunk, r, i) =>
                    schedule.rows[i] = [request |-> r, tile |-> i - OIndptr(lens, chunk)[r]]
<1> DEFINE work == WorkEstimation(lens)
           chunk == work.chunk
           schedule == Schedule(lens, work)
           first == OIndptr(lens, chunk)
           top == Max({MaxLength, setup.min_pages})
           D == 0 .. NumRows(lens, chunk) - 1
<1>0. lens \in [Requests -> Nat] /\ MaxLength \in Nat \ {0} /\ BatchSize \in Nat \ {0}
  BY SizesAssumption
<1>1. chunk \in 1 .. top /\ work.rows = NumRows(lens, chunk)
  BY WorkFacts
<1>2. chunk \in Nat \ {0}
  <2> HIDE DEF chunk, top
  <2> QED BY <1>1
<1>3. /\ DOMAIN schedule.rows = D
      /\ \A r \in Requests : \A i \in DOMAIN schedule.rows :
           RowOf(lens, chunk, r, i) =>
             schedule.rows[i] = [request |-> r, tile |-> i - first[r]]
  <2> HIDE DEF work
  <2> QED BY <1>0, <1>2, ScheduleRows
<1>4. /\ schedule.chunk = chunk /\ schedule.valid = NumRows(lens, chunk)
      /\ schedule.o_indptr = first
  <2>1. schedule.chunk = chunk /\ schedule.valid = work.rows /\ schedule.o_indptr = first
    <3> HIDE DEF work
    <3> QED BY DEF Schedule
  <2> QED BY <1>1, <2>1
<1>5. first[BatchSize] = NumRows(lens, chunk) /\ first \in [0 .. BatchSize -> Int] /\ first[0] = 0
  <2> HIDE DEF chunk
  <2> QED BY <1>0, <1>2, FirstFacts
<1>6. NumRows(lens, chunk) \in Nat
  <2> HIDE DEF chunk, first
  <2>1. first[0] <= first[BatchSize]
    <3>1. 0 \in 0 .. BatchSize /\ BatchSize \in 0 .. BatchSize
      BY <1>0
    <3> QED BY <1>0, <1>2, <3>1, FirstMonotone DEF first
  <2>2. first[BatchSize] \in Int
    BY <1>0, <1>5
  <2> QED BY <1>5, <2>1, <2>2
<1>7. Cardinality(D) = NumRows(lens, chunk)
  <2> HIDE DEF chunk
  <2>1. 0 \in Int /\ NumRows(lens, chunk) - 1 \in Int
    BY <1>6
  <2> QED BY <1>6, <2>1, FS_Interval
<1>8. ASSUME NEW i \in D
      PROVE  /\ schedule.rows[i].request \in Requests
             /\ schedule.rows[i].tile * chunk \in 0 .. AtLeastOne(MaxLength) - 1
  <2>1. PICK r \in Requests : RowOf(lens, chunk, r, i)
    <3> HIDE DEF chunk
    <3> QED BY <1>0, <1>2, RowOfSome
  <2>2. schedule.rows[i] = [request |-> r, tile |-> i - first[r]]
    BY <1>3, <2>1
  <2> DEFINE tile == i - first[r]
             t == NumChunks(lens[r], chunk)
             len == AtLeastOne(lens[r])
  <2>3. first[r + 1] = first[r] + t /\ t \in Nat
    <3> HIDE DEF chunk
    <3> QED BY <1>0, <1>2, FirstFacts, TilesFacts
  <2>4. t * chunk < len + chunk
    <3> HIDE DEF chunk
    <3> QED BY <1>0, <1>2, NumChunksFacts
  <2>5. first[r] \in Int /\ i \in Int
    <3> HIDE DEF first, chunk
    <3> QED BY <1>0, <1>5, <1>6 DEF Requests
  <2>6. first[r] <= i /\ i < first[r + 1]
    <3>1. first[r + 1] \in Int
      BY <2>3, <2>5
    <3> HIDE DEF first
    <3> QED BY <2>1, <2>5, <3>1 DEF RowOf, first
  <2>7. len \in Nat /\ len <= AtLeastOne(MaxLength) /\ AtLeastOne(MaxLength) \in Nat
    BY <1>0 DEF AtLeastOne
  <2> HIDE DEF t, len, first
  <2>8. tile \in Nat /\ tile + 1 <= t
    BY <2>3, <2>5, <2>6
  <2> HIDE DEF tile, chunk
  <2>9. (tile + 1) * chunk <= t * chunk /\ (tile + 1) * chunk = tile * chunk + chunk
        /\ tile * chunk \in Nat /\ t * chunk \in Nat
    BY <1>2, <2>3, <2>8
  <2>10. tile * chunk < len
    BY <1>2, <2>4, <2>7, <2>9
  <2>11. tile * chunk \in 0 .. AtLeastOne(MaxLength) - 1
    BY <2>7, <2>9, <2>10
  <2> QED BY <2>2, <2>11 DEF tile
<1>9. ScheduleOf(lens) = schedule
  BY DEF ScheduleOf
<1> HIDE DEF schedule, first, D, chunk, top
<1> QED BY <1>1, <1>3, <1>4, <1>5, <1>7, <1>8, <1>9 DEF ScheduleRight, first, D, top, chunk

LEMMA MinOfTwo == ASSUME NEW a \in Int, NEW b \in Int
                  PROVE  Min({a, b}) = IF a <= b THEN a ELSE b
<1>1. \E x \in {a, b} : \A y \in {a, b} : x <= y
  <2>1. CASE a <= b
    BY <2>1
  <2>2. CASE b <= a
    BY <2>2
  <2> QED BY <2>1, <2>2
<1>2. Min({a, b}) \in {a, b} /\ \A y \in {a, b} : Min({a, b}) <= y
  BY <1>1 DEF Min
<1> QED BY <1>2

\* Where nothing is split, row r is request r's.
LEMMA OneRowEach ==
  ASSUME NEW lens \in [Requests -> Nat], NEW chunk \in Nat \ {0},
         NumRows(lens, chunk) = BatchSize, NEW r \in Requests
  PROVE  RowOf(lens, chunk, r, r) /\ OIndptr(lens, chunk)[r] = r
<1> DEFINE f == Tiles(lens, chunk)
           B == {q \in Requests : q < r}
<1>1. \A q \in Requests : f[q] = 1
  <2>1. \A q \in Requests : f[q] \in Int /\ f[q] >= 1
    BY TilesFacts
  <2>2. SumFunctionOnSet(f, Requests) <= Cardinality(Requests) /\ IsFiniteSet(Requests)
    BY RequestsFacts DEF NumRows
  <2> HIDE DEF f
  <2> QED BY <2>1, <2>2, AllOnes
<1>2. r \in 0 .. BatchSize /\ BatchSize \in Nat /\ r \in Int /\ 0 \in Int /\ r - 1 \in Int /\ r >= 0
  BY RequestsFacts DEF Requests
<1>3. OIndptr(lens, chunk)[r] = SumFunctionOnSet(f, B)
  BY <1>2 DEF OIndptr
<1>4. B = 0 .. r - 1
  BY <1>2 DEF Requests
<1>5. IsFiniteSet(B) /\ Cardinality(B) = r
  <2> DEFINE last == r - 1
  <2>1. last \in Int /\ 0 \in Int /\ r \in Int /\ last >= -1 /\ r = last + 1
    BY <1>2
  <2> HIDE DEF last
  <2>2. IsFiniteSet(0 .. last) /\ Cardinality(0 .. last) = IF 0 > last THEN 0 ELSE last - 0 + 1
    BY <2>1, FS_Interval
  <2>3. Cardinality(0 .. last) = r
    BY <2>1, <2>2
  <2> QED BY <1>4, <2>2, <2>3 DEF last
<1>6. SumFunctionOnSet(f, B) = r
  <2>1. \A q \in B : f[q] = 1
    BY <1>1
  <2> HIDE DEF f, B
  <2> QED BY <1>5, <2>1, SumOfOnes
<1>7. OIndptr(lens, chunk)[r + 1] = r + 1
  BY <1>1, <1>3, <1>6, FirstFacts
<1> QED BY <1>2, <1>3, <1>6, <1>7 DEF RowOf

\* The pages of one tile.
LEMMA TilePages ==
  ASSUME NEW len \in Nat, NEW chunk \in Nat \ {0}, NEW tile \in Nat, NEW p
  PROVE  p \in tile * chunk .. Min({(tile + 1) * chunk, len}) - 1
           <=> p \in 0 .. len - 1 /\ tile * chunk <= p /\ p < tile * chunk + chunk
<1>1. (tile + 1) * chunk = tile * chunk + chunk /\ tile * chunk \in Nat
  OBVIOUS
<1>2. Min({(tile + 1) * chunk, len})
        = IF tile * chunk + chunk <= len THEN tile * chunk + chunk ELSE len
  BY <1>1, MinOfTwo
<1> DEFINE low == tile * chunk
           least == Min({(tile + 1) * chunk, len})
<1> HIDE DEF low, least
<1>3. low \in Nat /\ least = IF low + chunk <= len THEN low + chunk ELSE len
  BY <1>1, <1>2 DEF low, least
<1>4. p \in low .. least - 1 <=> p \in 0 .. len - 1 /\ low <= p /\ p < low + chunk
  BY <1>3
<1> QED BY <1>4 DEF low, least

\* A launch with its own plan's shape and schedule reads every page once.
LEMMA LaunchCorrect ==
  ASSUME SetupRight, EnableCudaGraph \in BOOLEAN, NEW lens \in [Requests -> 0 .. MaxLength],
         NoEmpty(lens), NEW r \in Requests
  PROVE  LET rows == Launch(InfoOf(lens), ScheduleOf(lens), lens)[r]
         IN  /\ UNION {rows[i] : i \in DOMAIN rows} = {<<r, p>> : p \in 0 .. lens[r] - 1}
             /\ \A i, j \in DOMAIN rows : i # j => rows[i] \cap rows[j] = {}
<1> DEFINE info == InfoOf(lens)
           schedule == ScheduleOf(lens)
           work == WorkEstimation(lens)
           chunk == work.chunk
           first == OIndptr(lens, chunk)
           merged == RowsMerged(info, schedule, r)
           total == NumRows(lens, chunk)
           len == lens[r]
           rows == [i \in merged |-> IF i \in Blocks(info, schedule)
                                       THEN PagesOf(info, schedule, lens, i) ELSE Stale(i)]
<1>0. lens \in [Requests -> Nat] /\ len \in Nat
  BY SizesAssumption
<1>1. Launch(info, schedule, lens)[r] = rows
  BY DEF Launch
<1>2. /\ chunk \in Nat \ {0} /\ work.split \in BOOLEAN
      /\ ~work.split => total = BatchSize
  <2>1. chunk \in 1 .. Max({MaxLength, setup.min_pages}) => chunk \in Nat \ {0}
    OBVIOUS
  <2>2. BatchSize * heads >= MaxGridSize \/ BatchSize * heads < MaxGridSize
    BY RequestsFacts DEF SetupRight
  <2> HIDE DEF work
  <2> QED BY <2>1, <2>2, WorkFacts DEF work
<1>3. /\ info.padded_batch_size \in Nat /\ info.split = work.split
      /\ total <= info.padded_batch_size
  <2> HIDE DEF info, total, work
  <2> QED BY InfoFacts DEF info, total, work
<1>4. /\ schedule.chunk = chunk /\ schedule.valid = total /\ schedule.o_indptr = first
      /\ DOMAIN schedule.rows = 0 .. total - 1
      /\ \A i \in DOMAIN schedule.rows :
           RowOf(lens, chunk, r, i) => schedule.rows[i] = [request |-> r, tile |-> i - first[r]]
  <2> HIDE DEF schedule, total, work, first
  <2> QED BY ScheduleFacts DEF schedule, total, work, first
<1>5. /\ first \in [0 .. BatchSize -> Int] /\ BatchSize \in Nat
      /\ first[BatchSize] = total
      /\ first[r + 1] = first[r] + NumChunks(len, chunk)
  <2> HIDE DEF chunk
  <2> QED BY <1>0, <1>2, FirstFacts, TilesFacts, RequestsFacts
<1> HIDE DEF info, schedule, work, chunk, first, total
<1>6. total \in Int /\ first[r] \in Int /\ first[r + 1] \in Int
  BY <1>5 DEF Requests
<1>7. ASSUME NEW i, RowOf(lens, chunk, r, i)
      PROVE  /\ i \in Blocks(info, schedule) /\ i \in Int
             /\ schedule.rows[i] = [request |-> r, tile |-> i - first[r]]
  <2>1. i \in 0 .. total - 1
    BY <1>0, <1>2, <1>7, RowOfOne DEF total
  <2>2. i \in 0 .. info.padded_batch_size - 1 /\ i < total /\ i \in Int
    BY <1>3, <1>6, <2>1
  <2> QED BY <1>4, <1>7, <2>1, <2>2 DEF Blocks
<1>8. CASE work.split
  <2> DEFINE tiles == NumChunks(len, chunk)
             P(i) == {<<r, p>> : p \in {q \in 0 .. len - 1 :
                        (i - first[r]) * chunk <= q /\ q < (i - first[r]) * chunk + chunk}}
  <2>1. merged = first[r] .. first[r + 1] - 1
    BY <1>3, <1>4, <1>8 DEF RowsMerged
  <2>2. ASSUME NEW i \in merged
        PROVE  rows[i] = P(i) /\ i \in Int /\ i - first[r] \in Nat /\ i - first[r] < tiles
    <3>1. RowOf(lens, chunk, r, i)
      BY <2>1 DEF RowOf, first
    <3>2. /\ i \in Blocks(info, schedule) /\ i \in Int
          /\ schedule.rows[i] = [request |-> r, tile |-> i - first[r]]
      BY <1>7, <3>1
    <3> DEFINE t == i - first[r]
    <3>3. t \in Nat /\ t < tiles
      <4>1. tiles \in Nat
        BY <1>0, <1>2, NumChunksFacts
      <4> HIDE DEF tiles
      <4> QED BY <1>5, <1>6, <2>1, <3>2, <4>1 DEF tiles
    <3>4. rows[i] = PagesOf(info, schedule, lens, i)
      BY <3>2
    <3>5. PagesOf(info, schedule, lens, i) =
            {<<r, p>> : p \in t * chunk .. Min({(t + 1) * chunk, len}) - 1}
      BY <1>3, <1>4, <1>8, <3>2 DEF PagesOf
    <3> HIDE DEF t
    <3>6. \A q : q \in t * chunk .. Min({(t + 1) * chunk, len}) - 1
                   <=> q \in 0 .. len - 1 /\ t * chunk <= q /\ q < t * chunk + chunk
      BY <1>0, <1>2, <3>3, TilePages
    <3>7. t * chunk .. Min({(t + 1) * chunk, len}) - 1 =
            {q \in 0 .. len - 1 : t * chunk <= q /\ q < t * chunk + chunk}
      BY <3>6
    <3>8. rows[i] = P(i)
      BY <3>4, <3>5, <3>7 DEF t
    <3> QED BY <3>2, <3>3, <3>8 DEF t
  <2>3. DOMAIN rows = merged
    OBVIOUS
  <2> HIDE DEF rows, merged
  <2>4. UNION {rows[i] : i \in merged} = {<<r, p>> : p \in 0 .. len - 1}
    <3>1. \A i \in merged : rows[i] \subseteq {<<r, p>> : p \in 0 .. len - 1}
      BY <2>2
    <3>2. ASSUME NEW p \in 0 .. len - 1
          PROVE  \E i \in merged : <<r, p>> \in rows[i]
      <4> DEFINE t == p \div chunk
      <4>1. t \in Nat /\ t * chunk <= p /\ p < t * chunk + chunk
        BY <1>0, <1>2
      <4> HIDE DEF t
      <4>2. tiles \in Nat /\ len <= tiles * chunk
        BY <1>0, <1>2, NumChunksFacts
      <4> HIDE DEF tiles
      <4>3. t < tiles
        <5> SUFFICES ASSUME tiles <= t PROVE FALSE
          BY <4>1, <4>2
        <5>1. tiles * chunk <= t * chunk /\ tiles * chunk \in Int /\ t * chunk \in Int
          BY <1>2, <4>1, <4>2
        <5> QED BY <1>0, <4>1, <4>2, <5>1
      <4>4. first[r] + t \in merged /\ (first[r] + t) - first[r] = t
        <5>1. first[r + 1] = first[r] + tiles
          BY <1>5 DEF tiles
        <5> QED BY <1>6, <2>1, <4>1, <4>2, <4>3, <5>1
      <4> DEFINE i == first[r] + t
      <4>5. i \in merged /\ i - first[r] = t
        BY <4>4
      <4> HIDE DEF i
      <4>6. <<r, p>> \in P(i)
        BY <4>1, <4>5
      <4> QED BY <2>2, <4>5, <4>6
    <3> QED BY <3>1, <3>2
  <2>5. ASSUME NEW i \in merged, NEW j \in merged, i # j
        PROVE  rows[i] \cap rows[j] = {}
    <3> DEFINE s == i - first[r]
               t == j - first[r]
    <3>1. s \in Nat /\ t \in Nat /\ s # t
      BY <1>6, <2>2, <2>5
    <3>2. ASSUME NEW q \in Nat, s * chunk <= q, q < s * chunk + chunk,
                 t * chunk <= q, q < t * chunk + chunk
          PROVE  FALSE
      <4> HIDE DEF s, t
      <4>1. \A x, y \in Nat : x < y => x * chunk + chunk <= y * chunk
        <5> SUFFICES ASSUME NEW x \in Nat, NEW y \in Nat, x < y
                     PROVE  x * chunk + chunk <= y * chunk
          OBVIOUS
        <5>1. (x + 1) * chunk <= y * chunk /\ (x + 1) * chunk = x * chunk + chunk
          BY <1>2
        <5> QED BY <5>1
      <4>2. s * chunk \in Nat /\ t * chunk \in Nat
        BY <1>2, <3>1
      <4>3. s < t \/ t < s
        BY <3>1
      <4> QED BY <1>2, <3>1, <3>2, <4>1, <4>2, <4>3
    <3>3. \A e : ~(e \in P(i) /\ e \in P(j))
      <4> SUFFICES ASSUME NEW e, e \in P(i), e \in P(j) PROVE FALSE
        OBVIOUS
      <4>1. PICK p \in 0 .. len - 1 : e = <<r, p>> /\ s * chunk <= p /\ p < s * chunk + chunk
        OBVIOUS
      <4>2. PICK q \in 0 .. len - 1 : e = <<r, q>> /\ t * chunk <= q /\ q < t * chunk + chunk
        OBVIOUS
      <4>3. p = q /\ p \in Nat
        BY <4>1, <4>2
      <4> HIDE DEF s, t
      <4> QED BY <3>2, <4>1, <4>2, <4>3
    <3> HIDE DEF P
    <3> QED BY <2>2, <3>3
  <2> QED BY <1>1, <2>3, <2>4, <2>5 DEF info, schedule
<1>9. CASE ~work.split
  <2>1. merged = {r}
    BY <1>3, <1>9 DEF RowsMerged
  <2>2. RowOf(lens, chunk, r, r)
    BY <1>0, <1>2, <1>9, OneRowEach DEF total
  <2>3. r \in Blocks(info, schedule) /\ schedule.rows[r].request = r
    <3>1. /\ r \in Blocks(info, schedule)
          /\ schedule.rows[r] = [request |-> r, tile |-> r - first[r]]
      BY <1>7, <2>2
    <3> QED BY <3>1
  <2>4. rows[r] = {<<r, p>> : p \in 0 .. len - 1}
    BY <1>3, <1>9, <2>1, <2>3 DEF PagesOf
  <2>5. DOMAIN rows = {r}
    BY <2>1
  <2> HIDE DEF rows
  <2>6. UNION {rows[i] : i \in DOMAIN rows} = rows[r]
    BY <2>5
  <2> QED BY <1>1, <2>4, <2>5, <2>6 DEF info, schedule
<1> QED BY <1>2, <1>8, <1>9

-----------------------------------------------------------------------------
\* The host, the graph and the stream.

\* What the assumption on the setups says of the one in use.
LEMMA SetupFacts ==
  ASSUME setup \in Setups
  PROVE  /\ SetupRight /\ EnableCudaGraph \in BOOLEAN /\ setup.min_length \in Nat
         /\ \A lens \in Lengths : lens \in [Requests -> 0 .. MaxLength]
<1>1. /\ setup.heads \in Nat \ {0} /\ setup.min_pages \in Nat \ {0} /\ setup.min_length \in Nat
      /\ setup.enable_cuda_graph \in BOOLEAN
  BY SetupAssumption DEF SetupType
<1>2. \A lens \in Lengths : lens \in [Requests -> 0 .. MaxLength]
  <2> SUFFICES ASSUME NEW lens \in [Requests -> setup.min_length .. MaxLength]
               PROVE  lens \in [Requests -> 0 .. MaxLength]
    BY DEF Lengths
  <2>1. setup.min_length .. MaxLength \subseteq 0 .. MaxLength
    BY <1>1, SizesAssumption
  <2> QED BY <2>1
<1> QED BY <1>1, <1>2, SizesAssumption DEF SetupRight, heads, EnableCudaGraph

\* The setup is never changed, and with it neither is what is computed from it.
LEMMA SetupConstant ==
  ASSUME setup' = setup
  PROVE  /\ Lengths' = Lengths /\ EnableCudaGraph' = EnableCudaGraph
         /\ \A lens : InfoOf(lens)' = InfoOf(lens) /\ ScheduleOf(lens)' = ScheduleOf(lens)
         /\ \A info, schedule, lens : Launch(info, schedule, lens)' = Launch(info, schedule, lens)
<1>1. Lengths' = Lengths /\ EnableCudaGraph' = EnableCudaGraph /\ heads' = heads
  BY DEF Lengths, EnableCudaGraph, heads
<1>2. \A lens : BinarySearch(lens)' = BinarySearch(lens)
  BY DEF BinarySearch, Exceeds, heads
<1>3. \A lens : WorkEstimation(lens)' = WorkEstimation(lens)
  BY <1>1, <1>2 DEF WorkEstimation
<1>4. \A work : PaddedBatchSize(work)' = PaddedBatchSize(work)
  BY <1>1 DEF PaddedBatchSize
<1>5. \A lens : InfoOf(lens)' = InfoOf(lens)
  BY <1>3, <1>4 DEF InfoOf
<1>6. \A lens : ScheduleOf(lens)' = ScheduleOf(lens)
  BY <1>3 DEF ScheduleOf
<1>7. \A info, schedule : Blocks(info, schedule)' = Blocks(info, schedule)
  BY <1>1 DEF Blocks
<1>8. \A info, schedule, lens : Launch(info, schedule, lens)' = Launch(info, schedule, lens)
  BY <1>7 DEF Launch
<1> QED BY <1>1, <1>5, <1>6, <1>8

\* Where graphs are used, the launch shape does not depend on the lengths.
LEMMA InfoFrozen ==
  ASSUME setup \in Setups, EnableCudaGraph, NEW k \in Lengths, NEW l \in Lengths
  PROVE  InfoOf(k) = InfoOf(l)
<1> DEFINE shape == IF BatchSize * heads >= MaxGridSize
                      THEN [padded_batch_size |-> BatchSize, split |-> FALSE]
                      ELSE [padded_batch_size |-> MaxGridSize \div heads, split |-> TRUE]
<1>1. ASSUME NEW m PROVE InfoOf(m) = shape
  <2>1. WorkEstimation(m).split = ~(BatchSize * heads >= MaxGridSize)
    BY DEF WorkEstimation
  <2> QED BY <2>1 DEF InfoOf, PaddedBatchSize
<1> HIDE DEF shape
<1> QED BY <1>1

-----------------------------------------------------------------------------
InfoRight(info) == info.split \in BOOLEAN /\ info.padded_batch_size \in Nat \ {0}

\* TypeOK and StreamRight by their parts.
LEMMA TypeParts ==
  TypeOK <=> /\ setup \in Setups
             /\ planned \in Lengths \cup {None} /\ indptr \in Lengths \cup {None}
             /\ \A info \in {planInfo, graph} \ {None} : InfoRight(info)
             /\ \A schedule \in {pinned, intBuffer} \ {None} : ScheduleRight(schedule)
             /\ Len(stream) <= 2 * plans + runs
             /\ plans \in 0 .. MaxPlans /\ runs \in 0 .. MaxRuns
BY DEF TypeOK, InfoRight, ScheduleRight

\* A plan's shape and schedule have their types.
LEMMA PlannedFacts ==
  ASSUME setup \in Setups, Planned
  PROVE  /\ InfoRight(planInfo) /\ ScheduleRight(pinned)
         /\ planInfo \in [padded_batch_size : Nat, split : BOOLEAN]
<1>1. planned \in [Requests -> 0 .. MaxLength] /\ SetupRight /\ EnableCudaGraph \in BOOLEAN
  BY SetupFacts DEF Planned
<1>2. planInfo \in [padded_batch_size : Nat \ {0}, split : BOOLEAN]
  BY <1>1, InfoFacts DEF Planned
<1>3. ScheduleRight(pinned)
  BY <1>1, ScheduleFacts DEF Planned
<1> QED BY <1>2, <1>3 DEF InfoRight

\* What a step that leaves the plan alone does not change.
LEMMA RightConstant ==
  ASSUME setup' = setup
  PROVE  /\ \A schedule : ScheduleRight(schedule)' <=> ScheduleRight(schedule)
         /\ \A info : InfoRight(info)' <=> InfoRight(info)
BY DEF ScheduleRight, InfoRight

LEMMA InvInit == Init => IInv
<1> SUFFICES ASSUME Init PROVE IInv
  OBVIOUS
<1>1. TypeOK
  BY SizesAssumption, TypeParts DEF Init
<1>2. PlanRight /\ GraphRight /\ OutRight
  BY DEF Init, PlanRight, GraphRight, OutRight
<1>3. StreamRight
  <2>1. stream \in Seq(Operations) /\ Len(stream) = 0
    BY DEF Init
  <2>2. 0 \in 0 .. 2 /\ 0 + 1 .. Len(stream) = {}
    BY <2>1
  <2>3. Planned => indptr = planned /\ intBuffer = pinned
    BY DEF Init
  <2> QED BY <2>1, <2>2, <2>3 DEF StreamRight
<1> QED BY <1>1, <1>2, <1>3 DEF IInv

\* One lemma for each action.
LEMMA PlanStep ==
  ASSUME IInv, NEW lens \in Lengths, Plan(lens)
  PROVE  IInv'
<1>0. setup' = setup /\ setup \in Setups /\ TypeOK
  BY DEF Plan, IInv, TypeOK
<1>1. Lengths' = Lengths /\ InfoOf(lens)' = InfoOf(lens) /\ ScheduleOf(lens)' = ScheduleOf(lens)
  BY <1>0, SetupConstant
<1>2. Planned'
  BY <1>1 DEF Plan, Planned
<1>3. PlanRight'
  BY <1>2 DEF PlanRight
<1>4. GraphRight'
  <2> SUFFICES ASSUME graph # None PROVE GraphRight'
    BY DEF Plan, GraphRight
  <2>1. EnableCudaGraph /\ Planned /\ graph = planInfo
    BY DEF IInv, GraphRight
  <2>2. planInfo' = planInfo
    BY <1>0, <2>1, InfoFrozen DEF Plan, Planned
  <2>3. EnableCudaGraph'
    BY <1>0, <2>1, SetupConstant
  <2> QED BY <1>2, <2>1, <2>2, <2>3 DEF Plan, GraphRight
<1>5. InfoRight(planInfo') /\ ScheduleRight(pinned')
  <2>1. lens \in [Requests -> 0 .. MaxLength] /\ SetupRight /\ EnableCudaGraph \in BOOLEAN
    BY <1>0, SetupFacts
  <2>2. /\ InfoOf(lens) \in [padded_batch_size : Nat \ {0}, split : BOOLEAN]
        /\ ScheduleRight(ScheduleOf(lens))
    BY <2>1, InfoFacts, ScheduleFacts
  <2> QED BY <2>2 DEF Plan, InfoRight
<1> DEFINE c1 == [op |-> "copy_indptr", lens |-> lens]
           c2 == [op |-> "copy_schedule"]
<1>6. c1 \in Operations /\ c2 \in Operations /\ stream \in Seq(Operations)
  BY DEF Operations, IInv, StreamRight
<1>7. Operations' = Operations
  BY <1>1 DEF Operations
<1>8. /\ stream' \in Seq(Operations) /\ Len(stream') = Len(stream) + 2
      /\ stream = <<>> => stream'[1] = c1 /\ stream'[2] = c2
  <2>1. stream' = stream \o <<c1, c2>>
    BY DEF Plan
  <2> HIDE DEF c1, c2
  <2> QED BY <1>6, <2>1
<1>9. TypeOK'
  <2>1. plans' \in 0 .. MaxPlans /\ runs' \in 0 .. MaxRuns /\ Len(stream') <= 2 * plans' + runs'
    BY <1>0, <1>6, <1>8, SizesAssumption DEF Plan, TypeOK
  <2>2. \A info \in {planInfo', graph'} \ {None} : InfoRight(info)'
    BY <1>0, <1>5, RightConstant, TypeParts DEF Plan
  <2>3. \A schedule \in {pinned', intBuffer'} \ {None} : ScheduleRight(schedule)'
    BY <1>0, <1>5, RightConstant, TypeParts DEF Plan
  <2>4. planned' \in Lengths' \cup {None} /\ indptr' \in Lengths' \cup {None}
    BY <1>0, <1>1 DEF Plan, TypeOK
  <2> QED BY <1>0, <2>1, <2>2, <2>3, <2>4 DEF TypeOK, InfoRight, ScheduleRight
<1>10. StreamRight'
  <2>1. ASSUME ~setup.host_indptr
        PROVE  /\ 2 \in 0 .. 2 /\ 2 <= Len(stream') /\ stream'[1] = c1 /\ stream'[2] = c2
               /\ 2 + 1 .. Len(stream') = {} /\ lens = planned'
    <3>1. stream = <<>> /\ planned' = lens
      BY <2>1 DEF Plan
    <3> QED BY <1>6, <1>8, <3>1
  <2>2. ~setup.host_indptr =>
         \E copies \in 0 .. 2 :
         /\ copies <= Len(stream')
         /\ copies = 2 => stream'[1] = [op |-> "copy_indptr", lens |-> planned']
         /\ copies > 0 => stream'[copies] = [op |-> "copy_schedule"]
         /\ \A i \in copies + 1 .. Len(stream') :
              stream'[i] = [op |-> "run", info |-> planInfo', wanted |-> planned']
         /\ copies < 2 => indptr' = planned'
         /\ copies = 0 => intBuffer' = pinned'
    BY <2>1
  <2> QED BY <1>0, <1>7, <1>8, <2>2 DEF StreamRight
<1>11. OutRight'
  BY <1>0, <1>1, SetupConstant DEF Plan, IInv, OutRight
<1> QED BY <1>3, <1>4, <1>9, <1>10, <1>11 DEF IInv

\* What the host does not touch stays right.
HostSame == UNCHANGED <<setup, planned, planInfo, pinned>>

LEMMA PlannedSame ==
  ASSUME HostSame
  PROVE  /\ Planned' <=> Planned
         /\ Lengths' = Lengths /\ Operations' = Operations
         /\ EnableCudaGraph' = EnableCudaGraph
<1>1. /\ Lengths' = Lengths /\ EnableCudaGraph' = EnableCudaGraph
      /\ \A lens : InfoOf(lens)' = InfoOf(lens) /\ ScheduleOf(lens)' = ScheduleOf(lens)
  BY SetupConstant DEF HostSame
<1>2. setup' = setup /\ planned' = planned
  BY DEF HostSame
<1>3. BinarySearch(planned)' = BinarySearch(planned)
  BY <1>2 DEF BinarySearch, Exceeds, heads
<1>4. WorkEstimation(planned)' = WorkEstimation(planned)
  BY <1>2, <1>3 DEF WorkEstimation, EnableCudaGraph, heads
<1>5. InfoOf(planned)' = InfoOf(planned) /\ ScheduleOf(planned)' = ScheduleOf(planned)
  BY <1>2, <1>4 DEF InfoOf, ScheduleOf, PaddedBatchSize, EnableCudaGraph, heads
<1>6. Operations' = Operations
  BY <1>1 DEF Operations
<1> QED BY <1>1, <1>5, <1>6 DEF Planned, HostSame

\* The launches and copies of StreamRight, for so many copies still to be made.
Ahead(copies) ==
  /\ copies <= Len(stream)
  /\ copies = 2 => stream[1] = [op |-> "copy_indptr", lens |-> planned]
  /\ copies > 0 => stream[copies] = [op |-> "copy_schedule"]
  /\ \A i \in copies + 1 .. Len(stream) :
       stream[i] = [op |-> "run", info |-> planInfo, wanted |-> planned]
  /\ copies < 2 => indptr = planned
  /\ copies = 0 => intBuffer = pinned

LEMMA StreamParts ==
  StreamRight <=> /\ stream \in Seq(Operations)
                  /\ ~setup.host_indptr /\ Planned => \E copies \in 0 .. 2 : Ahead(copies)
BY DEF StreamRight, Ahead

\* The type invariant of a step that leaves the host's state as it is.
LEMMA TypeStep ==
  ASSUME TypeOK, HostSame,
         graph' \in {graph, planInfo}, intBuffer' \in {intBuffer, pinned},
         indptr' \in Lengths \cup {None},
         Len(stream') <= 2 * plans' + runs',
         plans' \in 0 .. MaxPlans, runs' \in 0 .. MaxRuns
  PROVE  TypeOK'
<1>0. setup' = setup /\ setup \in Setups
  BY DEF HostSame, TypeOK
<1>1. Lengths' = Lengths
  BY <1>0, SetupConstant
<1>2. \A info \in {planInfo', graph'} \ {None} : InfoRight(info)'
  BY <1>0, RightConstant, TypeParts DEF HostSame
<1>3. \A schedule \in {pinned', intBuffer'} \ {None} : ScheduleRight(schedule)'
  BY <1>0, RightConstant, TypeParts DEF HostSame
<1>4. planned' \in Lengths' \cup {None}
  BY <1>1 DEF HostSame, TypeOK
<1> QED BY <1>0, <1>1, <1>2, <1>3, <1>4 DEF TypeOK, InfoRight, ScheduleRight

\* The parts about the host, in such a step.
LEMMA HostStep ==
  ASSUME PlanRight, GraphRight, HostSame,
         Planned \/ UNCHANGED <<graph, stream, intBuffer, indptr>>,
         graph' = graph \/ (EnableCudaGraph /\ Planned /\ graph' = planInfo)
  PROVE  PlanRight' /\ GraphRight'
BY PlannedSame DEF PlanRight, GraphRight, HostSame

\* A launch that finished stays right.
LEMMA OutSame ==
  ASSUME OutRight, HostSame, UNCHANGED out
  PROVE  OutRight'
<1>1. setup' = setup
  BY DEF HostSame
<1> QED BY <1>1, SetupConstant DEF OutRight

LEMMA IssueRunStep ==
  ASSUME IInv, Planned, IssueRun(planInfo)
  PROVE  IInv'
<1> DEFINE launch == [op |-> "run", info |-> planInfo, wanted |-> planned]
<1>0. /\ TypeOK /\ StreamRight /\ HostSame /\ setup \in Setups
      /\ UNCHANGED <<graph, intBuffer, indptr, out, plans>>
      /\ runs' = runs + 1 /\ runs < MaxRuns
      /\ stream' = Append(stream, launch)
  BY DEF IInv, IssueRun, HostSame, TypeOK
<1>1. launch \in Operations
  <2>1. planInfo \in [padded_batch_size : Nat, split : BOOLEAN] /\ planned \in Lengths
    BY <1>0, PlannedFacts DEF Planned
  <2> QED BY <2>1 DEF Operations
<1> HIDE DEF launch
<1>2. /\ stream \in Seq(Operations) /\ stream' \in Seq(Operations)
      /\ Len(stream) \in Nat /\ Len(stream') = Len(stream) + 1
      /\ \A i \in 1 .. Len(stream) : stream'[i] = stream[i]
      /\ stream'[Len(stream) + 1] = launch
  BY <1>0, <1>1 DEF StreamRight
<1>3. TypeOK'
  <2>1. Len(stream') <= 2 * plans' + runs' /\ plans' \in 0 .. MaxPlans /\ runs' \in 0 .. MaxRuns
    BY <1>0, <1>2, SizesAssumption DEF TypeOK
  <2>2. indptr' \in Lengths \cup {None}
    BY <1>0 DEF TypeOK
  <2> QED BY <1>0, <2>1, <2>2, TypeStep
<1>4. PlanRight' /\ GraphRight'
  BY <1>0, HostStep DEF IInv
<1>5. StreamRight'
  <2>1. ASSUME ~setup.host_indptr, NEW copies \in 0 .. 2, Ahead(copies)
        PROVE  Ahead(copies)'
    <3>1. /\ planned' = planned /\ planInfo' = planInfo /\ pinned' = pinned
          /\ indptr' = indptr /\ intBuffer' = intBuffer
      BY <1>0 DEF HostSame
    <3>2. copies <= Len(stream')
      BY <1>2, <2>1 DEF Ahead
    <3>3. \A i \in 1 .. copies : stream'[i] = stream[i]
      BY <1>2, <2>1 DEF Ahead
    <3>4. \A i \in copies + 1 .. Len(stream') : stream'[i] = launch
      <4> SUFFICES ASSUME NEW i \in copies + 1 .. Len(stream') PROVE stream'[i] = launch
        OBVIOUS
      <4>1. CASE i = Len(stream) + 1
        BY <1>2, <4>1
      <4>2. CASE i # Len(stream) + 1
        <5>1. i \in copies + 1 .. Len(stream) /\ i \in 1 .. Len(stream)
          BY <1>2, <4>2
        <5> QED BY <1>2, <2>1, <5>1 DEF Ahead, launch
      <4> QED BY <4>1, <4>2
    <3>5. /\ copies = 2 => stream'[1] = stream[1]
          /\ copies > 0 => stream'[copies] = stream[copies]
      BY <3>3
    <3> QED BY <2>1, <3>1, <3>2, <3>4, <3>5 DEF Ahead, launch
  <2>2. setup' = setup /\ (Planned' <=> Planned) /\ Operations' = Operations
    BY <1>0, PlannedSame DEF HostSame
  <2>3. ~setup.host_indptr => \E copies \in 0 .. 2 : Ahead(copies)
    BY <1>0, StreamParts
  <2>4. ~setup.host_indptr => \E copies \in 0 .. 2 : Ahead(copies)'
    BY <2>1, <2>3
  <2> QED BY <1>2, <2>2, <2>4, StreamParts DEF StreamRight, Ahead
<1>6. OutRight'
  BY <1>0, OutSame DEF IInv
<1> QED BY <1>3, <1>4, <1>5, <1>6 DEF IInv

LEMMA CaptureStep ==
  ASSUME IInv, Capture
  PROVE  IInv'
<1>0. /\ TypeOK /\ StreamRight /\ HostSame /\ setup \in Setups /\ Planned /\ EnableCudaGraph
      /\ UNCHANGED <<stream, intBuffer, indptr, out, plans, runs>> /\ graph' = planInfo
  BY DEF IInv, Capture, HostSame, TypeOK, PlanRight
<1>1. TypeOK'
  <2>1. /\ Len(stream') <= 2 * plans' + runs' /\ plans' \in 0 .. MaxPlans
        /\ runs' \in 0 .. MaxRuns /\ indptr' \in Lengths \cup {None}
    BY <1>0 DEF TypeOK
  <2> QED BY <1>0, <2>1, TypeStep
<1>2. PlanRight' /\ GraphRight'
  BY <1>0, HostStep DEF IInv
<1>3. StreamRight'
  BY <1>0, PlannedSame DEF StreamRight, HostSame
<1>4. OutRight'
  BY <1>0, OutSame DEF IInv
<1> QED BY <1>1, <1>2, <1>3, <1>4 DEF IInv

\* The stream executes its oldest operation: the rest is where it was.
LEMMA TailFacts ==
  ASSUME stream \in Seq(Operations), stream # <<>>, stream' = Tail(stream)
  PROVE  /\ stream' \in Seq(Operations) /\ Len(stream) \in Nat /\ Len(stream') = Len(stream) - 1
         /\ Head(stream) = stream[1] /\ stream[1] \in Operations
         /\ \A i \in 1 .. Len(stream') : stream'[i] = stream[i + 1]
OBVIOUS

\* Whatever the stream executes, the rest of the invariant stays.
LEMMA ExecutedStep ==
  ASSUME IInv, HostSame, stream # <<>>, stream' = Tail(stream),
         UNCHANGED <<graph, plans, runs>>,
         intBuffer' \in {intBuffer, pinned}, indptr' \in Lengths \cup {None}
  PROVE  /\ TypeOK' /\ PlanRight' /\ GraphRight' /\ Planned /\ stream' \in Seq(Operations')
         /\ setup' = setup /\ (Planned' <=> Planned)
         /\ stream[1] = Head(stream) /\ stream[1] \in Operations
         /\ ~setup.host_indptr => \E copies \in 0 .. 2 : Ahead(copies)
<1>0. TypeOK /\ StreamRight /\ PlanRight /\ stream \in Seq(Operations)
  BY DEF IInv, StreamRight
<1>1. Planned
  BY <1>0 DEF PlanRight
<1>2. /\ stream' \in Seq(Operations) /\ Len(stream) \in Nat /\ Len(stream') = Len(stream) - 1
      /\ Head(stream) = stream[1] /\ stream[1] \in Operations
  BY <1>0, TailFacts
<1>3. TypeOK'
  <2>1. /\ Len(stream') <= 2 * plans' + runs' /\ plans' \in 0 .. MaxPlans /\ runs' \in 0 .. MaxRuns
    BY <1>0, <1>2, SizesAssumption DEF TypeOK
  <2> QED BY <1>0, <2>1, TypeStep
<1>4. PlanRight' /\ GraphRight'
  BY <1>0, <1>1, HostStep DEF IInv
<1>5. setup' = setup /\ (Planned' <=> Planned) /\ Operations' = Operations
  BY PlannedSame DEF HostSame
<1> QED BY <1>0, <1>1, <1>2, <1>3, <1>4, <1>5, StreamParts

LEMMA CopyIndptrStep ==
  ASSUME IInv, CopyIndptr
  PROVE  IInv'
<1>0. /\ HostSame /\ stream # <<>> /\ stream' = Tail(stream)
      /\ UNCHANGED <<graph, intBuffer, out, plans, runs>>
      /\ Head(stream).op = "copy_indptr" /\ indptr' = Head(stream).lens
      /\ stream \in Seq(Operations)
  BY DEF CopyIndptr, HostSame, IInv, StreamRight
<1>1. indptr' \in Lengths
  <2>1. Head(stream) \in Operations
    BY <1>0, TailFacts
  <2> QED BY <1>0, <2>1 DEF Operations
<1>2. /\ TypeOK' /\ PlanRight' /\ GraphRight' /\ Planned /\ stream' \in Seq(Operations')
      /\ setup' = setup /\ (Planned' <=> Planned)
      /\ stream[1] = Head(stream)
      /\ ~setup.host_indptr => \E copies \in 0 .. 2 : Ahead(copies)
  BY <1>0, <1>1, ExecutedStep
<1>3. /\ Len(stream) \in Nat /\ Len(stream') = Len(stream) - 1
      /\ \A i \in 1 .. Len(stream') : stream'[i] = stream[i + 1]
  BY <1>0, TailFacts
<1>4. ASSUME NEW copies \in 0 .. 2, Ahead(copies)
      PROVE  Ahead(1)'
  <2>1. copies = 2
    <3>1. CASE copies = 0
      <4>1. 1 \in copies + 1 .. Len(stream)
        BY <1>0, <1>3, <3>1
      <4>2. stream[1].op = "run"
        BY <1>4, <4>1 DEF Ahead
      <4> QED BY <1>0, <1>2, <4>2
    <3>2. CASE copies = 1
      <4>1. stream[1].op = "copy_schedule"
        BY <1>4, <3>2 DEF Ahead
      <4> QED BY <1>0, <1>2, <4>1
    <3> QED BY <3>1, <3>2
  <2>2. /\ stream[1] = [op |-> "copy_indptr", lens |-> planned] /\ 2 <= Len(stream)
        /\ stream[2] = [op |-> "copy_schedule"]
        /\ \A i \in 3 .. Len(stream) :
             stream[i] = [op |-> "run", info |-> planInfo, wanted |-> planned]
    BY <1>4, <2>1 DEF Ahead
  <2>3. planned' = planned /\ planInfo' = planInfo /\ indptr' = planned
    BY <1>0, <1>2, <2>2 DEF HostSame
  <2>4. stream'[1] = [op |-> "copy_schedule"] /\ 1 <= Len(stream')
    BY <1>3, <2>2
  <2>5. \A i \in 2 .. Len(stream') :
          stream'[i] = [op |-> "run", info |-> planInfo, wanted |-> planned]
    <3> SUFFICES ASSUME NEW i \in 2 .. Len(stream')
                 PROVE  stream'[i] = stream[i + 1] /\ i + 1 \in 3 .. Len(stream)
      BY <2>2
    <3> QED BY <1>3
  <2> QED BY <2>3, <2>4, <2>5 DEF Ahead
<1>5. StreamRight'
  <2>1. ~setup.host_indptr => \E copies \in 0 .. 2 : Ahead(copies)'
    BY <1>2, <1>4
  <2> QED BY <1>2, <2>1 DEF StreamRight, Ahead
<1>6. OutRight'
  BY <1>0, OutSame DEF IInv
<1> QED BY <1>2, <1>5, <1>6 DEF IInv

LEMMA CopyScheduleStep ==
  ASSUME IInv, CopySchedule
  PROVE  IInv'
<1>0. /\ HostSame /\ stream # <<>> /\ stream' = Tail(stream)
      /\ UNCHANGED <<graph, indptr, out, plans, runs>>
      /\ Head(stream).op = "copy_schedule" /\ intBuffer' = pinned
      /\ stream \in Seq(Operations) /\ indptr \in Lengths \cup {None}
  BY DEF CopySchedule, HostSame, IInv, StreamRight, TypeOK
<1>2. /\ TypeOK' /\ PlanRight' /\ GraphRight' /\ Planned /\ stream' \in Seq(Operations')
      /\ setup' = setup /\ (Planned' <=> Planned)
      /\ stream[1] = Head(stream)
      /\ ~setup.host_indptr => \E copies \in 0 .. 2 : Ahead(copies)
  BY <1>0, ExecutedStep
<1>3. /\ Len(stream) \in Nat /\ Len(stream') = Len(stream) - 1
      /\ \A i \in 1 .. Len(stream') : stream'[i] = stream[i + 1]
  BY <1>0, TailFacts
<1>4. ASSUME NEW copies \in 0 .. 2, Ahead(copies)
      PROVE  Ahead(0)'
  <2>1. copies = 1
    <3>1. CASE copies = 0
      <4>1. 1 \in copies + 1 .. Len(stream)
        BY <1>0, <1>3, <3>1
      <4>2. stream[1].op = "run"
        BY <1>4, <4>1 DEF Ahead
      <4> QED BY <1>0, <1>2, <4>2
    <3>2. CASE copies = 2
      <4>1. stream[1].op = "copy_indptr"
        BY <1>4, <3>2 DEF Ahead
      <4> QED BY <1>0, <1>2, <4>1
    <3> QED BY <3>1, <3>2
  <2>2. /\ indptr = planned
        /\ \A i \in 2 .. Len(stream) :
             stream[i] = [op |-> "run", info |-> planInfo, wanted |-> planned]
    BY <1>4, <2>1 DEF Ahead
  <2>3. /\ planned' = planned /\ planInfo' = planInfo /\ pinned' = pinned
        /\ indptr' = planned /\ intBuffer' = pinned
    BY <1>0, <2>2 DEF HostSame
  <2>4. \A i \in 1 .. Len(stream') :
          stream'[i] = [op |-> "run", info |-> planInfo, wanted |-> planned]
    <3> SUFFICES ASSUME NEW i \in 1 .. Len(stream')
                 PROVE  stream'[i] = stream[i + 1] /\ i + 1 \in 2 .. Len(stream)
      BY <2>2
    <3> QED BY <1>3
  <2>5. 0 <= Len(stream')
    BY <1>0, <1>3
  <2> QED BY <2>3, <2>4, <2>5 DEF Ahead
<1>5. StreamRight'
  <2>1. ~setup.host_indptr => \E copies \in 0 .. 2 : Ahead(copies)'
    BY <1>2, <1>4
  <2> QED BY <1>2, <2>1 DEF StreamRight, Ahead
<1>6. OutRight'
  BY <1>0, OutSame DEF IInv
<1> QED BY <1>2, <1>5, <1>6 DEF IInv

\* A launch finds no copy ahead of it: both are of the last plan, as it is.
LEMMA ExecuteStep ==
  ASSUME IInv, Execute
  PROVE  IInv'
<1>0. /\ HostSame /\ stream # <<>> /\ stream' = Tail(stream)
      /\ UNCHANGED <<graph, indptr, intBuffer, plans, runs>>
      /\ Head(stream).op = "run"
      /\ out' = [wanted |-> Head(stream).wanted,
                 result |-> Launch(Head(stream).info, intBuffer, indptr)]
      /\ stream \in Seq(Operations) /\ indptr \in Lengths \cup {None}
  BY DEF Execute, HostSame, IInv, StreamRight, TypeOK
<1>2. /\ TypeOK' /\ PlanRight' /\ GraphRight' /\ Planned /\ stream' \in Seq(Operations')
      /\ setup' = setup /\ (Planned' <=> Planned)
      /\ stream[1] = Head(stream)
      /\ ~setup.host_indptr => \E copies \in 0 .. 2 : Ahead(copies)
  BY <1>0, ExecutedStep
<1>3. /\ Len(stream) \in Nat /\ Len(stream') = Len(stream) - 1
      /\ \A i \in 1 .. Len(stream') : stream'[i] = stream[i + 1]
  BY <1>0, TailFacts
<1>4. ASSUME ~setup.host_indptr
      PROVE  Ahead(0)
  <2>1. PICK copies \in 0 .. 2 : Ahead(copies)
    BY <1>2, <1>4
  <2>2. CASE copies = 1
    <3>1. stream[1].op = "copy_schedule"
      BY <2>1, <2>2 DEF Ahead
    <3> QED BY <1>0, <1>2, <3>1
  <2>3. CASE copies = 2
    <3>1. stream[1].op = "copy_indptr"
      BY <2>1, <2>3 DEF Ahead
    <3> QED BY <1>0, <1>2, <3>1
  <2> QED BY <2>1, <2>2, <2>3
<1>5. StreamRight'
  <2>1. ASSUME ~setup.host_indptr
        PROVE  Ahead(0)'
    <3>1. /\ indptr = planned /\ intBuffer = pinned
          /\ \A i \in 1 .. Len(stream) :
               stream[i] = [op |-> "run", info |-> planInfo, wanted |-> planned]
      BY <1>4, <2>1 DEF Ahead
    <3>2. /\ planned' = planned /\ planInfo' = planInfo /\ pinned' = pinned
          /\ indptr' = planned /\ intBuffer' = pinned
      BY <1>0, <3>1 DEF HostSame
    <3>3. \A i \in 1 .. Len(stream') :
            stream'[i] = [op |-> "run", info |-> planInfo, wanted |-> planned]
      <4> SUFFICES ASSUME NEW i \in 1 .. Len(stream')
                   PROVE  stream'[i] = stream[i + 1] /\ i + 1 \in 1 .. Len(stream)
        BY <3>1
      <4> QED BY <1>3
    <3>4. 0 <= Len(stream')
      BY <1>0, <1>3
    <3> QED BY <3>2, <3>3, <3>4 DEF Ahead
  <2> QED BY <1>2, <2>1 DEF StreamRight, Ahead
<1>6. OutRight'
  <2> SUFFICES ASSUME ~setup.host_indptr
               PROVE  OutRight'
    BY <1>2 DEF OutRight
  <2>1. /\ indptr = planned /\ intBuffer = pinned
        /\ \A i \in 1 .. Len(stream) :
             stream[i] = [op |-> "run", info |-> planInfo, wanted |-> planned]
    BY <1>4 DEF Ahead
  <2>2. Head(stream) = [op |-> "run", info |-> planInfo, wanted |-> planned]
    BY <1>0, <1>2, <1>3, <2>1
  <2>3. out' = [wanted |-> planned, result |-> Launch(planInfo, pinned, planned)]
    BY <1>0, <2>1, <2>2
  <2>4. planInfo = InfoOf(planned) /\ pinned = ScheduleOf(planned) /\ planned \in Lengths
    BY <1>2 DEF Planned
  <2>5. /\ out'.wanted \in Lengths
        /\ out'.result = Launch(InfoOf(out'.wanted), ScheduleOf(out'.wanted), out'.wanted)
    BY <2>3, <2>4
  <2> QED BY <1>2, <2>5, SetupConstant DEF OutRight
<1> QED BY <1>2, <1>5, <1>6 DEF IInv

LEMMA InvStep == IInv /\ [Next]_vars => IInv'
<1> SUFFICES ASSUME IInv, [Next]_vars PROVE IInv'
  OBVIOUS
<1>1. ASSUME NEW lens \in Lengths, Plan(lens) PROVE IInv'
  BY <1>1, PlanStep
<1>2. CASE Run
  <2>1. Planned
    BY <1>2 DEF Run, IInv, PlanRight
  <2> QED BY <1>2, <2>1, IssueRunStep DEF Run
<1>3. CASE Replay
  <2>1. Planned /\ graph = planInfo
    BY <1>3 DEF Replay, IInv, GraphRight
  <2> QED BY <1>3, <2>1, IssueRunStep DEF Replay
<1>4. CASE UNCHANGED vars
  <2>1. HostSame /\ UNCHANGED <<graph, stream, intBuffer, indptr, out, plans, runs>>
    BY <1>4 DEF vars, HostSame
  <2>2. TypeOK'
    <3>1. /\ Len(stream') <= 2 * plans' + runs' /\ plans' \in 0 .. MaxPlans
          /\ runs' \in 0 .. MaxRuns /\ indptr' \in Lengths \cup {None} /\ TypeOK
      BY <2>1 DEF TypeOK, IInv
    <3> QED BY <2>1, <3>1, TypeStep
  <2>3. PlanRight' /\ GraphRight'
    BY <2>1, HostStep DEF IInv
  <2>4. StreamRight'
    BY <2>1, PlannedSame DEF IInv, StreamRight, HostSame
  <2>5. OutRight'
    BY <2>1, OutSame DEF IInv
  <2> QED BY <2>2, <2>3, <2>4, <2>5 DEF IInv
<1> QED BY <1>1, <1>2, <1>3, <1>4, CaptureStep, CopyIndptrStep, CopyScheduleStep, ExecuteStep
        DEF Next, Finished

-----------------------------------------------------------------------------
\* The host's state is that of the last plan; where plan() waits for the
\* stream, every launch finds the schedule and the lengths it was issued for.
THEOREM InductiveInvariant == Spec => []IInv
BY InvInit, InvStep, PTL DEF Spec

\* The binary search of the partition returns the least chunk that fits.
THEOREM SearchIsLeastHolds == Spec => []SearchIsLeast
<1>1. IInv => SearchIsLeast
  <2> SUFFICES ASSUME IInv, planned # None, BatchSize * heads < MaxGridSize
               PROVE  pinned.chunk = Min({c \in setup.min_pages .. Max({setup.min_pages, MaxLength}) :
                                            SearchRows(planned, c) * heads <= MaxGridSize})
    BY DEF SearchIsLeast
  <2>1. Planned /\ setup \in Setups
    BY DEF IInv, PlanRight, TypeOK
  <2>2. planned \in [Requests -> 0 .. MaxLength] /\ SetupRight /\ EnableCudaGraph \in BOOLEAN
    BY <2>1, SetupFacts DEF Planned
  <2> DEFINE chunk == BinarySearch(planned)
             top == Max({setup.min_pages, MaxLength})
             fitting == {c \in setup.min_pages .. top : SearchRows(planned, c) * heads <= MaxGridSize}
  <2>3. pinned.chunk = chunk
    <3>1. pinned.chunk = WorkEstimation(planned).chunk
      BY <2>1, <2>2, ScheduleFacts DEF Planned
    <3>2. WorkEstimation(planned).chunk = chunk
      BY <2>2, WorkFacts
    <3> QED BY <3>1, <3>2
  <2>4. /\ chunk \in setup.min_pages .. top /\ ~Exceeds(SearchRows(planned, chunk))
        /\ \A c \in setup.min_pages .. chunk - 1 : Exceeds(SearchRows(planned, c))
    BY <2>2, SearchFacts
  <2> HIDE DEF chunk, top
  <2>5. \A c \in setup.min_pages .. top : SearchRows(planned, c) * heads \in Int
    <3> SUFFICES ASSUME NEW c \in setup.min_pages .. top
                 PROVE  SearchRows(planned, c) * heads \in Int
      OBVIOUS
    <3>1. c \in Nat \ {0} /\ planned \in [Requests -> Nat]
      BY <2>2, SizesAssumption DEF SetupRight
    <3>2. SearchRows(planned, c) \in Int
      BY <3>1, SearchRowsFacts
    <3> QED BY <2>2, <3>2 DEF SetupRight
  <2>6. chunk \in fitting
    BY <2>2, <2>4, <2>5 DEF Exceeds, SetupRight
  <2>7. \A c \in fitting : chunk <= c
    <3> SUFFICES ASSUME NEW c \in fitting, ~(chunk <= c) PROVE FALSE
      OBVIOUS
    <3>1. c \in setup.min_pages .. chunk - 1
      BY <2>2, <2>4 DEF SetupRight
    <3>2. SearchRows(planned, c) * heads > MaxGridSize
      BY <2>4, <3>1 DEF Exceeds
    <3> QED BY <2>2, <2>5, <3>2 DEF SetupRight
  <2>8. fitting \in SUBSET Int
    BY <2>2, <2>4 DEF SetupRight
  <2> HIDE DEF fitting
  <2>9. Min(fitting) \in fitting /\ \A c \in fitting : Min(fitting) <= c
    BY <2>6, <2>7 DEF Min
  <2>10. Min(fitting) = chunk
    <3> DEFINE least == Min(fitting)
    <3>1. least \in fitting /\ least <= chunk
      BY <2>6, <2>9
    <3> HIDE DEF least
    <3>2. chunk <= least /\ least \in Int /\ chunk \in Int
      BY <2>6, <2>7, <2>8, <3>1
    <3>3. least = chunk
      BY <3>1, <3>2
    <3> QED BY <3>3 DEF least
  <2> QED BY <2>3, <2>10 DEF fitting, top
<1> QED BY <1>1, InductiveInvariant, PTL

NoEmptyUnderGraph == \A s \in Setups : s.enable_cuda_graph => s.min_length >= 1
IndptrOnGPU == \A s \in Setups : ~s.host_indptr

\* Without empty requests under a graph, the lengths planned are what the search counts.
LEMMA NoEmptyPlanned ==
  ASSUME NoEmptyUnderGraph, setup \in Setups, NEW lens \in Lengths
  PROVE  NoEmpty(lens)
<1>1. /\ setup.min_length \in Nat /\ (EnableCudaGraph => setup.min_length >= 1)
      /\ \A r \in Requests : lens[r] \in setup.min_length .. MaxLength
  BY SetupFacts DEF NoEmptyUnderGraph, EnableCudaGraph, Lengths
<1> QED BY <1>1, SizesAssumption DEF NoEmpty

\* Where no graph is recorded for a batch with an empty request, the arrays of
\* the padded size have room for the schedule.
THEOREM ScheduleFitsHolds == NoEmptyUnderGraph => (Spec => []ScheduleFits)
<1> SUFFICES ASSUME NoEmptyUnderGraph PROVE Spec => []ScheduleFits
  OBVIOUS
<1>1. IInv => ScheduleFits
  <2> SUFFICES ASSUME IInv, planInfo # None
               PROVE  Cardinality(DOMAIN pinned.rows) <= planInfo.padded_batch_size
    BY DEF ScheduleFits
  <2>1. Planned /\ setup \in Setups
    BY DEF IInv, PlanRight, TypeOK
  <2>2. planned \in [Requests -> 0 .. MaxLength] /\ SetupRight /\ EnableCudaGraph \in BOOLEAN
        /\ NoEmpty(planned)
    BY <2>1, SetupFacts, NoEmptyPlanned DEF Planned
  <2>3. NumRows(planned, WorkEstimation(planned).chunk) <= InfoOf(planned).padded_batch_size
    BY <2>2, InfoFacts
  <2>4. Cardinality(DOMAIN ScheduleOf(planned).rows)
          = NumRows(planned, WorkEstimation(planned).chunk)
    BY <2>2, ScheduleFacts
  <2> QED BY <2>1, <2>3, <2>4 DEF Planned
<1> QED BY <1>1, InductiveInvariant, PTL

\* Where, besides, plan() reads the lengths from the GPU, every launch puts out
\* the attention over all pages of the lengths planned before it.
THEOREM OutputCorrectHolds == NoEmptyUnderGraph /\ IndptrOnGPU => (Spec => []OutputCorrect)
<1> SUFFICES ASSUME NoEmptyUnderGraph, IndptrOnGPU PROVE Spec => []OutputCorrect
  OBVIOUS
<1>1. IInv => OutputCorrect
  <2> SUFFICES ASSUME IInv, out # None, NEW r \in Requests
               PROVE  LET rows == out.result[r]
                      IN  /\ UNION {rows[i] : i \in DOMAIN rows} = {<<r, p>> : p \in 0 .. out.wanted[r] - 1}
                          /\ \A i, j \in DOMAIN rows : i # j => rows[i] \cap rows[j] = {}
    BY DEF OutputCorrect
  <2>1. setup \in Setups /\ ~setup.host_indptr
    BY DEF IInv, TypeOK, IndptrOnGPU
  <2>2. /\ out.wanted \in Lengths
        /\ out.result = Launch(InfoOf(out.wanted), ScheduleOf(out.wanted), out.wanted)
    BY <2>1 DEF IInv, OutRight
  <2>3. /\ out.wanted \in [Requests -> 0 .. MaxLength] /\ SetupRight /\ EnableCudaGraph \in BOOLEAN
        /\ NoEmpty(out.wanted)
    BY <2>1, <2>2, SetupFacts, NoEmptyPlanned
  <2> QED BY <2>2, <2>3, LaunchCorrect
<1> QED BY <1>1, InductiveInvariant, PTL
=============================================================================
