------------------------ MODULE FusionTwoShot_proofs ------------------------
(***************************************************************************)
(* Theorems about FusionTwoShot: the flags of three values suffice for any *)
(* number of ranks, blocks, flags and calls whose grids do not grow, and   *)
(* what the ranks put out is the sum of the call.                          *)
(***************************************************************************)
EXTENDS FusionTwoShot, FiniteSetTheorems, SequenceTheorems, TLAPS

-----------------------------------------------------------------------------
\* Division with remainder.
LEMMA DivFacts ==
  ASSUME NEW n \in Nat, NEW g \in Nat, g > 0
  PROVE  /\ n \div g \in Nat
         /\ (n % g) \in Nat /\ (n % g) < g
         /\ n = g * (n \div g) + (n % g)
<1>1. (n \div g) \in Int /\ (n \div g) >= 0
  OBVIOUS
<1>2. (n % g) \in 0 .. g - 1
  OBVIOUS
<1>3. n = g * (n \div g) + (n % g)
  OBVIOUS
<1> QED BY <1>1, <1>2, <1>3

LEMMA ModUnique ==
  ASSUME NEW n \in Nat, NEW g \in Nat, g > 0, NEW q \in Int, NEW m \in Nat, m < g,
         n = g * q + m
  PROVE  n % g = m
OBVIOUS

LEMMA ModSmall == ASSUME NEW n \in Nat, NEW g \in Nat, n < g PROVE n % g = n
OBVIOUS

LEMMA ModAdd == ASSUME NEW n \in Nat, NEW g \in Nat, g > 0 PROVE (n + g) % g = n % g
<1> DEFINE q == n \div g
           m == n % g
<1>1. q \in Nat /\ m \in Nat /\ m < g /\ n = g * q + m
  BY DivFacts
<1> HIDE DEF q, m
<1>2. n + g = g * (q + 1) + m /\ q + 1 \in Int
  BY <1>1
<1>3. (n + g) % g = m
  BY <1>1, <1>2, ModUnique
<1> QED BY <1>3 DEF m

LEMMA ModApart ==
  ASSUME NEW g \in Nat, g > 0, NEW m \in Nat, NEW n \in Nat, m % g = n % g, m < n
  PROVE  m + g <= n
<1> DEFINE p == m \div g
           q == n \div g
           x == m % g
<1>1. p \in Nat /\ x \in Nat /\ x < g /\ m = g * p + x
  BY DivFacts
<1>2. q \in Nat /\ n = g * q + x
  BY DivFacts
<1> HIDE DEF p, q, x
<1>3. p + 1 <= q
  <2>1. g * p < g * q /\ g * p \in Nat /\ g * q \in Nat
    BY <1>1, <1>2
  <2>2. CASE q <= p
    <3>1. g * q <= g * p
      BY <1>1, <1>2, <2>2
    <3> QED BY <2>1, <3>1
  <2> QED BY <1>1, <1>2, <2>2
<1>4. g * (p + 1) <= g * q
  BY <1>1, <1>2, <1>3
<1>5. g * (p + 1) = g * p + g
  BY <1>1
<1> QED BY <1>1, <1>2, <1>4, <1>5

-----------------------------------------------------------------------------
\* The launch.
LEMMA RankFacts == /\ NRanks \in Nat /\ NRanks > 0 /\ 0 \in BlockIds
                   /\ \A q \in Ranks : q \in Nat /\ q < NRanks
                   /\ SmCount \in Nat /\ FlagCount \in Nat /\ MaxTokens \in Nat
                   /\ \A b \in BlockIds : b \in Nat /\ b < SmCount /\ b \in FlagIds
                   /\ \A f \in FlagIds : f \in Nat /\ f < FlagCount
BY ParameterAssumption DEF Ranks, BlockIds, FlagIds

LEMMA PerRankFacts ==
  ASSUME NEW n \in 1 .. MaxTokens
  PROVE  /\ PerRank(n) \in Nat /\ Remaining(n) \in Nat /\ Remaining(n) < NRanks
         /\ n = NRanks * PerRank(n) + Remaining(n)
BY RankFacts, DivFacts DEF PerRank, Remaining

LEMMA GridFacts ==
  ASSUME NEW n \in 1 .. MaxTokens
  PROVE  GridDim(n) \in Nat /\ GridDim(n) > 0 /\ GridDim(n) <= SmCount
<1>1. CASE PerRank(n) = 0
  <2>1. NRanks * PerRank(n) = 0
    BY <1>1, RankFacts
  <2> QED BY <1>1, <2>1, PerRankFacts, ParameterAssumption DEF GridDim
<1>2. CASE PerRank(n) # 0
  <2>1. PerRank(n) \in Nat /\ PerRank(n) > 0
    BY <1>2, PerRankFacts
  <2> QED BY <2>1, RankFacts, ParameterAssumption DEF GridDim
<1> QED BY <1>1, <1>2

\* A part begins where the one before it ends, and the last one ends with the
\* last token.
LEMMA PartFacts ==
  ASSUME NEW n \in 1 .. MaxTokens, NEW q \in Ranks
  PROVE  /\ BeginToken(n, q) \in Nat /\ BeginToken(n, q + 1) <= n
         /\ BeginToken(n, q + 1) = BeginToken(n, q) + PerRank(n)
                                     + (IF Remaining(n) > q THEN 1 ELSE 0)
<1> DEFINE p == PerRank(n)
           m == Remaining(n)
<1>1. p \in Nat /\ m \in Nat /\ m < NRanks /\ n = NRanks * p + m
  BY PerRankFacts
<1>2. q \in Nat /\ q + 1 <= NRanks /\ NRanks \in Nat
  BY RankFacts
<1> HIDE DEF p, m
<1>3. (q + 1) * p = q * p + p /\ q * p \in Nat
  BY <1>1, <1>2
<1>4. (q + 1) * p <= NRanks * p
  BY <1>1, <1>2
<1>5. /\ BeginToken(n, q) = q * p + (IF m > q THEN q ELSE m)
      /\ BeginToken(n, q + 1) = (q + 1) * p + (IF m > q + 1 THEN q + 1 ELSE m)
  BY DEF BeginToken, p, m
<1>6. NRanks * p \in Nat
  BY <1>1, <1>2
<1>7. BeginToken(n, q) \in Nat
  BY <1>1, <1>2, <1>3, <1>5
<1>8. BeginToken(n, q + 1) <= n
  BY <1>1, <1>2, <1>3, <1>4, <1>5, <1>6
<1>9. BeginToken(n, q + 1) = BeginToken(n, q) + p + (IF m > q THEN 1 ELSE 0)
  BY <1>1, <1>2, <1>3, <1>5
<1> QED BY <1>7, <1>8, <1>9 DEF p, m

LEMMA PartIs ==
  ASSUME NEW n \in 1 .. MaxTokens, NEW q \in Ranks
  PROVE  Part(n, q) = {t \in Tokens : BeginToken(n, q) <= t /\ t < BeginToken(n, q + 1)}
<1>1. BeginToken(n, q) + PerRank(n) + (IF Remaining(n) > q THEN 1 ELSE 0)
        = BeginToken(n, q + 1)
  BY PartFacts
<1> QED BY <1>1 DEF Part

LEMMA BeginMonotone ==
  ASSUME NEW n \in 1 .. MaxTokens, NEW q \in Ranks, NEW s \in Ranks, q < s
  PROVE  BeginToken(n, q + 1) <= BeginToken(n, s)
<1> DEFINE p == PerRank(n)
           m == Remaining(n)
<1>1. p \in Nat /\ m \in Nat
  BY PerRankFacts
<1>2. q \in Nat /\ s \in Nat /\ q + 1 <= s
  BY RankFacts
<1> HIDE DEF p, m
<1>3. (q + 1) * p <= s * p /\ (q + 1) * p \in Nat /\ s * p \in Nat
  BY <1>1, <1>2
<1>4. /\ BeginToken(n, s) = s * p + (IF m > s THEN s ELSE m)
      /\ BeginToken(n, q + 1) = (q + 1) * p + (IF m > q + 1 THEN q + 1 ELSE m)
  BY DEF BeginToken, p, m
<1> QED BY <1>1, <1>2, <1>3, <1>4

\* Every token of the call is some rank's.
LEMMA PartsCover ==
  ASSUME NEW n \in 1 .. MaxTokens, NEW t \in 0 .. n - 1
  PROVE  \E q \in Ranks : t \in Part(n, q)
<1> DEFINE p == PerRank(n)
           m == Remaining(n)
<1>1. p \in Nat /\ m \in Nat /\ m < NRanks /\ n = NRanks * p + m /\ NRanks \in Nat
  BY PerRankFacts, RankFacts
<1>2. t \in Nat /\ t < n /\ t \in Tokens
  BY ParameterAssumption DEF Tokens
<1> HIDE DEF p, m
<1>3. \A q \in Nat : /\ BeginToken(n, q) = q * p + (IF m > q THEN q ELSE m)
                     /\ q < NRanks => q \in Ranks
  BY ParameterAssumption DEF BeginToken, Ranks, p, m
<1>4. m * (p + 1) \in Nat /\ m * (p + 1) = m * p + m /\ m * p \in Nat
  BY <1>1
<1>5. CASE t < m * (p + 1)
  <2> DEFINE q == t \div (p + 1)
             x == t % (p + 1)
  <2>1. q \in Nat /\ x \in Nat /\ x < p + 1 /\ t = (p + 1) * q + x
    BY <1>1, <1>2, DivFacts
  <2> HIDE DEF q, x
  <2>2. q < m
    <3>1. CASE m <= q
      <4>1. (p + 1) * m <= (p + 1) * q
        BY <1>1, <2>1, <3>1
      <4>2. (p + 1) * m = m * (p + 1) /\ (p + 1) * q \in Nat
        BY <1>1, <2>1
      <4> QED BY <1>4, <1>5, <2>1, <4>1, <4>2
    <3> QED BY <1>1, <2>1, <3>1
  <2>3. q \in Ranks
    BY <1>1, <1>3, <2>1, <2>2
  <2>4. (p + 1) * q = q * p + q /\ q * p \in Nat
    BY <1>1, <2>1
  <2>5. BeginToken(n, q) = q * p + q
    BY <1>3, <2>1, <2>2
  <2>6. BeginToken(n, q) <= t /\ t < BeginToken(n, q) + p + 1
    BY <1>1, <2>1, <2>4, <2>5
  <2>7. m > q
    BY <1>1, <2>1, <2>2
  <2> QED BY <1>2, <2>3, <2>6, <2>7 DEF Part, p, m
<1>6. CASE t >= m * (p + 1)
  <2>1. p > 0
    <3>1. CASE p = 0
      <4>1. NRanks * p = 0 /\ m * p = 0
        BY <1>1, <3>1
      <4> QED BY <1>1, <1>2, <1>4, <1>6, <4>1
    <3> QED BY <1>1, <3>1
  <2> DEFINE u == t - m * (p + 1)
             k == u \div p
             x == u % p
             q == m + k
  <2>2. u \in Nat /\ t = u + m * (p + 1)
    BY <1>2, <1>4, <1>6
  <2> HIDE DEF u
  <2>3. k \in Nat /\ x \in Nat /\ x < p /\ u = p * k + x
    BY <1>1, <2>1, <2>2, DivFacts
  <2> HIDE DEF k, x
  <2>4. q \in Nat /\ q * p = m * p + p * k /\ p * k \in Nat
    BY <1>1, <2>3
  <2> HIDE DEF q
  <2>5. t = q * p + m + x
    BY <1>1, <1>4, <2>2, <2>3, <2>4
  <2>6. q < NRanks
    <3>1. CASE NRanks <= q
      <4>1. NRanks * p <= q * p /\ q * p \in Nat /\ NRanks * p \in Nat
        BY <1>1, <2>4, <3>1
      <4> QED BY <1>1, <1>2, <2>3, <2>5, <4>1
    <3> QED BY <1>1, <2>4, <3>1
  <2>7. q >= m
    BY <1>1, <2>3 DEF q
  <2>8. BeginToken(n, q) = q * p + m
    BY <1>1, <1>3, <2>4, <2>7
  <2>9. BeginToken(n, q) <= t /\ t < BeginToken(n, q) + p + 0
    BY <1>1, <2>3, <2>4, <2>5, <2>8
  <2>10. ~(m > q) /\ q \in Ranks
    BY <1>1, <1>3, <2>4, <2>6, <2>7
  <2> QED BY <1>2, <2>9, <2>10 DEF Part, p, m
<1> QED BY <1>2, <1>4, <1>5, <1>6

\* The tokens of a call are dealt to the blocks of the ranks.
LEMMA TokenFacts ==
  ASSUME NEW n \in 1 .. MaxTokens
  PROVE  /\ \A q \in Ranks, b \in BlockIds : TokensOf(n, q, b) \subseteq 0 .. n - 1
         /\ \A t \in 0 .. n - 1 :
              \E q \in Ranks, b \in BlockIds : b < GridDim(n) /\ t \in TokensOf(n, q, b)
<1>1. ASSUME NEW q \in Ranks, NEW b \in BlockIds, NEW t \in TokensOf(n, q, b)
      PROVE  t \in 0 .. n - 1
  <2>1. t \in Tokens /\ BeginToken(n, q) <= t /\ t < BeginToken(n, q + 1)
    BY PartIs DEF TokensOf
  <2>2. BeginToken(n, q) \in Nat /\ BeginToken(n, q + 1) \in Nat /\ BeginToken(n, q + 1) <= n
    BY PartFacts, PerRankFacts
  <2> QED BY <2>1, <2>2 DEF Tokens
<1>2. ASSUME NEW t \in 0 .. n - 1
      PROVE  \E q \in Ranks, b \in BlockIds : b < GridDim(n) /\ t \in TokensOf(n, q, b)
  <2>1. PICK q \in Ranks : t \in Part(n, q)
    BY PartsCover
  <2>2. t - BeginToken(n, q) \in Nat
    <3>1. BeginToken(n, q) <= t
      BY <2>1 DEF Part
    <3> QED BY <3>1, PartFacts
  <2> DEFINE b == (t - BeginToken(n, q)) % GridDim(n)
  <2>3. b \in Nat /\ b < GridDim(n)
    BY <2>2, GridFacts, DivFacts
  <2>4. b \in BlockIds
    BY <2>3, GridFacts, RankFacts DEF BlockIds
  <2>5. t \in TokensOf(n, q, b)
    BY <2>1 DEF TokensOf
  <2> HIDE DEF b
  <2> QED BY <2>3, <2>4, <2>5
<1> QED BY <1>1, <1>2

LEMMA TokensApart ==
  ASSUME NEW n \in 1 .. MaxTokens, NEW q \in Ranks, NEW s \in Ranks, NEW b, NEW d,
         NEW t, t \in TokensOf(n, q, b), t \in TokensOf(n, s, d)
  PROVE  q = s /\ b = d
<1>1. /\ t \in Tokens
      /\ BeginToken(n, q) <= t /\ t < BeginToken(n, q + 1)
      /\ BeginToken(n, s) <= t /\ t < BeginToken(n, s + 1)
  BY PartIs DEF TokensOf
<1>2. /\ BeginToken(n, q) \in Nat /\ BeginToken(n, q + 1) \in Nat
      /\ BeginToken(n, s) \in Nat /\ BeginToken(n, s + 1) \in Nat /\ t \in Nat
  BY <1>1, PartFacts, PerRankFacts DEF Tokens
<1>3. ~(q < s)
  BY <1>1, <1>2, BeginMonotone
<1>4. ~(s < q)
  BY <1>1, <1>2, BeginMonotone
<1>5. q = s
  BY <1>3, <1>4, RankFacts
<1> QED BY <1>5 DEF TokensOf

LEMMA MineFacts ==
  ASSUME NEW n \in 1 .. MaxTokens, NEW b \in BlockIds
  PROVE  /\ Mine(n, b) \subseteq 0 .. n - 1
         /\ \A q \in Ranks : TokensOf(n, q, b) \subseteq Mine(n, b)
         /\ \A t \in Mine(n, b) : \E q \in Ranks : t \in TokensOf(n, q, b)
         /\ \A d : d # b => \A t \in Mine(n, d) : t \notin Mine(n, b)
<1>1. \A t \in Mine(n, b) : \E q \in Ranks : t \in TokensOf(n, q, b)
  BY DEF Mine
<1>2. \A q \in Ranks : TokensOf(n, q, b) \subseteq Mine(n, b)
  BY DEF Mine
<1>3. Mine(n, b) \subseteq 0 .. n - 1
  BY <1>1, TokenFacts
<1>4. ASSUME NEW d, NEW t, t \in Mine(n, d), t \in Mine(n, b)
      PROVE  d = b
  <2>1. PICK q \in Ranks : t \in TokensOf(n, q, b)
    BY <1>4 DEF Mine
  <2>2. PICK s \in Ranks : t \in TokensOf(n, s, d)
    BY <1>4 DEF Mine
  <2> QED BY <2>1, <2>2, TokensApart
<1> QED BY <1>1, <1>2, <1>3, <1>4

-----------------------------------------------------------------------------
\* The state of one rank.
BlocksOk(r) ==
  /\ Busy(r) => /\ call[r] < Len(program)
                /\ \A b \in BlockIds : pc[r][b] = "off" <=> b >= Grid(r)
  /\ ~Busy(r) => \A b \in BlockIds : pc[r][b] = "off"
  /\ \A b \in BlockIds : pc[r][b] = "update" => b = 0
  /\ pc[r][0] = "done" => counter[r] = 0 /\ \A b \in BlockIds : pc[r][b] # "start"
  /\ pc[r][0] # "done" =>
       counter[r] = Cardinality({b \in BlockIds : pc[r][b] \notin {"off", "start"}})
  /\ flag[r] = (2 * call[r] + (IF pc[r][0] = "done" THEN 2 ELSE 0)) % 3

LEMMA BlocksEach == BlocksRight <=> \A r \in Ranks : BlocksOk(r)
BY DEF BlocksRight, BlocksOk

Pcs == {"off", "start", "sync1", "sync2", "update", "done"}

LEMMA TypeFacts ==
  ASSUME TypeOK, NEW r \in Ranks
  PROVE  /\ Len(program) \in Nat
         /\ call[r] \in Nat /\ call[r] <= Len(program)
         /\ call[r] < Len(program) => NumTokens(r) \in 1 .. MaxTokens
         /\ call[r] > 0 => program[call[r]] \in 1 .. MaxTokens
         /\ flag[r] \in 0 .. 2 /\ counter[r] \in Nat
         /\ \A b \in BlockIds : pc[r][b] \in Pcs /\ value[r][b] \in 0 .. 2
         /\ \A b \in BlockIds, t \in Ranks : next[r][b][t] \in Int
<1>1. program \in Seq(1 .. MaxTokens)
  BY ParameterAssumption DEF TypeOK
<1>2. call[r] \in Nat /\ call[r] <= Len(program) /\ Len(program) \in Nat
  BY <1>1 DEF TypeOK
<1>3. \A i \in 1 .. Len(program) : program[i] \in 1 .. MaxTokens
  BY <1>1, ElementOfSeq
<1>4. /\ call[r] < Len(program) => NumTokens(r) \in 1 .. MaxTokens
      /\ call[r] > 0 => program[call[r]] \in 1 .. MaxTokens
  BY <1>2, <1>3 DEF NumTokens
<1>5. flag[r] \in 0 .. 2 /\ counter[r] \in Nat
  BY RankFacts DEF TypeOK
<1>6. \A b \in BlockIds : pc[r][b] \in Pcs /\ value[r][b] \in 0 .. 2
  BY DEF TypeOK, Pcs
<1>7. \A b \in BlockIds, t \in Ranks : next[r][b][t] \in Int
  <2> TAKE b \in BlockIds, t \in Ranks
  <2>1. next[r][b][t] \in {Waited, NoStores} \cup 0 .. FlagCount + SmCount
    BY DEF TypeOK
  <2> QED BY <2>1, RankFacts DEF Waited, NoStores
<1> QED BY <1>2, <1>4, <1>5, <1>6, <1>7

\* While a rank is in a call, its blocks are those of the grid, and block
\* f % gridDim.x stores flag f.
LEMMA BusyFacts ==
  ASSUME TypeOK, NEW r \in Ranks, BlocksOk(r), Busy(r)
  PROVE  /\ call[r] < Len(program) /\ NumTokens(r) \in 1 .. MaxTokens
         /\ Grid(r) \in Nat /\ Grid(r) > 0 /\ Grid(r) <= SmCount
         /\ \A f \in FlagIds : /\ (f % Grid(r)) \in BlockIds /\ (f % Grid(r)) < Grid(r)
                               /\ (f % Grid(r)) <= f
         /\ \A b \in BlockIds : b < Grid(r) => b % Grid(r) = b
         /\ \A b \in BlockIds : pc[r][b] # "off" <=> b < Grid(r)
<1>1. call[r] < Len(program) /\ NumTokens(r) \in 1 .. MaxTokens
  BY TypeFacts DEF BlocksOk
<1>2. Grid(r) \in Nat /\ Grid(r) > 0 /\ Grid(r) <= SmCount
  BY <1>1, GridFacts DEF Grid
<1> DEFINE g == Grid(r)
<1>3. g \in Nat /\ g > 0 /\ g <= SmCount
  BY <1>2
<1> HIDE DEF g
<1>4. ASSUME NEW f \in FlagIds
      PROVE  (f % g) \in BlockIds /\ (f % g) < g /\ (f % g) <= f
  <2>1. f \in Nat /\ SmCount \in Nat
    BY RankFacts
  <2>2. (f % g) \in Nat /\ (f % g) < g
    BY <1>3, <2>1, DivFacts
  <2>3. f < g => f % g = f
    BY <1>3, <2>1, ModSmall
  <2> QED BY <1>3, <2>1, <2>2, <2>3 DEF BlockIds
<1>5. \A b \in BlockIds : b < g => b % g = b
  BY <1>3, RankFacts, ModSmall
<1>6. \A b \in BlockIds : pc[r][b] # "off" <=> b < g
  BY <1>3, RankFacts DEF BlocksOk, g
<1> QED BY <1>1, <1>2, <1>4, <1>5, <1>6 DEF g

LEMMA StoredFacts ==
  ASSUME TypeOK, NEW r \in Ranks, BlocksOk(r), NEW f \in FlagIds, NEW t \in Ranks
  PROVE  /\ Stored(r, f, t) \in Nat /\ Entered(r, f) \in Nat /\ call[r] \in Nat
         /\ 2 * call[r] <= Stored(r, f, t) /\ Stored(r, f, t) <= 2 * call[r] + 2
         /\ 2 * call[r] <= Entered(r, f) /\ Entered(r, f) <= 2 * call[r] + 2
         /\ ~Busy(r) => Stored(r, f, t) = 2 * call[r]
<1>1. call[r] \in Nat
  BY TypeFacts
<1>2. \A b \in BlockIds : StoredIn(r, b, f, t) \in 0 .. 2
  BY DEF StoredIn
<1>3. Busy(r) => (f % Grid(r)) \in BlockIds
  BY BusyFacts
<1>4. Entered(r, f) \in 2 * call[r] .. 2 * call[r] + 2
  BY <1>1 DEF Entered
<1> QED BY <1>1, <1>2, <1>3, <1>4 DEF Stored

\* A running block stores the flags with its own index.
LEMMA OwnFlag ==
  ASSUME TypeOK, NEW r \in Ranks, BlocksOk(r), NEW b \in BlockIds, NEW t \in Ranks,
         pc[r][b] # "off"
  PROVE  /\ Busy(r) /\ b < Grid(r)
         /\ Stored(r, b, t) = 2 * call[r] + StoredIn(r, b, b, t)
         /\ pc[r][b] = "start" => Stored(r, b, t) = 2 * call[r]
         /\ pc[r][b] = "sync1" => /\ Entered(r, b) = 2 * call[r] + 1
                                  /\ Stored(r, b, t) <= 2 * call[r] + 1
         /\ pc[r][b] = "sync2" => /\ Entered(r, b) = 2 * call[r] + 2
                                  /\ Stored(r, b, t) >= 2 * call[r] + 1
         /\ pc[r][b] \in {"update", "done"} => /\ Entered(r, b) = 2 * call[r] + 2
                                               /\ Stored(r, b, t) = 2 * call[r] + 2
         /\ Stored(r, b, t) >= 2 * call[r] + 1 => pc[r][b] # "start"
         /\ Stored(r, b, t) >= 2 * call[r] + 2 => pc[r][b] \in {"sync2", "update", "done"}
         /\ Stored(r, b, t) <= Entered(r, b)
<1>1. Busy(r)
  BY DEF BlocksOk
<1>2. b < Grid(r) /\ b % Grid(r) = b /\ call[r] \in Nat
  BY <1>1, BusyFacts, TypeFacts
<1>3. Stored(r, b, t) = 2 * call[r] + StoredIn(r, b, b, t)
  BY <1>1, <1>2 DEF Stored
<1>4. pc[r][b] \in Pcs
  BY TypeFacts
<1>5. CASE pc[r][b] = "start"
  BY <1>1, <1>2, <1>3, <1>5 DEF StoredIn, InBarrier, Entered
<1>6. CASE pc[r][b] = "sync1"
  BY <1>1, <1>2, <1>3, <1>6 DEF StoredIn, InBarrier, Entered
<1>7. CASE pc[r][b] = "sync2"
  BY <1>1, <1>2, <1>3, <1>7 DEF StoredIn, InBarrier, Entered
<1>8. CASE pc[r][b] \in {"update", "done"}
  BY <1>1, <1>2, <1>3, <1>8 DEF StoredIn, InBarrier, Entered
<1> QED BY <1>4, <1>5, <1>6, <1>7, <1>8 DEF Pcs


-----------------------------------------------------------------------------
\* What one rank's progress says about the others.

\* A grid never grows from one call to a later one.
NonGrowing ==
  \A p \in Programs : \A i, j \in DOMAIN p : i <= j => GridDim(p[j]) <= GridDim(p[i])

\* A rank that is ahead of a running block is in the next call, and the block
\* has stored the flags of its second barrier.
LEMMA Ahead ==
  ASSUME TypeOK, BlocksRight, MetLast, NEW s \in Ranks, NEW r \in Ranks,
         NEW b \in BlockIds, pc[s][b] # "off", call[r] > call[s]
  PROVE  /\ call[r] = call[s] + 1
         /\ pc[s][b] \in {"sync2", "update", "done"}
         /\ Stored(s, b, r) = 2 * call[s] + 2
<1>1. BlocksOk(s) /\ call[r] \in Nat /\ call[s] \in Nat
  BY BlocksEach, TypeFacts
<1>2. call[r] = call[s] + 1
  <2>1. program[call[r]] \in 1 .. MaxTokens
    BY <1>1, TypeFacts
  <2>2. 0 \in 0 .. GridDim(program[call[r]]) - 1
    BY <2>1, GridFacts
  <2>3. Stored(s, 0, r) >= 2 * call[r]
    BY <1>1, <2>2 DEF MetLast
  <2>4. Stored(s, 0, r) <= 2 * call[s] + 2 /\ Stored(s, 0, r) \in Nat
    BY <1>1, RankFacts, StoredFacts
  <2> QED BY <1>1, <2>3, <2>4
<1>3. GridDim(program[call[r]]) = Grid(s)
  BY <1>2 DEF Grid, NumTokens
<1>4. b \in 0 .. Grid(s) - 1
  BY <1>1, OwnFlag, BusyFacts, RankFacts
<1>5. Stored(s, b, r) >= 2 * call[s] + 2
  <2>1. b \in 0 .. GridDim(program[call[r]]) - 1 /\ call[r] > 0
    BY <1>1, <1>2, <1>3, <1>4
  <2>2. Stored(s, b, r) >= 2 * call[r]
    BY <2>1 DEF MetLast
  <2> QED BY <1>1, <1>2, <2>2
<1>6. Stored(s, b, r) <= 2 * call[s] + 2 /\ Stored(s, b, r) \in Nat
  BY <1>1, RankFacts, StoredFacts
<1>7. pc[s][b] \in {"sync2", "update", "done"}
  BY <1>1, <1>5, OwnFlag
<1> QED BY <1>1, <1>2, <1>5, <1>6, <1>7

\* A flag is at most one barrier ahead of the block that waits at it, and no
\* barrier behind the one before: the value that the wait rejects means exactly
\* that the peer has not stored the flag of this barrier.
LEMMA FlagAtMostOneAhead ==
  ASSUME TypeOK, BlocksRight, MetLast, MetHere, NEW r \in Ranks, NEW t \in Ranks,
         NEW b \in BlockIds, InBarrier(r, b)
  PROVE  Stored(t, b, r) <= Entered(r, b) + 1
<1>1. /\ BlocksOk(r) /\ BlocksOk(t) /\ pc[r][b] # "off" /\ b \in FlagIds
      /\ call[r] \in Nat /\ call[t] \in Nat
  BY BlocksEach, TypeFacts, RankFacts DEF InBarrier
<1>2. /\ Entered(r, b) \in Nat /\ Entered(r, b) >= 2 * call[r] + 1
      /\ Stored(t, b, r) \in Nat /\ Stored(t, b, r) <= 2 * call[t] + 2
  BY <1>1, StoredFacts, OwnFlag DEF InBarrier
<1>3. CASE call[t] <= call[r]
  BY <1>1, <1>2, <1>3
<1>4. CASE call[t] > call[r]
  <2>1. /\ call[t] = call[r] + 1 /\ pc[r][b] = "sync2" /\ Entered(r, b) = 2 * call[r] + 2
    BY <1>1, <1>4, Ahead, OwnFlag DEF InBarrier
  <2>2. CASE Stored(t, b, r) >= 2 * call[t] + 2
    <3>1. Busy(t)
      BY <1>1, <2>2, StoredFacts
    <3>2. PICK o \in BlockIds : o = b % Grid(t) /\ o < Grid(t)
      BY <1>1, <3>1, BusyFacts
    <3>3. StoredIn(t, o, b, r) >= 2
      BY <1>1, <2>2, <3>1, <3>2 DEF Stored, StoredIn
    <3>4. pc[t][o] \in {"sync2", "update", "done"}
      BY <3>3 DEF StoredIn, InBarrier
    <3>5. Stored(r, o, t) >= 2 * call[t] + 1
      <4>1. CASE pc[t][o] = "sync2"
        BY <4>1 DEF MetHere
      <4>2. CASE pc[t][o] \in {"update", "done"}
        <5>1. Stored(r, o, t) >= Entered(t, o)
          BY <4>2 DEF MetHere
        <5>2. Entered(t, o) = 2 * call[t] + 2
          BY <4>2 DEF Entered
        <5>3. Stored(r, o, t) \in Nat
          BY <1>1, RankFacts, StoredFacts
        <5> QED BY <1>1, <5>1, <5>2, <5>3
      <4> QED BY <3>4, <4>1, <4>2
    <3>6. Stored(r, o, t) <= 2 * call[r] + 2 /\ Stored(r, o, t) \in Nat
      BY <1>1, RankFacts, StoredFacts
    <3> QED BY <1>1, <2>1, <3>5, <3>6
  <2> QED BY <1>1, <1>2, <2>1, <2>2
<1> QED BY <1>1, <1>3, <1>4

LEMMA FlagAtMostOneBehind ==
  ASSUME NonGrowing, TypeOK, BlocksRight, MetLast, MetHere, NEW r \in Ranks,
         NEW t \in Ranks, NEW b \in BlockIds, InBarrier(r, b)
  PROVE  Entered(r, b) <= Stored(t, b, r) + 1
<1>1. /\ BlocksOk(r) /\ BlocksOk(t) /\ pc[r][b] # "off" /\ b \in FlagIds
      /\ call[r] \in Nat /\ Stored(t, b, r) \in Nat
  BY BlocksEach, TypeFacts, RankFacts, StoredFacts DEF InBarrier
<1>2. CASE pc[r][b] = "sync1"
  <2>1. Entered(r, b) = 2 * call[r] + 1
    BY <1>1, <1>2, OwnFlag
  <2>2. Stored(t, b, r) >= 2 * call[r]
    <3>1. CASE call[r] = 0
      BY <1>1, <3>1
    <3>2. CASE call[r] > 0
      <4>1. /\ b < Grid(r) /\ Grid(r) \in Nat /\ call[r] < Len(program)
            /\ program \in Programs /\ program \in Seq(1 .. MaxTokens)
        BY <1>1, OwnFlag, BusyFacts, ParameterAssumption DEF TypeOK
      <4>2. call[r] \in DOMAIN program /\ call[r] + 1 \in DOMAIN program
        BY <1>1, <3>2, <4>1
      <4>3. Grid(r) <= GridDim(program[call[r]])
        BY <1>1, <4>1, <4>2 DEF NonGrowing, Grid, NumTokens
      <4>4. GridDim(program[call[r]]) \in Nat
        BY <3>2, TypeFacts, GridFacts
      <4>5. b \in 0 .. GridDim(program[call[r]]) - 1
        BY <4>1, <4>3, <4>4, RankFacts
      <4> QED BY <3>2, <4>5 DEF MetLast
    <3> QED BY <1>1, <3>1, <3>2
  <2> QED BY <1>1, <2>1, <2>2
<1>3. CASE pc[r][b] = "sync2"
  <2>1. Entered(r, b) = 2 * call[r] + 2
    BY <1>1, <1>3, OwnFlag
  <2>2. Stored(t, b, r) >= 2 * call[r] + 1
    BY <1>3 DEF MetHere
  <2> QED BY <1>1, <2>1, <2>2
<1> QED BY <1>2, <1>3 DEF InBarrier

LEMMA WaitMeets ==
  ASSUME NonGrowing, TypeOK, BlocksRight, FlagsRight, MetLast, MetHere, NEW r \in Ranks,
         NEW b \in BlockIds, NEW t \in Ranks, WaitFlag(r, b, t)
  PROVE  InBarrier(r, b) /\ Stored(t, b, r) >= Entered(r, b)
<1>1. /\ BlocksOk(r) /\ BlocksOk(t) /\ b \in FlagIds
      /\ FlagCount \in Nat
  BY BlocksEach, RankFacts
<1>2. InBarrier(r, b)
  BY <1>1 DEF WaitFlag, FlagsRight, NoStores
<1>3. /\ Entered(r, b) \in Nat /\ Stored(t, b, r) \in Nat
      /\ Stored(t, b, r) <= Entered(r, b) + 1 /\ Entered(r, b) <= Stored(t, b, r) + 1
  BY <1>1, <1>2, StoredFacts, FlagAtMostOneAhead, FlagAtMostOneBehind
<1>4. /\ value[r][b] = Entered(r, b) % 3
      /\ barrier_flags[r][b][t] = Stored(t, b, r) % 3
  BY <1>1, <1>2 DEF FlagsRight, InBarrier
<1>5. barrier_flags[r][b][t] # PrevFlag(value[r][b])
  BY DEF WaitFlag
<1>6. CASE Entered(r, b) = Stored(t, b, r) + 1
  <2>1. PrevFlag(Entered(r, b) % 3) = Stored(t, b, r) % 3
    BY <1>3, <1>6 DEF PrevFlag
  <2> QED BY <1>4, <1>5, <2>1
<1> QED BY <1>2, <1>3, <1>6

\* When a block reduces, every rank's block is between the two barriers of the
\* same call.
LEMMA ReduceTogether ==
  ASSUME TypeOK, BlocksRight, FlagsRight, MetLast, MetHere, NEW s \in Ranks,
         NEW b \in BlockIds, pc[s][b] = "sync1", Through(s, b), NEW r \in Ranks
  PROVE  call[r] = call[s] /\ pc[r][b] \in {"sync1", "sync2"}
<1>1. /\ BlocksOk(r) /\ BlocksOk(s) /\ b \in FlagIds
      /\ call[r] \in Nat /\ call[s] \in Nat /\ Stored(r, b, s) \in Nat
  BY BlocksEach, TypeFacts, RankFacts, StoredFacts
<1>2. Stored(r, b, s) >= 2 * call[s] + 1
  <2>1. Stored(r, b, s) >= Entered(s, b)
    BY DEF MetHere, Through
  <2> QED BY <1>1, <2>1, OwnFlag
<1>3. ~(call[r] > call[s])
  BY <1>1, Ahead
<1>4. call[r] = call[s] /\ Busy(r)
  BY <1>1, <1>2, <1>3, StoredFacts
<1>5. pc[r][b] # "off"
  <2>1. Grid(r) = Grid(s)
    BY <1>4 DEF Grid, NumTokens
  <2> QED BY <1>1, <1>4, <2>1, OwnFlag, BusyFacts
<1>6. pc[r][b] # "start"
  BY <1>1, <1>2, <1>4, <1>5, OwnFlag
<1>7. pc[r][b] \notin {"update", "done"}
  <2>1. CASE pc[r][b] \in {"update", "done"}
    <3>1. Stored(s, b, r) >= 2 * call[r] + 2
      <4>1. Stored(s, b, r) >= Entered(r, b)
        BY <2>1 DEF MetHere
      <4> QED BY <1>1, <1>5, <2>1, <4>1, OwnFlag
    <3>2. Stored(s, b, r) <= 2 * call[s] + 1 /\ Stored(s, b, r) \in Nat
      BY <1>1, StoredFacts, OwnFlag
    <3> QED BY <1>1, <1>4, <3>1, <3>2
  <2> QED BY <2>1
<1>8. pc[r][b] \in Pcs
  BY TypeFacts
<1> QED BY <1>4, <1>5, <1>6, <1>7, <1>8 DEF Pcs

\* Nobody has reduced what a block has not yet copied.
LEMMA NotReduced ==
  ASSUME TypeOK, BlocksRight, MetLast, MetHere, NEW r \in Ranks, NEW s \in Ranks,
         NEW b \in BlockIds, pc[r][b] = "start"
  PROVE  ~Reduced(s, b, call[r])
<1>1. /\ BlocksOk(r) /\ BlocksOk(s) /\ b \in FlagIds
      /\ call[r] \in Nat /\ call[s] \in Nat
  BY BlocksEach, TypeFacts, RankFacts
<1>2. ~(call[s] > call[r])
  BY <1>1, Ahead
<1>3. CASE call[s] = call[r] /\ pc[s][b] \in {"sync2", "update", "done"}
  <2>1. Stored(r, b, s) = 2 * call[r]
    BY <1>1, OwnFlag
  <2>2. Stored(r, b, s) >= 2 * call[s] + 1
    <3>1. CASE pc[s][b] = "sync2"
      BY <3>1 DEF MetHere
    <3>2. CASE pc[s][b] \in {"update", "done"}
      <4>1. Stored(r, b, s) >= Entered(s, b)
        BY <3>2 DEF MetHere
      <4> QED BY <1>1, <2>1, <3>2, <4>1, OwnFlag
    <3> QED BY <1>3, <3>1, <3>2
  <2> QED BY <1>1, <1>3, <2>1, <2>2
<1> QED BY <1>2, <1>3 DEF Reduced

\* Everybody has reduced what a block puts out.
LEMMA ReducedByAll ==
  ASSUME TypeOK, BlocksRight, MetHere, NEW r \in Ranks, NEW s \in Ranks,
         NEW b \in BlockIds, pc[r][b] = "sync2", Through(r, b)
  PROVE  Reduced(s, b, call[r])
<1>1. /\ BlocksOk(r) /\ BlocksOk(s) /\ b \in FlagIds
      /\ call[r] \in Nat /\ call[s] \in Nat /\ Stored(s, b, r) \in Nat
  BY BlocksEach, TypeFacts, RankFacts, StoredFacts
<1>2. Stored(s, b, r) >= 2 * call[r] + 2
  <2>1. Stored(s, b, r) >= Entered(r, b)
    BY DEF MetHere, Through
  <2> QED BY <1>1, <2>1, OwnFlag
<1>3. CASE call[s] > call[r]
  BY <1>3 DEF Reduced
<1>4. CASE ~(call[s] > call[r])
  <2>1. call[s] = call[r] /\ Busy(s)
    BY <1>1, <1>2, <1>4, StoredFacts
  <2>2. pc[s][b] # "off"
    <3>1. Grid(r) = Grid(s)
      BY <2>1 DEF Grid, NumTokens
    <3> QED BY <1>1, <2>1, <3>1, OwnFlag, BusyFacts
  <2> QED BY <1>1, <1>2, <2>1, <2>2, OwnFlag DEF Reduced
<1> QED BY <1>3, <1>4

-----------------------------------------------------------------------------
\* The barriers, rank by rank.
FlagsOk(r) ==
  /\ \A b \in BlockIds :
       pc[r][b] \in {"sync1", "sync2", "update", "done"} => value[r][b] = Entered(r, b) % 3
  /\ \A b \in BlockIds, t \in Ranks :
       IF InBarrier(r, b)
         THEN \/ next[r][b][t] = Waited
              \/ next[r][b][t] \in Nat /\ next[r][b][t] >= b /\ next[r][b][t] % Grid(r) = b
         ELSE next[r][b][t] = NoStores
  /\ \A t \in Ranks, f \in FlagIds : barrier_flags[t][f][r] = Stored(r, f, t) % 3

MetLastOk(r) ==
  call[r] > 0 => \A t \in Ranks, b \in 0 .. GridDim(program[call[r]]) - 1 :
                   Stored(t, b, r) >= 2 * call[r]

MetHereOk(r) ==
  \A t \in Ranks, b \in BlockIds :
    /\ pc[r][b] = "sync2" => Stored(t, b, r) >= 2 * call[r] + 1
    /\ pc[r][b] \in {"update", "done"} \/ next[r][b][t] = Waited =>
         Stored(t, b, r) >= Entered(r, b)

LEMMA FlagsEach == FlagsRight <=> \A r \in Ranks : FlagsOk(r)
BY DEF FlagsRight, FlagsOk

LEMMA MetEach == /\ MetLast <=> \A r \in Ranks : MetLastOk(r)
                 /\ MetHere <=> \A r \in Ranks : MetHereOk(r)
BY DEF MetLast, MetLastOk, MetHere, MetHereOk

Barriers == BlocksRight /\ FlagsRight /\ MetLast /\ MetHere

LEMMA BarriersEach ==
  /\ Barriers <=> \A r \in Ranks : BlocksOk(r) /\ FlagsOk(r) /\ MetLastOk(r) /\ MetHereOk(r)
  /\ Barriers' <=> \A r \in Ranks : BlocksOk(r)' /\ FlagsOk(r)' /\ MetLastOk(r)' /\ MetHereOk(r)'
<1>1. BlocksRight' <=> \A r \in Ranks : BlocksOk(r)'
  BY DEF BlocksRight, BlocksOk
<1>2. FlagsRight' <=> \A r \in Ranks : FlagsOk(r)'
  BY DEF FlagsRight, FlagsOk
<1>3. /\ MetLast' <=> \A r \in Ranks : MetLastOk(r)'
      /\ MetHere' <=> \A r \in Ranks : MetHereOk(r)'
  BY DEF MetLast, MetLastOk, MetHere, MetHereOk
<1> QED BY <1>1, <1>2, <1>3, BlocksEach, FlagsEach, MetEach DEF Barriers

\* A step that leaves the barrier state of rank q alone.
Same(q) ==
  /\ program' = program /\ call'[q] = call[q] /\ flag'[q] = flag[q]
  /\ counter'[q] = counter[q] /\ pc'[q] = pc[q] /\ value'[q] = value[q]
  /\ next'[q] = next[q]
  /\ \A t \in Ranks, f \in FlagIds : barrier_flags'[t][f][q] = barrier_flags[t][f][q]

LEMMA SameFacts ==
  ASSUME NEW q \in Ranks, Same(q)
  PROVE  /\ Busy(q)' = Busy(q) /\ Grid(q)' = Grid(q) /\ NumTokens(q)' = NumTokens(q)
         /\ \A f, t : Stored(q, f, t)' = Stored(q, f, t)
         /\ \A b : Entered(q, b)' = Entered(q, b) /\ InBarrier(q, b)' = InBarrier(q, b)
         /\ BlocksOk(q) => BlocksOk(q)'
         /\ FlagsOk(q) => FlagsOk(q)'
<1>1. Busy(q)' = Busy(q) /\ Grid(q)' = Grid(q) /\ NumTokens(q)' = NumTokens(q)
  BY DEF Same, Busy, Grid, NumTokens
<1>2. \A b : Entered(q, b)' = Entered(q, b) /\ InBarrier(q, b)' = InBarrier(q, b)
  BY DEF Same, Entered, InBarrier
<1>3. \A b, f, t : StoredIn(q, b, f, t)' = StoredIn(q, b, f, t)
  BY <1>2 DEF Same, StoredIn
<1>4. \A f, t : Stored(q, f, t)' = Stored(q, f, t)
  <2> TAKE f, t
  <2>1. PICK o : o = f % Grid(q)
    OBVIOUS
  <2>2. o = f % Grid(q)'
    BY <1>1, <2>1
  <2>3. Stored(q, f, t)' = 2 * call'[q] + (IF Busy(q)' THEN StoredIn(q, o, f, t)' ELSE 0)
    BY <2>2 DEF Stored
  <2>4. Stored(q, f, t) = 2 * call[q] + (IF Busy(q) THEN StoredIn(q, o, f, t) ELSE 0)
    BY <2>1 DEF Stored
  <2>5. call'[q] = call[q]
    BY DEF Same
  <2> QED BY <1>1, <1>3, <2>3, <2>4, <2>5
<1>5. BlocksOk(q) => BlocksOk(q)'
  BY <1>1 DEF BlocksOk, Same
<1>6. FlagsOk(q) => FlagsOk(q)'
  BY <1>1, <1>2, <1>4 DEF FlagsOk, Same
<1> QED BY <1>1, <1>2, <1>4, <1>5, <1>6

\* Stored flags are never taken back.
Grows(r) == \A f \in FlagIds, t \in Ranks : /\ Stored(r, f, t)' \in Nat
                                             /\ Stored(r, f, t)' >= Stored(r, f, t)

LEMMA GrowsAll ==
  ASSUME TypeOK, Barriers, NEW r \in Ranks, \A q \in Ranks : q # r => Same(q), Grows(r),
         NEW t \in Ranks, NEW f \in FlagIds, NEW q \in Ranks
  PROVE  /\ Stored(t, f, q) \in Nat /\ Stored(t, f, q)' \in Nat
         /\ Stored(t, f, q)' >= Stored(t, f, q)
<1>1. Stored(t, f, q) \in Nat
  BY BarriersEach, StoredFacts
<1>2. CASE t = r
  BY <1>1, <1>2 DEF Grows
<1>3. CASE t # r
  <2>1. Stored(t, f, q)' = Stored(t, f, q)
    BY <1>3, SameFacts
  <2> QED BY <1>1, <2>1
<1> QED BY <1>2, <1>3

\* The others keep their part of the invariant when one rank moves.
LEMMA BarriersStep ==
  ASSUME TypeOK, Barriers, NEW r \in Ranks,
         \A q \in Ranks : q # r => Same(q),
         Grows(r), BlocksOk(r)', FlagsOk(r)', MetLastOk(r)', MetHereOk(r)'
  PROVE  Barriers'
<1>1. \A q \in Ranks : BlocksOk(q) /\ FlagsOk(q) /\ MetLastOk(q) /\ MetHereOk(q)
  BY BarriersEach
<1>2. ASSUME NEW q \in Ranks, q # r
      PROVE  BlocksOk(q)' /\ FlagsOk(q)' /\ MetLastOk(q)' /\ MetHereOk(q)'
  <2>1. Same(q)
    BY <1>2
  <2>2. BlocksOk(q)' /\ FlagsOk(q)'
    BY <1>1, <2>1, SameFacts
  <2>3. \A t \in Ranks, f \in FlagIds :
          Stored(t, f, q)' \in Nat /\ Stored(t, f, q) \in Nat
          /\ Stored(t, f, q)' >= Stored(t, f, q)
    BY GrowsAll
  <2>4. MetLastOk(q)'
    <3>1. call'[q] = call[q] /\ program' = program /\ call[q] \in Nat
      BY <2>1, TypeFacts DEF Same
    <3>2. ASSUME call[q] > 0, NEW t \in Ranks, NEW b \in 0 .. GridDim(program[call[q]]) - 1
          PROVE  Stored(t, b, q)' >= 2 * call[q]
      <4>1. GridDim(program[call[q]]) \in Nat /\ GridDim(program[call[q]]) <= SmCount
        BY <3>2, TypeFacts, GridFacts
      <4>2. b \in FlagIds
        BY <4>1, RankFacts, ParameterAssumption DEF FlagIds
      <4>3. Stored(t, b, q) >= 2 * call[q]
        BY <1>1, <3>2 DEF MetLastOk
      <4> QED BY <2>3, <3>1, <4>2, <4>3
    <3> QED BY <3>1, <3>2 DEF MetLastOk
  <2>5. MetHereOk(q)'
    <3>1. call'[q] = call[q] /\ pc'[q] = pc[q] /\ next'[q] = next[q] /\ call[q] \in Nat
      BY <2>1, TypeFacts DEF Same
    <3>2. ASSUME NEW t \in Ranks, NEW b \in BlockIds
          PROVE  /\ Stored(t, b, q) \in Nat /\ Stored(t, b, q)' \in Nat
                 /\ Stored(t, b, q)' >= Stored(t, b, q)
                 /\ Entered(q, b)' = Entered(q, b) /\ Entered(q, b) \in Nat
      BY <1>1, <2>1, <2>3, SameFacts, StoredFacts, RankFacts
    <3>3. ASSUME NEW t \in Ranks, NEW b \in BlockIds
          PROVE  /\ pc[q][b] = "sync2" => Stored(t, b, q)' >= 2 * call[q] + 1
                 /\ pc[q][b] \in {"update", "done"} \/ next[q][b][t] = Waited =>
                      Stored(t, b, q)' >= Entered(q, b)'
      <4>1. /\ pc[q][b] = "sync2" => Stored(t, b, q) >= 2 * call[q] + 1
            /\ pc[q][b] \in {"update", "done"} \/ next[q][b][t] = Waited =>
                 Stored(t, b, q) >= Entered(q, b)
        BY <1>1 DEF MetHereOk
      <4> QED BY <3>1, <3>2, <4>1
    <3> QED BY <3>1, <3>3 DEF MetHereOk
  <2> QED BY <2>2, <2>4, <2>5
<1> QED BY <1>2, BarriersEach

\* What rank r has waited for stays true while it stays in its call.
MetBlock(r, b) ==
  \A t \in Ranks :
    /\ pc[r][b] = "sync2" => Stored(t, b, r) >= 2 * call[r] + 1
    /\ pc[r][b] \in {"update", "done"} \/ next[r][b][t] = Waited =>
         Stored(t, b, r) >= Entered(r, b)

LEMMA MetKept ==
  ASSUME TypeOK, Barriers, NEW r \in Ranks, \A q \in Ranks : q # r => Same(q), Grows(r),
         program' = program, call'[r] = call[r]
  PROVE  /\ MetLastOk(r)'
         /\ \A b \in BlockIds : pc'[r][b] = pc[r][b] /\ next'[r][b] = next[r][b]
                                  => MetBlock(r, b)'
         /\ MetHereOk(r)' <=> \A b \in BlockIds : MetBlock(r, b)'
<1>1. BlocksOk(r) /\ MetLastOk(r) /\ MetHereOk(r) /\ call[r] \in Nat
  BY BarriersEach, TypeFacts
<1>2. ASSUME call[r] > 0, NEW t \in Ranks, NEW b \in 0 .. GridDim(program[call[r]]) - 1
      PROVE  Stored(t, b, r)' >= 2 * call[r]
  <2>1. GridDim(program[call[r]]) \in Nat /\ GridDim(program[call[r]]) <= SmCount
    BY <1>2, TypeFacts, GridFacts
  <2>2. b \in FlagIds
    BY <2>1, RankFacts, ParameterAssumption DEF FlagIds
  <2>3. Stored(t, b, r) >= 2 * call[r]
    BY <1>1, <1>2 DEF MetLastOk
  <2> QED BY <1>1, <2>2, <2>3, GrowsAll
<1>3. ASSUME NEW b \in BlockIds, pc'[r][b] = pc[r][b], next'[r][b] = next[r][b]
      PROVE  MetBlock(r, b)'
  <2>1. Entered(r, b)' = Entered(r, b) /\ Entered(r, b) \in Nat
    <3>1. Entered(r, b) \in Nat
      BY <1>1, RankFacts, StoredFacts
    <3> QED BY <1>3, <3>1 DEF Entered
  <2>2. ASSUME NEW t \in Ranks
        PROVE  /\ pc[r][b] = "sync2" => Stored(t, b, r)' >= 2 * call[r] + 1
               /\ pc[r][b] \in {"update", "done"} \/ next[r][b][t] = Waited =>
                    Stored(t, b, r)' >= Entered(r, b)
    <3>1. /\ pc[r][b] = "sync2" => Stored(t, b, r) >= 2 * call[r] + 1
          /\ pc[r][b] \in {"update", "done"} \/ next[r][b][t] = Waited =>
               Stored(t, b, r) >= Entered(r, b)
      BY <1>1 DEF MetHereOk
    <3>2. /\ Stored(t, b, r) \in Nat /\ Stored(t, b, r)' \in Nat
          /\ Stored(t, b, r)' >= Stored(t, b, r)
      BY RankFacts, GrowsAll
    <3> QED BY <1>1, <2>1, <3>1, <3>2
  <2> QED BY <1>3, <2>1, <2>2 DEF MetBlock
<1>4. MetHereOk(r)' <=> \A b \in BlockIds : MetBlock(r, b)'
  BY DEF MetHereOk, MetBlock
<1> QED BY <1>2, <1>3, <1>4 DEF MetLastOk

\* A step of block b.
LEMMA BlockChange ==
  ASSUME TypeOK, NEW r \in Ranks, NEW b \in BlockIds, BlocksOk(r), Busy(r), Busy(r)',
         program' = program, call'[r] = call[r],
         \A o \in BlockIds : o # b => pc'[r][o] = pc[r][o] /\ next'[r][o] = next[r][o]
  PROVE  /\ Grid(r)' = Grid(r) /\ NumTokens(r)' = NumTokens(r)
         /\ \A f \in FlagIds, t \in Ranks :
              /\ f % Grid(r) # b => Stored(r, f, t)' = Stored(r, f, t)
              /\ f % Grid(r) = b =>
                   /\ Stored(r, f, t) = 2 * call[r] + StoredIn(r, b, f, t)
                   /\ Stored(r, f, t)' = 2 * call[r] + StoredIn(r, b, f, t)'
         /\ \A o \in BlockIds : o # b => /\ Entered(r, o)' = Entered(r, o)
                                         /\ InBarrier(r, o)' = InBarrier(r, o)
<1>1. Grid(r)' = Grid(r) /\ NumTokens(r)' = NumTokens(r)
  BY DEF Grid, NumTokens
<1>2. \A o \in BlockIds : o # b => /\ Entered(r, o)' = Entered(r, o)
                                   /\ InBarrier(r, o)' = InBarrier(r, o)
  BY DEF Entered, InBarrier
<1>3. ASSUME NEW f \in FlagIds, NEW t \in Ranks
      PROVE  /\ f % Grid(r) # b => Stored(r, f, t)' = Stored(r, f, t)
             /\ f % Grid(r) = b =>
                  /\ Stored(r, f, t) = 2 * call[r] + StoredIn(r, b, f, t)
                  /\ Stored(r, f, t)' = 2 * call[r] + StoredIn(r, b, f, t)'
  <2>1. PICK o \in BlockIds : o = f % Grid(r)
    BY BusyFacts
  <2>2. Stored(r, f, t) = 2 * call[r] + StoredIn(r, o, f, t)
    BY <2>1 DEF Stored
  <2>3. o = f % Grid(r)'
    BY <1>1, <2>1
  <2>4. Stored(r, f, t)' = 2 * call[r] + StoredIn(r, o, f, t)'
    BY <2>3 DEF Stored
  <2>5. o # b => StoredIn(r, o, f, t)' = StoredIn(r, o, f, t)
    BY <1>2 DEF StoredIn
  <2> QED BY <2>1, <2>2, <2>4, <2>5
<1> QED BY <1>1, <1>2, <1>3

-----------------------------------------------------------------------------
\* The steps of a rank and the barriers.
LEMMA LaunchBarriers ==
  ASSUME TypeOK, Barriers, NEW r \in Ranks, Launch(r)
  PROVE  Barriers'
<1>1. /\ BlocksOk(r) /\ FlagsOk(r) /\ MetHereOk(r) /\ call[r] \in Nat
      /\ call[r] < Len(program) /\ NumTokens(r) \in 1 .. MaxTokens
  BY BarriersEach, TypeFacts DEF Launch
<1>2. /\ program' = program /\ call' = call /\ next' = next /\ value' = value
      /\ flag' = flag /\ counter' = counter /\ barrier_flags' = barrier_flags
  BY DEF Launch
<1>3. \A b \in BlockIds : pc'[r][b] = IF b < Grid(r) THEN "start" ELSE "off"
  BY DEF Launch, TypeOK, Grid
<1>4. \A q \in Ranks : q # r => Same(q)
  BY <1>2 DEF Launch, TypeOK, Same
<1>5. ~Busy(r) /\ \A b \in BlockIds : pc[r][b] = "off"
  BY RankFacts DEF Launch, Busy
<1>6. Grid(r) \in Nat /\ Grid(r) > 0 /\ Grid(r) <= SmCount /\ Grid(r)' = Grid(r)
  BY <1>1, <1>2, GridFacts DEF Grid, NumTokens
<1>7. pc'[r][0] = "start" /\ Busy(r)'
  BY <1>3, <1>6, RankFacts DEF Busy
<1>8. \A b \in BlockIds : /\ ~InBarrier(r, b) /\ ~InBarrier(r, b)'
                          /\ pc'[r][b] \in {"start", "off"}
  BY <1>3, <1>5 DEF InBarrier
<1>9. ASSUME NEW f \in FlagIds, NEW t \in Ranks
      PROVE  Stored(r, f, t) = 2 * call[r] /\ Stored(r, f, t)' = 2 * call[r]
  <2>1. Stored(r, f, t) = 2 * call[r]
    BY <1>1, <1>5, StoredFacts
  <2>2. PICK o : o = f % Grid(r)
    OBVIOUS
  <2>3. o \in BlockIds
    <3>1. o \in Nat /\ o < Grid(r)
      BY <1>6, <2>2, RankFacts, DivFacts
    <3> QED BY <1>6, <3>1, RankFacts DEF BlockIds
  <2>4. StoredIn(r, o, f, t)' = 0
    BY <1>8, <2>3 DEF StoredIn
  <2>5. o = f % Grid(r)'
    BY <1>6, <2>2
  <2>6. Stored(r, f, t)' = 2 * call'[r] + StoredIn(r, o, f, t)'
    BY <1>7, <2>5 DEF Stored
  <2> QED BY <1>1, <1>2, <2>1, <2>4, <2>6
<1>10. Grows(r)
  BY <1>1, <1>9 DEF Grows
<1>11. BlocksOk(r)'
  <2>1. counter[r] = 0
    <3>1. {b \in BlockIds : pc[r][b] \notin {"off", "start"}} = {}
      BY <1>5
    <3>2. pc[r][0] # "done"
      BY <1>5, RankFacts
    <3> QED BY <1>1, <3>1, <3>2, FS_EmptySet DEF BlocksOk
  <2>2. Cardinality({b \in BlockIds : pc'[r][b] \notin {"off", "start"}}) = 0
    <3>1. {b \in BlockIds : pc'[r][b] \notin {"off", "start"}} = {}
      BY <1>8
    <3> QED BY <3>1, FS_EmptySet
  <2>3. flag[r] = (2 * call[r]) % 3
    BY <1>1, <1>5, RankFacts DEF BlocksOk
  <2>4. \A b \in BlockIds : pc'[r][b] = "off" <=> b >= Grid(r)
    BY <1>3, <1>6, RankFacts
  <2>5. \A b \in BlockIds : pc'[r][b] # "update"
    BY <1>8
  <2> QED BY <1>1, <1>2, <1>6, <1>7, <2>1, <2>2, <2>3, <2>4, <2>5 DEF BlocksOk
<1>12. FlagsOk(r)'
  <2>1. \A t \in Ranks, f \in FlagIds : barrier_flags[t][f][r] = Stored(r, f, t)' % 3
    BY <1>1, <1>9 DEF FlagsOk
  <2>2. \A b \in BlockIds, t \in Ranks : next[r][b][t] = NoStores
    BY <1>1, <1>8 DEF FlagsOk
  <2> QED BY <1>2, <1>8, <2>1, <2>2 DEF FlagsOk
<1>13. \A b \in BlockIds : MetBlock(r, b)'
  <2>1. \A b \in BlockIds, t \in Ranks : next'[r][b][t] # Waited
    BY <1>1, <1>2, <1>8 DEF FlagsOk, NoStores, Waited
  <2> QED BY <1>8, <2>1 DEF MetBlock
<1> QED BY <1>2, <1>4, <1>10, <1>11, <1>12, <1>13, MetKept, BarriersStep

LEMMA UpdateBarriers ==
  ASSUME TypeOK, Barriers, NEW r \in Ranks, Update(r)
  PROVE  Barriers'
<1>1. /\ BlocksOk(r) /\ FlagsOk(r) /\ MetHereOk(r) /\ call[r] \in Nat /\ 0 \in BlockIds
      /\ pc[r][0] = "update" /\ Busy(r) /\ counter[r] = Grid(r)
  BY BarriersEach, TypeFacts, RankFacts DEF Update, Busy, Grid
<1>2. /\ program' = program /\ call' = call /\ next' = next /\ value' = value
      /\ barrier_flags' = barrier_flags
      /\ flag'[r] = value[r][0] /\ counter'[r] = 0 /\ pc'[r][0] = "done"
      /\ \A b \in BlockIds : b # 0 => pc'[r][b] = pc[r][b]
  BY <1>1 DEF Update, TypeOK
<1>4. \A q \in Ranks : q # r => Same(q)
  BY <1>2 DEF Update, TypeOK, Same
<1>5. Busy(r)'
  BY <1>2 DEF Busy
<1>6. Grid(r)' = Grid(r) /\ Grid(r) \in Nat /\ Grid(r) > 0 /\ Grid(r) <= SmCount
  BY <1>1, <1>2, BusyFacts DEF Grid, NumTokens
<1>7. \A f \in FlagIds, t \in Ranks : StoredIn(r, 0, f, t) = 2 /\ StoredIn(r, 0, f, t)' = 2
  BY <1>1, <1>2 DEF StoredIn, InBarrier
<1>8. /\ \A f \in FlagIds, t \in Ranks : Stored(r, f, t)' = Stored(r, f, t)
      /\ \A o \in BlockIds : o # 0 => /\ Entered(r, o)' = Entered(r, o)
                                      /\ InBarrier(r, o)' = InBarrier(r, o)
  BY <1>1, <1>2, <1>5, <1>7, BlockChange
<1>9. /\ Entered(r, 0) = 2 * call[r] + 2 /\ Entered(r, 0)' = 2 * call[r] + 2
      /\ ~InBarrier(r, 0) /\ ~InBarrier(r, 0)'
  BY <1>1, <1>2 DEF Entered, InBarrier
<1>10. Grows(r)
  <2>1. \A f \in FlagIds, t \in Ranks : Stored(r, f, t) \in Nat
    BY <1>1, StoredFacts
  <2> QED BY <1>8, <2>1 DEF Grows
<1>11. BlocksOk(r)'
  <2>1. \A b \in BlockIds : pc'[r][b] # "start"
    <3> DEFINE arrived == {b \in BlockIds : pc[r][b] \notin {"off", "start"}}
               grid == 0 .. Grid(r) - 1
    <3>1. Cardinality(arrived) = Grid(r)
      BY <1>1 DEF BlocksOk
    <3>2. IsFiniteSet(grid) /\ Cardinality(grid) = Grid(r)
      BY <1>6, FS_Interval
    <3>3. arrived \subseteq grid
      <4> SUFFICES ASSUME NEW b \in BlockIds, pc[r][b] \notin {"off", "start"}
                   PROVE  b \in grid
        OBVIOUS
      <4>1. b < Grid(r)
        BY <1>1, BusyFacts
      <4> QED BY <1>6, <4>1, RankFacts
    <3> HIDE DEF arrived, grid
    <3>4. arrived = grid
      BY <3>1, <3>2, <3>3, FS_Subset
    <3>5. ASSUME NEW b \in BlockIds, pc[r][b] = "start"
          PROVE  FALSE
      <4>1. b < Grid(r) /\ b \in Nat
        BY <1>1, <3>5, BusyFacts, RankFacts
      <4>2. b \in grid
        BY <1>6, <4>1 DEF grid
      <4> QED BY <3>4, <3>5, <4>2 DEF arrived
    <3> QED BY <1>2, <3>5
  <2>2. flag'[r] = (2 * call[r] + 2) % 3
    BY <1>1, <1>2, <1>9 DEF FlagsOk
  <2>3. \A b \in BlockIds : pc'[r][b] = "off" <=> b >= Grid(r)
    BY <1>1, <1>2, <1>6 DEF BlocksOk
  <2>4. \A b \in BlockIds : pc'[r][b] # "update"
    BY <1>1, <1>2 DEF BlocksOk
  <2> QED BY <1>1, <1>2, <1>5, <1>6, <2>1, <2>2, <2>3, <2>4 DEF BlocksOk
<1>12. FlagsOk(r)'
  <2>1. \A t \in Ranks, f \in FlagIds : barrier_flags[t][f][r] = Stored(r, f, t)' % 3
    BY <1>1, <1>8 DEF FlagsOk
  <2>2. ASSUME NEW b \in BlockIds
        PROVE  /\ pc'[r][b] \in {"sync1", "sync2", "update", "done"}
                    => value[r][b] = Entered(r, b)' % 3
               /\ \A t \in Ranks :
                    IF InBarrier(r, b)'
                      THEN \/ next[r][b][t] = Waited
                           \/ /\ next[r][b][t] \in Nat /\ next[r][b][t] >= b
                              /\ next[r][b][t] % Grid(r) = b
                      ELSE next[r][b][t] = NoStores
    BY <1>1, <1>2, <1>8, <1>9 DEF FlagsOk
  <2> QED BY <1>2, <1>6, <2>1, <2>2 DEF FlagsOk
<1>13. \A b \in BlockIds : MetBlock(r, b)'
  <2>1. \A b \in BlockIds : b # 0 => MetBlock(r, b)'
    BY <1>2, <1>4, <1>10, MetKept
  <2>2. MetBlock(r, 0)'
    <3>1. \A t \in Ranks : Stored(t, 0, r)' >= 2 * call[r] + 2
      <4> TAKE t \in Ranks
      <4>1. Stored(t, 0, r) >= 2 * call[r] + 2
        BY <1>1, <1>9 DEF MetHereOk
      <4>2. /\ Stored(t, 0, r) \in Nat /\ Stored(t, 0, r)' \in Nat
            /\ Stored(t, 0, r)' >= Stored(t, 0, r)
        BY <1>4, <1>10, GrowsAll, RankFacts
      <4> QED BY <1>1, <4>1, <4>2
    <3> QED BY <1>2, <1>9, <3>1 DEF MetBlock
  <2> QED BY <2>1, <2>2
<1> QED BY <1>2, <1>4, <1>10, <1>11, <1>12, <1>13, MetKept, BarriersStep

LEMMA CompleteBarriers ==
  ASSUME TypeOK, Barriers, NEW r \in Ranks, Complete(r)
  PROVE  Barriers'
<1>1. /\ BlocksOk(r) /\ FlagsOk(r) /\ MetHereOk(r) /\ call[r] \in Nat /\ 0 \in BlockIds
      /\ pc[r][0] = "done" /\ Busy(r)
      /\ \A b \in BlockIds : pc[r][b] \in {"off", "done"}
  BY BarriersEach, TypeFacts, RankFacts DEF Complete, Busy
<1>2. /\ program' = program /\ call'[r] = call[r] + 1 /\ next' = next /\ value' = value
      /\ barrier_flags' = barrier_flags /\ flag' = flag /\ counter' = counter
      /\ \A b \in BlockIds : pc'[r][b] = "off"
  BY <1>1 DEF Complete, TypeOK
<1>4. \A q \in Ranks : q # r => Same(q)
  BY <1>2 DEF Complete, TypeOK, Same
<1>5. ~Busy(r)' /\ \A b \in BlockIds : ~InBarrier(r, b) /\ ~InBarrier(r, b)'
  BY <1>1, <1>2 DEF Busy, InBarrier
<1>6. ASSUME NEW f \in FlagIds, NEW t \in Ranks
      PROVE  /\ Stored(r, f, t)' = 2 * call[r] + 2 /\ Stored(r, f, t) = 2 * call[r] + 2
  <2>1. Stored(r, f, t)' = 2 * call[r] + 2
    BY <1>1, <1>2, <1>5 DEF Stored
  <2>2. PICK o \in BlockIds : o = f % Grid(r) /\ o < Grid(r)
    BY <1>1, BusyFacts
  <2>3. pc[r][o] = "done"
    BY <1>1, <2>2, BusyFacts
  <2>4. StoredIn(r, o, f, t) = 2
    BY <2>3 DEF StoredIn, InBarrier
  <2>5. Stored(r, f, t) = 2 * call[r] + 2
    BY <1>1, <2>2, <2>4 DEF Stored
  <2> QED BY <2>1, <2>5
<1>7. Grows(r)
  BY <1>1, <1>6 DEF Grows
<1>8. BlocksOk(r)'
  <2>1. Cardinality({b \in BlockIds : pc'[r][b] \notin {"off", "start"}}) = 0
    <3>1. {b \in BlockIds : pc'[r][b] \notin {"off", "start"}} = {}
      BY <1>2
    <3> QED BY <3>1, FS_EmptySet
  <2>2. flag[r] = (2 * call[r] + 2) % 3 /\ counter[r] = 0
    BY <1>1 DEF BlocksOk
  <2>3. flag'[r] = (2 * call'[r] + 0) % 3
    BY <1>1, <1>2, <2>2
  <2>4. \A b \in BlockIds : pc'[r][b] # "update"
    BY <1>2
  <2> QED BY <1>1, <1>2, <1>5, <2>1, <2>2, <2>3, <2>4 DEF BlocksOk
<1>9. FlagsOk(r)'
  <2>1. \A t \in Ranks, f \in FlagIds : barrier_flags[t][f][r] = Stored(r, f, t)' % 3
    BY <1>1, <1>6 DEF FlagsOk
  <2>2. \A b \in BlockIds, t \in Ranks : next[r][b][t] = NoStores
    BY <1>1, <1>5 DEF FlagsOk
  <2> QED BY <1>2, <1>5, <2>1, <2>2 DEF FlagsOk
<1>10. MetLastOk(r)'
  <2>1. program'[call'[r]] = NumTokens(r)
    BY <1>1, <1>2 DEF NumTokens
  <2>2. Grid(r) \in Nat /\ Grid(r) <= SmCount
    BY <1>1, BusyFacts
  <2>3. ASSUME NEW t \in Ranks, NEW b \in 0 .. Grid(r) - 1
        PROVE  Stored(t, b, r)' >= 2 * call[r] + 2
    <3>1. b \in BlockIds /\ b \in FlagIds /\ b < Grid(r)
      BY <2>2, RankFacts DEF BlockIds
    <3>2. pc[r][b] = "done"
      BY <1>1, <3>1, BusyFacts
    <3>3. Stored(t, b, r) >= 2 * call[r] + 2
      BY <1>1, <3>1, <3>2 DEF MetHereOk, Entered
    <3>4. /\ Stored(t, b, r) \in Nat /\ Stored(t, b, r)' \in Nat
          /\ Stored(t, b, r)' >= Stored(t, b, r)
      BY <1>4, <1>7, <3>1, GrowsAll
    <3> QED BY <1>1, <3>3, <3>4
  <2>4. \A t \in Ranks, b \in 0 .. Grid(r) - 1 : Stored(t, b, r)' >= 2 * call'[r]
    BY <1>1, <1>2, <2>3
  <2>5. GridDim(program'[call'[r]]) = Grid(r)
    BY <2>1 DEF Grid
  <2> QED BY <2>4, <2>5 DEF MetLastOk
<1>11. MetHereOk(r)'
  <2>1. \A b \in BlockIds, t \in Ranks : next'[r][b][t] # Waited
    BY <1>1, <1>2, <1>5 DEF FlagsOk, NoStores, Waited
  <2> QED BY <1>2, <2>1 DEF MetHereOk
<1> QED BY <1>4, <1>7, <1>8, <1>9, <1>10, <1>11, BarriersStep

LEMMA CopyInputBarriers ==
  ASSUME TypeOK, Barriers, NEW r \in Ranks, NEW b \in BlockIds, CopyInput(r, b)
  PROVE  Barriers'
<1>1. /\ BlocksOk(r) /\ FlagsOk(r) /\ MetHereOk(r) /\ call[r] \in Nat /\ 0 \in BlockIds
      /\ pc[r][b] = "start" /\ Busy(r) /\ b < Grid(r) /\ pc[r][0] # "done"
  <2>1. BlocksOk(r) /\ pc[r][b] = "start"
    BY BarriersEach DEF CopyInput
  <2>2. Busy(r) /\ b < Grid(r)
    BY <2>1, OwnFlag
  <2> QED BY <2>1, <2>2, BarriersEach, TypeFacts, RankFacts DEF BlocksOk
<1>2. /\ program' = program /\ call' = call /\ flag' = flag
      /\ barrier_flags' = barrier_flags
      /\ counter'[r] = counter[r] + 1
      /\ pc'[r][b] = "sync1" /\ value'[r][b] = NextFlag(flag[r])
      /\ \A t \in Ranks : next'[r][b][t] = b
      /\ \A o \in BlockIds : o # b => /\ pc'[r][o] = pc[r][o] /\ next'[r][o] = next[r][o]
                                      /\ value'[r][o] = value[r][o]
  BY <1>1 DEF CopyInput, Enter, TypeOK
<1>4. \A q \in Ranks : q # r => Same(q)
  BY <1>2 DEF CopyInput, Enter, TypeOK, Same
<1>5. Busy(r)'
  BY <1>1, <1>2 DEF Busy
<1>6. Grid(r)' = Grid(r) /\ Grid(r) \in Nat /\ Grid(r) > 0 /\ Grid(r) <= SmCount
  BY <1>1, <1>2, BusyFacts DEF Grid, NumTokens
<1>7. \A f \in FlagIds, t \in Ranks :
        f % Grid(r) = b => StoredIn(r, b, f, t) = 0 /\ StoredIn(r, b, f, t)' = 0
  <2> TAKE f \in FlagIds, t \in Ranks
  <2> HAVE f % Grid(r) = b
  <2>1. b <= f /\ f \in Nat /\ b \in Nat
    BY <1>1, BusyFacts, RankFacts
  <2> QED BY <1>1, <1>2, <2>1 DEF StoredIn, InBarrier, Waited
<1>8. /\ \A f \in FlagIds, t \in Ranks : Stored(r, f, t)' = Stored(r, f, t)
      /\ \A o \in BlockIds : o # b => /\ Entered(r, o)' = Entered(r, o)
                                      /\ InBarrier(r, o)' = InBarrier(r, o)
  BY <1>1, <1>2, <1>5, <1>7, BlockChange
<1>9. /\ Entered(r, b)' = 2 * call[r] + 1
      /\ ~InBarrier(r, b) /\ InBarrier(r, b)'
  BY <1>1, <1>2 DEF Entered, InBarrier
<1>10. Grows(r)
  <2>1. \A f \in FlagIds, t \in Ranks : Stored(r, f, t) \in Nat
    BY <1>1, StoredFacts
  <2> QED BY <1>8, <2>1 DEF Grows
<1>11. BlocksOk(r)'
  <2> DEFINE old == {o \in BlockIds : pc[r][o] \notin {"off", "start"}}
             new == {o \in BlockIds : pc'[r][o] \notin {"off", "start"}}
  <2>1. new = old \cup {b} /\ b \notin old /\ counter[r] = Cardinality(old)
    BY <1>1, <1>2 DEF BlocksOk
  <2>2. IsFiniteSet(old)
    <3>1. IsFiniteSet(BlockIds)
      BY RankFacts, FS_Interval DEF BlockIds
    <3> QED BY <3>1, FS_Subset
  <2> HIDE DEF old
  <2>3. Cardinality(new) = counter'[r]
    BY <1>2, <2>1, <2>2, FS_AddElement
  <2>4. pc'[r][0] # "done"
    BY <1>1, <1>2
  <2>5. flag[r] = (2 * call[r]) % 3
    BY <1>1 DEF BlocksOk
  <2>6. \A o \in BlockIds : pc'[r][o] = "off" <=> o >= Grid(r)
    BY <1>1, <1>2, <1>6, RankFacts DEF BlocksOk
  <2>7. \A o \in BlockIds : pc'[r][o] = "update" => o = 0
    BY <1>1, <1>2 DEF BlocksOk
  <2>8. call[r] < Len(program)
    BY <1>1 DEF BlocksOk
  <2> QED BY <1>1, <1>2, <1>5, <1>6, <2>3, <2>4, <2>5, <2>6, <2>7, <2>8 DEF BlocksOk
<1>12. FlagsOk(r)'
  <2>1. \A t \in Ranks, f \in FlagIds : barrier_flags[t][f][r] = Stored(r, f, t)' % 3
    BY <1>1, <1>8 DEF FlagsOk
  <2>2. ASSUME NEW o \in BlockIds
        PROVE  /\ pc'[r][o] \in {"sync1", "sync2", "update", "done"}
                    => value'[r][o] = Entered(r, o)' % 3
               /\ \A t \in Ranks :
                    IF InBarrier(r, o)'
                      THEN \/ next'[r][o][t] = Waited
                           \/ /\ next'[r][o][t] \in Nat /\ next'[r][o][t] >= o
                              /\ next'[r][o][t] % Grid(r) = o
                      ELSE next'[r][o][t] = NoStores
    <3>1. CASE o = b
      <4>1. value'[r][b] = (2 * call[r] + 1) % 3
        <5>1. flag[r] = (2 * call[r]) % 3
          BY <1>1 DEF BlocksOk
        <5> QED BY <1>1, <1>2, <5>1 DEF NextFlag
      <4>2. b % Grid(r) = b /\ b \in Nat
        BY <1>1, BusyFacts, RankFacts
      <4> QED BY <1>2, <1>9, <3>1, <4>1, <4>2
    <3>2. CASE o # b
      BY <1>1, <1>2, <1>8, <3>2 DEF FlagsOk
    <3> QED BY <3>1, <3>2
  <2> QED BY <1>2, <1>6, <2>1, <2>2 DEF FlagsOk
<1>13. \A o \in BlockIds : MetBlock(r, o)'
  <2>1. \A o \in BlockIds : o # b => MetBlock(r, o)'
    BY <1>2, <1>4, <1>10, MetKept
  <2>2. MetBlock(r, b)'
    <3>1. \A t \in Ranks : next'[r][b][t] # Waited
      BY <1>2, RankFacts DEF Waited
    <3> QED BY <1>2, <3>1 DEF MetBlock
  <2> QED BY <2>1, <2>2
<1> QED BY <1>2, <1>4, <1>10, <1>11, <1>12, <1>13, MetKept, BarriersStep

LEMMA StoreFlagBarriers ==
  ASSUME TypeOK, Barriers, NEW r \in Ranks, NEW b \in BlockIds, NEW t \in Ranks,
         StoreFlag(r, b, t)
  PROVE  Barriers'
<1> DEFINE n == next[r][b][t]
<1>1. /\ BlocksOk(r) /\ FlagsOk(r) /\ MetHereOk(r) /\ call[r] \in Nat
      /\ InBarrier(r, b) /\ Busy(r) /\ b < Grid(r)
      /\ n \in FlagIds /\ n \in Nat /\ n >= b /\ n % Grid(r) = b /\ n # Waited
  <2>1. n \in FlagIds /\ n \in Nat
    BY RankFacts DEF StoreFlag
  <2>2. BlocksOk(r) /\ FlagsOk(r) /\ MetHereOk(r)
    BY BarriersEach
  <2>3. n # Waited /\ n # NoStores
    BY <2>1 DEF Waited, NoStores
  <2>4. InBarrier(r, b) /\ n >= b /\ n % Grid(r) = b
    BY <2>2, <2>3 DEF FlagsOk
  <2>5. Busy(r) /\ b < Grid(r)
    BY <2>2, <2>4, OwnFlag DEF InBarrier
  <2> QED BY <2>1, <2>2, <2>3, <2>4, <2>5, TypeFacts
<1>2. /\ program' = program /\ call' = call /\ flag' = flag /\ counter' = counter
      /\ pc' = pc /\ value' = value
      /\ \A q \in Ranks : q # r => next'[q] = next[q]
      /\ \A o \in BlockIds : o # b => next'[r][o] = next[r][o]
      /\ \A s \in Ranks : next'[r][b][s] = IF s = t THEN n + Grid(r) ELSE next[r][b][s]
  BY DEF StoreFlag, TypeOK, Grid
<1>3. \A s \in Ranks, f \in FlagIds, q \in Ranks :
        barrier_flags'[s][f][q] = IF s = t /\ f = n /\ q = r THEN value[r][b]
                                                             ELSE barrier_flags[s][f][q]
  BY <1>1 DEF StoreFlag, TypeOK
<1> HIDE DEF n
<1>4. \A q \in Ranks : q # r => Same(q)
  BY <1>2, <1>3 DEF Same
<1>5. Busy(r)' /\ InBarrier(r, b)'
  BY <1>1, <1>2 DEF Busy, InBarrier
<1>6. Grid(r)' = Grid(r) /\ Grid(r) \in Nat /\ Grid(r) > 0 /\ Grid(r) <= SmCount
  BY <1>1, <1>2, BusyFacts DEF Grid, NumTokens
<1>7. \A o \in BlockIds : /\ Entered(r, o)' = Entered(r, o)
                          /\ InBarrier(r, o)' = InBarrier(r, o)
  BY <1>2 DEF Entered, InBarrier
\* The flag the thread stores counts one more barrier; the others do not.
<1>8. ASSUME NEW f \in FlagIds, NEW s \in Ranks
      PROVE  /\ ~(f = n /\ s = t) => Stored(r, f, s)' = Stored(r, f, s)
             /\ f = n /\ s = t => /\ Stored(r, f, s)' = Stored(r, f, s) + 1
                                  /\ Stored(r, f, s)' = Entered(r, b)
  <2>1. CASE f % Grid(r) # b
    <3>1. Stored(r, f, s)' = Stored(r, f, s)
      BY <1>1, <1>2, <1>5, <2>1, BlockChange
    <3> QED BY <1>1, <2>1, <3>1
  <2>2. CASE f % Grid(r) = b
    <3>1. /\ Stored(r, f, s) = 2 * call[r] + StoredIn(r, b, f, s)
          /\ Stored(r, f, s)' = 2 * call[r] + StoredIn(r, b, f, s)'
      BY <1>1, <1>2, <1>5, <2>2, BlockChange
    <3>2. CASE s # t
      <4>1. StoredIn(r, b, f, s)' = StoredIn(r, b, f, s)
        BY <1>2, <1>7, <3>2 DEF StoredIn
      <4> QED BY <3>1, <3>2, <4>1
    <3>3. CASE s = t /\ f # n
      <4>1. f \in Nat
        BY RankFacts
      <4>2. f < n => n + Grid(r) > f
        BY <1>1, <1>6, <4>1
      <4>3. n < f => ~(n + Grid(r) > f)
        <5>1. n < f => n + Grid(r) <= f
          BY <1>1, <1>6, <2>2, <4>1, ModApart
        <5> QED BY <1>1, <1>6, <4>1, <5>1
      <4>4. (n > f) = (n + Grid(r) > f) /\ n + Grid(r) # Waited
        BY <1>1, <1>6, <3>3, <4>1, <4>2, <4>3 DEF Waited
      <4>5. StoredIn(r, b, f, s)' = StoredIn(r, b, f, s)
        BY <1>1, <1>2, <1>7, <3>3, <4>4 DEF StoredIn, n
      <4> QED BY <3>1, <3>3, <4>5
    <3>4. CASE s = t /\ f = n
      <4>1. ~(n > n) /\ n + Grid(r) > n
        BY <1>1, <1>6
      <4>2. /\ pc[r][b] = "sync1" => StoredIn(r, b, f, s) = 0 /\ Entered(r, b) = 2 * call[r] + 1
            /\ pc[r][b] = "sync2" => StoredIn(r, b, f, s) = 1 /\ Entered(r, b) = 2 * call[r] + 2
        BY <1>1, <3>4, <4>1 DEF StoredIn, Entered, n
      <4>3. /\ pc[r][b] = "sync1" => StoredIn(r, b, f, s)' = 1
            /\ pc[r][b] = "sync2" => StoredIn(r, b, f, s)' = 2
        BY <1>1, <1>2, <1>5, <3>4, <4>1 DEF StoredIn
      <4> QED BY <1>1, <3>1, <3>4, <4>2, <4>3 DEF InBarrier
    <3> QED BY <3>2, <3>3, <3>4
  <2> QED BY <2>1, <2>2
<1>9. Grows(r)
  <2>1. \A f \in FlagIds, s \in Ranks : Stored(r, f, s) \in Nat
    BY <1>1, StoredFacts
  <2> QED BY <1>8, <2>1 DEF Grows
<1>10. BlocksOk(r)'
  BY <1>1, <1>2, <1>5, <1>6 DEF BlocksOk
<1>11. FlagsOk(r)'
  <2>1. \A s \in Ranks, f \in FlagIds : barrier_flags'[s][f][r] = Stored(r, f, s)' % 3
    <3> TAKE s \in Ranks, f \in FlagIds
    <3>1. CASE s = t /\ f = n
      <4>1. value[r][b] = Entered(r, b) % 3
        BY <1>1 DEF FlagsOk, InBarrier
      <4> QED BY <1>3, <1>8, <3>1, <4>1
    <3>2. CASE ~(s = t /\ f = n)
      BY <1>1, <1>3, <1>8, <3>2 DEF FlagsOk
    <3> QED BY <3>1, <3>2
  <2>2. \A o \in BlockIds : pc'[r][o] \in {"sync1", "sync2", "update", "done"}
                              => value'[r][o] = Entered(r, o)' % 3
    BY <1>1, <1>2, <1>7 DEF FlagsOk
  <2>3. ASSUME NEW o \in BlockIds, NEW s \in Ranks
        PROVE  IF InBarrier(r, o)'
                 THEN \/ next'[r][o][s] = Waited
                      \/ /\ next'[r][o][s] \in Nat /\ next'[r][o][s] >= o
                         /\ next'[r][o][s] % Grid(r) = o
                 ELSE next'[r][o][s] = NoStores
    <3>1. CASE o = b /\ s = t
      <4>1. next'[r][o][s] = n + Grid(r)
        BY <1>2, <3>1
      <4>2. (n + Grid(r)) % Grid(r) = b
        BY <1>1, <1>6, ModAdd
      <4>3. n + Grid(r) \in Nat /\ n + Grid(r) >= b
        BY <1>1, <1>6, RankFacts
      <4> QED BY <1>5, <3>1, <4>1, <4>2, <4>3
    <3>2. CASE ~(o = b /\ s = t)
      <4>1. next'[r][o][s] = next[r][o][s]
        BY <1>2, <3>2
      <4> QED BY <1>1, <1>7, <4>1 DEF FlagsOk
    <3> QED BY <3>1, <3>2
  <2> QED BY <1>6, <2>1, <2>2, <2>3 DEF FlagsOk
<1>12. \A o \in BlockIds : MetBlock(r, o)'
  <2>1. \A o \in BlockIds : o # b => MetBlock(r, o)'
    BY <1>2, <1>4, <1>9, MetKept
  <2>2. MetBlock(r, b)'
    <3>1. ASSUME NEW s \in Ranks
          PROVE  /\ pc[r][b] = "sync2" => Stored(s, b, r)' >= 2 * call[r] + 1
                 /\ next'[r][b][s] = Waited => Stored(s, b, r)' >= Entered(r, b)
      <4>1. /\ Stored(s, b, r) \in Nat /\ Stored(s, b, r)' \in Nat
            /\ Stored(s, b, r)' >= Stored(s, b, r) /\ Entered(r, b) \in Nat
        BY <1>1, <1>4, <1>9, GrowsAll, StoredFacts, RankFacts
      <4>2. next'[r][b][s] = Waited => next[r][b][s] = Waited
        BY <1>1, <1>2, <1>6 DEF Waited
      <4>3. /\ pc[r][b] = "sync2" => Stored(s, b, r) >= 2 * call[r] + 1
            /\ next[r][b][s] = Waited => Stored(s, b, r) >= Entered(r, b)
        BY <1>1 DEF MetHereOk
      <4> QED BY <1>1, <4>1, <4>2, <4>3
    <3>2. pc[r][b] \notin {"update", "done"}
      BY <1>1 DEF InBarrier
    <3> QED BY <1>2, <1>7, <3>1, <3>2 DEF MetBlock
  <2> QED BY <2>1, <2>2
<1> QED BY <1>2, <1>4, <1>9, <1>10, <1>11, <1>12, MetKept, BarriersStep

LEMMA WaitFlagBarriers ==
  ASSUME NonGrowing, TypeOK, Barriers, NEW r \in Ranks, NEW b \in BlockIds, NEW t \in Ranks,
         WaitFlag(r, b, t)
  PROVE  Barriers'
<1>1. /\ BlocksOk(r) /\ FlagsOk(r) /\ MetHereOk(r) /\ call[r] \in Nat
      /\ InBarrier(r, b) /\ Busy(r) /\ b < Grid(r)
      /\ Stored(t, b, r) >= Entered(r, b)
  <2>1. InBarrier(r, b) /\ Stored(t, b, r) >= Entered(r, b)
    BY WaitMeets DEF Barriers
  <2>2. BlocksOk(r) /\ FlagsOk(r) /\ MetHereOk(r)
    BY BarriersEach
  <2>3. Busy(r) /\ b < Grid(r)
    BY <2>1, <2>2, OwnFlag DEF InBarrier
  <2> QED BY <2>1, <2>2, <2>3, TypeFacts
<1>2. /\ program' = program /\ call' = call /\ flag' = flag /\ counter' = counter
      /\ pc' = pc /\ value' = value /\ barrier_flags' = barrier_flags
      /\ \A q \in Ranks : q # r => next'[q] = next[q]
      /\ \A o \in BlockIds : o # b => next'[r][o] = next[r][o]
      /\ \A s \in Ranks : next'[r][b][s] = IF s = t THEN Waited ELSE next[r][b][s]
  BY DEF WaitFlag, TypeOK
<1>3. next[r][b][t] >= FlagCount /\ next[r][b][t] \in Int /\ FlagCount \in Nat
  BY TypeFacts, RankFacts DEF WaitFlag
<1>4. \A q \in Ranks : q # r => Same(q)
  BY <1>2 DEF Same
<1>5. Busy(r)' /\ InBarrier(r, b)'
  BY <1>1, <1>2 DEF Busy, InBarrier
<1>6. Grid(r)' = Grid(r) /\ Grid(r) \in Nat /\ Grid(r) > 0 /\ Grid(r) <= SmCount
  BY <1>1, <1>2, BusyFacts DEF Grid, NumTokens
<1>7. \A o \in BlockIds : /\ Entered(r, o)' = Entered(r, o)
                          /\ InBarrier(r, o)' = InBarrier(r, o)
  BY <1>2 DEF Entered, InBarrier
<1>8. ASSUME NEW f \in FlagIds, NEW s \in Ranks
      PROVE  Stored(r, f, s)' = Stored(r, f, s)
  <2>1. CASE f % Grid(r) # b
    BY <1>1, <1>2, <1>5, <2>1, BlockChange
  <2>2. CASE f % Grid(r) = b
    <3>1. /\ Stored(r, f, s) = 2 * call[r] + StoredIn(r, b, f, s)
          /\ Stored(r, f, s)' = 2 * call[r] + StoredIn(r, b, f, s)'
      BY <1>1, <1>2, <1>5, <2>2, BlockChange
    <3>2. StoredIn(r, b, f, s)' = StoredIn(r, b, f, s)
      <4>1. CASE s # t
        BY <1>2, <1>7, <4>1 DEF StoredIn
      <4>2. CASE s = t
        <5>1. next[r][b][s] > f
          BY <1>3, <4>2, RankFacts
        <5>2. next'[r][b][s] = Waited
          BY <1>2, <4>2
        <5> QED BY <1>1, <1>2, <1>5, <5>1, <5>2 DEF StoredIn
      <4> QED BY <4>1, <4>2
    <3> QED BY <3>1, <3>2
  <2> QED BY <2>1, <2>2
<1>9. Grows(r)
  <2>1. \A f \in FlagIds, s \in Ranks : Stored(r, f, s) \in Nat
    BY <1>1, StoredFacts
  <2> QED BY <1>8, <2>1 DEF Grows
<1>10. BlocksOk(r)'
  BY <1>1, <1>2, <1>5, <1>6 DEF BlocksOk
<1>11. FlagsOk(r)'
  <2>1. \A s \in Ranks, f \in FlagIds : barrier_flags'[s][f][r] = Stored(r, f, s)' % 3
    BY <1>1, <1>2, <1>8 DEF FlagsOk
  <2>2. \A o \in BlockIds : pc'[r][o] \in {"sync1", "sync2", "update", "done"}
                              => value'[r][o] = Entered(r, o)' % 3
    BY <1>1, <1>2, <1>7 DEF FlagsOk
  <2>3. ASSUME NEW o \in BlockIds, NEW s \in Ranks
        PROVE  IF InBarrier(r, o)'
                 THEN \/ next'[r][o][s] = Waited
                      \/ /\ next'[r][o][s] \in Nat /\ next'[r][o][s] >= o
                         /\ next'[r][o][s] % Grid(r) = o
                 ELSE next'[r][o][s] = NoStores
    <3>1. CASE o = b /\ s = t
      BY <1>2, <1>5, <3>1
    <3>2. CASE ~(o = b /\ s = t)
      <4>1. next'[r][o][s] = next[r][o][s]
        BY <1>2, <3>2
      <4> QED BY <1>1, <1>7, <4>1 DEF FlagsOk
    <3> QED BY <3>1, <3>2
  <2> QED BY <1>6, <2>1, <2>2, <2>3 DEF FlagsOk
<1>12. \A o \in BlockIds : MetBlock(r, o)'
  <2>1. \A o \in BlockIds : o # b => MetBlock(r, o)'
    BY <1>2, <1>4, <1>9, MetKept
  <2>2. MetBlock(r, b)'
    <3>1. ASSUME NEW s \in Ranks
          PROVE  /\ pc[r][b] = "sync2" => Stored(s, b, r)' >= 2 * call[r] + 1
                 /\ next'[r][b][s] = Waited => Stored(s, b, r)' >= Entered(r, b)
      <4>1. /\ Stored(s, b, r) \in Nat /\ Stored(s, b, r)' \in Nat
            /\ Stored(s, b, r)' >= Stored(s, b, r) /\ Entered(r, b) \in Nat
        BY <1>1, <1>4, <1>9, GrowsAll, StoredFacts, RankFacts
      <4>2. next'[r][b][s] = Waited => s = t \/ next[r][b][s] = Waited
        BY <1>2
      <4>3. /\ pc[r][b] = "sync2" => Stored(s, b, r) >= 2 * call[r] + 1
            /\ next[r][b][s] = Waited => Stored(s, b, r) >= Entered(r, b)
        BY <1>1 DEF MetHereOk
      <4> QED BY <1>1, <4>1, <4>2, <4>3
    <3>2. pc[r][b] \notin {"update", "done"}
      BY <1>1 DEF InBarrier
    <3> QED BY <1>2, <1>7, <3>1, <3>2 DEF MetBlock
  <2> QED BY <2>1, <2>2
<1> QED BY <1>2, <1>4, <1>9, <1>10, <1>11, <1>12, MetKept, BarriersStep

LEMMA ReduceBarriers ==
  ASSUME TypeOK, Barriers, NEW r \in Ranks, NEW b \in BlockIds, Reduce(r, b)
  PROVE  Barriers'
<1>1. /\ BlocksOk(r) /\ FlagsOk(r) /\ MetHereOk(r) /\ call[r] \in Nat
      /\ pc[r][b] = "sync1" /\ Busy(r) /\ b < Grid(r) /\ Through(r, b)
  <2>1. BlocksOk(r) /\ pc[r][b] = "sync1"
    BY BarriersEach DEF Reduce
  <2>2. Busy(r) /\ b < Grid(r)
    BY <2>1, OwnFlag
  <2> QED BY <2>1, <2>2, BarriersEach, TypeFacts DEF Reduce
<1>2. /\ program' = program /\ call' = call /\ flag' = flag /\ counter' = counter
      /\ barrier_flags' = barrier_flags
      /\ pc'[r][b] = "sync2" /\ value'[r][b] = NextFlag(value[r][b])
      /\ \A t \in Ranks : next'[r][b][t] = b
      /\ \A o \in BlockIds : o # b => /\ pc'[r][o] = pc[r][o] /\ next'[r][o] = next[r][o]
                                      /\ value'[r][o] = value[r][o]
  BY DEF Reduce, Enter, TypeOK
<1>4. \A q \in Ranks : q # r => Same(q)
  BY <1>2 DEF Reduce, Enter, TypeOK, Same
<1>5. Busy(r)' /\ InBarrier(r, b) /\ InBarrier(r, b)'
  BY <1>1, <1>2, RankFacts DEF Busy, InBarrier
<1>6. Grid(r)' = Grid(r) /\ Grid(r) \in Nat /\ Grid(r) > 0 /\ Grid(r) <= SmCount
  BY <1>1, <1>2, BusyFacts DEF Grid, NumTokens
<1>7. \A f \in FlagIds, t \in Ranks :
        f % Grid(r) = b => StoredIn(r, b, f, t) = 1 /\ StoredIn(r, b, f, t)' = 1
  <2> TAKE f \in FlagIds, t \in Ranks
  <2> HAVE f % Grid(r) = b
  <2>1. b <= f /\ f \in Nat /\ b \in Nat
    BY <1>1, BusyFacts, RankFacts
  <2>2. StoredIn(r, b, f, t) = 1
    BY <1>1, <1>5 DEF StoredIn, Through
  <2>3. StoredIn(r, b, f, t)' = 1
    BY <1>2, <1>5, <2>1 DEF StoredIn, Waited
  <2> QED BY <2>2, <2>3
<1>8. /\ \A f \in FlagIds, t \in Ranks : Stored(r, f, t)' = Stored(r, f, t)
      /\ \A o \in BlockIds : o # b => /\ Entered(r, o)' = Entered(r, o)
                                      /\ InBarrier(r, o)' = InBarrier(r, o)
  BY <1>1, <1>2, <1>5, <1>7, BlockChange
<1>9. Entered(r, b) = 2 * call[r] + 1 /\ Entered(r, b)' = 2 * call[r] + 2
  BY <1>1, <1>2 DEF Entered
<1>10. Grows(r)
  <2>1. \A f \in FlagIds, t \in Ranks : Stored(r, f, t) \in Nat
    BY <1>1, StoredFacts
  <2> QED BY <1>8, <2>1 DEF Grows
<1>11. BlocksOk(r)'
  <2>1. {o \in BlockIds : pc'[r][o] \notin {"off", "start"}}
          = {o \in BlockIds : pc[r][o] \notin {"off", "start"}}
    BY <1>1, <1>2
  <2>2. (pc'[r][0] = "done") = (pc[r][0] = "done")
    BY <1>1, <1>2, RankFacts
  <2>3. \A o \in BlockIds : /\ (pc'[r][o] = "off") = (pc[r][o] = "off")
                            /\ (pc'[r][o] = "update") = (pc[r][o] = "update")
                            /\ (pc'[r][o] = "start") = (pc[r][o] = "start")
    BY <1>1, <1>2
  <2> QED BY <1>1, <1>2, <1>5, <1>6, <2>1, <2>2, <2>3 DEF BlocksOk
<1>12. FlagsOk(r)'
  <2>1. \A t \in Ranks, f \in FlagIds : barrier_flags[t][f][r] = Stored(r, f, t)' % 3
    BY <1>1, <1>8 DEF FlagsOk
  <2>2. ASSUME NEW o \in BlockIds
        PROVE  /\ pc'[r][o] \in {"sync1", "sync2", "update", "done"}
                    => value'[r][o] = Entered(r, o)' % 3
               /\ \A t \in Ranks :
                    IF InBarrier(r, o)'
                      THEN \/ next'[r][o][t] = Waited
                           \/ /\ next'[r][o][t] \in Nat /\ next'[r][o][t] >= o
                              /\ next'[r][o][t] % Grid(r) = o
                      ELSE next'[r][o][t] = NoStores
    <3>1. CASE o = b
      <4>1. value'[r][b] = (2 * call[r] + 2) % 3
        <5>1. value[r][b] = (2 * call[r] + 1) % 3
          BY <1>1, <1>9 DEF FlagsOk
        <5> QED BY <1>1, <1>2, <5>1 DEF NextFlag
      <4>2. b % Grid(r) = b /\ b \in Nat
        BY <1>1, BusyFacts, RankFacts
      <4> QED BY <1>2, <1>5, <1>9, <3>1, <4>1, <4>2
    <3>2. CASE o # b
      BY <1>1, <1>2, <1>8, <3>2 DEF FlagsOk
    <3> QED BY <3>1, <3>2
  <2> QED BY <1>2, <1>6, <2>1, <2>2 DEF FlagsOk
<1>13. \A o \in BlockIds : MetBlock(r, o)'
  <2>1. \A o \in BlockIds : o # b => MetBlock(r, o)'
    BY <1>2, <1>4, <1>10, MetKept
  <2>2. MetBlock(r, b)'
    <3>1. \A t \in Ranks : next'[r][b][t] # Waited
      BY <1>2, RankFacts DEF Waited
    <3>2. ASSUME NEW t \in Ranks
          PROVE  Stored(t, b, r)' >= 2 * call[r] + 1
      <4>1. Stored(t, b, r) >= 2 * call[r] + 1
        BY <1>1, <1>9 DEF MetHereOk, Through
      <4>2. /\ Stored(t, b, r) \in Nat /\ Stored(t, b, r)' \in Nat
            /\ Stored(t, b, r)' >= Stored(t, b, r)
        BY <1>4, <1>10, GrowsAll, RankFacts
      <4> QED BY <1>1, <4>1, <4>2
    <3> QED BY <1>2, <3>1, <3>2 DEF MetBlock
  <2> QED BY <2>1, <2>2
<1> QED BY <1>2, <1>4, <1>10, <1>11, <1>12, <1>13, MetKept, BarriersStep

LEMMA OutputBarriers ==
  ASSUME TypeOK, Barriers, NEW r \in Ranks, NEW b \in BlockIds, Output(r, b)
  PROVE  Barriers'
<1>1. /\ BlocksOk(r) /\ FlagsOk(r) /\ MetHereOk(r) /\ call[r] \in Nat
      /\ pc[r][b] = "sync2" /\ Busy(r) /\ b < Grid(r) /\ Through(r, b)
  <2>1. BlocksOk(r) /\ pc[r][b] = "sync2"
    BY BarriersEach DEF Output
  <2>2. Busy(r) /\ b < Grid(r)
    BY <2>1, OwnFlag
  <2> QED BY <2>1, <2>2, BarriersEach, TypeFacts DEF Output
<1>2. /\ program' = program /\ call' = call /\ flag' = flag /\ counter' = counter
      /\ barrier_flags' = barrier_flags /\ value' = value
      /\ pc'[r][b] = (IF b = 0 THEN "update" ELSE "done")
      /\ \A t \in Ranks : next'[r][b][t] = NoStores
      /\ \A o \in BlockIds : o # b => pc'[r][o] = pc[r][o] /\ next'[r][o] = next[r][o]
  BY DEF Output, TypeOK
<1>4. \A q \in Ranks : q # r => Same(q)
  BY <1>2 DEF Output, TypeOK, Same
<1>5. Busy(r)' /\ InBarrier(r, b) /\ ~InBarrier(r, b)'
  BY <1>1, <1>2, RankFacts DEF Busy, InBarrier
<1>6. Grid(r)' = Grid(r) /\ Grid(r) \in Nat /\ Grid(r) > 0 /\ Grid(r) <= SmCount
  BY <1>1, <1>2, BusyFacts DEF Grid, NumTokens
<1>7. \A f \in FlagIds, t \in Ranks : StoredIn(r, b, f, t) = 2 /\ StoredIn(r, b, f, t)' = 2
  <2> TAKE f \in FlagIds, t \in Ranks
  <2>1. StoredIn(r, b, f, t) = 2
    BY <1>1, <1>5 DEF StoredIn, Through
  <2>2. StoredIn(r, b, f, t)' = 2
    BY <1>2, <1>5 DEF StoredIn
  <2> QED BY <2>1, <2>2
<1>8. /\ \A f \in FlagIds, t \in Ranks : Stored(r, f, t)' = Stored(r, f, t)
      /\ \A o \in BlockIds : o # b => /\ Entered(r, o)' = Entered(r, o)
                                      /\ InBarrier(r, o)' = InBarrier(r, o)
  BY <1>1, <1>2, <1>5, <1>7, BlockChange
<1>9. Entered(r, b) = 2 * call[r] + 2 /\ Entered(r, b)' = 2 * call[r] + 2
  BY <1>1, <1>2 DEF Entered
<1>10. Grows(r)
  <2>1. \A f \in FlagIds, t \in Ranks : Stored(r, f, t) \in Nat
    BY <1>1, StoredFacts
  <2> QED BY <1>8, <2>1 DEF Grows
<1>11. BlocksOk(r)'
  <2>1. {o \in BlockIds : pc'[r][o] \notin {"off", "start"}}
          = {o \in BlockIds : pc[r][o] \notin {"off", "start"}}
    BY <1>1, <1>2
  <2>2. (pc'[r][0] = "done") = (pc[r][0] = "done")
    BY <1>1, <1>2, RankFacts
  <2>3. \A o \in BlockIds : /\ (pc'[r][o] = "off") = (pc[r][o] = "off")
                            /\ (pc'[r][o] = "start") = (pc[r][o] = "start")
    BY <1>1, <1>2
  <2>4. \A o \in BlockIds : pc'[r][o] = "update" => o = 0
    BY <1>1, <1>2 DEF BlocksOk
  <2> QED BY <1>1, <1>2, <1>5, <1>6, <2>1, <2>2, <2>3, <2>4 DEF BlocksOk
<1>12. FlagsOk(r)'
  <2>1. \A t \in Ranks, f \in FlagIds : barrier_flags[t][f][r] = Stored(r, f, t)' % 3
    BY <1>1, <1>8 DEF FlagsOk
  <2>2. ASSUME NEW o \in BlockIds
        PROVE  /\ pc'[r][o] \in {"sync1", "sync2", "update", "done"}
                    => value[r][o] = Entered(r, o)' % 3
               /\ \A t \in Ranks :
                    IF InBarrier(r, o)'
                      THEN \/ next'[r][o][t] = Waited
                           \/ /\ next'[r][o][t] \in Nat /\ next'[r][o][t] >= o
                              /\ next'[r][o][t] % Grid(r) = o
                      ELSE next'[r][o][t] = NoStores
    <3>1. CASE o = b
      <4>1. value[r][b] = (2 * call[r] + 2) % 3
        BY <1>1, <1>9 DEF FlagsOk
      <4> QED BY <1>2, <1>5, <1>9, <3>1, <4>1
    <3>2. CASE o # b
      BY <1>1, <1>2, <1>8, <3>2 DEF FlagsOk
    <3> QED BY <3>1, <3>2
  <2> QED BY <1>2, <1>6, <2>1, <2>2 DEF FlagsOk
<1>13. \A o \in BlockIds : MetBlock(r, o)'
  <2>1. \A o \in BlockIds : o # b => MetBlock(r, o)'
    BY <1>2, <1>4, <1>10, MetKept
  <2>2. MetBlock(r, b)'
    <3>1. pc'[r][b] # "sync2"
      BY <1>2
    <3>2. ASSUME NEW t \in Ranks
          PROVE  Stored(t, b, r)' >= 2 * call[r] + 2
      <4>1. Stored(t, b, r) >= 2 * call[r] + 2
        BY <1>1, <1>9 DEF MetHereOk, Through
      <4>2. /\ Stored(t, b, r) \in Nat /\ Stored(t, b, r)' \in Nat
            /\ Stored(t, b, r)' >= Stored(t, b, r)
        BY <1>4, <1>10, GrowsAll, RankFacts
      <4> QED BY <1>1, <4>1, <4>2
    <3> QED BY <1>9, <3>1, <3>2 DEF MetBlock
  <2> QED BY <2>1, <2>2
<1> QED BY <1>2, <1>4, <1>10, <1>11, <1>12, <1>13, MetKept, BarriersStep

-----------------------------------------------------------------------------
\* The comm buffers and what is put out.

BufferOk(r, b) ==
  LET n == NumTokens(r) IN
    /\ \A a \in Mine(n, b) : comm_bufs[r][a] = {<<call[r] + 1, r, a>>}
    /\ \A s \in Ranks : Reduced(s, b, call[r]) =>
         \A t \in TokensOf(n, s, b) : comm_bufs[r][n + t] = SumOf(call[r] + 1, t)

OutOk(r) ==
  /\ Busy(r) => /\ \A t \in Tokens : out[r][t] \in {{}, SumOf(call[r] + 1, t)}
                /\ \A b \in BlockIds : pc[r][b] \in {"update", "done"} =>
                     \A t \in Mine(NumTokens(r), b) : out[r][t] = SumOf(call[r] + 1, t)
  /\ ~Busy(r) /\ call[r] > 0 =>
       \A t \in 0 .. program[call[r]] - 1 : out[r][t] = SumOf(call[r], t)

LEMMA DataEach ==
  /\ BufferRight <=> \A r \in Ranks, b \in BlockIds :
                       pc[r][b] \notin {"off", "start"} => BufferOk(r, b)
  /\ OutRight <=> \A r \in Ranks : OutOk(r)
BY DEF BufferRight, BufferOk, OutRight, OutOk

LEMMA DataEachPrimed ==
  /\ BufferRight' <=> \A r \in Ranks, b \in BlockIds :
                        pc'[r][b] \notin {"off", "start"} => BufferOk(r, b)'
  /\ OutRight' <=> \A r \in Ranks : OutOk(r)'
BY DEF BufferRight, BufferOk, OutRight, OutOk

\* The tokens of a running block.
LEMMA MineHere ==
  ASSUME TypeOK, NEW r \in Ranks, BlocksOk(r), NEW b \in BlockIds, pc[r][b] # "off"
  PROVE  /\ NumTokens(r) \in 1 .. MaxTokens /\ Busy(r) /\ call[r] < Len(program)
         /\ \A a \in Mine(NumTokens(r), b) :
              a \in Nat /\ a < NumTokens(r) /\ a \in Tokens /\ a \in Addresses
              /\ NumTokens(r) + a \in Addresses
         /\ \A q \in Ranks : TokensOf(NumTokens(r), q, b) \subseteq Mine(NumTokens(r), b)
<1>1. NumTokens(r) \in 1 .. MaxTokens /\ Busy(r) /\ call[r] < Len(program)
  BY OwnFlag, BusyFacts
<1> DEFINE n == NumTokens(r)
<1>2. n \in 1 .. MaxTokens
  BY <1>1
<1> HIDE DEF n
<1>3. /\ Mine(n, b) \subseteq 0 .. n - 1
      /\ \A q \in Ranks : TokensOf(n, q, b) \subseteq Mine(n, b)
  BY <1>2, MineFacts
<1>4. ASSUME NEW a \in Mine(n, b)
      PROVE  /\ a \in Nat /\ a < n /\ a \in Tokens /\ a \in Addresses
             /\ n + a \in Addresses
  <2>1. a \in 0 .. n - 1
    BY <1>3
  <2> QED BY <1>2, <2>1, RankFacts DEF Tokens, Addresses
<1> QED BY <1>1, <1>3, <1>4 DEF n

\* A step that leaves rank q's buffer and call alone, and reduces nothing of
\* the block.
LEMMA BufferKept ==
  ASSUME NEW q \in Ranks, NEW b, program' = program, call'[q] = call[q],
         comm_bufs'[q] = comm_bufs[q], BufferOk(q, b),
         \A c : c = call[q] => \A s \in Ranks : Reduced(s, b, c)' => Reduced(s, b, c)
  PROVE  BufferOk(q, b)'
<1>1. PICK c : c = call[q]
  OBVIOUS
<1>2. \A s \in Ranks : Reduced(s, b, c)' => Reduced(s, b, c)
  BY <1>1
<1>3. NumTokens(q)' = NumTokens(q)
  BY DEF NumTokens
<1>4. ASSUME NEW s \in Ranks, Reduced(s, b, c)'
      PROVE  \A t \in TokensOf(NumTokens(q), s, b) :
               comm_bufs'[q][NumTokens(q) + t] = SumOf(c + 1, t)
  BY <1>1, <1>2, <1>4 DEF BufferOk
<1>5. \A a \in Mine(NumTokens(q), b) : comm_bufs'[q][a] = {<<c + 1, q, a>>}
  BY <1>1 DEF BufferOk
<1> QED BY <1>1, <1>3, <1>4, <1>5 DEF BufferOk, Reduced

LEMMA OutKept ==
  ASSUME NEW q \in Ranks, program' = program, call'[q] = call[q], pc'[q] = pc[q],
         out'[q] = out[q], OutOk(q)
  PROVE  OutOk(q)'
BY DEF OutOk, Busy, NumTokens

DataRight == BufferRight /\ OutRight

\* The steps between the barriers' ends touch no data.
LEMMA QuietData ==
  ASSUME DataRight, program' = program, call' = call, comm_bufs' = comm_bufs, out' = out,
         \A q \in Ranks, b \in BlockIds :
           \/ pc'[q][b] = pc[q][b]
           \/ pc[q][b] \in {"update", "done"} /\ pc'[q][b] \in {"update", "done"}
  PROVE  DataRight'
<1>1. ASSUME NEW q \in Ranks, NEW b \in BlockIds, pc'[q][b] \notin {"off", "start"}
      PROVE  BufferOk(q, b)'
  <2>1. BufferOk(q, b)
    BY <1>1, DataEach DEF DataRight
  <2>2. \A c : \A s \in Ranks : Reduced(s, b, c)' => Reduced(s, b, c)
    BY DEF Reduced
  <2> QED BY <2>1, <2>2, BufferKept
<1>2. ASSUME NEW q \in Ranks
      PROVE  OutOk(q)'
  <2>1. OutOk(q)
    BY DataEach DEF DataRight
  <2>2. Busy(q)' = Busy(q)
    BY RankFacts DEF Busy
  <2>3. \A b \in BlockIds : pc'[q][b] \in {"update", "done"} => pc[q][b] \in {"update", "done"}
    OBVIOUS
  <2> QED BY <2>1, <2>2, <2>3 DEF OutOk, NumTokens
<1> QED BY <1>1, <1>2, DataEachPrimed DEF DataRight

LEMMA LaunchData ==
  ASSUME TypeOK, Barriers, DataRight, NEW r \in Ranks, Launch(r)
  PROVE  DataRight'
<1>1. /\ program' = program /\ call' = call /\ comm_bufs' = comm_bufs
      /\ \A q \in Ranks : q # r => pc'[q] = pc[q] /\ out'[q] = out[q]
      /\ \A b \in BlockIds : pc[r][b] = "off" /\ pc'[r][b] \in {"start", "off"}
      /\ \A t \in Tokens : out'[r][t] = {}
      /\ pc'[r][0] = "start"
  <2>1. NumTokens(r) \in 1 .. MaxTokens
    BY TypeFacts DEF Launch
  <2>2. 0 < GridDim(NumTokens(r)) /\ 0 \in BlockIds
    BY <2>1, GridFacts, RankFacts
  <2> QED BY <2>2 DEF Launch, TypeOK
<1>2. ASSUME NEW q \in Ranks, NEW b \in BlockIds, pc'[q][b] \notin {"off", "start"}
      PROVE  BufferOk(q, b)'
  <2>1. pc[q][b] \notin {"off", "start"} /\ BufferOk(q, b)
    BY <1>1, <1>2, DataEach DEF DataRight
  <2>2. \A c : \A s \in Ranks : Reduced(s, b, c)' => Reduced(s, b, c)
    <3> TAKE c
    <3> TAKE s \in Ranks
    <3> QED BY <1>1 DEF Reduced
  <2> QED BY <1>1, <2>1, <2>2, BufferKept
<1>3. ASSUME NEW q \in Ranks
      PROVE  OutOk(q)'
  <2>1. CASE q # r
    BY <1>1, <2>1, OutKept, DataEach DEF DataRight
  <2>2. CASE q = r
    BY <1>1, <2>2 DEF OutOk, Busy
  <2> QED BY <2>1, <2>2
<1> QED BY <1>2, <1>3, DataEachPrimed DEF DataRight

LEMMA CopyInputData ==
  ASSUME TypeOK, Barriers, DataRight, NEW r \in Ranks, NEW b \in BlockIds, CopyInput(r, b)
  PROVE  DataRight'
<1> DEFINE n == NumTokens(r)
<1>1. /\ BlocksOk(r) /\ pc[r][b] = "start"
      /\ \A s \in Ranks : ~Reduced(s, b, call[r])
  BY BarriersEach, NotReduced DEF CopyInput, Barriers
<1>2. /\ n \in 1 .. MaxTokens
      /\ \A a \in Mine(n, b) : a \in Nat /\ a < n /\ a \in Addresses
  BY <1>1, MineHere
<1>3. /\ program' = program /\ call' = call /\ out' = out
      /\ \A q \in Ranks : q # r => pc'[q] = pc[q] /\ comm_bufs'[q] = comm_bufs[q]
      /\ \A o \in BlockIds : pc'[r][o] = IF o = b THEN "sync1" ELSE pc[r][o]
      /\ \A a \in Addresses : comm_bufs'[r][a] = IF a \in Mine(n, b)
                                                   THEN {<<call[r] + 1, r, a>>}
                                                   ELSE comm_bufs[r][a]
  BY DEF CopyInput, Enter, TypeOK
<1> HIDE DEF n
<1>4. \A c : \A s \in Ranks, o \in BlockIds : Reduced(s, o, c)' => Reduced(s, o, c)
  <2> TAKE c
  <2> TAKE s \in Ranks, o \in BlockIds
  <2> QED BY <1>1, <1>3 DEF Reduced
<1>5. ASSUME NEW q \in Ranks, NEW o \in BlockIds, pc'[q][o] \notin {"off", "start"}
      PROVE  BufferOk(q, o)'
  <2>1. CASE q # r
    <3>1. BufferOk(q, o)
      BY <1>3, <1>5, <2>1, DataEach DEF DataRight
    <3> QED BY <1>3, <1>4, <2>1, <3>1, BufferKept
  <2>2. CASE q = r /\ o # b
    <3>1. BufferOk(r, o) /\ pc[r][o] # "off"
      BY <1>3, <1>5, <2>2, DataEach DEF DataRight
    <3>2. \A a \in Mine(n, o) : /\ a \in Nat /\ a < n /\ a \in Addresses
                                /\ n + a \in Addresses
      BY <1>1, <3>1, MineHere DEF n
    <3>10. \A s \in Ranks : TokensOf(n, s, o) \subseteq Mine(n, o)
      BY <1>1, <3>1, MineHere DEF n
    <3>3. \A a \in Mine(n, o) : a \notin Mine(n, b)
      BY <1>2, <2>2, MineFacts
    <3>4. \A a \in Mine(n, o) : comm_bufs'[r][a] = comm_bufs[r][a]
      BY <1>3, <3>2, <3>3
    <3>5. \A a \in Mine(n, o) : comm_bufs'[r][n + a] = comm_bufs[r][n + a]
      <4> TAKE a \in Mine(n, o)
      <4>1. n + a \in Addresses /\ ~(n + a < n)
        BY <1>2, <3>2
      <4>2. n + a \notin Mine(n, b)
        BY <1>2, <4>1
      <4> QED BY <1>3, <4>1, <4>2
    <3>6. PICK c : c = call[r]
      OBVIOUS
    <3>7. \A a \in Mine(n, o) : comm_bufs'[r][a] = {<<c + 1, r, a>>}
      BY <3>1, <3>4, <3>6 DEF BufferOk, n
    <3>8. ASSUME NEW s \in Ranks, Reduced(s, o, c)', NEW t \in TokensOf(n, s, o)
          PROVE  comm_bufs'[r][n + t] = SumOf(c + 1, t)
      <4>1. Reduced(s, o, c)
        BY <1>4, <3>8
      <4>3. t \in Mine(n, o)
        BY <3>8, <3>10
      <4>2. comm_bufs[r][n + t] = SumOf(c + 1, t)
        BY <3>1, <3>6, <3>8, <4>1 DEF BufferOk, n
      <4> QED BY <3>5, <4>2, <4>3
    <3>9. NumTokens(r)' = n /\ call'[r] = c
      BY <1>3, <3>6 DEF NumTokens, n
    <3> QED BY <2>2, <3>7, <3>8, <3>9 DEF BufferOk, Reduced
  <2>3. CASE q = r /\ o = b
    <3>1. PICK c : c = call[r]
      OBVIOUS
    <3>2. \A a \in Mine(n, b) : comm_bufs'[r][a] = {<<c + 1, r, a>>}
      BY <1>2, <1>3, <3>1
    <3>3. \A s \in Ranks : ~Reduced(s, b, c)'
      BY <1>1, <1>4, <3>1
    <3>4. NumTokens(r)' = n /\ call'[r] = c
      BY <1>3, <3>1 DEF NumTokens, n
    <3> QED BY <2>3, <3>2, <3>3, <3>4 DEF BufferOk, Reduced
  <2> QED BY <2>1, <2>2, <2>3
<1>6. ASSUME NEW q \in Ranks
      PROVE  OutOk(q)'
  <2>1. CASE q # r
    BY <1>3, <2>1, OutKept, DataEach DEF DataRight
  <2>2. CASE q = r
    <3>1. OutOk(r)
      BY DataEach DEF DataRight
    <3>2. /\ Busy(r)' = Busy(r) /\ NumTokens(r)' = NumTokens(r)
          /\ \A o \in BlockIds : pc'[r][o] \in {"update", "done"} => pc[r][o] \in {"update", "done"}
      BY <1>1, <1>3, RankFacts DEF Busy, NumTokens
    <3> QED BY <1>3, <2>2, <3>1, <3>2 DEF OutOk
  <2> QED BY <2>1, <2>2
<1> QED BY <1>5, <1>6, DataEachPrimed DEF DataRight

LEMMA CompleteData ==
  ASSUME TypeOK, Barriers, DataRight, NEW r \in Ranks, Complete(r)
  PROVE  DataRight'
<1>1. /\ BlocksOk(r) /\ pc[r][0] = "done" /\ Busy(r) /\ call[r] \in Nat
      /\ \A b \in BlockIds : pc[r][b] \in {"off", "done"}
  BY BarriersEach, TypeFacts DEF Complete, Busy
<1>2. /\ program' = program /\ call'[r] = call[r] + 1 /\ out' = out /\ comm_bufs' = comm_bufs
      /\ \A b \in BlockIds : pc'[r][b] = "off"
      /\ \A q \in Ranks : q # r => pc'[q] = pc[q] /\ call'[q] = call[q]
  BY DEF Complete, TypeOK
<1>3. ASSUME NEW q \in Ranks, NEW b \in BlockIds, pc'[q][b] \notin {"off", "start"}
      PROVE  BufferOk(q, b)'
  <2>1. q # r /\ pc[q][b] \notin {"off", "start"} /\ BufferOk(q, b)
    BY <1>2, <1>3, DataEach DEF DataRight
  <2>2. BlocksOk(q) /\ call[q] \in Nat
    BY BarriersEach, TypeFacts
  <2>3. ASSUME NEW c, c = call[q], NEW s \in Ranks, Reduced(s, b, c)'
        PROVE  Reduced(s, b, c)
    <3>1. CASE s # r
      BY <1>2, <2>3, <3>1 DEF Reduced
    <3>2. CASE s = r
      <4>1. call[r] + 1 > c
        BY <1>2, <2>3, <3>2 DEF Reduced
      <4>2. CASE call[r] > c
        BY <3>2, <4>2 DEF Reduced
      <4>3. CASE call[r] = c
        <5>1. Grid(q) = Grid(r)
          BY <2>3, <4>3 DEF Grid, NumTokens
        <5>2. b < Grid(r)
          BY <2>1, <2>2, <5>1, OwnFlag
        <5>3. pc[r][b] = "done"
          BY <1>1, <5>2, BusyFacts
        <5> QED BY <3>2, <4>3, <5>3 DEF Reduced
      <4> QED BY <1>1, <2>2, <2>3, <4>1, <4>2, <4>3
    <3> QED BY <3>1, <3>2
  <2> QED BY <1>2, <2>1, <2>3, BufferKept
<1>4. ASSUME NEW q \in Ranks
      PROVE  OutOk(q)'
  <2>1. CASE q # r
    BY <1>2, <2>1, OutKept, DataEach DEF DataRight
  <2>2. CASE q = r
    <3> DEFINE n == NumTokens(r)
    <3>1. n \in 1 .. MaxTokens /\ program'[call'[r]] = n
      BY <1>1, <1>2, BusyFacts DEF NumTokens
    <3>2. ASSUME NEW t \in 0 .. n - 1
          PROVE  out[r][t] = SumOf(call[r] + 1, t)
      <4>1. PICK s \in Ranks, b \in BlockIds : b < GridDim(n) /\ t \in TokensOf(n, s, b)
        BY <3>1, TokenFacts
      <4>2. t \in Mine(n, b)
        BY <4>1 DEF Mine
      <4>3. pc[r][b] = "done"
        BY <1>1, <4>1, BusyFacts DEF Grid
      <4> QED BY <1>1, <4>2, <4>3, DataEach DEF DataRight, OutOk
    <3>3. ~Busy(r)'
      BY <1>2, RankFacts DEF Busy
    <3> HIDE DEF n
    <3>4. \A t \in 0 .. program'[call'[r]] - 1 : out'[r][t] = SumOf(call'[r], t)
      BY <1>2, <3>1, <3>2
    <3> QED BY <2>2, <3>3, <3>4 DEF OutOk
  <2> QED BY <2>1, <2>2
<1> QED BY <1>3, <1>4, DataEachPrimed DEF DataRight

LEMMA ReduceData ==
  ASSUME TypeOK, Barriers, DataRight, NEW p \in Ranks, NEW b \in BlockIds, Reduce(p, b)
  PROVE  DataRight'
<1> DEFINE n == NumTokens(p)
<1>1. \A q \in Ranks : call[q] = call[p] /\ pc[q][b] \in {"sync1", "sync2"}
  BY ReduceTogether DEF Reduce, Barriers
<1>2. \A q \in Ranks : BlocksOk(q) /\ NumTokens(q) = n
  BY <1>1, BarriersEach DEF NumTokens
<1>3. /\ n \in 1 .. MaxTokens
      /\ \A a \in TokensOf(n, p, b) : a \in Nat /\ a < n /\ a \in Mine(n, b)
  BY <1>1, <1>2, MineHere
<1>4. /\ program' = program /\ call' = call /\ out' = out /\ pc[p][b] = "sync1"
      /\ \A q \in Ranks : q # p => pc'[q] = pc[q]
      /\ \A o \in BlockIds : pc'[p][o] = IF o = b THEN "sync2" ELSE pc[p][o]
      /\ \A q \in Ranks, a \in Addresses :
           comm_bufs'[q][a] = IF a - n \in TokensOf(n, p, b)
                                THEN UNION {comm_bufs[s][a - n] : s \in Ranks}
                                ELSE comm_bufs[q][a]
  BY DEF Reduce, Enter, TypeOK
<1> HIDE DEF n
<1>5. PICK c : c = call[p]
  OBVIOUS
\* What the block stores is the sum of this call.
<1>6. \A t \in TokensOf(n, p, b) : UNION {comm_bufs[s][t] : s \in Ranks} = SumOf(c + 1, t)
  <2> TAKE t \in TokensOf(n, p, b)
  <2>1. \A s \in Ranks : comm_bufs[s][t] = {<<c + 1, s, t>>}
    <3> TAKE s \in Ranks
    <3>1. BufferOk(s, b)
      BY <1>1, DataEach DEF DataRight
    <3>2. call[s] = c /\ NumTokens(s) = n
      BY <1>1, <1>2, <1>5
    <3> QED BY <1>3, <3>1, <3>2 DEF BufferOk
  <2>2. {comm_bufs[s][t] : s \in Ranks} = {{<<c + 1, s, t>>} : s \in Ranks}
    BY <2>1
  <2>3. UNION {{<<c + 1, s, t>>} : s \in Ranks} = {<<c + 1, s, t>> : s \in Ranks}
    OBVIOUS
  <2> QED BY <2>2, <2>3 DEF SumOf
<1>7. ASSUME NEW q \in Ranks, NEW o \in BlockIds, pc'[q][o] \notin {"off", "start"}
      PROVE  BufferOk(q, o)'
  <2>1. pc[q][o] \notin {"off", "start"} /\ BufferOk(q, o)
    <3>1. pc[q][o] \notin {"off", "start"}
      BY <1>4, <1>7
    <3> QED BY <3>1, DataEach DEF DataRight
  <2>2. call[q] = c /\ call'[q] = c /\ NumTokens(q) = n /\ NumTokens(q)' = n
    BY <1>1, <1>2, <1>4, <1>5 DEF NumTokens
  <2>3. /\ \A a \in Mine(n, o) : /\ a \in Nat /\ a < n /\ a \in Addresses
                                 /\ n + a \in Addresses
        /\ \A s \in Ranks : TokensOf(n, s, o) \subseteq Mine(n, o)
    BY <1>2, <2>1, <2>2, MineHere
  <2>4. \A a \in Mine(n, o) : comm_bufs'[q][a] = {<<c + 1, q, a>>}
    <3> TAKE a \in Mine(n, o)
    <3>1. comm_bufs[q][a] = {<<c + 1, q, a>>}
      BY <2>1, <2>2 DEF BufferOk
    <3>2. a - n \notin TokensOf(n, p, b)
      <4>1. ~(a - n \in Nat)
        BY <1>3, <2>3
      <4> QED BY <1>3, <4>1
    <3> QED BY <1>4, <2>3, <3>1, <3>2
  <2>5. ASSUME NEW s \in Ranks, Reduced(s, o, c)', NEW t \in TokensOf(n, s, o)
        PROVE  comm_bufs'[q][n + t] = SumOf(c + 1, t)
    <3>1. t \in Mine(n, o)
      BY <2>3, <2>5
    <3>2. n + t \in Addresses /\ (n + t) - n = t
      BY <1>3, <2>3, <3>1
    <3>3. CASE t \in TokensOf(n, p, b)
      BY <1>4, <1>6, <3>2, <3>3
    <3>4. CASE t \notin TokensOf(n, p, b)
      <4>1. ~(s = p /\ o = b)
        BY <2>5, <3>4
      <4>2. Reduced(s, o, c)
        BY <1>4, <2>5, <4>1 DEF Reduced
      <4>3. comm_bufs[q][n + t] = SumOf(c + 1, t)
        BY <2>1, <2>2, <2>5, <4>2 DEF BufferOk
      <4> QED BY <1>4, <3>2, <3>4, <4>3
    <3> QED BY <3>3, <3>4
  <2> QED BY <2>2, <2>4, <2>5 DEF BufferOk, Reduced
<1>8. ASSUME NEW q \in Ranks
      PROVE  OutOk(q)'
  <2>1. CASE q # p
    BY <1>4, <2>1, OutKept, DataEach DEF DataRight
  <2>2. CASE q = p
    <3>1. OutOk(p)
      BY DataEach DEF DataRight
    <3>2. /\ Busy(p)' = Busy(p) /\ NumTokens(p)' = NumTokens(p)
          /\ \A o \in BlockIds : pc'[p][o] \in {"update", "done"} => pc[p][o] \in {"update", "done"}
      BY <1>4, RankFacts DEF Busy, NumTokens
    <3> QED BY <1>4, <2>2, <3>1, <3>2 DEF OutOk
  <2> QED BY <2>1, <2>2
<1> QED BY <1>7, <1>8, DataEachPrimed DEF DataRight

LEMMA OutputData ==
  ASSUME TypeOK, Barriers, DataRight, NEW r \in Ranks, NEW b \in BlockIds, Output(r, b)
  PROVE  DataRight'
<1> DEFINE n == NumTokens(r)
<1>1. /\ BlocksOk(r) /\ pc[r][b] = "sync2"
      /\ \A s \in Ranks : Reduced(s, b, call[r])
  BY BarriersEach, ReducedByAll DEF Output, Barriers
<1>2. n \in 1 .. MaxTokens /\ Busy(r) /\ \A a \in Mine(n, b) : a \in Tokens
  BY <1>1, MineHere
<1>3. /\ program' = program /\ call' = call /\ comm_bufs' = comm_bufs
      /\ \A q \in Ranks : q # r => pc'[q] = pc[q] /\ out'[q] = out[q]
      /\ \A o \in BlockIds : pc'[r][o] = IF o = b THEN (IF b = 0 THEN "update" ELSE "done")
                                                  ELSE pc[r][o]
      /\ \A t \in Tokens : out'[r][t] = IF t \in Mine(n, b) THEN comm_bufs[r][n + t]
                                                            ELSE out[r][t]
  BY DEF Output, TypeOK
<1> HIDE DEF n
<1>4. \A c : \A s \in Ranks, o \in BlockIds : Reduced(s, o, c)' => Reduced(s, o, c)
  <2> TAKE c
  <2> TAKE s \in Ranks, o \in BlockIds
  <2> QED BY <1>1, <1>3 DEF Reduced
<1>5. ASSUME NEW q \in Ranks, NEW o \in BlockIds, pc'[q][o] \notin {"off", "start"}
      PROVE  BufferOk(q, o)'
  <2>1. pc[q][o] \notin {"off", "start"}
    BY <1>1, <1>3, <1>5
  <2>2. BufferOk(q, o)
    BY <2>1, DataEach DEF DataRight
  <2> QED BY <1>3, <1>4, <2>2, BufferKept
<1>6. \A t \in Mine(n, b) : comm_bufs[r][n + t] = SumOf(call[r] + 1, t)
  <2> TAKE t \in Mine(n, b)
  <2>1. PICK s \in Ranks : t \in TokensOf(n, s, b)
    BY DEF Mine
  <2>2. BufferOk(r, b)
    BY <1>1, DataEach DEF DataRight
  <2> QED BY <1>1, <2>1, <2>2 DEF BufferOk, n
<1>7. ASSUME NEW q \in Ranks
      PROVE  OutOk(q)'
  <2>1. CASE q # r
    BY <1>3, <2>1, OutKept, DataEach DEF DataRight
  <2>2. CASE q = r
    <3>1. OutOk(r) /\ Busy(r)
      BY <1>2, DataEach DEF DataRight
    <3>2. Busy(r)' /\ NumTokens(r)' = n /\ call'[r] = call[r]
      BY <1>1, <1>2, <1>3, RankFacts DEF Busy, NumTokens, n
    <3>3. \A t \in Tokens : out'[r][t] \in {{}, SumOf(call[r] + 1, t)}
      BY <1>3, <1>6, <3>1 DEF OutOk
    <3>4. ASSUME NEW o \in BlockIds, pc'[r][o] \in {"update", "done"}, NEW t \in Mine(n, o)
          PROVE  out'[r][t] = SumOf(call[r] + 1, t)
      <4>1. CASE o = b
        BY <1>2, <1>3, <1>6, <3>4, <4>1
      <4>2. CASE o # b
        <5>1. pc[r][o] \in {"update", "done"} /\ pc[r][o] # "off"
          BY <1>3, <3>4, <4>2
        <5>2. t \in Tokens
          BY <1>1, <3>4, <5>1, MineHere DEF n
        <5>3. out[r][t] = SumOf(call[r] + 1, t)
          BY <3>1, <3>4, <5>1 DEF OutOk, n
        <5>4. t \notin Mine(n, b)
          BY <1>2, <3>4, <4>2, MineFacts
        <5> QED BY <1>3, <5>2, <5>3, <5>4
      <4> QED BY <4>1, <4>2
    <3> QED BY <2>2, <3>2, <3>3, <3>4 DEF OutOk
  <2> QED BY <2>1, <2>2
<1> QED BY <1>5, <1>7, DataEachPrimed DEF DataRight

-----------------------------------------------------------------------------
\* The type invariant.
LEMMA InitType == Init => TypeOK
<1> SUFFICES ASSUME Init PROVE TypeOK
  OBVIOUS
<1>1. program \in Seq(1 .. MaxTokens) /\ Len(program) \in Nat
  BY ParameterAssumption DEF Init
<1>2. /\ program \in Programs
      /\ call \in [Ranks -> 0 .. Len(program)]
      /\ flag \in [Ranks -> 0 .. 2]
      /\ counter \in [Ranks -> 0 .. SmCount]
  BY <1>1, RankFacts DEF Init
<1>3. /\ barrier_flags \in [Ranks -> [FlagIds -> [Ranks -> 0 .. 2]]]
      /\ comm_bufs \in [Ranks -> [Addresses -> SUBSET Terms]]
      /\ out \in [Ranks -> [Tokens -> SUBSET Terms]]
  BY DEF Init
<1>4. /\ pc \in [Ranks -> [BlockIds -> {"off", "start", "sync1", "sync2", "update", "done"}]]
      /\ value \in [Ranks -> [BlockIds -> 0 .. 2]]
      /\ next \in [Ranks -> [BlockIds -> [Ranks -> {Waited, NoStores} \cup 0 .. FlagCount + SmCount]]]
  BY DEF Init
<1> QED BY <1>2, <1>3, <1>4 DEF TypeOK

LEMMA TypeStep ==
  ASSUME TypeOK, Barriers, DataRight, Next
  PROVE  TypeOK'
<1> DEFINE Nexts == {Waited, NoStores} \cup 0 .. FlagCount + SmCount
           States == {"off", "start", "sync1", "sync2", "update", "done"}
<1>1. ASSUME NEW r \in Ranks, Launch(r)
      PROVE  TypeOK'
  <2>1. pc' \in [Ranks -> [BlockIds -> States]]
    BY <1>1 DEF Launch, TypeOK
  <2>2. out' \in [Ranks -> [Tokens -> SUBSET Terms]]
    BY <1>1 DEF Launch, TypeOK
  <2> QED BY <1>1, <2>1, <2>2 DEF Launch, TypeOK, Terms
<1>2. ASSUME NEW r \in Ranks, Update(r)
      PROVE  TypeOK'
  <2>1. value[r][0] \in 0 .. 2
    BY RankFacts DEF TypeOK
  <2>2. /\ flag' \in [Ranks -> 0 .. 2] /\ counter' \in [Ranks -> 0 .. SmCount]
        /\ pc' \in [Ranks -> [BlockIds -> States]]
    BY <1>2, <2>1, RankFacts DEF Update, TypeOK
  <2> QED BY <1>2, <2>2 DEF Update, TypeOK, Terms
<1>3. ASSUME NEW r \in Ranks, Complete(r)
      PROVE  TypeOK'
  <2>1. call[r] < Len(program) /\ call[r] \in Nat /\ Len(program) \in Nat
    <3>1. BlocksOk(r) /\ Busy(r)
      BY <1>3, BarriersEach DEF Complete, Busy
    <3> QED BY <3>1, BusyFacts, TypeFacts
  <2>2. call' \in [Ranks -> 0 .. Len(program)]
    BY <1>3, <2>1 DEF Complete, TypeOK
  <2>3. pc' \in [Ranks -> [BlockIds -> States]]
    BY <1>3 DEF Complete, TypeOK
  <2> QED BY <1>3, <2>2, <2>3 DEF Complete, TypeOK, Terms
<1>4. ASSUME NEW r \in Ranks, NEW b \in BlockIds, CopyInput(r, b)
      PROVE  TypeOK'
  <2>1. BlocksOk(r) /\ pc[r][b] = "start"
    BY <1>4, BarriersEach DEF CopyInput
  <2>2. /\ \A a \in Mine(NumTokens(r), b) : a \in Tokens
        /\ call[r] < Len(program) /\ call[r] \in Nat /\ Len(program) \in Nat
    BY <2>1, MineHere, TypeFacts
  <2>3. counter[r] + 1 \in 0 .. SmCount
    <3> DEFINE old == {o \in BlockIds : pc[r][o] \notin {"off", "start"}}
    <3>1. counter[r] = Cardinality(old)
      BY <2>1 DEF BlocksOk
    <3>2. IsFiniteSet(BlockIds) /\ Cardinality(BlockIds) = SmCount
      <4>1. SmCount \in Nat /\ SmCount > 0 /\ 0 \in Int /\ SmCount - 1 \in Int
        BY ParameterAssumption
      <4>2. /\ IsFiniteSet(0 .. SmCount - 1)
            /\ Cardinality(0 .. SmCount - 1) = (SmCount - 1) - 0 + 1
        BY <4>1, FS_Interval
      <4> QED BY <4>1, <4>2 DEF BlockIds
    <3>3. IsFiniteSet(old \cup {b}) /\ Cardinality(old \cup {b}) <= Cardinality(BlockIds)
      BY <3>2, FS_Subset
    <3>4. IsFiniteSet(old) /\ b \notin old
      BY <2>1, <3>2, FS_Subset
    <3> HIDE DEF old
    <3>5. Cardinality(old \cup {b}) = Cardinality(old) + 1 /\ Cardinality(old) \in Nat
      BY <3>4, FS_AddElement, FS_CardinalityType
    <3> QED BY <3>1, <3>2, <3>3, <3>5, RankFacts
  <2>4. counter' \in [Ranks -> 0 .. SmCount]
    BY <1>4, <2>3 DEF CopyInput, TypeOK
  <2>5. comm_bufs' \in [Ranks -> [Addresses -> SUBSET Terms]]
    <3>1. \A a \in Mine(NumTokens(r), b) : <<call[r] + 1, r, a>> \in Terms
      BY <2>2 DEF Terms
    <3>2. \A a \in Mine(NumTokens(r), b) : {<<call[r] + 1, r, a>>} \in SUBSET Terms
      BY <3>1
    <3> QED BY <1>4, <3>2 DEF CopyInput, TypeOK
  <2>6. /\ pc' \in [Ranks -> [BlockIds -> States]]
        /\ value' \in [Ranks -> [BlockIds -> 0 .. 2]]
    <3>1. NextFlag(flag[r]) \in 0 .. 2
      <4>1. flag[r] \in 0 .. 2
        BY DEF TypeOK
      <4> QED BY <4>1 DEF NextFlag
    <3> QED BY <1>4, <3>1 DEF CopyInput, Enter, TypeOK
  <2>7. next' \in [Ranks -> [BlockIds -> [Ranks -> Nexts]]]
    <3>1. b \in Nexts
      BY RankFacts
    <3> HIDE DEF Nexts
    <3>2. next \in [Ranks -> [BlockIds -> [Ranks -> Nexts]]]
      BY DEF TypeOK, Nexts
    <3> QED BY <1>4, <3>1, <3>2 DEF CopyInput, Enter
  <2> QED BY <1>4, <2>4, <2>5, <2>6, <2>7 DEF CopyInput, TypeOK, Terms
<1>5. ASSUME NEW r \in Ranks, NEW b \in BlockIds, NEW t \in Ranks, StoreFlag(r, b, t)
      PROVE  TypeOK'
  <2>1. next[r][b][t] \in FlagIds /\ next[r][b][t] \in Nat /\ next[r][b][t] < FlagCount
    BY <1>5, RankFacts DEF StoreFlag
  <2>2. Grid(r) \in Nat /\ Grid(r) <= SmCount
    <3>1. InBarrier(r, b) /\ BlocksOk(r)
      BY <2>1, BarriersEach DEF FlagsOk, NoStores
    <3> QED BY <3>1, OwnFlag, BusyFacts DEF InBarrier
  <2>3. next[r][b][t] + Grid(r) \in Nexts
    BY <2>1, <2>2, RankFacts
  <2>4. next' \in [Ranks -> [BlockIds -> [Ranks -> Nexts]]]
    <3> HIDE DEF Nexts
    <3>1. next \in [Ranks -> [BlockIds -> [Ranks -> Nexts]]]
      BY DEF TypeOK, Nexts
    <3> QED BY <1>5, <2>3, <3>1 DEF StoreFlag, Grid
  <2>5. barrier_flags' \in [Ranks -> [FlagIds -> [Ranks -> 0 .. 2]]]
    <3>1. value[r][b] \in 0 .. 2
      BY DEF TypeOK
    <3> QED BY <1>5, <2>1, <3>1 DEF StoreFlag, TypeOK
  <2> QED BY <1>5, <2>4, <2>5 DEF StoreFlag, TypeOK, Terms
<1>6. ASSUME NEW r \in Ranks, NEW b \in BlockIds, NEW t \in Ranks, WaitFlag(r, b, t)
      PROVE  TypeOK'
  <2>1. next' \in [Ranks -> [BlockIds -> [Ranks -> Nexts]]]
    <3>1. Waited \in Nexts
      OBVIOUS
    <3> HIDE DEF Nexts
    <3>2. next \in [Ranks -> [BlockIds -> [Ranks -> Nexts]]]
      BY DEF TypeOK, Nexts
    <3> QED BY <1>6, <3>1, <3>2 DEF WaitFlag
  <2> QED BY <1>6, <2>1 DEF WaitFlag, TypeOK, Terms
<1>7. ASSUME NEW r \in Ranks, NEW b \in BlockIds, Reduce(r, b)
      PROVE  TypeOK'
  <2>1. BlocksOk(r) /\ pc[r][b] = "sync1"
    BY <1>7, BarriersEach DEF Reduce
  <2>2. \A a \in TokensOf(NumTokens(r), r, b) : a \in Addresses
    BY <2>1, MineHere
  <2>3. comm_bufs' \in [Ranks -> [Addresses -> SUBSET Terms]]
    <3>1. \A a \in Addresses, s \in Ranks : comm_bufs[s][a] \in SUBSET Terms
      BY DEF TypeOK
    <3>2. \A a \in Addresses : UNION {comm_bufs[s][a] : s \in Ranks} \in SUBSET Terms
      BY <3>1
    <3> QED BY <1>7, <2>2, <3>1, <3>2 DEF Reduce
  <2>4. /\ pc' \in [Ranks -> [BlockIds -> States]]
        /\ value' \in [Ranks -> [BlockIds -> 0 .. 2]]
    <3>1. NextFlag(value[r][b]) \in 0 .. 2
      <4>1. value[r][b] \in 0 .. 2
        BY DEF TypeOK
      <4> QED BY <4>1 DEF NextFlag
    <3> QED BY <1>7, <3>1 DEF Reduce, Enter, TypeOK
  <2>5. next' \in [Ranks -> [BlockIds -> [Ranks -> Nexts]]]
    <3>1. b \in Nexts
      BY RankFacts
    <3> HIDE DEF Nexts
    <3>2. next \in [Ranks -> [BlockIds -> [Ranks -> Nexts]]]
      BY DEF TypeOK, Nexts
    <3> QED BY <1>7, <3>1, <3>2 DEF Reduce, Enter
  <2> QED BY <1>7, <2>3, <2>4, <2>5 DEF Reduce, TypeOK, Terms
<1>8. ASSUME NEW r \in Ranks, NEW b \in BlockIds, Output(r, b)
      PROVE  TypeOK'
  <2>1. BlocksOk(r) /\ pc[r][b] = "sync2"
    BY <1>8, BarriersEach DEF Output
  <2>2. \A a \in Mine(NumTokens(r), b) : NumTokens(r) + a \in Addresses
    BY <2>1, MineHere
  <2>3. out' \in [Ranks -> [Tokens -> SUBSET Terms]]
    <3>1. \A t \in Mine(NumTokens(r), b) : comm_bufs[r][NumTokens(r) + t] \in SUBSET Terms
      BY <2>2 DEF TypeOK
    <3> QED BY <1>8, <3>1 DEF Output, TypeOK
  <2>4. pc' \in [Ranks -> [BlockIds -> States]]
    BY <1>8 DEF Output, TypeOK
  <2>5. next' \in [Ranks -> [BlockIds -> [Ranks -> Nexts]]]
    <3>1. NoStores \in Nexts
      OBVIOUS
    <3> HIDE DEF Nexts
    <3>2. next \in [Ranks -> [BlockIds -> [Ranks -> Nexts]]]
      BY DEF TypeOK, Nexts
    <3> QED BY <1>8, <3>1, <3>2 DEF Output
  <2> QED BY <1>8, <2>3, <2>4, <2>5 DEF Output, TypeOK, Terms
<1>9. CASE Finished
  BY <1>9 DEF Finished, vars, TypeOK, Terms
<1> QED BY <1>1, <1>2, <1>3, <1>4, <1>5, <1>6, <1>7, <1>8, <1>9 DEF Next, BlockStep

-----------------------------------------------------------------------------
\* The theorems.
LEMMA IInvIs == IInv <=> TypeOK /\ Barriers /\ DataRight
BY DEF IInv, Barriers, DataRight

LEMMA InitIInv == Init => IInv
<1> SUFFICES ASSUME Init PROVE IInv
  OBVIOUS
<1>1. TypeOK
  BY InitType
<1>2. \A r \in Ranks : /\ call[r] = 0 /\ flag[r] = 0 /\ counter[r] = 0 /\ ~Busy(r)
                       /\ \A b \in BlockIds : pc[r][b] = "off"
                       /\ \A b \in BlockIds, t \in Ranks : next[r][b][t] = NoStores
                       /\ \A t \in Ranks, f \in FlagIds : barrier_flags[t][f][r] = 0
  BY RankFacts DEF Init, Busy
<1>3. \A r, t \in Ranks, f \in FlagIds : Stored(r, f, t) = 0
  BY <1>2 DEF Stored
<1>4. \A r \in Ranks : BlocksOk(r)
  <2> TAKE r \in Ranks
  <2>1. {b \in BlockIds : pc[r][b] \notin {"off", "start"}} = {}
    BY <1>2
  <2>2. pc[r][0] = "off"
    BY <1>2, RankFacts
  <2>3. Cardinality({b \in BlockIds : pc[r][b] \notin {"off", "start"}}) = 0
    BY <2>1, FS_EmptySet
  <2>4. flag[r] = (2 * call[r] + 0) % 3 /\ 0 \in BlockIds
    BY <1>2, RankFacts
  <2> QED BY <1>2, <2>2, <2>3, <2>4 DEF BlocksOk
<1>5. \A r \in Ranks : FlagsOk(r)
  BY <1>2, <1>3 DEF FlagsOk, InBarrier
<1>6. \A r \in Ranks : MetLastOk(r) /\ MetHereOk(r)
  BY <1>2 DEF MetLastOk, MetHereOk, NoStores, Waited
<1>7. DataRight
  BY <1>2 DEF DataRight, BufferRight, OutRight
<1> QED BY <1>1, <1>4, <1>5, <1>6, <1>7, BarriersEach, IInvIs

LEMMA StepIInv == NonGrowing => (IInv /\ [Next]_vars => IInv')
<1> SUFFICES ASSUME NonGrowing, IInv, [Next]_vars PROVE IInv'
  OBVIOUS
<1>0. TypeOK /\ Barriers /\ DataRight
  BY IInvIs
<1>1. TypeOK'
  <2>1. CASE Next
    BY <1>0, <2>1, TypeStep
  <2>2. CASE UNCHANGED vars
    BY <1>0, <2>2 DEF vars, TypeOK, Terms
  <2> QED BY <2>1, <2>2
<1>2. ASSUME NEW r \in Ranks, Launch(r)
      PROVE  Barriers' /\ DataRight'
  BY <1>0, <1>2, LaunchBarriers, LaunchData
<1>3. ASSUME NEW r \in Ranks, Update(r)
      PROVE  Barriers' /\ DataRight'
  <2>1. Barriers'
    BY <1>0, <1>3, UpdateBarriers
  <2>2. DataRight'
    BY <1>0, <1>3, QuietData, RankFacts DEF Update, TypeOK
  <2> QED BY <2>1, <2>2
<1>4. ASSUME NEW r \in Ranks, Complete(r)
      PROVE  Barriers' /\ DataRight'
  BY <1>0, <1>4, CompleteBarriers, CompleteData
<1>5. ASSUME NEW r \in Ranks, NEW b \in BlockIds, CopyInput(r, b)
      PROVE  Barriers' /\ DataRight'
  BY <1>0, <1>5, CopyInputBarriers, CopyInputData
<1>6. ASSUME NEW r \in Ranks, NEW b \in BlockIds, Reduce(r, b)
      PROVE  Barriers' /\ DataRight'
  BY <1>0, <1>6, ReduceBarriers, ReduceData
<1>7. ASSUME NEW r \in Ranks, NEW b \in BlockIds, Output(r, b)
      PROVE  Barriers' /\ DataRight'
  BY <1>0, <1>7, OutputBarriers, OutputData
<1>8. ASSUME NEW r \in Ranks, NEW b \in BlockIds, NEW t \in Ranks, StoreFlag(r, b, t)
      PROVE  Barriers' /\ DataRight'
  <2>1. Barriers'
    BY <1>0, <1>8, StoreFlagBarriers
  <2>2. DataRight'
    BY <1>0, <1>8, QuietData DEF StoreFlag
  <2> QED BY <2>1, <2>2
<1>9. ASSUME NEW r \in Ranks, NEW b \in BlockIds, NEW t \in Ranks, WaitFlag(r, b, t)
      PROVE  Barriers' /\ DataRight'
  <2>1. Barriers'
    BY <1>0, <1>9, WaitFlagBarriers
  <2>2. DataRight'
    BY <1>0, <1>9, QuietData DEF WaitFlag
  <2> QED BY <2>1, <2>2
<1>10. ASSUME UNCHANGED vars
       PROVE  Barriers' /\ DataRight'
  <2>1. /\ program' = program /\ call' = call /\ flag' = flag /\ counter' = counter
        /\ barrier_flags' = barrier_flags /\ comm_bufs' = comm_bufs /\ pc' = pc
        /\ value' = value /\ next' = next /\ out' = out
    BY <1>10 DEF vars
  <2>2. \A q \in Ranks : Same(q)
    BY <2>1 DEF Same
  <2>3. \A q \in Ranks : BlocksOk(q)' /\ FlagsOk(q)'
    BY <1>0, <2>2, SameFacts, BarriersEach
  <2>4. \A q \in Ranks : MetLastOk(q)' /\ MetHereOk(q)'
    <3> TAKE q \in Ranks
    <3>1. Grows(q)
      <4>1. \A f \in FlagIds, t \in Ranks : Stored(q, f, t) \in Nat
        BY <1>0, BarriersEach, StoredFacts
      <4> QED BY <2>2, <4>1, SameFacts DEF Grows
    <3> QED BY <1>0, <2>1, <2>2, <3>1, MetKept
  <2>5. DataRight'
    BY <1>0, <2>1, QuietData
  <2>6. \A q \in Ranks : BlocksOk(q)' /\ FlagsOk(q)' /\ MetLastOk(q)' /\ MetHereOk(q)'
    BY <2>3, <2>4
  <2>7. Barriers'
    BY ONLY <2>6, BarriersEach
  <2> QED BY <2>5, <2>7
<1>11. Barriers' /\ DataRight'
  <2>1. CASE \E r \in Ranks : Launch(r) \/ Update(r) \/ Complete(r)
    BY <1>2, <1>3, <1>4, <2>1
  <2>2. CASE \E r \in Ranks, b \in BlockIds : BlockStep(r, b)
    BY <1>5, <1>6, <1>7, <2>2 DEF BlockStep
  <2>3. CASE \E r \in Ranks, b \in BlockIds, t \in Ranks : StoreFlag(r, b, t) \/ WaitFlag(r, b, t)
    BY <1>8, <1>9, <2>3
  <2>4. CASE Finished
    BY <1>10, <2>4 DEF Finished
  <2> QED BY <1>10, <2>1, <2>2, <2>3, <2>4 DEF Next
<1> QED BY <1>1, <1>11 DEF IInv, Barriers, DataRight

\* The flags of three values, the comm buffers and the counters are as IInv
\* says in every state of every run whose grids do not grow from call to call:
\* trtllm_allreduce_fusion.cuh's SyncComm, Barrier and the kernel around them.
THEOREM InductiveInvariant == NonGrowing => (Spec => []IInv)
<1>1. CASE NonGrowing
  <2>1. Init => IInv
    BY InitIInv
  <2>2. IInv /\ [Next]_vars => IInv'
    BY <1>1, StepIInv
  <2>3. Spec => []IInv
    BY <2>1, <2>2, PTL DEF Spec
  <2> QED BY <2>3
<1> QED BY <1>1

\* No thread of Barrier::sync passes before the peer's block has entered the
\* same barrier, for any number of ranks, blocks, flags and calls: three values
\* are enough although flags of calls with other grids are stored ahead.
THEOREM NoEarlyPassHolds == NonGrowing => (Spec => []NoEarlyPass)
<1>1. IInv => NoEarlyPass
  <2> SUFFICES ASSUME IInv, NEW r \in Ranks, NEW t \in Ranks, NEW b \in BlockIds,
                      next[r][b][t] = Waited
               PROVE  Entered(r, b) <= Entered(t, b)
    BY DEF NoEarlyPass
  <2>1. TypeOK /\ Barriers
    BY IInvIs
  <2>2. /\ BlocksOk(r) /\ BlocksOk(t) /\ FlagsOk(r) /\ MetHereOk(r) /\ b \in FlagIds
        /\ call[r] \in Nat /\ call[t] \in Nat
    BY <2>1, BarriersEach, TypeFacts, RankFacts
  <2>3. InBarrier(r, b)
    BY <2>2 DEF FlagsOk, NoStores, Waited
  <2>4. /\ pc[r][b] # "off" /\ Busy(r) /\ b < Grid(r)
        /\ Entered(r, b) >= 2 * call[r] + 1 /\ Entered(r, b) <= 2 * call[r] + 2
        /\ Entered(r, b) \in Nat
    BY <2>1, <2>2, <2>3, OwnFlag, StoredFacts DEF InBarrier
  <2>5. /\ Stored(t, b, r) >= Entered(r, b) /\ Stored(t, b, r) \in Nat
        /\ Stored(t, b, r) <= 2 * call[t] + 2
        /\ Entered(t, b) \in Nat /\ Entered(t, b) >= 2 * call[t]
        /\ ~Busy(t) => Stored(t, b, r) = 2 * call[t]
    BY <2>1, <2>2, StoredFacts DEF MetHereOk
  <2>6. CASE call[t] > call[r]
    BY <2>2, <2>4, <2>5, <2>6
  <2>7. CASE call[t] = call[r]
    <3>1. Busy(t) /\ Grid(t) = Grid(r)
      BY <2>2, <2>4, <2>5, <2>7 DEF Grid, NumTokens
    <3>2. pc[t][b] # "off"
      BY <2>1, <2>2, <2>4, <3>1, BusyFacts
    <3>3. Stored(t, b, r) <= Entered(t, b)
      BY <2>1, <2>2, <3>2, OwnFlag
    <3> QED BY <2>4, <2>5, <3>3
  <2>8. CASE call[t] < call[r]
    BY <2>2, <2>4, <2>5, <2>8
  <2> QED BY <2>2, <2>6, <2>7, <2>8
<1>2. CASE NonGrowing
  <2>1. Spec => []IInv
    BY <1>2, InductiveInvariant
  <2>2. Spec => []NoEarlyPass
    BY <1>1, <2>1, PTL
  <2> QED BY <2>2
<1> QED BY <1>2

\* Every rank puts out, for every token of a call, the sum of the inputs of
\* this call, and never anything else: no cell of a comm buffer is read before
\* it is written or written before it is read.
THEOREM ResultCorrectHolds == NonGrowing => (Spec => []ResultCorrect)
<1>1. IInv => ResultCorrect
  <2> SUFFICES ASSUME IInv, NEW r \in Ranks
               PROVE  IF \A b \in BlockIds : pc[r][b] = "off"
                        THEN call[r] > 0 =>
                               \A t \in 0 .. program[call[r]] - 1 :
                                 out[r][t] = {<<call[r], s, t>> : s \in Ranks}
                        ELSE \A t \in Tokens :
                               out[r][t] \in {{}, {<<call[r] + 1, s, t>> : s \in Ranks}}
    BY DEF ResultCorrect
  <2>1. BlocksOk(r) /\ OutOk(r)
    BY IInvIs, BarriersEach, DataEach DEF DataRight
  <2>2. (\A b \in BlockIds : pc[r][b] = "off") <=> ~Busy(r)
    BY <2>1, RankFacts DEF BlocksOk, Busy
  <2>3. CASE Busy(r)
    BY <2>1, <2>2, <2>3 DEF OutOk, SumOf
  <2>4. CASE ~Busy(r)
    BY <2>1, <2>2, <2>4 DEF OutOk, SumOf
  <2> QED BY <2>3, <2>4
<1>2. CASE NonGrowing
  <2>1. Spec => []IInv
    BY <1>2, InductiveInvariant
  <2>2. Spec => []ResultCorrect
    BY <1>1, <2>1, PTL
  <2> QED BY <2>2
<1> QED BY <1>2
=============================================================================
