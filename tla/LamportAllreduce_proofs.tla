----------------------- MODULE LamportAllreduce_proofs -----------------------
(***************************************************************************)
(* Theorems about LamportAllreduce, for any number of ranks, tokens and    *)
(* resident CTAs, any size of the buffers that is large enough for the     *)
(* calls, and any sequence of calls of the three kinds: what the flags     *)
(* hand to the next call names all that is dirty, every store finds the    *)
(* sentinel, and every rank puts out the sum of the call.                  *)
(***************************************************************************)
EXTENDS LamportAllreduce, FiniteSetTheorems, SequenceTheorems, TLAPS

-----------------------------------------------------------------------------
\* Arithmetic of the layout of a buffer.

LEMMA DivFacts == ASSUME NEW i \in Nat, NEW p \in Nat \ {0}
                  PROVE  /\ i \div p \in Nat
                         /\ p * (i \div p) <= i
                         /\ i < p * (i \div p) + p
                         /\ i % p \in 0 .. p - 1
                         /\ i = p * (i \div p) + (i % p)
<1>1. i \div p \in Nat /\ p * (i \div p) <= i /\ i < p * (i \div p) + p
  OBVIOUS
<1>2. i % p \in 0 .. p - 1
  OBVIOUS
<1>3. i = p * (i \div p) + (i % p)
  OBVIOUS
<1> QED BY <1>1, <1>2, <1>3

LEMMA MulMono == ASSUME NEW a \in Nat, NEW b \in Nat, NEW c \in Nat, a <= b
                 PROVE  a * c <= b * c
  OBVIOUS

LEMMA MulType == ASSUME NEW a \in Nat, NEW b \in Nat PROVE a * b \in Nat /\ a * b = b * a
  OBVIOUS

LEMMA MulNext == ASSUME NEW a \in Nat, NEW b \in Nat PROVE (a + 1) * b = a * b + b
  OBVIOUS

LEMMA PairLess == ASSUME NEW a \in Nat, NEW b \in Nat, NEW m \in Nat, a < b,
                         NEW s \in 0 .. m - 1
                  PROVE  a * m + s < b * m
<1>1. (a + 1) * m <= b * m
  BY MulMono
<1>2. (a + 1) * m = a * m + m
  BY MulNext
<1>3. a * m \in Nat /\ b * m \in Nat
  BY MulType
<1> QED BY <1>1, <1>2, <1>3

LEMMA PairUnique == ASSUME NEW a \in Nat, NEW b \in Nat, NEW m \in Nat,
                           NEW s \in 0 .. m - 1, NEW u \in 0 .. m - 1,
                           a * m + s = b * m + u
                    PROVE  a = b /\ s = u
<1>1. a * m \in Nat /\ b * m \in Nat
  BY MulType
<1>2. CASE a < b
  <2>1. a * m + s < b * m
    BY <1>2, PairLess
  <2> QED BY <1>1, <2>1
<1>3. CASE b < a
  <2>1. b * m + u < a * m
    BY <1>3, PairLess
  <2> QED BY <1>1, <2>1
<1>4. CASE a = b
  BY <1>1, <1>4
<1> QED BY <1>2, <1>3, <1>4

LEMMA DivModUnique == ASSUME NEW t \in Nat, NEW u \in Nat, NEW m \in Nat \ {0},
                             t \div m = u \div m, t % m = u % m
                      PROVE  t = u
<1>1. t = m * (t \div m) + (t % m)
  BY DivFacts
<1>2. u = m * (u \div m) + (u % m)
  BY DivFacts
<1> QED BY <1>1, <1>2

LEMMA RoundUpFacts ==
  ASSUME NEW n \in Nat \ {0}, NEW m \in Nat \ {0}
  PROVE  /\ RoundUp(n, m) \in Nat /\ n <= RoundUp(n, m)
         /\ \A t \in 0 .. n - 1, s \in 0 .. m - 1 : (t \div m) * m + s < RoundUp(n, m)
<1> DEFINE q == (n + m - 1) \div m
<1>1. n + m - 1 \in Nat
  OBVIOUS
<1>2. q \in Nat /\ n + m - 1 < m * q + m
  BY <1>1, DivFacts
<1> HIDE DEF q
<1>3. m * q \in Nat /\ m * q = q * m
  BY <1>2, MulType
<1>4. RoundUp(n, m) = q * m
  BY DEF RoundUp, q
<1>5. n <= q * m
  BY <1>2, <1>3
<1>6. ASSUME NEW t \in 0 .. n - 1, NEW s \in 0 .. m - 1
      PROVE  (t \div m) * m + s < q * m
  <2>1. t \in Nat /\ t < n
    OBVIOUS
  <2>2. t \div m \in Nat /\ m * (t \div m) <= t
    BY <2>1, DivFacts
  <2>3. CASE t \div m < q
    BY <1>2, <2>2, <2>3, PairLess
  <2>4. CASE q <= t \div m
    <3>1. q * m <= (t \div m) * m
      BY <1>2, <2>2, <2>4, MulMono
    <3>2. (t \div m) * m = m * (t \div m) /\ (t \div m) * m \in Nat
      BY <2>2, MulType
    <3> QED BY <1>3, <1>5, <2>1, <2>2, <3>1, <3>2
  <2> QED BY <1>2, <2>2, <2>3, <2>4
<1> QED BY <1>3, <1>4, <1>5, <1>6

LEMMA Mod3 == ASSUME NEW n \in Nat PROVE n % 3 \in 0 .. 2 /\ (n + 3) % 3 = n % 3
  OBVIOUS

LEMMA Mod3Next == ASSUME NEW n \in Nat
                  PROVE  /\ (n + 1) % 3 = ((n % 3) + 1) % 3 /\ (n + 1) % 3 # n % 3
                         /\ (n + 2) % 3 # n % 3 /\ (n + 2) % 3 # (n + 1) % 3
  OBVIOUS

LEMMA Half ==
  /\ CellsPerBuffer \in Nat /\ (CellsPerBuffer \div 2) \in Nat
  /\ CellsPerBuffer = 2 * (CellsPerBuffer \div 2)
<1>1. CellsPerBuffer \in Nat /\ CellsPerBuffer % 2 = 0
  BY CallsAssumption, BufferAssumption DEF NumStages
<1>2. 2 \in Nat \ {0}
  OBVIOUS
<1> QED BY <1>1, <1>2, DivFacts

LEMMA Sizes == /\ WorldSize \in Nat \ {0} /\ MaxTokens \in Nat \ {0}
               /\ Ranks = 0 .. WorldSize - 1 /\ Tokens = 0 .. MaxTokens - 1
               /\ Ctas = 0 .. 2 * MaxTokens - 1
BY CallsAssumption DEF Ranks, Tokens, Ctas

LEMMA StageAddrIs ==
  ASSUME NEW i \in 0 .. 2
  PROVE  /\ StageAddr(1, i, 0) = i * CellsPerBuffer
         /\ \A stage \in 0 .. 1 :
              StageAddr(2, i, stage) = i * CellsPerBuffer + stage * (CellsPerBuffer \div 2)
<1>1. CellsPerBuffer \div 1 = CellsPerBuffer
  BY Half
<1>2. StageAddr(1, i, 0) = i * CellsPerBuffer
  BY <1>1, Half DEF StageAddr
<1>3. ASSUME NEW stage \in 0 .. 1
      PROVE  StageAddr(2, i, stage) = i * CellsPerBuffer + stage * (CellsPerBuffer \div 2)
  <2> DEFINE h == CellsPerBuffer \div 2
  <2>1. h \in Nat /\ CellsPerBuffer = 2 * h
    BY Half
  <2>2. StageAddr(2, i, stage) = (i * 2 + stage) * h
    BY DEF StageAddr
  <2> HIDE DEF h
  <2>3. \/ i = 0 \/ i = 1 \/ i = 2
    OBVIOUS
  <2>4. stage = 0 \/ stage = 1
    OBVIOUS
  <2>5. (i * 2 + stage) * h = i * (2 * h) + stage * h
    BY <2>1, <2>3, <2>4
  <2> QED BY <2>1, <2>2, <2>5 DEF h
<1> QED BY <1>2, <1>3

-----------------------------------------------------------------------------
\* Calls and packets.

LEMMA CallFacts ==
  ASSUME TypeOK, NEW k \in 1 .. Len(program)
  PROVE  /\ Len(program) \in Nat
         /\ program[k].kind \in Kinds
         /\ program[k].tokens \in 1 .. MaxTokens /\ program[k].tokens \in Nat \ {0}
         /\ program[k].kind = "oneshot" => program[k].tokens * WorldSize <= CellsPerBuffer
         /\ program[k].kind # "oneshot" =>
              2 * RoundUp(program[k].tokens, WorldSize) <= CellsPerBuffer
<1>1. program \in Programs
  BY DEF TypeOK
<1>2. program \in Seq([kind : Kinds, tokens : 1 .. MaxTokens])
  BY <1>1, CallsAssumption
<1>3. Len(program) \in Nat /\ DOMAIN program = 1 .. Len(program)
  BY <1>2
<1>4. program[k] \in [kind : Kinds, tokens : 1 .. MaxTokens]
  BY <1>2, ElementOfSeq
<1>5. MaxTokens \in Nat
  BY Sizes
<1>6. IF program[k].kind = "oneshot"
        THEN program[k].tokens * WorldSize <= CellsPerBuffer
        ELSE NumStages * RoundUp(program[k].tokens, WorldSize) <= CellsPerBuffer
  BY <1>1, <1>3, BufferAssumption
<1>7. program[k].kind \in Kinds /\ program[k].tokens \in 1 .. MaxTokens
  BY <1>4
<1> QED BY <1>3, <1>5, <1>6, <1>7 DEF NumStages

LEMMA PacketFacts ==
  ASSUME TypeOK, NEW p \in Packets
  PROVE  /\ p \in [way : Ways, call : 1 .. Len(program), token : Tokens, from : Ranks]
         /\ p.way \in Ways /\ p.call \in 1 .. Len(program) /\ p.call \in Nat
         /\ p.token \in Tokens /\ p.token \in Nat
         /\ p.from \in Ranks /\ p.from \in 0 .. WorldSize - 1 /\ p.from \in Nat
         /\ p.token < program[p.call].tokens /\ p.token \in 0 .. program[p.call].tokens - 1
         /\ p.way = "oneshot" <=> program[p.call].kind = "oneshot"
         /\ p.way = "broadcast" => p.from = Owner(p.token)
<1>1. /\ p \in [way : Ways, call : 1 .. Len(program), token : Tokens, from : Ranks]
      /\ p.token < program[p.call].tokens
      /\ (p.way = "oneshot") <=> (program[p.call].kind = "oneshot")
      /\ p.way = "broadcast" => p.from = Owner(p.token)
  BY DEF Packets
<1>2. /\ p.way \in Ways /\ p.call \in 1 .. Len(program)
      /\ p.token \in Tokens /\ p.from \in Ranks
  BY <1>1
<1>3. p.token \in Nat /\ p.from \in Nat /\ p.from \in 0 .. WorldSize - 1
  BY <1>2, Sizes
<1>4. Len(program) \in Nat /\ program[p.call].tokens \in Nat
  BY <1>2, CallFacts
<1>5. p.call \in Nat /\ p.token \in 0 .. program[p.call].tokens - 1
  BY <1>1, <1>2, <1>3, <1>4
<1> QED BY <1>1, <1>2, <1>3, <1>5

LEMMA IsPacket ==
  ASSUME TypeOK, NEW w \in Ways, NEW k \in 1 .. Len(program), NEW t \in Nat, NEW s \in Ranks,
         t < program[k].tokens, (w = "oneshot") <=> (program[k].kind = "oneshot"),
         w = "broadcast" => s = Owner(t)
  PROVE  /\ [way |-> w, call |-> k, token |-> t, from |-> s] \in Packets
         /\ [way |-> w, call |-> k, token |-> t, from |-> s].way = w
         /\ [way |-> w, call |-> k, token |-> t, from |-> s].call = k
         /\ [way |-> w, call |-> k, token |-> t, from |-> s].token = t
         /\ [way |-> w, call |-> k, token |-> t, from |-> s].from = s
<1>1. t \in Tokens
  <2>1. program[k].tokens \in 1 .. MaxTokens
    BY CallFacts
  <2>2. MaxTokens \in Nat /\ Tokens = 0 .. MaxTokens - 1
    BY Sizes
  <2> QED BY <2>1, <2>2
<1> QED BY <1>1 DEF Packets

Offset(p) == CASE p.way = "oneshot" -> p.token * WorldSize + p.from
               [] p.way = "scatter" -> (p.token \div WorldSize) * WorldSize + p.from
               [] p.way = "broadcast" -> (CellsPerBuffer \div 2) + p.token

LEMMA BufferOfFacts == ASSUME NEW k \in Nat \ {0} PROVE BufferOf(k) \in 0 .. 2
BY DEF BufferOf, NumBuffers

LEMMA OffsetFacts ==
  ASSUME TypeOK, NEW p \in Packets
  PROVE  /\ Offset(p) \in 0 .. CellsPerBuffer - 1
         /\ p.way = "scatter" =>
              /\ Offset(p) \in 0 .. RoundUp(program[p.call].tokens, WorldSize) - 1
              /\ Offset(p) < CellsPerBuffer \div 2
         /\ p.way = "oneshot" => Offset(p) \in 0 .. program[p.call].tokens * WorldSize - 1
<1>1. /\ p.way \in Ways /\ p.token \in Nat /\ p.from \in 0 .. WorldSize - 1
      /\ p.call \in 1 .. Len(program)
      /\ p.token < program[p.call].tokens /\ p.token \in 0 .. program[p.call].tokens - 1
      /\ p.way = "oneshot" <=> program[p.call].kind = "oneshot"
  BY PacketFacts
<1>2. WorldSize \in Nat \ {0}
  BY Sizes
<1>3. PICK n \in Nat \ {0} : n = program[p.call].tokens
  BY <1>1, CallFacts
<1>4. PICK t \in Nat : t = p.token
  BY <1>1
<1>5. PICK s \in 0 .. WorldSize - 1 : s = p.from
  BY <1>1
<1>6. CASE p.way = "oneshot"
  <2>1. n * WorldSize <= CellsPerBuffer
    BY <1>1, <1>3, <1>6, CallFacts
  <2>2. t * WorldSize + s < n * WorldSize
    BY <1>1, <1>2, <1>3, <1>4, PairLess
  <2>3. Offset(p) = t * WorldSize + s
    BY <1>4, <1>5, <1>6 DEF Offset
  <2>4. t * WorldSize \in Nat /\ n * WorldSize \in Nat
    BY <1>2, MulType
  <2>5. Offset(p) \in 0 .. n * WorldSize - 1 /\ Offset(p) \in 0 .. CellsPerBuffer - 1
    BY <1>2, <2>1, <2>2, <2>3, <2>4, Half
  <2> QED BY <1>3, <1>6, <2>5
<1>7. CASE p.way = "scatter"
  <2>1. 2 * RoundUp(n, WorldSize) <= CellsPerBuffer
    BY <1>1, <1>3, <1>7, CallFacts
  <2>2. RoundUp(n, WorldSize) \in Nat /\ (t \div WorldSize) * WorldSize + s < RoundUp(n, WorldSize)
    BY <1>1, <1>2, <1>3, <1>4, RoundUpFacts
  <2>3. Offset(p) = (t \div WorldSize) * WorldSize + s
    BY <1>4, <1>5, <1>7 DEF Offset
  <2>4. (t \div WorldSize) * WorldSize \in Nat
    BY <1>2, DivFacts, MulType
  <2>5. /\ Offset(p) \in 0 .. RoundUp(n, WorldSize) - 1 /\ Offset(p) \in 0 .. CellsPerBuffer - 1
        /\ Offset(p) < CellsPerBuffer \div 2
    BY <1>2, <2>1, <2>2, <2>3, <2>4, Half
  <2> QED BY <1>3, <1>7, <2>5
<1>8. CASE p.way = "broadcast"
  <2>1. 2 * RoundUp(n, WorldSize) <= CellsPerBuffer
    BY <1>1, <1>3, <1>8, CallFacts
  <2>2. RoundUp(n, WorldSize) \in Nat /\ n <= RoundUp(n, WorldSize)
    BY <1>2, RoundUpFacts
  <2>3. Offset(p) = (CellsPerBuffer \div 2) + t
    BY <1>4, <1>8 DEF Offset
  <2>4. Offset(p) \in 0 .. CellsPerBuffer - 1
    <3>1. t < n
      BY <1>1, <1>3, <1>4
    <3>2. (CellsPerBuffer \div 2) \in Nat /\ CellsPerBuffer = 2 * (CellsPerBuffer \div 2)
      BY Half
    <3> QED BY <2>1, <2>2, <2>3, <3>1, <3>2
  <2> QED BY <1>8, <2>4
<1> QED BY <1>1, <1>6, <1>7, <1>8 DEF Ways

LEMMA PlaceIs ==
  ASSUME TypeOK, NEW p \in Packets
  PROVE  /\ BufferOf(p.call) \in 0 .. 2
         /\ Place(p) = BufferOf(p.call) * CellsPerBuffer + Offset(p)
         /\ Place(p) \in Addresses
<1>1. p.way \in Ways /\ p.call \in Nat \ {0} /\ p.token \in Nat /\ p.from \in Nat
  BY PacketFacts
<1>2. PICK i \in 0 .. 2 : i = BufferOf(p.call)
  BY <1>1, BufferOfFacts
<1>3. i * CellsPerBuffer \in Nat /\ CellsPerBuffer \in Nat /\ (CellsPerBuffer \div 2) \in Nat
  BY <1>2, Half, MulType
<1>4. Offset(p) \in 0 .. CellsPerBuffer - 1
  BY OffsetFacts
<1>5. Place(p) = i * CellsPerBuffer + Offset(p)
  <2>0. /\ StageAddr(1, i, 0) = i * CellsPerBuffer
        /\ StageAddr(2, i, 0) = i * CellsPerBuffer
        /\ StageAddr(2, i, 1) = i * CellsPerBuffer + (CellsPerBuffer \div 2)
    BY <1>3, StageAddrIs
  <2>1. CASE p.way = "oneshot"
    <3>1. Place(p) = StageAddr(1, i, 0) + p.token * WorldSize + p.from
      BY <1>2, <2>1 DEF Place, OneshotAddr
    <3>2. p.token * WorldSize \in Nat
      BY <1>1, Sizes, MulType
    <3>3. Offset(p) = p.token * WorldSize + p.from
      BY <2>1 DEF Offset
    <3> QED BY <1>1, <1>3, <2>0, <3>1, <3>2, <3>3
  <2>2. CASE p.way = "scatter"
    <3>1. Place(p) = StageAddr(2, i, 0) + (p.token \div WorldSize) * WorldSize + p.from
      BY <1>2, <2>2 DEF Place, ScatterAddr, NumStages, SCATTER
    <3>2. (p.token \div WorldSize) * WorldSize \in Nat
      BY <1>1, Sizes, DivFacts, MulType
    <3>3. Offset(p) = (p.token \div WorldSize) * WorldSize + p.from
      BY <2>2 DEF Offset
    <3> QED BY <1>1, <1>3, <2>0, <3>1, <3>2, <3>3
  <2>3. CASE p.way = "broadcast"
    <3>1. Place(p) = StageAddr(2, i, 1) + p.token
      BY <1>2, <2>3 DEF Place, BroadcastAddr, NumStages, BROADCAST
    <3>3. Offset(p) = (CellsPerBuffer \div 2) + p.token
      BY <2>3 DEF Offset
    <3> QED BY <1>1, <1>3, <2>0, <3>1, <3>3
  <2> QED BY <1>1, <2>1, <2>2, <2>3 DEF Ways
<1>6. Place(p) \in Addresses
  BY <1>2, <1>3, <1>4, <1>5 DEF Addresses, NumBuffers
<1> QED BY <1>2, <1>5, <1>6

\* Two packets of calls that are close, for one rank and one place, are the
\* same: where a cell is tells which call, way, token and rank it is from.
LEMMA SameCall ==
  ASSUME NEW k \in Nat \ {0}, NEW l \in Nat \ {0}, k <= l + 2, l <= k + 2,
         BufferOf(k) = BufferOf(l)
  PROVE  k = l
BY DEF BufferOf, NumBuffers

LEMMA SamePlace ==
  ASSUME TypeOK, NEW p \in Packets, NEW q \in Packets, NEW r \in Ranks,
         GoesTo(p, r), GoesTo(q, r), Place(p) = Place(q),
         p.call <= q.call + 2, q.call <= p.call + 2
  PROVE  p = q
<1>1. /\ p \in [way : Ways, call : 1 .. Len(program), token : Tokens, from : Ranks]
      /\ q \in [way : Ways, call : 1 .. Len(program), token : Tokens, from : Ranks]
  BY PacketFacts
<1>2. /\ p.way \in Ways /\ p.call \in Nat \ {0} /\ p.token \in Nat /\ p.from \in 0 .. WorldSize - 1
      /\ q.way \in Ways /\ q.call \in Nat \ {0} /\ q.token \in Nat /\ q.from \in 0 .. WorldSize - 1
  BY PacketFacts
<1>3. /\ BufferOf(p.call) \in 0 .. 2 /\ BufferOf(q.call) \in 0 .. 2
      /\ Place(p) = BufferOf(p.call) * CellsPerBuffer + Offset(p)
      /\ Place(q) = BufferOf(q.call) * CellsPerBuffer + Offset(q)
      /\ Offset(p) \in 0 .. CellsPerBuffer - 1 /\ Offset(q) \in 0 .. CellsPerBuffer - 1
  BY PlaceIs, OffsetFacts
<1>4. BufferOf(p.call) = BufferOf(q.call) /\ Offset(p) = Offset(q)
  <2>1. PICK i \in 0 .. 2 : i = BufferOf(p.call)
    BY <1>3
  <2>2. PICK j \in 0 .. 2 : j = BufferOf(q.call)
    BY <1>3
  <2>3. i * CellsPerBuffer + Offset(p) = j * CellsPerBuffer + Offset(q)
    BY <1>3, <2>1, <2>2
  <2>4. i \in Nat /\ j \in Nat /\ CellsPerBuffer \in Nat
    BY Half
  <2>5. Offset(p) \in 0 .. CellsPerBuffer - 1 /\ Offset(q) \in 0 .. CellsPerBuffer - 1
    BY <1>3
  <2>6. i = j /\ Offset(p) = Offset(q)
    BY <2>3, <2>4, <2>5, PairUnique
  <2> QED BY <2>1, <2>2, <2>6
<1>5. p.call = q.call
  BY <1>2, <1>4, SameCall
<1>6. (p.way = "oneshot") <=> (q.way = "oneshot")
  BY <1>5, PacketFacts
<1>7. WorldSize \in Nat \ {0}
  BY Sizes
<1>8. CASE p.way = "oneshot"
  <2>1. p.token * WorldSize + p.from = q.token * WorldSize + q.from
    BY <1>4, <1>6, <1>8 DEF Offset
  <2>2. p.token = q.token /\ p.from = q.from
    <3>1. /\ p.token \in Nat /\ p.from \in 0 .. WorldSize - 1
          /\ q.token \in Nat /\ q.from \in 0 .. WorldSize - 1 /\ WorldSize \in Nat
      BY <1>2, <1>7
    <3> QED BY <2>1, <3>1, PairUnique
  <2> QED BY <1>1, <1>5, <1>6, <1>8, <2>2
<1>9. CASE p.way = "scatter" /\ q.way = "scatter"
  <2>1. (p.token \div WorldSize) * WorldSize + p.from = (q.token \div WorldSize) * WorldSize + q.from
    BY <1>4, <1>9 DEF Offset
  <2>2. (p.token \div WorldSize) \in Nat /\ (q.token \div WorldSize) \in Nat
    BY <1>2, <1>7, DivFacts
  <2>3. p.token \div WorldSize = q.token \div WorldSize /\ p.from = q.from
    BY <1>2, <1>7, <2>1, <2>2, PairUnique
  <2>4. p.token % WorldSize = q.token % WorldSize
    BY <1>9 DEF GoesTo, Owner
  <2>5. p.token = q.token
    BY <1>2, <1>7, <2>3, <2>4, DivModUnique
  <2> QED BY <1>1, <1>5, <1>9, <2>3, <2>5
<1>10. CASE p.way = "broadcast" /\ q.way = "broadcast"
  <2>1. (CellsPerBuffer \div 2) + p.token = (CellsPerBuffer \div 2) + q.token
    BY <1>4, <1>10 DEF Offset
  <2>2. p.token = q.token
    BY <1>2, <2>1, Half
  <2>3. p.from = q.from
    BY <1>10, <2>2, PacketFacts
  <2> QED BY <1>1, <1>5, <1>10, <2>2, <2>3
<1>11. CASE p.way = "scatter" /\ q.way = "broadcast"
  <2>1. Offset(p) < CellsPerBuffer \div 2 /\ Offset(q) = (CellsPerBuffer \div 2) + q.token
    BY <1>11, OffsetFacts DEF Offset
  <2> QED BY <1>2, <1>3, <1>4, <2>1, Half
<1>12. CASE p.way = "broadcast" /\ q.way = "scatter"
  <2>1. Offset(q) < CellsPerBuffer \div 2 /\ Offset(p) = (CellsPerBuffer \div 2) + p.token
    BY <1>12, OffsetFacts DEF Offset
  <2> QED BY <1>2, <1>3, <1>4, <2>1, Half
<1> QED BY <1>2, <1>6, <1>8, <1>9, <1>10, <1>11, <1>12 DEF Ways

-----------------------------------------------------------------------------
\* The flags after n calls, and the cells they name.

LEMMA LayoutFacts ==
  ASSUME TypeOK, NEW n \in 0 .. Len(program)
  PROVE  /\ LayoutAfter(n) \in Layout
         /\ LayoutAfter(n).cur = n % 3
         /\ n = 0 => LayoutAfter(n).stages = 0
         /\ n > 0 =>
              /\ LayoutAfter(n).dirty = BufferOf(n)
              /\ program[n].kind = "oneshot" =>
                   /\ LayoutAfter(n).stages = 1
                   /\ LayoutAfter(n).clear[0] = program[n].tokens * WorldSize
              /\ program[n].kind # "oneshot" =>
                   /\ LayoutAfter(n).stages = 2
                   /\ LayoutAfter(n).clear[0] = RoundUp(program[n].tokens, WorldSize)
                   /\ LayoutAfter(n).clear[1] = program[n].tokens
<1>1. CASE n = 0
  <2>1. LayoutAfter(n) = [cur |-> 0, dirty |-> 2, stages |-> 0,
                          clear |-> [stage \in 0 .. 1 |-> 0]]
    BY <1>1 DEF LayoutAfter, FirstLayout, NumStages
  <2>2. 0 \in 0 .. CellsPerBuffer
    BY Half
  <2>3. n % 3 = 0
    BY <1>1
  <2>4. LayoutAfter(n) \in Layout
    BY <2>1, <2>2 DEF Layout, NumBuffers, NumStages
  <2> QED BY <1>1, <2>1, <2>3, <2>4
<1>2. CASE n > 0
  <2>1. n \in 1 .. Len(program) /\ n \in Nat \ {0} /\ n - 1 \in Nat
    BY <1>2
  <2>2. PICK b \in 0 .. 2 : b = BufferOf(n)
    BY <2>1, BufferOfFacts
  <2>3. PICK t \in Nat \ {0} : t = program[n].tokens
    BY <2>1, CallFacts
  <2>4. (b + 1) % 3 = n % 3 /\ (b + 1) % 3 \in 0 .. 2
    <3>1. b = (n - 1) % 3
      BY <2>2 DEF BufferOf, NumBuffers
    <3> QED BY <2>1, <3>1
  <2> DEFINE f == [stage \in 0 .. 1 |->
                     IF program[n].kind = "oneshot"
                       THEN IF stage = 0 THEN t * WorldSize ELSE 0
                       ELSE IF stage = 0 THEN RoundUp(t, WorldSize) ELSE t]
             s == IF program[n].kind = "oneshot" THEN 1 ELSE 2
  <2>5. LayoutAfter(n) = [cur |-> (b + 1) % 3, dirty |-> b, stages |-> s, clear |-> f]
    BY <1>2, <2>2, <2>3 DEF LayoutAfter, NextLayout, NumStages, NumBuffers, SCATTER
  <2>6. f \in [0 .. 1 -> 0 .. CellsPerBuffer]
    <3>1. WorldSize \in Nat \ {0} /\ CellsPerBuffer \in Nat
      BY Sizes, Half
    <3>2. t * WorldSize \in Nat /\ RoundUp(t, WorldSize) \in Nat /\ t <= RoundUp(t, WorldSize)
      BY <3>1, MulType, RoundUpFacts
    <3>3. program[n].kind = "oneshot" => t * WorldSize <= CellsPerBuffer
      BY <2>1, <2>3, CallFacts
    <3>4. program[n].kind # "oneshot" => 2 * RoundUp(t, WorldSize) <= CellsPerBuffer
      BY <2>1, <2>3, CallFacts
    <3> QED BY <3>1, <3>2, <3>3, <3>4
  <2>7. f[0] = (IF program[n].kind = "oneshot" THEN t * WorldSize ELSE RoundUp(t, WorldSize))
        /\ f[1] = (IF program[n].kind = "oneshot" THEN 0 ELSE t)
    OBVIOUS
  <2>8. s \in 0 .. 2
    OBVIOUS
  <2> HIDE DEF f
  <2>9. LayoutAfter(n) \in Layout
    BY <2>4, <2>5, <2>6, <2>8 DEF Layout, NumStages, NumBuffers
  <2>10. /\ LayoutAfter(n).cur = n % 3 /\ LayoutAfter(n).dirty = b
         /\ LayoutAfter(n).stages = s /\ LayoutAfter(n).clear = f
    BY <2>4, <2>5
  <2> QED BY <1>2, <2>2, <2>3, <2>7, <2>9, <2>10
<1> QED BY <1>1, <1>2

LEMMA LayoutNext ==
  ASSUME TypeOK, NEW n \in 0 .. Len(program) - 1
  PROVE  /\ NextLayout(LayoutAfter(n), program[n + 1].kind, program[n + 1].tokens)
              = LayoutAfter(n + 1)
         /\ LayoutAfter(n).cur = BufferOf(n + 1)
<1>1. LayoutAfter(n).cur = n % 3
  <2>1. n \in 0 .. Len(program)
    OBVIOUS
  <2> QED BY <2>1, LayoutFacts
<1>2. BufferOf(n + 1) = n % 3 /\ n + 1 # 0
  BY DEF BufferOf, NumBuffers
<1>3. LayoutAfter(n + 1)
        = NextLayout([cur |-> BufferOf(n + 1)], program[n + 1].kind, program[n + 1].tokens)
  BY <1>2 DEF LayoutAfter
<1>4. [cur |-> BufferOf(n + 1)].cur = LayoutAfter(n).cur
  BY <1>1, <1>2
<1> HIDE DEF LayoutAfter
<1> QED BY <1>1, <1>2, <1>3, <1>4 DEF NextLayout

\* Every cell that a call's packets use is one that its flags name.
LEMMA PlaceNamed ==
  ASSUME TypeOK, NEW p \in Packets
  PROVE  \E stage \in 0 .. 1 :
           /\ stage < LayoutAfter(p.call).stages
           /\ \E i \in 0 .. LayoutAfter(p.call).clear[stage] - 1 :
                Place(p) = StageAddr(LayoutAfter(p.call).stages, LayoutAfter(p.call).dirty, stage) + i
<1>1. /\ p.way \in Ways /\ p.call \in 1 .. Len(program) /\ p.call \in Nat \ {0}
      /\ p.token \in Nat /\ p.token < program[p.call].tokens
      /\ (p.way = "oneshot") <=> (program[p.call].kind = "oneshot")
  BY PacketFacts
<1>2. p.call \in 0 .. Len(program) /\ p.call > 0
  BY <1>1, CallFacts
<1> DEFINE l == LayoutAfter(p.call)
<1>3. /\ l.dirty = BufferOf(p.call)
      /\ program[p.call].kind = "oneshot" =>
           /\ l.stages = 1 /\ l.clear[0] = program[p.call].tokens * WorldSize
      /\ program[p.call].kind # "oneshot" =>
           /\ l.stages = 2
           /\ l.clear[0] = RoundUp(program[p.call].tokens, WorldSize)
           /\ l.clear[1] = program[p.call].tokens
  BY <1>2, LayoutFacts
<1> HIDE DEF l
<1>4. PICK b \in 0 .. 2 : b = BufferOf(p.call)
  BY <1>1, BufferOfFacts
<1>5. Place(p) = b * CellsPerBuffer + Offset(p) /\ b * CellsPerBuffer \in Nat
  BY <1>4, PlaceIs, MulType, Half
<1>6. /\ StageAddr(1, b, 0) = b * CellsPerBuffer
      /\ StageAddr(2, b, 0) = b * CellsPerBuffer
      /\ StageAddr(2, b, 1) = b * CellsPerBuffer + (CellsPerBuffer \div 2)
  BY <1>5, StageAddrIs, Half
<1>7. CASE p.way = "oneshot"
  <2>1. l.stages = 1 /\ l.dirty = b /\ l.clear[0] = program[p.call].tokens * WorldSize
    BY <1>1, <1>3, <1>4, <1>7
  <2>2. Offset(p) \in 0 .. program[p.call].tokens * WorldSize - 1
    BY <1>7, OffsetFacts
  <2>3. Offset(p) \in 0 .. l.clear[0] - 1
    BY <2>1, <2>2
  <2>4. 0 \in 0 .. 1 /\ 0 < l.stages /\ Place(p) = StageAddr(l.stages, l.dirty, 0) + Offset(p)
    BY <1>5, <1>6, <2>1
  <2> QED BY <2>3, <2>4 DEF l
<1>8. CASE p.way = "scatter"
  <2>1. l.stages = 2 /\ l.dirty = b /\ l.clear[0] = RoundUp(program[p.call].tokens, WorldSize)
    BY <1>1, <1>3, <1>4, <1>8
  <2>2. Offset(p) \in 0 .. RoundUp(program[p.call].tokens, WorldSize) - 1
    BY <1>8, OffsetFacts
  <2>3. Offset(p) \in 0 .. l.clear[0] - 1
    BY <2>1, <2>2
  <2>4. 0 \in 0 .. 1 /\ 0 < l.stages /\ Place(p) = StageAddr(l.stages, l.dirty, 0) + Offset(p)
    BY <1>5, <1>6, <2>1
  <2> QED BY <2>3, <2>4 DEF l
<1>9. CASE p.way = "broadcast"
  <2>1. l.stages = 2 /\ l.dirty = b /\ l.clear[1] = program[p.call].tokens
    BY <1>1, <1>3, <1>4, <1>9
  <2>2. p.token \in 0 .. program[p.call].tokens - 1
    BY PacketFacts
  <2>3. p.token \in 0 .. l.clear[1] - 1
    BY <2>1, <2>2
  <2>4. Offset(p) = (CellsPerBuffer \div 2) + p.token
    BY <1>9 DEF Offset
  <2>5. 1 \in 0 .. 1 /\ 1 < l.stages /\ Place(p) = StageAddr(l.stages, l.dirty, 1) + p.token
    BY <1>1, <1>5, <1>6, <2>1, <2>4, Half
  <2> QED BY <2>3, <2>5 DEF l
<1> QED BY <1>1, <1>7, <1>8, <1>9 DEF Ways

\* The grid of the next call clears them, whatever its size.
LEMMA PlaceIsDirty ==
  ASSUME TypeOK, NEW p \in Packets, NEW n \in Nat \ {0}
  PROVE  \E stage \in 0 .. 1, c \in 0 .. n - 1 :
           Place(p) \in DirtyCells(LayoutAfter(p.call), stage, c, n)
<1>1. PICK stage \in 0 .. 1 :
           /\ stage < LayoutAfter(p.call).stages
           /\ \E i \in 0 .. LayoutAfter(p.call).clear[stage] - 1 :
                Place(p) = StageAddr(LayoutAfter(p.call).stages, LayoutAfter(p.call).dirty, stage) + i
  BY PlaceNamed
<1>2. PICK i \in 0 .. LayoutAfter(p.call).clear[stage] - 1 :
           Place(p) = StageAddr(LayoutAfter(p.call).stages, LayoutAfter(p.call).dirty, stage) + i
  BY <1>1
<1>3. i \in Nat
  BY <1>2
<1>4. PICK c \in 0 .. n - 1 : i % n = c
  BY <1>3, DivFacts
<1>5. Place(p) \in DirtyCells(LayoutAfter(p.call), stage, c, n)
  BY <1>1, <1>2, <1>4 DEF DirtyCells
<1> QED BY <1>5

\* They are all in the buffer of the call.
LEMMA DirtyInBuffer ==
  ASSUME TypeOK, NEW n \in 0 .. Len(program), NEW stage \in 0 .. 1, NEW c, NEW m,
         NEW a \in DirtyCells(LayoutAfter(n), stage, c, m)
  PROVE  /\ n > 0
         /\ \E o \in 0 .. CellsPerBuffer - 1 : a = BufferOf(n) * CellsPerBuffer + o
<1> DEFINE l == LayoutAfter(n)
<1>1. PICK i \in 0 .. l.clear[stage] - 1 :
        stage < l.stages /\ a = StageAddr(l.stages, l.dirty, stage) + i
  BY DEF DirtyCells
<1>2. n > 0
  BY <1>1, LayoutFacts
<1>3. n \in 1 .. Len(program) /\ n \in Nat \ {0}
  BY <1>2
<1>4. /\ l.dirty = BufferOf(n)
      /\ program[n].kind = "oneshot" =>
           /\ l.stages = 1 /\ l.clear[0] = program[n].tokens * WorldSize
      /\ program[n].kind # "oneshot" =>
           /\ l.stages = 2
           /\ l.clear[0] = RoundUp(program[n].tokens, WorldSize)
           /\ l.clear[1] = program[n].tokens
  BY <1>2, LayoutFacts
<1> HIDE DEF l
<1>5. PICK b \in 0 .. 2 : b = BufferOf(n)
  BY <1>3, BufferOfFacts
<1>6. PICK t \in Nat \ {0} : t = program[n].tokens
  BY <1>3, CallFacts
<1>7. /\ StageAddr(1, b, 0) = b * CellsPerBuffer
      /\ StageAddr(2, b, 0) = b * CellsPerBuffer
      /\ StageAddr(2, b, 1) = b * CellsPerBuffer + (CellsPerBuffer \div 2)
      /\ b * CellsPerBuffer \in Nat
  <2>1. b * CellsPerBuffer \in Nat
    BY MulType, Half
  <2> QED BY <2>1, StageAddrIs, Half
<1>8. CASE program[n].kind = "oneshot"
  <2>1. l.stages = 1 /\ stage = 0 /\ l.clear[0] = t * WorldSize /\ t * WorldSize <= CellsPerBuffer
    <3>1. l.stages = 1 /\ l.clear[0] = t * WorldSize
      BY <1>4, <1>6, <1>8
    <3>2. t * WorldSize <= CellsPerBuffer
      BY <1>3, <1>6, <1>8, CallFacts
    <3>3. stage = 0
      BY <1>1, <3>1
    <3> QED BY <3>1, <3>2, <3>3
  <2>2. i \in 0 .. t * WorldSize - 1 /\ a = b * CellsPerBuffer + i
    BY <1>1, <1>4, <1>5, <1>7, <2>1
  <2>3. t * WorldSize \in Nat
    BY Sizes, MulType
  <2>4. i \in 0 .. CellsPerBuffer - 1
    BY <2>1, <2>2, <2>3, Half
  <2> QED BY <1>2, <1>5, <2>2, <2>4
<1>9. CASE program[n].kind # "oneshot"
  <2>1. /\ l.stages = 2 /\ l.clear[0] = RoundUp(t, WorldSize) /\ l.clear[1] = t
        /\ 2 * RoundUp(t, WorldSize) <= CellsPerBuffer
        /\ RoundUp(t, WorldSize) \in Nat /\ t <= RoundUp(t, WorldSize)
    <3>1. l.stages = 2 /\ l.clear[0] = RoundUp(t, WorldSize) /\ l.clear[1] = t
      BY <1>4, <1>6, <1>9
    <3>2. 2 * RoundUp(t, WorldSize) <= CellsPerBuffer
      BY <1>3, <1>6, <1>9, CallFacts
    <3> QED BY <3>1, <3>2, Sizes, RoundUpFacts
  <2>2. CASE stage = 0
    <3>1. i \in 0 .. RoundUp(t, WorldSize) - 1 /\ a = b * CellsPerBuffer + i
      BY <1>1, <1>4, <1>5, <1>7, <2>1, <2>2
    <3>2. i \in 0 .. CellsPerBuffer - 1
      BY <2>1, <3>1, Half
    <3> QED BY <1>2, <1>5, <3>1, <3>2
  <2>3. CASE stage = 1
    <3>1. i \in 0 .. t - 1 /\ a = b * CellsPerBuffer + (CellsPerBuffer \div 2) + i
      BY <1>1, <1>4, <1>5, <1>7, <2>1, <2>3
    <3>2. (CellsPerBuffer \div 2) + i \in 0 .. CellsPerBuffer - 1
      <4>1. PICK h \in Nat : h = CellsPerBuffer \div 2
        BY Half
      <4>2. CellsPerBuffer = 2 * h
        BY <4>1, Half
      <4>3. t <= h
        BY <2>1, <4>2
      <4>4. i \in Nat /\ i < t
        BY <3>1
      <4>5. h + i \in 0 .. CellsPerBuffer - 1
        BY <4>2, <4>3, <4>4
      <4> QED BY <4>1, <4>5
    <3>3. a = b * CellsPerBuffer + ((CellsPerBuffer \div 2) + i)
      BY <1>7, <3>1, Half
    <3> QED BY <1>2, <1>5, <3>2, <3>3
  <2> QED BY <2>2, <2>3
<1> QED BY <1>8, <1>9

\* So the clearing in a call leaves alone what is of this call or the next.
LEMMA NotDirty ==
  ASSUME TypeOK, NEW n \in 0 .. Len(program), NEW stage \in 0 .. 1, NEW c, NEW m,
         NEW p \in Packets, p.call = n + 1 \/ p.call = n + 2
  PROVE  Place(p) \notin DirtyCells(LayoutAfter(n), stage, c, m)
<1> SUFFICES ASSUME Place(p) \in DirtyCells(LayoutAfter(n), stage, c, m) PROVE FALSE
  OBVIOUS
<1>1. n > 0
  BY DirtyInBuffer
<1>2. PICK o \in 0 .. CellsPerBuffer - 1 : Place(p) = BufferOf(n) * CellsPerBuffer + o
  BY DirtyInBuffer
<1>3. n \in Nat \ {0} /\ p.call \in Nat \ {0}
  BY <1>1
<1>4. PICK b \in 0 .. 2 : b = BufferOf(n)
  BY <1>3, BufferOfFacts
<1>5. PICK d \in 0 .. 2 : d = BufferOf(p.call)
  BY <1>3, BufferOfFacts
<1>6. b * CellsPerBuffer + o = d * CellsPerBuffer + Offset(p)
  BY <1>2, <1>4, <1>5, PlaceIs
<1>7. Offset(p) \in 0 .. CellsPerBuffer - 1
  BY OffsetFacts
<1>8. b \in Nat /\ d \in Nat /\ CellsPerBuffer \in Nat
  BY Half
<1>9. b = d
  BY <1>6, <1>7, <1>8, PairUnique
<1>10. n <= p.call + 2 /\ p.call <= n + 2 /\ p.call # n
  BY <1>3
<1> QED BY <1>3, <1>4, <1>5, <1>9, <1>10, SameCall

-----------------------------------------------------------------------------
\* Ranks, their calls and their CTAs.

LEMMA TokenFacts ==
  ASSUME NEW t \in Tokens
  PROVE  /\ t \in Nat /\ t \in Ctas /\ TokenOf(t) = t /\ ~IsNorm(t)
         /\ MaxTokens + t \in Ctas /\ TokenOf(MaxTokens + t) = t /\ IsNorm(MaxTokens + t)
<1>1. t \in 0 .. MaxTokens - 1 /\ MaxTokens \in Nat \ {0} /\ Ctas = 0 .. 2 * MaxTokens - 1
  BY Sizes
<1>2. t % MaxTokens = t
  BY <1>1
<1>3. (MaxTokens + t) % MaxTokens = t
  <2>1. MaxTokens + t \in Nat
    BY <1>1
  <2>2. (MaxTokens + t) % MaxTokens \in 0 .. MaxTokens - 1
    BY <1>1, <2>1, DivFacts
  <2>3. MaxTokens + t = MaxTokens * ((MaxTokens + t) \div MaxTokens) + ((MaxTokens + t) % MaxTokens)
    BY <1>1, <2>1, DivFacts
  <2>4. PICK q \in Nat : q = (MaxTokens + t) \div MaxTokens
    BY <1>1, <2>1, DivFacts
  <2>5. PICK m \in 0 .. MaxTokens - 1 : m = (MaxTokens + t) % MaxTokens
    BY <2>2
  <2>6. 1 * MaxTokens + t = q * MaxTokens + m
    <3>1. MaxTokens + t = MaxTokens * q + m
      BY <2>3, <2>4, <2>5
    <3>2. MaxTokens * q = q * MaxTokens
      BY <1>1, MulType
    <3> QED BY <1>1, <3>1, <3>2
  <2>7. t = m
    BY <1>1, <2>6, PairUnique
  <2> QED BY <2>5, <2>7
<1> QED BY <1>1, <1>2, <1>3 DEF TokenOf, IsNorm

LEMMA CtaIs ==
  ASSUME NEW c \in Ctas
  PROVE  /\ TokenOf(c) \in Tokens
         /\ IsNorm(c) => c = MaxTokens + TokenOf(c) /\ c >= MaxTokens
         /\ ~IsNorm(c) => c = TokenOf(c) /\ c \in Tokens
<1>1. c \in 0 .. 2 * MaxTokens - 1 /\ MaxTokens \in Nat \ {0} /\ Tokens = 0 .. MaxTokens - 1
  BY Sizes
<1>2. CASE IsNorm(c)
  <2>1. c - MaxTokens \in Tokens /\ c = MaxTokens + (c - MaxTokens) /\ c >= MaxTokens
    BY <1>1, <1>2 DEF IsNorm
  <2>2. PICK t \in Tokens : c = MaxTokens + t
    BY <2>1
  <2>3. TokenOf(c) = t
    BY <2>2, TokenFacts
  <2> QED BY <1>2, <2>1, <2>2, <2>3
<1>3. CASE ~IsNorm(c)
  <2>1. c \in Tokens
    BY <1>1, <1>3 DEF IsNorm
  <2> QED BY <1>3, <2>1, TokenFacts
<1> QED BY <1>2, <1>3

LEMMA RankFacts ==
  ASSUME TypeOK, NEW r \in Ranks
  PROVE  /\ call[r] \in 0 .. Len(program) /\ call[r] \in Nat /\ Len(program) \in Nat
         /\ pc[r] \in [Ctas -> ProgramCounters]
<1>1. call[r] \in 0 .. Len(program) /\ pc[r] \in [Ctas -> ProgramCounters]
  BY DEF TypeOK
<1>2. Len(program) \in Nat
  <2>1. program \in Seq([kind : Kinds, tokens : 1 .. MaxTokens])
    BY CallsAssumption DEF TypeOK
  <2> QED BY <2>1
<1> QED BY <1>1, <1>2

\* What call r runs.
LEMMA RunFacts ==
  ASSUME TypeOK, NEW r \in Ranks, call[r] < Len(program)
  PROVE  /\ call[r] + 1 \in 1 .. Len(program)
         /\ Kind(r) = program[call[r] + 1].kind /\ NumTokens(r) = program[call[r] + 1].tokens
         /\ Kind(r) \in Kinds /\ NumTokens(r) \in 1 .. MaxTokens /\ NumTokens(r) \in Nat \ {0}
         /\ \A t \in 0 .. NumTokens(r) - 1 : t \in Tokens
         /\ MainCtas(r) = 0 .. NumTokens(r) - 1
         /\ \A c \in MainCtas(r) : c \in Ctas /\ c \in Tokens /\ TokenOf(c) = c /\ ~IsNorm(c)
         /\ Kind(r) # "twoshot_norm" => NormCtas(r) = {}
         /\ Kind(r) = "twoshot_norm" =>
              NormCtas(r) = {c \in Ctas : IsNorm(c) /\ TokenOf(c) < NumTokens(r)}
         /\ \A c \in NormCtas(r) : /\ c \in Ctas /\ IsNorm(c) /\ c >= MaxTokens
                                   /\ TokenOf(c) \in 0 .. NumTokens(r) - 1
                                   /\ c = MaxTokens + TokenOf(c) /\ c \notin MainCtas(r)
         /\ 0 \in MainCtas(r)
<1>1. call[r] + 1 \in 1 .. Len(program)
  BY RankFacts
<1>2. /\ Kind(r) = program[call[r] + 1].kind /\ NumTokens(r) = program[call[r] + 1].tokens
      /\ Kind(r) \in Kinds /\ NumTokens(r) \in 1 .. MaxTokens /\ NumTokens(r) \in Nat \ {0}
  BY <1>1, CallFacts DEF Kind, NumTokens, Current
<1>3. \A t \in 0 .. NumTokens(r) - 1 : t \in Tokens
  BY <1>2, Sizes
<1>4. MainCtas(r) = 0 .. NumTokens(r) - 1
  BY <1>2, Sizes DEF MainCtas
<1>5. \A c \in MainCtas(r) : c \in Ctas /\ c \in Tokens /\ TokenOf(c) = c /\ ~IsNorm(c)
  BY <1>3, <1>4, TokenFacts
<1>6. \A c \in NormCtas(r) : c \in Ctas /\ IsNorm(c) /\ TokenOf(c) < NumTokens(r)
  BY DEF NormCtas
<1>7. ASSUME NEW c \in NormCtas(r)
      PROVE  /\ TokenOf(c) \in 0 .. NumTokens(r) - 1 /\ c >= MaxTokens
             /\ c = MaxTokens + TokenOf(c) /\ c \notin MainCtas(r)
  <2>1. c \in Ctas /\ IsNorm(c) /\ TokenOf(c) < NumTokens(r)
    BY <1>6
  <2>2. TokenOf(c) \in Nat /\ c = MaxTokens + TokenOf(c) /\ c >= MaxTokens
    BY <2>1, CtaIs, TokenFacts
  <2>3. c \notin MainCtas(r)
    BY <1>5, <2>1
  <2> QED BY <1>2, <2>1, <2>2, <2>3
<1>8. 0 \in MainCtas(r)
  BY <1>2, <1>4
<1> QED BY <1>1, <1>2, <1>3, <1>4, <1>5, <1>6, <1>7, <1>8 DEF NormCtas

CtasOk(r) ==
  /\ ~Busy(r) => \A c \in Ctas : pc[r][c] = "off"
  /\ Busy(r) =>
       /\ call[r] < Len(program)
       /\ \A c \in MainCtas(r) : /\ pc[r][c] \in MainSteps(Kind(r))
                                 /\ pc[r][c] = "reduce" => Owner(c) = r
                                 /\ pc[r][c] = "update" => c = 0
       /\ \A c \in NormCtas(r) :
            /\ pc[r][c] \in {"off", "ready", "receive", "join", "update", "done"}
            /\ pc[r][c] = "update" => c = MaxTokens
            /\ pc[r][c] # "off" => \A d \in MainCtas(r) : pc[r][d] # "ready"
       /\ \A c \in Ctas \ (MainCtas(r) \cup NormCtas(r)) : pc[r][c] = "off"

LEMMA CtasEach == CtasRight <=> \A r \in Ranks : CtasOk(r)
BY DEF CtasRight, CtasOk

LEMMA BusyFacts ==
  ASSUME TypeOK, CtasRight, NEW r \in Ranks, NEW c \in Ctas, pc[r][c] # "off"
  PROVE  Busy(r) /\ call[r] < Len(program) /\ c \in MainCtas(r) \cup NormCtas(r)
BY CtasEach DEF CtasOk

\* The steps of a CTA, as far as its place in the kernel is concerned.
Move(r, c, b) ==
  \/ /\ c \in MainCtas(r)
     /\ \/ pc[r][c] = "ready" /\ b = "clear0"
        \/ Kind(r) = "oneshot" /\ pc[r][c] = "clear0" /\ b = "receive"
        \/ Kind(r) # "oneshot" /\ pc[r][c] = "clear0" /\ b = "reduce" /\ Owner(c) = r
        \/ Kind(r) # "oneshot" /\ pc[r][c] = "clear0" /\ b = "clear1" /\ Owner(c) # r
        \/ Kind(r) # "oneshot" /\ pc[r][c] = "reduce" /\ b = "clear1"
        \/ Kind(r) = "twoshot" /\ pc[r][c] = "clear1" /\ b = "receive"
        \/ Kind(r) = "twoshot_norm" /\ pc[r][c] = "clear1" /\ b = "done"
        \/ Kind(r) # "twoshot_norm" /\ pc[r][c] = "receive" /\ b = "done" /\ c # 0
        \/ Kind(r) # "twoshot_norm" /\ pc[r][c] = "receive" /\ b = "update" /\ c = 0
        \/ Kind(r) # "twoshot_norm" /\ pc[r][c] = "update" /\ b = "done" /\ c = 0
  \/ /\ Kind(r) = "twoshot_norm" /\ c \in NormCtas(r)
     /\ \/ pc[r][c] = "ready" /\ b = "receive"
        \/ pc[r][c] = "receive" /\ b = "join"
        \/ pc[r][c] = "join" /\ b = "done" /\ c # MaxTokens
        \/ pc[r][c] = "join" /\ b = "update" /\ c = MaxTokens
        \/ pc[r][c] = "update" /\ b = "done" /\ c = MaxTokens

Moved(r, c, b) ==
  /\ program' = program /\ call' = call
  /\ pc' \in [Ranks -> [Ctas -> ProgramCounters]]
  /\ pc'[r][c] = b
  /\ \A d \in Ctas \ {c} : pc'[r][d] = pc[r][d]
  /\ \A s \in Ranks \ {r} : pc'[s] = pc[s]

LEMMA GotoMoved ==
  ASSUME TypeOK, NEW r \in Ranks, NEW c \in Ctas, NEW b \in ProgramCounters, Goto(r, c, b),
         UNCHANGED <<program, call>>
  PROVE  Moved(r, c, b)
<1>1. pc \in [Ranks -> [Ctas -> ProgramCounters]]
  BY DEF TypeOK
<1>2. pc' = [pc EXCEPT ![r][c] = b]
  BY DEF Goto
<1>3. pc' \in [Ranks -> [Ctas -> ProgramCounters]]
  BY <1>1, <1>2
<1>4. /\ pc'[r][c] = b
      /\ \A d \in Ctas \ {c} : pc'[r][d] = pc[r][d]
      /\ \A s \in Ranks \ {r} : pc'[s] = pc[s]
  BY <1>1, <1>2
<1> QED BY <1>3, <1>4 DEF Moved

LEMMA MainAt ==
  ASSUME TypeOK, CtasRight, NEW r \in Ranks, NEW c \in Ctas, Busy(r),
         pc[r][c] \in {"clear0", "reduce", "clear1"}
  PROVE  c \in MainCtas(r) /\ TokenOf(c) = c /\ ~IsNorm(c)
<1>1. CtasOk(r) /\ call[r] < Len(program)
  BY CtasEach, BusyFacts DEF CtasOk
<1>2. c \in MainCtas(r)
  BY <1>1 DEF CtasOk
<1> QED BY <1>1, <1>2, RunFacts

LEMMA SendOneshotMoves ==
  ASSUME TypeOK, CtasRight, NEW r \in Ranks, NEW c \in Ctas, call[r] < Len(program),
         SendOneshot(r, c)
  PROVE  /\ Busy(r) /\ c \in MainCtas(r) /\ pc[r][c] = "ready" /\ Kind(r) = "oneshot"
         /\ Moved(r, c, "clear0") /\ Move(r, c, "clear0")
<1>1. pc[r][c] = "ready" /\ Kind(r) = "oneshot" /\ Goto(r, c, "clear0")
      /\ UNCHANGED <<program, call>>
  BY DEF SendOneshot, CanStart
<1>2. Busy(r) /\ c \in MainCtas(r) \cup NormCtas(r)
  BY <1>1, BusyFacts
<1>3. c \in MainCtas(r)
  BY <1>1, <1>2, RunFacts
<1>4. Moved(r, c, "clear0")
  <2>1. PICK b \in ProgramCounters : b = "clear0"
    BY DEF ProgramCounters
  <2> QED BY <1>1, <2>1, GotoMoved
<1> QED BY <1>1, <1>2, <1>3, <1>4 DEF Move

LEMMA ClearAllMoves ==
  ASSUME TypeOK, CtasRight, NEW r \in Ranks, NEW c \in Ctas, call[r] < Len(program),
         ClearAll(r, c)
  PROVE  /\ Busy(r) /\ c \in MainCtas(r) /\ pc[r][c] = "clear0" /\ Kind(r) = "oneshot"
         /\ Moved(r, c, "receive") /\ Move(r, c, "receive")
<1>1. pc[r][c] = "clear0" /\ Kind(r) = "oneshot" /\ Goto(r, c, "receive")
      /\ UNCHANGED <<program, call>>
  BY DEF ClearAll
<1>2. Busy(r) /\ c \in MainCtas(r) \cup NormCtas(r)
  BY <1>1, BusyFacts
<1>3. c \in MainCtas(r)
  BY <1>1, <1>2, RunFacts
<1>4. Moved(r, c, "receive")
  <2>1. PICK b \in ProgramCounters : b = "receive"
    BY DEF ProgramCounters
  <2> QED BY <1>1, <2>1, GotoMoved
<1> QED BY <1>1, <1>2, <1>3, <1>4 DEF Move

LEMMA ReceiveOneshotMoves ==
  ASSUME TypeOK, CtasRight, NEW r \in Ranks, NEW c \in Ctas, call[r] < Len(program),
         ReceiveOneshot(r, c)
  PROVE  /\ Busy(r) /\ c \in MainCtas(r) /\ pc[r][c] = "receive" /\ Kind(r) = "oneshot"
         /\ \E b \in {"update", "done"} : Moved(r, c, b) /\ Move(r, c, b)
<1>1. /\ pc[r][c] = "receive" /\ Kind(r) = "oneshot"
      /\ Goto(r, c, IF c = 0 THEN "update" ELSE "done")
      /\ UNCHANGED <<program, call>>
  BY DEF ReceiveOneshot
<1>2. Busy(r) /\ c \in MainCtas(r) \cup NormCtas(r)
  BY <1>1, BusyFacts
<1>3. c \in MainCtas(r)
  BY <1>1, <1>2, RunFacts
<1>4. PICK b \in ProgramCounters : b = IF c = 0 THEN "update" ELSE "done"
  BY DEF ProgramCounters
<1>5. Moved(r, c, b)
  BY <1>1, <1>4, GotoMoved
<1>6. Move(r, c, b)
  BY <1>1, <1>3, <1>4 DEF Move
<1> QED BY <1>1, <1>2, <1>3, <1>4, <1>5, <1>6

LEMMA ScatterMoves ==
  ASSUME TypeOK, CtasRight, NEW r \in Ranks, NEW c \in Ctas, call[r] < Len(program),
         Scatter(r, c)
  PROVE  /\ Busy(r) /\ c \in MainCtas(r) /\ pc[r][c] = "ready" /\ Kind(r) # "oneshot"
         /\ Moved(r, c, "clear0") /\ Move(r, c, "clear0")
<1>1. pc[r][c] = "ready" /\ Kind(r) # "oneshot" /\ ~IsNorm(c) /\ Goto(r, c, "clear0")
      /\ UNCHANGED <<program, call>>
  BY DEF Scatter, CanStart
<1>2. Busy(r) /\ c \in MainCtas(r) \cup NormCtas(r)
  BY <1>1, BusyFacts
<1>3. c \in MainCtas(r)
  BY <1>1, <1>2, RunFacts
<1>4. Moved(r, c, "clear0")
  <2>1. PICK b \in ProgramCounters : b = "clear0"
    BY DEF ProgramCounters
  <2> QED BY <1>1, <2>1, GotoMoved
<1> QED BY <1>1, <1>2, <1>3, <1>4 DEF Move

LEMMA ClearScatterMoves ==
  ASSUME TypeOK, CtasRight, NEW r \in Ranks, NEW c \in Ctas, call[r] < Len(program),
         ClearScatter(r, c)
  PROVE  /\ Busy(r) /\ c \in MainCtas(r) /\ pc[r][c] = "clear0" /\ Kind(r) # "oneshot"
         /\ \E b \in {"reduce", "clear1"} : Moved(r, c, b) /\ Move(r, c, b)
<1>1. /\ pc[r][c] = "clear0" /\ Kind(r) # "oneshot"
      /\ Goto(r, c, IF Owner(TokenOf(c)) = r THEN "reduce" ELSE "clear1")
      /\ UNCHANGED <<program, call>>
  BY DEF ClearScatter
<1>2. Busy(r)
  BY <1>1, BusyFacts
<1>3. c \in MainCtas(r) /\ TokenOf(c) = c
  BY <1>1, <1>2, MainAt
<1>4. PICK b \in ProgramCounters : b = IF Owner(c) = r THEN "reduce" ELSE "clear1"
  BY DEF ProgramCounters
<1>5. Moved(r, c, b)
  BY <1>1, <1>3, <1>4, GotoMoved
<1>6. Move(r, c, b)
  BY <1>1, <1>3, <1>4 DEF Move
<1> QED BY <1>1, <1>2, <1>3, <1>4, <1>5, <1>6

LEMMA ReduceBroadcastMoves ==
  ASSUME TypeOK, CtasRight, NEW r \in Ranks, NEW c \in Ctas, call[r] < Len(program),
         ReduceBroadcast(r, c)
  PROVE  /\ Busy(r) /\ c \in MainCtas(r) /\ pc[r][c] = "reduce" /\ Kind(r) # "oneshot"
         /\ Owner(c) = r
         /\ Moved(r, c, "clear1") /\ Move(r, c, "clear1")
<1>1. pc[r][c] = "reduce" /\ Goto(r, c, "clear1") /\ UNCHANGED <<program, call>>
  BY DEF ReduceBroadcast
<1>2. Busy(r)
  BY <1>1, BusyFacts
<1>3. c \in MainCtas(r)
  BY <1>1, <1>2, MainAt
<1>4. Kind(r) # "oneshot" /\ Owner(c) = r
  <2>1. pc[r][c] \in MainSteps(Kind(r)) /\ Owner(c) = r
    BY <1>1, <1>2, <1>3, CtasEach DEF CtasOk
  <2> QED BY <1>1, <2>1 DEF MainSteps
<1>5. Moved(r, c, "clear1")
  <2>1. PICK b \in ProgramCounters : b = "clear1"
    BY DEF ProgramCounters
  <2> QED BY <1>1, <2>1, GotoMoved
<1> QED BY <1>1, <1>2, <1>3, <1>4, <1>5 DEF Move

LEMMA ClearBroadcastMoves ==
  ASSUME TypeOK, CtasRight, NEW r \in Ranks, NEW c \in Ctas, call[r] < Len(program),
         ClearBroadcast(r, c)
  PROVE  /\ Busy(r) /\ c \in MainCtas(r) /\ pc[r][c] = "clear1"
         /\ \/ Kind(r) = "twoshot" /\ Moved(r, c, "receive") /\ Move(r, c, "receive")
            \/ Kind(r) = "twoshot_norm" /\ Moved(r, c, "done") /\ Move(r, c, "done")
<1>1. /\ pc[r][c] = "clear1"
      /\ Goto(r, c, IF Kind(r) = "twoshot" THEN "receive" ELSE "done")
      /\ UNCHANGED <<program, call>>
  BY DEF ClearBroadcast
<1>2. Busy(r)
  BY <1>1, BusyFacts
<1>3. c \in MainCtas(r)
  BY <1>1, <1>2, MainAt
<1>4. Kind(r) = "twoshot" \/ Kind(r) = "twoshot_norm"
  <2>1. pc[r][c] \in MainSteps(Kind(r)) /\ Kind(r) \in Kinds
    BY <1>1, <1>2, <1>3, CtasEach, RunFacts DEF CtasOk
  <2> QED BY <1>1, <2>1 DEF MainSteps, Kinds
<1>5. PICK b \in ProgramCounters : b = IF Kind(r) = "twoshot" THEN "receive" ELSE "done"
  BY DEF ProgramCounters
<1>6. Moved(r, c, b)
  BY <1>1, <1>5, GotoMoved
<1>7. Move(r, c, b)
  BY <1>1, <1>3, <1>4, <1>5 DEF Move
<1> QED BY <1>1, <1>2, <1>3, <1>4, <1>5, <1>6, <1>7

LEMMA NormArriveMoves ==
  ASSUME TypeOK, CtasRight, NEW r \in Ranks, NEW c \in Ctas, call[r] < Len(program),
         NormArrive(r, c)
  PROVE  /\ Busy(r) /\ c \in NormCtas(r) /\ pc[r][c] = "ready" /\ Kind(r) = "twoshot_norm"
         /\ Moved(r, c, "receive") /\ Move(r, c, "receive")
<1>1. pc[r][c] = "ready" /\ IsNorm(c) /\ Goto(r, c, "receive") /\ UNCHANGED <<program, call>>
  BY DEF NormArrive, CanStart
<1>2. Busy(r) /\ c \in MainCtas(r) \cup NormCtas(r)
  BY <1>1, BusyFacts
<1>3. c \in NormCtas(r) /\ Kind(r) = "twoshot_norm"
  BY <1>1, <1>2, RunFacts
<1>4. Moved(r, c, "receive")
  <2>1. PICK b \in ProgramCounters : b = "receive"
    BY DEF ProgramCounters
  <2> QED BY <1>1, <2>1, GotoMoved
<1> QED BY <1>1, <1>2, <1>3, <1>4 DEF Move

LEMMA ReceiveBroadcastMoves ==
  ASSUME TypeOK, CtasRight, NEW r \in Ranks, NEW c \in Ctas, call[r] < Len(program),
         ReceiveBroadcast(r, c)
  PROVE  /\ Busy(r) /\ pc[r][c] = "receive" /\ TokenOf(c) \in 0 .. NumTokens(r) - 1
         /\ \/ /\ Kind(r) = "twoshot" /\ c \in MainCtas(r) /\ TokenOf(c) = c
               /\ \E b \in {"update", "done"} : Moved(r, c, b) /\ Move(r, c, b)
            \/ /\ Kind(r) = "twoshot_norm" /\ c \in NormCtas(r) /\ c = MaxTokens + TokenOf(c)
               /\ Moved(r, c, "join") /\ Move(r, c, "join")
<1>1. /\ pc[r][c] = "receive" /\ Kind(r) # "oneshot"
      /\ Goto(r, c, IF IsNorm(c) THEN "join" ELSE IF c = 0 THEN "update" ELSE "done")
      /\ UNCHANGED <<program, call>>
  BY DEF ReceiveBroadcast
<1>2. Busy(r) /\ c \in MainCtas(r) \cup NormCtas(r)
  BY <1>1, BusyFacts
<1>3. CASE c \in MainCtas(r)
  <2>1. ~IsNorm(c) /\ TokenOf(c) = c /\ c \in 0 .. NumTokens(r) - 1
    BY <1>3, RunFacts
  <2>2. Kind(r) = "twoshot"
    <3>1. pc[r][c] \in MainSteps(Kind(r)) /\ Kind(r) \in Kinds
      BY <1>2, <1>3, CtasEach, RunFacts DEF CtasOk
    <3> QED BY <1>1, <3>1 DEF MainSteps, Kinds
  <2>3. PICK b \in ProgramCounters : b = IF c = 0 THEN "update" ELSE "done"
    BY DEF ProgramCounters
  <2>4. Moved(r, c, b)
    BY <1>1, <2>1, <2>3, GotoMoved
  <2>5. Move(r, c, b)
    BY <1>1, <1>3, <2>2, <2>3 DEF Move
  <2> QED BY <1>1, <1>2, <1>3, <2>1, <2>2, <2>3, <2>4, <2>5
<1>4. CASE c \in NormCtas(r)
  <2>1. /\ IsNorm(c) /\ c = MaxTokens + TokenOf(c) /\ TokenOf(c) \in 0 .. NumTokens(r) - 1
        /\ Kind(r) = "twoshot_norm"
    BY <1>4, RunFacts
  <2>2. PICK b \in ProgramCounters : b = "join"
    BY DEF ProgramCounters
  <2>3. Moved(r, c, b)
    BY <1>1, <2>1, <2>2, GotoMoved
  <2>4. Move(r, c, b)
    BY <1>1, <1>4, <2>1, <2>2 DEF Move
  <2> QED BY <1>1, <1>2, <1>4, <2>1, <2>2, <2>3, <2>4
<1> QED BY <1>2, <1>3, <1>4

LEMMA JoinMoves ==
  ASSUME TypeOK, CtasRight, NEW r \in Ranks, NEW c \in Ctas, call[r] < Len(program),
         JoinFirstKernel(r, c)
  PROVE  /\ Busy(r) /\ c \in NormCtas(r) /\ pc[r][c] = "join" /\ Kind(r) = "twoshot_norm"
         /\ \E b \in {"update", "done"} : Moved(r, c, b) /\ Move(r, c, b)
<1>1. /\ pc[r][c] = "join" /\ Goto(r, c, IF TokenOf(c) = 0 THEN "update" ELSE "done")
      /\ UNCHANGED <<program, call>>
  BY DEF JoinFirstKernel
<1>2. Busy(r) /\ c \in MainCtas(r) \cup NormCtas(r)
  BY <1>1, BusyFacts
<1>3. c \notin MainCtas(r)
  <2>1. c \in MainCtas(r) => pc[r][c] \in MainSteps(Kind(r)) /\ Kind(r) \in Kinds
    BY <1>2, CtasEach, RunFacts DEF CtasOk
  <2> QED BY <1>1, <2>1 DEF MainSteps, Kinds, Started
<1>4. c \in NormCtas(r) /\ Kind(r) = "twoshot_norm" /\ c = MaxTokens + TokenOf(c)
  BY <1>2, <1>3, RunFacts
<1>5. TokenOf(c) = 0 <=> c = MaxTokens
  BY <1>4, CtaIs, TokenFacts, Sizes
<1>6. PICK b \in ProgramCounters : b = IF c = MaxTokens THEN "update" ELSE "done"
  BY DEF ProgramCounters
<1>7. Moved(r, c, b)
  BY <1>1, <1>5, <1>6, GotoMoved
<1>8. Move(r, c, b)
  BY <1>1, <1>4, <1>6 DEF Move
<1> QED BY <1>1, <1>2, <1>4, <1>6, <1>7, <1>8

LEMMA UpdateMoves ==
  ASSUME TypeOK, CtasRight, NEW r \in Ranks, NEW c \in Ctas, call[r] < Len(program),
         WaitAndUpdate(r, c)
  PROVE  /\ Busy(r) /\ pc[r][c] = "update" /\ c \in Arriving(r)
         /\ c = IF Kind(r) = "twoshot_norm" THEN MaxTokens ELSE 0
         /\ Moved(r, c, "done") /\ Move(r, c, "done")
<1>1. pc[r][c] = "update" /\ Goto(r, c, "done") /\ UNCHANGED <<program, call>>
  BY DEF WaitAndUpdate
<1>2. Busy(r) /\ c \in MainCtas(r) \cup NormCtas(r)
  BY <1>1, BusyFacts
<1>3. PICK b \in ProgramCounters : b = "done"
  BY DEF ProgramCounters
<1>4. Moved(r, c, b)
  BY <1>1, <1>3, GotoMoved
<1>5. CASE c \in MainCtas(r)
  <2>1. pc[r][c] \in MainSteps(Kind(r)) /\ Kind(r) \in Kinds /\ c = 0
    BY <1>1, <1>2, <1>5, CtasEach, RunFacts DEF CtasOk
  <2>2. Kind(r) # "twoshot_norm"
    BY <1>1, <2>1 DEF MainSteps, Kinds
  <2>3. Move(r, c, b)
    BY <1>1, <1>3, <1>5, <2>1, <2>2 DEF Move
  <2> QED BY <1>1, <1>2, <1>3, <1>4, <1>5, <2>1, <2>2, <2>3 DEF Arriving
<1>6. CASE c \in NormCtas(r)
  <2>1. c = MaxTokens /\ Kind(r) = "twoshot_norm"
    BY <1>1, <1>2, <1>6, CtasEach, RunFacts DEF CtasOk
  <2>2. Move(r, c, b)
    BY <1>1, <1>3, <1>6, <2>1 DEF Move
  <2> QED BY <1>1, <1>2, <1>3, <1>4, <1>6, <2>1, <2>2 DEF Arriving
<1> QED BY <1>2, <1>5, <1>6

\* Whatever a CTA does, it is one of these moves.
LEMMA StepMoves ==
  ASSUME TypeOK, CtasRight, NEW r \in Ranks, NEW c \in Ctas, CtaStep(r, c)
  PROVE  /\ Busy(r) /\ call[r] < Len(program)
         /\ \E b \in ProgramCounters : Moved(r, c, b) /\ Move(r, c, b)
<1>1. call[r] < Len(program)
  BY DEF CtaStep
<1>2. {"clear0", "receive", "update", "done", "reduce", "clear1", "join"} \subseteq ProgramCounters
  BY DEF ProgramCounters
<1>3. CASE SendOneshot(r, c)
  BY <1>1, <1>2, <1>3, SendOneshotMoves
<1>4. CASE ClearAll(r, c)
  BY <1>1, <1>2, <1>4, ClearAllMoves
<1>5. CASE ReceiveOneshot(r, c)
  BY <1>1, <1>2, <1>5, ReceiveOneshotMoves
<1>6. CASE Scatter(r, c)
  BY <1>1, <1>2, <1>6, ScatterMoves
<1>7. CASE ClearScatter(r, c)
  BY <1>1, <1>2, <1>7, ClearScatterMoves
<1>8. CASE ReduceBroadcast(r, c)
  BY <1>1, <1>2, <1>8, ReduceBroadcastMoves
<1>9. CASE ClearBroadcast(r, c)
  BY <1>1, <1>2, <1>9, ClearBroadcastMoves
<1>10. CASE NormArrive(r, c)
  BY <1>1, <1>2, <1>10, NormArriveMoves
<1>11. CASE ReceiveBroadcast(r, c)
  BY <1>1, <1>2, <1>11, ReceiveBroadcastMoves
<1>12. CASE JoinFirstKernel(r, c)
  BY <1>1, <1>2, <1>12, JoinMoves
<1>13. CASE WaitAndUpdate(r, c)
  BY <1>1, <1>2, <1>13, UpdateMoves
<1> QED BY <1>3, <1>4, <1>5, <1>6, <1>7, <1>8, <1>9, <1>10, <1>11, <1>12, <1>13 DEF CtaStep

LEMMA SameRun ==
  ASSUME NEW r \in Ranks, program' = program, call'[r] = call[r]
  PROVE  /\ Kind(r)' = Kind(r) /\ NumTokens(r)' = NumTokens(r)
         /\ MainCtas(r)' = MainCtas(r) /\ NormCtas(r)' = NormCtas(r)
         /\ Arriving(r)' = Arriving(r)
BY DEF Kind, NumTokens, Current, MainCtas, NormCtas, Arriving

LEMMA SameProgram ==
  ASSUME program' = program
  PROVE  /\ Packets' = Packets
         /\ \A n : LayoutAfter(n)' = LayoutAfter(n)
BY DEF Packets, LayoutAfter

LEMMA SameCtas ==
  ASSUME NEW s \in Ranks, program' = program, call'[s] = call[s], pc'[s] = pc[s], CtasOk(s)
  PROVE  CtasOk(s)'
<1>1. /\ Kind(s)' = Kind(s) /\ MainCtas(s)' = MainCtas(s) /\ NormCtas(s)' = NormCtas(s)
  BY SameRun
<1>2. Busy(s)' = Busy(s)
  BY DEF Busy
<1> QED BY <1>1, <1>2 DEF CtasOk

LEMMA MoveCtas ==
  ASSUME TypeOK, CtasRight, NEW r \in Ranks, NEW c \in Ctas, NEW b \in ProgramCounters, Busy(r),
         Moved(r, c, b), Move(r, c, b)
  PROVE  CtasRight' /\ Busy(r)'
<1>1. CtasOk(r) /\ call[r] < Len(program)
  BY CtasEach DEF CtasOk
<1>2. program' = program /\ call' = call
  BY DEF Moved
<1>3. /\ Kind(r)' = Kind(r) /\ MainCtas(r)' = MainCtas(r) /\ NormCtas(r)' = NormCtas(r)
  BY <1>2, SameRun
<1>4. Kind(r) \in Kinds /\ 0 \in MainCtas(r) /\ 0 \in Ctas
  BY <1>1, RunFacts
<1>5. b \notin {"off", "ready"}
  BY DEF Move
<1>6. Busy(r)'
  <2>1. CASE c = 0
    BY <1>5, <2>1 DEF Busy, Moved
  <2>2. CASE c # 0
    BY <1>4, <2>2 DEF Busy, Moved
  <2> QED BY <2>1, <2>2
<1>7. /\ pc'[r][c] = b
      /\ \A d \in Ctas \ {c} : pc'[r][d] = pc[r][d]
  BY DEF Moved
<1>8. \A d \in MainCtas(r) : d \in Ctas /\ d \notin NormCtas(r)
  BY <1>1, RunFacts
<1>9. \A d \in NormCtas(r) : d \in Ctas
  BY <1>1, RunFacts
<1>12. CtasOk(r)'
  <2>1. CASE c \in MainCtas(r)
    <3>1. /\ b \in MainSteps(Kind(r))
          /\ b = "reduce" => Owner(c) = r
          /\ b = "update" => c = 0
      BY <1>1, <1>4, <1>8, <2>1 DEF CtasOk, Move, MainSteps, Kinds, Started
    <3> QED BY <1>1, <1>2, <1>3, <1>5, <1>6, <1>7, <1>8, <1>9, <2>1, <3>1 DEF CtasOk
  <2>2. CASE c \in NormCtas(r)
    <3>1. /\ b \in {"receive", "join", "update", "done"}
          /\ b = "update" => c = MaxTokens
      BY <1>8, <2>2 DEF Move
    <3>2. pc[r][c] # "off"
      BY <1>8, <2>2 DEF Move
    <3> QED BY <1>1, <1>2, <1>3, <1>6, <1>7, <1>8, <1>9, <2>2, <3>1, <3>2 DEF CtasOk
  <2> QED BY <2>1, <2>2 DEF Move
<1>13. ASSUME NEW s \in Ranks \ {r} PROVE CtasOk(s)'
  <2>1. pc'[s] = pc[s] /\ CtasOk(s)
    BY CtasEach DEF Moved
  <2> QED BY <1>2, <2>1, SameCtas
<1>14. CtasRight' <=> \A s \in Ranks : CtasOk(s)'
  BY DEF CtasRight, CtasOk
<1> QED BY <1>6, <1>12, <1>13, <1>14

-----------------------------------------------------------------------------
\* The steps that start and end kernels.

LEMMA LaunchEffect ==
  ASSUME TypeOK, CtasRight, NEW r \in Ranks, Launch(r)
  PROVE  /\ program' = program /\ call' = call /\ call[r] < Len(program) /\ ~Busy(r)
         /\ Busy(r)' /\ CtasRight'
         /\ pc' \in [Ranks -> [Ctas -> ProgramCounters]]
         /\ \A c \in Ctas : pc'[r][c] = IF c \in MainCtas(r) THEN "ready" ELSE "off"
         /\ \A s \in Ranks \ {r} : pc'[s] = pc[s]
<1>1. /\ call[r] < Len(program) /\ \A c \in Ctas : pc[r][c] = "off"
      /\ pc' = [pc EXCEPT ![r] = [c \in Ctas |-> IF c \in MainCtas(r) THEN "ready" ELSE "off"]]
      /\ program' = program /\ call' = call
  BY DEF Launch
<1>2. /\ 0 \in MainCtas(r) /\ 0 \in Ctas /\ Kind(r) \in Kinds
      /\ \A c \in NormCtas(r) : c \in Ctas /\ c \notin MainCtas(r)
      /\ \A c \in MainCtas(r) : c \in Ctas
  BY <1>1, RunFacts
<1>3. pc \in [Ranks -> [Ctas -> ProgramCounters]]
  BY DEF TypeOK
<1>4. [c \in Ctas |-> IF c \in MainCtas(r) THEN "ready" ELSE "off"] \in [Ctas -> ProgramCounters]
  BY DEF ProgramCounters
<1>5. pc' \in [Ranks -> [Ctas -> ProgramCounters]]
  BY <1>1, <1>3, <1>4
<1>6. /\ \A c \in Ctas : pc'[r][c] = IF c \in MainCtas(r) THEN "ready" ELSE "off"
      /\ \A s \in Ranks \ {r} : pc'[s] = pc[s]
  BY <1>1, <1>3
<1>7. ~Busy(r) /\ Busy(r)'
  BY <1>1, <1>2, <1>6 DEF Busy
<1>8. /\ Kind(r)' = Kind(r) /\ MainCtas(r)' = MainCtas(r) /\ NormCtas(r)' = NormCtas(r)
  BY <1>1, SameRun
<1>9. CtasOk(r)'
  <2>1. "ready" \in MainSteps(Kind(r))
    BY <1>2 DEF MainSteps, Kinds
  <2>2. \A c \in MainCtas(r) : pc'[r][c] = "ready"
    BY <1>2, <1>6
  <2>3. \A c \in Ctas \ MainCtas(r) : pc'[r][c] = "off"
    BY <1>6
  <2>4. \A c \in NormCtas(r) : pc'[r][c] = "off"
    BY <1>2, <2>3
  <2> QED BY <1>1, <1>7, <1>8, <2>1, <2>2, <2>3, <2>4 DEF CtasOk
<1>10. ASSUME NEW s \in Ranks \ {r} PROVE CtasOk(s)'
  <2>1. pc'[s] = pc[s] /\ CtasOk(s)
    BY <1>6, CtasEach
  <2> QED BY <1>1, <2>1, SameCtas
<1>11. CtasRight' <=> \A s \in Ranks : CtasOk(s)'
  BY DEF CtasRight, CtasOk
<1> QED BY <1>1, <1>5, <1>6, <1>7, <1>9, <1>10, <1>11

LEMMA LaunchNormEffect ==
  ASSUME TypeOK, CtasRight, NEW r \in Ranks, LaunchNorm(r)
  PROVE  /\ program' = program /\ call' = call /\ call[r] < Len(program) /\ Busy(r)
         /\ Kind(r) = "twoshot_norm"
         /\ Busy(r)' /\ CtasRight'
         /\ pc' \in [Ranks -> [Ctas -> ProgramCounters]]
         /\ \A c \in NormCtas(r) : pc[r][c] = "off"
         /\ \A c \in NormCtas(r) : pc'[r][c] = "ready"
         /\ \A c \in Ctas \ NormCtas(r) : pc'[r][c] = pc[r][c]
         /\ \A s \in Ranks \ {r} : pc'[s] = pc[s]
<1>1. /\ call[r] < Len(program) /\ NormCtas(r) # {} /\ \A c \in NormCtas(r) : pc[r][c] = "off"
      /\ \A c \in MainCtas(r) : pc[r][c] \notin {"off", "ready"}
      /\ pc' = [pc EXCEPT ![r] = [c \in Ctas |-> IF c \in NormCtas(r) THEN "ready"
                                                                      ELSE pc[r][c]]]
      /\ program' = program /\ call' = call
  BY DEF LaunchNorm
<1>2. /\ 0 \in MainCtas(r) /\ 0 \in Ctas /\ Kind(r) = "twoshot_norm"
      /\ \A c \in NormCtas(r) : c \in Ctas /\ c \notin MainCtas(r)
      /\ \A c \in MainCtas(r) : c \in Ctas
  BY <1>1, RunFacts
<1>3. pc \in [Ranks -> [Ctas -> ProgramCounters]]
  BY DEF TypeOK
<1>4. [c \in Ctas |-> IF c \in NormCtas(r) THEN "ready" ELSE pc[r][c]] \in [Ctas -> ProgramCounters]
  BY <1>3 DEF ProgramCounters
<1>5. pc' \in [Ranks -> [Ctas -> ProgramCounters]]
  BY <1>1, <1>3, <1>4
<1>6. /\ \A c \in Ctas : pc'[r][c] = IF c \in NormCtas(r) THEN "ready" ELSE pc[r][c]
      /\ \A s \in Ranks \ {r} : pc'[s] = pc[s]
  BY <1>1, <1>3
<1>7. Busy(r) /\ Busy(r)'
  BY <1>1, <1>2, <1>6 DEF Busy
<1>8. /\ Kind(r)' = Kind(r) /\ MainCtas(r)' = MainCtas(r) /\ NormCtas(r)' = NormCtas(r)
  BY <1>1, SameRun
<1>9. CtasOk(r)'
  <2>1. CtasOk(r)
    BY CtasEach
  <2>2. \A c \in MainCtas(r) : pc'[r][c] = pc[r][c] /\ pc'[r][c] # "ready"
    BY <1>1, <1>2, <1>6
  <2>3. \A c \in Ctas \ (MainCtas(r) \cup NormCtas(r)) : pc'[r][c] = pc[r][c]
    BY <1>6
  <2>4. \A c \in NormCtas(r) : pc'[r][c] = "ready"
    BY <1>2, <1>6
  <2> QED BY <1>1, <1>7, <1>8, <2>1, <2>2, <2>3, <2>4 DEF CtasOk
<1>10. ASSUME NEW s \in Ranks \ {r} PROVE CtasOk(s)'
  <2>1. pc'[s] = pc[s] /\ CtasOk(s)
    BY <1>6, CtasEach
  <2> QED BY <1>1, <2>1, SameCtas
<1>11. CtasRight' <=> \A s \in Ranks : CtasOk(s)'
  BY DEF CtasRight, CtasOk
<1> QED BY <1>1, <1>2, <1>5, <1>6, <1>7, <1>9, <1>10, <1>11

LEMMA CompleteEffect ==
  ASSUME TypeOK, CtasRight, NEW r \in Ranks, Complete(r)
  PROVE  /\ program' = program /\ call[r] < Len(program) /\ Busy(r) /\ ~Busy(r)'
         /\ call' \in [Ranks -> 0 .. Len(program)] /\ call'[r] = call[r] + 1
         /\ \A s \in Ranks \ {r} : call'[s] = call[s] /\ pc'[s] = pc[s]
         /\ \A c \in MainCtas(r) \cup NormCtas(r) : pc[r][c] = "done"
         /\ \A c \in Ctas : pc'[r][c] = "off"
         /\ pc' \in [Ranks -> [Ctas -> ProgramCounters]]
         /\ CtasRight'
<1>1. /\ call[r] < Len(program) /\ \A c \in MainCtas(r) \cup NormCtas(r) : pc[r][c] = "done"
      /\ pc' = [pc EXCEPT ![r] = [c \in Ctas |-> "off"]]
      /\ program' = program /\ call' = [call EXCEPT ![r] = call[r] + 1]
  BY DEF Complete
<1>2. 0 \in MainCtas(r) /\ 0 \in Ctas
  BY <1>1, RunFacts
<1>3. pc \in [Ranks -> [Ctas -> ProgramCounters]] /\ call \in [Ranks -> 0 .. Len(program)]
  BY DEF TypeOK
<1>4. [c \in Ctas |-> "off"] \in [Ctas -> ProgramCounters]
  BY DEF ProgramCounters
<1>5. pc' \in [Ranks -> [Ctas -> ProgramCounters]]
  BY <1>1, <1>3, <1>4
<1>6. /\ \A c \in Ctas : pc'[r][c] = "off"
      /\ \A s \in Ranks \ {r} : pc'[s] = pc[s]
  BY <1>1, <1>3
<1>7. Busy(r) /\ ~Busy(r)'
  BY <1>1, <1>2, <1>6 DEF Busy
<1>8. call[r] + 1 \in 0 .. Len(program)
  BY <1>1, RankFacts
<1>9. /\ call' \in [Ranks -> 0 .. Len(program)] /\ call'[r] = call[r] + 1
      /\ \A s \in Ranks \ {r} : call'[s] = call[s]
  BY <1>1, <1>3, <1>8
<1>10. CtasOk(r)'
  BY <1>6, <1>7 DEF CtasOk
<1>11. ASSUME NEW s \in Ranks \ {r} PROVE CtasOk(s)'
  <2>1. pc'[s] = pc[s] /\ call'[s] = call[s] /\ CtasOk(s)
    BY <1>6, <1>9, CtasEach
  <2> QED BY <1>1, <2>1, SameCtas
<1>12. CtasRight' <=> \A s \in Ranks : CtasOk(s)'
  BY DEF CtasRight, CtasOk
<1> QED BY <1>1, <1>5, <1>6, <1>7, <1>9, <1>10, <1>11, <1>12

\* The steps of a run that change neither the calls nor the CTAs.
LEMMA QuietCtas ==
  ASSUME CtasRight, UNCHANGED <<program, call, pc>>
  PROVE  CtasRight'
<1>1. \A s \in Ranks : CtasOk(s) /\ call'[s] = call[s] /\ pc'[s] = pc[s]
  BY CtasEach
<1>2. \A s \in Ranks : CtasOk(s)'
  BY <1>1, SameCtas
<1>3. CtasRight' <=> \A s \in Ranks : CtasOk(s)'
  BY DEF CtasRight, CtasOk
<1> QED BY <1>2, <1>3

-----------------------------------------------------------------------------
\* What was stored stays stored, and ranks are at most one call apart.

LEMMA MoveIssued ==
  ASSUME TypeOK, CtasRight, NEW r \in Ranks, NEW c \in Ctas, NEW b \in ProgramCounters, Busy(r),
         Moved(r, c, b), Move(r, c, b), NEW p \in Packets, Issued(p)
  PROVE  Issued(p)'
<1>1. p.token \in Tokens /\ p.from \in Ranks /\ p.token \in Ctas
  BY PacketFacts, TokenFacts
<1>2. call' = call /\ \A s \in Ranks \ {r} : pc'[s] = pc[s]
  BY DEF Moved
<1>3. CASE call[p.from] >= p.call
  BY <1>2, <1>3 DEF Issued
<1>4. CASE ~(call[p.from] >= p.call)
  <2>1. /\ call[p.from] = p.call - 1
        /\ pc[p.from][p.token] \in IF p.way = "broadcast" THEN Reduced ELSE Started
    BY <1>4 DEF Issued
  <2>2. pc'[p.from][p.token] \in IF p.way = "broadcast" THEN Reduced ELSE Started
    <3>1. CASE p.from # r \/ p.token # c
      <4>1. pc'[p.from][p.token] = pc[p.from][p.token]
        BY <1>1, <1>2, <3>1 DEF Moved
      <4> QED BY <2>1, <4>1
    <3>2. CASE p.from = r /\ p.token = c
      <4>1. c \notin NormCtas(r)
        BY <1>1, <3>2, TokenFacts DEF NormCtas
      <4>2. pc[r][c] \in Started => b \in Started
        BY <4>1 DEF Move, Started
      <4>3. pc[r][c] \in Reduced => b \in Reduced
        BY <4>1 DEF Move, Reduced
      <4>4. pc'[r][c] = b
        BY DEF Moved
      <4> QED BY <2>1, <3>2, <4>2, <4>3, <4>4
    <3> QED BY <3>1, <3>2
  <2> QED BY <1>2, <2>1, <2>2 DEF Issued
<1> QED BY <1>3, <1>4

LEMMA QuietIssued ==
  ASSUME UNCHANGED <<call, pc>>, NEW p, Issued(p)
  PROVE  Issued(p)'
BY DEF Issued

LEMMA LaunchIssued ==
  ASSUME TypeOK, CtasRight, NEW r \in Ranks, Launch(r), NEW p \in Packets, Issued(p)
  PROVE  Issued(p)'
<1>1. p.token \in Ctas /\ p.from \in Ranks
  BY PacketFacts, TokenFacts
<1>2. /\ call' = call /\ ~Busy(r) /\ \A s \in Ranks \ {r} : pc'[s] = pc[s]
  BY LaunchEffect
<1>3. \A c \in Ctas : pc[r][c] = "off"
  BY <1>2, CtasEach DEF CtasOk
<1> QED BY <1>1, <1>2, <1>3 DEF Issued, Started, Reduced

LEMMA LaunchNormIssued ==
  ASSUME TypeOK, CtasRight, NEW r \in Ranks, LaunchNorm(r), NEW p \in Packets, Issued(p)
  PROVE  Issued(p)'
<1>1. p.token \in Ctas /\ p.from \in Ranks /\ ~IsNorm(p.token)
  BY PacketFacts, TokenFacts
<1>2. /\ call' = call /\ \A s \in Ranks \ {r} : pc'[s] = pc[s]
      /\ \A c \in Ctas \ NormCtas(r) : pc'[r][c] = pc[r][c]
  BY LaunchNormEffect
<1>3. p.token \notin NormCtas(r)
  BY <1>1 DEF NormCtas
<1> QED BY <1>1, <1>2, <1>3 DEF Issued

LEMMA CompleteIssued ==
  ASSUME TypeOK, CtasRight, NEW r \in Ranks, Complete(r), NEW p \in Packets, Issued(p)
  PROVE  Issued(p)'
<1>1. p.from \in Ranks /\ p.call \in Nat
  BY PacketFacts
<1>2. /\ call'[r] = call[r] + 1 /\ call[r] \in Nat
      /\ \A s \in Ranks \ {r} : call'[s] = call[s] /\ pc'[s] = pc[s]
  BY CompleteEffect, RankFacts
<1>3. CASE p.from = r
  BY <1>1, <1>2, <1>3 DEF Issued
<1>4. CASE p.from # r
  BY <1>1, <1>2, <1>4 DEF Issued
<1> QED BY <1>3, <1>4

LEMMA IssuedCall ==
  ASSUME TypeOK, NEW p \in Packets, Issued(p)
  PROVE  p.call <= call[p.from] + 1
<1>1. p.from \in Ranks /\ p.call \in Nat
  BY PacketFacts
<1>2. call[p.from] \in Nat
  BY <1>1, RankFacts
<1> QED BY <1>1, <1>2 DEF Issued

LEMMA NearCalls ==
  ASSUME TypeOK, CallsTogether, NEW r \in Ranks, NEW s \in Ranks
  PROVE  call[r] <= call[s] + 1
<1>1. call[r] \in Nat /\ call[s] \in Nat /\ call[r] \in 0 .. Len(program) /\ Len(program) \in Nat
  BY RankFacts
<1>2. CASE call[r] = 0
  BY <1>1, <1>2
<1>3. CASE call[r] # 0
  <2>1. call[r] \in 1 .. Len(program)
    BY <1>1, <1>3
  <2>2. program[call[r]].tokens \in Nat \ {0}
    BY <2>1, CallFacts
  <2>3. PICK w \in Ways : w = IF program[call[r]].kind = "oneshot" THEN "oneshot" ELSE "scatter"
    BY DEF Ways
  <2>4. PICK t \in Nat : t = 0
    OBVIOUS
  <2>5. PICK p \in Packets : p.call = call[r] /\ p.from = s
    <3>1. PICK k \in 1 .. Len(program) : k = call[r]
      BY <2>1
    <3>2. /\ t < program[k].tokens /\ w # "broadcast"
          /\ (w = "oneshot") <=> (program[k].kind = "oneshot")
      BY <2>2, <2>3, <2>4, <3>1
    <3>3. /\ [way |-> w, call |-> k, token |-> t, from |-> s] \in Packets
          /\ [way |-> w, call |-> k, token |-> t, from |-> s].call = k
          /\ [way |-> w, call |-> k, token |-> t, from |-> s].from = s
      BY <3>2, IsPacket
    <3> QED BY <3>1, <3>3
  <2>6. Issued(p)
    BY <1>1, <2>5 DEF CallsTogether
  <2> QED BY <2>5, <2>6, IssuedCall
<1> QED BY <1>2, <1>3

LEMMA IssuedNear ==
  ASSUME TypeOK, CallsTogether, NEW p \in Packets, Issued(p), NEW r \in Ranks
  PROVE  p.call <= call[r] + 2
<1>1. p.from \in Ranks /\ p.call \in Nat
  BY PacketFacts
<1>2. p.call <= call[p.from] + 1 /\ call[p.from] <= call[r] + 1
  BY <1>1, IssuedCall, NearCalls
<1>3. call[r] \in Nat /\ call[p.from] \in Nat
  BY <1>1, RankFacts
<1> QED BY <1>1, <1>2, <1>3

\* A cell that no longer holds the sentinel holds the packet that has its
\* place there in a call around the rank's own.
LEMMA InPlace ==
  ASSUME TypeOK, CallsTogether, BufferRight, NEW r \in Ranks, NEW p \in Packets, GoesTo(p, r),
         p.call >= call[r], p.call <= call[r] + 2, buffer[r][Place(p)] # Clean
  PROVE  Issued(p) /\ buffer[r][Place(p)] = Content(p)
<1>1. Place(p) \in Addresses
  BY PlaceIs
<1>2. PICK q \in Packets : /\ q.call >= call[r] /\ Issued(q) /\ GoesTo(q, r)
                           /\ Place(q) = Place(p) /\ buffer[r][Place(p)] = Content(q)
  BY <1>1 DEF BufferRight
<1>3. q.call <= call[r] + 2
  BY <1>2, IssuedNear
<1>4. call[r] \in Nat /\ p.call \in Nat /\ q.call \in Nat
  BY RankFacts, PacketFacts
<1>5. p.call <= q.call + 2 /\ q.call <= p.call + 2
  BY <1>2, <1>3, <1>4
<1>6. p = q
  BY <1>2, <1>5, SamePlace
<1> QED BY <1>2, <1>6

\* When a call is over on a rank, everybody has stored all its packets.
LEMMA CompleteIsLast ==
  ASSUME TypeOK, CtasRight, CallsTogether, BufferRight, PolledRight, NEW r \in Ranks, Complete(r),
         NEW p \in Packets, p.call = call[r] + 1
  PROVE  Issued(p)
<1>1. /\ p.way \in Ways /\ p.call \in 1 .. Len(program) /\ p.call \in Nat /\ p.token \in Tokens
      /\ p.token \in 0 .. program[p.call].tokens - 1 /\ p.from \in Ranks
      /\ p.way = "oneshot" <=> program[p.call].kind = "oneshot"
  BY PacketFacts
<1>2. /\ Busy(r) /\ call[r] < Len(program)
      /\ \A c \in MainCtas(r) \cup NormCtas(r) : pc[r][c] = "done"
  BY CompleteEffect
<1>3. call[r] \in Nat
  BY RankFacts
<1>4. /\ Kind(r) = program[p.call].kind /\ NumTokens(r) = program[p.call].tokens
      /\ MainCtas(r) = 0 .. NumTokens(r) - 1 /\ Kind(r) \in Kinds
  BY <1>2, RunFacts
<1>5. pc[r][p.token] = "done"
  BY <1>1, <1>2, <1>4
<1>6. HasPutOut(r, p.token)
  <2>1. CASE Kind(r) = "twoshot_norm"
    <3>1. MaxTokens + p.token \in NormCtas(r)
      BY <1>1, <1>2, <1>4, <2>1, TokenFacts, RunFacts
    <3> QED BY <1>2, <2>1, <3>1 DEF HasPutOut
  <2>2. CASE Kind(r) # "twoshot_norm"
    BY <1>5, <2>2 DEF HasPutOut
  <2> QED BY <2>1, <2>2
<1>7. CASE p.way = "oneshot"
  <2>1. CASE p.from = r
    BY <1>3, <1>5, <1>7, <2>1 DEF Issued, Started
  <2>2. CASE p.from # r
    <3>1. Polled(r, p) /\ GoesTo(p, r)
      BY <1>6, <1>7, <2>2 DEF Polled, GoesTo
    <3>2. buffer[r][Place(p)] # Clean
      BY <1>2, <3>1 DEF PolledRight
    <3> QED BY <1>3, <3>1, <3>2, InPlace
  <2> QED BY <2>1, <2>2
<1>8. CASE p.way = "broadcast"
  <2>1. Polled(r, p) /\ GoesTo(p, r)
    BY <1>6, <1>8 DEF Polled, GoesTo
  <2>2. buffer[r][Place(p)] # Clean
    BY <1>2, <2>1 DEF PolledRight
  <2> QED BY <1>3, <2>1, <2>2, InPlace
<1>9. CASE p.way = "scatter"
  <2>1. PICK o \in Ranks : o = Owner(p.token)
    <3>1. Owner(p.token) \in 0 .. WorldSize - 1
      BY <1>1, TokenFacts, Sizes, DivFacts DEF Owner
    <3> QED BY <3>1, Sizes
  <2>2. PICK w \in Ways : w = "broadcast"
    BY DEF Ways
  <2>3. PICK q \in Packets : q.way = "broadcast" /\ q.call = p.call /\ q.token = p.token /\ q.from = o
    <3>1. p.token \in Nat /\ p.token < program[p.call].tokens
      BY PacketFacts
    <3>2. PICK k \in 1 .. Len(program) : k = p.call
      BY <1>1
    <3>3. PICK t \in Nat : t = p.token
      BY <3>1
    <3>4. /\ t < program[k].tokens /\ o = Owner(t)
          /\ (w = "oneshot") <=> (program[k].kind = "oneshot")
      BY <1>1, <1>9, <2>1, <2>2, <3>1, <3>2, <3>3
    <3>5. /\ [way |-> w, call |-> k, token |-> t, from |-> o] \in Packets
          /\ [way |-> w, call |-> k, token |-> t, from |-> o].way = w
          /\ [way |-> w, call |-> k, token |-> t, from |-> o].call = k
          /\ [way |-> w, call |-> k, token |-> t, from |-> o].token = t
          /\ [way |-> w, call |-> k, token |-> t, from |-> o].from = o
      BY <3>4, IsPacket
    <3> QED BY <2>2, <3>2, <3>3, <3>5
  <2>4. Polled(r, q) /\ GoesTo(q, r)
    BY <1>6, <2>3 DEF Polled, GoesTo
  <2>5. buffer[r][Place(q)] # Clean
    BY <1>2, <2>3, <2>4 DEF PolledRight
  <2>6. Issued(q)
    BY <1>3, <2>3, <2>4, <2>5, InPlace
  <2>7. CASE call[o] >= p.call
    BY <2>7 DEF CallsTogether
  <2>8. CASE ~(call[o] >= p.call)
    <3>1. call[o] = p.call - 1 /\ pc[o][p.token] \in Reduced
      BY <2>3, <2>6, <2>8 DEF Issued
    <3>2. Busy(o)
      <4>1. p.token \in Ctas /\ pc[o][p.token] # "off"
        BY <1>1, <3>1, TokenFacts DEF Reduced
      <4> QED BY <4>1, BusyFacts
    <3>3. Polled(o, p) /\ GoesTo(p, o) /\ p.call = call[o] + 1
      <4>1. call[o] \in Nat
        BY RankFacts
      <4> QED BY <1>1, <1>9, <2>1, <3>1, <4>1 DEF Polled, GoesTo
    <3>4. buffer[o][Place(p)] # Clean
      BY <3>2, <3>3 DEF PolledRight
    <3>5. p.call >= call[o] /\ p.call <= call[o] + 2
      BY <3>3, RankFacts
    <3> QED BY <3>3, <3>4, <3>5, InPlace
  <2> QED BY <2>7, <2>8
<1> QED BY <1>1, <1>7, <1>8, <1>9 DEF Ways

-----------------------------------------------------------------------------
\* The same for every step.

LEMMA QuietSteps ==
  ASSUME NEW m, Deliver(m) \/ Finished \/ UNCHANGED vars
  PROVE  UNCHANGED <<program, call, flags, pc, reg, out>>
BY DEF Deliver, Finished, vars

LEMMA NextCtas == ASSUME TypeOK, CtasRight, [Next]_vars PROVE CtasRight'
<1>1. ASSUME NEW r \in Ranks, Launch(r) PROVE CtasRight'
  BY <1>1, LaunchEffect
<1>2. ASSUME NEW r \in Ranks, LaunchNorm(r) PROVE CtasRight'
  BY <1>2, LaunchNormEffect
<1>3. ASSUME NEW r \in Ranks, Complete(r) PROVE CtasRight'
  BY <1>3, CompleteEffect
<1>4. ASSUME NEW r \in Ranks, NEW c \in Ctas, CtaStep(r, c) PROVE CtasRight'
  BY <1>4, StepMoves, MoveCtas
<1>5. ASSUME NEW m \in net, Deliver(m) PROVE CtasRight'
  BY <1>5, QuietSteps, QuietCtas
<1>6. CASE Finished \/ UNCHANGED vars
  BY <1>6, QuietSteps, QuietCtas
<1> QED BY <1>1, <1>2, <1>3, <1>4, <1>5, <1>6 DEF Next

LEMMA NextIssued ==
  ASSUME TypeOK, CtasRight, [Next]_vars, NEW p \in Packets, Issued(p)
  PROVE  Issued(p)'
<1>1. ASSUME NEW r \in Ranks, Launch(r) PROVE Issued(p)'
  BY <1>1, LaunchIssued
<1>2. ASSUME NEW r \in Ranks, LaunchNorm(r) PROVE Issued(p)'
  BY <1>2, LaunchNormIssued
<1>3. ASSUME NEW r \in Ranks, Complete(r) PROVE Issued(p)'
  BY <1>3, CompleteIssued
<1>4. ASSUME NEW r \in Ranks, NEW c \in Ctas, CtaStep(r, c) PROVE Issued(p)'
  BY <1>4, StepMoves, MoveIssued
<1>5. ASSUME NEW m \in net, Deliver(m) PROVE Issued(p)'
  BY <1>5, QuietSteps, QuietIssued
<1>6. CASE Finished \/ UNCHANGED vars
  BY <1>6, QuietSteps, QuietIssued
<1> QED BY <1>1, <1>2, <1>3, <1>4, <1>5, <1>6 DEF Next

LEMMA NextCalls ==
  ASSUME TypeOK, CtasRight, [Next]_vars
  PROVE  /\ program' = program
         /\ call' \in [Ranks -> 0 .. Len(program)]
         /\ pc' \in [Ranks -> [Ctas -> ProgramCounters]]
         /\ \A r \in Ranks : call'[r] = call[r] \/ Complete(r)
<1>0. call \in [Ranks -> 0 .. Len(program)] /\ pc \in [Ranks -> [Ctas -> ProgramCounters]]
  BY DEF TypeOK
<1> DEFINE Goal == /\ program' = program
                   /\ call' \in [Ranks -> 0 .. Len(program)]
                   /\ pc' \in [Ranks -> [Ctas -> ProgramCounters]]
                   /\ \A r \in Ranks : call'[r] = call[r] \/ Complete(r)
<1>1. ASSUME NEW r \in Ranks, Launch(r) PROVE Goal
  BY <1>0, <1>1, LaunchEffect
<1>2. ASSUME NEW r \in Ranks, LaunchNorm(r) PROVE Goal
  BY <1>0, <1>2, LaunchNormEffect
<1>3. ASSUME NEW r \in Ranks, Complete(r) PROVE Goal
  BY <1>3, CompleteEffect
<1>4. ASSUME NEW r \in Ranks, NEW c \in Ctas, CtaStep(r, c) PROVE Goal
  BY <1>0, <1>4, StepMoves DEF Moved
<1>5. ASSUME NEW m \in net, Deliver(m) PROVE Goal
  BY <1>0, <1>5, QuietSteps
<1>6. CASE Finished \/ UNCHANGED vars
  BY <1>0, <1>6, QuietSteps
<1> QED BY <1>1, <1>2, <1>3, <1>4, <1>5, <1>6 DEF Next

LEMMA NextTogether ==
  ASSUME TypeOK, CtasRight, CallsTogether, BufferRight, PolledRight, [Next]_vars
  PROVE  CallsTogether'
<1>1. /\ program' = program /\ Packets' = Packets
      /\ \A r \in Ranks : call'[r] = call[r] \/ Complete(r)
  BY NextCalls, SameProgram
<1>2. ASSUME NEW r \in Ranks, NEW p \in Packets, p.call <= call'[r]
      PROVE  Issued(p)'
  <2>1. CASE p.call <= call[r]
    BY <2>1, NextIssued DEF CallsTogether
  <2>2. CASE ~(p.call <= call[r])
    <3>1. Complete(r)
      BY <1>1, <1>2, <2>2
    <3>2. call'[r] = call[r] + 1
      BY <3>1, CompleteEffect
    <3>3. call[r] \in Nat /\ p.call \in Nat
      BY RankFacts, PacketFacts
    <3>4. p.call = call[r] + 1
      BY <1>2, <2>2, <3>2, <3>3
    <3>5. Issued(p)
      BY <3>1, <3>4, CompleteIsLast
    <3> QED BY <3>5, NextIssued
  <2> QED BY <2>1, <2>2
<1> QED BY <1>1, <1>2 DEF CallsTogether

-----------------------------------------------------------------------------
\* What is under way and what the buffers hold.

\* A packet that is just stored goes into clean cells of ranks that are not
\* through with the call.
LEMMA SendFinds ==
  ASSUME TypeOK, CallsTogether, BufferRight, NEW p \in Packets, p.call = call[p.from] + 1,
         ~Issued(p), NEW s \in Ranks, GoesTo(p, s)
  PROVE  p.call > call[s] /\ buffer[s][Place(p)] = Clean
<1>1. p.call \in Nat /\ call[s] \in Nat /\ p.from \in Ranks
  BY PacketFacts, RankFacts
<1>2. p.call > call[s]
  BY <1>1 DEF CallsTogether
<1>3. p.call <= call[s] + 2
  <2>1. call[p.from] <= call[s] + 1 /\ call[p.from] \in Nat
    BY <1>1, NearCalls, RankFacts
  <2> QED BY <1>1, <2>1
<1>4. buffer[s][Place(p)] = Clean
  <2>1. p.call >= call[s]
    BY <1>1, <1>2
  <2> QED BY <1>3, <2>1, InPlace
<1> QED BY <1>2, <1>4

Sends ==
  \A m \in net' : \/ m \in net
                  \/ \E p \in Packets, s \in Ranks :
                       /\ m = Store(p.from, s, Place(p), Content(p)) /\ GoesTo(p, s)
                       /\ p.call = call[p.from] + 1 /\ ~Issued(p) /\ Issued(p)'

LEMMA SendNet ==
  ASSUME TypeOK, CtasRight, CallsTogether, BufferRight, NetRight, [Next]_vars,
         call' = call, buffer' = buffer, Sends
  PROVE  NetRight'
<1>1. program' = program /\ Packets' = Packets
  BY NextCalls, SameProgram
<1>2. ASSUME NEW m \in net'
      PROVE  /\ buffer[m.to][m.at] = Clean
             /\ \E p \in Packets : /\ p.call > call[m.to] /\ Issued(p)' /\ GoesTo(p, m.to)
                                   /\ m = Store(p.from, m.to, Place(p), Content(p))
  <2>1. CASE m \in net
    <3>1. PICK p \in Packets : /\ p.call > call[m.to] /\ Issued(p) /\ GoesTo(p, m.to)
                               /\ m = Store(p.from, m.to, Place(p), Content(p))
      BY <2>1 DEF NetRight
    <3>2. Issued(p)'
      BY <3>1, NextIssued
    <3>3. buffer[m.to][m.at] = Clean
      BY <2>1 DEF NetRight
    <3> QED BY <3>1, <3>2, <3>3
  <2>2. CASE m \notin net
    <3>1. PICK p \in Packets, s \in Ranks :
                              /\ m = Store(p.from, s, Place(p), Content(p)) /\ GoesTo(p, s)
                              /\ p.call = call[p.from] + 1 /\ ~Issued(p) /\ Issued(p)'
      BY <1>2, <2>2 DEF Sends
    <3>2. m.to = s /\ m.at = Place(p)
      BY <3>1 DEF Store
    <3>3. p.call > call[s] /\ buffer[s][Place(p)] = Clean
      BY <3>1, SendFinds
    <3>4. m = Store(p.from, m.to, Place(p), Content(p)) /\ GoesTo(p, m.to)
      BY <3>1, <3>2
    <3> QED BY <3>1, <3>2, <3>3, <3>4
  <2> QED BY <2>1, <2>2
<1> QED BY <1>1, <1>2 DEF NetRight

\* Nothing is stored, and cells are at most cleared.
LEMMA ClearNet ==
  ASSUME TypeOK, CtasRight, CallsTogether, NetRight, [Next]_vars, call' = call, net' = net,
         \A r \in Ranks, a \in Addresses : buffer[r][a] = Clean => buffer'[r][a] = Clean
  PROVE  NetRight'
<1>1. program' = program /\ Packets' = Packets
  BY NextCalls, SameProgram
<1>2. ASSUME NEW m \in net
      PROVE  /\ buffer'[m.to][m.at] = Clean
             /\ \E p \in Packets : /\ p.call > call[m.to] /\ Issued(p)' /\ GoesTo(p, m.to)
                                   /\ m = Store(p.from, m.to, Place(p), Content(p))
  <2>1. PICK p \in Packets : /\ p.call > call[m.to] /\ Issued(p) /\ GoesTo(p, m.to)
                             /\ m = Store(p.from, m.to, Place(p), Content(p))
    BY DEF NetRight
  <2>2. Issued(p)'
    BY <2>1, NextIssued
  <2>3. buffer[m.to][m.at] = Clean /\ m.to \in Ranks /\ m.at \in Addresses
    BY DEF NetRight, TypeOK
  <2> QED BY <2>1, <2>2, <2>3
<1> QED BY <1>1, <1>2 DEF NetRight

LEMMA ClearBuffer ==
  ASSUME TypeOK, CtasRight, BufferRight, [Next]_vars, call' = call,
         \A r \in Ranks, a \in Addresses : buffer'[r][a] \in {Clean, buffer[r][a]}
  PROVE  BufferRight'
<1>1. program' = program /\ Packets' = Packets
  BY NextCalls, SameProgram
<1>2. ASSUME NEW r \in Ranks, NEW a \in Addresses, buffer'[r][a] # Clean
      PROVE  \E p \in Packets : /\ p.call >= call[r] /\ Issued(p)' /\ GoesTo(p, r)
                                /\ Place(p) = a /\ buffer'[r][a] = Content(p)
  <2>1. buffer'[r][a] = buffer[r][a] /\ buffer[r][a] # Clean
    BY <1>2
  <2>2. PICK p \in Packets : /\ p.call >= call[r] /\ Issued(p) /\ GoesTo(p, r)
                             /\ Place(p) = a /\ buffer[r][a] = Content(p)
    BY <2>1 DEF BufferRight
  <2>3. Issued(p)'
    BY <2>2, NextIssued
  <2> QED BY <2>1, <2>2, <2>3
<1> QED BY <1>1, <1>2 DEF BufferRight

\* When a call is over on a rank, nothing of it is under way to the rank, and
\* nothing of the call before is left in its buffers.
LEMMA CompleteNet ==
  ASSUME TypeOK, CtasRight, CallsTogether, NetRight, PolledRight, NEW r \in Ranks,
         Complete(r), [Next]_vars
  PROVE  NetRight'
<1>1. program' = program /\ Packets' = Packets
  BY NextCalls, SameProgram
<1>2. /\ buffer' = buffer /\ net' = net /\ \A m \in net : ~(m.from = r /\ m.to = r)
  BY DEF Complete
<1>3. /\ Busy(r) /\ call[r] < Len(program) /\ call'[r] = call[r] + 1
      /\ \A s \in Ranks \ {r} : call'[s] = call[s]
      /\ \A c \in MainCtas(r) \cup NormCtas(r) : pc[r][c] = "done"
  BY CompleteEffect
<1>4. /\ Kind(r) = program[call[r] + 1].kind /\ NumTokens(r) = program[call[r] + 1].tokens
      /\ MainCtas(r) = 0 .. NumTokens(r) - 1 /\ Kind(r) \in Kinds
  BY <1>3, RunFacts
<1>5. ASSUME NEW m \in net
      PROVE  /\ buffer[m.to][m.at] = Clean
             /\ \E p \in Packets : /\ p.call > call'[m.to] /\ Issued(p)' /\ GoesTo(p, m.to)
                                   /\ m = Store(p.from, m.to, Place(p), Content(p))
  <2>1. PICK p \in Packets : /\ p.call > call[m.to] /\ Issued(p) /\ GoesTo(p, m.to)
                             /\ m = Store(p.from, m.to, Place(p), Content(p))
    BY DEF NetRight
  <2>2. Issued(p)'
    BY <2>1, NextIssued
  <2>3. buffer[m.to][m.at] = Clean /\ m.to \in Ranks
    BY DEF NetRight, TypeOK
  <2>4. p.call > call'[m.to]
    <3>1. CASE m.to # r
      BY <1>3, <2>1, <2>3, <3>1
    <3>2. CASE m.to = r
      <4>1. p.from # r /\ m.at = Place(p)
        <5>1. m.from = p.from /\ m.at = Place(p)
          BY <2>1 DEF Store
        <5> QED BY <1>2, <3>2, <5>1
      <4>2. /\ p.way \in Ways /\ p.call \in Nat /\ p.token \in Tokens
            /\ p.token \in 0 .. program[p.call].tokens - 1
            /\ p.way = "oneshot" <=> program[p.call].kind = "oneshot"
        BY PacketFacts
      <4>3. SUFFICES ASSUME p.call = call[r] + 1 PROVE FALSE
        <5>1. call[r] \in Nat
          BY RankFacts
        <5> QED BY <1>3, <2>1, <3>2, <4>2, <5>1
      <4>4. pc[r][p.token] = "done"
        BY <1>3, <1>4, <4>2, <4>3
      <4>5. HasPutOut(r, p.token)
        <5>1. CASE Kind(r) = "twoshot_norm"
          <6>1. MaxTokens + p.token \in NormCtas(r)
            BY <1>3, <1>4, <4>2, <4>3, <5>1, TokenFacts, RunFacts
          <6> QED BY <1>3, <5>1, <6>1 DEF HasPutOut
        <5>2. CASE Kind(r) # "twoshot_norm"
          BY <4>4, <5>2 DEF HasPutOut
        <5> QED BY <5>1, <5>2
      <4>6. Polled(r, p)
        BY <4>1, <4>2, <4>4, <4>5 DEF Polled, Ways, Reduced
      <4>7. buffer[r][Place(p)] # Clean
        BY <1>3, <2>1, <3>2, <4>3, <4>6 DEF PolledRight
      <4> QED BY <2>3, <3>2, <4>1, <4>7
    <3> QED BY <3>1, <3>2
  <2> QED BY <2>1, <2>2, <2>3, <2>4
<1> QED BY <1>1, <1>2, <1>5 DEF NetRight

LEMMA CompleteBuffer ==
  ASSUME TypeOK, CtasRight, BufferRight, ClearedRight, NEW r \in Ranks, Complete(r), [Next]_vars
  PROVE  BufferRight'
<1>1. program' = program /\ Packets' = Packets /\ buffer' = buffer
  BY NextCalls, SameProgram DEF Complete
<1>3. /\ Busy(r) /\ call[r] < Len(program) /\ call'[r] = call[r] + 1 /\ call[r] \in Nat
      /\ \A s \in Ranks \ {r} : call'[s] = call[s]
      /\ \A c \in MainCtas(r) \cup NormCtas(r) : pc[r][c] = "done"
  BY CompleteEffect, RankFacts
<1>4. NumTokens(r) \in Nat \ {0} /\ MainCtas(r) = 0 .. NumTokens(r) - 1
  BY <1>3, RunFacts
<1>5. ASSUME NEW s \in Ranks, NEW a \in Addresses, buffer[s][a] # Clean
      PROVE  \E p \in Packets : /\ p.call >= call'[s] /\ Issued(p)' /\ GoesTo(p, s)
                                /\ Place(p) = a /\ buffer[s][a] = Content(p)
  <2>1. PICK p \in Packets : /\ p.call >= call[s] /\ Issued(p) /\ GoesTo(p, s)
                             /\ Place(p) = a /\ buffer[s][a] = Content(p)
    BY <1>5 DEF BufferRight
  <2>2. Issued(p)'
    BY <2>1, NextIssued
  <2>3. p.call >= call'[s]
    <3>1. CASE s # r
      BY <1>3, <2>1, <3>1
    <3>2. CASE s = r /\ p.call # call[r]
      BY <1>3, <2>1, <3>2, PacketFacts
    <3>3. CASE s = r /\ p.call = call[r]
      <4>1. PICK n \in Nat \ {0} : n = NumTokens(r)
        BY <1>4
      <4>2. PICK stage \in 0 .. 1, c \in 0 .. n - 1 :
              Place(p) \in DirtyCells(LayoutAfter(p.call), stage, c, n)
        BY PlaceIsDirty
      <4>3. c \in MainCtas(r) /\ pc[r][c] = "done"
        BY <1>3, <1>4, <4>1
      <4>4. HasCleared(r, c, stage)
        BY <4>3 DEF HasCleared, Started
      <4>5. stage \in 0 .. NumStages - 1
        BY DEF NumStages
      <4>6. Place(p) \in DirtyCells(LayoutAfter(call[r]), stage, c, NumTokens(r))
        BY <3>3, <4>1, <4>2
      <4>7. buffer[r][Place(p)] = Clean
        BY <1>3, <4>3, <4>4, <4>5, <4>6 DEF ClearedRight
      <4> QED BY <1>5, <2>1, <3>3, <4>7
    <3> QED BY <3>1, <3>2, <3>3
  <2> QED BY <2>1, <2>2, <2>3
<1> QED BY <1>1, <1>5 DEF BufferRight

-----------------------------------------------------------------------------
\* A store that becomes visible.

LEMMA DeliverFacts ==
  ASSUME TypeOK, CallsTogether, NetRight, NEW m \in net, Deliver(m)
  PROVE  /\ UNCHANGED <<program, call, flags, pc, reg, out>> /\ net' = net \ {m}
         /\ buffer' \in [Ranks -> [Addresses -> CellValues]]
         /\ buffer'[m.to][m.at] = m.value /\ m.value # Clean
         /\ m.to \in Ranks /\ m.at \in Addresses
         /\ \A r \in Ranks, a \in Addresses : r # m.to \/ a # m.at => buffer'[r][a] = buffer[r][a]
         /\ \E p \in Packets : /\ p.call > call[m.to] /\ Issued(p) /\ GoesTo(p, m.to)
                               /\ p.call <= call[m.to] + 2
                               /\ Place(p) = m.at /\ Content(p) = m.value
<1>1. /\ UNCHANGED <<program, call, flags, pc, reg, out>> /\ net' = net \ {m}
      /\ buffer' = [buffer EXCEPT ![m.to][m.at] = m.value]
  BY DEF Deliver
<1>2. m \in [from : Ranks, to : Ranks, at : Addresses, value : CellValues \ {Clean}]
  BY DEF TypeOK
<1>3. m.to \in Ranks /\ m.at \in Addresses /\ m.value \in CellValues /\ m.value # Clean
  BY <1>2
<1>4. buffer \in [Ranks -> [Addresses -> CellValues]]
  BY DEF TypeOK
<1>5. /\ buffer' \in [Ranks -> [Addresses -> CellValues]]
      /\ buffer'[m.to][m.at] = m.value
  BY <1>1, <1>3, <1>4
<1>6. \A r \in Ranks, a \in Addresses : r # m.to \/ a # m.at => buffer'[r][a] = buffer[r][a]
  BY <1>1, <1>3, <1>4
<1>7. PICK p \in Packets : /\ p.call > call[m.to] /\ Issued(p) /\ GoesTo(p, m.to)
                           /\ m = Store(p.from, m.to, Place(p), Content(p))
  BY DEF NetRight
<1>8. Place(p) = m.at /\ Content(p) = m.value
  BY <1>7 DEF Store
<1>9. p.call <= call[m.to] + 2
  BY <1>3, <1>7, IssuedNear
<1> QED BY <1>1, <1>3, <1>5, <1>6, <1>7, <1>8, <1>9

LEMMA DeliverNet ==
  ASSUME TypeOK, CtasRight, CallsTogether, NetRight, NEW d \in net, Deliver(d), [Next]_vars
  PROVE  NetRight'
<1>1. program' = program /\ Packets' = Packets
  BY NextCalls, SameProgram
<1>2. /\ call' = call /\ net' = net \ {d}
      /\ d.to \in Ranks /\ d.at \in Addresses
      /\ \A r \in Ranks, a \in Addresses : r # d.to \/ a # d.at => buffer'[r][a] = buffer[r][a]
  BY DeliverFacts
<1>3. ASSUME NEW m \in net \ {d}
      PROVE  /\ buffer'[m.to][m.at] = Clean
             /\ \E p \in Packets : /\ p.call > call[m.to] /\ Issued(p)' /\ GoesTo(p, m.to)
                                   /\ m = Store(p.from, m.to, Place(p), Content(p))
  <2>1. PICK p \in Packets : /\ p.call > call[m.to] /\ Issued(p) /\ GoesTo(p, m.to)
                             /\ m = Store(p.from, m.to, Place(p), Content(p))
    BY DEF NetRight
  <2>2. Issued(p)'
    BY <2>1, NextIssued
  <2>3. buffer[m.to][m.at] = Clean /\ m.to \in Ranks /\ m.at \in Addresses /\ m.at = Place(p)
    <3>1. m.at = Place(p)
      BY <2>1 DEF Store
    <3> QED BY <3>1 DEF NetRight, TypeOK
  <2>4. CASE m.to # d.to \/ m.at # d.at
    BY <1>2, <2>1, <2>2, <2>3, <2>4
  <2>5. CASE m.to = d.to /\ m.at = d.at
    <3>1. PICK q \in Packets : /\ q.call > call[d.to] /\ Issued(q) /\ GoesTo(q, d.to)
                               /\ d = Store(q.from, d.to, Place(q), Content(q))
      BY DEF NetRight
    <3>2. d.at = Place(q)
      BY <3>1 DEF Store
    <3>3. p.call <= call[d.to] + 2 /\ q.call <= call[d.to] + 2
      BY <1>2, <2>1, <3>1, IssuedNear
    <3>4. call[d.to] \in Nat /\ p.call \in Nat /\ q.call \in Nat
      BY <1>2, RankFacts, PacketFacts
    <3>5. p.call <= q.call + 2 /\ q.call <= p.call + 2
      BY <2>1, <2>5, <3>1, <3>3, <3>4
    <3>6. p = q
      <4>1. PICK r \in Ranks : r = d.to
        BY <1>2
      <4>2. GoesTo(p, r) /\ GoesTo(q, r) /\ Place(p) = Place(q)
        BY <2>1, <2>3, <2>5, <3>1, <3>2, <4>1
      <4> QED BY <3>5, <4>2, SamePlace
    <3>7. m = d
      BY <2>1, <2>5, <3>1, <3>6
    <3> QED BY <3>7
  <2> QED BY <2>4, <2>5
<1> QED BY <1>1, <1>2, <1>3 DEF NetRight

LEMMA DeliverBuffer ==
  ASSUME TypeOK, CtasRight, CallsTogether, NetRight, BufferRight, NEW d \in net, Deliver(d),
         [Next]_vars
  PROVE  BufferRight'
<1>1. program' = program /\ Packets' = Packets
  BY NextCalls, SameProgram
<1>2. /\ call' = call /\ d.to \in Ranks /\ d.at \in Addresses /\ buffer'[d.to][d.at] = d.value
      /\ \A r \in Ranks, a \in Addresses : r # d.to \/ a # d.at => buffer'[r][a] = buffer[r][a]
  BY DeliverFacts
<1>3. ASSUME NEW r \in Ranks, NEW a \in Addresses, buffer'[r][a] # Clean
      PROVE  \E p \in Packets : /\ p.call >= call[r] /\ Issued(p)' /\ GoesTo(p, r)
                                /\ Place(p) = a /\ buffer'[r][a] = Content(p)
  <2>1. CASE r = d.to /\ a = d.at
    <3>1. PICK p \in Packets : /\ p.call > call[d.to] /\ Issued(p) /\ GoesTo(p, d.to)
                               /\ Place(p) = d.at /\ Content(p) = d.value
      BY DeliverFacts
    <3>2. Issued(p)'
      BY <3>1, NextIssued
    <3>3. p.call >= call[r]
      BY <2>1, <3>1, RankFacts, PacketFacts
    <3> QED BY <1>2, <2>1, <3>1, <3>2, <3>3
  <2>2. CASE ~(r = d.to /\ a = d.at)
    <3>1. buffer'[r][a] = buffer[r][a]
      BY <1>2, <2>2
    <3>2. PICK p \in Packets : /\ p.call >= call[r] /\ Issued(p) /\ GoesTo(p, r)
                               /\ Place(p) = a /\ buffer[r][a] = Content(p)
      BY <1>3, <3>1 DEF BufferRight
    <3>3. Issued(p)'
      BY <3>2, NextIssued
    <3> QED BY <3>1, <3>2, <3>3
  <2> QED BY <2>1, <2>2
<1> QED BY <1>1, <1>2, <1>3 DEF BufferRight

-----------------------------------------------------------------------------
\* The flags and the arrivals.
ArrivedAt(kind) == CASE kind = "oneshot" -> Started
                     [] kind = "twoshot" -> {"receive", "update", "done"}
                     [] kind = "twoshot_norm" -> {"receive", "join", "update", "done"}
UpdCta(r) == IF Kind(r) = "twoshot_norm" THEN MaxTokens ELSE 0

FlagsOk(r) ==
  /\ flags[r].layout = LayoutAfter(IF Updated(r) THEN call[r] + 1 ELSE call[r])
  /\ flags[r].arrived = IF Busy(r) /\ ~Updated(r) THEN Cardinality(HasArrived(r)) ELSE 0
  /\ Updated(r) => HasArrived(r) = Arriving(r)
  /\ \A c \in Ctas : pc[r][c] \notin {"off", "ready"} => reg[r][c] = LayoutAfter(call[r])

LEMMA FlagsEach == FlagsRight <=> \A r \in Ranks : FlagsOk(r)
BY DEF FlagsRight, FlagsOk

LEMMA ArrivedIs ==
  ASSUME NEW r \in Ranks
  PROVE  /\ HasArrived(r) = {c \in Arriving(r) : pc[r][c] \in ArrivedAt(Kind(r))}
         /\ Updated(r) <=> Busy(r) /\ pc[r][UpdCta(r)] = "done"
<1>1. HasArrived(r) = {c \in Arriving(r) : pc[r][c] \in ArrivedAt(Kind(r))}
  BY DEF HasArrived, ArrivedAt
<1>2. Updated(r) <=> Busy(r) /\ pc[r][UpdCta(r)] = "done"
  BY DEF Updated, UpdCta
<1> QED BY <1>1, <1>2

LEMMA SameArrived ==
  ASSUME NEW s \in Ranks, program' = program, call'[s] = call[s], pc'[s] = pc[s]
  PROVE  /\ HasArrived(s)' = HasArrived(s) /\ Updated(s)' = Updated(s) /\ Busy(s)' = Busy(s)
         /\ Arriving(s)' = Arriving(s)
<1>1. /\ Kind(s)' = Kind(s) /\ NumTokens(s)' = NumTokens(s) /\ Arriving(s)' = Arriving(s)
  BY SameRun
<1> QED BY <1>1 DEF HasArrived, Updated, Busy

LEMMA SameFlags ==
  ASSUME NEW s \in Ranks, program' = program, call'[s] = call[s], pc'[s] = pc[s],
         flags'[s] = flags[s], reg'[s] = reg[s], FlagsOk(s)
  PROVE  FlagsOk(s)'
<1>1. /\ HasArrived(s)' = HasArrived(s) /\ Updated(s)' = Updated(s) /\ Busy(s)' = Busy(s)
      /\ Arriving(s)' = Arriving(s)
  BY SameArrived
<1>2. \A n : LayoutAfter(n)' = LayoutAfter(n)
  BY SameProgram
<1> QED BY <1>1, <1>2 DEF FlagsOk

\* Who arrives, who updates.
LEMMA ArrivingFacts ==
  ASSUME TypeOK, NEW r \in Ranks, call[r] < Len(program)
  PROVE  /\ UpdCta(r) \in Arriving(r)
         /\ \A c \in Arriving(r) : c \in Ctas
         /\ IsFiniteSet(Arriving(r)) /\ Cardinality(Arriving(r)) = NumTokens(r)
         /\ IsFiniteSet(HasArrived(r)) /\ HasArrived(r) \subseteq Arriving(r)
         /\ Cardinality(HasArrived(r)) \in 0 .. NumTokens(r)
         /\ Cardinality(HasArrived(r)) = NumTokens(r) => HasArrived(r) = Arriving(r)
<1>1. /\ NumTokens(r) \in Nat \ {0} /\ Kind(r) \in Kinds
      /\ MainCtas(r) = 0 .. NumTokens(r) - 1
      /\ \A c \in MainCtas(r) : c \in Ctas
      /\ \A c \in NormCtas(r) : c \in Ctas
      /\ Kind(r) = "twoshot_norm" =>
           NormCtas(r) = {c \in Ctas : IsNorm(c) /\ TokenOf(c) < NumTokens(r)}
      /\ \A t \in 0 .. NumTokens(r) - 1 : t \in Tokens
      /\ 0 \in MainCtas(r)
  BY RunFacts
<1>2. MaxTokens \in Nat \ {0}
  BY Sizes
<1>3. 0 \in Tokens /\ MaxTokens \in Ctas /\ TokenOf(MaxTokens) = 0 /\ IsNorm(MaxTokens)
  <2>1. 0 \in Tokens
    BY <1>1
  <2>2. MaxTokens + 0 \in Ctas /\ TokenOf(MaxTokens + 0) = 0 /\ IsNorm(MaxTokens + 0)
    BY <2>1, TokenFacts
  <2>3. MaxTokens + 0 = MaxTokens
    BY <1>2
  <2> QED BY <2>1, <2>2, <2>3
<1>4. UpdCta(r) \in Arriving(r)
  <2>1. CASE Kind(r) = "twoshot_norm"
    BY <1>1, <1>3, <2>1 DEF UpdCta, Arriving
  <2>2. CASE Kind(r) # "twoshot_norm"
    BY <1>1, <2>2 DEF UpdCta, Arriving
  <2> QED BY <2>1, <2>2
<1>5. \A c \in Arriving(r) : c \in Ctas
  BY <1>1 DEF Arriving
<1>6. IsFiniteSet(Arriving(r)) /\ Cardinality(Arriving(r)) = NumTokens(r)
  <2>1. CASE Kind(r) # "twoshot_norm"
    <3>1. Arriving(r) = 0 .. NumTokens(r) - 1
      BY <1>1, <2>1 DEF Arriving
    <3>2. IsFiniteSet(0 .. NumTokens(r) - 1)
          /\ Cardinality(0 .. NumTokens(r) - 1) = NumTokens(r)
      <4>1. PICK n \in Nat \ {0} : n = NumTokens(r)
        BY <1>1
      <4>2. PICK m \in Int : m = n - 1
        OBVIOUS
      <4>3. IsFiniteSet(0 .. m) /\ Cardinality(0 .. m) = IF 0 > m THEN 0 ELSE m - 0 + 1
        BY FS_Interval
      <4> QED BY <4>1, <4>2, <4>3
    <3> QED BY <3>1, <3>2
  <2>2. CASE Kind(r) = "twoshot_norm"
    <3>1. Arriving(r) = MaxTokens .. MaxTokens + NumTokens(r) - 1
      <4>1. Arriving(r) = {c \in Ctas : IsNorm(c) /\ TokenOf(c) < NumTokens(r)}
        BY <1>1, <2>2 DEF Arriving
      <4>2. \A c \in Arriving(r) : c \in MaxTokens .. MaxTokens + NumTokens(r) - 1
        <5>1. TAKE c \in Arriving(r)
        <5>2. c = MaxTokens + TokenOf(c) /\ TokenOf(c) \in Tokens /\ TokenOf(c) < NumTokens(r)
          BY <4>1, CtaIs
        <5>3. TokenOf(c) \in Nat
          BY <5>2, <1>2, Sizes
        <5> QED BY <5>2, <5>3, <1>1, <1>2
      <4>3. \A c \in MaxTokens .. MaxTokens + NumTokens(r) - 1 : c \in Arriving(r)
        <5>1. TAKE c \in MaxTokens .. MaxTokens + NumTokens(r) - 1
        <5>2. PICK t \in 0 .. NumTokens(r) - 1 : c = MaxTokens + t
          <6>1. c - MaxTokens \in 0 .. NumTokens(r) - 1 /\ c = MaxTokens + (c - MaxTokens)
            BY <1>1, <1>2
          <6> QED BY <6>1
        <5>3. t \in Tokens
          BY <1>1
        <5>4. c \in Ctas /\ TokenOf(c) = t /\ IsNorm(c)
          BY <5>2, <5>3, TokenFacts
        <5>5. t < NumTokens(r)
          BY <1>1
        <5> QED BY <4>1, <5>4, <5>5
      <4> QED BY <4>2, <4>3
    <3>2. PICK n \in Nat \ {0} : n = NumTokens(r)
      BY <1>1
    <3>3. PICK a \in Nat \ {0} : a = MaxTokens
      BY <1>2
    <3>4. IsFiniteSet(a .. a + n - 1)
          /\ Cardinality(a .. a + n - 1) = IF a > a + n - 1 THEN 0 ELSE a + n - 1 - a + 1
      BY FS_Interval
    <3>5. Cardinality(a .. a + n - 1) = n
      BY <3>4
    <3> QED BY <3>1, <3>2, <3>3, <3>4, <3>5
  <2> QED BY <2>1, <2>2
<1>7. HasArrived(r) \subseteq Arriving(r)
  BY DEF HasArrived
<1>8. /\ IsFiniteSet(HasArrived(r)) /\ Cardinality(HasArrived(r)) <= Cardinality(Arriving(r))
      /\ Cardinality(HasArrived(r)) = Cardinality(Arriving(r)) => HasArrived(r) = Arriving(r)
  BY <1>6, <1>7, FS_Subset
<1>9. Cardinality(HasArrived(r)) \in Nat
  BY <1>8, FS_CardinalityType
<1> QED BY <1>1, <1>4, <1>5, <1>6, <1>7, <1>8, <1>9

\* A CTA that moves arrives, or the set of those that have is as it was.
LEMMA MoveRun ==
  ASSUME TypeOK, CtasRight, NEW r \in Ranks, NEW c \in Ctas, NEW b \in ProgramCounters, Busy(r),
         Moved(r, c, b), Move(r, c, b)
  PROVE  /\ call[r] < Len(program) /\ call'[r] = call[r]
         /\ Kind(r)' = Kind(r) /\ NumTokens(r)' = NumTokens(r)
         /\ MainCtas(r)' = MainCtas(r) /\ NormCtas(r)' = NormCtas(r)
         /\ Arriving(r)' = Arriving(r) /\ UpdCta(r)' = UpdCta(r) /\ Busy(r)'
         /\ \A n : LayoutAfter(n)' = LayoutAfter(n)
<1>1. program' = program /\ call' = call
  BY DEF Moved
<1>2. call[r] < Len(program)
  BY DEF CtasRight
<1>3. /\ Kind(r)' = Kind(r) /\ NumTokens(r)' = NumTokens(r)
      /\ MainCtas(r)' = MainCtas(r) /\ NormCtas(r)' = NormCtas(r)
      /\ Arriving(r)' = Arriving(r)
  BY <1>1, SameRun
<1>4. UpdCta(r)' = UpdCta(r)
  BY <1>3 DEF UpdCta
<1>5. Busy(r)'
  BY MoveCtas
<1> QED BY <1>1, <1>2, <1>3, <1>4, <1>5, SameProgram

LEMMA MoveArrived ==
  ASSUME TypeOK, CtasRight, NEW r \in Ranks, NEW c \in Ctas, NEW b \in ProgramCounters, Busy(r),
         Moved(r, c, b), Move(r, c, b)
  PROVE  /\ \/ c \notin Arriving(r)
            \/ (pc[r][c] \in ArrivedAt(Kind(r))) <=> (b \in ArrivedAt(Kind(r)))
            => HasArrived(r)' = HasArrived(r)
         /\ /\ c \in Arriving(r)
            /\ pc[r][c] \notin ArrivedAt(Kind(r)) /\ b \in ArrivedAt(Kind(r))
            => HasArrived(r)' = HasArrived(r) \cup {c} /\ c \notin HasArrived(r)
<1>1. Kind(r)' = Kind(r) /\ Arriving(r)' = Arriving(r) /\ call[r] < Len(program)
  BY MoveRun
<1>2. /\ HasArrived(r) = {d \in Arriving(r) : pc[r][d] \in ArrivedAt(Kind(r))}
      /\ HasArrived(r)' = {d \in Arriving(r) : pc'[r][d] \in ArrivedAt(Kind(r))}
  BY <1>1 DEF HasArrived, ArrivedAt
<1>3. pc'[r][c] = b /\ \A d \in Ctas \ {c} : pc'[r][d] = pc[r][d]
  BY DEF Moved
<1>4. \A d \in Arriving(r) : d \in Ctas
  BY <1>1, ArrivingFacts
<1> HIDE DEF ArrivedAt
<1>5. c \notin Arriving(r) \/ ((pc[r][c] \in ArrivedAt(Kind(r))) <=> (b \in ArrivedAt(Kind(r))))
      => HasArrived(r)' = HasArrived(r)
  BY <1>2, <1>3, <1>4
<1>6. c \in Arriving(r) /\ pc[r][c] \notin ArrivedAt(Kind(r)) /\ b \in ArrivedAt(Kind(r))
      => HasArrived(r)' = HasArrived(r) \cup {c} /\ c \notin HasArrived(r)
  BY <1>2, <1>3, <1>4
<1> QED BY <1>5, <1>6

LEMMA MoveUpdated ==
  ASSUME TypeOK, CtasRight, NEW r \in Ranks, NEW c \in Ctas, NEW b \in ProgramCounters, Busy(r),
         Moved(r, c, b), Move(r, c, b)
  PROVE  /\ Updated(r)' <=> Updated(r) \/ pc[r][c] = "update"
         /\ pc[r][c] = "update" => ~Updated(r)
<1>1. UpdCta(r)' = UpdCta(r) /\ Busy(r)' /\ call[r] < Len(program)
  BY MoveRun
<1>2. /\ Updated(r) <=> pc[r][UpdCta(r)] = "done"
      /\ Updated(r)' <=> pc'[r][UpdCta(r)] = "done"
  <2>1. Updated(r) <=> Busy(r) /\ pc[r][UpdCta(r)] = "done"
    BY ArrivedIs
  <2>2. Updated(r)' <=> Busy(r)' /\ (pc[r][UpdCta(r)])' = "done"
    BY DEF Updated, UpdCta
  <2> QED BY <1>1, <2>1, <2>2
<1>3. pc'[r][c] = b /\ \A d \in Ctas \ {c} : pc'[r][d] = pc[r][d]
  BY DEF Moved
<1>4. UpdCta(r) \in Ctas
  BY <1>1, ArrivingFacts
<1>5. pc[r][c] = "update" => c = UpdCta(r) /\ b = "done"
  BY DEF Move, UpdCta
<1>6. c = UpdCta(r) => (b = "done" <=> pc[r][c] = "update") /\ pc[r][c] # "done"
  <2>1. \A d \in MainCtas(r) : d # MaxTokens
    <3>1. MainCtas(r) = 0 .. NumTokens(r) - 1 /\ NumTokens(r) \in 1 .. MaxTokens
      BY <1>1, RunFacts
    <3> QED BY <3>1, Sizes
  <2>2. Kind(r) # "twoshot_norm" \/ c \in NormCtas(r) \/ c # UpdCta(r)
    BY <2>1 DEF Move, UpdCta
  <2>3. \A d \in NormCtas(r) : d \notin MainCtas(r)
    BY <1>1, RunFacts
  <2> QED BY <2>2, <2>3 DEF Move, UpdCta
<1> QED BY <1>2, <1>3, <1>4, <1>5, <1>6

\* While a CTA has still to arrive the flags are those of the call.
LEMMA NotUpdated ==
  ASSUME TypeOK, CtasRight, FlagsRight, NEW r \in Ranks, Busy(r), NEW c \in Ctas,
         \/ c \in MainCtas(r) \cup NormCtas(r) /\ pc[r][c] = "ready"
         \/ c \in Arriving(r) /\ pc[r][c] \notin ArrivedAt(Kind(r))
  PROVE  ~Updated(r)
<1>1. call[r] < Len(program)
  BY DEF CtasRight
<1>2. Updated(r) => HasArrived(r) = Arriving(r)
  BY DEF FlagsRight
<1>3. c \in Arriving(r) /\ pc[r][c] \notin ArrivedAt(Kind(r)) => ~Updated(r)
  BY <1>2, ArrivedIs
<1>4. Kind(r) \in Kinds /\ (Kind(r) # "twoshot_norm" => NormCtas(r) = {})
  BY <1>1, RunFacts
<1>5. CASE c \in Arriving(r) /\ pc[r][c] = "ready"
  <2>1. "ready" \notin ArrivedAt(Kind(r))
    BY <1>4 DEF ArrivedAt, Started, Kinds
  <2> QED BY <1>3, <1>5, <2>1
<1>6. CASE c \in MainCtas(r) /\ Kind(r) = "twoshot_norm" /\ pc[r][c] = "ready"
  <2>1. MaxTokens \in NormCtas(r)
    <3>1. UpdCta(r) \in Arriving(r)
      BY <1>1, ArrivingFacts
    <3> QED BY <1>6, <3>1 DEF UpdCta, Arriving
  <2>2. pc[r][MaxTokens] # "off" => \A d \in MainCtas(r) : pc[r][d] # "ready"
    BY <2>1 DEF CtasRight
  <2>3. pc[r][MaxTokens] # "done"
    BY <1>6, <2>2
  <2> QED BY <1>6, <2>3 DEF Updated
<1>7. CASE c \in Arriving(r) /\ pc[r][c] \notin ArrivedAt(Kind(r))
  BY <1>3, <1>7
<1> QED BY <1>4, <1>5, <1>6, <1>7 DEF Arriving

\* What a move does to the flags.
LEMMA QuietFlags ==
  ASSUME TypeOK, CtasRight, NEW r \in Ranks, NEW c \in Ctas, NEW b \in ProgramCounters, Busy(r),
         Moved(r, c, b), Move(r, c, b), FlagsOk(r), flags'[r] = flags[r],
         pc[r][c] # "update", HasArrived(r)' = HasArrived(r),
         reg'[r][c] = LayoutAfter(call[r]), \A d \in Ctas \ {c} : reg'[r][d] = reg[r][d]
  PROVE  FlagsOk(r)'
<1>1. /\ call'[r] = call[r] /\ Arriving(r)' = Arriving(r) /\ Busy(r)'
      /\ \A n : LayoutAfter(n)' = LayoutAfter(n)
  BY MoveRun
<1>2. Updated(r)' <=> Updated(r)
  BY MoveUpdated
<1>3. (flags[r].layout = LayoutAfter(IF Updated(r) THEN call[r] + 1 ELSE call[r]))'
  BY <1>1, <1>2 DEF FlagsOk
<1>4. flags'[r].arrived = IF Busy(r)' /\ ~Updated(r)' THEN Cardinality(HasArrived(r)') ELSE 0
  BY <1>1, <1>2 DEF FlagsOk
<1>5. Updated(r)' => HasArrived(r)' = Arriving(r)'
  BY <1>1, <1>2 DEF FlagsOk
<1>6. ASSUME NEW d \in Ctas, pc'[r][d] \notin {"off", "ready"}
      PROVE  (reg[r][d] = LayoutAfter(call[r]))'
  <2>1. d # c => pc'[r][d] = pc[r][d]
    BY DEF Moved
  <2> QED BY <1>1, <1>6, <2>1 DEF FlagsOk
<1> QED BY <1>3, <1>4, <1>5, <1>6 DEF FlagsOk

LEMMA ArriveFlags ==
  ASSUME TypeOK, CtasRight, NEW r \in Ranks, NEW c \in Ctas, NEW b \in ProgramCounters, Busy(r),
         Moved(r, c, b), Move(r, c, b), FlagsOk(r), ~Updated(r),
         flags'[r].layout = flags[r].layout, flags'[r].arrived = flags[r].arrived + 1,
         pc[r][c] # "update", HasArrived(r)' = HasArrived(r) \cup {c}, c \notin HasArrived(r),
         reg'[r][c] = LayoutAfter(call[r]), \A d \in Ctas \ {c} : reg'[r][d] = reg[r][d]
  PROVE  FlagsOk(r)'
<1>1. /\ call'[r] = call[r] /\ Arriving(r)' = Arriving(r) /\ Busy(r)' /\ call[r] < Len(program)
      /\ \A n : LayoutAfter(n)' = LayoutAfter(n)
  BY MoveRun
<1>2. ~Updated(r)'
  BY MoveUpdated
<1>3. (flags[r].layout = LayoutAfter(IF Updated(r) THEN call[r] + 1 ELSE call[r]))'
  BY <1>1, <1>2 DEF FlagsOk
<1>4. flags'[r].arrived = Cardinality(HasArrived(r)')
  <2>1. IsFiniteSet(HasArrived(r))
    BY <1>1, ArrivingFacts
  <2>2. Cardinality(HasArrived(r) \cup {c}) = Cardinality(HasArrived(r)) + 1
    BY <2>1, FS_AddElement
  <2> QED BY <2>2 DEF FlagsOk
<1>5. ASSUME NEW d \in Ctas, pc'[r][d] \notin {"off", "ready"}
      PROVE  (reg[r][d] = LayoutAfter(call[r]))'
  <2>1. d # c => pc'[r][d] = pc[r][d]
    BY DEF Moved
  <2> QED BY <1>1, <1>5, <2>1 DEF FlagsOk
<1> QED BY <1>1, <1>2, <1>3, <1>4, <1>5 DEF FlagsOk

LEMMA ReadEffect ==
  ASSUME TypeOK, NEW r \in Ranks, NEW c \in Ctas, ReadFlags(r, c)
  PROVE  /\ reg' \in [Ranks -> [Ctas -> Layout]]
         /\ reg'[r][c] = flags[r].layout
         /\ \A d \in Ctas \ {c} : reg'[r][d] = reg[r][d]
         /\ \A s \in Ranks \ {r} : reg'[s] = reg[s]
<1>1. reg \in [Ranks -> [Ctas -> Layout]] /\ flags[r].layout \in Layout
  <2>1. flags[r] \in [layout : Layout, arrived : 0 .. MaxTokens]
    BY DEF TypeOK
  <2> QED BY <2>1 DEF TypeOK
<1> QED BY <1>1 DEF ReadFlags

LEMMA ArriveEffect ==
  ASSUME TypeOK, NEW r \in Ranks, CtaArrive(r)
  PROVE  /\ flags'[r].layout = flags[r].layout /\ flags'[r].arrived = flags[r].arrived + 1
         /\ \A s \in Ranks \ {r} : flags'[s] = flags[s]
         /\ DOMAIN flags' = Ranks
         /\ flags'[r] = [layout |-> flags[r].layout, arrived |-> flags[r].arrived + 1]
<1>1. /\ flags \in [Ranks -> [layout : Layout, arrived : 0 .. MaxTokens]]
      /\ flags[r] \in [layout : Layout, arrived : 0 .. MaxTokens]
  BY DEF TypeOK
<1> QED BY <1>1 DEF CtaArrive

LEMMA StepFrame ==
  ASSUME TypeOK, NEW r \in Ranks, NEW c \in Ctas, CtaStep(r, c)
  PROVE  \A s \in Ranks \ {r} : /\ flags'[s] = flags[s] /\ reg'[s] = reg[s] /\ out'[s] = out[s]
                                /\ buffer'[s] = buffer[s]
<1>1. \A s \in Ranks \ {r} : reg'[s] = reg[s]
  <2>1. reg' = reg \/ ReadFlags(r, c)
    BY DEF CtaStep, SendOneshot, ClearAll, ReceiveOneshot, Scatter, ClearScatter,
           ReduceBroadcast, ClearBroadcast, NormArrive, ReceiveBroadcast, JoinFirstKernel,
           WaitAndUpdate
  <2> QED BY <2>1, ReadEffect
<1>2. \A s \in Ranks \ {r} : flags'[s] = flags[s]
  <2>1. \/ flags' = flags \/ CtaArrive(r)
        \/ \E x : flags' = [flags EXCEPT ![r] = x]
    BY DEF CtaStep, SendOneshot, ClearAll, ReceiveOneshot, Scatter, ClearScatter,
           ReduceBroadcast, ClearBroadcast, NormArrive, ReceiveBroadcast, JoinFirstKernel,
           WaitAndUpdate
  <2>2. DOMAIN flags = Ranks
    BY DEF TypeOK
  <2> QED BY <2>1, <2>2, ArriveEffect
<1>3. \A s \in Ranks \ {r} : out'[s] = out[s]
  <2>1. \/ out' = out \/ \E t, x : out' = [out EXCEPT ![r][t] = x]
    BY DEF CtaStep, SendOneshot, ClearAll, ReceiveOneshot, Scatter, ClearScatter,
           ReduceBroadcast, ClearBroadcast, NormArrive, ReceiveBroadcast, JoinFirstKernel,
           WaitAndUpdate
  <2>2. DOMAIN out = Ranks
    BY DEF TypeOK
  <2> QED BY <2>1, <2>2
<1>4. \A s \in Ranks \ {r} : buffer'[s] = buffer[s]
  <2>1. \/ buffer' = buffer \/ \E cells : ClearCells(r, cells)
    BY DEF CtaStep, SendOneshot, ClearAll, ReceiveOneshot, Scatter, ClearScatter,
           ReduceBroadcast, ClearBroadcast, NormArrive, ReceiveBroadcast, JoinFirstKernel,
           WaitAndUpdate
  <2>2. DOMAIN buffer = Ranks
    BY DEF TypeOK
  <2> QED BY <2>1, <2>2 DEF ClearCells
<1> QED BY <1>1, <1>2, <1>3, <1>4

\* What every CTA has in its register when it is past reading the flags.
LEMMA RegIs ==
  ASSUME TypeOK, FlagsRight, NEW r \in Ranks, NEW c \in Ctas, pc[r][c] \notin {"off", "ready"}
  PROVE  reg[r][c] = LayoutAfter(call[r])
BY DEF FlagsRight

LEMMA FlagsAre ==
  ASSUME TypeOK, FlagsRight, NEW r \in Ranks, ~Updated(r)
  PROVE  flags[r].layout = LayoutAfter(call[r])
BY DEF FlagsRight

LEMMA SendOneshotFlags ==
  ASSUME TypeOK, CtasRight, FlagsRight, NEW r \in Ranks, NEW c \in Ctas, call[r] < Len(program),
         SendOneshot(r, c)
  PROVE  FlagsOk(r)'
<1>1. /\ Busy(r) /\ c \in MainCtas(r) /\ pc[r][c] = "ready" /\ Kind(r) = "oneshot"
      /\ Moved(r, c, "clear0") /\ Move(r, c, "clear0")
  BY SendOneshotMoves
<1>2. PICK b \in ProgramCounters : b = "clear0"
  BY DEF ProgramCounters
<1>3. c \in Arriving(r) /\ pc[r][c] \notin ArrivedAt(Kind(r)) /\ b \in ArrivedAt(Kind(r))
  BY <1>1, <1>2 DEF Arriving, ArrivedAt, Started
<1>4. HasArrived(r)' = HasArrived(r) \cup {c} /\ c \notin HasArrived(r)
  BY <1>1, <1>2, <1>3, MoveArrived
<1>5. ~Updated(r)
  BY <1>1, <1>3, NotUpdated
<1>6. ReadFlags(r, c) /\ CtaArrive(r)
  BY DEF SendOneshot
<1>7. reg'[r][c] = LayoutAfter(call[r]) /\ \A d \in Ctas \ {c} : reg'[r][d] = reg[r][d]
  BY <1>5, <1>6, ReadEffect, FlagsAre
<1>8. flags'[r].layout = flags[r].layout /\ flags'[r].arrived = flags[r].arrived + 1
  BY <1>6, ArriveEffect
<1> QED BY <1>1, <1>2, <1>4, <1>5, <1>7, <1>8, ArriveFlags, FlagsEach

LEMMA NormArriveFlags ==
  ASSUME TypeOK, CtasRight, FlagsRight, NEW r \in Ranks, NEW c \in Ctas, call[r] < Len(program),
         NormArrive(r, c)
  PROVE  FlagsOk(r)'
<1>1. /\ Busy(r) /\ c \in NormCtas(r) /\ pc[r][c] = "ready" /\ Kind(r) = "twoshot_norm"
      /\ Moved(r, c, "receive") /\ Move(r, c, "receive")
  BY NormArriveMoves
<1>2. PICK b \in ProgramCounters : b = "receive"
  BY DEF ProgramCounters
<1>3. c \in Arriving(r) /\ pc[r][c] \notin ArrivedAt(Kind(r)) /\ b \in ArrivedAt(Kind(r))
  BY <1>1, <1>2 DEF Arriving, ArrivedAt
<1>4. HasArrived(r)' = HasArrived(r) \cup {c} /\ c \notin HasArrived(r)
  BY <1>1, <1>2, <1>3, MoveArrived
<1>5. ~Updated(r)
  BY <1>1, <1>3, NotUpdated
<1>6. ReadFlags(r, c) /\ CtaArrive(r)
  BY DEF NormArrive
<1>7. reg'[r][c] = LayoutAfter(call[r]) /\ \A d \in Ctas \ {c} : reg'[r][d] = reg[r][d]
  BY <1>5, <1>6, ReadEffect, FlagsAre
<1>8. flags'[r].layout = flags[r].layout /\ flags'[r].arrived = flags[r].arrived + 1
  BY <1>6, ArriveEffect
<1> QED BY <1>1, <1>2, <1>4, <1>5, <1>7, <1>8, ArriveFlags, FlagsEach

LEMMA ScatterFlags ==
  ASSUME TypeOK, CtasRight, FlagsRight, NEW r \in Ranks, NEW c \in Ctas, call[r] < Len(program),
         Scatter(r, c)
  PROVE  FlagsOk(r)'
<1>1. /\ Busy(r) /\ c \in MainCtas(r) /\ pc[r][c] = "ready" /\ Kind(r) # "oneshot"
      /\ Moved(r, c, "clear0") /\ Move(r, c, "clear0")
  BY ScatterMoves
<1>2. PICK b \in ProgramCounters : b = "clear0"
  BY DEF ProgramCounters
<1>3. c \notin Arriving(r) \/ ((pc[r][c] \in ArrivedAt(Kind(r))) <=> (b \in ArrivedAt(Kind(r))))
  <2>1. Kind(r) \in {"twoshot", "twoshot_norm"} /\ \A d \in NormCtas(r) : d \notin MainCtas(r)
    BY <1>1, RunFacts DEF Kinds
  <2>2. CASE Kind(r) = "twoshot"
    BY <1>1, <1>2, <2>2 DEF ArrivedAt
  <2>3. CASE Kind(r) = "twoshot_norm"
    BY <1>1, <2>1, <2>3 DEF Arriving
  <2> QED BY <2>1, <2>2, <2>3
<1>4. HasArrived(r)' = HasArrived(r)
  BY <1>1, <1>2, <1>3, MoveArrived
<1>5. ~Updated(r)
  BY <1>1, NotUpdated
<1>6. ReadFlags(r, c) /\ flags' = flags
  BY DEF Scatter
<1>7. reg'[r][c] = LayoutAfter(call[r]) /\ \A d \in Ctas \ {c} : reg'[r][d] = reg[r][d]
  BY <1>5, <1>6, ReadEffect, FlagsAre
<1> QED BY <1>1, <1>2, <1>4, <1>6, <1>7, QuietFlags, FlagsEach

\* The other steps of a CTA that leave the flags alone.
LEMMA OtherFlags ==
  ASSUME TypeOK, CtasRight, FlagsRight, NEW r \in Ranks, NEW c \in Ctas,
         NEW b \in ProgramCounters, Busy(r),
         Moved(r, c, b), Move(r, c, b), flags' = flags, reg' = reg,
         pc[r][c] \notin {"off", "ready", "update"},
         ~(Kind(r) = "twoshot" /\ pc[r][c] = "clear1")
  PROVE  FlagsOk(r)'
<1>1. c \notin Arriving(r) \/ ((pc[r][c] \in ArrivedAt(Kind(r))) <=> (b \in ArrivedAt(Kind(r))))
  <2>1. /\ call[r] < Len(program)
        /\ Kind(r) \in Kinds /\ (Kind(r) # "twoshot_norm" => NormCtas(r) = {})
        /\ \A d \in NormCtas(r) : d \notin MainCtas(r)
    BY RunFacts DEF CtasRight
  <2>2. CASE Kind(r) = "oneshot"
    BY <2>1, <2>2 DEF Move, ArrivedAt, Started
  <2>3. CASE Kind(r) = "twoshot"
    BY <2>1, <2>3 DEF Move, ArrivedAt
  <2>4. CASE Kind(r) = "twoshot_norm"
    BY <2>1, <2>4 DEF Move, ArrivedAt, Arriving
  <2> QED BY <2>1, <2>2, <2>3, <2>4 DEF Kinds
<1>2. HasArrived(r)' = HasArrived(r)
  BY <1>1, MoveArrived
<1>3. reg'[r][c] = LayoutAfter(call[r]) /\ \A d \in Ctas \ {c} : reg'[r][d] = reg[r][d]
  BY RegIs
<1> QED BY <1>2, <1>3, QuietFlags, FlagsEach

LEMMA ClearBroadcastFlags ==
  ASSUME TypeOK, CtasRight, FlagsRight, NEW r \in Ranks, NEW c \in Ctas, call[r] < Len(program),
         ClearBroadcast(r, c)
  PROVE  FlagsOk(r)'
<1>1. /\ Busy(r) /\ c \in MainCtas(r) /\ pc[r][c] = "clear1"
      /\ \/ Kind(r) = "twoshot" /\ Moved(r, c, "receive") /\ Move(r, c, "receive")
         \/ Kind(r) = "twoshot_norm" /\ Moved(r, c, "done") /\ Move(r, c, "done")
  BY ClearBroadcastMoves
<1>2. reg' = reg
  BY DEF ClearBroadcast
<1>3. CASE Kind(r) = "twoshot"
  <2>1. PICK b \in ProgramCounters : b = "receive"
    BY DEF ProgramCounters
  <2>2. Moved(r, c, b) /\ Move(r, c, b) /\ CtaArrive(r)
    BY <1>1, <1>3, <2>1 DEF ClearBroadcast
  <2>3. c \in Arriving(r) /\ pc[r][c] \notin ArrivedAt(Kind(r)) /\ b \in ArrivedAt(Kind(r))
    BY <1>1, <1>3, <2>1 DEF Arriving, ArrivedAt
  <2>4. HasArrived(r)' = HasArrived(r) \cup {c} /\ c \notin HasArrived(r)
    BY <1>1, <2>2, <2>3, MoveArrived
  <2>5. ~Updated(r)
    BY <1>1, <2>3, NotUpdated
  <2>6. reg'[r][c] = LayoutAfter(call[r]) /\ \A d \in Ctas \ {c} : reg'[r][d] = reg[r][d]
    BY <1>1, <1>2, RegIs
  <2>7. flags'[r].layout = flags[r].layout /\ flags'[r].arrived = flags[r].arrived + 1
    BY <2>2, ArriveEffect
  <2> QED BY <1>1, <2>2, <2>4, <2>5, <2>6, <2>7, ArriveFlags, FlagsEach
<1>4. CASE Kind(r) = "twoshot_norm"
  <2>1. PICK b \in ProgramCounters : b = "done"
    BY DEF ProgramCounters
  <2>2. Moved(r, c, b) /\ Move(r, c, b) /\ flags' = flags
    BY <1>1, <1>4, <2>1 DEF ClearBroadcast
  <2> QED BY <1>1, <1>2, <1>4, <2>2, OtherFlags
<1> QED BY <1>1, <1>3, <1>4

LEMMA UpdateFlags ==
  ASSUME TypeOK, CtasRight, FlagsRight, NEW r \in Ranks, NEW c \in Ctas, call[r] < Len(program),
         WaitAndUpdate(r, c)
  PROVE  FlagsOk(r)'
<1>1. /\ Busy(r) /\ pc[r][c] = "update" /\ c \in Arriving(r)
      /\ Moved(r, c, "done") /\ Move(r, c, "done")
  BY UpdateMoves
<1>2. PICK b \in ProgramCounters : b = "done"
  BY DEF ProgramCounters
<1>3. Moved(r, c, b) /\ Move(r, c, b)
  BY <1>1, <1>2
<1>4. /\ call'[r] = call[r] /\ Arriving(r)' = Arriving(r)
      /\ \A n : LayoutAfter(n)' = LayoutAfter(n)
  BY <1>1, <1>3, MoveRun
<1>5. ~Updated(r) /\ Updated(r)'
  BY <1>1, <1>3, MoveUpdated
<1>6. Kind(r) \in Kinds /\ Kind(r) = program[call[r] + 1].kind
      /\ NumTokens(r) = program[call[r] + 1].tokens /\ NumTokens(r) \in Nat \ {0}
  BY RunFacts
<1>7. HasArrived(r)' = HasArrived(r)
  <2>1. pc[r][c] \in ArrivedAt(Kind(r)) /\ b \in ArrivedAt(Kind(r))
    BY <1>1, <1>2, <1>6 DEF ArrivedAt, Started, Kinds
  <2> QED BY <1>1, <1>3, <2>1, MoveArrived
<1>8. HasArrived(r) = Arriving(r)
  <2>1. flags[r].arrived >= NumTokens(r)
    BY DEF WaitAndUpdate
  <2>2. flags[r].arrived = Cardinality(HasArrived(r))
    BY <1>1, <1>5 DEF FlagsRight
  <2>3. /\ Cardinality(HasArrived(r)) \in 0 .. NumTokens(r)
        /\ Cardinality(HasArrived(r)) = NumTokens(r) => HasArrived(r) = Arriving(r)
    BY ArrivingFacts
  <2> QED BY <1>6, <2>1, <2>2, <2>3
<1>9. /\ flags'[r].layout = NextLayout(reg[r][c], Kind(r), NumTokens(r))
      /\ flags'[r].arrived = 0 /\ reg' = reg
  <2>1. DOMAIN flags = Ranks
    BY DEF TypeOK
  <2> QED BY <2>1 DEF WaitAndUpdate
<1>10. flags'[r].layout = LayoutAfter(call[r] + 1)
  <2>1. PICK n \in 0 .. Len(program) - 1 : n = call[r]
    BY RankFacts
  <2>2. NextLayout(LayoutAfter(n), program[n + 1].kind, program[n + 1].tokens)
          = LayoutAfter(n + 1)
    BY LayoutNext
  <2>3. reg[r][c] = LayoutAfter(n)
    BY <1>1, <2>1, RegIs
  <2> QED BY <1>6, <1>9, <2>1, <2>2, <2>3
<1>11. (flags[r].layout = LayoutAfter(IF Updated(r) THEN call[r] + 1 ELSE call[r]))'
  BY <1>4, <1>5, <1>10
<1>12. ASSUME NEW d \in Ctas, pc'[r][d] \notin {"off", "ready"}
       PROVE  (reg[r][d] = LayoutAfter(call[r]))'
  <2>1. pc[r][d] \notin {"off", "ready"}
    BY <1>1, <1>12 DEF Moved
  <2> QED BY <1>4, <1>9, <2>1, RegIs
<1> QED BY <1>4, <1>5, <1>7, <1>8, <1>9, <1>11, <1>12 DEF FlagsOk

LEMMA LaunchFlags ==
  ASSUME TypeOK, CtasRight, FlagsRight, NEW r \in Ranks, Launch(r)
  PROVE  FlagsOk(r)'
<1>1. /\ program' = program /\ call' = call /\ call[r] < Len(program) /\ ~Busy(r)
      /\ Busy(r)'
      /\ \A c \in Ctas : pc'[r][c] = IF c \in MainCtas(r) THEN "ready" ELSE "off"
  BY LaunchEffect
<1>2. flags' = flags
  BY DEF Launch
<1>3. Kind(r)' = Kind(r) /\ Arriving(r)' = Arriving(r)
  BY <1>1, SameRun
<1>4. \A n : LayoutAfter(n)' = LayoutAfter(n)
  BY <1>1, SameProgram
<1>5. Kind(r) \in Kinds /\ UpdCta(r) \in Ctas /\ \A c \in Arriving(r) : c \in Ctas
  BY <1>1, RunFacts, ArrivingFacts
<1>6. \A c \in Ctas : pc'[r][c] \in {"off", "ready"}
  BY <1>1
<1>7. ~Updated(r)'
  BY <1>3, <1>5, <1>6 DEF Updated, UpdCta
<1>8. HasArrived(r)' = {}
  BY <1>3, <1>5, <1>6 DEF HasArrived, Started, Kinds
<1>9. flags[r].layout = LayoutAfter(call[r]) /\ flags[r].arrived = 0
  BY <1>1 DEF FlagsRight, Updated
<1>10. (flags[r].layout = LayoutAfter(IF Updated(r) THEN call[r] + 1 ELSE call[r]))'
  BY <1>1, <1>2, <1>4, <1>7, <1>9
<1>11. flags'[r].arrived = Cardinality(HasArrived(r)')
  BY <1>2, <1>8, <1>9, FS_EmptySet
<1> QED BY <1>1, <1>6, <1>7, <1>10, <1>11 DEF FlagsOk

LEMMA LaunchNormFlags ==
  ASSUME TypeOK, CtasRight, FlagsRight, NEW r \in Ranks, LaunchNorm(r)
  PROVE  FlagsOk(r)'
<1>1. /\ program' = program /\ call' = call /\ call[r] < Len(program) /\ Busy(r)
      /\ Busy(r)' /\ Kind(r) = "twoshot_norm"
      /\ \A c \in NormCtas(r) : pc[r][c] = "off"
      /\ \A c \in NormCtas(r) : pc'[r][c] = "ready"
      /\ \A c \in Ctas \ NormCtas(r) : pc'[r][c] = pc[r][c]
  BY LaunchNormEffect
<1>2. flags' = flags /\ reg' = reg
  BY DEF LaunchNorm
<1>3. Kind(r)' = Kind(r) /\ Arriving(r)' = Arriving(r)
  BY <1>1, SameRun
<1>4. \A n : LayoutAfter(n)' = LayoutAfter(n)
  BY <1>1, SameProgram
<1>5. Arriving(r) = NormCtas(r) /\ MaxTokens \in NormCtas(r)
  <2>1. UpdCta(r) \in Arriving(r)
    BY <1>1, ArrivingFacts
  <2> QED BY <1>1, <2>1 DEF UpdCta, Arriving
<1>6. ~Updated(r) /\ ~Updated(r)'
  BY <1>1, <1>3, <1>5 DEF Updated
<1>7. HasArrived(r) = {} /\ HasArrived(r)' = {}
  BY <1>1, <1>3, <1>5 DEF HasArrived
<1>8. flags[r].layout = LayoutAfter(call[r])
  BY <1>6, FlagsAre
<1>9. (flags[r].layout = LayoutAfter(IF Updated(r) THEN call[r] + 1 ELSE call[r]))'
  BY <1>1, <1>2, <1>4, <1>6, <1>8
<1>10. flags'[r].arrived = Cardinality(HasArrived(r)')
  BY <1>1, <1>2, <1>6, <1>7 DEF FlagsRight
<1>11. ASSUME NEW d \in Ctas, pc'[r][d] \notin {"off", "ready"}
       PROVE  (reg[r][d] = LayoutAfter(call[r]))'
  <2>1. pc[r][d] \notin {"off", "ready"}
    BY <1>1, <1>11
  <2> QED BY <1>1, <1>2, <1>4, <2>1, RegIs
<1> QED BY <1>1, <1>6, <1>9, <1>10, <1>11 DEF FlagsOk

LEMMA CompleteFlags ==
  ASSUME TypeOK, CtasRight, FlagsRight, NEW r \in Ranks, Complete(r)
  PROVE  FlagsOk(r)'
<1>1. /\ program' = program /\ call[r] < Len(program) /\ Busy(r) /\ ~Busy(r)'
      /\ call'[r] = call[r] + 1
      /\ \A c \in MainCtas(r) \cup NormCtas(r) : pc[r][c] = "done"
      /\ \A c \in Ctas : pc'[r][c] = "off"
  BY CompleteEffect
<1>2. flags' = flags
  BY DEF Complete
<1>3. \A n : LayoutAfter(n)' = LayoutAfter(n)
  BY <1>1, SameProgram
<1>4. Updated(r)
  <2>1. UpdCta(r) \in MainCtas(r) \cup NormCtas(r)
    BY <1>1, ArrivingFacts DEF Arriving
  <2> QED BY <1>1, <2>1, ArrivedIs
<1>5. flags[r].layout = LayoutAfter(call[r] + 1) /\ flags[r].arrived = 0
  BY <1>4 DEF FlagsRight
<1>6. ~Updated(r)'
  BY <1>1 DEF Updated
<1>7. (flags[r].layout = LayoutAfter(IF Updated(r) THEN call[r] + 1 ELSE call[r]))'
  BY <1>1, <1>2, <1>3, <1>5, <1>6
<1> QED BY <1>1, <1>2, <1>5, <1>6, <1>7 DEF FlagsOk

LEMMA StepFlags ==
  ASSUME TypeOK, CtasRight, FlagsRight, NEW r \in Ranks, NEW c \in Ctas, CtaStep(r, c)
  PROVE  FlagsOk(r)'
<1>1. call[r] < Len(program) /\ Busy(r)
  BY StepMoves
<1>2. CASE SendOneshot(r, c)
  BY <1>1, <1>2, SendOneshotFlags
<1>3. CASE Scatter(r, c)
  BY <1>1, <1>3, ScatterFlags
<1>4. CASE NormArrive(r, c)
  BY <1>1, <1>4, NormArriveFlags
<1>5. CASE ClearBroadcast(r, c)
  BY <1>1, <1>5, ClearBroadcastFlags
<1>6. CASE WaitAndUpdate(r, c)
  BY <1>1, <1>6, UpdateFlags
<1>7. CASE ClearAll(r, c) \/ ReceiveOneshot(r, c) \/ ClearScatter(r, c) \/ ReduceBroadcast(r, c)
           \/ ReceiveBroadcast(r, c) \/ JoinFirstKernel(r, c)
  <2>1. flags' = flags /\ reg' = reg
    BY <1>7 DEF ClearAll, ReceiveOneshot, ClearScatter, ReduceBroadcast, ReceiveBroadcast,
                JoinFirstKernel
  <2>2. pc[r][c] \in {"clear0", "receive", "reduce", "join"}
    BY <1>7 DEF ClearAll, ReceiveOneshot, ClearScatter, ReduceBroadcast, ReceiveBroadcast,
                JoinFirstKernel
  <2>3. PICK b \in ProgramCounters : Moved(r, c, b) /\ Move(r, c, b)
    BY StepMoves
  <2> QED BY <1>1, <2>1, <2>2, <2>3, OtherFlags
<1> QED BY <1>2, <1>3, <1>4, <1>5, <1>6, <1>7 DEF CtaStep

LEMMA NextFlags ==
  ASSUME TypeOK, CtasRight, FlagsRight, [Next]_vars
  PROVE  FlagsRight'
<1>1. program' = program
  BY NextCalls
<1>2. ASSUME NEW r \in Ranks, NEW s \in Ranks, s # r,
             \/ Launch(r) \/ LaunchNorm(r) \/ Complete(r) \/ \E c \in Ctas : CtaStep(r, c)
      PROVE  FlagsOk(s)'
  <2>1. call'[s] = call[s] /\ pc'[s] = pc[s] /\ flags'[s] = flags[s] /\ reg'[s] = reg[s]
    <3>1. CASE Launch(r)
      <4>1. flags' = flags /\ reg' = reg
        BY <3>1 DEF Launch
      <4> QED BY <1>2, <3>1, <4>1, LaunchEffect
    <3>2. CASE LaunchNorm(r)
      <4>1. flags' = flags /\ reg' = reg
        BY <3>2 DEF LaunchNorm
      <4> QED BY <1>2, <3>2, <4>1, LaunchNormEffect
    <3>3. CASE Complete(r)
      <4>1. flags' = flags /\ reg' = reg
        BY <3>3 DEF Complete
      <4> QED BY <1>2, <3>3, <4>1, CompleteEffect
    <3>4. CASE \E c \in Ctas : CtaStep(r, c)
      <4>1. PICK c \in Ctas : CtaStep(r, c)
        BY <3>4
      <4>2. call' = call /\ \A q \in Ranks \ {r} : pc'[q] = pc[q]
        BY <4>1, StepMoves DEF Moved
      <4>3. flags'[s] = flags[s] /\ reg'[s] = reg[s]
        BY <1>2, <4>1, StepFrame
      <4> QED BY <1>2, <4>2, <4>3
    <3> QED BY <1>2, <3>1, <3>2, <3>3, <3>4
  <2> QED BY <1>1, <2>1, SameFlags, FlagsEach
<1>3. ASSUME NEW r \in Ranks, Launch(r) \/ LaunchNorm(r) \/ Complete(r)
      PROVE  FlagsRight'
  <2>1. FlagsOk(r)'
    BY <1>3, LaunchFlags, LaunchNormFlags, CompleteFlags
  <2>2. \A s \in Ranks : FlagsOk(s)'
    BY <1>2, <1>3, <2>1
  <2> QED BY <2>2 DEF FlagsRight, FlagsOk
<1>4. ASSUME NEW r \in Ranks, NEW c \in Ctas, CtaStep(r, c)
      PROVE  FlagsRight'
  <2>1. FlagsOk(r)'
    BY <1>4, StepFlags
  <2>2. \A s \in Ranks : FlagsOk(s)'
    BY <1>2, <1>4, <2>1
  <2> QED BY <2>2 DEF FlagsRight, FlagsOk
<1>5. ASSUME UNCHANGED <<program, call, flags, pc, reg>>
      PROVE  FlagsRight'
  <2>1. \A s \in Ranks : FlagsOk(s)'
    BY <1>5, SameFlags, FlagsEach
  <2> QED BY <2>1 DEF FlagsRight, FlagsOk
<1>6. ASSUME NEW m \in net, Deliver(m)
      PROVE  FlagsRight'
  BY <1>5, <1>6 DEF Deliver
<1>7. ASSUME Finished \/ UNCHANGED vars
      PROVE  FlagsRight'
  BY <1>5, <1>7 DEF Finished, vars
<1> QED BY <1>3, <1>4, <1>6, <1>7 DEF Next

-----------------------------------------------------------------------------
\* The packets of the call that a rank is in.
LEMMA CurIs ==
  ASSUME TypeOK, NEW r \in Ranks, call[r] < Len(program)
  PROVE  LayoutAfter(call[r]).cur = BufferOf(call[r] + 1)
<1>1. PICK n \in 0 .. Len(program) - 1 : n = call[r]
  BY RankFacts
<1> QED BY <1>1, LayoutNext

IsOneshot(p, r, t, s) ==
  /\ p.way = "oneshot" /\ p.call = call[r] + 1 /\ p.token = t /\ p.from = s
  /\ Place(p) = OneshotAddr(BufferOf(call[r] + 1), t, s)
  /\ Content(p) = Cell({<<call[r] + 1, s, t>>}, "other")
  /\ \A q \in Ranks : GoesTo(p, q)

IsScatter(p, r, t, s) ==
  /\ p.way = "scatter" /\ p.call = call[r] + 1 /\ p.token = t /\ p.from = s
  /\ Place(p) = ScatterAddr(BufferOf(call[r] + 1), t, s)
  /\ Content(p) = Cell({<<call[r] + 1, s, t>>}, "other")
  /\ GoesTo(p, Owner(t))

IsBroadcast(p, r, t) ==
  /\ p.way = "broadcast" /\ p.call = call[r] + 1 /\ p.token = t /\ p.from = Owner(t)
  /\ Place(p) = BroadcastAddr(BufferOf(call[r] + 1), t)
  /\ Content(p) = Cell(SumTerms(call[r] + 1, t), "other")
  /\ \A q \in Ranks : GoesTo(p, q)

LEMMA OneshotPacket ==
  ASSUME TypeOK, NEW r \in Ranks, call[r] < Len(program), Kind(r) = "oneshot",
         NEW t \in 0 .. NumTokens(r) - 1, NEW s \in Ranks
  PROVE  \E p \in Packets : IsOneshot(p, r, t, s)
<1>1. /\ Kind(r) = program[call[r] + 1].kind /\ NumTokens(r) = program[call[r] + 1].tokens
      /\ NumTokens(r) \in Nat \ {0}
  BY RunFacts
<1>2. PICK k \in 1 .. Len(program) : k = call[r] + 1
  BY RunFacts
<1>3. PICK w \in Ways : w = "oneshot"
  BY DEF Ways
<1>4. t \in Nat /\ t < program[k].tokens /\ ((w = "oneshot") <=> (program[k].kind = "oneshot"))
      /\ w # "broadcast"
  BY <1>1, <1>2, <1>3
<1>5. PICK p \in Packets : p.way = w /\ p.call = k /\ p.token = t /\ p.from = s
  <2>1. \E p \in Packets : p = [way |-> w, call |-> k, token |-> t, from |-> s]
    BY <1>4, IsPacket
  <2>2. /\ [way |-> w, call |-> k, token |-> t, from |-> s].way = w
        /\ [way |-> w, call |-> k, token |-> t, from |-> s].call = k
        /\ [way |-> w, call |-> k, token |-> t, from |-> s].token = t
        /\ [way |-> w, call |-> k, token |-> t, from |-> s].from = s
    OBVIOUS
  <2> QED BY <2>1, <2>2
<1>6. Place(p) = OneshotAddr(BufferOf(call[r] + 1), t, s)
  BY <1>2, <1>3, <1>5 DEF Place
<1>7. Content(p) = Cell({<<call[r] + 1, s, t>>}, "other")
  BY <1>2, <1>3, <1>5 DEF Content
<1>8. \A q \in Ranks : GoesTo(p, q)
  BY <1>3, <1>5 DEF GoesTo
<1> QED BY <1>2, <1>3, <1>5, <1>6, <1>7, <1>8 DEF IsOneshot

LEMMA ScatterPacket ==
  ASSUME TypeOK, NEW r \in Ranks, call[r] < Len(program), Kind(r) # "oneshot",
         NEW t \in 0 .. NumTokens(r) - 1, NEW s \in Ranks
  PROVE  \E p \in Packets : IsScatter(p, r, t, s)
<1>1. /\ Kind(r) = program[call[r] + 1].kind /\ NumTokens(r) = program[call[r] + 1].tokens
      /\ NumTokens(r) \in Nat \ {0}
  BY RunFacts
<1>2. PICK k \in 1 .. Len(program) : k = call[r] + 1
  BY RunFacts
<1>3. PICK w \in Ways : w = "scatter"
  BY DEF Ways
<1>4. t \in Nat /\ t < program[k].tokens /\ ((w = "oneshot") <=> (program[k].kind = "oneshot"))
      /\ w # "broadcast"
  BY <1>1, <1>2, <1>3
<1>5. PICK p \in Packets : p.way = w /\ p.call = k /\ p.token = t /\ p.from = s
  <2>1. \E p \in Packets : p = [way |-> w, call |-> k, token |-> t, from |-> s]
    BY <1>4, IsPacket
  <2>2. /\ [way |-> w, call |-> k, token |-> t, from |-> s].way = w
        /\ [way |-> w, call |-> k, token |-> t, from |-> s].call = k
        /\ [way |-> w, call |-> k, token |-> t, from |-> s].token = t
        /\ [way |-> w, call |-> k, token |-> t, from |-> s].from = s
    OBVIOUS
  <2> QED BY <2>1, <2>2
<1>6. Place(p) = ScatterAddr(BufferOf(call[r] + 1), t, s)
  BY <1>2, <1>3, <1>5 DEF Place
<1>7. Content(p) = Cell({<<call[r] + 1, s, t>>}, "other")
  BY <1>2, <1>3, <1>5 DEF Content
<1>8. GoesTo(p, Owner(t))
  BY <1>3, <1>5 DEF GoesTo
<1> QED BY <1>2, <1>3, <1>5, <1>6, <1>7, <1>8 DEF IsScatter

LEMMA BroadcastPacket ==
  ASSUME TypeOK, NEW r \in Ranks, call[r] < Len(program), Kind(r) # "oneshot",
         NEW t \in 0 .. NumTokens(r) - 1
  PROVE  \E p \in Packets : IsBroadcast(p, r, t)
<1>1. /\ Kind(r) = program[call[r] + 1].kind /\ NumTokens(r) = program[call[r] + 1].tokens
      /\ NumTokens(r) \in Nat \ {0}
  BY RunFacts
<1>2. PICK k \in 1 .. Len(program) : k = call[r] + 1
  BY RunFacts
<1>3. PICK w \in Ways : w = "broadcast"
  BY DEF Ways
<1>4. t \in Nat /\ t < program[k].tokens /\ ((w = "oneshot") <=> (program[k].kind = "oneshot"))
  BY <1>1, <1>2, <1>3
<1>5. PICK s \in Ranks : s = Owner(t)
  <2>1. Owner(t) \in Ranks
    BY <1>4, DivFacts, Sizes DEF Owner
  <2> QED BY <2>1
<1>6. PICK p \in Packets : p.way = w /\ p.call = k /\ p.token = t /\ p.from = s
  <2>1. \E p \in Packets : p = [way |-> w, call |-> k, token |-> t, from |-> s]
    BY <1>4, <1>5, IsPacket
  <2>2. /\ [way |-> w, call |-> k, token |-> t, from |-> s].way = w
        /\ [way |-> w, call |-> k, token |-> t, from |-> s].call = k
        /\ [way |-> w, call |-> k, token |-> t, from |-> s].token = t
        /\ [way |-> w, call |-> k, token |-> t, from |-> s].from = s
    OBVIOUS
  <2> QED BY <2>1, <2>2
<1>7. Place(p) = BroadcastAddr(BufferOf(call[r] + 1), t)
  BY <1>2, <1>3, <1>6 DEF Place
<1>8. Content(p) = Cell(SumTerms(call[r] + 1, t), "other")
  BY <1>2, <1>3, <1>6 DEF Content
<1>9. \A q \in Ranks : GoesTo(p, q)
  BY <1>3, <1>6 DEF GoesTo
<1> QED BY <1>2, <1>3, <1>5, <1>6, <1>7, <1>8, <1>9 DEF IsBroadcast

\* A poll that ends has found the packet.
LEMMA PollFinds ==
  ASSUME TypeOK, CallsTogether, BufferRight, NEW r \in Ranks, NEW p \in Packets, GoesTo(p, r),
         p.call = call[r] + 1, ~IsLamportDirty(buffer[r][Place(p)])
  PROVE  /\ buffer[r][Place(p)] = Content(p) /\ buffer[r][Place(p)] # Clean
         /\ Content(p).word = "other"
<1>1. buffer[r][Place(p)] # Clean
  BY DEF IsLamportDirty, Clean, Cell
<1>2. p.call >= call[r] /\ p.call <= call[r] + 2
  BY RankFacts
<1>3. buffer[r][Place(p)] = Content(p)
  BY <1>1, <1>2, InPlace
<1>4. Content(p).word = "other"
  BY DEF Content, Cell
<1> QED BY <1>1, <1>3, <1>4

LEMMA InputIs ==
  ASSUME NEW r, NEW t
  PROVE  Input(r, t) = Cell({<<call[r] + 1, r, t>>}, "other")
BY DEF Input, Sanitize, Cell

LEMMA ClearEffect ==
  ASSUME TypeOK, NEW r \in Ranks, NEW cells, ClearCells(r, cells)
  PROVE  /\ buffer' \in [Ranks -> [Addresses -> CellValues]]
         /\ \A a \in Addresses : buffer'[r][a] = IF a \in cells THEN Clean ELSE buffer[r][a]
         /\ \A s \in Ranks \ {r} : buffer'[s] = buffer[s]
<1>1. buffer \in [Ranks -> [Addresses -> CellValues]]
  BY DEF TypeOK
<1>2. Clean \in CellValues
  BY DEF CellValues
<1>3. buffer' = [buffer EXCEPT ![r] = [a \in Addresses |-> IF a \in cells THEN Clean
                                                          ELSE buffer[r][a]]]
  BY DEF ClearCells
<1>4. [a \in Addresses |-> IF a \in cells THEN Clean ELSE buffer[r][a]]
        \in [Addresses -> CellValues]
  BY <1>1, <1>2
<1>5. buffer'[r] = [a \in Addresses |-> IF a \in cells THEN Clean ELSE buffer[r][a]]
  BY <1>1, <1>3
<1> QED BY <1>1, <1>3, <1>4, <1>5

LEMMA NotYetIssued ==
  ASSUME TypeOK, CtasRight, NEW r \in Ranks, NEW c \in Ctas, NEW b, Moved(r, c, b),
         NEW p \in Packets, p.call = call[r] + 1, p.token = c, p.from = r,
         pc[r][c] \notin IF p.way = "broadcast" THEN Reduced ELSE Started,
         b \in IF p.way = "broadcast" THEN Reduced ELSE Started
  PROVE  p.call = call[p.from] + 1 /\ ~Issued(p) /\ Issued(p)'
<1>1. call' = call /\ pc'[r][c] = b
  BY DEF Moved
<1>2. call[r] \in Nat /\ p.call \in Nat
  BY RankFacts, PacketFacts
<1>3. ~(call[r] >= p.call) /\ call[r] = p.call - 1
  BY <1>2
<1> QED BY <1>1, <1>3 DEF Issued

LEMMA SendOneshotSends ==
  ASSUME TypeOK, CtasRight, FlagsRight, CallsTogether, BufferRight,
         NEW r \in Ranks, NEW c \in Ctas, call[r] < Len(program), SendOneshot(r, c)
  PROVE  Sends /\ call' = call /\ buffer' = buffer
<1>1. /\ Busy(r) /\ c \in MainCtas(r) /\ pc[r][c] = "ready" /\ Kind(r) = "oneshot"
      /\ Moved(r, c, "clear0")
  BY SendOneshotMoves
<1>2. TokenOf(c) = c /\ c \in 0 .. NumTokens(r) - 1
  BY <1>1, RunFacts
<1>3. flags[r].layout.cur = BufferOf(call[r] + 1)
  BY <1>1, NotUpdated, FlagsAre, CurIs
<1>packet. PICK p \in Packets : IsOneshot(p, r, c, r)
  BY <1>1, <1>2, OneshotPacket
<1>4. /\ p.way = "oneshot" /\ p.call = call[r] + 1 /\ p.token = c /\ p.from = r
      /\ Place(p) = OneshotAddr(BufferOf(call[r] + 1), c, r)
      /\ Content(p) = Cell({<<call[r] + 1, r, c>>}, "other")
      /\ \A q \in Ranks : GoesTo(p, q)
  BY <1>packet DEF IsOneshot
<1>5. p.call = call[p.from] + 1 /\ ~Issued(p) /\ Issued(p)'
  <2>1. PICK b \in ProgramCounters : b = "clear0"
    BY DEF ProgramCounters
  <2>2. /\ pc[r][c] \notin IF p.way = "broadcast" THEN Reduced ELSE Started
        /\ b \in IF p.way = "broadcast" THEN Reduced ELSE Started
    BY <1>1, <1>4, <2>1 DEF Started
  <2> QED BY <1>1, <1>4, <2>1, <2>2, NotYetIssued
<1>6. ASSUME NEW m \in net', m \notin net
      PROVE  \E s \in Ranks : m = Store(p.from, s, Place(p), Content(p))
  <2>1. PICK s \in Ranks : m = Store(r, s, OneshotAddr(flags[r].layout.cur, TokenOf(c), r),
                                     Input(r, TokenOf(c)))
    BY <1>6 DEF SendOneshot
  <2>2. Input(r, c) = Content(p)
    BY <1>4, InputIs
  <2> QED BY <1>2, <1>3, <1>4, <2>1, <2>2
<1>7. Sends
  BY <1>4, <1>5, <1>6 DEF Sends
<1>8. call' = call /\ buffer' = buffer
  BY DEF SendOneshot
<1> QED BY <1>7, <1>8

LEMMA ScatterSends ==
  ASSUME TypeOK, CtasRight, FlagsRight, CallsTogether, BufferRight,
         NEW r \in Ranks, NEW c \in Ctas, call[r] < Len(program), Scatter(r, c)
  PROVE  Sends /\ call' = call /\ buffer' = buffer
<1>1. /\ Busy(r) /\ c \in MainCtas(r) /\ pc[r][c] = "ready" /\ Kind(r) # "oneshot"
      /\ Moved(r, c, "clear0")
  BY ScatterMoves
<1>2. TokenOf(c) = c /\ c \in 0 .. NumTokens(r) - 1 /\ c \in Nat
  BY <1>1, RunFacts
<1>3. flags[r].layout.cur = BufferOf(call[r] + 1)
  BY <1>1, NotUpdated, FlagsAre, CurIs
<1>packet. PICK p \in Packets : IsScatter(p, r, c, r)
  BY <1>1, <1>2, ScatterPacket
<1>4. /\ p.way = "scatter" /\ p.call = call[r] + 1 /\ p.token = c /\ p.from = r
      /\ Place(p) = ScatterAddr(BufferOf(call[r] + 1), c, r)
      /\ Content(p) = Cell({<<call[r] + 1, r, c>>}, "other")
      /\ GoesTo(p, Owner(c))
  BY <1>packet DEF IsScatter
<1>5. p.call = call[p.from] + 1 /\ ~Issued(p) /\ Issued(p)'
  <2>1. PICK b \in ProgramCounters : b = "clear0"
    BY DEF ProgramCounters
  <2>2. /\ pc[r][c] \notin IF p.way = "broadcast" THEN Reduced ELSE Started
        /\ b \in IF p.way = "broadcast" THEN Reduced ELSE Started
    BY <1>1, <1>4, <2>1 DEF Started
  <2> QED BY <1>1, <1>4, <2>1, <2>2, NotYetIssued
<1>6. Owner(c) \in Ranks
  BY <1>2, DivFacts, Sizes DEF Owner
<1>7. ASSUME NEW m \in net', m \notin net
      PROVE  m = Store(p.from, Owner(c), Place(p), Content(p))
  <2>1. m = Store(r, Owner(TokenOf(c)), ScatterAddr(flags[r].layout.cur, TokenOf(c), r),
                  Input(r, TokenOf(c)))
    BY <1>7 DEF Scatter
  <2>2. Input(r, c) = Content(p)
    BY <1>4, InputIs
  <2> QED BY <1>2, <1>3, <1>4, <2>1, <2>2
<1>8. Sends
  BY <1>4, <1>5, <1>6, <1>7 DEF Sends
<1>9. call' = call /\ buffer' = buffer
  BY DEF Scatter
<1> QED BY <1>8, <1>9

\* The cells that the owner of a token polls hold the inputs of all ranks.
LEMMA ScatteredCells ==
  ASSUME TypeOK, CtasRight, FlagsRight, CallsTogether, BufferRight,
         NEW r \in Ranks, NEW c \in Ctas, call[r] < Len(program), ReduceBroadcast(r, c),
         NEW s \in Ranks
  PROVE  /\ buffer[r][ScatterAddr(reg[r][c].cur, TokenOf(c), s)].terms = {<<call[r] + 1, s, c>>}
         /\ \E p \in Packets : /\ p.way = "scatter" /\ p.call = call[r] + 1 /\ p.token = c
                               /\ p.from = s /\ Issued(p) /\ buffer[r][Place(p)] # Clean
<1>1. /\ Busy(r) /\ c \in MainCtas(r) /\ pc[r][c] = "reduce" /\ Kind(r) # "oneshot"
      /\ Owner(c) = r
  BY ReduceBroadcastMoves
<1>2. TokenOf(c) = c /\ c \in 0 .. NumTokens(r) - 1
  BY <1>1, RunFacts
<1>3. reg[r][c].cur = BufferOf(call[r] + 1)
  BY <1>1, RegIs, CurIs
<1>packet. PICK p \in Packets : IsScatter(p, r, c, s)
  BY <1>1, <1>2, ScatterPacket
<1>4. /\ p.way = "scatter" /\ p.call = call[r] + 1 /\ p.token = c /\ p.from = s
      /\ Place(p) = ScatterAddr(BufferOf(call[r] + 1), c, s)
      /\ Content(p) = Cell({<<call[r] + 1, s, c>>}, "other")
      /\ GoesTo(p, Owner(c))
  BY <1>packet DEF IsScatter
<1>5. ~IsLamportDirty(buffer[r][ScatterAddr(reg[r][c].cur, TokenOf(c), s)])
  BY DEF ReduceBroadcast
<1>6. ScatterAddr(reg[r][c].cur, TokenOf(c), s) = Place(p)
  BY <1>2, <1>3, <1>4
<1>7. GoesTo(p, r) /\ ~IsLamportDirty(buffer[r][Place(p)])
  BY <1>1, <1>4, <1>5, <1>6
<1>8. buffer[r][Place(p)] = Content(p) /\ buffer[r][Place(p)] # Clean
  BY <1>4, <1>7, PollFinds
<1>9. Issued(p)
  <2>1. p.call >= call[r] /\ p.call <= call[r] + 2
    BY <1>4, RankFacts
  <2> QED BY <1>7, <1>8, <2>1, InPlace
<1>10. Content(p).terms = {<<call[r] + 1, s, c>>}
  BY <1>4 DEF Cell
<1> QED BY <1>4, <1>6, <1>8, <1>9, <1>10

LEMMA ReduceBroadcastSends ==
  ASSUME TypeOK, CtasRight, FlagsRight, CallsTogether, BufferRight,
         NEW r \in Ranks, NEW c \in Ctas, call[r] < Len(program), ReduceBroadcast(r, c)
  PROVE  Sends /\ call' = call /\ buffer' = buffer
<1> DEFINE cells == {buffer[r][ScatterAddr(reg[r][c].cur, TokenOf(c), s)] : s \in Ranks}
<1>1. /\ Busy(r) /\ c \in MainCtas(r) /\ pc[r][c] = "reduce" /\ Kind(r) # "oneshot"
      /\ Owner(c) = r /\ Moved(r, c, "clear1")
  BY ReduceBroadcastMoves
<1>2. TokenOf(c) = c /\ c \in 0 .. NumTokens(r) - 1
  BY <1>1, RunFacts
<1>3. reg[r][c].cur = BufferOf(call[r] + 1)
  BY <1>1, RegIs, CurIs
<1>packet. PICK p \in Packets : IsBroadcast(p, r, c)
  BY <1>1, <1>2, BroadcastPacket
<1>4. /\ p.way = "broadcast" /\ p.call = call[r] + 1 /\ p.token = c /\ p.from = Owner(c)
      /\ Place(p) = BroadcastAddr(BufferOf(call[r] + 1), c)
      /\ Content(p) = Cell(SumTerms(call[r] + 1, c), "other")
      /\ \A q \in Ranks : GoesTo(p, q)
  BY <1>packet DEF IsBroadcast
<1>5. p.call = call[p.from] + 1 /\ ~Issued(p) /\ Issued(p)'
  <2>1. PICK b \in ProgramCounters : b = "clear1"
    BY DEF ProgramCounters
  <2>2. /\ pc[r][c] \notin IF p.way = "broadcast" THEN Reduced ELSE Started
        /\ b \in IF p.way = "broadcast" THEN Reduced ELSE Started
    BY <1>1, <1>4, <2>1 DEF Reduced
  <2> QED BY <1>1, <1>4, <2>1, <2>2, NotYetIssued
<1>6. SumOf(c, cells) = Content(p)
  <2>1. \A s \in Ranks : buffer[r][ScatterAddr(reg[r][c].cur, TokenOf(c), s)].terms
                           = {<<call[r] + 1, s, c>>}
    BY ScatteredCells
  <2>2. TermsOf(cells) = SumTerms(call[r] + 1, c)
    BY <2>1 DEF TermsOf, SumTerms
  <2>3. \A terms, word : Sanitize(Cell(terms, word)) = Cell(terms, "other")
    BY DEF Sanitize, Cell
  <2>4. SumOf(c, cells) = Sanitize(Cell(TermsOf(cells), SumWord(c)))
    BY DEF SumOf
  <2> HIDE DEF cells
  <2> QED BY <1>4, <2>2, <2>3, <2>4
<1>7. ASSUME NEW m \in net', m \notin net
      PROVE  \E s \in Ranks : m = Store(p.from, s, Place(p), Content(p))
  <2>1. PICK s \in Ranks : m = Store(r, s, BroadcastAddr(reg[r][c].cur, TokenOf(c)),
                                     SumOf(TokenOf(c), cells))
    BY <1>7 DEF ReduceBroadcast
  <2> QED BY <1>1, <1>2, <1>3, <1>4, <1>6, <2>1
<1>8. Sends
  BY <1>4, <1>5, <1>7 DEF Sends
<1>9. call' = call /\ buffer' = buffer
  BY DEF ReduceBroadcast
<1> QED BY <1>8, <1>9

\* A step of a CTA writes no cell of a buffer, it can only clear it.
LEMMA StepCells ==
  ASSUME TypeOK, NEW r \in Ranks, NEW c \in Ctas, CtaStep(r, c)
  PROVE  /\ \A s \in Ranks, a \in Addresses : buffer'[s][a] \in {Clean, buffer[s][a]}
         /\ call' = call
<1>1. buffer' = buffer \/ \E cells : ClearCells(r, cells)
  BY DEF CtaStep, SendOneshot, ClearAll, ReceiveOneshot, Scatter, ClearScatter,
         ReduceBroadcast, ClearBroadcast, NormArrive, ReceiveBroadcast, JoinFirstKernel,
         WaitAndUpdate
<1>2. ASSUME NEW cells, ClearCells(r, cells), NEW s \in Ranks, NEW a \in Addresses
      PROVE  buffer'[s][a] \in {Clean, buffer[s][a]}
  <2>1. CASE s = r
    BY <1>2, <2>1, ClearEffect
  <2>2. CASE s # r
    BY <1>2, <2>2, ClearEffect
  <2> QED BY <2>1, <2>2
<1>3. call' = call
  BY DEF CtaStep, SendOneshot, ClearAll, ReceiveOneshot, Scatter, ClearScatter,
         ReduceBroadcast, ClearBroadcast, NormArrive, ReceiveBroadcast, JoinFirstKernel,
         WaitAndUpdate
<1> QED BY <1>1, <1>2, <1>3

LEMMA StepNet ==
  ASSUME TypeOK, CtasRight, FlagsRight, CallsTogether, NetRight, BufferRight,
         NEW r \in Ranks, NEW c \in Ctas, CtaStep(r, c), [Next]_vars
  PROVE  NetRight'
<1>1. call[r] < Len(program)
  BY DEF CtaStep
<1>2. CASE SendOneshot(r, c)
  BY <1>1, <1>2, SendOneshotSends, SendNet
<1>3. CASE Scatter(r, c)
  BY <1>1, <1>3, ScatterSends, SendNet
<1>4. CASE ReduceBroadcast(r, c)
  BY <1>1, <1>4, ReduceBroadcastSends, SendNet
<1>5. CASE net' = net
  <2>1. call' = call
    BY StepCells
  <2>2. \A s \in Ranks, a \in Addresses : buffer[s][a] = Clean => buffer'[s][a] = Clean
    BY StepCells
  <2> QED BY <1>5, <2>1, <2>2, ClearNet
<1> QED BY <1>2, <1>3, <1>4, <1>5
        DEF CtaStep, ClearAll, ReceiveOneshot, ClearScatter,
            ClearBroadcast, NormArrive, ReceiveBroadcast, JoinFirstKernel, WaitAndUpdate

LEMMA NextNet ==
  ASSUME TypeOK, CtasRight, FlagsRight, CallsTogether, NetRight, BufferRight, PolledRight,
         [Next]_vars
  PROVE  NetRight'
<1>1. ASSUME call' = call, net' = net, buffer' = buffer
      PROVE  NetRight'
  <2>1. \A s \in Ranks, a \in Addresses : buffer[s][a] = Clean => buffer'[s][a] = Clean
    BY <1>1
  <2> QED BY <1>1, <2>1, ClearNet
<1>2. ASSUME NEW r \in Ranks, Launch(r) \/ LaunchNorm(r)
      PROVE  NetRight'
  BY <1>1, <1>2 DEF Launch, LaunchNorm
<1>3. ASSUME NEW r \in Ranks, Complete(r)
      PROVE  NetRight'
  BY <1>3, CompleteNet
<1>4. ASSUME NEW r \in Ranks, NEW c \in Ctas, CtaStep(r, c)
      PROVE  NetRight'
  BY <1>4, StepNet
<1>5. ASSUME NEW m \in net, Deliver(m)
      PROVE  NetRight'
  BY <1>5, DeliverNet
<1>6. ASSUME Finished \/ UNCHANGED vars
      PROVE  NetRight'
  BY <1>1, <1>6 DEF Finished, vars
<1> QED BY <1>2, <1>3, <1>4, <1>5, <1>6 DEF Next

LEMMA NextBuffer ==
  ASSUME TypeOK, CtasRight, CallsTogether, NetRight, BufferRight, ClearedRight, [Next]_vars
  PROVE  BufferRight'
<1>1. ASSUME call' = call, buffer' = buffer
      PROVE  BufferRight'
  <2>1. \A s \in Ranks, a \in Addresses : buffer'[s][a] \in {Clean, buffer[s][a]}
    BY <1>1
  <2> QED BY <1>1, <2>1, ClearBuffer
<1>2. ASSUME NEW r \in Ranks, Launch(r) \/ LaunchNorm(r)
      PROVE  BufferRight'
  BY <1>1, <1>2 DEF Launch, LaunchNorm
<1>3. ASSUME NEW r \in Ranks, Complete(r)
      PROVE  BufferRight'
  BY <1>3, CompleteBuffer
<1>4. ASSUME NEW r \in Ranks, NEW c \in Ctas, CtaStep(r, c)
      PROVE  BufferRight'
  BY <1>4, StepCells, ClearBuffer
<1>5. ASSUME NEW m \in net, Deliver(m)
      PROVE  BufferRight'
  BY <1>5, DeliverBuffer
<1>6. ASSUME Finished \/ UNCHANGED vars
      PROVE  BufferRight'
  BY <1>1, <1>6 DEF Finished, vars
<1> QED BY <1>2, <1>3, <1>4, <1>5, <1>6 DEF Next

-----------------------------------------------------------------------------
\* What is cleared stays clear.
ClearedOk(r) ==
  Busy(r) =>
    \A c \in MainCtas(r), stage \in 0 .. NumStages - 1 : HasCleared(r, c, stage) =>
      \A a \in DirtyCells(LayoutAfter(call[r]), stage, c, NumTokens(r)) : buffer[r][a] = Clean

LEMMA ClearedEach == ClearedRight <=> \A r \in Ranks : ClearedOk(r)
BY DEF ClearedRight, ClearedOk

LEMMA DirtyAddress ==
  ASSUME TypeOK, NEW n \in 0 .. Len(program), NEW stage \in 0 .. 1, NEW c, NEW m,
         NEW a \in DirtyCells(LayoutAfter(n), stage, c, m)
  PROVE  a \in Addresses
<1>1. PICK o \in 0 .. CellsPerBuffer - 1 : n > 0 /\ a = BufferOf(n) * CellsPerBuffer + o
  BY DirtyInBuffer
<1>2. n \in Nat \ {0}
  BY <1>1
<1>3. PICK i \in 0 .. 2 : i = BufferOf(n)
  BY <1>2, BufferOfFacts
<1>4. CellsPerBuffer \in Nat
  BY Half
<1>5. i * CellsPerBuffer + o < 3 * CellsPerBuffer /\ i * CellsPerBuffer \in Nat
  <2>1. i \in Nat /\ i < 3
    BY <1>3
  <2>2. i * CellsPerBuffer + o < 3 * CellsPerBuffer
    BY <1>4, <2>1, PairLess
  <2> QED BY <1>4, <2>1, <2>2, MulType
<1>6. PICK x \in Nat : x = i * CellsPerBuffer
  BY <1>5
<1>7. PICK y \in Nat : y = 3 * CellsPerBuffer
  BY <1>4
<1>8. o \in Nat /\ x + o < y
  BY <1>5, <1>6, <1>7
<1>9. x + o \in 0 .. y - 1
  BY <1>8
<1> QED BY <1>1, <1>3, <1>6, <1>7, <1>9 DEF Addresses, NumBuffers

LEMMA SameCleared ==
  ASSUME TypeOK, NEW s \in Ranks, program' = program, call'[s] = call[s],
         \A c \in MainCtas(s) : pc'[s][c] = pc[s][c],
         Busy(s)' <=> Busy(s),
         \A a \in Addresses : buffer'[s][a] = buffer[s][a], ClearedOk(s), Busy(s) => call[s] < Len(program)
  PROVE  ClearedOk(s)'
<1>1. MainCtas(s)' = MainCtas(s) /\ NumTokens(s)' = NumTokens(s)
  BY SameRun
<1>2. \A n : LayoutAfter(n)' = LayoutAfter(n)
  BY SameProgram
<1>3. PICK n \in 0 .. Len(program) : n = call[s]
  BY RankFacts
<1>4. ASSUME Busy(s), NEW c \in MainCtas(s), NEW stage \in 0 .. 1, HasCleared(s, c, stage)',
             NEW a \in DirtyCells(LayoutAfter(n), stage, c, NumTokens(s))
      PROVE  buffer'[s][a] = Clean
  <2>1. HasCleared(s, c, stage)
    BY <1>4 DEF HasCleared
  <2>2. buffer[s][a] = Clean
    BY <1>3, <1>4, <2>1 DEF ClearedOk, NumStages
  <2>3. a \in Addresses
    BY DirtyAddress
  <2> QED BY <2>2, <2>3
<1> QED BY <1>1, <1>2, <1>3, <1>4 DEF ClearedOk, NumStages

\* What a CTA has newly cleared in a step.
LEMMA MoveCleared ==
  ASSUME TypeOK, CtasRight, NEW r \in Ranks, NEW c \in Ctas, NEW b \in ProgramCounters, Busy(r),
         Moved(r, c, b), Move(r, c, b), NEW d \in MainCtas(r), NEW stage \in 0 .. 1,
         HasCleared(r, d, stage)', ~HasCleared(r, d, stage)
  PROVE  /\ d = c
         /\ \/ pc[r][c] = "clear0" /\ (stage = 0 \/ Kind(r) = "oneshot")
            \/ pc[r][c] = "clear1" /\ stage = 1
<1>1. /\ pc'[r][c] = b /\ \A e \in Ctas \ {c} : pc'[r][e] = pc[r][e]
      /\ call[r] < Len(program)
  BY DEF Moved, CtasRight
<1>2. d \in Ctas /\ d \notin NormCtas(r)
  BY <1>1, RunFacts
<1>3. d = c
  BY <1>1, <1>2 DEF HasCleared
<1>4. c \in MainCtas(r) /\ c \notin NormCtas(r)
  BY <1>2, <1>3
<1>5. CASE stage = 0
  <2>1. pc[r][c] \notin Started \ {"clear0"} /\ b \in Started \ {"clear0"}
    BY <1>1, <1>3, <1>5 DEF HasCleared
  <2> QED BY <1>3, <1>4, <1>5, <2>1 DEF Move, Started
<1>6. CASE stage = 1
  <2>1. pc[r][c] \notin {"receive", "update", "done"} /\ b \in {"receive", "update", "done"}
    BY <1>1, <1>3, <1>6 DEF HasCleared
  <2> QED BY <1>3, <1>4, <1>6, <2>1 DEF Move
<1> QED BY <1>5, <1>6

\* The step that got it there cleared it.
LEMMA StepClears ==
  ASSUME TypeOK, CtasRight, FlagsRight, NEW r \in Ranks, NEW c \in Ctas, CtaStep(r, c),
         NEW stage \in 0 .. 1,
         \/ pc[r][c] = "clear0" /\ (stage = 0 \/ Kind(r) = "oneshot")
         \/ pc[r][c] = "clear1" /\ stage = 1,
         NEW a \in DirtyCells(LayoutAfter(call[r]), stage, c, NumTokens(r)), a \in Addresses
  PROVE  buffer'[r][a] = Clean
<1>1. reg[r][c] = LayoutAfter(call[r])
  BY RegIs
<1>2. CASE ClearAll(r, c)
  <2>1. PICK cells : /\ ClearCells(r, cells)
                     /\ cells = UNION {DirtyCells(reg[r][c], st, c, NumTokens(r)) :
                                         st \in 0 .. NumStages - 1}
    BY <1>2 DEF ClearAll
  <2>2. a \in cells
    BY <1>1, <2>1 DEF NumStages
  <2> QED BY <2>1, <2>2, ClearEffect
<1>3. CASE ClearScatter(r, c)
  <2>1. PICK cells : /\ ClearCells(r, cells)
                     /\ cells = DirtyCells(reg[r][c], SCATTER, c, NumTokens(r))
    BY <1>3 DEF ClearScatter
  <2>2. stage = 0
    BY <1>3 DEF ClearScatter
  <2>3. a \in cells
    BY <1>1, <2>1, <2>2 DEF SCATTER
  <2> QED BY <2>1, <2>3, ClearEffect
<1>4. CASE ClearBroadcast(r, c)
  <2>1. PICK cells : /\ ClearCells(r, cells)
                     /\ cells = DirtyCells(reg[r][c], BROADCAST, c, NumTokens(r))
    BY <1>4 DEF ClearBroadcast
  <2>2. stage = 1
    BY <1>4 DEF ClearBroadcast
  <2>3. a \in cells
    BY <1>1, <2>1, <2>2 DEF BROADCAST
  <2> QED BY <2>1, <2>3, ClearEffect
<1> QED BY <1>2, <1>3, <1>4
        DEF CtaStep, SendOneshot, ReceiveOneshot, Scatter, ReduceBroadcast, NormArrive,
            ReceiveBroadcast, JoinFirstKernel, WaitAndUpdate, CanStart

LEMMA StepCleared ==
  ASSUME TypeOK, CtasRight, FlagsRight, ClearedRight, NEW r \in Ranks, NEW c \in Ctas,
         CtaStep(r, c)
  PROVE  ClearedOk(r)'
<1>1. Busy(r) /\ call[r] < Len(program)
  BY StepMoves
<1>2. PICK b \in ProgramCounters : Moved(r, c, b) /\ Move(r, c, b)
  BY StepMoves
<1>3. /\ call'[r] = call[r] /\ NumTokens(r)' = NumTokens(r) /\ MainCtas(r)' = MainCtas(r)
      /\ \A n : LayoutAfter(n)' = LayoutAfter(n)
  BY <1>1, <1>2, MoveRun
<1>4. PICK n \in 0 .. Len(program) : n = call[r]
  BY RankFacts
<1>5. ASSUME NEW d \in MainCtas(r), NEW stage \in 0 .. 1, HasCleared(r, d, stage)',
             NEW a \in DirtyCells(LayoutAfter(n), stage, d, NumTokens(r))
      PROVE  buffer'[r][a] = Clean
  <2>1. a \in Addresses
    BY DirtyAddress
  <2>2. CASE HasCleared(r, d, stage)
    <3>1. buffer[r][a] = Clean
      BY <1>1, <1>4, <2>2 DEF ClearedRight, NumStages
    <3> QED BY <2>1, <3>1, StepCells
  <2>3. CASE ~HasCleared(r, d, stage)
    <3>1. /\ d = c
          /\ \/ pc[r][c] = "clear0" /\ (stage = 0 \/ Kind(r) = "oneshot")
             \/ pc[r][c] = "clear1" /\ stage = 1
      BY <1>1, <1>2, <1>5, <2>3, MoveCleared
    <3>2. a \in DirtyCells(LayoutAfter(call[r]), stage, c, NumTokens(r))
      BY <1>4, <3>1
    <3> QED BY <2>1, <3>1, <3>2, StepClears
  <2> QED BY <2>2, <2>3
<1> QED BY <1>3, <1>4, <1>5 DEF ClearedOk, NumStages

LEMMA LaunchCleared ==
  ASSUME TypeOK, CtasRight, NEW r \in Ranks, Launch(r)
  PROVE  ClearedOk(r)'
<1>1. /\ program' = program /\ call' = call /\ call[r] < Len(program)
      /\ \A c \in Ctas : pc'[r][c] = IF c \in MainCtas(r) THEN "ready" ELSE "off"
  BY LaunchEffect
<1>2. MainCtas(r)' = MainCtas(r)
  BY <1>1, SameRun
<1>3. \A c \in MainCtas(r) : c \in Ctas
  BY <1>1, RunFacts
<1>4. \A c \in MainCtas(r)', stage \in 0 .. 1 : ~HasCleared(r, c, stage)'
  BY <1>1, <1>2, <1>3 DEF HasCleared, Started
<1> QED BY <1>4 DEF ClearedOk, NumStages

LEMMA DeliverCleared ==
  ASSUME TypeOK, CtasRight, CallsTogether, NetRight, ClearedRight, NEW m \in net, Deliver(m),
         NEW r \in Ranks
  PROVE  ClearedOk(r)'
<1>1. /\ UNCHANGED <<program, call, flags, pc, reg, out>>
      /\ m.to \in Ranks /\ m.at \in Addresses
      /\ \A s \in Ranks, a \in Addresses : s # m.to \/ a # m.at => buffer'[s][a] = buffer[s][a]
  BY DeliverFacts
<1>2. MainCtas(r)' = MainCtas(r) /\ NumTokens(r)' = NumTokens(r)
  BY <1>1, SameRun
<1>3. \A n : LayoutAfter(n)' = LayoutAfter(n)
  BY <1>1, SameProgram
<1>4. PICK n \in 0 .. Len(program) : n = call[r]
  BY RankFacts
<1>5. PICK p \in Packets : /\ p.call > call[m.to] /\ p.call <= call[m.to] + 2
                           /\ Place(p) = m.at
  BY DeliverFacts
<1>6. ASSUME Busy(r), NEW c \in MainCtas(r), NEW stage \in 0 .. 1, HasCleared(r, c, stage)',
             NEW a \in DirtyCells(LayoutAfter(n), stage, c, NumTokens(r))
      PROVE  buffer'[r][a] = Clean
  <2>1. HasCleared(r, c, stage)
    BY <1>1, <1>6 DEF HasCleared
  <2>2. buffer[r][a] = Clean
    BY <1>4, <1>6, <2>1 DEF ClearedRight, NumStages
  <2>3. a \in Addresses
    BY DirtyAddress
  <2>4. r # m.to \/ a # m.at
    <3>1. SUFFICES ASSUME r = m.to PROVE a # m.at
      OBVIOUS
    <3>2. p.call = n + 1 \/ p.call = n + 2
      <4>1. p.call > n /\ p.call <= n + 2
        BY <1>4, <1>5, <3>1
      <4>2. p.call \in Nat
        BY PacketFacts
      <4> QED BY <4>1, <4>2
    <3>3. Place(p) \notin DirtyCells(LayoutAfter(n), stage, c, NumTokens(r))
      BY <3>2, NotDirty
    <3> QED BY <1>5, <1>6, <3>3
  <2> QED BY <1>1, <2>2, <2>3, <2>4
<1>7. Busy(r)' = Busy(r)
  BY <1>1 DEF Busy
<1> QED BY <1>1, <1>2, <1>3, <1>4, <1>6, <1>7 DEF ClearedOk, NumStages

LEMMA NextCleared ==
  ASSUME TypeOK, CtasRight, FlagsRight, CallsTogether, NetRight, ClearedRight, [Next]_vars
  PROVE  ClearedRight'
<1>1. program' = program
  BY NextCalls
<1>2. ASSUME NEW s \in Ranks, call'[s] = call[s], pc'[s] = pc[s],
             buffer'[s] = buffer[s]
      PROVE  ClearedOk(s)'
  <2>1. Busy(s)' <=> Busy(s)
    BY <1>2 DEF Busy
  <2>2. Busy(s) => call[s] < Len(program)
    BY DEF CtasRight
  <2> QED BY <1>1, <1>2, <2>1, <2>2, SameCleared, ClearedEach
<1>3. ASSUME NEW r \in Ranks, Launch(r), NEW s \in Ranks
      PROVE  ClearedOk(s)'
  <2>1. CASE s = r
    BY <1>3, <2>1, LaunchCleared
  <2>2. CASE s # r
    <3>1. buffer' = buffer
      BY <1>3 DEF Launch
    <3>2. call'[s] = call[s] /\ pc'[s] = pc[s]
      BY <1>3, <2>2, LaunchEffect
    <3> QED BY <1>2, <3>1, <3>2
  <2> QED BY <2>1, <2>2
<1>4. ASSUME NEW r \in Ranks, LaunchNorm(r), NEW s \in Ranks
      PROVE  ClearedOk(s)'
  <2>1. buffer' = buffer
    BY <1>4 DEF LaunchNorm
  <2>2. CASE s = r
    <3>1. /\ call' = call /\ Busy(r) /\ Busy(r)' /\ call[r] < Len(program)
          /\ \A c \in Ctas \ NormCtas(r) : pc'[r][c] = pc[r][c]
      BY <1>4, LaunchNormEffect
    <3>2. \A c \in MainCtas(r) : c \in Ctas \ NormCtas(r)
      BY <3>1, RunFacts
    <3> QED BY <1>1, <2>1, <2>2, <3>1, <3>2, SameCleared, ClearedEach
  <2>3. CASE s # r
    BY <1>2, <1>4, <2>1, <2>3, LaunchNormEffect
  <2> QED BY <2>2, <2>3
<1>5. ASSUME NEW r \in Ranks, Complete(r), NEW s \in Ranks
      PROVE  ClearedOk(s)'
  <2>1. buffer' = buffer
    BY <1>5 DEF Complete
  <2>2. CASE s = r
    BY <1>5, <2>2, CompleteEffect DEF ClearedOk
  <2>3. CASE s # r
    BY <1>2, <1>5, <2>1, <2>3, CompleteEffect
  <2> QED BY <2>2, <2>3
<1>6. ASSUME NEW r \in Ranks, NEW c \in Ctas, CtaStep(r, c), NEW s \in Ranks
      PROVE  ClearedOk(s)'
  <2>1. CASE s = r
    BY <1>6, <2>1, StepCleared
  <2>2. CASE s # r
    <3>1. buffer'[s] = buffer[s]
      BY <1>6, <2>2, StepFrame
    <3>2. call'[s] = call[s] /\ pc'[s] = pc[s]
      BY <1>6, <2>2, StepMoves DEF Moved
    <3> QED BY <1>2, <3>1, <3>2
  <2> QED BY <2>1, <2>2
<1>7. ASSUME NEW m \in net, Deliver(m), NEW s \in Ranks
      PROVE  ClearedOk(s)'
  BY <1>7, DeliverCleared
<1>8. ASSUME Finished \/ UNCHANGED vars, NEW s \in Ranks
      PROVE  ClearedOk(s)'
  BY <1>2, <1>8 DEF Finished, vars
<1>9. \A s \in Ranks : ClearedOk(s)'
  BY <1>3, <1>4, <1>5, <1>6, <1>7, <1>8 DEF Next
<1> QED BY <1>9 DEF ClearedRight, ClearedOk

-----------------------------------------------------------------------------
\* What is polled stays there.
PolledOk(r) ==
  Busy(r) =>
    \A p \in Packets : p.call = call[r] + 1 /\ GoesTo(p, r) /\ Polled(r, p) =>
      buffer[r][Place(p)] # Clean

LEMMA PolledEach == PolledRight <=> \A r \in Ranks : PolledOk(r)
BY DEF PolledRight, PolledOk

LEMMA PutOutSame ==
  ASSUME NEW s \in Ranks, program' = program, call'[s] = call[s], pc'[s] = pc[s]
  PROVE  /\ \A t \in Tokens : HasPutOut(s, t)' <=> HasPutOut(s, t)
         /\ \A p \in Packets : Polled(s, p)' => Polled(s, p)
<1>1. Kind(s)' = Kind(s)
  BY SameRun
<1>2. \A t : HasPutOut(s, t)' <=> HasPutOut(s, t)
  BY <1>1 DEF HasPutOut
<1>3. ASSUME NEW p \in Packets, Polled(s, p)'
      PROVE  Polled(s, p)
  BY <1>1, <1>3 DEF Polled, HasPutOut
<1> QED BY <1>2, <1>3

LEMMA SamePolled ==
  ASSUME TypeOK, NEW s \in Ranks, program' = program, call'[s] = call[s], Busy(s)' => Busy(s),
         \A p \in Packets : Polled(s, p)' => Polled(s, p),
         \A a \in Addresses : buffer[s][a] # Clean => buffer'[s][a] # Clean, PolledOk(s)
  PROVE  PolledOk(s)'
<1>1. Packets' = Packets
  BY SameProgram
<1>2. ASSUME Busy(s), NEW p \in Packets, p.call = call[s] + 1, GoesTo(p, s), Polled(s, p)'
      PROVE  buffer'[s][Place(p)] # Clean
  <2>1. Place(p) \in Addresses
    BY PlaceIs
  <2>2. Polled(s, p)
    BY <1>2
  <2>3. buffer[s][Place(p)] # Clean
    BY <1>2, <2>2 DEF PolledOk
  <2> QED BY <2>1, <2>3
<1> QED BY <1>1, <1>2 DEF PolledOk

LEMMA MovePutOut ==
  ASSUME TypeOK, CtasRight, NEW r \in Ranks, NEW c \in Ctas, NEW b \in ProgramCounters, Busy(r),
         Moved(r, c, b), Move(r, c, b), NEW t \in Tokens
  PROVE  /\ HasPutOut(r, t) => HasPutOut(r, t)'
         /\ HasPutOut(r, t)' /\ ~HasPutOut(r, t) =>
              /\ pc[r][c] = "receive" /\ TokenOf(c) = t
              /\ c = IF Kind(r) = "twoshot_norm" THEN MaxTokens + t ELSE t
         /\ pc[r][c] = "receive" /\ c = (IF Kind(r) = "twoshot_norm" THEN MaxTokens + t ELSE t)
              => HasPutOut(r, t)'
<1>1. /\ pc'[r][c] = b /\ \A d \in Ctas \ {c} : pc'[r][d] = pc[r][d]
  BY DEF Moved
<1>2. Kind(r)' = Kind(r) /\ call[r] < Len(program)
  BY MoveRun
<1>3. t \in Ctas /\ TokenOf(t) = t /\ MaxTokens + t \in Ctas /\ TokenOf(MaxTokens + t) = t
      /\ IsNorm(MaxTokens + t) /\ ~IsNorm(t)
  BY TokenFacts
<1>4. /\ \A d \in MainCtas(r) : ~IsNorm(d)
      /\ \A d \in NormCtas(r) : IsNorm(d)
  BY <1>2, RunFacts
<1>5. CASE Kind(r) = "twoshot_norm"
  <2>1. PICK d \in Ctas : d = MaxTokens + t
    BY <1>3
  <2>2. /\ HasPutOut(r, t) <=> pc[r][d] \in {"join", "update", "done"}
        /\ HasPutOut(r, t)' <=> pc'[r][d] \in {"join", "update", "done"}
    BY <1>2, <1>5, <2>1 DEF HasPutOut
  <2>3. c = d => c \in NormCtas(r) /\ c \notin MainCtas(r)
    BY <1>3, <1>4, <2>1 DEF Move
  <2>4. c = d => /\ pc[r][c] \in {"join", "update", "done"} => b \in {"join", "update", "done"}
                 /\ b \in {"join", "update", "done"} =>
                      pc[r][c] \in {"receive", "join", "update", "done"}
                 /\ pc[r][c] = "receive" => b \in {"join", "update", "done"}
    BY <1>5, <2>3 DEF Move
  <2> QED BY <1>1, <1>3, <1>5, <2>1, <2>2, <2>4
<1>6. CASE Kind(r) # "twoshot_norm"
  <2>1. /\ HasPutOut(r, t) <=> pc[r][t] \in {"update", "done"}
        /\ HasPutOut(r, t)' <=> pc'[r][t] \in {"update", "done"}
    BY <1>2, <1>6 DEF HasPutOut
  <2>2. c = t => /\ pc[r][c] \in {"update", "done"} => b \in {"update", "done"}
                 /\ b \in {"update", "done"} => pc[r][c] \in {"receive", "update", "done"}
                 /\ pc[r][c] = "receive" => b \in {"update", "done"}
    BY <1>6 DEF Move
  <2> QED BY <1>1, <1>3, <1>6, <2>1, <2>2
<1> QED BY <1>5, <1>6

\* Only a step at the end of a poll makes a packet polled.
LEMMA MovePolled ==
  ASSUME TypeOK, CtasRight, NEW r \in Ranks, NEW c \in Ctas, NEW b \in ProgramCounters, Busy(r),
         Moved(r, c, b), Move(r, c, b), NEW p \in Packets, p.call = call[r] + 1, GoesTo(p, r),
         Polled(r, p)', ~Polled(r, p)
  PROVE  /\ TokenOf(c) = p.token
         /\ p.way = "oneshot" => pc[r][c] = "receive" /\ p.from # r /\ Kind(r) = "oneshot"
         /\ p.way = "scatter" => pc[r][c] = "reduce"
         /\ p.way = "broadcast" => pc[r][c] = "receive" /\ Kind(r) # "oneshot"
<1>1. /\ pc'[r][c] = b /\ \A d \in Ctas \ {c} : pc'[r][d] = pc[r][d]
  BY DEF Moved
<1>2. call[r] < Len(program) /\ Kind(r) = program[call[r] + 1].kind
  BY RunFacts DEF CtasRight
<1>3. /\ p.way \in Ways /\ p.token \in Tokens
      /\ (p.way = "oneshot") <=> (Kind(r) = "oneshot")
  BY <1>2, PacketFacts
<1>4. CASE p.way = "oneshot"
  <2>1. p.from # r /\ HasPutOut(r, p.token)' /\ ~HasPutOut(r, p.token)
    BY <1>4 DEF Polled
  <2>2. pc[r][c] = "receive" /\ TokenOf(c) = p.token
    BY <1>3, <2>1, MovePutOut
  <2> QED BY <1>3, <1>4, <2>1, <2>2
<1>5. CASE p.way = "broadcast"
  <2>1. HasPutOut(r, p.token)' /\ ~HasPutOut(r, p.token)
    BY <1>5 DEF Polled
  <2>2. pc[r][c] = "receive" /\ TokenOf(c) = p.token
    BY <1>3, <2>1, MovePutOut
  <2> QED BY <1>3, <1>5, <2>2
<1>6. CASE p.way = "scatter"
  <2>1. pc'[r][p.token] \in Reduced /\ pc[r][p.token] \notin Reduced
    BY <1>6 DEF Polled
  <2>2. p.token \in Ctas /\ TokenOf(p.token) = p.token /\ ~IsNorm(p.token)
    BY <1>3, TokenFacts
  <2>3. c = p.token /\ b \in Reduced /\ pc[r][c] \notin Reduced
    BY <1>1, <2>1, <2>2
  <2>4. Owner(c) = r
    BY <1>6, <2>3 DEF GoesTo
  <2>5. c \in MainCtas(r)
    <3>1. \A d \in NormCtas(r) : IsNorm(d)
      BY <1>2, RunFacts
    <3> QED BY <2>2, <2>3, <3>1 DEF Move
  <2>6. c \notin NormCtas(r)
    BY <1>2, <2>5, RunFacts
  <2>7. pc[r][c] = "reduce"
    BY <1>3, <1>6, <2>3, <2>4, <2>6 DEF Move, Reduced
  <2> QED BY <1>6, <2>2, <2>3, <2>7
<1> QED BY <1>3, <1>4, <1>5, <1>6 DEF Ways

\* A step clears only what the flags of its call name as dirty.
LEMMA StepKeeps ==
  ASSUME TypeOK, FlagsRight, NEW r \in Ranks, NEW c \in Ctas, CtaStep(r, c), NEW a \in Addresses,
         \A stage \in 0 .. 1 : a \notin DirtyCells(LayoutAfter(call[r]), stage, c, NumTokens(r))
  PROVE  buffer'[r][a] = buffer[r][a]
<1>1. CASE buffer' = buffer
  BY <1>1
<1>2. CASE ClearAll(r, c)
  <2>1. PICK cells : /\ ClearCells(r, cells)
                     /\ cells = UNION {DirtyCells(reg[r][c], st, c, NumTokens(r)) :
                                         st \in 0 .. NumStages - 1}
    BY <1>2 DEF ClearAll
  <2>2. reg[r][c] = LayoutAfter(call[r])
    BY <1>2, RegIs DEF ClearAll
  <2>3. a \notin cells
    BY <2>1, <2>2 DEF NumStages
  <2> QED BY <2>1, <2>3, ClearEffect
<1>3. CASE ClearScatter(r, c)
  <2>1. PICK cells : /\ ClearCells(r, cells)
                     /\ cells = DirtyCells(reg[r][c], SCATTER, c, NumTokens(r))
    BY <1>3 DEF ClearScatter
  <2>2. reg[r][c] = LayoutAfter(call[r])
    BY <1>3, RegIs DEF ClearScatter
  <2>3. a \notin cells
    BY <2>1, <2>2 DEF SCATTER
  <2> QED BY <2>1, <2>3, ClearEffect
<1>4. CASE ClearBroadcast(r, c)
  <2>1. PICK cells : /\ ClearCells(r, cells)
                     /\ cells = DirtyCells(reg[r][c], BROADCAST, c, NumTokens(r))
    BY <1>4 DEF ClearBroadcast
  <2>2. reg[r][c] = LayoutAfter(call[r])
    BY <1>4, RegIs DEF ClearBroadcast
  <2>3. a \notin cells
    BY <2>1, <2>2 DEF BROADCAST
  <2> QED BY <2>1, <2>3, ClearEffect
<1> QED BY <1>1, <1>2, <1>3, <1>4
        DEF CtaStep, SendOneshot, ReceiveOneshot, Scatter, ReduceBroadcast, NormArrive,
            ReceiveBroadcast, JoinFirstKernel, WaitAndUpdate

\* A poll has ended on the cell of a packet that becomes polled.
LEMMA PollEnds ==
  ASSUME TypeOK, CtasRight, FlagsRight, NEW r \in Ranks, NEW c \in Ctas, CtaStep(r, c),
         NEW p \in Packets, p.call = call[r] + 1, TokenOf(c) = p.token,
         p.way = "oneshot" => pc[r][c] = "receive" /\ p.from # r /\ Kind(r) = "oneshot",
         p.way = "scatter" => pc[r][c] = "reduce",
         p.way = "broadcast" => pc[r][c] = "receive" /\ Kind(r) # "oneshot"
  PROVE  buffer' = buffer /\ ~IsLamportDirty(buffer[r][Place(p)])
<1>1. call[r] < Len(program) /\ p.from \in Ranks /\ p.way \in Ways
  BY PacketFacts DEF CtaStep
<1>2. pc[r][c] \in {"receive", "reduce"}
  BY <1>1 DEF Ways
<1>3. reg[r][c].cur = BufferOf(p.call)
  BY <1>1, <1>2, RegIs, CurIs
<1>4. CASE p.way = "oneshot"
  <2>1. ReceiveOneshot(r, c)
    BY <1>4 DEF CtaStep, SendOneshot, ClearAll, Scatter, ClearScatter, ReduceBroadcast,
                ClearBroadcast, NormArrive, ReceiveBroadcast, JoinFirstKernel, WaitAndUpdate,
                CanStart
  <2>2. Place(p) = OneshotAddr(reg[r][c].cur, TokenOf(c), p.from)
    BY <1>3, <1>4 DEF Place
  <2> QED BY <1>1, <1>4, <2>1, <2>2 DEF ReceiveOneshot
<1>5. CASE p.way = "scatter"
  <2>1. ReduceBroadcast(r, c)
    BY <1>5 DEF CtaStep, SendOneshot, ClearAll, ReceiveOneshot, Scatter, ClearScatter,
                ClearBroadcast, NormArrive, ReceiveBroadcast, JoinFirstKernel, WaitAndUpdate,
                CanStart
  <2>2. Place(p) = ScatterAddr(reg[r][c].cur, TokenOf(c), p.from)
    BY <1>3, <1>5 DEF Place
  <2> QED BY <1>1, <2>1, <2>2 DEF ReduceBroadcast
<1>6. CASE p.way = "broadcast"
  <2>1. ReceiveBroadcast(r, c)
    BY <1>6 DEF CtaStep, SendOneshot, ClearAll, ReceiveOneshot, Scatter, ClearScatter,
                ReduceBroadcast, ClearBroadcast, NormArrive, JoinFirstKernel, WaitAndUpdate,
                CanStart
  <2>2. Place(p) = BroadcastAddr(reg[r][c].cur, TokenOf(c))
    BY <1>3, <1>6 DEF Place
  <2> QED BY <2>1, <2>2 DEF ReceiveBroadcast
<1> QED BY <1>1, <1>4, <1>5, <1>6 DEF Ways

LEMMA StepPolled ==
  ASSUME TypeOK, CtasRight, FlagsRight, PolledRight, NEW r \in Ranks, NEW c \in Ctas,
         CtaStep(r, c)
  PROVE  PolledOk(r)'
<1>1. Busy(r)
  BY StepMoves
<1>2. PICK b \in ProgramCounters : Moved(r, c, b) /\ Move(r, c, b)
  BY StepMoves
<1>3. program' = program /\ call'[r] = call[r] /\ Packets' = Packets
  BY <1>2, SameProgram DEF Moved
<1>4. ASSUME NEW p \in Packets, p.call = call[r] + 1, GoesTo(p, r), Polled(r, p)'
      PROVE  buffer'[r][Place(p)] # Clean
  <2>1. CASE Polled(r, p)
    <3>1. buffer[r][Place(p)] # Clean
      BY <1>1, <1>4, <2>1 DEF PolledRight
    <3>2. Place(p) \in Addresses
      BY PlaceIs
    <3>3. \A stage \in 0 .. 1 :
            Place(p) \notin DirtyCells(LayoutAfter(call[r]), stage, c, NumTokens(r))
      <4>1. PICK n \in 0 .. Len(program) : n = call[r]
        BY RankFacts
      <4> QED BY <1>4, <4>1, NotDirty
    <3>4. PICK a \in Addresses : a = Place(p)
      BY <3>2
    <3>5. buffer'[r][a] = buffer[r][a]
      BY <3>3, <3>4, StepKeeps
    <3> QED BY <3>1, <3>4, <3>5
  <2>2. CASE ~Polled(r, p)
    <3>1. /\ TokenOf(c) = p.token
          /\ p.way = "oneshot" => pc[r][c] = "receive" /\ p.from # r /\ Kind(r) = "oneshot"
          /\ p.way = "scatter" => pc[r][c] = "reduce"
          /\ p.way = "broadcast" => pc[r][c] = "receive" /\ Kind(r) # "oneshot"
      BY <1>1, <1>2, <1>4, <2>2, MovePolled
    <3>2. buffer' = buffer /\ ~IsLamportDirty(buffer[r][Place(p)])
      BY <1>4, <3>1, PollEnds
    <3> QED BY <3>2 DEF IsLamportDirty, Clean, Cell
  <2> QED BY <2>1, <2>2
<1> QED BY <1>3, <1>4 DEF PolledOk

LEMMA LaunchPutsOutNothing ==
  ASSUME TypeOK, CtasRight, NEW r \in Ranks, Launch(r)
  PROVE  /\ \A t \in Tokens : ~HasPutOut(r, t)'
         /\ \A p \in Packets : ~Polled(r, p)'
<1>1. \A c \in Ctas : pc'[r][c] \in {"ready", "off"}
  BY LaunchEffect
<1>2. \A t \in Tokens : ~HasPutOut(r, t)'
  BY <1>1, TokenFacts DEF HasPutOut
<1>3. ASSUME NEW p \in Packets
      PROVE  ~Polled(r, p)'
  <2>1. p.token \in Tokens /\ p.token \in Ctas /\ p.way \in Ways
    BY PacketFacts, TokenFacts
  <2>2. pc'[r][p.token] \notin Reduced
    BY <1>1, <2>1 DEF Reduced
  <2> QED BY <1>2, <2>1, <2>2 DEF Polled, Ways
<1> QED BY <1>2, <1>3

LEMMA LaunchNormPutsOutNothing ==
  ASSUME TypeOK, CtasRight, NEW r \in Ranks, LaunchNorm(r)
  PROVE  /\ \A t \in Tokens : HasPutOut(r, t)' <=> HasPutOut(r, t)
         /\ \A p \in Packets : Polled(r, p)' => Polled(r, p)
<1>1. /\ program' = program /\ call' = call /\ call[r] < Len(program)
      /\ Kind(r) = "twoshot_norm"
      /\ \A c \in NormCtas(r) : pc[r][c] = "off"
      /\ \A c \in NormCtas(r) : pc'[r][c] = "ready"
      /\ \A c \in Ctas \ NormCtas(r) : pc'[r][c] = pc[r][c]
  BY LaunchNormEffect
<1>2. Kind(r)' = Kind(r)
  BY <1>1, SameRun
<1>3. \A c \in NormCtas(r) : IsNorm(c)
  BY <1>1, RunFacts
<1>4. ASSUME NEW t \in Tokens
      PROVE  HasPutOut(r, t)' <=> HasPutOut(r, t)
  <2>1. PICK d \in Ctas : d = MaxTokens + t
    BY TokenFacts
  <2>2. pc'[r][d] = pc[r][d] \/ (pc[r][d] = "off" /\ pc'[r][d] = "ready")
    BY <1>1
  <2> QED BY <1>1, <1>2, <2>1, <2>2 DEF HasPutOut
<1>5. ASSUME NEW p \in Packets, Polled(r, p)'
      PROVE  Polled(r, p)
  <2>1. p.token \in Tokens /\ p.token \in Ctas /\ p.way \in Ways /\ ~IsNorm(p.token)
    BY PacketFacts, TokenFacts
  <2>2. pc'[r][p.token] = pc[r][p.token]
    BY <1>1, <1>3, <2>1
  <2> QED BY <1>4, <1>5, <2>1, <2>2 DEF Polled, Ways
<1> QED BY <1>4, <1>5

LEMMA NextPolled ==
  ASSUME TypeOK, CtasRight, FlagsRight, CallsTogether, NetRight, PolledRight, [Next]_vars
  PROVE  PolledRight'
<1>1. program' = program
  BY NextCalls
<1>2. ASSUME NEW s \in Ranks, call'[s] = call[s], pc'[s] = pc[s],
             \A a \in Addresses : buffer[s][a] # Clean => buffer'[s][a] # Clean
      PROVE  PolledOk(s)'
  <2>1. Busy(s)' => Busy(s)
    BY <1>2 DEF Busy
  <2>2. \A p \in Packets : Polled(s, p)' => Polled(s, p)
    BY <1>1, <1>2, PutOutSame
  <2> QED BY <1>1, <1>2, <2>1, <2>2, SamePolled, PolledEach
<1>3. ASSUME NEW r \in Ranks, Launch(r), NEW s \in Ranks
      PROVE  PolledOk(s)'
  <2>1. CASE s = r
    <3>1. Packets' = Packets /\ \A p \in Packets : ~Polled(r, p)'
      BY <1>1, <1>3, LaunchPutsOutNothing, SameProgram
    <3> QED BY <2>1, <3>1 DEF PolledOk
  <2>2. CASE s # r
    <3>1. buffer' = buffer
      BY <1>3 DEF Launch
    <3>2. call'[s] = call[s] /\ pc'[s] = pc[s]
      BY <1>3, <2>2, LaunchEffect
    <3> QED BY <1>2, <3>1, <3>2
  <2> QED BY <2>1, <2>2
<1>4. ASSUME NEW r \in Ranks, LaunchNorm(r), NEW s \in Ranks
      PROVE  PolledOk(s)'
  <2>1. buffer' = buffer
    BY <1>4 DEF LaunchNorm
  <2>2. CASE s = r
    <3>1. call' = call /\ Busy(r)
      BY <1>4, LaunchNormEffect
    <3>2. \A p \in Packets : Polled(r, p)' => Polled(r, p)
      BY <1>4, LaunchNormPutsOutNothing
    <3> QED BY <1>1, <2>1, <2>2, <3>1, <3>2, SamePolled, PolledEach
  <2>3. CASE s # r
    BY <1>2, <1>4, <2>1, <2>3, LaunchNormEffect
  <2> QED BY <2>2, <2>3
<1>5. ASSUME NEW r \in Ranks, Complete(r), NEW s \in Ranks
      PROVE  PolledOk(s)'
  <2>1. buffer' = buffer
    BY <1>5 DEF Complete
  <2>2. CASE s = r
    BY <1>5, <2>2, CompleteEffect DEF PolledOk
  <2>3. CASE s # r
    BY <1>2, <1>5, <2>1, <2>3, CompleteEffect
  <2> QED BY <2>2, <2>3
<1>6. ASSUME NEW r \in Ranks, NEW c \in Ctas, CtaStep(r, c), NEW s \in Ranks
      PROVE  PolledOk(s)'
  <2>1. CASE s = r
    BY <1>6, <2>1, StepPolled
  <2>2. CASE s # r
    <3>1. buffer'[s] = buffer[s]
      BY <1>6, <2>2, StepFrame
    <3>2. call'[s] = call[s] /\ pc'[s] = pc[s]
      BY <1>6, <2>2, StepMoves DEF Moved
    <3> QED BY <1>2, <3>1, <3>2
  <2> QED BY <2>1, <2>2
<1>7. ASSUME NEW m \in net, Deliver(m), NEW s \in Ranks
      PROVE  PolledOk(s)'
  <2>1. /\ call' = call /\ pc' = pc /\ m.value # Clean
        /\ m.to \in Ranks /\ m.at \in Addresses /\ buffer'[m.to][m.at] = m.value
        /\ \A r \in Ranks, a \in Addresses : r # m.to \/ a # m.at => buffer'[r][a] = buffer[r][a]
    BY <1>7, DeliverFacts
  <2>2. \A a \in Addresses : buffer[s][a] # Clean => buffer'[s][a] # Clean
    BY <2>1
  <2> QED BY <1>2, <2>1, <2>2
<1>8. ASSUME Finished \/ UNCHANGED vars, NEW s \in Ranks
      PROVE  PolledOk(s)'
  BY <1>2, <1>8 DEF Finished, vars
<1>9. \A s \in Ranks : PolledOk(s)'
  BY <1>3, <1>4, <1>5, <1>6, <1>7, <1>8 DEF Next
<1> QED BY <1>9 DEF PolledRight, PolledOk

-----------------------------------------------------------------------------
\* What the ranks put out.
OutOk(r) ==
  /\ Busy(r) => \A t \in Tokens :
       out[r][t] = IF t < NumTokens(r) /\ HasPutOut(r, t) THEN SumTerms(call[r] + 1, t) ELSE {}
  /\ ~Busy(r) /\ call[r] > 0 =>
       \A t \in 0 .. program[call[r]].tokens - 1 : out[r][t] = SumTerms(call[r], t)

LEMMA OutEach == OutRight <=> \A r \in Ranks : OutOk(r)
BY DEF OutRight, OutOk

LEMMA SameOut ==
  ASSUME NEW s \in Ranks, program' = program, call'[s] = call[s], Busy(s)' <=> Busy(s),
         \A t \in Tokens : HasPutOut(s, t)' <=> HasPutOut(s, t), out'[s] = out[s], OutOk(s)
  PROVE  OutOk(s)'
<1>1. NumTokens(s)' = NumTokens(s)
  BY SameRun
<1>2. Busy(s)' => \A t \in Tokens :
        out'[s][t] = IF t < NumTokens(s)' /\ HasPutOut(s, t)' THEN SumTerms(call'[s] + 1, t)
                     ELSE {}
  BY <1>1 DEF OutOk
<1>3. ~Busy(s)' /\ call'[s] > 0 =>
        \A t \in 0 .. program[call'[s]].tokens - 1 : out'[s][t] = SumTerms(call'[s], t)
  BY DEF OutOk
<1> QED BY <1>2, <1>3 DEF OutOk, SumTerms

LEMMA OneshotSum ==
  ASSUME TypeOK, CtasRight, FlagsRight, CallsTogether, BufferRight,
         NEW r \in Ranks, NEW c \in Ctas, call[r] < Len(program), ReceiveOneshot(r, c)
  PROVE  /\ out'[r][c] = SumTerms(call[r] + 1, c)
         /\ \A t \in Tokens \ {c} : out'[r][t] = out[r][t]
         /\ TokenOf(c) = c /\ c \in Tokens /\ c < NumTokens(r) /\ Kind(r) = "oneshot"
<1> DEFINE cells == {buffer[r][OneshotAddr(reg[r][c].cur, TokenOf(c), s)] : s \in Ranks \ {r}}
<1>1. c \in MainCtas(r) /\ pc[r][c] = "receive" /\ Kind(r) = "oneshot"
  BY ReceiveOneshotMoves
<1>2. TokenOf(c) = c /\ c \in 0 .. NumTokens(r) - 1 /\ c \in Tokens /\ NumTokens(r) \in Nat
  BY <1>1, RunFacts
<1>3. reg[r][c].cur = BufferOf(call[r] + 1)
  BY <1>1, RegIs, CurIs
<1>4. ASSUME NEW s \in Ranks, s # r
      PROVE  buffer[r][OneshotAddr(reg[r][c].cur, TokenOf(c), s)].terms
               = {<<call[r] + 1, s, c>>}
  <2>packet. PICK p \in Packets : IsOneshot(p, r, c, s)
    BY <1>1, <1>2, OneshotPacket
  <2>1. /\ p.call = call[r] + 1 /\ GoesTo(p, r)
        /\ Place(p) = OneshotAddr(BufferOf(call[r] + 1), c, s)
        /\ Content(p) = Cell({<<call[r] + 1, s, c>>}, "other")
    BY <2>packet DEF IsOneshot
  <2>2. ~IsLamportDirty(buffer[r][OneshotAddr(reg[r][c].cur, TokenOf(c), s)])
    BY <1>4 DEF ReceiveOneshot
  <2>3. OneshotAddr(reg[r][c].cur, TokenOf(c), s) = Place(p)
    BY <1>2, <1>3, <2>1
  <2>4. buffer[r][Place(p)] = Content(p)
    BY <2>1, <2>2, <2>3, PollFinds
  <2>5. Content(p).terms = {<<call[r] + 1, s, c>>}
    BY <2>1 DEF Cell
  <2> QED BY <2>3, <2>4, <2>5
<1>5. Input(r, c).terms = {<<call[r] + 1, r, c>>}
  BY InputIs DEF Cell
<1>6. TermsOf(cells \cup {Input(r, c)}) = SumTerms(call[r] + 1, c)
  BY <1>4, <1>5 DEF TermsOf, SumTerms
<1> HIDE DEF cells
<1>7. /\ out'[r][c] = TermsOf(cells \cup {Input(r, c)})
      /\ \A t \in Tokens \ {c} : out'[r][t] = out[r][t]
  <2>1. out' = [out EXCEPT ![r][c] = TermsOf(cells \cup {Input(r, c)})]
    BY <1>2 DEF ReceiveOneshot, cells
  <2>2. out \in [Ranks -> [Tokens -> SUBSET Terms]]
    BY DEF TypeOK
  <2> QED BY <1>2, <2>1, <2>2
<1> QED BY <1>1, <1>2, <1>6, <1>7

LEMMA BroadcastSum ==
  ASSUME TypeOK, CtasRight, FlagsRight, CallsTogether, BufferRight,
         NEW r \in Ranks, NEW c \in Ctas, call[r] < Len(program), ReceiveBroadcast(r, c)
  PROVE  /\ out'[r][TokenOf(c)] = SumTerms(call[r] + 1, TokenOf(c))
         /\ \A t \in Tokens \ {TokenOf(c)} : out'[r][t] = out[r][t]
         /\ TokenOf(c) \in Tokens /\ TokenOf(c) < NumTokens(r)
<1>1. pc[r][c] = "receive" /\ TokenOf(c) \in 0 .. NumTokens(r) - 1
  BY ReceiveBroadcastMoves
<1>2. PICK t \in 0 .. NumTokens(r) - 1 : t = TokenOf(c)
  BY <1>1
<1>3. t \in Tokens /\ NumTokens(r) \in Nat
  BY RunFacts
<1>4. reg[r][c].cur = BufferOf(call[r] + 1)
  BY <1>1, RegIs, CurIs
<1>5. Kind(r) # "oneshot" /\ ~IsLamportDirty(buffer[r][BroadcastAddr(reg[r][c].cur, t)])
  BY <1>2 DEF ReceiveBroadcast
<1>packet. PICK p \in Packets : IsBroadcast(p, r, t)
  BY <1>5, BroadcastPacket
<1>6. /\ p.call = call[r] + 1
      /\ Place(p) = BroadcastAddr(BufferOf(call[r] + 1), t)
      /\ Content(p) = Cell(SumTerms(call[r] + 1, t), "other")
      /\ \A q \in Ranks : GoesTo(p, q)
  BY <1>packet DEF IsBroadcast
<1>7. buffer[r][BroadcastAddr(reg[r][c].cur, t)] = Content(p)
  BY <1>4, <1>5, <1>6, PollFinds
<1>8. Content(p).terms = SumTerms(call[r] + 1, t)
  BY <1>6 DEF Cell
<1>9. /\ out'[r][t] = buffer[r][BroadcastAddr(reg[r][c].cur, t)].terms
      /\ \A u \in Tokens \ {t} : out'[r][u] = out[r][u]
  <2>1. out' = [out EXCEPT ![r][t] = buffer[r][BroadcastAddr(reg[r][c].cur, t)].terms]
    BY <1>2 DEF ReceiveBroadcast
  <2>2. out \in [Ranks -> [Tokens -> SUBSET Terms]]
    BY DEF TypeOK
  <2> QED BY <1>3, <2>1, <2>2
<1> QED BY <1>2, <1>3, <1>7, <1>8, <1>9

\* The end of a poll for the result puts out the token's sum.
LEMMA ReceivePutsOut ==
  ASSUME TypeOK, CtasRight, FlagsRight, CallsTogether, BufferRight,
         NEW r \in Ranks, NEW c \in Ctas, CtaStep(r, c)
  PROVE  \/ pc[r][c] # "receive" /\ out' = out
         \/ /\ pc[r][c] = "receive" /\ TokenOf(c) \in Tokens /\ TokenOf(c) < NumTokens(r)
            /\ out'[r][TokenOf(c)] = SumTerms(call[r] + 1, TokenOf(c))
            /\ \A t \in Tokens \ {TokenOf(c)} : out'[r][t] = out[r][t]
<1>1. call[r] < Len(program)
  BY DEF CtaStep
<1>2. CASE ReceiveOneshot(r, c)
  <2>1. pc[r][c] = "receive"
    BY <1>2 DEF ReceiveOneshot
  <2>2. /\ out'[r][c] = SumTerms(call[r] + 1, c)
        /\ \A t \in Tokens \ {c} : out'[r][t] = out[r][t]
        /\ TokenOf(c) = c /\ c \in Tokens /\ c < NumTokens(r)
    BY <1>1, <1>2, OneshotSum
  <2> QED BY <2>1, <2>2
<1>3. CASE ReceiveBroadcast(r, c)
  <2>1. pc[r][c] = "receive"
    BY <1>3 DEF ReceiveBroadcast
  <2> QED BY <1>1, <1>3, <2>1, BroadcastSum
<1> QED BY <1>2, <1>3
        DEF CtaStep, SendOneshot, ClearAll, Scatter, ClearScatter, ReduceBroadcast,
            ClearBroadcast, NormArrive, JoinFirstKernel, WaitAndUpdate, CanStart

LEMMA StepOut ==
  ASSUME TypeOK, CtasRight, FlagsRight, CallsTogether, BufferRight, OutRight,
         NEW r \in Ranks, NEW c \in Ctas, CtaStep(r, c)
  PROVE  OutOk(r)'
<1>1. Busy(r)
  BY StepMoves
<1>2. PICK b \in ProgramCounters : Moved(r, c, b) /\ Move(r, c, b)
  BY StepMoves
<1>3. /\ call'[r] = call[r] /\ NumTokens(r)' = NumTokens(r) /\ Busy(r)'
      /\ call[r] < Len(program) /\ Kind(r) \in Kinds
  BY <1>1, <1>2, MoveRun, RunFacts
<1>4. ASSUME NEW t \in Tokens
      PROVE  out'[r][t] = IF t < NumTokens(r) /\ HasPutOut(r, t)' THEN SumTerms(call[r] + 1, t)
                          ELSE {}
  <2>1. out[r][t] = IF t < NumTokens(r) /\ HasPutOut(r, t) THEN SumTerms(call[r] + 1, t)
                    ELSE {}
    BY <1>1 DEF OutRight
  <2>2. /\ HasPutOut(r, t) => HasPutOut(r, t)'
        /\ HasPutOut(r, t)' /\ ~HasPutOut(r, t) => pc[r][c] = "receive" /\ TokenOf(c) = t
        /\ pc[r][c] = "receive" /\ c = (IF Kind(r) = "twoshot_norm" THEN MaxTokens + t ELSE t)
             => HasPutOut(r, t)'
    BY <1>1, <1>2, MovePutOut
  <2>3. CASE pc[r][c] # "receive"
    <3>1. out' = out
      BY <2>3, ReceivePutsOut
    <3> QED BY <2>1, <2>2, <2>3, <3>1
  <2>4. CASE pc[r][c] = "receive" /\ t # TokenOf(c)
    <3>1. out'[r][t] = out[r][t]
      BY <2>4, ReceivePutsOut
    <3> QED BY <2>1, <2>2, <2>4, <3>1
  <2>5. CASE pc[r][c] = "receive" /\ t = TokenOf(c)
    <3>1. t < NumTokens(r) /\ out'[r][t] = SumTerms(call[r] + 1, t)
      BY <2>5, ReceivePutsOut
    <3>2. c = IF Kind(r) = "twoshot_norm" THEN MaxTokens + t ELSE t
      <4>1. /\ \A d \in MainCtas(r) : TokenOf(d) = d
            /\ \A d \in NormCtas(r) : d = MaxTokens + TokenOf(d)
            /\ Kind(r) # "twoshot_norm" => NormCtas(r) = {}
        BY <1>3, RunFacts
      <4>2. c \in MainCtas(r) => Kind(r) # "twoshot_norm"
        <5>1. c \in MainCtas(r) => pc[r][c] \in MainSteps(Kind(r))
          BY <1>1 DEF CtasRight
        <5> QED BY <1>3, <2>5, <5>1 DEF MainSteps
      <4>3. c \in MainCtas(r) \cup NormCtas(r)
        BY <1>2 DEF Move
      <4> QED BY <2>5, <4>1, <4>2, <4>3
    <3> QED BY <2>2, <2>5, <3>1, <3>2
  <2> QED BY <2>3, <2>4, <2>5
<1>5. (\A t \in Tokens : out[r][t] = IF t < NumTokens(r) /\ HasPutOut(r, t)
                                     THEN SumTerms(call[r] + 1, t) ELSE {})'
  BY <1>3, <1>4 DEF SumTerms
<1> QED BY <1>3, <1>5 DEF OutOk

LEMMA LaunchOut ==
  ASSUME TypeOK, CtasRight, NEW r \in Ranks, Launch(r)
  PROVE  OutOk(r)'
<1>1. Busy(r)' /\ \A t \in Tokens : ~HasPutOut(r, t)'
  BY LaunchEffect, LaunchPutsOutNothing
<1>2. out'[r] = [t \in Tokens |-> {}]
  BY DEF Launch, TypeOK
<1> QED BY <1>1, <1>2 DEF OutOk

LEMMA CompleteOut ==
  ASSUME TypeOK, CtasRight, OutRight, NEW r \in Ranks, Complete(r)
  PROVE  OutOk(r)'
<1>1. /\ program' = program /\ call[r] < Len(program) /\ Busy(r) /\ ~Busy(r)'
      /\ call'[r] = call[r] + 1
      /\ \A c \in MainCtas(r) \cup NormCtas(r) : pc[r][c] = "done"
  BY CompleteEffect
<1>2. out' = out
  BY DEF Complete
<1>3. NumTokens(r) = program[call[r] + 1].tokens /\ NumTokens(r) \in Nat \ {0}
      /\ MainCtas(r) = 0 .. NumTokens(r) - 1
  BY <1>1, RunFacts
<1>4. ASSUME NEW t \in 0 .. NumTokens(r) - 1
      PROVE  out[r][t] = SumTerms(call[r] + 1, t)
  <2>1. t \in Tokens /\ t < NumTokens(r)
    BY <1>1, <1>3, RunFacts
  <2>2. HasPutOut(r, t)
    <3>1. CASE Kind(r) = "twoshot_norm"
      <4>1. PICK d \in Ctas : d = MaxTokens + t /\ IsNorm(d) /\ TokenOf(d) = t
        BY <2>1, TokenFacts
      <4>2. d \in NormCtas(r)
        BY <2>1, <3>1, <4>1 DEF NormCtas
      <4> QED BY <1>1, <3>1, <4>1, <4>2 DEF HasPutOut
    <3>2. CASE Kind(r) # "twoshot_norm"
      BY <1>1, <1>3, <3>2 DEF HasPutOut
    <3> QED BY <3>1, <3>2
  <2> QED BY <1>1, <2>1, <2>2 DEF OutRight
<1>5. (\A t \in 0 .. program[call[r]].tokens - 1 : out[r][t] = SumTerms(call[r], t))'
  BY <1>1, <1>2, <1>3, <1>4 DEF SumTerms
<1> QED BY <1>1, <1>5 DEF OutOk

LEMMA NextOut ==
  ASSUME TypeOK, CtasRight, FlagsRight, CallsTogether, NetRight, BufferRight, OutRight,
         [Next]_vars
  PROVE  OutRight'
<1>1. program' = program
  BY NextCalls
<1>2. ASSUME NEW s \in Ranks, call'[s] = call[s], pc'[s] = pc[s], out'[s] = out[s]
      PROVE  OutOk(s)'
  <2>1. Busy(s)' <=> Busy(s)
    BY <1>2 DEF Busy
  <2>2. \A t \in Tokens : HasPutOut(s, t)' <=> HasPutOut(s, t)
    BY <1>1, <1>2, PutOutSame
  <2> QED BY <1>1, <1>2, <2>1, <2>2, SameOut, OutEach
<1>3. ASSUME NEW r \in Ranks, Launch(r), NEW s \in Ranks
      PROVE  OutOk(s)'
  <2>1. CASE s = r
    BY <1>3, <2>1, LaunchOut
  <2>2. CASE s # r
    <3>1. out'[s] = out[s]
      BY <1>3, <2>2 DEF Launch, TypeOK
    <3>2. call'[s] = call[s] /\ pc'[s] = pc[s]
      BY <1>3, <2>2, LaunchEffect
    <3> QED BY <1>2, <3>1, <3>2
  <2> QED BY <2>1, <2>2
<1>4. ASSUME NEW r \in Ranks, LaunchNorm(r), NEW s \in Ranks
      PROVE  OutOk(s)'
  <2>1. out' = out
    BY <1>4 DEF LaunchNorm
  <2>2. CASE s = r
    <3>1. call' = call /\ Busy(r) /\ Busy(r)'
      BY <1>4, LaunchNormEffect
    <3>2. \A t \in Tokens : HasPutOut(r, t)' <=> HasPutOut(r, t)
      BY <1>4, LaunchNormPutsOutNothing
    <3> QED BY <1>1, <2>1, <2>2, <3>1, <3>2, SameOut, OutEach
  <2>3. CASE s # r
    BY <1>2, <1>4, <2>1, <2>3, LaunchNormEffect
  <2> QED BY <2>2, <2>3
<1>5. ASSUME NEW r \in Ranks, Complete(r), NEW s \in Ranks
      PROVE  OutOk(s)'
  <2>1. out' = out
    BY <1>5 DEF Complete
  <2>2. CASE s = r
    BY <1>5, <2>2, CompleteOut
  <2>3. CASE s # r
    BY <1>2, <1>5, <2>1, <2>3, CompleteEffect
  <2> QED BY <2>2, <2>3
<1>6. ASSUME NEW r \in Ranks, NEW c \in Ctas, CtaStep(r, c), NEW s \in Ranks
      PROVE  OutOk(s)'
  <2>1. CASE s = r
    BY <1>6, <2>1, StepOut
  <2>2. CASE s # r
    <3>1. out'[s] = out[s]
      BY <1>6, <2>2, StepFrame
    <3>2. call'[s] = call[s] /\ pc'[s] = pc[s]
      BY <1>6, <2>2, StepMoves DEF Moved
    <3> QED BY <1>2, <3>1, <3>2
  <2> QED BY <2>1, <2>2
<1>7. ASSUME NEW m \in net, Deliver(m), NEW s \in Ranks
      PROVE  OutOk(s)'
  BY <1>2, <1>7 DEF Deliver
<1>8. ASSUME Finished \/ UNCHANGED vars, NEW s \in Ranks
      PROVE  OutOk(s)'
  BY <1>2, <1>8 DEF Finished, vars
<1>9. \A s \in Ranks : OutOk(s)'
  BY <1>3, <1>4, <1>5, <1>6, <1>7, <1>8 DEF Next
<1> QED BY <1>9 DEF OutRight, OutOk

-----------------------------------------------------------------------------
\* The types.
LEMMA StoreType ==
  ASSUME TypeOK, NEW p \in Packets, NEW s \in Ranks
  PROVE  Store(p.from, s, Place(p), Content(p))
           \in [from : Ranks, to : Ranks, at : Addresses, value : CellValues \ {Clean}]
<1>1. /\ p.from \in Ranks /\ p.call \in 1 .. Len(program) /\ p.token \in Tokens
      /\ Place(p) \in Addresses
  BY PacketFacts, PlaceIs
<1>2. SumTerms(p.call, p.token) \subseteq Terms /\ {<<p.call, p.from, p.token>>} \subseteq Terms
  BY <1>1 DEF SumTerms, Terms
<1>3. PICK terms \in SUBSET Terms : Content(p) = Cell(terms, "other")
  BY <1>2 DEF Content
<1>4. Cell(terms, "other") \in CellValues /\ Cell(terms, "other") # Clean
  BY DEF Cell, CellValues, Clean
<1> QED BY <1>1, <1>3, <1>4 DEF Store

LEMMA NetType ==
  ASSUME TypeOK, CtasRight, FlagsRight, CallsTogether, BufferRight, [Next]_vars
  PROVE  net' \subseteq [from : Ranks, to : Ranks, at : Addresses, value : CellValues \ {Clean}]
<1>1. net \subseteq [from : Ranks, to : Ranks, at : Addresses, value : CellValues \ {Clean}]
  BY DEF TypeOK
<1>2. CASE net' \subseteq net
  BY <1>1, <1>2
<1>3. ASSUME Sends
      PROVE  net' \subseteq [from : Ranks, to : Ranks, at : Addresses,
                             value : CellValues \ {Clean}]
  <2>1. ASSUME NEW m \in net', m \notin net
        PROVE  m \in [from : Ranks, to : Ranks, at : Addresses, value : CellValues \ {Clean}]
    <3>1. PICK p \in Packets, s \in Ranks : m = Store(p.from, s, Place(p), Content(p))
      BY <1>3, <2>1 DEF Sends
    <3> QED BY <3>1, StoreType
  <2> QED BY <1>1, <2>1
<1>4. ASSUME NEW r \in Ranks, NEW c \in Ctas, CtaStep(r, c)
      PROVE  net' \subseteq net \/ Sends
  <2>1. call[r] < Len(program)
    BY <1>4 DEF CtaStep
  <2>2. CASE SendOneshot(r, c)
    BY <2>1, <2>2, SendOneshotSends
  <2>3. CASE Scatter(r, c)
    BY <2>1, <2>3, ScatterSends
  <2>4. CASE ReduceBroadcast(r, c)
    BY <2>1, <2>4, ReduceBroadcastSends
  <2>5. CASE net' = net
    BY <2>5
  <2> QED BY <1>4, <2>2, <2>3, <2>4, <2>5
          DEF CtaStep, ClearAll, ReceiveOneshot, ClearScatter,
              ClearBroadcast, NormArrive, ReceiveBroadcast, JoinFirstKernel, WaitAndUpdate
<1>5. net' \subseteq net \/ Sends
  <2>1. ASSUME NEW r \in Ranks, Launch(r) \/ LaunchNorm(r) \/ Complete(r)
        PROVE  net' \subseteq net
    BY <2>1 DEF Launch, LaunchNorm, Complete
  <2>2. ASSUME NEW m \in net, Deliver(m)
        PROVE  net' \subseteq net
    BY <2>2 DEF Deliver
  <2>3. ASSUME Finished \/ UNCHANGED vars
        PROVE  net' \subseteq net
    BY <2>3 DEF Finished, vars
  <2> QED BY <1>4, <2>1, <2>2, <2>3 DEF Next
<1> QED BY <1>2, <1>3, <1>5

LEMMA BufferType ==
  ASSUME TypeOK, CallsTogether, NetRight, [Next]_vars
  PROVE  buffer' \in [Ranks -> [Addresses -> CellValues]]
<1>1. CASE buffer' = buffer
  BY <1>1 DEF TypeOK
<1>2. ASSUME NEW r \in Ranks, NEW c \in Ctas, CtaStep(r, c)
      PROVE  buffer' \in [Ranks -> [Addresses -> CellValues]]
  <2>1. buffer' = buffer \/ \E cells : ClearCells(r, cells)
    BY <1>2 DEF CtaStep, SendOneshot, ClearAll, ReceiveOneshot, Scatter, ClearScatter,
         ReduceBroadcast, ClearBroadcast, NormArrive, ReceiveBroadcast, JoinFirstKernel,
         WaitAndUpdate
  <2> QED BY <1>1, <2>1, ClearEffect
<1>3. ASSUME NEW m \in net, Deliver(m)
      PROVE  buffer' \in [Ranks -> [Addresses -> CellValues]]
  BY <1>3, DeliverFacts
<1>4. ASSUME NEW r \in Ranks, Launch(r) \/ LaunchNorm(r) \/ Complete(r)
      PROVE  buffer' = buffer
  BY <1>4 DEF Launch, LaunchNorm, Complete
<1>5. ASSUME Finished \/ UNCHANGED vars
      PROVE  buffer' = buffer
  BY <1>5 DEF Finished, vars
<1> QED BY <1>1, <1>2, <1>3, <1>4, <1>5 DEF Next

LEMMA RegType ==
  ASSUME TypeOK, [Next]_vars
  PROVE  reg' \in [Ranks -> [Ctas -> Layout]]
<1>1. CASE reg' = reg
  BY <1>1 DEF TypeOK
<1>2. ASSUME NEW r \in Ranks, NEW c \in Ctas, CtaStep(r, c)
      PROVE  reg' \in [Ranks -> [Ctas -> Layout]]
  <2>1. reg' = reg \/ ReadFlags(r, c)
    BY <1>2 DEF CtaStep, SendOneshot, ClearAll, ReceiveOneshot, Scatter, ClearScatter,
         ReduceBroadcast, ClearBroadcast, NormArrive, ReceiveBroadcast, JoinFirstKernel,
         WaitAndUpdate
  <2> QED BY <1>1, <2>1, ReadEffect
<1>3. ASSUME NEW m \in net, Deliver(m)
      PROVE  reg' = reg
  BY <1>3 DEF Deliver
<1>4. ASSUME NEW r \in Ranks, Launch(r) \/ LaunchNorm(r) \/ Complete(r)
      PROVE  reg' = reg
  BY <1>4 DEF Launch, LaunchNorm, Complete
<1>5. ASSUME Finished \/ UNCHANGED vars
      PROVE  reg' = reg
  BY <1>5 DEF Finished, vars
<1> QED BY <1>1, <1>2, <1>3, <1>4, <1>5 DEF Next

LEMMA SumType ==
  ASSUME TypeOK, NEW r \in Ranks, call[r] < Len(program), NEW t \in Tokens
  PROVE  SumTerms(call[r] + 1, t) \in SUBSET Terms
<1>1. call[r] + 1 \in 1 .. Len(program)
  BY RunFacts
<1> QED BY <1>1 DEF SumTerms, Terms

LEMMA OutType ==
  ASSUME TypeOK, CtasRight, FlagsRight, CallsTogether, BufferRight, [Next]_vars
  PROVE  out' \in [Ranks -> [Tokens -> SUBSET Terms]]
<1>1. CASE out' = out
  BY <1>1 DEF TypeOK
<1>2. ASSUME NEW r \in Ranks, NEW c \in Ctas, CtaStep(r, c)
      PROVE  out' \in [Ranks -> [Tokens -> SUBSET Terms]]
  <2>1. call[r] < Len(program)
    BY <1>2 DEF CtaStep
  <2>2. CASE pc[r][c] # "receive"
    BY <1>1, <1>2, <2>2, ReceivePutsOut
  <2>3. CASE pc[r][c] = "receive"
    <3>1. PICK t \in Tokens : t = TokenOf(c) /\ out'[r][t] = SumTerms(call[r] + 1, t)
      BY <1>2, <2>3, ReceivePutsOut
    <3>2. PICK x : out' = [out EXCEPT ![r][t] = x]
      BY <1>2, <2>3, <3>1
         DEF CtaStep, SendOneshot, ClearAll, ReceiveOneshot, Scatter, ClearScatter,
             ReduceBroadcast, ClearBroadcast, NormArrive, ReceiveBroadcast, JoinFirstKernel,
             WaitAndUpdate, CanStart
    <3>3. out \in [Ranks -> [Tokens -> SUBSET Terms]]
      BY DEF TypeOK
    <3>4. x = SumTerms(call[r] + 1, t)
      BY <3>1, <3>2, <3>3
    <3>5. x \in SUBSET Terms
      BY <2>1, <3>4, SumType
    <3> QED BY <3>2, <3>3, <3>5
  <2> QED BY <2>2, <2>3
<1>3. ASSUME NEW m \in net, Deliver(m)
      PROVE  out' = out
  BY <1>3 DEF Deliver
<1>4. ASSUME NEW r \in Ranks, Launch(r)
      PROVE  out' \in [Ranks -> [Tokens -> SUBSET Terms]]
  <2>1. [t \in Tokens |-> {}] \in [Tokens -> SUBSET Terms]
    OBVIOUS
  <2> QED BY <1>4, <2>1 DEF Launch, TypeOK
<1>5. ASSUME NEW r \in Ranks, LaunchNorm(r) \/ Complete(r)
      PROVE  out' = out
  BY <1>5 DEF LaunchNorm, Complete
<1>6. ASSUME Finished \/ UNCHANGED vars
      PROVE  out' = out
  BY <1>6 DEF Finished, vars
<1> QED BY <1>1, <1>2, <1>3, <1>4, <1>5, <1>6 DEF Next

LEMMA ArriveFits ==
  ASSUME TypeOK, CtasRight, FlagsRight, NEW r \in Ranks, NEW c \in Arriving(r), Busy(r),
         pc[r][c] \notin ArrivedAt(Kind(r))
  PROVE  flags[r].arrived + 1 \in 0 .. MaxTokens
<1>1. call[r] < Len(program)
  BY DEF CtasRight
<1>2. c \in Ctas
  BY <1>1, ArrivingFacts
<1>3. ~Updated(r)
  BY <1>2, NotUpdated
<1>4. flags[r].arrived = Cardinality(HasArrived(r))
  BY <1>3 DEF FlagsRight
<1>5. HasArrived(r) # Arriving(r)
  BY ArrivedIs
<1>6. /\ Cardinality(HasArrived(r)) \in 0 .. NumTokens(r)
      /\ Cardinality(HasArrived(r)) # NumTokens(r)
  BY <1>1, <1>5, ArrivingFacts
<1>7. NumTokens(r) \in 1 .. MaxTokens /\ MaxTokens \in Nat
  BY <1>1, RunFacts, Sizes
<1> QED BY <1>4, <1>6, <1>7

LEMMA FlagsType ==
  ASSUME TypeOK, CtasRight, FlagsRight, [Next]_vars
  PROVE  flags' \in [Ranks -> [layout : Layout, arrived : 0 .. MaxTokens]]
<1>1. /\ flags \in [Ranks -> [layout : Layout, arrived : 0 .. MaxTokens]]
      /\ \A r \in Ranks : flags[r].layout \in Layout
  BY DEF TypeOK
<1>2. CASE flags' = flags
  BY <1>1, <1>2
<1>3. ASSUME NEW r \in Ranks, CtaArrive(r), flags[r].arrived + 1 \in 0 .. MaxTokens
      PROVE  flags' \in [Ranks -> [layout : Layout, arrived : 0 .. MaxTokens]]
  <2>1. PICK x : x = [flags[r] EXCEPT !.arrived = flags[r].arrived + 1]
    OBVIOUS
  <2>2. flags' = [flags EXCEPT ![r] = x]
    BY <1>1, <1>3, <2>1 DEF CtaArrive
  <2>3. x \in [layout : Layout, arrived : 0 .. MaxTokens]
    <3>1. flags[r] \in [layout : Layout, arrived : 0 .. MaxTokens]
      BY <1>1
    <3> QED BY <1>3, <2>1, <3>1
  <2> QED BY <1>1, <2>2, <2>3
<1>4. ASSUME NEW r \in Ranks, NEW c \in Ctas, CtaStep(r, c)
      PROVE  flags' \in [Ranks -> [layout : Layout, arrived : 0 .. MaxTokens]]
  <2>1. call[r] < Len(program) /\ Busy(r)
    BY <1>4, StepMoves
  <2>2. CASE SendOneshot(r, c)
    <3>1. c \in MainCtas(r) /\ pc[r][c] = "ready" /\ Kind(r) = "oneshot"
      BY <2>1, <2>2, SendOneshotMoves
    <3>2. c \in Arriving(r) /\ pc[r][c] \notin ArrivedAt(Kind(r))
      BY <3>1 DEF Arriving, ArrivedAt, Started
    <3>3. CtaArrive(r)
      BY <2>2 DEF SendOneshot
    <3> QED BY <1>3, <2>1, <3>2, <3>3, ArriveFits
  <2>3. CASE NormArrive(r, c)
    <3>1. c \in NormCtas(r) /\ pc[r][c] = "ready" /\ Kind(r) = "twoshot_norm"
      BY <2>1, <2>3, NormArriveMoves
    <3>2. c \in Arriving(r) /\ pc[r][c] \notin ArrivedAt(Kind(r))
      BY <3>1 DEF Arriving, ArrivedAt
    <3>3. CtaArrive(r)
      BY <2>3 DEF NormArrive
    <3> QED BY <1>3, <2>1, <3>2, <3>3, ArriveFits
  <2>4. CASE ClearBroadcast(r, c)
    <3>1. c \in MainCtas(r) /\ pc[r][c] = "clear1"
      BY <2>1, <2>4, ClearBroadcastMoves
    <3>2. CASE Kind(r) = "twoshot"
      <4>1. c \in Arriving(r) /\ pc[r][c] \notin ArrivedAt(Kind(r))
        BY <3>1, <3>2 DEF Arriving, ArrivedAt
      <4>2. CtaArrive(r)
        BY <2>4, <3>2 DEF ClearBroadcast
      <4> QED BY <1>3, <2>1, <4>1, <4>2, ArriveFits
    <3>3. CASE Kind(r) # "twoshot"
      BY <1>2, <2>4, <3>3 DEF ClearBroadcast
    <3> QED BY <3>2, <3>3
  <2>5. CASE WaitAndUpdate(r, c)
    <3>1. PICK x : x = [layout |-> NextLayout(reg[r][c], Kind(r), NumTokens(r)), arrived |-> 0]
      OBVIOUS
    <3>2. flags' = [flags EXCEPT ![r] = x]
      BY <2>5, <3>1 DEF WaitAndUpdate
    <3>3. NextLayout(reg[r][c], Kind(r), NumTokens(r)) \in Layout
      <4>1. PICK n \in 0 .. Len(program) - 1 : n = call[r]
        BY <2>1, RankFacts
      <4>2. NextLayout(LayoutAfter(n), program[n + 1].kind, program[n + 1].tokens)
              = LayoutAfter(n + 1)
        BY LayoutNext
      <4>3. PICK k \in 0 .. Len(program) : k = n + 1
        BY RankFacts
      <4>4. LayoutAfter(k) \in Layout
        BY LayoutFacts
      <4>5. reg[r][c] = LayoutAfter(n)
        BY <2>5, <4>1, RegIs DEF WaitAndUpdate
      <4>6. Kind(r) = program[n + 1].kind /\ NumTokens(r) = program[n + 1].tokens
        BY <2>1, <4>1, RunFacts
      <4> QED BY <4>2, <4>3, <4>4, <4>5, <4>6
    <3>4. x \in [layout : Layout, arrived : 0 .. MaxTokens]
      BY <3>1, <3>3, Sizes
    <3> QED BY <1>1, <3>2, <3>4
  <2> QED BY <1>2, <1>4, <2>2, <2>3, <2>4, <2>5
          DEF CtaStep, ClearAll, ReceiveOneshot, Scatter, ClearScatter, ReduceBroadcast,
              ReceiveBroadcast, JoinFirstKernel
<1>5. ASSUME NEW m \in net, Deliver(m)
      PROVE  flags' = flags
  BY <1>5 DEF Deliver
<1>6. ASSUME NEW r \in Ranks, Launch(r) \/ LaunchNorm(r) \/ Complete(r)
      PROVE  flags' = flags
  BY <1>6 DEF Launch, LaunchNorm, Complete
<1>7. ASSUME Finished \/ UNCHANGED vars
      PROVE  flags' = flags
  BY <1>7 DEF Finished, vars
<1> QED BY <1>2, <1>4, <1>5, <1>6, <1>7 DEF Next

LEMMA NextType ==
  ASSUME TypeOK, CtasRight, FlagsRight, CallsTogether, NetRight, BufferRight, [Next]_vars
  PROVE  TypeOK'
<1>1. /\ program' = program /\ call' \in [Ranks -> 0 .. Len(program)]
      /\ pc' \in [Ranks -> [Ctas -> ProgramCounters]]
  BY NextCalls
<1>2. program' \in Programs /\ call' \in [Ranks -> 0 .. Len(program')]
  BY <1>1 DEF TypeOK
<1>3. Terms' = Terms /\ CellValues' = CellValues
  BY <1>1 DEF Terms, CellValues
<1>4. flags' \in [Ranks -> [layout : Layout, arrived : 0 .. MaxTokens]]
  BY FlagsType
<1>5. buffer' \in [Ranks -> [Addresses -> CellValues]]
  BY BufferType
<1>6. net' \subseteq [from : Ranks, to : Ranks, at : Addresses, value : CellValues \ {Clean}]
  BY NetType
<1>7. reg' \in [Ranks -> [Ctas -> Layout]]
  BY RegType
<1>8. out' \in [Ranks -> [Tokens -> SUBSET Terms]]
  BY OutType
<1> QED BY <1>1, <1>2, <1>3, <1>4, <1>5, <1>6, <1>7, <1>8 DEF TypeOK

-----------------------------------------------------------------------------
LEMMA InitIInv == Init => IInv
<1> SUFFICES ASSUME Init PROVE IInv
  OBVIOUS
<1>1. /\ program \in Programs
      /\ call = [r \in Ranks |-> 0]
      /\ flags = [r \in Ranks |-> [layout |-> FirstLayout, arrived |-> 0]]
      /\ buffer = [r \in Ranks |-> [a \in Addresses |-> Clean]]
      /\ net = {}
      /\ pc = [r \in Ranks |-> [c \in Ctas |-> "off"]]
      /\ reg = [r \in Ranks |-> [c \in Ctas |-> FirstLayout]]
      /\ out = [r \in Ranks |-> [t \in Tokens |-> {}]]
  BY DEF Init
<1>2. program \in Seq([kind : Kinds, tokens : 1 .. MaxTokens]) /\ Len(program) \in Nat
  <2>1. program \in Seq([kind : Kinds, tokens : 1 .. MaxTokens])
    BY <1>1, CallsAssumption
  <2> QED BY <2>1, LenProperties
<1>3. CellsPerBuffer \in Nat /\ MaxTokens \in Nat \ {0}
  BY CallsAssumption
<1>4. FirstLayout \in Layout
  BY <1>3 DEF FirstLayout, Layout, NumBuffers, NumStages
<1>5. TypeOK
  <2>1. call \in [Ranks -> 0 .. Len(program)]
    BY <1>1, <1>2
  <2>2. flags \in [Ranks -> [layout : Layout, arrived : 0 .. MaxTokens]]
    BY <1>1, <1>3, <1>4
  <2>3. buffer \in [Ranks -> [Addresses -> CellValues]]
    BY <1>1 DEF CellValues
  <2>4. pc \in [Ranks -> [Ctas -> ProgramCounters]]
    BY <1>1 DEF ProgramCounters
  <2>5. reg \in [Ranks -> [Ctas -> Layout]]
    BY <1>1, <1>4
  <2>6. out \in [Ranks -> [Tokens -> SUBSET Terms]]
    BY <1>1
  <2> QED BY <1>1, <2>1, <2>2, <2>3, <2>4, <2>5, <2>6 DEF TypeOK
<1>6. 0 \in Ctas
  BY <1>3, Sizes
<1>7. \A r \in Ranks : ~Busy(r) /\ ~Updated(r) /\ \A c \in Ctas : pc[r][c] = "off"
  BY <1>1, <1>6 DEF Busy, Updated
<1>8. CtasRight
  BY <1>7 DEF CtasRight
<1>9. FlagsRight
  <2>1. \A r \in Ranks : flags[r].layout = FirstLayout /\ flags[r].arrived = 0 /\ call[r] = 0
    BY <1>1
  <2>2. LayoutAfter(0) = FirstLayout
    BY DEF LayoutAfter
  <2> QED BY <1>7, <2>1, <2>2 DEF FlagsRight
<1>10. CallsTogether
  <2>1. \A p \in Packets : p.call > 0
    BY <1>5, PacketFacts
  <2>2. \A r \in Ranks : call[r] = 0
    BY <1>1
  <2>3. \A p \in Packets : p.call \in Nat
    BY <1>5, PacketFacts
  <2>4. \A r \in Ranks, p \in Packets : ~(p.call <= call[r])
    BY <2>1, <2>2, <2>3
  <2> QED BY <2>4 DEF CallsTogether
<1>11. NetRight /\ BufferRight
  BY <1>1 DEF NetRight, BufferRight
<1>12. ClearedRight /\ PolledRight
  BY <1>7 DEF ClearedRight, PolledRight
<1>13. OutRight
  <2>1. \A r \in Ranks : ~(call[r] > 0)
    BY <1>1
  <2> QED BY <1>7, <2>1 DEF OutRight
<1> QED BY <1>5, <1>8, <1>9, <1>10, <1>11, <1>12, <1>13 DEF IInv

LEMMA InvStep == IInv /\ [Next]_vars => IInv'
<1> SUFFICES ASSUME IInv, [Next]_vars PROVE IInv'
  OBVIOUS
<1> USE DEF IInv
<1>1. TypeOK'
  BY NextType
<1>2. CtasRight'
  BY NextCtas
<1>3. FlagsRight'
  BY NextFlags
<1>4. CallsTogether'
  BY NextTogether
<1>5. NetRight'
  BY NextNet
<1>6. BufferRight'
  BY NextBuffer
<1>7. ClearedRight'
  BY NextCleared
<1>8. PolledRight'
  BY NextPolled
<1>9. OutRight'
  BY NextOut
<1> QED BY <1>1, <1>2, <1>3, <1>4, <1>5, <1>6, <1>7, <1>8, <1>9

\* The invariant of the run: types; where each CTA can be; what the flags hold;
\* how far the ranks are apart; what is under way and what a buffer holds; what
\* stays cleared, what stays polled; what was put out
\* (oneshotAllreduceFusionKernel, twoshotAllreduceKernel, rmsNormLamport and
\* LamportFlags).
THEOREM InductiveInvariant == Spec => []IInv
<1> QED BY InitIInv, InvStep, PTL DEF Spec

\* What a rank puts out is the sum of the inputs of that call, one of each
\* rank, for any number of ranks, tokens and calls of any kinds and sizes.
THEOREM ResultCorrectHolds == Spec => []ResultCorrect
<1>1. IInv => ResultCorrect
  <2> SUFFICES ASSUME IInv, NEW r \in Ranks
               PROVE  IF Idle(r)
                        THEN call[r] > 0 => \A t \in 0 .. program[call[r]].tokens - 1 :
                                              out[r][t] = {<<call[r], s, t>> : s \in Ranks}
                        ELSE \A t \in Tokens :
                               out[r][t] \in {{}, {<<call[r] + 1, s, t>> : s \in Ranks}}
    BY DEF ResultCorrect
  <2>1. CtasRight /\ OutRight
    BY DEF IInv
  <2>2. Idle(r) <=> ~Busy(r)
    <3>1. 0 \in Ctas
      BY Sizes
    <3> QED BY <2>1, <3>1 DEF Idle, Busy, CtasRight
  <2>3. CASE Idle(r)
    BY <2>1, <2>2, <2>3 DEF OutRight, SumTerms
  <2>4. CASE ~Idle(r)
    BY <2>1, <2>2, <2>4 DEF OutRight, SumTerms
  <2> QED BY <2>3, <2>4
<1> QED BY <1>1, InductiveInvariant, PTL

\* In between two calls every cell that holds the data of a call that is over
\* is one the flags name for clearing: what clearDirtyLamportBuf relies on.
THEOREM DirtIsRecordedHolds == Spec => []DirtIsRecorded
<1>1. IInv => DirtIsRecorded
  <2> SUFFICES ASSUME IInv, NEW r \in Ranks, Idle(r), NEW a \in Addresses,
                      NEW term \in buffer[r][a].terms, CallOf(term) <= call[r]
               PROVE  a \in Recorded(r)
    BY DEF DirtIsRecorded
  <2>1. TypeOK /\ CtasRight /\ FlagsRight /\ BufferRight
    BY DEF IInv
  <2>2. buffer[r][a] # Clean
    BY DEF Clean, Cell
  <2>3. PICK p \in Packets : p.call >= call[r] /\ Place(p) = a /\ buffer[r][a] = Content(p)
    BY <2>1, <2>2 DEF BufferRight
  <2>4. CallOf(term) = p.call
    <3>1. term \in IF p.way = "broadcast" THEN SumTerms(p.call, p.token)
                   ELSE {<<p.call, p.from, p.token>>}
      BY <2>3 DEF Content, Cell
    <3> QED BY <3>1 DEF SumTerms, CallOf
  <2>5. p.call = call[r]
    BY <2>1, <2>3, <2>4, PacketFacts, RankFacts
  <2>6. flags[r].layout = LayoutAfter(p.call)
    <3>1. 0 \in Ctas
      BY Sizes
    <3>2. ~Updated(r)
      BY <3>1 DEF Idle, Updated, Busy
    <3> QED BY <2>1, <2>5, <3>2, FlagsAre
  <2>7. PICK stage \in 0 .. 1 :
          /\ stage < LayoutAfter(p.call).stages
          /\ \E i \in 0 .. LayoutAfter(p.call).clear[stage] - 1 :
               Place(p) = StageAddr(LayoutAfter(p.call).stages, LayoutAfter(p.call).dirty, stage)
                            + i
    BY <2>1, PlaceNamed
  <2>8. LayoutAfter(p.call).stages \in 0 .. 2
    <3>1. PICK n \in 0 .. Len(program) : n = p.call
      BY <2>1, PacketFacts
    <3>2. LayoutAfter(n) \in Layout
      BY <2>1, LayoutFacts
    <3> QED BY <3>1, <3>2 DEF Layout, NumStages
  <2>9. stage \in 0 .. LayoutAfter(p.call).stages - 1
    BY <2>7, <2>8
  <2> QED BY <2>3, <2>6, <2>7, <2>9 DEF Recorded
<1> QED BY <1>1, InductiveInvariant, PTL

\* A store lands only in a cell that holds the sentinel.
THEOREM StoreFindsSentinelHolds == Spec => StoreFindsSentinel
<1>1. IInv => \A m \in net \ net' : IsLamportDirty(buffer[m.to][m.at])
  BY DEF IInv, NetRight, IsLamportDirty, Clean, Cell
<1>2. IInv /\ [Next]_vars => [\A m \in net \ net' : IsLamportDirty(buffer[m.to][m.at])]_vars
  BY <1>1
<1> QED BY <1>2, InductiveInvariant, PTL DEF Spec, StoreFindsSentinel
=============================================================================
