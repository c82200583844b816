----------------------- MODULE CustomAllreduce_proofs -----------------------
(***************************************************************************)
(* Proofs about the vLLM custom all-reduce, on the device and on the host. *)
(*                                                                         *)
(* MultiGpuBarrier, for any ranks and any width of the counters: the       *)
(* inductive invariant IInv, and from it that nobody leaves a barrier      *)
(* early, that no signal is lost, and that the kernel's code implements    *)
(* RankBarrier.                                                            *)
(*                                                                         *)
(* GraphBuffers, for any ranks, addresses, capacity and length of the      *)
(* script: the inductive invariant TableInv, and from it that the tables   *)
(* of the ranks agree, that an eager call finds the entry of its buffer    *)
(* and, when no buffer is registered between a capture and the exchange    *)
(* after it, that a captured kernel finds the inputs of its own call.      *)
(*                                                                         *)
(* CrossDeviceReduce, for any ranks, sizes, threads and blocks and any mix *)
(* of 1-stage and 2-stage calls: the inductive invariant ReduceInv, and    *)
(* from it the results and the order in which the shared buffers are       *)
(* overwritten.                                                            *)
(***************************************************************************)
EXTENDS MultiGpuBarrier, GraphBuffers, CrossDeviceReduce, FiniteSetTheorems, SequenceTheorems, TLAPS

\* Arithmetic of the wrapping counter: the parity alternates, and a value
\* differs from the one one and two rounds before it.
LEMMA IncFacts ==
  ASSUME NEW v \in Flag
  PROVE  /\ Inc(v) \in Flag
         /\ Inc(v) # v
         /\ Inc(Inc(v)) # v
         /\ SetOf(v) \in Sets
         /\ SetOf(Inc(v)) # SetOf(v)
         /\ v # NoStore
<1>1. Inc(v) \in Flag /\ Inc(v) # v /\ Inc(Inc(v)) # v /\ v # NoStore
  BY WrapAssumption DEF Flag, Inc, NoStore
<1>2. SetOf(v) \in Sets
  BY WrapAssumption DEF Flag, SetOf, Sets
<1>3. SetOf(Inc(v)) # SetOf(v)
  BY WrapAssumption DEF Flag, SetOf, Inc
<1> QED BY <1>1, <1>2, <1>3

\* Type correctness is inductive on its own.
LEMMA TypeInit == Init => TypeOK
BY WrapAssumption DEF Init, TypeOK, Flag, Sets, NoStore

LEMMA TypeStep == TypeOK /\ [Next]_vars => TypeOK'
<1> SUFFICES ASSUME TypeOK, [Next]_vars PROVE TypeOK'
  OBVIOUS
<1>1. CASE UNCHANGED vars
  BY <1>1 DEF TypeOK, vars
<1>2. ASSUME NEW r \in Ranks, Begin(r) PROVE TypeOK'
  BY <1>2 DEF TypeOK, Begin
<1>3. ASSUME NEW r \in Ranks, Join(r) PROVE TypeOK'
  BY <1>3 DEF TypeOK, Join
<1>4. ASSUME NEW r \in Ranks, NEW t \in Ranks, Signal(r, t) PROVE TypeOK'
  <2> DEFINE val == Inc(self_counter[r][t])
  <2>1. self_counter[r][t] \in Flag
    BY DEF TypeOK
  <2>2. val \in Flag /\ SetOf(val) \in Sets
    BY <2>1, IncFacts
  <2> QED BY <1>4, <2>2 DEF TypeOK, Signal
<1>5. ASSUME NEW r \in Ranks, NEW t \in Ranks, Observe(r, t) PROVE TypeOK'
  BY <1>5 DEF TypeOK, Observe
<1>6. ASSUME NEW r \in Ranks, NEW t \in Ranks, NEW k \in Sets, Deliver(r, k, t)
      PROVE  TypeOK'
  <2>1. flight[r][k][t] \in Flag
    BY <1>6 DEF TypeOK, Deliver
  <2> QED BY <1>6, <2>1 DEF TypeOK, Deliver
<1>7. CASE Finished
  BY <1>7 DEF TypeOK, vars, Finished
<1> QED BY <1>1, <1>2, <1>3, <1>4, <1>5, <1>6, <1>7 DEF Next

\* Every variable stays in its type whatever the interleaving; in
\* particular the counters stay in the range of FlagType when they wrap.
THEOREM TypeCorrect == Spec => []TypeOK
<1>1. Init => TypeOK
  BY TypeInit
<1>2. TypeOK /\ [Next]_vars => TypeOK'
  BY TypeStep
<1> QED BY <1>1, <1>2, PTL DEF Spec

-----------------------------------------------------------------------------
LEMMA InvInit == Init => IInv
<1> SUFFICES ASSUME Init PROVE IInv
  OBVIOUS
<1>1. TypeOK
  BY TypeInit
<1>2. RoundsOrdered /\ NoEarlyPass /\ CountersAgree /\ PreviousPosted
  BY DEF Init, RoundsOrdered, NoEarlyPass, CountersAgree, PreviousPosted
<1>3. LastPosted
  <2>1. 0 \in Flag
    BY WrapAssumption DEF Flag
  <2>2. SetOf(0) \in Sets /\ SetOf(Inc(0)) \in Sets /\ Inc(0) # 0
    BY <2>1, IncFacts
  <2> QED BY <2>2 DEF Init, LastPosted, Posted
<1>4. FlightFresh
  BY DEF Init, FlightFresh
<1> QED BY <1>1, <1>2, <1>3, <1>4 DEF IInv

\* Begin and Join move the counts of a block only.
LEMMA BeginStep ==
  ASSUME IInv, TypeOK', NEW a \in Ranks, Begin(a)
  PROVE  IInv'
<1>1. RoundsOrdered'
  BY DEF IInv, TypeOK, Begin, RoundsOrdered
<1> QED BY <1>1 DEF IInv, Begin, NoEarlyPass, CountersAgree, LastPosted,
                    PreviousPosted, FlightFresh, Posted

LEMMA JoinStep ==
  ASSUME IInv, TypeOK', NEW a \in Ranks, Join(a)
  PROVE  IInv'
<1>1. RoundsOrdered'
  BY DEF IInv, TypeOK, Join, RoundsOrdered
<1> QED BY <1>1 DEF IInv, Join, NoEarlyPass, CountersAgree, LastPosted,
                    PreviousPosted, FlightFresh, Posted

\* A store that becomes visible changes no Posted value.
LEMMA DeliverStep ==
  ASSUME IInv, TypeOK', NEW a \in Ranks, NEW b \in Ranks, NEW j \in Sets,
         Deliver(a, j, b)
  PROVE  IInv'
<1>1. \A r, t \in Ranks, k \in Sets : Posted(r, k, t)' = Posted(r, k, t)
  BY DEF IInv, TypeOK, Deliver, Posted
<1>2. FlightFresh'
  BY DEF IInv, TypeOK, Deliver, FlightFresh
<1>3. LastPosted' /\ PreviousPosted'
  <2>1. \A r, t \in Ranks : /\ SetOf(self_counter[t][r]) \in Sets
                            /\ SetOf(Inc(self_counter[t][r])) \in Sets
    BY IncFacts DEF IInv, TypeOK
  <2>2. self_counter' = self_counter /\ entered' = entered
    BY DEF Deliver
  <2> QED BY <1>1, <2>1, <2>2 DEF IInv, LastPosted, PreviousPosted
<1> QED BY <1>2, <1>3 DEF IInv, Deliver, RoundsOrdered, NoEarlyPass, CountersAgree

\* What the value a thread sees tells it: its partner has entered the round,
\* and the store the value came from is not in flight any more.
LEMMA ObserveFacts ==
  ASSUME IInv, NEW a \in Ranks, NEW b \in Ranks, Observe(a, b)
  PROVE  /\ entered[a][b] = passed[a][b] + 1
         /\ entered[a][b] <= entered[b][a]
         /\ flight[a][SetOf(self_counter[a][b])][b] = NoStore
<1> DEFINE c == self_counter[a][b]
           d == self_counter[b][a]
<1>1. /\ c \in Flag
      /\ d \in Flag
      /\ entered[a][b] \in Nat
      /\ entered[b][a] \in Nat
      /\ passed[a][b] \in Nat
      /\ passed[b][a] \in Nat
  BY DEF IInv, TypeOK
<1>2. /\ entered[a][b] = passed[a][b] + 1
      /\ passed[a][b] <= entered[b][a]
      /\ passed[b][a] <= entered[a][b]
      /\ entered[b][a] <= passed[b][a] + 1
  BY <1>1 DEF IInv, RoundsOrdered, NoEarlyPass, Observe
<1>3. peer_counter[a][SetOf(c)][b] = c /\ SetOf(c) \in Sets
  BY <1>1, IncFacts DEF Observe
<1>4. CASE entered[b][a] < entered[a][b]
  \* The partner is a round behind: its other set would have to hold its
  \* next value already.
  <2>1. entered[a][b] = entered[b][a] + 1
    BY <1>1, <1>2, <1>4
  <2>2. c = Inc(d)
    BY <2>1 DEF IInv, CountersAgree
  <2>3. Posted(a, SetOf(c), b) # c
    BY <2>2 DEF IInv, LastPosted
  <2>4. flight[a][SetOf(c)][b] # NoStore
    BY <1>3, <2>3 DEF Posted
  <2>5. SetOf(c) # SetOf(d)
    BY <1>1, <2>2, IncFacts
  <2>6. passed[a][b] + 1 < entered[b][a]
    BY <1>3, <2>4, <2>5 DEF IInv, FlightFresh
  <2> QED BY <1>1, <1>2, <1>4, <2>6
<1>5. CASE entered[a][b] <= entered[b][a]
  <2>1. Posted(a, SetOf(c), b) = c
    <3>1. CASE entered[a][b] = entered[b][a]
      BY <3>1 DEF IInv, CountersAgree, LastPosted
    <3>2. CASE entered[b][a] = entered[a][b] + 1
      BY <3>2 DEF IInv, PreviousPosted
    <3> QED BY <1>1, <1>2, <1>5, <3>1, <3>2
  <2>2. flight[a][SetOf(c)][b] = NoStore
    BY <1>3, <2>1 DEF IInv, FlightFresh, Posted
  <2> QED BY <1>2, <1>5, <2>2
<1> QED BY <1>1, <1>4, <1>5

LEMMA ObserveStep ==
  ASSUME IInv, TypeOK', NEW a \in Ranks, NEW b \in Ranks, Observe(a, b)
  PROVE  IInv'
<1>1. /\ entered[a][b] = passed[a][b] + 1
      /\ entered[a][b] <= entered[b][a]
      /\ flight[a][SetOf(self_counter[a][b])][b] = NoStore
  BY ObserveFacts
<1>2. RoundsOrdered' /\ NoEarlyPass'
  BY <1>1 DEF IInv, TypeOK, Observe, RoundsOrdered, NoEarlyPass
<1>3. FlightFresh'
  <2> SUFFICES ASSUME NEW r \in Ranks, NEW t \in Ranks, NEW k \in Sets,
                      flight[r][k][t] # NoStore
               PROVE  IF k = SetOf(self_counter[t][r])
                        THEN passed'[r][t] < entered[t][r]
                        ELSE passed'[r][t] + 1 < entered[t][r]
    BY DEF Observe, FlightFresh, IInv
  <2>1. CASE r = a /\ t = b
    <3> DEFINE c == self_counter[a][b]
               d == self_counter[b][a]
    <3>1. /\ c \in Flag
          /\ d \in Flag
          /\ entered[a][b] \in Nat
          /\ entered[b][a] \in Nat
          /\ passed[a][b] \in Nat
          /\ passed[b][a] \in Nat
      BY DEF IInv, TypeOK
    <3>2. k # SetOf(c)
      BY <1>1, <2>1
    <3>3. passed'[a][b] = entered[a][b]
      BY <1>1 DEF Observe, IInv, TypeOK
    <3>4. CASE entered[a][b] = entered[b][a]
      \* The flight would be one for a round that is over.
      <4>1. c = d
        BY <3>4 DEF IInv, CountersAgree
      <4>2. passed[a][b] + 1 < entered[b][a]
        BY <2>1, <3>2, <4>1 DEF IInv, FlightFresh
      <4> QED BY <1>1, <3>1, <3>4, <4>2
    <3>5. CASE entered[b][a] = entered[a][b] + 1
      <4>1. d = Inc(c)
        BY <3>5 DEF IInv, CountersAgree
      <4>2. k = SetOf(d)
        BY <3>1, <3>2, <4>1, IncFacts DEF Sets
      <4> QED BY <2>1, <3>1, <3>3, <3>5, <4>2
    <3>6. entered[b][a] <= entered[a][b] + 1
      BY <3>1 DEF IInv, RoundsOrdered, NoEarlyPass
    <3> QED BY <1>1, <3>1, <3>4, <3>5, <3>6
  <2>2. CASE ~(r = a /\ t = b)
    <3>1. passed'[r][t] = passed[r][t]
      BY <2>2 DEF Observe, IInv, TypeOK
    <3> QED BY <3>1 DEF IInv, FlightFresh
  <2> QED BY <2>1, <2>2
<1> QED BY <1>2, <1>3 DEF IInv, Observe, CountersAgree, LastPosted,
                          PreviousPosted, Posted

\* A thread signals only when its last round is over for it, so the location
\* it stores to is free: the previous store to it was seen by its partner.
LEMMA SignalFacts ==
  ASSUME IInv, NEW a \in Ranks, NEW b \in Ranks, Signal(a, b)
  PROVE  LET k == SetOf(Inc(self_counter[a][b]))
         IN  /\ passed[a][b] = entered[a][b]
             /\ entered[a][b] <= entered[b][a]
             /\ entered[b][a] <= entered[a][b] + 1
             /\ entered[a][b] <= passed[b][a] + 1
             /\ flight[b][k][a] = NoStore
             /\ peer_counter[b][k][a] # Inc(self_counter[a][b])
<1> DEFINE c == self_counter[a][b]
           k == SetOf(Inc(c))
<1>1. /\ c \in Flag
      /\ \A r, t \in Ranks : /\ entered[r][t] \in Nat
                             /\ passed[r][t] \in Nat
      /\ arrived[a] \in Nat
      /\ left[a] \in Nat
  BY DEF IInv, TypeOK
<1>2. /\ passed[a][b] = entered[a][b]
      /\ entered[a][b] <= entered[b][a]
      /\ entered[b][a] <= entered[a][b] + 1
      /\ entered[a][b] <= passed[b][a] + 1
  BY <1>1 DEF IInv, RoundsOrdered, NoEarlyPass, Signal
<1>3. k \in Sets /\ k # SetOf(c)
  BY <1>1, IncFacts
<1>4. flight[b][k][a] = NoStore
  BY <1>1, <1>2, <1>3 DEF IInv, FlightFresh
<1>5. peer_counter[b][k][a] # Inc(c)
  BY <1>4 DEF IInv, LastPosted, Posted
<1> QED BY <1>2, <1>4, <1>5

LEMMA SignalStep ==
  ASSUME IInv, TypeOK', NEW a \in Ranks, NEW b \in Ranks, Signal(a, b)
  PROVE  IInv'
<1> DEFINE c == self_counter[a][b]
           d == self_counter[b][a]
           val == Inc(c)
           k0 == SetOf(val)
           After(r, k, t) == IF flight'[r][k][t] = NoStore
                               THEN peer_counter'[r][k][t]
                               ELSE flight'[r][k][t]
<1>1. /\ c \in Flag
      /\ d \in Flag
      /\ \A r, t \in Ranks : entered[r][t] \in Nat /\ passed[r][t] \in Nat
  BY DEF IInv, TypeOK
<1>2. /\ passed[a][b] = entered[a][b]
      /\ entered[a][b] <= entered[b][a]
      /\ entered[b][a] <= entered[a][b] + 1
      /\ entered[a][b] <= passed[b][a] + 1
      /\ flight[b][k0][a] = NoStore
      /\ peer_counter[b][k0][a] # val
  BY SignalFacts
<1>3. /\ val \in Flag
      /\ val # NoStore
      /\ Inc(val) # c
      /\ k0 \in Sets
      /\ SetOf(c) \in Sets
      /\ SetOf(c) # k0
      /\ SetOf(Inc(val)) \in Sets
      /\ SetOf(Inc(val)) # k0
      /\ SetOf(Inc(val)) = SetOf(c)
  <2>1. val \in Flag /\ Inc(val) # c /\ SetOf(c) \in Sets /\ SetOf(c) # k0
    BY <1>1, IncFacts
  <2>2. val # NoStore /\ k0 \in Sets /\ SetOf(Inc(val)) # k0 /\ Inc(val) \in Flag
    BY <2>1, IncFacts
  <2>3. SetOf(Inc(val)) \in Sets
    BY <2>2, IncFacts
  <2> QED BY <2>1, <2>2, <2>3 DEF Sets
\* What the step does to the thread, and that it does nothing else.
<1>4. /\ entered'[a][b] = entered[a][b] + 1
      /\ self_counter'[a][b] = val
      /\ flight'[b][k0][a] = val
      /\ \A r, t \in Ranks : ~(r = a /\ t = b) =>
           /\ entered'[r][t] = entered[r][t]
           /\ self_counter'[r][t] = self_counter[r][t]
      /\ \A r, t \in Ranks, k \in Sets : ~(r = b /\ t = a /\ k = k0) =>
           flight'[r][k][t] = flight[r][k][t]
      /\ passed' = passed
      /\ peer_counter' = peer_counter
      /\ arrived' = arrived
      /\ left' = left
  BY <1>3 DEF IInv, TypeOK, Signal
<1>5. /\ After(b, k0, a) = val
      /\ \A r, t \in Ranks, k \in Sets : ~(r = b /\ t = a /\ k = k0) =>
           After(r, k, t) = Posted(r, k, t)
  BY <1>3, <1>4 DEF Posted
<1>6. RoundsOrdered'
  BY <1>1, <1>2, <1>4 DEF IInv, TypeOK, RoundsOrdered, Signal
<1>7. NoEarlyPass'
  BY <1>1, <1>4 DEF IInv, NoEarlyPass
<1>8. CountersAgree'
  <2>1. entered[a][b] = entered[b][a] => c = d
    BY DEF IInv, CountersAgree
  <2>2. entered[b][a] = entered[a][b] + 1 => d = val
    BY DEF IInv, CountersAgree
  <2> SUFFICES ASSUME NEW r \in Ranks, NEW t \in Ranks
               PROVE  /\ entered'[r][t] = entered'[t][r]
                           => self_counter'[r][t] = self_counter'[t][r]
                      /\ entered'[t][r] = entered'[r][t] + 1
                           => self_counter'[t][r] = Inc(self_counter'[r][t])
    BY DEF CountersAgree, Inc
  <2>3. CASE r = a /\ t = b
    <3>1. CASE a = b
      BY <1>1, <1>4, <2>3, <3>1
    <3>2. CASE a # b
      <4>1. entered'[b][a] = entered[b][a] /\ self_counter'[b][a] = d
        BY <1>4, <3>2
      <4>2. entered'[a][b] = entered'[b][a] => val = d
        BY <1>1, <1>2, <1>4, <2>2, <4>1
      <4>3. entered'[b][a] # entered'[a][b] + 1
        BY <1>1, <1>2, <1>4, <4>1
      <4> QED BY <1>4, <2>3, <4>1, <4>2, <4>3
    <3> QED BY <3>1, <3>2
  <2>4. CASE r = b /\ t = a
    <3>1. CASE a = b
      BY <1>1, <1>4, <2>4, <3>1
    <3>2. CASE a # b
      <4>1. entered'[b][a] = entered[b][a] /\ self_counter'[b][a] = d
        BY <1>4, <3>2
      <4>2. entered'[a][b] = entered'[b][a] => val = d
        BY <1>1, <1>2, <1>4, <2>2, <4>1
      <4>3. entered'[a][b] = entered'[b][a] + 1 => val = Inc(d)
        BY <1>1, <1>2, <1>4, <2>1, <4>1
      <4> QED BY <1>4, <2>4, <4>1, <4>2, <4>3
    <3> QED BY <3>1, <3>2
  <2>5. CASE ~(r = a /\ t = b) /\ ~(r = b /\ t = a)
    BY <1>4, <2>5 DEF IInv, CountersAgree
  <2> QED BY <2>3, <2>4, <2>5
<1>9. LastPosted'
  <2> SUFFICES ASSUME NEW r \in Ranks, NEW t \in Ranks
               PROVE  LET e == self_counter'[t][r]
                      IN  /\ After(r, SetOf(e), t) = e
                          /\ After(r, SetOf(Inc(e)), t) # Inc(e)
    BY DEF LastPosted, Posted, SetOf, Inc
  <2>1. CASE r = b /\ t = a
    <3>1. Posted(b, SetOf(c), a) = c
      BY DEF IInv, LastPosted
    <3> QED BY <1>3, <1>4, <1>5, <2>1, <3>1
  <2>2. CASE ~(r = b /\ t = a)
    <3>1. self_counter[t][r] \in Flag
      BY DEF IInv, TypeOK
    <3>2. /\ SetOf(self_counter[t][r]) \in Sets
          /\ SetOf(Inc(self_counter[t][r])) \in Sets
      BY <3>1, IncFacts
    <3> QED BY <1>4, <1>5, <2>2, <3>2 DEF IInv, LastPosted
  <2> QED BY <2>1, <2>2
<1>10. PreviousPosted'
  <2> SUFFICES ASSUME NEW r \in Ranks, NEW t \in Ranks,
                      entered'[t][r] = entered'[r][t] + 1
               PROVE  After(r, SetOf(self_counter'[r][t]), t)
                        = self_counter'[r][t]
    BY DEF PreviousPosted, Posted, SetOf
  <2>1. CASE r = b /\ t = a
    <3>1. a # b
      BY <1>1, <1>4, <2>1
    <3>2. entered[a][b] = entered[b][a]
      BY <1>1, <1>4, <2>1, <3>1
    <3>3. c = d
      BY <3>2 DEF IInv, CountersAgree
    <3>4. Posted(b, SetOf(c), a) = c
      BY DEF IInv, LastPosted
    <3> QED BY <1>3, <1>4, <1>5, <2>1, <3>1, <3>3, <3>4
  <2>2. CASE r = a /\ t = b /\ a # b
    BY <1>1, <1>2, <1>4, <2>2
  <2>3. CASE ~(r = b /\ t = a) /\ ~(r = a /\ t = b)
    <3>1. self_counter[r][t] \in Flag
      BY DEF IInv, TypeOK
    <3>2. SetOf(self_counter[r][t]) \in Sets
      BY <3>1, IncFacts
    <3> QED BY <1>4, <1>5, <2>3, <3>2 DEF IInv, PreviousPosted
  <2> QED BY <2>1, <2>2, <2>3
<1>11. FlightFresh'
  <2> SUFFICES ASSUME NEW r \in Ranks, NEW t \in Ranks, NEW k \in Sets,
                      flight'[r][k][t] # NoStore
               PROVE  /\ peer_counter[r][k][t] # flight'[r][k][t]
                      /\ IF k = SetOf(self_counter'[t][r])
                           THEN passed[r][t] < entered'[t][r]
                           ELSE passed[r][t] + 1 < entered'[t][r]
    BY <1>4 DEF FlightFresh
  <2>1. CASE r = b /\ t = a /\ k = k0
    <3>1. passed[b][a] <= entered[a][b]
      BY DEF IInv, NoEarlyPass
    <3> QED BY <1>1, <1>2, <1>4, <2>1, <3>1
  <2>2. CASE r = b /\ t = a /\ k # k0
    <3>1. flight[b][k][a] # NoStore /\ k = SetOf(c)
      BY <1>3, <1>4, <2>2 DEF Sets
    <3>2. passed[b][a] < entered[a][b] /\ peer_counter[b][k][a] # flight[b][k][a]
      BY <3>1 DEF IInv, FlightFresh
    <3> QED BY <1>1, <1>4, <2>2, <3>2
  <2>3. CASE ~(r = b /\ t = a)
    BY <1>4, <2>3 DEF IInv, FlightFresh
  <2> QED BY <2>1, <2>2, <2>3
<1> QED BY <1>6, <1>7, <1>8, <1>9, <1>10, <1>11 DEF IInv

LEMMA InvStep == IInv /\ [Next]_vars => IInv'
<1> SUFFICES ASSUME IInv, [Next]_vars PROVE IInv'
  OBVIOUS
<1>1. TypeOK'
  BY TypeStep DEF IInv
<1>2. CASE UNCHANGED vars
  BY <1>2 DEF vars, IInv, TypeOK, RoundsOrdered, NoEarlyPass, CountersAgree,
              LastPosted, PreviousPosted, FlightFresh, Posted
<1>3. CASE Finished
  BY <1>3 DEF Finished, vars, IInv, TypeOK, RoundsOrdered, NoEarlyPass,
              CountersAgree, LastPosted, PreviousPosted, FlightFresh, Posted
<1>4. ASSUME NEW r \in Ranks, Begin(r) PROVE IInv'
  BY <1>1, <1>4, BeginStep
<1>5. ASSUME NEW r \in Ranks, Join(r) PROVE IInv'
  BY <1>1, <1>5, JoinStep
<1>6. ASSUME NEW r \in Ranks, NEW t \in Ranks, Signal(r, t) PROVE IInv'
  BY <1>1, <1>6, SignalStep
<1>7. ASSUME NEW r \in Ranks, NEW t \in Ranks, Observe(r, t) PROVE IInv'
  BY <1>1, <1>7, ObserveStep
<1>8. ASSUME NEW r \in Ranks, NEW t \in Ranks, NEW k \in Sets, Deliver(r, k, t)
      PROVE  IInv'
  BY <1>1, <1>8, DeliverStep
<1> QED BY <1>2, <1>3, <1>4, <1>5, <1>6, <1>7, <1>8 DEF Next

\* The strengthening is an invariant of the barrier.
THEOREM InductiveInvariant == Spec => []IInv
<1> QED BY InvInit, InvStep, PTL DEF Spec

-----------------------------------------------------------------------------
\* For any number of ranks and with the counter wrapping around, no thread
\* leaves the spin loop of a round its partner has not entered.
THEOREM NoEarlyPassHolds == Spec => []NoEarlyPass
<1>1. IInv => NoEarlyPass
  BY DEF IInv
<1> QED BY <1>1, InductiveInvariant, PTL

LEMMA IInvMeeting == IInv => Meeting
<1> SUFFICES ASSUME IInv, NEW r \in Ranks, NEW s \in Ranks
             PROVE  left[r] <= arrived[s]
  BY DEF Meeting
<1>1. /\ left[r] <= passed[r][s]
      /\ passed[r][s] <= entered[s][r]
      /\ entered[s][r] <= arrived[s]
  BY DEF IInv, RoundsOrdered, NoEarlyPass
<1> QED BY <1>1 DEF IInv, TypeOK

\* The barrier holds for whole blocks: what a rank does after its n-th
\* barrier comes after everything all ranks did before theirs.
THEOREM MeetingHolds == Spec => []Meeting
<1> QED BY IInvMeeting, InductiveInvariant, PTL

LEMMA IInvNoLostSignal == IInv => NoLostSignal
<1> SUFFICES ASSUME IInv, NEW r \in Ranks, NEW t \in Ranks,
                    passed[r][t] < entered[r][t],
                    entered[r][t] <= entered[t][r]
             PROVE  Posted(r, SetOf(self_counter[r][t]), t) = self_counter[r][t]
  BY DEF NoLostSignal
<1>1. CASE entered[t][r] = entered[r][t]
  BY <1>1 DEF IInv, CountersAgree, LastPosted
<1>2. CASE entered[t][r] = entered[r][t] + 1
  BY <1>2 DEF IInv, PreviousPosted
<1>3. entered[t][r] <= entered[r][t] + 1
  BY DEF IInv, TypeOK, RoundsOrdered, NoEarlyPass
<1>4. entered[t][r] \in Nat /\ entered[r][t] \in Nat
  BY DEF IInv, TypeOK
<1> QED BY <1>1, <1>2, <1>3, <1>4

\* The two sets of counters are enough: a value a thread spins on is never
\* overwritten by the next one, so its load eventually returns it.
THEOREM NoLostSignalHolds == Spec => []NoLostSignal
<1> QED BY IInvNoLostSignal, InductiveInvariant, PTL

\* A thread stores to a location only after its previous store there was
\* seen, so the order in which stores become visible does not matter.
THEOREM StoreConsumedFirstHolds == Spec => StoreConsumedFirst
<1>1. ASSUME IInv, NEW r \in Ranks, NEW t \in Ranks, Signal(t, r)
      PROVE  LET k == SetOf(self_counter'[t][r])
             IN  /\ flight[r][k][t] = NoStore
                 /\ entered[t][r] - 1 <= passed[r][t]
  <2>1. self_counter'[t][r] = Inc(self_counter[t][r])
    BY <1>1 DEF Signal, IInv, TypeOK
  <2>2. /\ flight[r][SetOf(Inc(self_counter[t][r]))][t] = NoStore
        /\ entered[t][r] <= passed[r][t] + 1
    BY <1>1, SignalFacts
  <2> QED BY <2>1, <2>2, <1>1 DEF IInv, TypeOK
<1>2. IInv /\ [Next]_vars =>
        [\A r, t \in Ranks : Signal(t, r) =>
           LET k == SetOf(self_counter'[t][r])
           IN  /\ flight[r][k][t] = NoStore
               /\ entered[t][r] - 1 <= passed[r][t]]_vars
  BY <1>1
<1> QED BY <1>2, InductiveInvariant, PTL DEF Spec, StoreConsumedFirst

-----------------------------------------------------------------------------
\* The code implements the meeting that RankBarrier promises: reaching the
\* barrier and joining after it are the abstract steps, all else stutters.
THEOREM Refinement == Spec => Abstract!Spec
<1>1. Init => Abstract!Init
  BY DEF Init, Abstract!Init
<1>2. IInv /\ [Next]_vars => [Abstract!Next]_(Abstract!vars)
  <2> SUFFICES ASSUME IInv, [Next]_vars
               PROVE  [Abstract!Next]_(Abstract!vars)
    OBVIOUS
  <2>1. ASSUME NEW r \in Ranks, Begin(r) PROVE Abstract!Next
    BY <2>1 DEF Begin, Abstract!Next, Abstract!Arrive
  <2>2. ASSUME NEW r \in Ranks, Join(r) PROVE Abstract!Next
    <3>1. \A s \in Ranks : arrived[r] <= arrived[s]
      <4> TAKE s \in Ranks
      <4>1. passed[r][s] = arrived[r]
        BY <2>2 DEF Join
      <4>2. passed[r][s] <= entered[s][r] /\ entered[s][r] <= arrived[s]
        BY DEF IInv, NoEarlyPass, RoundsOrdered
      <4> QED BY <4>1, <4>2 DEF IInv, TypeOK
    <3>2. Abstract!Leave(r)
      BY <2>2, <3>1 DEF Join, Abstract!Leave
    <3> QED BY <3>2 DEF Abstract!Next
  <2>3. CASE UNCHANGED <<arrived, left>>
    BY <2>3 DEF Abstract!vars
  <2>4. ASSUME NEW r \in Ranks, NEW t \in Ranks, Signal(r, t) \/ Observe(r, t)
        PROVE  UNCHANGED <<arrived, left>>
    BY <2>4 DEF Signal, Observe
  <2>5. ASSUME NEW r \in Ranks, NEW t \in Ranks, NEW k \in Sets, Deliver(r, k, t)
        PROVE  UNCHANGED <<arrived, left>>
    BY <2>5 DEF Deliver
  <2>6. CASE UNCHANGED vars \/ Finished
    BY <2>6, <2>3 DEF vars, Finished
  <2> QED BY <2>1, <2>2, <2>3, <2>4, <2>5, <2>6 DEF Next
<1> QED BY <1>1, <1>2, InductiveInvariant, PTL DEF Spec, Abstract!Spec

-----------------------------------------------------------------------------
\* The table of registered buffers: GraphBuffers.

-----------------------------------------------------------------------------
\* Counting the operations of the script.

LEMMA CountFacts ==
  ASSUME NEW op, NEW n \in Nat
  PROVE  /\ Count(op, n) \in Nat /\ Count(op, 0) = 0
         /\ Count(op, n + 1) = IF script[n + 1].op = op THEN Count(op, n) + 1
                                                        ELSE Count(op, n)
<1> DEFINE S(k) == {i \in 1 .. k : script[i].op = op}
<1>1. \A k \in Nat : IsFiniteSet(S(k)) /\ Cardinality(S(k)) \in Nat
  <2> TAKE k \in Nat
  <2>1. IsFiniteSet(1 .. k)
    BY FS_Interval
  <2>2. S(k) \in SUBSET (1 .. k)
    OBVIOUS
  <2>3. IsFiniteSet(S(k))
    BY <2>1, <2>2, FS_Subset
  <2> QED BY <2>3, FS_CardinalityType
<1>2. S(0) = {}
  OBVIOUS
<1>3. CASE script[n + 1].op = op
  <2>1. S(n + 1) = S(n) \cup {n + 1} /\ n + 1 \notin S(n)
    BY <1>3
  <2>2. Cardinality(S(n + 1)) = Cardinality(S(n)) + 1
    BY <1>1, <2>1, FS_AddElement
  <2> QED BY <1>1, <1>2, <1>3, <2>2, FS_EmptySet DEF Count
<1>4. CASE script[n + 1].op # op
  <2>1. S(n + 1) = S(n)
    BY <1>4
  <2> QED BY <1>1, <1>2, <1>4, <2>1, FS_EmptySet DEF Count
<1> QED BY <1>3, <1>4

LEMMA CountMono ==
  ASSUME NEW op, NEW m \in Nat, NEW n \in Nat, m <= n
  PROVE  Count(op, m) <= Count(op, n)
<1> DEFINE S(k) == {i \in 1 .. k : script[i].op = op}
<1>1. IsFiniteSet(1 .. n)
  BY FS_Interval
<1>2. S(n) \in SUBSET (1 .. n) /\ S(m) \in SUBSET S(n)
  OBVIOUS
<1>3. IsFiniteSet(S(n))
  BY <1>1, <1>2, FS_Subset
<1>4. Cardinality(S(m)) <= Cardinality(S(n))
  BY <1>2, <1>3, FS_Subset
<1> QED BY <1>4 DEF Count

LEMMA SettledFacts ==
  ASSUME NEW n \in Nat
  PROVE  /\ Settled(n) \in Nat /\ Settled(0) = 0
         /\ Settled(n) <= Count("capture", n)
         /\ Settled(n + 1) = IF script[n + 1].op = "exchange" THEN Count("capture", n)
                                                              ELSE Settled(n)
<1> DEFINE C(k) == {i \in 1 .. k : script[i].op = "capture"}
           S(k) == {i \in 1 .. k : /\ script[i].op = "capture"
                                   /\ \E j \in i .. k : script[j].op = "exchange"}
<1>1. \A k \in Nat : /\ IsFiniteSet(S(k)) /\ Cardinality(S(k)) \in Nat
                     /\ Cardinality(S(k)) <= Cardinality(C(k))
  <2> TAKE k \in Nat
  <2>1. IsFiniteSet(1 .. k)
    BY FS_Interval
  <2>2. C(k) \in SUBSET (1 .. k) /\ S(k) \in SUBSET C(k)
    OBVIOUS
  <2>3. IsFiniteSet(C(k))
    BY <2>1, <2>2, FS_Subset
  <2>4. IsFiniteSet(S(k)) /\ Cardinality(S(k)) <= Cardinality(C(k))
    BY <2>2, <2>3, FS_Subset
  <2> QED BY <2>4, FS_CardinalityType
<1>2. S(0) = {}
  OBVIOUS
<1>3. script[n + 1].op = "exchange" => S(n + 1) = C(n)
  <2> SUFFICES ASSUME script[n + 1].op = "exchange" PROVE S(n + 1) = C(n)
    OBVIOUS
  <2>1. ASSUME NEW i \in C(n) PROVE i \in S(n + 1)
    <3>1. n + 1 \in i .. n + 1
      BY <2>1
    <3> QED BY <2>1, <3>1
  <2>2. ASSUME NEW i \in S(n + 1) PROVE i \in C(n)
    BY <2>2
  <2> QED BY <2>1, <2>2
<1>4. script[n + 1].op # "exchange" => S(n + 1) = S(n)
  <2> SUFFICES ASSUME script[n + 1].op # "exchange" PROVE S(n + 1) = S(n)
    OBVIOUS
  <2>1. ASSUME NEW i \in S(n) PROVE i \in S(n + 1)
    <3>1. PICK j \in i .. n : script[j].op = "exchange"
      BY <2>1
    <3> QED BY <2>1, <3>1
  <2>2. ASSUME NEW i \in S(n + 1) PROVE i \in S(n)
    <3>1. PICK j \in i .. n + 1 : script[j].op = "exchange"
      BY <2>2
    <3>2. j \in i .. n
      BY <3>1
    <3> QED BY <2>2, <3>1, <3>2
  <2> QED BY <2>1, <2>2
<1>5. Count("capture", n) = Cardinality(C(n)) /\ \A k : Settled(k) = Cardinality(S(k))
  BY DEF Count, Settled
<1> HIDE DEF C, S
<1> QED BY <1>1, <1>2, <1>3, <1>4, <1>5, FS_EmptySet

LEMMA SettledMono ==
  ASSUME NEW m \in Nat, NEW n \in Nat, m <= n
  PROVE  Settled(m) <= Settled(n)
<1> DEFINE S(k) == {i \in 1 .. k : /\ script[i].op = "capture"
                                   /\ \E j \in i .. k : script[j].op = "exchange"}
<1>1. IsFiniteSet(1 .. n)
  BY FS_Interval
<1>2. S(n) \in SUBSET (1 .. n)
  OBVIOUS
<1>3. S(m) \in SUBSET S(n)
  <2> SUFFICES ASSUME NEW i \in S(m) PROVE i \in S(n)
    OBVIOUS
  <2>1. PICK j \in i .. m : script[j].op = "exchange"
    OBVIOUS
  <2> QED BY <2>1
<1>4. IsFiniteSet(S(n))
  BY <1>1, <1>2, FS_Subset
<1>5. Cardinality(S(m)) <= Cardinality(S(n))
  BY <1>3, <1>4, FS_Subset
<1> QED BY <1>5 DEF Settled

\* What one operation adds.
LEMMA StepFacts ==
  ASSUME NEW n \in Nat
  PROVE  /\ Pending(n) \in Nat /\ Base(n) \in Nat
         /\ Settled(n) \in Nat /\ Count("capture", n) \in Nat
         /\ Settled(n) + Pending(n) = Count("capture", n)
         /\ script[n + 1].op = "register" =>
              /\ Base(n + 1) = Base(n) + 1 /\ Pending(n + 1) = Pending(n)
              /\ Settled(n + 1) = Settled(n)
              /\ Count("capture", n + 1) = Count("capture", n)
              /\ Count("exchange", n + 1) = Count("exchange", n)
         /\ script[n + 1].op = "capture" =>
              /\ Base(n + 1) = Base(n) /\ Pending(n + 1) = Pending(n) + 1
              /\ Settled(n + 1) = Settled(n)
              /\ Count("capture", n + 1) = Count("capture", n) + 1
              /\ Count("exchange", n + 1) = Count("exchange", n)
         /\ script[n + 1].op = "exchange" =>
              /\ Base(n + 1) = Base(n) + Pending(n) /\ Pending(n + 1) = 0
              /\ Settled(n + 1) = Count("capture", n)
              /\ Count("capture", n + 1) = Count("capture", n)
              /\ Count("exchange", n + 1) = Count("exchange", n) + 1
<1>1. /\ Count("register", n) \in Nat /\ Count("capture", n) \in Nat
      /\ Count("exchange", n) \in Nat /\ Settled(n) \in Nat
      /\ Settled(n) <= Count("capture", n)
  BY CountFacts, SettledFacts
<1>2. /\ Count("register", n + 1) = IF script[n + 1].op = "register"
                                      THEN Count("register", n) + 1 ELSE Count("register", n)
      /\ Count("capture", n + 1) = IF script[n + 1].op = "capture"
                                     THEN Count("capture", n) + 1 ELSE Count("capture", n)
      /\ Count("exchange", n + 1) = IF script[n + 1].op = "exchange"
                                      THEN Count("exchange", n) + 1 ELSE Count("exchange", n)
  BY CountFacts
<1>3. Settled(n + 1) = IF script[n + 1].op = "exchange" THEN Count("capture", n)
                                                         ELSE Settled(n)
  BY SettledFacts
<1>4. /\ Pending(n) = Count("capture", n) - Settled(n)
      /\ Pending(n + 1) = Count("capture", n + 1) - Settled(n + 1)
      /\ Base(n) = Count("register", n) + Settled(n)
      /\ Base(n + 1) = Count("register", n + 1) + Settled(n + 1)
  BY DEF Pending, Base
<1>5. CASE script[n + 1].op = "register"
  BY <1>1, <1>2, <1>3, <1>4, <1>5
<1>6. CASE script[n + 1].op = "capture"
  BY <1>1, <1>2, <1>3, <1>4, <1>6
<1>7. CASE script[n + 1].op = "exchange"
  BY <1>1, <1>2, <1>3, <1>4, <1>7
<1>8. CASE script[n + 1].op \notin {"register", "capture", "exchange"}
  BY <1>1, <1>4, <1>8
<1> QED BY <1>5, <1>6, <1>7, <1>8

LEMMA BaseMono ==
  ASSUME NEW m \in Nat, NEW n \in Nat, m <= n
  PROVE  Base(m) <= Base(n) /\ Base(m) \in Nat /\ Base(n) \in Nat
<1>1. Count("register", m) <= Count("register", n) /\ Settled(m) <= Settled(n)
  BY CountMono, SettledMono
<1>2. /\ Count("register", m) \in Nat /\ Settled(m) \in Nat
      /\ Count("register", n) \in Nat /\ Settled(n) \in Nat
  BY CountFacts, SettledFacts
<1> QED BY <1>1, <1>2 DEF Base

\* The captures an exchange settles are behind every rank that is that far.
LEMMA PendingIndex ==
  ASSUME NEW m \in Nat, NEW n \in Nat, m <= n, NEW i \in 1 .. Pending(m)
  PROVE  Settled(m) + i \in 1 .. Count("capture", n)
<1>1. /\ Pending(m) \in Nat /\ Settled(m) \in Nat
      /\ Settled(m) + Pending(m) = Count("capture", m) /\ Count("capture", m) \in Nat
  BY StepFacts
<1>2. Count("capture", m) <= Count("capture", n) /\ Count("capture", n) \in Nat
  BY CountMono, CountFacts
<1> QED BY <1>1, <1>2

-----------------------------------------------------------------------------
LEMMA OpenedFacts == ASSUME NEW a \in Addresses
                     PROVE  /\ <<a.alloc, a.offset>> \in Handles
                            /\ Opened(<<a.alloc, a.offset>>) = a
BY DEF Addresses, Handles, Opened

LEMMA DoingFacts ==
  ASSUME TableTypeOK, NEW r \in Processes, NEW op, Doing(r, op)
  PROVE  /\ Len(script) \in Nat /\ at[r] \in Nat /\ at[r] + 1 \in 1 .. Len(script)
         /\ at[r] + 1 \in 0 .. MaxOps
         /\ script[at[r] + 1] \in Operations /\ script[at[r] + 1].op = op
         /\ op = "register" => script[at[r] + 1].ptrs \in Tuples
<1>1. /\ script \in Seq(Operations) /\ Len(script) <= MaxOps /\ at[r] \in 0 .. MaxOps
      /\ MaxOps \in Nat /\ at[r] < Len(script) /\ script[at[r] + 1].op = op
  BY CapacityAssumption DEF TableTypeOK, Doing
<1>2. Len(script) \in Nat /\ at[r] \in Nat /\ at[r] + 1 \in 1 .. Len(script)
  BY <1>1
<1>3. script[at[r] + 1] \in Operations
  BY <1>1, <1>2
<1>4. op = "register" => script[at[r] + 1].ptrs \in Tuples
  BY <1>1, <1>3 DEF Operations
<1> QED BY <1>1, <1>2, <1>3, <1>4

LEMMA RankFacts ==
  ASSUME TableTypeOK, InStep, NEW r \in Processes
  PROVE  /\ at[r] \in Nat /\ at[r] <= Len(script) /\ Len(script) \in Nat
         /\ base[r] \in Nat /\ base[r] = Base(at[r])
         /\ filled[r] \in Nat /\ filled[r] = Settled(at[r])
         /\ Len(unreg[r]) \in Nat /\ Len(unreg[r]) = Pending(at[r])
         /\ Len(args[r]) \in Nat /\ Len(args[r]) = Count("capture", at[r])
         /\ filled[r] + Len(unreg[r]) = Len(args[r])
         /\ Exchanges(r) \in Nat /\ Len(gathered[r]) \in Nat
<1>1. /\ at[r] \in Nat /\ at[r] <= Len(script) /\ Len(script) \in Nat
      /\ base[r] \in Nat /\ filled[r] \in Nat
      /\ Len(unreg[r]) \in Nat /\ Len(args[r]) \in Nat /\ Len(gathered[r]) \in Nat
  BY CapacityAssumption DEF TableTypeOK, InStep
<1>2. Settled(at[r]) + Pending(at[r]) = Count("capture", at[r])
  BY <1>1, StepFacts
<1>3. Exchanges(r) \in Nat
  BY <1>1, CountFacts DEF Exchanges
<1> QED BY <1>1, <1>2, <1>3 DEF InStep

\* The exchange a rank is at has everybody's captures, and this is the entry
\* it writes for the i-th of them.
Entry(r, i) == [s \in Processes |-> IF s = r THEN unreg[r][i]
                                    ELSE Opened(gathered[s][Exchanges(r) + 1][i])]

LEMMA ExchangeFacts ==
  ASSUME TableInv, NEW r \in Processes, Doing(r, "exchange"),
         \A s \in Processes : Len(gathered[s]) >= Exchanges(r) + 1
  PROVE  /\ \A s \in Processes : at[r] <= at[s]
         /\ \A i \in 1 .. Len(unreg[r]) :
              /\ \A s \in Processes : filled[r] + i \in 1 .. Len(args[s])
              /\ Entry(r, i) = CapturedInputs(filled[r] + i)
              /\ Entry(r, i) \in Tuples
<1> USE DEF TableInv
<1> DEFINE p == at[r] + 1
<1>1. at[r] \in Nat /\ p \in 1 .. Len(script) /\ script[p].op = "exchange" /\ p - 1 = at[r]
  BY DoingFacts
<1>2. Count("exchange", p) = Exchanges(r) + 1
  BY <1>1, StepFacts DEF Exchanges
<1>3. /\ Len(unreg[r]) = Pending(at[r]) /\ filled[r] = Settled(at[r])
      /\ filled[r] + Len(unreg[r]) = Len(args[r])
      /\ Exchanges(r) \in Nat /\ \A s \in Processes : Len(gathered[s]) \in Nat
  BY RankFacts
<1> HIDE DEF p
<1>4. ASSUME NEW s \in Processes
      PROVE  /\ at[r] <= at[s]
             /\ \A i \in 1 .. Len(unreg[r]) :
                  Opened(gathered[s][Exchanges(r) + 1][i]) = args[s][filled[r] + i].input
  <2>1. Count("exchange", p) <= Len(gathered[s])
    BY <1>2, <1>3
  <2> QED BY <1>1, <1>2, <1>3, <2>1 DEF GatheredRight
<1>5. ASSUME NEW i \in 1 .. Len(unreg[r]), NEW s \in Processes
      PROVE  filled[r] + i \in 1 .. Len(args[s])
  <2>1. at[s] \in Nat /\ Len(args[s]) = Count("capture", at[s])
    BY RankFacts
  <2> QED BY <1>1, <1>3, <1>4, <2>1, PendingIndex
<1>6. ASSUME NEW i \in 1 .. Len(unreg[r])
      PROVE  /\ Entry(r, i) = CapturedInputs(filled[r] + i)
             /\ Entry(r, i) \in Tuples
  <2>1. unreg[r][i] = args[r][filled[r] + i].input
    BY <1>3 DEF InStep
  <2>2. Entry(r, i) = CapturedInputs(filled[r] + i)
    BY <1>4, <2>1 DEF Entry, CapturedInputs
  <2>3. \A s \in Processes : args[s][filled[r] + i].input \in Addresses
    <3> TAKE s \in Processes
    <3>1. args[s] \in Seq([slot : Nat, input : Addresses])
      BY DEF TableTypeOK
    <3>2. filled[r] + i \in 1 .. Len(args[s])
      BY <1>5, <1>6
    <3>3. args[s][filled[r] + i] \in [slot : Nat, input : Addresses]
      BY <3>1, <3>2, ElementOfSeq
    <3> QED BY <3>3
  <2> QED BY <2>2, <2>3 DEF Tuples, CapturedInputs
<1> QED BY <1>4, <1>5, <1>6

LEMMA GatheredFacts ==
  ASSUME TableTypeOK, InStep, NEW r \in Processes
  PROVE  /\ Exchanges(r) <= Len(gathered[r])
         /\ Len(gathered[r]) <= Exchanges(r) + 1
         /\ Len(gathered[r]) <= Count("exchange", Len(script))
         /\ Len(gathered[r]) \in Nat /\ Exchanges(r) \in Nat
         /\ Count("exchange", Len(script)) \in Nat
<1>1. /\ at[r] \in Nat /\ at[r] <= Len(script) /\ Len(script) \in Nat
      /\ Len(gathered[r]) \in Nat
  BY CapacityAssumption DEF TableTypeOK, InStep
<1>2. /\ Exchanges(r) \in Nat /\ Count("exchange", Len(script)) \in Nat
      /\ \/ Count("exchange", at[r] + 1) = Exchanges(r)
         \/ Count("exchange", at[r] + 1) = Exchanges(r) + 1
      /\ Exchanges(r) <= Count("exchange", Len(script))
  <2>1. Exchanges(r) \in Nat /\ Count("exchange", Len(script)) \in Nat
    BY <1>1, CountFacts DEF Exchanges
  <2>2. \/ Count("exchange", at[r] + 1) = Exchanges(r)
        \/ Count("exchange", at[r] + 1) = Exchanges(r) + 1
    BY <1>1, CountFacts DEF Exchanges
  <2>3. Exchanges(r) <= Count("exchange", Len(script))
    BY <1>1, CountMono DEF Exchanges
  <2> QED BY <2>1, <2>2, <2>3
<1>3. CASE Len(gathered[r]) = Exchanges(r)
  BY <1>1, <1>2, <1>3
<1>4. CASE at[r] < Len(script) /\ Len(gathered[r]) = Count("exchange", at[r] + 1)
  <2>1. Count("exchange", at[r] + 1) <= Count("exchange", Len(script))
    BY <1>1, <1>4, CountMono
  <2> QED BY <1>1, <1>2, <1>4, <2>1
<1> QED BY <1>3, <1>4 DEF InStep

\* The entries the operations behind a rank have left lie below its base.
LEMMA EntryPlace ==
  ASSUME TableTypeOK, InStep, NEW r \in Processes, NEW p \in 1 .. at[r]
  PROVE  /\ p - 1 \in Nat
         /\ script[p].op = "register" =>
              Base(p - 1) \in Slots /\ Base(p - 1) < base[r]
         /\ script[p].op = "exchange" =>
              \A i \in 1 .. Pending(p - 1) :
                /\ Base(p - 1) + i - 1 \in Slots /\ Base(p - 1) + i - 1 < base[r]
                /\ \A s \in Processes : p - 1 <= at[s] =>
                     Settled(p - 1) + i \in 1 .. Len(args[s])
<1>1. at[r] \in Nat /\ p - 1 \in Nat /\ p \in Nat /\ p <= at[r] /\ (p - 1) + 1 = p
  BY RankFacts
<1>2. base[r] = Base(at[r]) /\ base[r] \in 0 .. Capacity /\ Capacity \in Nat
  BY CapacityAssumption DEF TableTypeOK, InStep
<1>3. Base(p) <= base[r] /\ Base(p) \in Nat /\ Base(p - 1) \in Nat
  BY <1>1, <1>2, BaseMono
<1>4. /\ script[p].op = "register" => Base(p) = Base(p - 1) + 1
      /\ script[p].op = "exchange" => Base(p) = Base(p - 1) + Pending(p - 1)
      /\ Pending(p - 1) \in Nat
  BY <1>1, StepFacts
<1>5. script[p].op = "register" => Base(p - 1) \in Slots /\ Base(p - 1) < base[r]
  BY <1>2, <1>3, <1>4 DEF Slots
<1>6. ASSUME script[p].op = "exchange", NEW i \in 1 .. Pending(p - 1)
      PROVE  Base(p - 1) + i - 1 \in Slots /\ Base(p - 1) + i - 1 < base[r]
  BY <1>2, <1>3, <1>4, <1>6 DEF Slots
<1>7. ASSUME NEW i \in 1 .. Pending(p - 1), NEW s \in Processes, p - 1 <= at[s]
      PROVE  Settled(p - 1) + i \in 1 .. Len(args[s])
  <2>1. at[s] \in Nat /\ Len(args[s]) = Count("capture", at[s])
    BY RankFacts
  <2> QED BY <1>1, <1>7, <2>1, PendingIndex
<1> QED BY <1>1, <1>5, <1>6, <1>7

LEMMA GatheredPlace ==
  ASSUME TableTypeOK, InStep, NEW s \in Processes, NEW p \in 1 .. Len(script), p - 1 <= at[s],
         NEW i \in 1 .. Pending(p - 1)
  PROVE  Settled(p - 1) + i \in 1 .. Len(args[s])
<1>1. at[s] \in Nat /\ Len(args[s]) = Count("capture", at[s]) /\ Len(script) \in Nat
  BY RankFacts
<1>2. p - 1 \in Nat
  BY <1>1
<1> QED BY <1>1, <1>2, PendingIndex

-----------------------------------------------------------------------------
\* The counts of the operations so far stay when one more is asked for.
LEMMA AppendCounts ==
  ASSUME script \in Seq(Operations), NEW x \in Operations,
         script' = Append(script, x), NEW n \in 0 .. Len(script)
  PROVE  /\ \A op : Count(op, n)' = Count(op, n)
         /\ Settled(n)' = Settled(n)
         /\ Pending(n)' = Pending(n) /\ Base(n)' = Base(n)
<1>1. \A i \in 1 .. n : script'[i] = script[i]
  BY AppendProperties
<1>2. \A op : {i \in 1 .. n : script'[i].op = op} = {i \in 1 .. n : script[i].op = op}
  BY <1>1
<1>3. \A op : Count(op, n)' = Count(op, n)
  BY <1>2 DEF Count
<1>4. {i \in 1 .. n : /\ script'[i].op = "capture"
                      /\ \E j \in i .. n : script'[j].op = "exchange"}
        = {i \in 1 .. n : /\ script[i].op = "capture"
                          /\ \E j \in i .. n : script[j].op = "exchange"}
  <2>1. \A i \in 1 .. n : \A j \in i .. n : script'[j] = script[j]
    BY <1>1
  <2> QED BY <1>1, <2>1
<1>5. Settled(n)' = Settled(n)
  BY <1>4 DEF Settled
<1> QED BY <1>3, <1>5 DEF Pending, Base

LEMMA SameCounts ==
  ASSUME UNCHANGED script
  PROVE  /\ \A op, n : Count(op, n)' = Count(op, n)
         /\ \A n : /\ Settled(n)' = Settled(n)
                   /\ Pending(n)' = Pending(n) /\ Base(n)' = Base(n)
BY DEF Count, Settled, Pending, Base

-----------------------------------------------------------------------------
\* The two registrations when the capacity suffices.
Registers(r) ==
  /\ Doing(r, "register") /\ HasRoom(r, 1)
  /\ data' = [data EXCEPT ![r] = [@ EXCEPT ![base[r]] = script[at[r] + 1].ptrs]]
  /\ buffers' = [buffers EXCEPT ![r] = [@ EXCEPT ![script[at[r] + 1].ptrs[r]] = base[r]]]
  /\ base' = [base EXCEPT ![r] = base[r] + 1]
  /\ at' = [at EXCEPT ![r] = at[r] + 1]
  /\ script' = script /\ unreg' = unreg /\ gathered' = gathered /\ args' = args
  /\ filled' = filled /\ failed' = failed

RegistersGraph(r) ==
  /\ Doing(r, "exchange") /\ HasRoom(r, Len(unreg[r]))
  /\ \A s \in Processes : Len(gathered[s]) >= Exchanges(r) + 1
  /\ data' = [data EXCEPT ![r] =
                [k \in Slots |->
                   IF k \in base[r] .. base[r] + Len(unreg[r]) - 1
                     THEN Entry(r, k - base[r] + 1) ELSE data[r][k]]]
  /\ base' = [base EXCEPT ![r] = base[r] + Len(unreg[r])]
  /\ unreg' = [unreg EXCEPT ![r] = <<>>]
  /\ filled' = [filled EXCEPT ![r] = Len(args[r])]
  /\ at' = [at EXCEPT ![r] = at[r] + 1]
  /\ script' = script /\ buffers' = buffers /\ gathered' = gathered /\ args' = args
  /\ failed' = failed

LEMMA RegisterEffects ==
  ASSUME NEW r \in Processes
  PROVE  /\ RegisterBuffer(r) => Throw(r) \/ Registers(r)
         /\ RegisterGraphBuffers(r) => Throw(r) \/ RegistersGraph(r)
<1>1. RegisterBuffer(r) => Throw(r) \/ Registers(r)
  BY DEF RegisterBuffer, Registers
<1>2. RegisterGraphBuffers(r) => Throw(r) \/ RegistersGraph(r)
  BY DEF RegisterGraphBuffers, RegistersGraph, Entry
<1> QED BY <1>1, <1>2

LEMMA TableTypeStep == TableInv /\ [TableNext]_tableVars => TableTypeOK'
<1> SUFFICES ASSUME TableInv, [TableNext]_tableVars PROVE TableTypeOK'
  OBVIOUS
<1>0. TableTypeOK /\ InStep
  BY DEF TableInv
<1> USE CapacityAssumption
<1>1. CASE UNCHANGED tableVars \/ ScriptFinished
  BY <1>0, <1>1 DEF ScriptFinished, tableVars, TableTypeOK
<1>2. CASE Ask
  <2>1. PICK x \in Operations : script' = Append(script, x)
    BY <1>2 DEF Ask, Operations
  <2>2. script' \in Seq(Operations) /\ Len(script') = Len(script) + 1
    BY <1>0, <2>1, AppendProperties DEF TableTypeOK
  <2>3. Len(script') <= MaxOps
    BY <1>0, <1>2, <2>2 DEF TableTypeOK, Ask
  <2> QED BY <1>0, <1>2, <2>2, <2>3 DEF Ask, TableTypeOK
<1>3. ASSUME NEW r \in Processes, Throw(r) PROVE TableTypeOK'
  BY <1>0, <1>3 DEF Throw, TableTypeOK
<1>4. ASSUME NEW r \in Processes, Registers(r) PROVE TableTypeOK'
  <2>1. /\ at[r] + 1 \in 0 .. MaxOps
        /\ script[at[r] + 1].ptrs \in Tuples
    BY <1>0, <1>4, DoingFacts DEF Registers
  <2>2. base[r] \in Slots /\ base[r] + 1 \in 0 .. Capacity
    BY <1>0, <1>4 DEF Registers, HasRoom, TableTypeOK, Slots
  <2>3. data' \in [Processes -> [Slots -> Tuples \cup {Empty}]]
    BY <1>0, <1>4, <2>1, <2>2 DEF Registers, TableTypeOK
  <2>4. buffers' \in [Processes -> [Addresses -> Slots \cup {NoSlot}]]
    BY <1>0, <1>4, <2>1, <2>2 DEF Registers, TableTypeOK, Tuples
  <2> QED BY <1>0, <1>4, <2>1, <2>2, <2>3, <2>4 DEF Registers, TableTypeOK
<1>5. ASSUME NEW r \in Processes, NEW a \in Addresses, CaptureAllreduce(r, a)
      PROVE  TableTypeOK'
  <2>1. at[r] + 1 \in 0 .. MaxOps
    BY <1>0, <1>5, DoingFacts DEF CaptureAllreduce
  <2>2. base[r] + Len(unreg[r]) \in Nat
    BY <1>0, RankFacts
  <2>3. [slot |-> base[r] + Len(unreg[r]), input |-> a] \in [slot : Nat, input : Addresses]
    BY <2>2
  <2>4. Append(args[r], [slot |-> base[r] + Len(unreg[r]), input |-> a])
          \in Seq([slot : Nat, input : Addresses])
    BY <1>0, <2>3, AppendProperties DEF TableTypeOK
  <2>5. Append(unreg[r], a) \in Seq(Addresses)
    BY <1>0, AppendProperties DEF TableTypeOK
  <2> QED BY <1>0, <1>5, <2>1, <2>4, <2>5 DEF CaptureAllreduce, TableTypeOK
<1>6. ASSUME NEW r \in Processes, GatherIpcMeta(r) PROVE TableTypeOK'
  <2> DEFINE h == [i \in DOMAIN unreg[r] |-> <<unreg[r][i].alloc, unreg[r][i].offset>>]
  <2>1. unreg[r] \in Seq(Addresses) /\ DOMAIN unreg[r] = 1 .. Len(unreg[r])
        /\ Len(unreg[r]) \in Nat
    BY <1>0 DEF TableTypeOK
  <2>2. \A i \in DOMAIN unreg[r] : unreg[r][i] \in Addresses
    BY <2>1, ElementOfSeq
  <2>3. \A i \in DOMAIN unreg[r] : <<unreg[r][i].alloc, unreg[r][i].offset>> \in Handles
    BY <2>2, OpenedFacts
  <2>4. h \in [1 .. Len(unreg[r]) -> Handles]
    BY <2>1, <2>3
  <2>5. h \in Seq(Handles)
    BY <2>1, <2>4, SeqDef
  <2> HIDE DEF h
  <2>6. Append(gathered[r], h) \in Seq(Seq(Handles))
    BY <1>0, <2>5, AppendProperties DEF TableTypeOK
  <2>7. gathered' = [gathered EXCEPT ![r] = Append(gathered[r], h)]
    BY <1>6 DEF GatherIpcMeta, h
  <2> QED BY <1>0, <1>6, <2>6, <2>7 DEF GatherIpcMeta, TableTypeOK
<1>7. ASSUME NEW r \in Processes, RegistersGraph(r) PROVE TableTypeOK'
  <2>1. at[r] + 1 \in 0 .. MaxOps
    BY <1>0, <1>7, DoingFacts DEF RegistersGraph
  <2>2. Len(unreg[r]) \in Nat /\ Len(args[r]) \in Nat /\ base[r] \in Nat
    BY <1>0, RankFacts
  <2>3. base[r] + Len(unreg[r]) \in 0 .. Capacity
    BY <1>0, <1>7, <2>2 DEF RegistersGraph, HasRoom
  <2>4. \A i \in 1 .. Len(unreg[r]) : Entry(r, i) \in Tuples
    BY <1>7, ExchangeFacts DEF RegistersGraph
  <2>5. data' = [data EXCEPT ![r] =
                   [k \in Slots |->
                      IF k \in base[r] .. base[r] + Len(unreg[r]) - 1
                        THEN Entry(r, k - base[r] + 1) ELSE data[r][k]]]
    BY <1>7 DEF RegistersGraph
  <2>6. \A k \in Slots : k \in base[r] .. base[r] + Len(unreg[r]) - 1 =>
                           k - base[r] + 1 \in 1 .. Len(unreg[r])
    BY <2>2
  <2>7. data' \in [Processes -> [Slots -> Tuples \cup {Empty}]]
    BY <1>0, <2>4, <2>5, <2>6 DEF TableTypeOK
  <2>8. <<>> \in Seq(Addresses)
    BY EmptySeq
  <2> QED BY <1>0, <1>7, <2>1, <2>2, <2>3, <2>7, <2>8 DEF RegistersGraph, TableTypeOK
<1> QED BY <1>1, <1>2, <1>3, <1>4, <1>5, <1>6, <1>7, RegisterEffects DEF TableNext

-----------------------------------------------------------------------------
\* A call's inputs are its arguments'.
LEMMA SameInputs == args' = args => \A i : CapturedInputs(i)' = CapturedInputs(i)
BY DEF CapturedInputs

Rest == InStep /\ GatheredRight /\ TableRight /\ PromiseKept

ExchangeAdds == \A n \in Nat : script[n + 1].op = "exchange" =>
                  Count("exchange", n + 1) = Count("exchange", n) + 1

LEMMA ExchangeAddsHere == ExchangeAdds
BY StepFacts DEF ExchangeAdds

LEMMA ExchangeAddsNext == ExchangeAdds'
BY ExchangeAddsHere, PTL

LEMMA AskStep == TableInv /\ TableTypeOK' /\ Ask => Rest'
<1> SUFFICES ASSUME TableInv, TableTypeOK', Ask PROVE Rest'
  OBVIOUS
<1> USE DEF TableInv
<1>1. PICK x \in Operations :
        /\ script' = Append(script, x)
        /\ x.op = "register" => LateRegister \/ ~PendingCapture
  <2>1. CASE \E p \in Tuples : /\ LateRegister \/ ~PendingCapture
                               /\ script' = Append(script, [op |-> "register", ptrs |-> p])
    <3>1. PICK p \in Tuples : /\ LateRegister \/ ~PendingCapture
                              /\ script' = Append(script, [op |-> "register", ptrs |-> p])
      BY <2>1
    <3>2. [op |-> "register", ptrs |-> p] \in Operations
      BY DEF Operations
    <3> QED BY <3>1, <3>2
  <2>2. CASE \E op \in {"capture", "exchange"} : script' = Append(script, [op |-> op])
    <3>1. PICK op \in {"capture", "exchange"} : script' = Append(script, [op |-> op])
      BY <2>2
    <3>2. [op |-> op] \in Operations /\ [op |-> op].op # "register"
      BY DEF Operations
    <3> QED BY <3>1, <3>2
  <2> QED BY <2>1, <2>2 DEF Ask
<1>2. /\ at' = at /\ base' = base /\ data' = data /\ unreg' = unreg
      /\ gathered' = gathered /\ args' = args /\ filled' = filled
  BY DEF Ask
<1>3. /\ script \in Seq(Operations) /\ Len(script) \in Nat
      /\ Len(script') = Len(script) + 1
      /\ \A i \in 1 .. Len(script) : script'[i] = script[i]
      /\ script'[Len(script) + 1] = x
  BY <1>1, AppendProperties DEF TableTypeOK
<1>4. \A n \in 0 .. Len(script) :
        /\ \A op : Count(op, n)' = Count(op, n)
        /\ Settled(n)' = Settled(n)
        /\ Pending(n)' = Pending(n) /\ Base(n)' = Base(n)
  BY <1>1, <1>3, AppendCounts
<1>5. \A r \in Processes : at[r] \in 0 .. Len(script) /\ at[r] \in Nat
  BY RankFacts
<1>6. InStep'
  <2> SUFFICES ASSUME NEW r \in Processes
               PROVE  /\ at[r] <= Len(script')
                      /\ base[r] = Base(at[r])'
                      /\ Len(args[r]) = Count("capture", at[r])'
                      /\ Len(unreg[r]) = Pending(at[r])'
                      /\ filled[r] = Settled(at[r])'
                      /\ \/ Len(gathered[r]) = Exchanges(r)'
                         \/ /\ at[r] < Len(script')
                            /\ Len(gathered[r]) = Count("exchange", at[r] + 1)'
                      /\ \A s \in Processes : filled[r] <= Len(args[s])
                      /\ \A i \in 1 .. Len(unreg[r]) :
                           args[r][filled[r] + i].input = unreg[r][i]
    BY <1>2 DEF InStep
  <2>1. at[r] <= Len(script) /\ at[r] <= Len(script')
    BY <1>3, <1>5
  <2>2. /\ base[r] = Base(at[r])' /\ Len(args[r]) = Count("capture", at[r])'
        /\ Len(unreg[r]) = Pending(at[r])' /\ filled[r] = Settled(at[r])'
    BY <1>2, <1>4, <1>5 DEF InStep
  <2>3. CASE Len(gathered[r]) = Exchanges(r)
    <3>1. Exchanges(r)' = Exchanges(r)
      BY <1>2, <1>4, <1>5 DEF Exchanges
    <3> QED BY <2>1, <2>2, <2>3, <3>1 DEF InStep
  <2>4. CASE at[r] < Len(script) /\ Len(gathered[r]) = Count("exchange", at[r] + 1)
    <3>1. at[r] + 1 \in 0 .. Len(script)
      BY <1>3, <1>5, <2>4
    <3>2. Count("exchange", at[r] + 1)' = Count("exchange", at[r] + 1)
      BY <1>2, <1>4, <3>1
    <3> QED BY <1>3, <1>5, <2>1, <2>2, <2>4, <3>2 DEF InStep
  <2> QED BY <2>3, <2>4 DEF InStep
<1>7. GatheredRight'
  <2> SUFFICES ASSUME NEW s \in Processes, NEW p \in 1 .. Len(script) + 1,
                      script'[p].op = "exchange",
                      Count("exchange", p)' <= Len(gathered[s])
               PROVE  LET handles == gathered[s][Count("exchange", p)']
                      IN  /\ p - 1 <= at[s]
                          /\ Len(handles) = Pending(p - 1)'
                          /\ \A i \in 1 .. Pending(p - 1)' :
                               Opened(handles[i]) = args[s][Settled(p - 1)' + i].input
    BY <1>2, <1>3 DEF GatheredRight
  <2>1. p - 1 \in 0 .. Len(script) /\ p - 1 \in Nat /\ (p - 1) + 1 = p
    BY <1>3
  <2>2. CASE p = Len(script) + 1
    <3>1. Count("exchange", p)' = Count("exchange", p - 1)' + 1
      BY <2>1, ExchangeAddsNext DEF ExchangeAdds
    <3>2. Count("exchange", p - 1)' = Count("exchange", Len(script))
      BY <1>3, <1>4, <2>1, <2>2
    <3> QED BY <2>2, <3>1, <3>2, GatheredFacts
  <2>3. CASE p \in 1 .. Len(script)
    <3>1. p \in 0 .. Len(script)
      BY <1>3, <2>3
    <3>2. Count("exchange", p)' = Count("exchange", p)
      BY <1>4, <3>1
    <3>3. Pending(p - 1)' = Pending(p - 1) /\ Settled(p - 1)' = Settled(p - 1)
      BY <1>4, <2>1
    <3> QED BY <1>3, <2>3, <3>2, <3>3 DEF GatheredRight
  <2> QED BY <1>3, <2>2, <2>3
<1>8. TableRight'
  <2> SUFFICES ASSUME NEW r \in Processes
               PROVE  /\ \A k \in Slots :
                           IF base[r] <= k THEN data[r][k] = Empty
                           ELSE \E p \in 1 .. at[r] : Base(p - 1)' <= k /\ k < Base(p)'
                      /\ \A p \in 1 .. at[r] :
                           /\ script'[p].op = "register" =>
                                data[r][Base(p - 1)'] = script'[p].ptrs
                           /\ script'[p].op = "exchange" =>
                                /\ \A s \in Processes : p - 1 <= at[s]
                                /\ \A i \in 1 .. Pending(p - 1)' :
                                     data[r][Base(p - 1)' + i - 1]
                                       = CapturedInputs(Settled(p - 1)' + i)
    BY <1>2, SameInputs DEF TableRight
  <2>1. \A p \in 1 .. at[r] :
          /\ p \in 1 .. Len(script) /\ script'[p] = script[p]
          /\ Base(p - 1)' = Base(p - 1) /\ Base(p)' = Base(p)
          /\ Pending(p - 1)' = Pending(p - 1) /\ Settled(p - 1)' = Settled(p - 1)
    <3> TAKE p \in 1 .. at[r]
    <3>1. p \in 1 .. Len(script) /\ p - 1 \in 0 .. Len(script) /\ p \in 0 .. Len(script)
      BY <1>3, <1>5
    <3> QED BY <1>3, <1>4, <3>1
  <2> QED BY <2>1 DEF TableRight
<1>9. PromiseKept'
  <2> SUFFICES ASSUME ~LateRegister PROVE PromiseKept'
    BY DEF PromiseKept
  <2>1. ASSUME NEW p \in 1 .. Len(script) + 1, script'[p].op = "register"
        PROVE  Pending(p - 1)' = 0
    <3>1. p - 1 \in 0 .. Len(script)
      BY <1>3
    <3>2. CASE p \in 1 .. Len(script)
      BY <1>3, <1>4, <2>1, <3>1, <3>2 DEF PromiseKept
    <3>3. CASE p = Len(script) + 1
      <4>1. ~PendingCapture
        BY <1>1, <1>3, <2>1, <3>3
      <4>2. {i \in 1 .. Len(script) : script[i].op = "capture"}
              = {i \in 1 .. Len(script) :
                   /\ script[i].op = "capture"
                   /\ \E j \in i .. Len(script) : script[j].op = "exchange"}
        BY <4>1 DEF PendingCapture
      <4>3. Settled(Len(script)) = Count("capture", Len(script))
        BY <4>2 DEF Settled, Count
      <4>4. Pending(Len(script)) = 0
        BY <1>3, <4>3, CountFacts DEF Pending
      <4> QED BY <1>3, <1>4, <3>1, <3>3, <4>4
    <3> QED BY <1>3, <3>2, <3>3
  <2>2. /\ \A r \in Processes :
             /\ \A i \in 1 .. Len(unreg[r]) :
                  args[r][filled[r] + i].slot = base[r] + i - 1
             /\ \A i \in 1 .. filled[r] :
                  /\ args[r][i].slot < base[r]
                  /\ data[r][args[r][i].slot] = CapturedInputs(i)
    BY DEF PromiseKept
  <2> QED BY <1>2, <1>3, <2>1, <2>2, SameInputs DEF PromiseKept
<1> QED BY <1>6, <1>7, <1>8, <1>9 DEF Rest

\* A rank that goes on to the next operation changes nothing another rank's
\* part of the invariant depends on.
LEMMA RegistersStep == ASSUME TableInv, TableTypeOK', NEW r \in Processes, Registers(r) PROVE Rest'
<1> USE DEF TableInv
<1> DEFINE ptrs == script[at[r] + 1].ptrs
<1>1. /\ base' = [base EXCEPT ![r] = base[r] + 1]
      /\ at' = [at EXCEPT ![r] = at[r] + 1]
      /\ script' = script /\ unreg' = unreg /\ gathered' = gathered /\ args' = args
      /\ filled' = filled
      /\ HasRoom(r, 1)
  BY DEF Registers
<1>2. /\ at[r] \in Nat /\ at[r] + 1 \in 1 .. Len(script) /\ Len(script) \in Nat
      /\ script[at[r] + 1].op = "register"
  BY DoingFacts DEF Registers
<1>3. /\ Base(at[r] + 1) = Base(at[r]) + 1 /\ Pending(at[r] + 1) = Pending(at[r])
      /\ Settled(at[r] + 1) = Settled(at[r])
      /\ Count("capture", at[r] + 1) = Count("capture", at[r])
      /\ Count("exchange", at[r] + 1) = Count("exchange", at[r])
  BY <1>2, StepFacts
<1>4. /\ \A op, n : Count(op, n)' = Count(op, n)
      /\ \A n : /\ Settled(n)' = Settled(n)
                /\ Pending(n)' = Pending(n) /\ Base(n)' = Base(n)
  BY <1>1, SameCounts
<1>5. base[r] = Base(at[r]) /\ base[r] \in Nat /\ base[r] \in Slots
  BY <1>1, RankFacts, CapacityAssumption DEF HasRoom, Slots
<1>6. /\ \A q \in Processes : q # r => /\ base'[q] = base[q] /\ at'[q] = at[q]
                                       /\ data'[q] = data[q]
      /\ base'[r] = base[r] + 1 /\ at'[r] = at[r] + 1
      /\ \A k \in Slots : data'[r][k] = IF k = base[r] THEN ptrs ELSE data[r][k]
  BY DEF Registers, TableTypeOK
<1>7. \A q \in Processes : at[q] \in Nat /\ at'[q] \in Nat /\ at[q] <= at'[q]
  BY <1>6, RankFacts
<1> HIDE DEF ptrs
<1>8. InStep'
  <2> SUFFICES ASSUME NEW q \in Processes
               PROVE  /\ at'[q] <= Len(script)
                      /\ base'[q] = Base(at'[q])
                      /\ Len(args[q]) = Count("capture", at'[q])
                      /\ Len(unreg[q]) = Pending(at'[q])
                      /\ filled[q] = Settled(at'[q])
                      /\ \/ Len(gathered[q]) = Count("exchange", at'[q])
                         \/ /\ at'[q] < Len(script)
                            /\ Len(gathered[q]) = Count("exchange", at'[q] + 1)
                      /\ \A s \in Processes : filled[q] <= Len(args[s])
                      /\ \A i \in 1 .. Len(unreg[q]) :
                           args[q][filled[q] + i].input = unreg[q][i]
    BY <1>1, <1>4 DEF InStep, Exchanges
  <2>1. CASE q = r
    <3>1. Len(gathered[r]) = Count("exchange", at[r])
      BY <1>3 DEF InStep, Exchanges
    <3>2. at'[r] = at[r] + 1 /\ at'[r] <= Len(script)
      BY <1>2, <1>6
    <3>3. /\ base'[r] = Base(at'[r])
          /\ Len(args[r]) = Count("capture", at'[r])
          /\ Len(unreg[r]) = Pending(at'[r])
          /\ filled[r] = Settled(at'[r])
          /\ Len(gathered[r]) = Count("exchange", at'[r])
      BY <1>3, <1>5, <1>6, <3>1, <3>2 DEF InStep
    <3>4. /\ \A s \in Processes : filled[r] <= Len(args[s])
          /\ \A i \in 1 .. Len(unreg[r]) : args[r][filled[r] + i].input = unreg[r][i]
      BY DEF InStep
    <3> QED BY <2>1, <3>2, <3>3, <3>4
  <2>2. CASE q # r
    BY <1>6, <2>2 DEF InStep, Exchanges
  <2> QED BY <2>1, <2>2
<1>9. GatheredRight'
  <2> SUFFICES ASSUME NEW s \in Processes, NEW p \in 1 .. Len(script),
                      script[p].op = "exchange",
                      Count("exchange", p) <= Len(gathered[s])
               PROVE  LET handles == gathered[s][Count("exchange", p)]
                      IN  /\ p - 1 <= at'[s]
                          /\ Len(handles) = Pending(p - 1)
                          /\ \A i \in 1 .. Pending(p - 1) :
                               Opened(handles[i]) = args[s][Settled(p - 1) + i].input
    BY <1>1, <1>4 DEF GatheredRight
  <2>1. p - 1 <= at[s]
    BY DEF GatheredRight
  <2> QED BY <1>2, <1>7, <2>1 DEF GatheredRight
<1>10. TableRight'
  <2> SUFFICES ASSUME NEW q \in Processes
               PROVE  /\ \A k \in Slots :
                           IF base'[q] <= k THEN data'[q][k] = Empty
                           ELSE \E p \in 1 .. at'[q] : Base(p - 1) <= k /\ k < Base(p)
                      /\ \A p \in 1 .. at'[q] :
                           /\ script[p].op = "register" =>
                                data'[q][Base(p - 1)] = script[p].ptrs
                           /\ script[p].op = "exchange" =>
                                /\ \A s \in Processes : p - 1 <= at'[s]
                                /\ \A i \in 1 .. Pending(p - 1) :
                                     data'[q][Base(p - 1) + i - 1]
                                       = CapturedInputs(Settled(p - 1) + i)
    BY <1>1, <1>4, SameInputs DEF TableRight
  <2>1. ASSUME NEW p \in 1 .. at[q], script[p].op = "exchange", NEW s \in Processes
        PROVE  p - 1 <= at'[s]
    <3>1. p - 1 <= at[s] /\ p - 1 \in Nat
      BY <2>1, EntryPlace DEF TableRight
    <3> QED BY <1>7, <3>1
  <2>2. CASE q # r
    BY <1>6, <2>1, <2>2 DEF TableRight
  <2>3. CASE q = r
    <3>1. ASSUME NEW k \in Slots
          PROVE  IF base[r] + 1 <= k THEN data'[r][k] = Empty
                 ELSE \E p \in 1 .. at[r] + 1 : Base(p - 1) <= k /\ k < Base(p)
      <4>1. k \in Nat
        BY DEF Slots
      <4>2. CASE k = base[r]
        <5>1. (at[r] + 1) - 1 = at[r] /\ at[r] + 1 \in 1 .. at[r] + 1
          BY <1>2
        <5>2. Base((at[r] + 1) - 1) <= k /\ k < Base(at[r] + 1)
          BY <1>3, <1>5, <4>2, <5>1
        <5> QED BY <1>5, <4>2, <5>1, <5>2
      <4>3. CASE base[r] < k
        BY <1>5, <1>6, <4>1, <4>3 DEF TableRight
      <4>4. CASE k < base[r]
        <5>1. PICK p \in 1 .. at[r] : Base(p - 1) <= k /\ k < Base(p)
          BY <1>5, <4>1, <4>4 DEF TableRight
        <5>2. p \in 1 .. at[r] + 1
          BY <1>2
        <5> QED BY <1>5, <4>1, <4>4, <5>1, <5>2
      <4> QED BY <1>5, <4>1, <4>2, <4>3, <4>4
    <3>2. ASSUME NEW p \in 1 .. at[r] + 1, script[p].op = "register"
          PROVE  data'[r][Base(p - 1)] = script[p].ptrs
      <4>1. CASE p = at[r] + 1
        BY <1>2, <1>5, <1>6, <4>1 DEF ptrs
      <4>2. CASE p \in 1 .. at[r]
        <5>1. Base(p - 1) \in Slots /\ Base(p - 1) < base[r]
          BY <3>2, <4>2, EntryPlace
        <5>2. data'[r][Base(p - 1)] = data[r][Base(p - 1)]
          BY <1>5, <1>6, <5>1 DEF Slots
        <5> QED BY <3>2, <4>2, <5>2 DEF TableRight
      <4> QED BY <1>2, <4>1, <4>2
    <3>3. ASSUME NEW p \in 1 .. at[r] + 1, script[p].op = "exchange",
                 NEW i \in 1 .. Pending(p - 1)
          PROVE  data'[r][Base(p - 1) + i - 1]
                   = CapturedInputs(Settled(p - 1) + i)
      <4>1. p \in 1 .. at[r]
        BY <1>2, <3>3
      <4>2. Base(p - 1) + i - 1 \in Slots /\ Base(p - 1) + i - 1 < base[r]
        BY <3>3, <4>1, EntryPlace
      <4>3. data'[r][Base(p - 1) + i - 1] = data[r][Base(p - 1) + i - 1]
        BY <1>5, <1>6, <4>2 DEF Slots
      <4> QED BY <3>3, <4>1, <4>3 DEF TableRight
    <3>4. ASSUME NEW p \in 1 .. at[r] + 1, script[p].op = "exchange"
          PROVE  p \in 1 .. at[r]
      BY <1>2, <3>4
    <3> QED BY <1>6, <2>1, <2>3, <3>1, <3>2, <3>3, <3>4
  <2> QED BY <2>2, <2>3
<1>11. PromiseKept'
  <2> SUFFICES ASSUME ~LateRegister PROVE PromiseKept'
    BY DEF PromiseKept
  <2>1. Len(unreg[r]) = 0
    <3>1. Pending((at[r] + 1) - 1) = 0
      BY <1>2 DEF PromiseKept
    <3> QED BY <1>2, <3>1 DEF InStep
  <2>2. ASSUME NEW q \in Processes, NEW i \in 1 .. Len(unreg[q])
        PROVE  args[q][filled[q] + i].slot = base'[q] + i - 1
    BY <1>6, <2>1, <2>2 DEF PromiseKept
  <2>3. ASSUME NEW q \in Processes, NEW i \in 1 .. filled[q]
        PROVE  /\ args[q][i].slot < base'[q]
               /\ data'[q][args[q][i].slot] = CapturedInputs(i)
    <3>1. /\ args[q][i].slot < base[q]
          /\ data[q][args[q][i].slot] = CapturedInputs(i)
      BY DEF PromiseKept
    <3>2. args[q][i].slot \in Slots /\ args[q][i].slot \in Nat
      <4>1. i \in 1 .. Len(args[q])
        BY RankFacts
      <4>2. args[q][i] \in [slot : Nat, input : Addresses]
        BY <4>1, ElementOfSeq DEF TableTypeOK
      <4>3. base[q] \in 0 .. Capacity
        BY DEF TableTypeOK
      <4> QED BY <3>1, <4>2, <4>3, CapacityAssumption DEF Slots
    <3> QED BY <1>5, <1>6, <3>1, <3>2
  <2> QED BY <1>1, <1>4, <2>2, <2>3, SameInputs DEF PromiseKept
<1> QED BY <1>8, <1>9, <1>10, <1>11 DEF Rest

LEMMA CaptureStep ==
  ASSUME TableInv, TableTypeOK', NEW r \in Processes, NEW a \in Addresses, CaptureAllreduce(r, a)
  PROVE  Rest'
<1> USE DEF TableInv
<1> DEFINE new == [slot |-> base[r] + Len(unreg[r]), input |-> a]
<1>1. /\ args' = [args EXCEPT ![r] = Append(args[r], new)]
      /\ unreg' = [unreg EXCEPT ![r] = Append(unreg[r], a)]
      /\ at' = [at EXCEPT ![r] = at[r] + 1]
  BY DEF CaptureAllreduce
<1>0. /\ script' = script /\ base' = base /\ data' = data /\ gathered' = gathered
      /\ filled' = filled
  BY DEF CaptureAllreduce
<1>2. /\ at[r] \in Nat /\ at[r] + 1 \in 1 .. Len(script) /\ Len(script) \in Nat
      /\ script[at[r] + 1].op = "capture"
  BY DoingFacts DEF CaptureAllreduce
<1>3. /\ Base(at[r] + 1) = Base(at[r]) /\ Pending(at[r] + 1) = Pending(at[r]) + 1
      /\ Settled(at[r] + 1) = Settled(at[r])
      /\ Count("capture", at[r] + 1) = Count("capture", at[r]) + 1
      /\ Count("exchange", at[r] + 1) = Count("exchange", at[r])
  BY <1>2, StepFacts
<1>4. /\ \A op, n : Count(op, n)' = Count(op, n)
      /\ \A n : /\ Settled(n)' = Settled(n)
                /\ Pending(n)' = Pending(n) /\ Base(n)' = Base(n)
  BY <1>0, SameCounts
<1>5. new \in [slot : Nat, input : Addresses]
  BY RankFacts
<1>6. /\ Len(args'[r]) = Len(args[r]) + 1
      /\ \A i \in 1 .. Len(args[r]) : args'[r][i] = args[r][i]
      /\ args'[r][Len(args[r]) + 1] = new
      /\ Len(unreg'[r]) = Len(unreg[r]) + 1
      /\ \A i \in 1 .. Len(unreg[r]) : unreg'[r][i] = unreg[r][i]
      /\ unreg'[r][Len(unreg[r]) + 1] = a
  <2>1. /\ args[r] \in Seq([slot : Nat, input : Addresses])
        /\ unreg[r] \in Seq(Addresses)
        /\ args'[r] = Append(args[r], new) /\ unreg'[r] = Append(unreg[r], a)
    BY <1>1 DEF TableTypeOK
  <2> HIDE DEF new
  <2> QED BY <1>5, <2>1, AppendProperties
<1>14. /\ Len(args[r]) \in Nat /\ Len(unreg[r]) \in Nat
       /\ filled[r] \in Nat /\ filled[r] + Len(unreg[r]) = Len(args[r])
  BY RankFacts
<1>7. \A q \in Processes : q # r => /\ args'[q] = args[q] /\ unreg'[q] = unreg[q]
                                    /\ at'[q] = at[q]
  BY <1>1 DEF TableTypeOK
<1>8. /\ at'[r] = at[r] + 1
      /\ \A q \in Processes : at[q] \in Nat /\ at'[q] \in Nat /\ at[q] <= at'[q]
  <2>1. at'[r] = at[r] + 1
    BY <1>1 DEF TableTypeOK
  <2>2. \A q \in Processes : at[q] \in Nat
    BY RankFacts
  <2> QED BY <1>7, <2>1, <2>2
<1>9. \A q \in Processes : /\ \A i \in 1 .. Len(args[q]) : args'[q][i] = args[q][i]
                           /\ Len(args[q]) \in Nat /\ Len(args'[q]) \in Nat
                           /\ Len(args[q]) <= Len(args'[q])
  <2> TAKE q \in Processes
  <2>1. Len(args[q]) \in Nat
    BY RankFacts
  <2>2. CASE q = r
    BY <1>6, <1>14, <2>2
  <2>3. CASE q # r
    BY <1>7, <2>1, <2>3
  <2> QED BY <2>2, <2>3
<1> HIDE DEF new
<1>10. InStep'
  <2> SUFFICES ASSUME NEW q \in Processes
               PROVE  /\ at'[q] <= Len(script)
                      /\ base[q] = Base(at'[q])
                      /\ Len(args'[q]) = Count("capture", at'[q])
                      /\ Len(unreg'[q]) = Pending(at'[q])
                      /\ filled[q] = Settled(at'[q])
                      /\ \/ Len(gathered[q]) = Count("exchange", at'[q])
                         \/ /\ at'[q] < Len(script)
                            /\ Len(gathered[q]) = Count("exchange", at'[q] + 1)
                      /\ \A s \in Processes : filled[q] <= Len(args'[s])
                      /\ \A i \in 1 .. Len(unreg'[q]) :
                           args'[q][filled[q] + i].input = unreg'[q][i]
    BY <1>0, <1>4 DEF InStep, Exchanges
  <2>1. \A s \in Processes : filled[q] <= Len(args'[s])
    <3> TAKE s \in Processes
    <3>1. filled[q] <= Len(args[s]) /\ filled[q] \in Nat
      BY RankFacts DEF InStep
    <3> QED BY <1>9, <3>1
  <2>2. CASE q = r
    <3>1. Len(gathered[r]) = Count("exchange", at[r])
      BY <1>3 DEF InStep, Exchanges
    <3>2. ASSUME NEW i \in 1 .. Len(unreg[r]) + 1
          PROVE  args'[r][filled[r] + i].input = unreg'[r][i]
      <4>1. CASE i = Len(unreg[r]) + 1
        <5>1. filled[r] + i = Len(args[r]) + 1
          BY <1>14, <4>1
        <5> QED BY <1>6, <4>1, <5>1 DEF new
      <4>2. CASE i \in 1 .. Len(unreg[r])
        <5>1. filled[r] + i \in 1 .. Len(args[r])
          BY <1>14, <4>2
        <5> QED BY <1>6, <4>2, <5>1 DEF InStep
      <4> QED BY <1>14, <4>1, <4>2
    <3>3. /\ at[r] + 1 <= Len(script) /\ base[r] = Base(at[r] + 1)
          /\ Len(args'[r]) = Count("capture", at[r] + 1)
          /\ Len(unreg'[r]) = Pending(at[r] + 1)
          /\ filled[r] = Settled(at[r] + 1)
      BY <1>2, <1>3, <1>6 DEF InStep
    <3> QED BY <1>3, <1>6, <1>8, <2>1, <2>2, <3>1, <3>2, <3>3
  <2>3. CASE q # r
    BY <1>7, <2>1, <2>3 DEF InStep, Exchanges
  <2> QED BY <2>2, <2>3
<1>11. GatheredRight'
  <2> SUFFICES ASSUME NEW s \in Processes, NEW p \in 1 .. Len(script),
                      script[p].op = "exchange",
                      Count("exchange", p) <= Len(gathered[s])
               PROVE  LET handles == gathered[s][Count("exchange", p)]
                      IN  /\ p - 1 <= at'[s]
                          /\ Len(handles) = Pending(p - 1)
                          /\ \A i \in 1 .. Pending(p - 1) :
                               Opened(handles[i]) = args'[s][Settled(p - 1) + i].input
    BY <1>0, <1>4 DEF GatheredRight
  <2>1. p - 1 <= at[s]
    BY DEF GatheredRight
  <2>2. \A i \in 1 .. Pending(p - 1) :
          args'[s][Settled(p - 1) + i] = args[s][Settled(p - 1) + i]
    BY <1>9, <2>1, GatheredPlace
  <2>3. p - 1 <= at'[s]
    BY <1>2, <1>8, <2>1
  <2>4. LET handles == gathered[s][Count("exchange", p)]
        IN  /\ Len(handles) = Pending(p - 1)
            /\ \A i \in 1 .. Pending(p - 1) :
                 Opened(handles[i]) = args[s][Settled(p - 1) + i].input
    BY DEF GatheredRight
  <2> QED BY <2>2, <2>3, <2>4
<1>15. \A n : Settled(n)' = Settled(n) /\ Pending(n)' = Pending(n) /\ Base(n)' = Base(n)
  BY <1>4
<1>12. TableRight'
  <2> SUFFICES ASSUME NEW q \in Processes
               PROVE  /\ \A k \in Slots :
                           IF base[q] <= k THEN data[q][k] = Empty
                           ELSE \E p \in 1 .. at'[q] : Base(p - 1) <= k /\ k < Base(p)
                      /\ \A p \in 1 .. at'[q] :
                           /\ script[p].op = "register" =>
                                data[q][Base(p - 1)] = script[p].ptrs
                           /\ script[p].op = "exchange" =>
                                /\ \A s \in Processes : p - 1 <= at'[s]
                                /\ \A i \in 1 .. Pending(p - 1) :
                                     data[q][Base(p - 1) + i - 1]
                                       = CapturedInputs(Settled(p - 1) + i)'
    BY <1>0, <1>15, SMTT(60) DEF TableRight
  <2>1. ASSUME NEW k \in Slots
        PROVE  IF base[q] <= k THEN data[q][k] = Empty
               ELSE \E p \in 1 .. at'[q] : Base(p - 1) <= k /\ k < Base(p)
    <3>1. CASE base[q] <= k
      BY <3>1 DEF TableRight
    <3>2. CASE ~(base[q] <= k)
      <4>1. PICK p \in 1 .. at[q] : Base(p - 1) <= k /\ k < Base(p)
        BY <3>2 DEF TableRight
      <4>2. p \in 1 .. at'[q]
        BY <1>8
      <4> QED BY <3>2, <4>1, <4>2
    <3> QED BY <3>1, <3>2
  <2>2. ASSUME NEW p \in 1 .. at'[q], script[p].op \in {"register", "exchange"}
        PROVE  p \in 1 .. at[q]
    BY <1>2, <1>7, <1>8, <2>2
  <2>3. ASSUME NEW p \in 1 .. at[q], script[p].op = "exchange"
        PROVE  /\ \A s \in Processes : p - 1 <= at'[s]
               /\ \A i \in 1 .. Pending(p - 1) :
                    data[q][Base(p - 1) + i - 1]
                      = CapturedInputs(Settled(p - 1) + i)'
    <3>1. p - 1 \in Nat /\ \A s \in Processes : p - 1 <= at[s]
      BY <2>3, EntryPlace DEF TableRight
    <3>2. \A i \in 1 .. Pending(p - 1), s \in Processes :
            args'[s][Settled(p - 1) + i] = args[s][Settled(p - 1) + i]
      BY <1>9, <2>3, <3>1, EntryPlace
    <3>3. \A i \in 1 .. Pending(p - 1) :
            CapturedInputs(Settled(p - 1) + i)' = CapturedInputs(Settled(p - 1) + i)
      <4> TAKE i \in 1 .. Pending(p - 1)
      <4>1. Settled(p - 1)' = Settled(p - 1)
        BY <1>15
      <4> QED BY <3>2, <4>1 DEF CapturedInputs
    <3>4. \A i \in 1 .. Pending(p - 1) :
            data[q][Base(p - 1) + i - 1] = CapturedInputs(Settled(p - 1) + i)
      BY <2>3 DEF TableRight
    <3> QED BY <1>8, <3>1, <3>3, <3>4
  <2> QED BY <2>1, <2>2, <2>3 DEF TableRight
<1>13. PromiseKept'
  <2> SUFFICES ASSUME ~LateRegister PROVE PromiseKept'
    BY DEF PromiseKept
  <2>1. ASSUME NEW q \in Processes, NEW i \in 1 .. Len(unreg'[q])
        PROVE  args'[q][filled[q] + i].slot = base[q] + i - 1
    <3>1. CASE q # r
      BY <1>7, <2>1, <3>1 DEF PromiseKept
    <3>2. CASE q = r /\ i = Len(unreg[r]) + 1
      <4>1. filled[r] + i = Len(args[r]) + 1
        BY <1>14, <3>2
      <4>2. base[r] \in Nat
        BY RankFacts
      <4> QED BY <1>6, <1>14, <3>2, <4>1, <4>2 DEF new
    <3>3. CASE q = r /\ i \in 1 .. Len(unreg[r])
      <4>1. filled[r] + i \in 1 .. Len(args[r])
        BY <1>14, <3>3
      <4> QED BY <1>6, <3>3, <4>1 DEF PromiseKept
    <3> QED BY <1>6, <1>14, <2>1, <3>1, <3>2, <3>3
  <2>2. ASSUME NEW q \in Processes, NEW i \in 1 .. filled[q]
        PROVE  /\ args'[q][i].slot < base[q]
               /\ data[q][args'[q][i].slot] = CapturedInputs(i)'
    <3>1. \A s \in Processes : i \in 1 .. Len(args[s])
      <4> TAKE s \in Processes
      <4>1. filled[q] <= Len(args[s]) /\ filled[q] \in Nat /\ Len(args[s]) \in Nat
        BY RankFacts DEF InStep
      <4> QED BY <4>1
    <3>2. \A s \in Processes : args'[s][i] = args[s][i]
      BY <1>9, <3>1
    <3> QED BY <3>2 DEF PromiseKept, CapturedInputs
  <2> QED BY <1>0, <1>4, <2>1, <2>2 DEF PromiseKept
<1> QED BY <1>10, <1>11, <1>12, <1>13 DEF Rest

LEMMA GatherStep == ASSUME TableInv, TableTypeOK', NEW r \in Processes, GatherIpcMeta(r) PROVE Rest'
<1> USE DEF TableInv
<1> DEFINE h == [i \in DOMAIN unreg[r] |-> <<unreg[r][i].alloc, unreg[r][i].offset>>]
<1>0. /\ script' = script /\ at' = at /\ base' = base /\ data' = data /\ unreg' = unreg
      /\ args' = args /\ filled' = filled
  BY DEF GatherIpcMeta
<1>1. gathered' = [gathered EXCEPT ![r] = Append(gathered[r], h)]
      /\ Len(gathered[r]) = Exchanges(r)
  BY DEF GatherIpcMeta
<1>2. /\ at[r] \in Nat /\ at[r] + 1 \in 1 .. Len(script) /\ Len(script) \in Nat
      /\ script[at[r] + 1].op = "exchange"
  BY DoingFacts DEF GatherIpcMeta
<1>3. Count("exchange", at[r] + 1) = Exchanges(r) + 1 /\ Exchanges(r) \in Nat
  BY <1>2, StepFacts, RankFacts DEF Exchanges
<1>4. /\ \A op, n : Count(op, n)' = Count(op, n)
      /\ \A n : /\ Settled(n)' = Settled(n)
                /\ Pending(n)' = Pending(n) /\ Base(n)' = Base(n)
  BY <1>0, SameCounts
<1>5. /\ Len(unreg[r]) \in Nat /\ Len(h) = Len(unreg[r])
      /\ \A i \in 1 .. Len(unreg[r]) : Opened(h[i]) = unreg[r][i]
      /\ h \in Seq(Handles)
  <2>1. unreg[r] \in Seq(Addresses) /\ DOMAIN unreg[r] = 1 .. Len(unreg[r])
        /\ Len(unreg[r]) \in Nat
    BY DEF TableTypeOK
  <2>2. \A i \in 1 .. Len(unreg[r]) : unreg[r][i] \in Addresses
    BY <2>1, ElementOfSeq
  <2>3. \A i \in 1 .. Len(unreg[r]) :
          /\ h[i] = <<unreg[r][i].alloc, unreg[r][i].offset>>
          /\ Opened(h[i]) = unreg[r][i] /\ h[i] \in Handles
    BY <2>1, <2>2, OpenedFacts
  <2>4. h \in [1 .. Len(unreg[r]) -> Handles]
    BY <2>1, <2>3
  <2>5. h \in Seq(Handles)
    BY <2>1, <2>4, SeqDef
  <2>6. Len(h) = Len(unreg[r])
    BY <2>1, <2>5, LenProperties
  <2> QED BY <2>1, <2>3, <2>5, <2>6
<1> HIDE DEF h
<1>6. /\ Len(gathered'[r]) = Exchanges(r) + 1
      /\ \A n \in 1 .. Exchanges(r) : gathered'[r][n] = gathered[r][n]
      /\ gathered'[r][Exchanges(r) + 1] = h
      /\ \A q \in Processes : q # r => gathered'[q] = gathered[q]
  <2>1. gathered[r] \in Seq(Seq(Handles)) /\ gathered'[r] = Append(gathered[r], h)
    BY <1>1 DEF TableTypeOK
  <2>2. \A q \in Processes : q # r => gathered'[q] = gathered[q]
    BY <1>1 DEF TableTypeOK
  <2> QED BY <1>1, <1>5, <2>1, <2>2, AppendProperties
<1>7. InStep'
  <2> SUFFICES ASSUME NEW q \in Processes
               PROVE  \/ Len(gathered'[q]) = Count("exchange", at[q])
                      \/ /\ at[q] < Len(script)
                         /\ Len(gathered'[q]) = Count("exchange", at[q] + 1)
    BY <1>0, <1>4 DEF InStep, Exchanges
  <2> QED BY <1>2, <1>3, <1>6 DEF InStep, Exchanges
<1>8. GatheredRight'
  <2> SUFFICES ASSUME NEW s \in Processes, NEW p \in 1 .. Len(script),
                      script[p].op = "exchange",
                      Count("exchange", p) <= Len(gathered'[s])
               PROVE  LET handles == gathered'[s][Count("exchange", p)]
                      IN  /\ p - 1 <= at[s]
                          /\ Len(handles) = Pending(p - 1)
                          /\ \A i \in 1 .. Pending(p - 1) :
                               Opened(handles[i]) = args[s][Settled(p - 1) + i].input
    BY <1>0, <1>4 DEF GatheredRight
  <2>1. p - 1 \in Nat /\ p \in Nat /\ (p - 1) + 1 = p
    BY <1>2
  <2>2. Count("exchange", p) = Count("exchange", p - 1) + 1 /\ Count("exchange", p - 1) \in Nat
    BY <2>1, StepFacts, CountFacts
  <2>3. CASE s # r
    BY <1>6, <2>3 DEF GatheredRight
  <2>4. CASE s = r /\ Count("exchange", p) <= Len(gathered[r])
    <3>1. Count("exchange", p) \in 1 .. Exchanges(r)
      BY <1>1, <1>3, <2>2, <2>4
    <3>2. gathered'[r][Count("exchange", p)] = gathered[r][Count("exchange", p)]
      BY <1>6, <3>1
    <3> QED BY <2>4, <3>2 DEF GatheredRight
  <2>5. CASE s = r /\ ~(Count("exchange", p) <= Len(gathered[r]))
    <3>1. Count("exchange", p) = Exchanges(r) + 1
      BY <1>1, <1>3, <1>6, <2>2, <2>5
    <3>2. p = at[r] + 1
      <4>1. CASE p <= at[r]
        <5>1. Count("exchange", p) <= Exchanges(r)
          BY <1>2, <2>1, <4>1, CountMono DEF Exchanges
        <5> QED BY <1>3, <3>1, <5>1
      <4>2. CASE at[r] + 1 <= p - 1
        <5>1. Count("exchange", at[r] + 1) <= Count("exchange", p - 1)
          BY <1>2, <2>1, <4>2, CountMono
        <5> QED BY <1>3, <2>2, <3>1, <5>1
      <4> QED BY <1>2, <2>1, <4>1, <4>2
    <3>3. p - 1 = at[r] /\ Pending(p - 1) = Len(unreg[r]) /\ Settled(p - 1) = filled[r]
      BY <1>2, <3>2 DEF InStep
    <3> QED BY <1>2, <1>5, <1>6, <2>5, <3>1, <3>3 DEF InStep
  <2> QED BY <2>3, <2>4, <2>5
<1>9. TableRight'
  BY <1>0, <1>4, SameInputs DEF TableRight
<1>10. PromiseKept'
  BY <1>0, <1>4, SameInputs DEF PromiseKept
<1> QED BY <1>7, <1>8, <1>9, <1>10 DEF Rest

LEMMA RegistersGraphStep ==
  ASSUME TableInv, TableTypeOK', NEW r \in Processes, RegistersGraph(r)
  PROVE  Rest'
<1> USE DEF TableInv
<1> DEFINE num == Len(unreg[r])
<1>0. script' = script /\ gathered' = gathered /\ args' = args
  BY DEF RegistersGraph
<1>1. /\ unreg'[r] = <<>> /\ filled'[r] = Len(args[r]) /\ at'[r] = at[r] + 1
      /\ base'[r] = base[r] + num
  BY DEF RegistersGraph, TableTypeOK
<1>14. \A k \in Slots : data'[r][k] = IF k \in base[r] .. base[r] + num - 1
                                        THEN Entry(r, k - base[r] + 1) ELSE data[r][k]
  BY DEF RegistersGraph, TableTypeOK
<1>15. \A q \in Processes : q # r =>
         /\ base'[q] = base[q] /\ at'[q] = at[q] /\ data'[q] = data[q]
         /\ unreg'[q] = unreg[q] /\ filled'[q] = filled[q]
  BY DEF RegistersGraph, TableTypeOK
<1>2. /\ at[r] \in Nat /\ at[r] + 1 \in 1 .. Len(script) /\ Len(script) \in Nat
      /\ script[at[r] + 1].op = "exchange" /\ (at[r] + 1) - 1 = at[r]
  BY DoingFacts DEF RegistersGraph
<1>3. /\ Base(at[r] + 1) = Base(at[r]) + Pending(at[r]) /\ Pending(at[r] + 1) = 0
      /\ Settled(at[r] + 1) = Count("capture", at[r])
      /\ Count("capture", at[r] + 1) = Count("capture", at[r])
      /\ Count("exchange", at[r] + 1) = Exchanges(r) + 1
  BY <1>2, StepFacts DEF Exchanges
<1>4. /\ \A op, n : Count(op, n)' = Count(op, n)
      /\ \A n : /\ Settled(n)' = Settled(n)
                /\ Pending(n)' = Pending(n) /\ Base(n)' = Base(n)
  BY <1>0, SameCounts
<1>5. /\ base[r] = Base(at[r]) /\ base[r] \in Nat
      /\ num = Pending(at[r]) /\ num \in Nat
      /\ filled[r] = Settled(at[r]) /\ filled[r] \in Nat
      /\ Len(args[r]) = Count("capture", at[r]) /\ filled[r] + num = Len(args[r])
      /\ base[r] + num \in 0 .. Capacity /\ Exchanges(r) \in Nat
  BY RankFacts, CapacityAssumption DEF RegistersGraph, HasRoom
<1>6. /\ \A s \in Processes : at[r] <= at[s]
      /\ \A i \in 1 .. num :
           Entry(r, i) = CapturedInputs(filled[r] + i)
  BY ExchangeFacts DEF RegistersGraph
<1>7. \A i \in 1 .. num : /\ base[r] + i - 1 \in Slots
                          /\ data'[r][base[r] + i - 1]
                               = CapturedInputs(filled[r] + i)
  <2> TAKE i \in 1 .. num
  <2> HIDE DEF num
  <2>1. /\ base[r] + i - 1 \in Slots /\ base[r] + i - 1 \in base[r] .. base[r] + num - 1
        /\ (base[r] + i - 1) - base[r] + 1 = i
    BY <1>5, CapacityAssumption DEF Slots
  <2>2. data'[r][base[r] + i - 1] = Entry(r, i)
    BY <1>14, <2>1
  <2> QED BY <1>6, <2>1, <2>2
<1>8. \A k \in Slots : k < base[r] \/ base[r] + num <= k => data'[r][k] = data[r][k]
  BY <1>5, <1>14 DEF Slots
<1>9. \A q \in Processes : at[q] \in Nat /\ at'[q] \in Nat /\ at[q] <= at'[q]
  <2>1. \A q \in Processes : at[q] \in Nat
    BY RankFacts
  <2> QED BY <1>1, <1>15, <2>1
<1> HIDE DEF num
<1>10. InStep'
  <2> SUFFICES ASSUME NEW q \in Processes
               PROVE  /\ at'[q] <= Len(script)
                      /\ base'[q] = Base(at'[q])
                      /\ Len(args[q]) = Count("capture", at'[q])
                      /\ Len(unreg'[q]) = Pending(at'[q])
                      /\ filled'[q] = Settled(at'[q])
                      /\ \/ Len(gathered[q]) = Count("exchange", at'[q])
                         \/ /\ at'[q] < Len(script)
                            /\ Len(gathered[q]) = Count("exchange", at'[q] + 1)
                      /\ \A s \in Processes : filled'[q] <= Len(args[s])
                      /\ \A i \in 1 .. Len(unreg'[q]) :
                           args[q][filled'[q] + i].input = unreg'[q][i]
    BY <1>0, <1>4 DEF InStep, Exchanges
  <2>1. CASE q = r
    <3>1. /\ at'[r] <= Len(script) /\ base'[r] = Base(at'[r])
          /\ Len(args[r]) = Count("capture", at'[r])
          /\ filled'[r] = Settled(at'[r])
      BY <1>1, <1>2, <1>3, <1>5
    <3>2. Len(unreg'[r]) = 0 /\ Pending(at'[r]) = 0
      BY <1>1, <1>3
    <3>3. Len(gathered[r]) = Count("exchange", at'[r])
      <4>1. Len(gathered[r]) >= Exchanges(r) + 1
        BY DEF RegistersGraph
      <4> QED BY <1>1, <1>3, <1>5, <4>1, GatheredFacts
    <3>4. \A s \in Processes : filled'[r] <= Len(args[s])
      <4> TAKE s \in Processes
      <4>1. Len(args[s]) = Count("capture", at[s]) /\ at[s] \in Nat /\ at[r] <= at[s]
        BY <1>6, RankFacts
      <4> QED BY <1>1, <1>2, <1>5, <4>1, CountMono
    <3> QED BY <2>1, <3>1, <3>2, <3>3, <3>4
  <2>2. CASE q # r
    BY <1>15, <2>2 DEF InStep, Exchanges
  <2> QED BY <2>1, <2>2
<1>11. GatheredRight'
  <2> SUFFICES ASSUME NEW s \in Processes, NEW p \in 1 .. Len(script),
                      script[p].op = "exchange",
                      Count("exchange", p) <= Len(gathered[s])
               PROVE  LET handles == gathered[s][Count("exchange", p)]
                      IN  /\ p - 1 <= at'[s]
                          /\ Len(handles) = Pending(p - 1)
                          /\ \A i \in 1 .. Pending(p - 1) :
                               Opened(handles[i]) = args[s][Settled(p - 1) + i].input
    BY <1>0, <1>4 DEF GatheredRight
  <2>1. p - 1 <= at[s]
    BY DEF GatheredRight
  <2>2. p - 1 <= at'[s]
    BY <1>2, <1>9, <2>1
  <2> QED BY <2>2 DEF GatheredRight
<1>12. TableRight'
  <2> SUFFICES ASSUME NEW q \in Processes
               PROVE  /\ \A k \in Slots :
                           IF base'[q] <= k THEN data'[q][k] = Empty
                           ELSE \E p \in 1 .. at'[q] : Base(p - 1) <= k /\ k < Base(p)
                      /\ \A p \in 1 .. at'[q] :
                           /\ script[p].op = "register" =>
                                data'[q][Base(p - 1)] = script[p].ptrs
                           /\ script[p].op = "exchange" =>
                                /\ \A s \in Processes : p - 1 <= at'[s]
                                /\ \A i \in 1 .. Pending(p - 1) :
                                     data'[q][Base(p - 1) + i - 1]
                                       = CapturedInputs(Settled(p - 1) + i)
    BY <1>0, <1>4, SameInputs DEF TableRight
  <2>1. ASSUME NEW p \in 1 .. at[q], script[p].op = "exchange", NEW s \in Processes
        PROVE  p - 1 <= at'[s]
    <3>1. p - 1 <= at[s] /\ p - 1 \in Nat
      BY <2>1, EntryPlace DEF TableRight
    <3> QED BY <1>9, <3>1
  <2>2. CASE q # r
    <3>1. base'[q] = base[q] /\ at'[q] = at[q] /\ data'[q] = data[q]
      BY <1>15, <2>2
    <3>2. \A k \in Slots :
            IF base[q] <= k THEN data[q][k] = Empty
                            ELSE \E p \in 1 .. at[q] : Base(p - 1) <= k /\ k < Base(p)
      BY DEF TableRight
    <3>3. \A p \in 1 .. at[q] :
            script[p].op = "register" => data[q][Base(p - 1)] = script[p].ptrs
      BY DEF TableRight
    <3>4. \A p \in 1 .. at[q] :
            script[p].op = "exchange" =>
              \A i \in 1 .. Pending(p - 1) :
                data[q][Base(p - 1) + i - 1]
                  = CapturedInputs(Settled(p - 1) + i)
      BY DEF TableRight
    <3>5. \A p \in 1 .. at[q] :
            script[p].op = "exchange" => \A s \in Processes : p - 1 <= at'[s]
      BY <2>1
    <3> QED BY ONLY <3>1, <3>2, <3>3, <3>4, <3>5
  <2>3. CASE q = r
    <3>1. ASSUME NEW k \in Slots
          PROVE  IF base[r] + num <= k THEN data'[r][k] = Empty
                 ELSE \E p \in 1 .. at[r] + 1 : Base(p - 1) <= k /\ k < Base(p)
      <4>1. k \in Nat
        BY DEF Slots
      <4>2. CASE base[r] + num <= k
        <5>1. base[r] <= k
          BY <1>5, <4>1, <4>2
        <5> QED BY <1>8, <4>2, <5>1 DEF TableRight
      <4>3. CASE base[r] <= k /\ k < base[r] + num
        <5>1. at[r] + 1 \in 1 .. at[r] + 1
          BY <1>2
        <5>2. Base((at[r] + 1) - 1) <= k /\ k < Base(at[r] + 1)
          BY <1>2, <1>3, <1>5, <4>3
        <5> QED BY <1>5, <4>1, <4>3, <5>1, <5>2
      <4>4. CASE k < base[r]
        <5>1. PICK p \in 1 .. at[r] : Base(p - 1) <= k /\ k < Base(p)
          BY <1>5, <4>1, <4>4 DEF TableRight
        <5>2. p \in 1 .. at[r] + 1
          BY <1>2
        <5> QED BY <1>5, <4>1, <4>4, <5>1, <5>2
      <4> QED BY <1>5, <4>1, <4>2, <4>3, <4>4
    <3>2. ASSUME NEW p \in 1 .. at[r], script[p].op = "register"
          PROVE  data'[r][Base(p - 1)] = script[p].ptrs
      <4>1. Base(p - 1) \in Slots /\ Base(p - 1) < base[r]
        BY <3>2, EntryPlace
      <4> QED BY <1>8, <3>2, <4>1 DEF TableRight
    <3>3. ASSUME NEW p \in 1 .. at[r], script[p].op = "exchange",
                 NEW i \in 1 .. Pending(p - 1)
          PROVE  data'[r][Base(p - 1) + i - 1]
                   = CapturedInputs(Settled(p - 1) + i)
      <4>1. Base(p - 1) + i - 1 \in Slots /\ Base(p - 1) + i - 1 < base[r]
        BY <3>3, EntryPlace
      <4>2. data'[r][Base(p - 1) + i - 1] = data[r][Base(p - 1) + i - 1]
        BY <1>8, <4>1
      <4> QED BY <3>3, <4>2 DEF TableRight
    <3>4. ASSUME NEW p \in 1 .. at[r] + 1, p \notin 1 .. at[r]
          PROVE  /\ script[p].op = "exchange"
                 /\ \A s \in Processes : p - 1 <= at'[s]
                 /\ \A i \in 1 .. Pending(p - 1) :
                      data'[r][Base(p - 1) + i - 1]
                        = CapturedInputs(Settled(p - 1) + i)
      <4>1. p = at[r] + 1 /\ p - 1 = at[r]
        BY <1>2, <3>4
      <4>2. \A s \in Processes : p - 1 <= at'[s]
        BY <1>2, <1>6, <1>9, <4>1
      <4>3. /\ Pending(p - 1) = num /\ Base(p - 1) = base[r] /\ Settled(p - 1) = filled[r]
        BY <1>5, <4>1
      <4> QED BY <1>2, <1>7, <4>1, <4>2, <4>3
    <3> QED BY <1>1, <2>1, <2>3, <3>1, <3>2, <3>3, <3>4
  <2> QED BY <2>2, <2>3
<1>13. PromiseKept'
  <2> SUFFICES ASSUME ~LateRegister PROVE PromiseKept'
    BY DEF PromiseKept
  <2>1. ASSUME NEW q \in Processes, NEW i \in 1 .. Len(unreg'[q])
        PROVE  args[q][filled'[q] + i].slot = base'[q] + i - 1
    BY <1>1, <1>15, <2>1 DEF PromiseKept
  <2>2. ASSUME NEW q \in Processes, NEW i \in 1 .. filled'[q]
        PROVE  /\ args[q][i].slot < base'[q]
               /\ data'[q][args[q][i].slot] = CapturedInputs(i)
    <3>1. CASE q # r
      BY <1>15, <2>2, <3>1 DEF PromiseKept
    <3>2. CASE q = r /\ i \in 1 .. filled[r]
      <4>1. /\ args[r][i].slot < base[r]
            /\ data[r][args[r][i].slot] = CapturedInputs(i)
        BY <3>2 DEF PromiseKept
      <4>2. args[r][i].slot \in Slots /\ args[r][i].slot \in Nat
        <5>1. i \in 1 .. Len(args[r])
          BY <1>5, <3>2
        <5>2. args[r][i] \in [slot : Nat, input : Addresses]
          BY <5>1, ElementOfSeq DEF TableTypeOK
        <5> QED BY <1>5, <4>1, <5>2, CapacityAssumption DEF Slots
      <4>3. args[r][i].slot < base'[r]
        BY <1>1, <1>5, <4>1, <4>2
      <4>4. data'[r][args[r][i].slot] = data[r][args[r][i].slot]
        BY <1>8, <4>1, <4>2
      <4> QED BY <3>2, <4>1, <4>3, <4>4
    <3>3. CASE q = r /\ i \notin 1 .. filled[r]
      <4> DEFINE j == i - filled[r]
      <4>1. j \in 1 .. num /\ filled[r] + j = i
        BY <1>1, <1>5, <2>2, <3>3
      <4> HIDE DEF j
      <4>2. args[r][i].slot = base[r] + j - 1
        BY <4>1 DEF PromiseKept, num
      <4>3. data'[r][base[r] + j - 1] = CapturedInputs(i)
        BY <1>7, <4>1
      <4>4. base[r] + j - 1 < base[r] + num
        BY <1>5, <4>1
      <4> QED BY <1>1, <3>3, <4>2, <4>3, <4>4
    <3> QED BY <3>1, <3>2, <3>3
  <2> QED BY <1>0, <1>4, <2>1, <2>2, SameInputs DEF PromiseKept
<1> QED BY <1>10, <1>11, <1>12, <1>13 DEF Rest

-----------------------------------------------------------------------------
LEMMA TableInvInit == TableInit => TableInv
<1> SUFFICES ASSUME TableInit PROVE TableInv
  OBVIOUS
<1> USE CapacityAssumption
<1>1. script = <<>> /\ Len(script) = 0
  BY DEF TableInit
<1>2. \A r \in Processes : /\ at[r] = 0 /\ base[r] = 0 /\ filled[r] = 0
                           /\ unreg[r] = <<>> /\ gathered[r] = <<>> /\ args[r] = <<>>
                           /\ \A k \in Slots : data[r][k] = Empty
  BY DEF TableInit
<1>3. /\ Count("exchange", 0) = 0 /\ Count("capture", 0) = 0 /\ Count("register", 0) = 0
      /\ Settled(0) = 0
  BY CountFacts, SettledFacts
<1>4. Pending(0) = 0 /\ Base(0) = 0
  BY <1>3 DEF Pending, Base
<1>5. TableTypeOK
  <2>1. script \in Seq(Operations) /\ Len(script) <= MaxOps
    BY <1>1, EmptySeq
  <2>2. /\ <<>> \in Seq(Addresses) /\ <<>> \in Seq(Seq(Handles))
        /\ <<>> \in Seq([slot : Nat, input : Addresses])
    BY EmptySeq
  <2> QED BY <2>1, <2>2 DEF TableInit, TableTypeOK
<1>6. InStep
  BY <1>1, <1>2, <1>3, <1>4 DEF InStep, Exchanges
<1>7. GatheredRight
  BY <1>1 DEF GatheredRight
<1>8. TableRight
  <2>1. \A k \in Slots : 0 <= k
    BY DEF Slots
  <2> QED BY <1>2, <2>1 DEF TableRight
<1>9. PromiseKept
  BY <1>1, <1>2 DEF PromiseKept
<1> QED BY <1>5, <1>6, <1>7, <1>8, <1>9 DEF TableInv

\* Nothing of it is about the exceptions.
LEMMA SameRest ==
  ASSUME Rest, UNCHANGED <<script, at, base, data, buffers, unreg, gathered, args, filled>>
  PROVE  Rest'
<1>1. /\ \A op, n : Count(op, n)' = Count(op, n)
      /\ \A n : /\ Settled(n)' = Settled(n)
                /\ Pending(n)' = Pending(n) /\ Base(n)' = Base(n)
  BY SameCounts
<1>2. InStep'
  BY <1>1 DEF Rest, InStep, Exchanges
<1>3. GatheredRight'
  BY <1>1 DEF Rest, GatheredRight
<1>4. TableRight'
  BY <1>1, SameInputs DEF Rest, TableRight
<1>5. PromiseKept'
  BY <1>1, SameInputs DEF Rest, PromiseKept
<1> QED BY <1>2, <1>3, <1>4, <1>5 DEF Rest

LEMMA TableInvStep == TableInv /\ [TableNext]_tableVars => TableInv'
<1> SUFFICES ASSUME TableInv, [TableNext]_tableVars PROVE TableInv'
  OBVIOUS
<1>1. TableTypeOK' /\ Rest
  BY TableTypeStep DEF TableInv, Rest
<1>2. CASE UNCHANGED tableVars \/ ScriptFinished
  BY <1>1, <1>2, SameRest DEF ScriptFinished, tableVars, TableInv, Rest
<1>3. CASE Ask
  BY <1>1, <1>3, AskStep DEF TableInv, Rest
<1>4. ASSUME NEW r \in Processes, RegisterBuffer(r) \/ RegisterGraphBuffers(r) PROVE TableInv'
  <2>1. CASE Throw(r)
    BY <1>1, <2>1, SameRest DEF Throw, TableInv, Rest
  <2>2. CASE Registers(r)
    BY <1>1, <2>2, RegistersStep DEF TableInv, Rest
  <2>3. CASE RegistersGraph(r)
    BY <1>1, <2>3, RegistersGraphStep DEF TableInv, Rest
  <2> QED BY <1>4, <2>1, <2>2, <2>3, RegisterEffects
<1>5. ASSUME NEW r \in Processes, NEW a \in Addresses, CaptureAllreduce(r, a) PROVE TableInv'
  BY <1>1, <1>5, CaptureStep DEF TableInv, Rest
<1>6. ASSUME NEW r \in Processes, GatherIpcMeta(r) PROVE TableInv'
  BY <1>1, <1>6, GatherStep DEF TableInv, Rest
<1> QED BY <1>2, <1>3, <1>4, <1>5, <1>6 DEF TableNext

\* The strengthening is an invariant of the registrations.
THEOREM TableInvariant == TableSpec => []TableInv
<1> QED BY TableInvInit, TableInvStep, PTL DEF TableSpec

-----------------------------------------------------------------------------
\* What an operation has written is below the base, and every operation
\* writes at the base or above it.
LEMMA WrittenBelowBase ==
  ASSUME TableInv, NEW r \in Processes, NEW k \in Slots, data[r][k] # Empty
  PROVE  k < base[r] /\ base[r] \in Nat /\ k \in Nat
<1>1. base[r] \in Nat /\ k \in Nat
  BY RankFacts DEF TableInv, Slots
<1> QED BY <1>1 DEF TableInv, TableRight

\* Registered buffers differ, and a rank looks each of its own up at the entry
\* that its registration wrote.
Distinct ==
  \A p, q \in 1 .. Len(script) :
    script[p].op = "register" /\ script[q].op = "register" /\ p # q =>
      \A r \in Processes : script[p].ptrs[r] # script[q].ptrs[r]

LooksUp(r, p) == script[p].op = "register" => EagerArg(r, script[p].ptrs[r]) = Base(p - 1)

LookedUp == \A r \in Processes : \A p \in 1 .. at[r] : LooksUp(r, p)

LEMMA DistinctStep == TableInv /\ Distinct /\ [TableNext]_tableVars => Distinct'
<1> SUFFICES ASSUME TableInv, Distinct, [TableNext]_tableVars PROVE Distinct'
  OBVIOUS
<1>1. CASE Ask
  <2>1. script \in Seq(Operations) /\ Len(script) \in Nat
    BY DEF TableInv, TableTypeOK
  <2>2. CASE \E p \in Tuples : Fresh(p) /\ script' = Append(script, [op |-> "register", ptrs |-> p])
    <3>1. PICK x \in Tuples : Fresh(x) /\ script' = Append(script, [op |-> "register", ptrs |-> x])
      BY <2>2
    <3>2. [op |-> "register", ptrs |-> x] \in Operations
      BY DEF Operations
    <3>3. /\ Len(script') = Len(script) + 1
          /\ \A i \in 1 .. Len(script) : script'[i] = script[i]
          /\ script'[Len(script) + 1] = [op |-> "register", ptrs |-> x]
      BY <2>1, <3>1, <3>2, AppendProperties
    <3>4. \A i \in 1 .. Len(script) : script[i].op = "register" =>
            \A r \in Processes : script[i].ptrs[r] # x[r]
      BY <3>1 DEF Fresh
    <3>5. \A p \in 1 .. Len(script') : p \in 1 .. Len(script) \/ p = Len(script) + 1
      BY <2>1, <3>3
    <3> QED BY <3>3, <3>4, <3>5 DEF Distinct
  <2>3. CASE \E op \in {"capture", "exchange"} : script' = Append(script, [op |-> op])
    <3>1. PICK op \in {"capture", "exchange"} : script' = Append(script, [op |-> op])
      BY <2>3
    <3>2. [op |-> op] \in Operations /\ [op |-> op].op # "register"
      BY DEF Operations
    <3>3. /\ Len(script') = Len(script) + 1
          /\ \A i \in 1 .. Len(script) : script'[i] = script[i]
          /\ script'[Len(script) + 1].op # "register"
      BY <2>1, <3>1, <3>2, AppendProperties
    <3>4. \A p \in 1 .. Len(script') : p \in 1 .. Len(script) \/ p = Len(script) + 1
      BY <2>1, <3>3
    <3> QED BY <3>3, <3>4 DEF Distinct
  <2> QED BY <1>1, <2>2, <2>3 DEF Ask
<1>2. CASE ~Ask
  <2>1. script' = script
    BY <1>2 DEF TableNext, RegisterBuffer, RegisterGraphBuffers, Throw, CaptureAllreduce,
                GatherIpcMeta, ScriptFinished, tableVars
  <2> QED BY <2>1 DEF Distinct
<1> QED BY <1>1, <1>2

LEMMA LookedUpStep ==
  TableInv /\ Distinct /\ LookedUp /\ [TableNext]_tableVars => LookedUp'
<1> SUFFICES ASSUME TableInv, Distinct, LookedUp, [TableNext]_tableVars PROVE LookedUp'
  OBVIOUS
<1> USE DEF TableInv
<1>0. \A r \in Processes : at[r] \in Nat /\ at[r] <= Len(script) /\ Len(script) \in Nat
  BY RankFacts
<1>1. CASE Ask
  <2>1. at' = at /\ buffers' = buffers
    BY <1>1 DEF Ask
  <2>2. PICK x \in Operations : script' = Append(script, x)
    BY <1>1 DEF Ask, Operations
  <2>3. script \in Seq(Operations) /\ \A i \in 1 .. Len(script) : script'[i] = script[i]
    BY <2>2, AppendProperties DEF TableTypeOK
  <2>4. \A n \in 0 .. Len(script) : Base(n)' = Base(n)
    BY <2>2, <2>3, AppendCounts
  <2>5. ASSUME NEW r \in Processes, NEW p \in 1 .. at[r] PROVE LooksUp(r, p)'
    <3>1. p \in 1 .. Len(script) /\ p - 1 \in 0 .. Len(script)
      BY <1>0
    <3>2. script'[p] = script[p] /\ Base(p - 1)' = Base(p - 1)
      BY <2>3, <2>4, <3>1
    <3>3. LooksUp(r, p)
      BY DEF LookedUp
    <3> QED BY <2>1, <3>2, <3>3 DEF LooksUp, EagerArg
  <2> QED BY <2>1, <2>5 DEF LookedUp
<1>2. ASSUME script' = script, buffers' = buffers, NEW r \in Processes, NEW p \in 1 .. at[r]
      PROVE  LooksUp(r, p)'
  <2>1. LooksUp(r, p)
    BY DEF LookedUp
  <2>2. Base(p - 1)' = Base(p - 1)
    BY <1>2, SameCounts
  <2> QED BY <1>2, <2>1, <2>2 DEF LooksUp, EagerArg
<1>3. ASSUME NEW q \in Processes, Registers(q) PROVE LookedUp'
  <2> DEFINE last == at[q] + 1
             own == script[last].ptrs[q]
  <2>1. /\ last \in 1 .. Len(script) /\ script[last].op = "register"
        /\ script[last].ptrs \in Tuples /\ own \in Addresses /\ last - 1 = at[q]
    BY <1>3, DoingFacts DEF Registers, Tuples
  <2>2. buffers'[q] = [buffers[q] EXCEPT ![own] = base[q]] /\ at'[q] = last
    BY <1>3 DEF Registers, TableTypeOK
  <2>3. \A r \in Processes : r # q => buffers'[r] = buffers[r] /\ at'[r] = at[r]
    BY <1>3 DEF Registers, TableTypeOK
  <2>4. script' = script /\ \A n : Base(n)' = Base(n)
    BY <1>3, SameCounts DEF Registers
  <2>5. buffers[q] \in [Addresses -> Slots \cup {NoSlot}] /\ base[q] = Base(at[q])
    BY DEF TableTypeOK, InStep
  <2> HIDE DEF own
  <2>6. ASSUME NEW p \in 1 .. at[q], script[p].op = "register" PROVE script[p].ptrs[q] # own
    <3>1. p \in 1 .. Len(script) /\ p # last
      BY <1>0
    <3> QED BY <2>1, <2>6, <3>1 DEF Distinct, own
  <2> HIDE DEF last
  <2>7. ASSUME NEW p \in 1 .. at'[q] PROVE LooksUp(q, p)'
    <3>1. CASE p = last
      <4>1. buffers'[q][own] = Base(p - 1)
        BY <2>1, <2>2, <2>5, <3>1
      <4> QED BY <2>4, <3>1, <4>1 DEF LooksUp, EagerArg, own
    <3>2. CASE p \in 1 .. at[q]
      <4>1. LooksUp(q, p)
        BY <3>2 DEF LookedUp
      <4>2. script[p].op = "register" => buffers'[q][script[p].ptrs[q]] = buffers[q][script[p].ptrs[q]]
        BY <2>2, <2>5, <2>6, <3>2
      <4> QED BY <2>4, <4>1, <4>2 DEF LooksUp, EagerArg
    <3> QED BY <1>0, <2>2, <3>1, <3>2 DEF last
  <2>8. ASSUME NEW r \in Processes, r # q, NEW p \in 1 .. at'[r] PROVE LooksUp(r, p)'
    <3>1. LooksUp(r, p) /\ buffers'[r] = buffers[r]
      BY <2>3, <2>8 DEF LookedUp
    <3> QED BY <2>4, <3>1 DEF LooksUp, EagerArg
  <2> QED BY <2>7, <2>8 DEF LookedUp
<1>4. ASSUME NEW q \in Processes, script' = script, buffers' = buffers,
             at' = [at EXCEPT ![q] = at[q] + 1], at[q] + 1 \in 1 .. Len(script),
             script[at[q] + 1].op # "register"
      PROVE  LookedUp'
  <2>1. ASSUME NEW r \in Processes, NEW p \in 1 .. at'[r] PROVE LooksUp(r, p)'
    <3>1. CASE p \in 1 .. at[r]
      BY <1>2, <1>4, <3>1
    <3>2. CASE p \notin 1 .. at[r]
      <4>1. r = q /\ p = at[q] + 1
        BY <1>0, <1>4, <2>1, <3>2 DEF TableTypeOK
      <4> QED BY <1>4, <4>1 DEF LooksUp
    <3> QED BY <3>1, <3>2
  <2> QED BY <2>1 DEF LookedUp
<1>5. CASE \E q \in Processes : Registers(q)
  BY <1>3, <1>5
<1>6. ASSUME NEW q \in Processes, RegistersGraph(q) \/ \E a \in Addresses : CaptureAllreduce(q, a)
      PROVE  LookedUp'
  <2>1. /\ script' = script /\ buffers' = buffers /\ at' = [at EXCEPT ![q] = at[q] + 1]
        /\ Doing(q, "exchange") \/ Doing(q, "capture")
    BY <1>6 DEF RegistersGraph, CaptureAllreduce
  <2>2. at[q] + 1 \in 1 .. Len(script) /\ script[at[q] + 1].op # "register"
    BY <2>1, DoingFacts
  <2> QED BY <1>4, <2>1, <2>2
<1>7. ASSUME script' = script, buffers' = buffers, at' = at PROVE LookedUp'
  BY <1>2, <1>7 DEF LookedUp
<1>8. CASE ScriptFinished \/ UNCHANGED tableVars \/ \E q \in Processes : GatherIpcMeta(q) \/ Throw(q)
  <2>1. script' = script /\ buffers' = buffers /\ at' = at
    BY <1>8 DEF ScriptFinished, tableVars, GatherIpcMeta, Throw
  <2> QED BY <1>7, <2>1
<1>9. \/ Ask \/ ScriptFinished \/ UNCHANGED tableVars
      \/ \E q \in Processes : \/ Registers(q) \/ RegistersGraph(q) \/ Throw(q) \/ GatherIpcMeta(q)
                              \/ \E a \in Addresses : CaptureAllreduce(q, a)
  BY RegisterEffects DEF TableNext
<1> QED BY <1>1, <1>5, <1>6, <1>8, <1>9

\* In every script, an eager call on a registered buffer finds the entry that
\* names the buffers registered together with it, the same one on every rank
\* that has registered it, whatever is registered and exchanged afterwards.
THEOREM EagerArgsRightHolds == TableSpec => []EagerArgsRight
<1>1. TableInit => Distinct /\ LookedUp
  <2>1. TableInit => Len(script) = 0 /\ \A r \in Processes : at[r] = 0
    BY DEF TableInit
  <2> QED BY <2>1 DEF Distinct, LookedUp
<1>2. TableInv /\ LookedUp => EagerArgsRight
  <2> SUFFICES ASSUME TableInv, LookedUp, NEW r \in Processes, NEW p \in 1 .. at[r],
                      script[p].op = "register"
               PROVE  LET ptrs == script[p].ptrs
                          slot == EagerArg(r, ptrs[r])
                      IN  /\ slot \in Slots
                          /\ data[r][slot] = ptrs
                          /\ \A s \in Processes : p <= at[s] => EagerArg(s, ptrs[s]) = slot
    BY DEF EagerArgsRight
  <2>1. EagerArg(r, script[p].ptrs[r]) = Base(p - 1)
    BY DEF LookedUp, LooksUp
  <2>2. Base(p - 1) \in Slots /\ data[r][Base(p - 1)] = script[p].ptrs
    BY EntryPlace DEF TableInv, TableRight
  <2>3. ASSUME NEW s \in Processes, p <= at[s] PROVE EagerArg(s, script[p].ptrs[s]) = Base(p - 1)
    <3>1. p \in 1 .. at[s]
      BY <2>3, RankFacts DEF TableInv
    <3> QED BY <3>1 DEF LookedUp, LooksUp
  <2> QED BY <2>1, <2>2, <2>3
<1>3. TableInv /\ (Distinct /\ LookedUp) /\ [TableNext]_tableVars => (Distinct /\ LookedUp)'
  BY DistinctStep, LookedUpStep
<1> QED BY <1>1, <1>2, <1>3, TableInvariant, PTL DEF TableSpec

\* An entry below the bases of two ranks comes from one operation of the
\* script, which both are through with.
LEMMA SameEntry ==
  ASSUME TableInv, NEW r \in Processes, NEW s \in Processes, NEW k \in Slots,
         k < base[r], k < base[s]
  PROVE  data[r][k] = data[s][k]
<1> USE DEF TableInv
<1>1. /\ k \in Nat /\ at[r] \in Nat /\ at[s] \in Nat
      /\ base[r] \in Nat /\ base[s] \in Nat /\ base[s] = Base(at[s])
      /\ at[r] <= Len(script) /\ Len(script) \in Nat
  BY RankFacts DEF Slots
<1>2. PICK p \in 1 .. at[r] : Base(p - 1) <= k /\ k < Base(p)
  BY <1>1 DEF TableRight
<1>3. p - 1 \in Nat /\ p \in Nat /\ (p - 1) + 1 = p /\ p \in 1 .. Len(script)
  BY <1>1, <1>2
<1>4. p <= at[s]
  <2> SUFFICES ASSUME at[s] <= p - 1 PROVE FALSE
    BY <1>1, <1>3
  <2>1. Base(at[s]) <= Base(p - 1) /\ Base(p - 1) \in Nat
    BY <1>1, <1>3, BaseMono
  <2> QED BY <1>1, <1>2, <2>1
<1>5. p \in 1 .. at[s]
  BY <1>1, <1>3, <1>4
<1>6. script[p] \in Operations
  BY <1>3, ElementOfSeq DEF TableTypeOK
<1>7. /\ script[p].op = "register" => Base(p) = Base(p - 1) + 1
      /\ script[p].op = "capture" => Base(p) = Base(p - 1)
      /\ script[p].op = "exchange" => Base(p) = Base(p - 1) + Pending(p - 1)
      /\ Pending(p - 1) \in Nat /\ Base(p - 1) \in Nat
  BY <1>3, StepFacts
<1>8. CASE script[p].op = "register"
  <2>1. k = Base(p - 1)
    BY <1>1, <1>2, <1>7, <1>8
  <2>2. data[r][Base(p - 1)] = script[p].ptrs /\ data[s][Base(p - 1)] = script[p].ptrs
    BY <1>2, <1>5, <1>8 DEF TableRight
  <2> QED BY <2>1, <2>2
<1>9. CASE script[p].op = "exchange"
  <2> DEFINE i == k - Base(p - 1) + 1
  <2>1. i \in 1 .. Pending(p - 1) /\ Base(p - 1) + i - 1 = k
    BY <1>1, <1>2, <1>7, <1>9
  <2> HIDE DEF i
  <2>2. \A q \in {r, s} : data[q][Base(p - 1) + i - 1]
                            = CapturedInputs(Settled(p - 1) + i)
    BY <1>2, <1>5, <1>9, <2>1 DEF TableRight
  <2> QED BY <2>1, <2>2
<1>10. script[p].op # "capture"
  BY <1>1, <1>2, <1>7
<1> QED BY <1>6, <1>8, <1>9, <1>10 DEF Operations

\* The tables of two ranks agree on every entry both have written, however
\* far one is ahead of the other.
THEOREM SameTableHolds == TableSpec => []SameTable
<1>1. TableInv => SameTable
  BY WrittenBelowBase, SameEntry DEF SameTable
<1> QED BY <1>1, TableInvariant, PTL

\* Where no buffer is registered between a capture and the exchange that
\* follows it, the entry a captured kernel points to names the inputs all
\* ranks captured in the same call.
THEOREM CapturedArgsFilledHolds == ~LateRegister => (TableSpec => []CapturedArgsFilled)
<1>1. ASSUME ~LateRegister, TableInv, NEW r \in Processes, NEW i \in 1 .. filled[r]
      PROVE  /\ args[r][i].slot \in Slots
             /\ data[r][args[r][i].slot] = CapturedInputs(i)
  <2>1. /\ args[r][i].slot < base[r]
        /\ data[r][args[r][i].slot] = CapturedInputs(i)
    BY <1>1 DEF TableInv, PromiseKept
  <2>2. filled[r] \in Nat /\ filled[r] <= Len(args[r]) /\ Len(args[r]) \in Nat
    BY <1>1, RankFacts DEF TableInv
  <2>3. i \in 1 .. Len(args[r])
    BY <2>2
  <2>4. args[r][i] \in [slot : Nat, input : Addresses] /\ base[r] \in 0 .. Capacity
    BY <1>1, <2>3, ElementOfSeq DEF TableInv, TableTypeOK
  <2>5. args[r][i].slot \in Nat
    BY <2>4
  <2> QED BY <2>1, <2>4, <2>5, CapacityAssumption DEF Slots
<1>2. ~LateRegister /\ TableInv => CapturedArgsFilled
  BY <1>1 DEF CapturedArgsFilled
<1>3. CASE ~LateRegister
  <2>1. TableInv => CapturedArgsFilled
    BY <1>2, <1>3
  <2>2. TableSpec => []CapturedArgsFilled
    BY <2>1, TableInvariant, PTL
  <2> QED BY <2>2
<1> QED BY <1>3

-----------------------------------------------------------------------------
(***************************************************************************)
(* CrossDeviceReduce: the reduction kernels on the barrier.                *)
(***************************************************************************)
\* Arithmetic of the launch configuration and of the parts.

LEMMA DivFacts == ASSUME NEW i \in Nat, NEW p \in Nat \ {0}
                  PROVE  /\ i \div p \in Nat
                         /\ p * (i \div p) <= i
                         /\ i < p * (i \div p) + p
                         /\ i % p \in 0 .. p - 1
  OBVIOUS

LEMMA MulMono == ASSUME NEW a \in Nat, NEW b \in Nat, NEW c \in Nat, a <= b
                 PROVE  a * c <= b * c
  OBVIOUS

LEMMA BlocksFacts == ASSUME NEW size \in Nat \ {0}
                     PROVE  Blocks(size) \in 1 .. BlockLimit
<1>1. size + Threads - 1 \in Nat /\ Threads \in Nat \ {0} /\ BlockLimit \in Nat \ {0}
  BY ParameterAssumption
<1>2. (size + Threads - 1) \div Threads \in Nat
  BY <1>1, DivFacts
<1>3. (size + Threads - 1) \div Threads # 0
  <2>1. size + Threads - 1 < Threads * ((size + Threads - 1) \div Threads) + Threads
    BY <1>1, DivFacts
  <2> QED BY <1>1, <2>1
<1> QED BY <1>1, <1>2, <1>3 DEF Blocks

LEMMA BlockOfFacts == ASSUME NEW size \in Nat \ {0}, NEW i \in Nat
                      PROVE  /\ BlockOf(i, size) \in BlockIds
                             /\ BlockOf(i, size) < Blocks(size)
<1>1. i \div Threads \in Nat
  BY DivFacts, ParameterAssumption
<1>2. Blocks(size) \in Nat \ {0} /\ Blocks(size) <= BlockLimit /\ BlockLimit \in Nat
  BY BlocksFacts, ParameterAssumption
<1>3. (i \div Threads) % Blocks(size) \in 0 .. Blocks(size) - 1
  BY <1>1, <1>2, DivFacts
<1> QED BY <1>2, <1>3 DEF BlockOf, BlockIds

LEMMA PartFacts == ASSUME NEW size \in Nat \ {0}, NEW r \in RankIds
                   PROVE  /\ Part(size) \in Nat
                          /\ PartStart(r, size) \in Nat
                          /\ PartEnd(r, size) \in Nat
                          /\ PartEnd(r, size) <= size
<1>1. N \in Nat \ {0, 1} /\ r \in 0 .. N - 1
  BY ParameterAssumption DEF RankIds
<1>2. size \div N \in Nat /\ N * (size \div N) <= size
  BY <1>1, DivFacts
<1>3. Part(size) \in Nat /\ N * Part(size) <= size
  BY <1>2 DEF Part
<1>4. PartStart(r, size) \in Nat
  BY <1>1, <1>3 DEF PartStart
<1>5. CASE r = N - 1
  BY <1>3, <1>4, <1>5 DEF PartEnd
<1>6. CASE r # N - 1
  <2>1. r + 1 \in Nat /\ r + 1 <= N
    BY <1>1
  <2>2. (r + 1) * Part(size) <= N * Part(size)
    BY <1>1, <1>3, <2>1, MulMono
  <2>3. PartEnd(r, size) = (r + 1) * Part(size)
    BY <1>1, <1>3, <1>6 DEF PartEnd, PartStart
  <2>4. (r + 1) * Part(size) \in Nat /\ N * Part(size) \in Nat
    BY <1>1, <1>3
  <2> QED BY <1>3, <1>4, <2>2, <2>3, <2>4
<1> QED BY <1>3, <1>4, <1>5, <1>6

\* Every element lies in the part of the rank it is gathered from.
LEMMA GatherFacts ==
  ASSUME NEW size \in Sizes, NEW i \in Elements, i < size
  PROVE  /\ PartOf(i, size) \in RankIds
         /\ TmpIndex(i, size) \in InPart(PartOf(i, size), size)
         /\ PartStart(PartOf(i, size), size) + TmpIndex(i, size) = i
<1>1. N \in Nat \ {0, 1} /\ size \in Nat \ {0} /\ i \in Nat
  BY ParameterAssumption DEF Elements
<1>2. Part(size) \in Nat
  BY <1>1, DivFacts DEF Part
<1>3. /\ PartOf(i, size) \in 0 .. N - 1
      /\ PartStart(PartOf(i, size), size) \in Nat
      /\ PartStart(PartOf(i, size), size) <= i
      /\ i < PartEnd(PartOf(i, size), size)
  <2>1. CASE i < (N - 1) * Part(size)
    <3>1. Part(size) # 0
      BY <1>1, <2>1
    <3> DEFINE q == i \div Part(size)
    <3>2. q \in Nat /\ Part(size) * q <= i /\ i < Part(size) * q + Part(size)
      BY <1>1, <1>2, <3>1, DivFacts
    <3>3. q < N - 1
      <4>1. SUFFICES ASSUME N - 1 <= q PROVE FALSE
        BY <1>1, <3>2
      <4>2. (N - 1) * Part(size) <= q * Part(size)
        BY <1>1, <1>2, <3>2, <4>1, MulMono
      <4> HIDE DEF q
      <4>3. q * Part(size) = Part(size) * q
        BY <1>2, <3>2
      <4> QED BY <1>1, <1>2, <2>1, <3>2, <4>2, <4>3
    <3>4. PartOf(i, size) = q
      BY <2>1 DEF PartOf
    <3> HIDE DEF q
    <3>5. PartStart(q, size) = Part(size) * q /\ Part(size) * q \in Nat
      BY <1>2, <3>2 DEF PartStart
    <3>6. PartEnd(q, size) = Part(size) * q + Part(size)
      BY <1>1, <3>2, <3>3, <3>5 DEF PartEnd
    <3> QED BY <1>1, <3>2, <3>3, <3>4, <3>5, <3>6
  <2>2. CASE ~(i < (N - 1) * Part(size))
    <3>1. PartOf(i, size) = N - 1
      BY <2>2 DEF PartOf
    <3>2. PartEnd(N - 1, size) = size
      BY DEF PartEnd
    <3>3. (N - 1) * Part(size) \in Nat
      BY <1>1, <1>2
    <3> QED BY <1>1, <2>2, <3>1, <3>2, <3>3 DEF PartStart
  <2> QED BY <2>1, <2>2
<1>4. /\ TmpIndex(i, size) \in Nat /\ TmpIndex(i, size) <= i
      /\ PartStart(PartOf(i, size), size) + TmpIndex(i, size) = i
  BY <1>1, <1>3 DEF TmpIndex
<1>5. TmpIndex(i, size) \in Elements
  BY <1>1, <1>4 DEF Elements
<1> QED BY <1>3, <1>4, <1>5 DEF RankIds, InPart

-----------------------------------------------------------------------------
\* What the parts of the invariant say of one rank and one block.

LEMMA SizeFacts == ASSUME ReduceTypeOK, InOrder, NEW r \in RankIds, stream[r] # "idle"
                   PROVE  /\ done[r] \in Nat /\ done[r] + 1 \in CallIds
                          /\ Size(r) \in Sizes /\ Size(r) \in Nat \ {0}
<1>1. done[r] \in 0 .. MaxCalls /\ done[r] < MaxCalls /\ MaxCalls \in Nat
  BY ParameterAssumption DEF ReduceTypeOK, InOrder
<1>2. done[r] + 1 \in CallIds
  BY <1>1 DEF CallIds
<1>3. Size(r) \in Sizes
  BY <1>2 DEF Size, ReduceTypeOK
<1>4. Size(r) \in Nat \ {0}
  BY <1>3, ParameterAssumption
<1>5. done[r] \in Nat
  BY <1>1
<1> QED BY <1>2, <1>3, <1>4, <1>5

LEMMA SumType == ASSUME ReduceTypeOK, NEW i \in Elements PROVE Sum(i) \in Sums
<1>1. \A s \in RankIds : input[s] \in CallIds \cup {0}
  BY ParameterAssumption DEF ReduceTypeOK, CallIds
<1> QED BY <1>1 DEF Sum, Sums

LEMMA StageType == ASSUME ReduceTypeOK, NEW r \in RankIds, NEW b \in BlockIds
                   PROVE  /\ Stage(r, b) \in 0 .. 2
                          /\ Stage(r, b) # 0 => Active(r, b)
                          /\ arrivals[r][b] \in Nat /\ done[r] \in 0 .. MaxCalls
                          /\ done[r] \in Nat
<1>1. MaxCalls \in Nat
  BY ParameterAssumption
<1> QED BY <1>1 DEF Stage, ReduceTypeOK

\* The wait of block b of rank r ends only when every rank has block b at the
\* same barrier, or is a call ahead while b is behind its last barrier.
LEMMA MetFacts ==
  ASSUME ReduceInv, NEW r \in RankIds, NEW b \in BlockIds, NEW s \in RankIds,
         Active(r, b), pc[r][b] # "start", Met(r, b),
         pc[r][b] \in {"reduce", "exit", "gather"}
  PROVE  \/ done[s] = done[r] /\ Stage(s, b) >= Stage(r, b)
         \/ done[s] = done[r] + 1 /\ Stage(r, b) = 2
<1> USE DEF ReduceInv
<1>1. /\ Stage(r, b) \in 0 .. 2 /\ Stage(s, b) \in 0 .. 2
      /\ arrivals[r][b] \in Nat /\ arrivals[s][b] \in Nat
      /\ done[r] \in Nat /\ done[s] \in Nat
  BY StageType
<1>2. arrivals[r][b] <= arrivals[s][b]
  BY DEF Met
<1>3. Stage(r, b) = IF pc[r][b] = "reduce" THEN 1 ELSE 2
  BY DEF Stage
<1>4. CASE done[s] = done[r]
  <2>1. arrivals[r][b] - Stage(r, b) = arrivals[s][b] - Stage(s, b)
    BY <1>4 DEF CountsAgree
  <2> QED BY <1>1, <1>2, <1>4, <2>1
<1>5. CASE done[r] < done[s]
  BY <1>5 DEF AtMostOneAhead
<1>6. CASE done[s] < done[r]
  <2>1. /\ done[r] = done[s] + 1 /\ Running(s)
        /\ Active(s, b) => Stage(s, b) = 2
        /\ pc[r][b] \in {"start", "reduce"}
    BY <1>6 DEF AtMostOneAhead
  <2>2. arrivals[r][b] - Stage(r, b)
          = arrivals[s][b] - Stage(s, b) + Barriers(b, done[r])
    BY <2>1 DEF CountsAgree
  <2>3. Stage(s, b) = Barriers(b, done[r])
    BY <2>1 DEF Active, Stage, Size, Barriers
  <2> QED BY <1>1, <1>2, <1>3, <2>1, <2>2, <2>3
<1> QED BY <1>1, <1>4, <1>5, <1>6

\* A block step happens in a running kernel and moves only that block.
LEMMA BlockStepFacts ==
  ASSUME ReduceInv, NEW r \in RankIds, NEW b \in BlockIds, BlockStep(r, b)
  PROVE  /\ Active(r, b) /\ stream[r] = "running"
         /\ UNCHANGED <<program, done, stream, input>>
         /\ \A s \in RankIds : /\ Running(s)' = Running(s)
                               /\ Size(s)' = Size(s)
         /\ \A s \in RankIds, c \in BlockIds :
              /\ Active(s, c)' = Active(s, c)
              /\ ~(s = r /\ c = b) => /\ pc'[s][c] = pc[s][c]
                                      /\ Stage(s, c)' = Stage(s, c)
                                      /\ arrivals'[s][c] = arrivals[s][c]
         /\ \A k : Barriers(b, k)' = Barriers(b, k)
<1> USE DEF ReduceInv
<1>1. UNCHANGED <<program, done, stream, input>>
  BY DEF BlockStep, Arrive, Reduce, Exit, ReduceScatter, AllGather
<1>2. pc[r][b] # "done"
  BY DEF BlockStep, Arrive, Reduce, Exit, ReduceScatter, AllGather
<1>3. Active(r, b)
  BY <1>2 DEF InOrder
<1>4. \A s \in RankIds, c \in BlockIds :
        ~(s = r /\ c = b) => /\ pc'[s][c] = pc[s][c]
                             /\ arrivals'[s][c] = arrivals[s][c]
  BY DEF ReduceTypeOK, BlockStep, Arrive, Reduce, Exit, ReduceScatter, AllGather
<1>5. \A s \in RankIds : Running(s)' = Running(s) /\ Size(s)' = Size(s)
  BY <1>1 DEF Running, Size
<1>6. \A s \in RankIds, c \in BlockIds : Active(s, c)' = Active(s, c)
  BY <1>1 DEF Active, Running, Size, Blocks
<1>7. \A s \in RankIds, c \in BlockIds :
        ~(s = r /\ c = b) => Stage(s, c)' = Stage(s, c)
  BY <1>4, <1>6 DEF Stage
<1>8. \A k : Barriers(b, k)' = Barriers(b, k)
  BY <1>1 DEF Barriers, Blocks
<1> QED BY <1>1, <1>3, <1>4, <1>5, <1>6, <1>7, <1>8 DEF Active, Running

-----------------------------------------------------------------------------
LEMMA ReduceTypeStep == ReduceInv /\ [ReduceNext]_reduceVars => ReduceTypeOK'
<1> SUFFICES ASSUME ReduceInv, [ReduceNext]_reduceVars PROVE ReduceTypeOK'
  OBVIOUS
<1>0. ReduceTypeOK /\ InOrder
  BY DEF ReduceInv
<1>1. CASE UNCHANGED reduceVars
  BY <1>0, <1>1 DEF reduceVars, ReduceTypeOK
<1>2. CASE CallsFinished
  BY <1>0, <1>2 DEF CallsFinished, reduceVars, ReduceTypeOK
<1>3. ASSUME NEW r \in RankIds, CopyInput(r) PROVE ReduceTypeOK'
  <2>1. done[r] + 1 \in 0 .. MaxCalls
    BY <1>0, <1>3, ParameterAssumption DEF CopyInput, ReduceTypeOK
  <2> QED BY <1>0, <1>3, <2>1 DEF CopyInput, ReduceTypeOK
<1>4. ASSUME NEW r \in RankIds, Launch(r) PROVE ReduceTypeOK'
  <2>1. [i \in Elements |-> Unset] \in [Elements -> Sums]
    BY DEF Sums
  <2>2. pc' \in [RankIds -> [BlockIds ->
                  {"start", "reduce", "sync", "exit", "gather", "done"}]]
    BY <1>0, <1>4 DEF Launch, ReduceTypeOK
  <2> QED BY <1>0, <1>4, <2>1, <2>2 DEF Launch, ReduceTypeOK
<1>5. ASSUME NEW r \in RankIds, Complete(r) PROVE ReduceTypeOK'
  <2>1. done[r] + 1 \in 0 .. MaxCalls
    BY <1>0, <1>5, ParameterAssumption DEF Complete, ReduceTypeOK, InOrder
  <2> QED BY <1>0, <1>5, <2>1 DEF Complete, ReduceTypeOK
<1>6. ASSUME NEW r \in RankIds, NEW b \in BlockIds, BlockStep(r, b) PROVE ReduceTypeOK'
  <2>1. stream[r] # "idle"
    BY <1>6, BlockStepFacts
  <2>2. Size(r) \in Sizes /\ Size(r) \in Nat \ {0}
    BY <1>0, <2>1, SizeFacts
  <2>3. CASE Arrive(r, b)
    <3>1. pc' \in [RankIds -> [BlockIds ->
                    {"start", "reduce", "sync", "exit", "gather", "done"}]]
      <4>1. CASE pc' = [pc EXCEPT ![r][b] = "reduce"]
        BY <1>0, <4>1 DEF ReduceTypeOK
      <4>2. CASE pc' = [pc EXCEPT ![r][b] = "exit"]
        BY <1>0, <4>2 DEF ReduceTypeOK
      <4>3. CASE pc' = [pc EXCEPT ![r][b] = "gather"]
        BY <1>0, <4>3 DEF ReduceTypeOK
      <4> QED BY <2>3, <4>1, <4>2, <4>3 DEF Arrive
    <3> QED BY <1>0, <2>3, <3>1 DEF Arrive, ReduceTypeOK
  <2>4. CASE Reduce(r, b)
    <3>1. [i \in Elements |->
             IF i < Size(r) /\ BlockOf(i, Size(r)) = b THEN Sum(i)
                                                       ELSE result[r][i]]
            \in [Elements -> Sums]
      BY <1>0, SumType DEF ReduceTypeOK
    <3> QED BY <1>0, <2>4, <3>1 DEF Reduce, ReduceTypeOK
  <2>5. CASE Exit(r, b)
    BY <1>0, <2>5 DEF Exit, ReduceTypeOK
  <2>6. CASE ReduceScatter(r, b)
    <3>1. ASSUME NEW j \in Mine(r, b, Size(r))
          PROVE  PartStart(r, Size(r)) + j \in Elements
      <4>1. PartStart(r, Size(r)) \in Nat /\ PartEnd(r, Size(r)) <= Size(r)
                                          /\ PartEnd(r, Size(r)) \in Nat
        BY <2>2, PartFacts
      <4>2. j \in Nat /\ PartStart(r, Size(r)) + j < PartEnd(r, Size(r))
        BY ParameterAssumption DEF Mine, InPart, Elements
      <4> QED BY <2>2, <4>1, <4>2 DEF Elements
    <3>2. [j \in Elements |->
             IF j \in Mine(r, b, Size(r)) THEN Sum(PartStart(r, Size(r)) + j)
                                          ELSE tmp[r][j]]
            \in [Elements -> Sums]
      BY <1>0, <3>1, SumType DEF ReduceTypeOK
    <3> QED BY <1>0, <2>6, <3>2 DEF ReduceScatter, ReduceTypeOK
  <2>7. CASE AllGather(r, b)
    <3>1. ASSUME NEW i \in Elements, i < Size(r)
          PROVE  tmp[PartOf(i, Size(r))][TmpIndex(i, Size(r))] \in Sums
      <4>1. /\ PartOf(i, Size(r)) \in RankIds
            /\ TmpIndex(i, Size(r)) \in Elements
        BY <2>2, <3>1, GatherFacts DEF InPart
      <4> QED BY <1>0, <4>1 DEF ReduceTypeOK
    <3>2. [i \in Elements |->
             IF i < Size(r) /\ BlockOf(TmpIndex(i, Size(r)), Size(r)) = b
               THEN tmp[PartOf(i, Size(r))][TmpIndex(i, Size(r))]
               ELSE result[r][i]]
            \in [Elements -> Sums]
      BY <1>0, <3>1 DEF ReduceTypeOK
    <3> QED BY <1>0, <2>7, <3>2 DEF AllGather, ReduceTypeOK
  <2> QED BY <1>6, <2>3, <2>4, <2>5, <2>6, <2>7 DEF BlockStep
<1> QED BY <1>1, <1>2, <1>3, <1>4, <1>5, <1>6 DEF ReduceNext

-----------------------------------------------------------------------------
\* The parts of the invariant about progress: which rank and block is where.
Progress == InOrder /\ CountsAgree /\ AtMostOneAhead /\ PassedTogether

LEMMA CopyProgress == ASSUME ReduceInv, ReduceTypeOK', NEW r \in RankIds, CopyInput(r)
                      PROVE  Progress'
<1> USE DEF ReduceInv
<1>1. /\ UNCHANGED <<program, done, pc, arrivals>>
      /\ stream[r] = "idle" /\ done[r] < MaxCalls
      /\ stream' = [stream EXCEPT ![r] = "copied"]
      /\ input' = [input EXCEPT ![r] = done[r] + 1]
  BY DEF CopyInput
<1>2. \A s \in RankIds : Running(s)' = Running(s) /\ Size(s)' = Size(s)
  BY <1>1 DEF Running, Size, ReduceTypeOK
<1>3. \A s \in RankIds, c \in BlockIds : /\ Active(s, c)' = Active(s, c)
                                         /\ Stage(s, c)' = Stage(s, c)
  BY <1>1, <1>2 DEF Active, Stage
<1>4. InOrder'
  BY <1>1, <1>2, <1>3 DEF InOrder, ReduceTypeOK
<1>5. CountsAgree'
  BY <1>1, <1>3 DEF CountsAgree, Barriers
<1>6. AtMostOneAhead'
  BY <1>1, <1>2, <1>3 DEF AtMostOneAhead
<1>7. PassedTogether'
  BY <1>1, <1>3 DEF PassedTogether
<1> QED BY <1>4, <1>5, <1>6, <1>7 DEF Progress

LEMMA LaunchProgress == ASSUME ReduceInv, ReduceTypeOK', NEW r \in RankIds, Launch(r)
                        PROVE  Progress'
<1> USE DEF ReduceInv
<1>1. /\ UNCHANGED <<program, done, input, arrivals>>
      /\ stream[r] = "copied"
      /\ stream' = [stream EXCEPT ![r] = "running"]
      /\ \A s \in RankIds : s # r => pc'[s] = pc[s]
      /\ \A c \in BlockIds :
           pc'[r][c] = IF c < Blocks(Size(r)) THEN "start" ELSE "done"
  BY DEF Launch, ReduceTypeOK
<1>2. ~Running(r) /\ Running(r)'
      /\ \A s \in RankIds : s # r => Running(s)' = Running(s)
  BY <1>1 DEF Running, ReduceTypeOK
<1>3. \A s \in RankIds : Size(s)' = Size(s)
  BY <1>1 DEF Size
<1>4. \A s \in RankIds, c \in BlockIds :
        /\ s # r => Active(s, c)' = Active(s, c)
        /\ Active(r, c)' = (c < Blocks(Size(r)))
        /\ Active(r, c)' => pc'[r][c] = "start"
        /\ Stage(s, c)' = Stage(s, c)
  BY <1>1, <1>2, <1>3 DEF Active, Stage
<1>5. InOrder'
  <2> SUFFICES ASSUME NEW s \in RankIds
               PROVE  /\ stream'[s] # "idle" => done'[s] < MaxCalls
                      /\ input'[s] = IF stream'[s] = "idle" THEN done'[s]
                                                           ELSE done'[s] + 1
                      /\ \A c \in BlockIds :
                           /\ ~Active(s, c)' => pc'[s][c] = "done"
                           /\ pc'[s][c] = "exit" => OneStage(Size(s)')
                           /\ pc'[s][c] = "gather" => ~OneStage(Size(s)')
    BY DEF InOrder
  <2>1. CASE s = r
    BY <1>1, <1>4, <2>1 DEF InOrder, ReduceTypeOK
  <2>2. CASE s # r
    BY <1>1, <1>3, <1>4, <2>2 DEF InOrder, ReduceTypeOK
  <2> QED BY <2>1, <2>2
<1>6. CountsAgree'
  BY <1>1, <1>4 DEF CountsAgree, Barriers
<1>7. AtMostOneAhead'
  BY <1>1, <1>2, <1>4 DEF AtMostOneAhead
<1>8. PassedTogether'
  BY <1>1, <1>4 DEF PassedTogether
<1> QED BY <1>5, <1>6, <1>7, <1>8 DEF Progress

\* A block step that arrives at a barrier moves the block's stage along; one
\* that leaves a barrier finds every rank there or a call ahead.
LEMMA BlockMoves ==
  ASSUME ReduceInv, ReduceTypeOK', NEW r \in RankIds, NEW b \in BlockIds, BlockStep(r, b)
  PROVE  /\ Stage(r, b) <= Stage(r, b)'
         /\ arrivals'[r][b] - Stage(r, b)' = arrivals[r][b] - Stage(r, b)
         /\ pc'[r][b] = "exit" => OneStage(Size(r))
         /\ pc'[r][b] = "gather" => ~OneStage(Size(r))
         /\ pc'[r][b] # "start"
         /\ \/ pc'[r][b] = "reduce"
            \/ pc'[r][b] \in {"exit", "gather"} /\ pc[r][b] = "sync"
            \/ /\ pc'[r][b] = "sync" /\ pc[r][b] = "reduce" /\ Met(r, b)
               /\ Stage(r, b) = 1
            \/ /\ pc'[r][b] = "done" /\ pc[r][b] \in {"exit", "gather"} /\ Met(r, b)
               /\ Stage(r, b) = 2
<1> USE DEF ReduceInv
<1>1. Active(r, b) /\ Active(r, b)'
  BY BlockStepFacts
<1>2. CASE Arrive(r, b) /\ pc[r][b] = "start"
  <2>1. pc'[r][b] = "reduce" /\ arrivals'[r][b] = arrivals[r][b] + 1
    BY <1>2 DEF Arrive, ReduceTypeOK
  <2>2. Stage(r, b) = 0 /\ Stage(r, b)' = 1
    BY <1>1, <1>2, <2>1 DEF Stage
  <2> QED BY <2>1, <2>2 DEF ReduceTypeOK
<1>3. CASE Arrive(r, b) /\ pc[r][b] = "sync"
  <2>1. /\ pc'[r][b] = IF OneStage(Size(r)) THEN "exit" ELSE "gather"
        /\ arrivals'[r][b] = arrivals[r][b] + 1
    BY <1>3 DEF Arrive, ReduceTypeOK
  <2>2. Stage(r, b) = 1 /\ Stage(r, b)' = 2
    BY <1>1, <1>3, <2>1 DEF Stage
  <2> QED BY <1>3, <2>1, <2>2 DEF ReduceTypeOK
<1>4. CASE Reduce(r, b) \/ ReduceScatter(r, b)
  <2>1. pc[r][b] = "reduce" /\ pc'[r][b] = "sync" /\ UNCHANGED arrivals /\ Met(r, b)
    BY <1>4 DEF Reduce, ReduceScatter, ReduceTypeOK
  <2>2. Stage(r, b) = 1 /\ Stage(r, b)' = 1
    BY <1>1, <2>1 DEF Stage
  <2> QED BY <2>1, <2>2 DEF ReduceTypeOK
<1>5. CASE Exit(r, b) \/ AllGather(r, b)
  <2>1. /\ pc[r][b] \in {"exit", "gather"} /\ pc'[r][b] = "done"
        /\ UNCHANGED arrivals /\ Met(r, b)
    BY <1>5 DEF Exit, AllGather, ReduceTypeOK
  <2>2. Stage(r, b) = 2 /\ Stage(r, b)' = 2
    BY <1>1, <2>1 DEF Stage
  <2> QED BY <2>1, <2>2 DEF ReduceTypeOK
<1>6. Arrive(r, b) => pc[r][b] \in {"start", "sync"}
  BY DEF Arrive
<1> QED BY <1>2, <1>3, <1>4, <1>5, <1>6 DEF BlockStep

LEMMA BlockProgress ==
  ASSUME ReduceInv, ReduceTypeOK', NEW r \in RankIds, NEW b \in BlockIds, BlockStep(r, b)
  PROVE  Progress'
<1> USE DEF ReduceInv
<1>1. /\ Active(r, b) /\ stream[r] = "running"
      /\ UNCHANGED <<program, done, stream, input>>
  BY BlockStepFacts
<1>2. \A s \in RankIds : Running(s)' = Running(s) /\ Size(s)' = Size(s)
  BY BlockStepFacts
<1>3. \A s \in RankIds, c \in BlockIds :
        /\ Active(s, c)' = Active(s, c)
        /\ ~(s = r /\ c = b) => /\ pc'[s][c] = pc[s][c]
                                /\ Stage(s, c)' = Stage(s, c)
                                /\ arrivals'[s][c] = arrivals[s][c]
  BY BlockStepFacts
<1>4. /\ Stage(r, b) <= Stage(r, b)'
      /\ arrivals'[r][b] - Stage(r, b)' = arrivals[r][b] - Stage(r, b)
      /\ pc'[r][b] = "exit" => OneStage(Size(r))
      /\ pc'[r][b] = "gather" => ~OneStage(Size(r))
      /\ pc'[r][b] # "start"
  BY BlockMoves
<1>5. \A s \in RankIds, c \in BlockIds :
        /\ Stage(s, c) \in 0 .. 2 /\ Stage(s, c)' \in 0 .. 2
        /\ Stage(s, c) <= Stage(s, c)'
        /\ arrivals'[s][c] - Stage(s, c)' = arrivals[s][c] - Stage(s, c)
  <2> TAKE s \in RankIds, c \in BlockIds
  <2>1. Stage(s, c) \in 0 .. 2
    BY StageType
  <2>2. Stage(s, c)' \in 0 .. 2
    BY DEF Stage
  <2> QED BY <1>3, <1>4, <2>1, <2>2
<1>6. ASSUME pc'[r][b] \notin {"start", "reduce"}, NEW s \in RankIds
      PROVE  /\ ~(done[s] < done[r])
             /\ done[s] = done[r] => /\ Stage(s, b) >= 1
                                     /\ pc'[r][b] = "done" => Stage(s, b) = 2
  <2>1. \/ pc'[r][b] \in {"exit", "gather"} /\ pc[r][b] = "sync"
        \/ /\ pc'[r][b] = "sync" /\ pc[r][b] = "reduce" /\ Met(r, b)
           /\ Stage(r, b) = 1
        \/ /\ pc'[r][b] = "done" /\ pc[r][b] \in {"exit", "gather"} /\ Met(r, b)
           /\ Stage(r, b) = 2
    BY <1>6, BlockMoves
  <2>2. done[r] \in Nat /\ done[s] \in Nat /\ Stage(s, b) \in 0 .. 2
    BY StageType
  <2>3. CASE pc'[r][b] \in {"exit", "gather"} /\ pc[r][b] = "sync"
    BY <1>1, <2>2, <2>3 DEF AtMostOneAhead, PassedTogether
  <2>4. CASE pc[r][b] \in {"reduce", "exit", "gather"} /\ Met(r, b)
    <3>1. \/ done[s] = done[r] /\ Stage(s, b) >= Stage(r, b)
          \/ done[s] = done[r] + 1 /\ Stage(r, b) = 2
      BY <1>1, <2>4, MetFacts
    <3> QED BY <2>1, <2>2, <2>4, <3>1
  <2> QED BY <2>1, <2>3, <2>4
<1>7. InOrder'
  <2> SUFFICES ASSUME NEW s \in RankIds, NEW c \in BlockIds
               PROVE  /\ ~Active(s, c)' => pc'[s][c] = "done"
                      /\ pc'[s][c] = "exit" => OneStage(Size(s)')
                      /\ pc'[s][c] = "gather" => ~OneStage(Size(s)')
    BY <1>1 DEF InOrder
  <2> QED BY <1>1, <1>2, <1>3, <1>4 DEF InOrder
<1>8. CountsAgree'
  <2>1. \A c \in BlockIds : \A k : Barriers(c, k)' = Barriers(c, k)
    BY <1>1 DEF Barriers
  <2> QED BY <1>1, <1>5, <2>1 DEF CountsAgree
<1>9. AtMostOneAhead'
  <2> SUFFICES ASSUME NEW s \in RankIds, NEW t \in RankIds, done[s] < done[t]
               PROVE  /\ done[t] = done[s] + 1
                      /\ Running(s)'
                      /\ \A c \in BlockIds :
                           /\ Active(s, c)' => Stage(s, c)' = 2
                           /\ Active(t, c)' => pc'[t][c] \in {"start", "reduce"}
    BY <1>1 DEF AtMostOneAhead
  <2>1. done[t] = done[s] + 1 /\ Running(s)'
    BY <1>2 DEF AtMostOneAhead
  <2>2. ASSUME NEW c \in BlockIds, Active(s, c)'
        PROVE  Stage(s, c)' = 2
    BY <1>3, <1>5, <2>2 DEF AtMostOneAhead
  <2>3. ASSUME NEW c \in BlockIds, Active(t, c)'
        PROVE  pc'[t][c] \in {"start", "reduce"}
    <3>1. CASE t = r /\ c = b
      BY <1>6, <3>1
    <3>2. CASE ~(t = r /\ c = b)
      BY <1>3, <2>3, <3>2 DEF AtMostOneAhead
    <3> QED BY <3>1, <3>2
  <2> QED BY <2>1, <2>2, <2>3
<1>10. PassedTogether'
  <2> SUFFICES ASSUME NEW s \in RankIds, NEW t \in RankIds, NEW c \in BlockIds,
                      Active(t, c), done[s] = done[t]
               PROVE  /\ pc'[t][c] \notin {"start", "reduce"} => Stage(s, c)' >= 1
                      /\ pc'[t][c] = "done" => Stage(s, c)' = 2
    BY <1>1, <1>3 DEF PassedTogether
  <2>1. Stage(s, c) \in 0 .. 2 /\ Stage(s, c)' \in 0 .. 2 /\ Stage(s, c) <= Stage(s, c)'
    BY <1>5
  <2>2. CASE t = r /\ c = b
    BY <1>6, <2>1, <2>2
  <2>3. CASE ~(t = r /\ c = b)
    BY <1>3, <2>1, <2>3 DEF PassedTogether
  <2> QED BY <2>2, <2>3
<1> QED BY <1>7, <1>8, <1>9, <1>10 DEF Progress

\* The kernel of a rank is over: every rank is behind the last barrier of each
\* of its blocks, or over with that call as well.
LEMMA CompleteFacts ==
  ASSUME ReduceInv, NEW r \in RankIds, Complete(r), NEW s \in RankIds
  PROVE  /\ Stage(r, 0) = 2 /\ 0 \in BlockIds /\ Active(r, 0)
         /\ \A b \in BlockIds : Stage(r, b) = Barriers(b, done[r] + 1)
         /\ \/ /\ done[s] = done[r] /\ Running(s)
               /\ \A b \in BlockIds : Active(r, b) => Stage(s, b) = 2
            \/ done[s] = done[r] + 1
<1> USE DEF ReduceInv
<1>1. Running(r) /\ \A b \in BlockIds : pc[r][b] = "done"
  BY DEF Complete, Running
<1>2. Size(r) \in Nat \ {0}
  BY <1>1, SizeFacts DEF Running
<1>3. Blocks(Size(r)) \in 1 .. BlockLimit /\ BlockLimit \in Nat
  BY <1>2, BlocksFacts, ParameterAssumption
<1>4. 0 \in BlockIds /\ Active(r, 0)
  BY <1>1, <1>3 DEF BlockIds, Active
<1>5. \A b \in BlockIds : Stage(r, b) = Barriers(b, done[r] + 1)
  BY <1>1 DEF Stage, Active, Barriers, Size
<1>6. Stage(r, 0) = 2
  BY <1>1, <1>4 DEF Stage
<1>7. done[r] \in Nat /\ done[s] \in Nat
  BY StageType, <1>4
<1>8. ~(done[s] < done[r])
  BY <1>1, <1>4 DEF AtMostOneAhead
<1>9. CASE done[r] < done[s]
  BY <1>4, <1>5, <1>6, <1>9 DEF AtMostOneAhead
<1>10. CASE done[s] = done[r]
  <2>1. \A b \in BlockIds : Active(r, b) => Stage(s, b) = 2
    BY <1>1, <1>10 DEF PassedTogether
  <2>2. Active(s, 0)
    BY <1>4, <2>1, StageType
  <2> QED BY <1>4, <1>5, <1>6, <1>10, <2>1, <2>2 DEF Active
<1> QED BY <1>7, <1>8, <1>9, <1>10

LEMMA CompleteProgress == ASSUME ReduceInv, ReduceTypeOK', NEW r \in RankIds, Complete(r)
                          PROVE  Progress'
<1> USE DEF ReduceInv
<1>1. /\ UNCHANGED <<program, input, tmp, result, pc, arrivals>>
      /\ stream[r] = "running" /\ done'[r] = done[r] + 1 /\ stream'[r] = "idle"
      /\ \A s \in RankIds : s # r => done'[s] = done[s] /\ stream'[s] = stream[s]
      /\ \A b \in BlockIds : pc[r][b] = "done"
  BY DEF Complete, ReduceTypeOK
<1>2. \A s \in RankIds :
        /\ s # r => Running(s)' = Running(s) /\ Size(s)' = Size(s)
        /\ ~Running(r)'
  BY <1>1 DEF Running, Size
<1>3. \A s \in RankIds, c \in BlockIds :
        /\ s # r => Active(s, c)' = Active(s, c) /\ Stage(s, c)' = Stage(s, c)
        /\ ~Active(r, c)' /\ Stage(r, c)' = 0
  BY <1>1, <1>2 DEF Active, Stage
<1>4. \A s \in RankIds : done[s] \in Nat /\ done'[s] \in Nat
  BY ParameterAssumption DEF ReduceTypeOK
<1>5. \A s \in RankIds, c \in BlockIds :
        /\ Stage(s, c) \in 0 .. 2
        /\ arrivals[s][c] \in Nat
  BY StageType
<1>6. InOrder'
  <2> SUFFICES ASSUME NEW s \in RankIds
               PROVE  /\ stream'[s] # "idle" => done'[s] < MaxCalls
                      /\ input'[s] = IF stream'[s] = "idle" THEN done'[s]
                                                           ELSE done'[s] + 1
                      /\ \A c \in BlockIds :
                           /\ ~Active(s, c)' => pc'[s][c] = "done"
                           /\ pc'[s][c] = "exit" => OneStage(Size(s)')
                           /\ pc'[s][c] = "gather" => ~OneStage(Size(s)')
    BY DEF InOrder
  <2>1. CASE s = r
    BY <1>1, <1>3, <2>1 DEF InOrder
  <2>2. CASE s # r
    BY <1>1, <1>2, <1>3, <2>2 DEF InOrder
  <2> QED BY <2>1, <2>2
<1>7. \A c \in BlockIds : \A k : Barriers(c, k)' = Barriers(c, k)
  BY <1>1 DEF Barriers
<1>8. \A c \in BlockIds : Stage(r, c) = Barriers(c, done[r] + 1)
  BY CompleteFacts
<1>9. CountsAgree'
  <2> SUFFICES ASSUME NEW s \in RankIds, NEW t \in RankIds, NEW c \in BlockIds
               PROVE  /\ done'[t] = done'[s] =>
                           arrivals[t][c] - Stage(t, c)' = arrivals[s][c] - Stage(s, c)'
                      /\ done'[t] = done'[s] + 1 =>
                           arrivals[t][c] - Stage(t, c)'
                             = arrivals[s][c] - Stage(s, c)' + Barriers(c, done'[t])
    BY <1>1, <1>7 DEF CountsAgree
  <2>1. CASE s # r /\ t # r
    BY <1>1, <1>3, <2>1 DEF CountsAgree
  <2>2. CASE s = r /\ t = r
    BY <1>4, <1>1, <2>2
  <2>3. CASE t = r /\ s # r
    <3>1. done[s] = done[r] \/ done[s] = done[r] + 1
      BY CompleteFacts
    <3>2. CASE done[s] = done[r]
      <4>1. arrivals[t][c] - Stage(t, c) = arrivals[s][c] - Stage(s, c)
        BY <2>3, <3>2 DEF CountsAgree
      <4>2. Stage(t, c) = Barriers(c, done'[t])
        BY <1>1, <1>8, <2>3
      <4> QED BY <1>1, <1>3, <1>4, <1>5, <2>3, <3>2, <4>1, <4>2
    <3>3. CASE done[s] = done[r] + 1
      <4>1. arrivals[s][c] - Stage(s, c)
              = arrivals[t][c] - Stage(t, c) + Barriers(c, done[s])
        BY <2>3, <3>3 DEF CountsAgree
      <4>2. Stage(t, c) = Barriers(c, done[s])
        BY <1>8, <2>3, <3>3
      <4> QED BY <1>1, <1>3, <1>4, <1>5, <2>3, <3>3, <4>1, <4>2
    <3> QED BY <3>1, <3>2, <3>3
  <2>4. CASE s = r /\ t # r
    <3>1. done[t] = done[r] \/ done[t] = done[r] + 1
      BY CompleteFacts
    <3>2. CASE done[t] = done[r]
      BY <1>1, <1>4, <2>4, <3>2
    <3>3. CASE done[t] = done[r] + 1
      <4>1. arrivals[t][c] - Stage(t, c)
              = arrivals[s][c] - Stage(s, c) + Barriers(c, done[t])
        BY <2>4, <3>3 DEF CountsAgree
      <4>2. Stage(s, c) = Barriers(c, done[t])
        BY <1>8, <2>4, <3>3
      <4> QED BY <1>1, <1>3, <1>4, <1>5, <2>4, <3>3, <4>1, <4>2
    <3> QED BY <3>1, <3>2, <3>3
  <2> QED BY <2>1, <2>2, <2>3, <2>4
<1>10. AtMostOneAhead'
  <2> SUFFICES ASSUME NEW s \in RankIds, NEW t \in RankIds, done'[s] < done'[t]
               PROVE  /\ done'[t] = done'[s] + 1
                      /\ Running(s)'
                      /\ \A c \in BlockIds :
                           /\ Active(s, c)' => Stage(s, c)' = 2
                           /\ Active(t, c)' => pc'[t][c] \in {"start", "reduce"}
    BY DEF AtMostOneAhead
  <2>1. CASE s # r /\ t # r
    BY <1>1, <1>2, <1>3, <2>1 DEF AtMostOneAhead
  <2>2. CASE t = r /\ s # r
    <3>1. \/ /\ done[s] = done[r] /\ Running(s)
             /\ \A c \in BlockIds : Active(r, c) => Stage(s, c) = 2
          \/ done[s] = done[r] + 1
      BY CompleteFacts
    <3>2. done[s] = done[r] /\ Running(s)
      BY <1>1, <1>4, <2>2, <3>1
    <3>3. ASSUME NEW c \in BlockIds, Active(s, c) PROVE Stage(s, c) = 2
      <4>1. Active(r, c)
        BY <1>1, <3>2, <3>3 DEF Active, Running, Size
      <4> QED BY <1>1, <1>4, <2>2, <3>1, <4>1
    <3> QED BY <1>1, <1>2, <1>3, <2>2, <3>2, <3>3
  <2>3. CASE s = r
    <3>1. done[t] = done[r] \/ done[t] = done[r] + 1
      BY CompleteFacts
    <3> QED BY <1>1, <1>4, <2>3, <3>1
  <2> QED BY <2>1, <2>2, <2>3
<1>11. PassedTogether'
  <2> SUFFICES ASSUME NEW s \in RankIds, NEW t \in RankIds, NEW c \in BlockIds,
                      Active(t, c)', done'[s] = done'[t]
               PROVE  /\ pc[t][c] \notin {"start", "reduce"} => Stage(s, c)' >= 1
                      /\ pc[t][c] = "done" => Stage(s, c)' = 2
    BY <1>1 DEF PassedTogether
  <2>1. t # r
    BY <1>3
  <2>2. CASE s # r
    BY <1>1, <1>3, <2>1, <2>2 DEF PassedTogether
  <2>3. CASE s = r
    <3>1. done[t] = done[r] + 1
      BY <1>1, <2>1, <2>3
    <3>2. pc[t][c] \in {"start", "reduce"}
      BY <1>3, <1>4, <2>1, <3>1 DEF AtMostOneAhead
    <3> QED BY <3>2
  <2> QED BY <2>2, <2>3
<1> QED BY <1>6, <1>9, <1>10, <1>11 DEF Progress

-----------------------------------------------------------------------------
\* The parts of the invariant about data: what the buffers hold.
Data == TmpRight /\ TmpKept /\ ResultSoFar /\ ResultCorrect

LEMMA WriterFacts == ASSUME NEW size \in Sizes, NEW i \in Elements, i < size
                     PROVE  Writer(i, size) \in BlockIds /\ Writer(i, size) < Blocks(size)
<1>1. size \in Nat \ {0} /\ i \in Nat
  BY ParameterAssumption DEF Elements
<1>2. TmpIndex(i, size) \in Nat
  BY GatherFacts, ParameterAssumption DEF InPart, Elements
<1> QED BY <1>1, <1>2, BlockOfFacts DEF Writer

LEMMA CopyData == ASSUME ReduceInv, ReduceTypeOK', NEW r \in RankIds, CopyInput(r)
                  PROVE  Data'
<1> USE DEF ReduceInv
<1>1. /\ UNCHANGED <<program, done, tmp, result, pc, arrivals>>
      /\ stream[r] = "idle" /\ stream' = [stream EXCEPT ![r] = "copied"]
  BY DEF CopyInput
<1>2. \A s \in RankIds : Running(s)' = Running(s) /\ Size(s)' = Size(s)
  BY <1>1 DEF Running, Size, ReduceTypeOK
<1>3. \A s \in RankIds, c \in BlockIds : Active(s, c)' = Active(s, c)
  BY <1>2 DEF Active
<1>4. TmpRight'
  BY <1>1, <1>2, <1>3 DEF TmpRight
<1>5. TmpKept'
  BY <1>1 DEF TmpKept
<1>6. ResultSoFar'
  BY <1>1, <1>2 DEF ResultSoFar, Written
<1>7. ResultCorrect'
  BY <1>1 DEF ResultCorrect, ReduceTypeOK
<1> QED BY <1>4, <1>5, <1>6, <1>7 DEF Data

LEMMA LaunchData == ASSUME ReduceInv, ReduceTypeOK', NEW r \in RankIds, Launch(r)
                    PROVE  Data'
<1> USE DEF ReduceInv
<1>1. /\ UNCHANGED <<program, done, tmp>>
      /\ stream[r] = "copied" /\ stream'[r] = "running"
      /\ \A s \in RankIds : s # r => /\ pc'[s] = pc[s] /\ result'[s] = result[s]
                                     /\ stream'[s] = stream[s]
      /\ \A c \in BlockIds :
           pc'[r][c] = IF c < Blocks(Size(r)) THEN "start" ELSE "done"
  BY DEF Launch, ReduceTypeOK
<1>2. \A s \in RankIds : /\ s # r => Running(s)' = Running(s)
                         /\ Size(s)' = Size(s)
  BY <1>1 DEF Running, Size
<1>3. \A s \in RankIds, c \in BlockIds : s # r => Active(s, c)' = Active(s, c)
  BY <1>2 DEF Active
<1>4. \A c \in BlockIds : Active(r, c)' => pc'[r][c] = "start"
  BY <1>1, <1>2 DEF Active
<1>5. TmpRight'
  BY <1>1, <1>2, <1>3, <1>4 DEF TmpRight
<1>6. TmpKept'
  BY <1>1 DEF TmpKept
<1>7. ResultSoFar'
  <2> SUFFICES ASSUME NEW s \in RankIds, NEW i \in Elements, Running(s)',
                      i < Size(s), Written(s, Writer(i, Size(s)))'
               PROVE  result'[s][i] = SumOf(done[s] + 1, i)
    BY <1>1, <1>2 DEF ResultSoFar
  <2>1. CASE s = r
    <3>1. Size(r) \in Sizes
      BY <1>1, SizeFacts
    <3>2. pc'[r][Writer(i, Size(r))] = "start"
      BY <1>1, <2>1, <3>1, WriterFacts
    <3> QED BY <1>2, <2>1, <3>2 DEF Written
  <2>2. CASE s # r
    BY <1>1, <1>2, <2>2 DEF ResultSoFar, Written
  <2> QED BY <2>1, <2>2
<1>8. ResultCorrect'
  BY <1>1 DEF ResultCorrect
<1> QED BY <1>5, <1>6, <1>7, <1>8 DEF Data

LEMMA CompleteData == ASSUME ReduceInv, ReduceTypeOK', NEW r \in RankIds, Complete(r)
                      PROVE  Data'
<1> USE DEF ReduceInv
<1>1. /\ UNCHANGED <<program, input, tmp, result, pc, arrivals>>
      /\ stream[r] = "running" /\ done'[r] = done[r] + 1 /\ stream'[r] = "idle"
      /\ \A s \in RankIds : s # r => done'[s] = done[s] /\ stream'[s] = stream[s]
      /\ \A b \in BlockIds : pc[r][b] = "done"
  BY DEF Complete, ReduceTypeOK
<1>2. \A s \in RankIds :
        /\ s # r => Running(s)' = Running(s) /\ Size(s)' = Size(s)
        /\ ~Running(r)'
  BY <1>1 DEF Running, Size
<1>3. \A s \in RankIds, c \in BlockIds :
        /\ s # r => Active(s, c)' = Active(s, c)
        /\ ~Active(r, c)'
  BY <1>2 DEF Active
<1>4. /\ Size(r) \in Sizes /\ Size(r) \in Nat \ {0}
      /\ program'[done'[r]] = Size(r) /\ Running(r)
  BY <1>1, SizeFacts DEF Size, Running
<1>5. TmpRight'
  BY <1>1, <1>2, <1>3 DEF TmpRight
<1>6. TmpKept'
  <2> SUFFICES ASSUME NEW s \in RankIds, NEW t \in RankIds, done'[t] = done'[s] + 1,
                      ~OneStage(program[done'[t]]),
                      NEW j \in InPart(t, program[done'[t]])
               PROVE  tmp[t][j] = SumOf(done'[t], PartStart(t, program[done'[t]]) + j)
    BY <1>1 DEF TmpKept
  <2>1. done[s] \in Nat /\ done[t] \in Nat /\ done[r] \in Nat
    BY ParameterAssumption DEF ReduceTypeOK
  <2>2. CASE t = r
    <3> DEFINE b == BlockOf(j, Size(r))
    <3>1. j \in Mine(r, b, Size(r)) /\ j \in Nat
      BY <1>1, <1>4, <2>2, ParameterAssumption DEF Mine, InPart, Elements
    <3>2. b \in BlockIds /\ b < Blocks(Size(r))
      BY <1>4, <3>1, BlockOfFacts
    <3> HIDE DEF b
    <3>3. Active(r, b) /\ pc[r][b] \notin {"start", "reduce"} /\ ~OneStage(Size(r))
      BY <1>1, <1>4, <2>2, <3>2 DEF Active
    <3>4. tmp[r][j] = SumOf(done[r] + 1, PartStart(r, Size(r)) + j)
      BY <3>1, <3>2, <3>3 DEF TmpRight
    <3> QED BY <1>1, <1>4, <2>2, <3>4
  <2>3. CASE t # r /\ s = r
    BY <1>1, <2>1, <2>3, CompleteFacts
  <2>4. CASE t # r /\ s # r
    BY <1>1, <2>4 DEF TmpKept
  <2> QED BY <2>2, <2>3, <2>4
<1>7. ResultSoFar'
  <2> SUFFICES ASSUME NEW s \in RankIds, NEW i \in Elements, Running(s)',
                      i < Size(s)', Written(s, Writer(i, Size(s)))'
               PROVE  result'[s][i] = SumOf(done'[s] + 1, i)
    BY DEF ResultSoFar
  <2>1. s # r
    BY <1>2
  <2> QED BY <1>1, <1>2, <2>1 DEF ResultSoFar, Written
<1>8. ResultCorrect'
  <2> SUFFICES ASSUME NEW s \in RankIds, stream'[s] = "idle", done'[s] > 0,
                      NEW i \in 0 .. program[done'[s]] - 1
               PROVE  result[s][i] = [of |-> {done'[s]}, at |-> i]
    BY <1>1 DEF ResultCorrect
  <2>1. CASE s = r
    <3>1. i \in Elements /\ i < Size(r)
      BY <1>1, <1>4, <2>1 DEF Elements
    <3>2. Written(r, Writer(i, Size(r)))
      BY <1>1, <1>4, <3>1, WriterFacts DEF Written
    <3>3. result[r][i] = SumOf(done[r] + 1, i)
      BY <1>4, <3>1, <3>2 DEF ResultSoFar
    <3> QED BY <1>1, <2>1, <3>3 DEF SumOf
  <2>2. CASE s # r
    BY <1>1, <2>2 DEF ResultCorrect
  <2> QED BY <2>1, <2>2
<1> QED BY <1>5, <1>6, <1>7, <1>8 DEF Data

\* A block that reduces has every rank in the same call, with its input ready.
LEMMA ReduceFacts ==
  ASSUME ReduceInv, NEW r \in RankIds, NEW b \in BlockIds,
         Reduce(r, b) \/ ReduceScatter(r, b)
  PROVE  /\ \A s \in RankIds : done[s] = done[r]
         /\ \A i : Sum(i) = SumOf(done[r] + 1, i)
<1> USE DEF ReduceInv
<1>1. pc[r][b] = "reduce" /\ Met(r, b)
  BY DEF Reduce, ReduceScatter
<1>2. Active(r, b)
  BY BlockStepFacts DEF BlockStep
<1>3. Stage(r, b) = 1
  BY <1>1, <1>2 DEF Stage
<1>4. \A s \in RankIds : done[s] = done[r] /\ Stage(s, b) >= 1
  BY <1>1, <1>2, <1>3, MetFacts
<1>5. \A s \in RankIds : input[s] = done[r] + 1
  <2> TAKE s \in RankIds
  <2>1. Active(s, b)
    BY <1>4, StageType
  <2> QED BY <1>4, <2>1 DEF InOrder, Active, Running
<1>6. {input[s] : s \in RankIds} = {done[r] + 1}
  BY <1>5
<1> QED BY <1>4, <1>6 DEF Sum, SumOf

\* The sums a block gathers are those of its own call.
LEMMA GatherRight ==
  ASSUME ReduceInv, NEW r \in RankIds, NEW b \in BlockIds, AllGather(r, b),
         NEW i \in Elements, i < Size(r), BlockOf(TmpIndex(i, Size(r)), Size(r)) = b
  PROVE  tmp[PartOf(i, Size(r))][TmpIndex(i, Size(r))] = SumOf(done[r] + 1, i)
<1> USE DEF ReduceInv
<1>1. pc[r][b] = "gather" /\ Met(r, b) /\ ~OneStage(Size(r))
  BY DEF AllGather, InOrder
<1>2. Active(r, b) /\ Running(r)
  BY BlockStepFacts DEF BlockStep, Active
<1>3. Stage(r, b) = 2
  BY <1>1, <1>2 DEF Stage
<1>4. Size(r) \in Sizes
  BY <1>2, SizeFacts DEF Running
<1> DEFINE s == PartOf(i, Size(r))
           j == TmpIndex(i, Size(r))
<1>5. s \in RankIds /\ j \in InPart(s, Size(r)) /\ PartStart(s, Size(r)) + j = i
  BY <1>4, GatherFacts
<1>6. j \in Mine(s, b, Size(r))
  BY <1>5 DEF Mine
<1> HIDE DEF s, j
<1>7. \/ done[s] = done[r] /\ Stage(s, b) >= 2
      \/ done[s] = done[r] + 1
  BY <1>1, <1>2, <1>3, <1>5, MetFacts
<1>8. CASE done[s] = done[r] /\ Stage(s, b) >= 2
  <2>1. Active(s, b) /\ Size(s) = Size(r)
    BY <1>5, <1>8, StageType DEF Size
  <2>2. pc[s][b] \notin {"start", "reduce"}
    BY <1>8, <2>1 DEF Stage
  <2>3. tmp[s][j] = SumOf(done[s] + 1, PartStart(s, Size(s)) + j)
    BY <1>1, <1>5, <1>6, <2>1, <2>2 DEF TmpRight
  <2> QED BY <1>5, <1>8, <2>1, <2>3 DEF s, j
<1>9. CASE done[s] = done[r] + 1
  <2>1. program[done[s]] = Size(r)
    BY <1>9 DEF Size
  <2>2. tmp[s][j] = SumOf(done[s], PartStart(s, Size(r)) + j)
    BY <1>1, <1>5, <1>9, <2>1 DEF TmpKept
  <2> QED BY <1>5, <1>9, <2>2 DEF s, j
<1> QED BY <1>7, <1>8, <1>9

\* What a block step changes of the data, and to what.
LEMMA BlockStepData ==
  ASSUME ReduceInv, ReduceTypeOK', NEW r \in RankIds, NEW b \in BlockIds, BlockStep(r, b)
  PROVE  Data'
<1> USE DEF ReduceInv
<1>1. /\ Active(r, b) /\ stream[r] = "running" /\ stream[r] # "idle"
      /\ UNCHANGED <<program, done, stream, input>>
  BY BlockStepFacts
<1>2. \A s \in RankIds : Running(s)' = Running(s) /\ Size(s)' = Size(s)
  BY BlockStepFacts
<1>3. \A s \in RankIds, c \in BlockIds :
        /\ Active(s, c)' = Active(s, c)
        /\ ~(s = r /\ c = b) => pc'[s][c] = pc[s][c]
  BY BlockStepFacts
<1>4. Size(r) \in Sizes /\ Size(r) \in Nat \ {0}
  BY <1>1, SizeFacts
<1>5. \/ UNCHANGED <<tmp, result>> /\ (Arrive(r, b) \/ Exit(r, b))
      \/ Reduce(r, b) /\ UNCHANGED tmp
      \/ ReduceScatter(r, b) /\ UNCHANGED result
      \/ AllGather(r, b) /\ UNCHANGED tmp
  BY DEF BlockStep, Arrive, Exit, Reduce, ReduceScatter, AllGather
<1>6. \A s \in RankIds : s # r => tmp'[s] = tmp[s] /\ result'[s] = result[s]
  BY <1>5 DEF Reduce, ReduceScatter, AllGather, ReduceTypeOK
<1>7. pc'[r][b] \notin {"start", "reduce"} /\ ~ReduceScatter(r, b) /\ ~OneStage(Size(r))
        => pc[r][b] \notin {"start", "reduce"}
  BY DEF BlockStep, Arrive, Exit, Reduce, AllGather, ReduceTypeOK
<1>8. TmpRight'
  <2> SUFFICES ASSUME NEW s \in RankIds, NEW c \in BlockIds, Active(s, c),
                      ~OneStage(Size(s)), pc'[s][c] \notin {"start", "reduce"},
                      NEW j \in Mine(s, c, Size(s))
               PROVE  tmp'[s][j] = SumOf(done[s] + 1, PartStart(s, Size(s)) + j)
    BY <1>1, <1>2, <1>3 DEF TmpRight
  <2>1. CASE s # r
    BY <1>3, <1>6, <2>1 DEF TmpRight
  <2>2. CASE s = r /\ ReduceScatter(r, b)
    <3>1. tmp'[r][j] = IF j \in Mine(r, b, Size(r)) THEN Sum(PartStart(r, Size(r)) + j)
                                                    ELSE tmp[r][j]
      <4>1. j \in Elements
        BY <2>2 DEF Mine, InPart
      <4> QED BY <2>2, <4>1 DEF ReduceScatter, ReduceTypeOK
    <3>2. CASE c = b
      BY <2>2, <3>1, <3>2, ReduceFacts
    <3>3. CASE c # b
      <4>1. j \notin Mine(r, b, Size(r))
        BY <2>2, <3>3 DEF Mine
      <4> QED BY <1>3, <2>2, <3>1, <3>3, <4>1 DEF TmpRight
    <3> QED BY <3>2, <3>3
  <2>3. CASE s = r /\ ~ReduceScatter(r, b)
    <3>1. UNCHANGED tmp
      BY <1>5, <2>3
    <3>2. pc[s][c] \notin {"start", "reduce"}
      BY <1>3, <1>7, <2>3
    <3> QED BY <3>1, <3>2 DEF TmpRight
  <2> QED BY <2>1, <2>2, <2>3
<1>9. TmpKept'
  <2> SUFFICES ASSUME NEW s \in RankIds, NEW t \in RankIds, done[t] = done[s] + 1,
                      ~OneStage(program[done[t]]),
                      NEW j \in InPart(t, program[done[t]])
               PROVE  tmp'[t][j] = SumOf(done[t], PartStart(t, program[done[t]]) + j)
    BY <1>1 DEF TmpKept
  <2>1. done[s] \in Nat /\ done[t] \in Nat /\ done[r] \in Nat
    BY ParameterAssumption DEF ReduceTypeOK
  <2>2. ~(t = r /\ ReduceScatter(r, b))
    BY <2>1, ReduceFacts
  <2>3. tmp'[t] = tmp[t]
    BY <1>5, <1>6, <2>2
  <2> QED BY <2>3 DEF TmpKept
<1>10. ResultSoFar'
  <2> SUFFICES ASSUME NEW s \in RankIds, NEW i \in Elements, Running(s),
                      i < Size(s), Written(s, Writer(i, Size(s)))'
               PROVE  result'[s][i] = SumOf(done[s] + 1, i)
    BY <1>1, <1>2 DEF ResultSoFar
  <2>1. Size(s)' = Size(s)
    BY <1>2
  <2> DEFINE c == Writer(i, Size(s))
  <2>2. c \in BlockIds
    <3>1. Size(s) \in Sizes
      BY SizeFacts DEF Running
    <3> QED BY <3>1, WriterFacts
  <2>3. Written(s, c)' = (\/ pc'[s][c] = "done"
                          \/ OneStage(Size(s)) /\ pc'[s][c] \notin {"start", "reduce"})
    BY <2>1 DEF Written
  <2>4. CASE s # r
    <3>1. Written(s, c)
      BY <1>3, <2>1, <2>2, <2>3, <2>4 DEF Written
    <3> QED BY <1>6, <2>4, <3>1 DEF ResultSoFar
  <2>5. CASE s = r /\ Reduce(r, b)
    <3>1. OneStage(Size(r)) /\ c = BlockOf(i, Size(r))
      BY <2>5 DEF Reduce, Writer
    <3>2. result'[r][i] = IF c = b THEN Sum(i) ELSE result[r][i]
      BY <2>5, <3>1 DEF Reduce, ReduceTypeOK
    <3>3. CASE c = b
      BY <2>5, <3>2, <3>3, ReduceFacts
    <3>4. CASE c # b
      <4>1. Written(s, c)
        BY <1>3, <2>1, <2>2, <2>3, <3>4 DEF Written
      <4> QED BY <2>5, <3>2, <3>4, <4>1 DEF ResultSoFar
    <3> QED BY <3>3, <3>4
  <2>6. CASE s = r /\ AllGather(r, b)
    <3>1. ~OneStage(Size(r)) /\ c = BlockOf(TmpIndex(i, Size(r)), Size(r))
      BY <2>6 DEF AllGather, Writer, InOrder
    <3>2. result'[r][i] = IF c = b THEN tmp[PartOf(i, Size(r))][TmpIndex(i, Size(r))]
                                   ELSE result[r][i]
      BY <2>6, <3>1 DEF AllGather, ReduceTypeOK
    <3>3. CASE c = b
      BY <2>6, <3>1, <3>2, <3>3, GatherRight
    <3>4. CASE c # b
      <4>1. Written(s, c)
        BY <1>3, <2>1, <2>2, <2>3, <3>4 DEF Written
      <4> QED BY <2>6, <3>2, <3>4, <4>1 DEF ResultSoFar
    <3> QED BY <3>3, <3>4
  <2>7. CASE s = r /\ ~Reduce(r, b) /\ ~AllGather(r, b)
    <3>1. UNCHANGED result
      BY <1>5, <2>7
    <3>2. Written(s, c)
      <4>1. CASE c = b
        <5>1. pc'[r][b] = "done" => Written(r, b)
          BY <2>7 DEF BlockStep, Arrive, Exit, ReduceScatter, ReduceTypeOK, Written, InOrder
        <5>2. OneStage(Size(r)) /\ pc'[r][b] \notin {"start", "reduce"} => Written(r, b)
          BY <2>7 DEF BlockStep, Arrive, Exit, ReduceScatter, ReduceTypeOK, Written
        <5> QED BY <2>3, <2>7, <4>1, <5>1, <5>2
      <4>2. CASE c # b
        BY <1>3, <2>1, <2>2, <2>3, <4>2 DEF Written
      <4> QED BY <4>1, <4>2
    <3> QED BY <3>1, <3>2 DEF ResultSoFar
  <2> QED BY <2>4, <2>5, <2>6, <2>7
<1>11. ResultCorrect'
  BY <1>1, <1>6 DEF ResultCorrect
<1> QED BY <1>8, <1>9, <1>10, <1>11 DEF Data

-----------------------------------------------------------------------------
LEMMA ReduceInvInit == ReduceInit => ReduceInv
<1> SUFFICES ASSUME ReduceInit PROVE ReduceInv
  OBVIOUS
<1>1. MaxCalls \in Nat
  BY ParameterAssumption
<1>2. [i \in Elements |-> Unset] \in [Elements -> Sums]
  BY DEF Sums
<1>3. ReduceTypeOK
  BY <1>1, <1>2 DEF ReduceInit, ReduceTypeOK
<1>4. \A r \in RankIds : stream[r] = "idle" /\ ~Running(r) /\ done[r] = 0
  BY DEF ReduceInit, Running
<1>5. \A r \in RankIds, b \in BlockIds : ~Active(r, b) /\ Stage(r, b) = 0
  BY <1>4 DEF Active, Stage
<1>6. InOrder
  BY <1>4, <1>5 DEF ReduceInit, InOrder
<1>7. CountsAgree
  BY <1>4, <1>5 DEF ReduceInit, CountsAgree
<1>8. AtMostOneAhead /\ PassedTogether
  BY <1>4, <1>5 DEF AtMostOneAhead, PassedTogether
<1>9. TmpRight /\ TmpKept /\ ResultSoFar /\ ResultCorrect
  BY <1>4, <1>5 DEF TmpRight, TmpKept, ResultSoFar, ResultCorrect
<1> QED BY <1>3, <1>6, <1>7, <1>8, <1>9 DEF ReduceInv

LEMMA InvStutter == ReduceInv /\ UNCHANGED reduceVars => ReduceInv'
<1> SUFFICES ASSUME ReduceInv, UNCHANGED reduceVars PROVE ReduceInv'
  OBVIOUS
<1> USE DEF ReduceInv, reduceVars
<1>1. \A r \in RankIds : Running(r)' = Running(r) /\ Size(r)' = Size(r)
  BY DEF Running, Size
<1>2. \A r \in RankIds, b \in BlockIds :
        Active(r, b)' = Active(r, b) /\ Stage(r, b)' = Stage(r, b)
  BY <1>1 DEF Active, Stage
<1>3. ReduceTypeOK'
  BY DEF ReduceTypeOK
<1>4. InOrder'
  BY <1>1, <1>2 DEF InOrder
<1>5. AtMostOneAhead' /\ PassedTogether'
  BY <1>1, <1>2 DEF AtMostOneAhead, PassedTogether
<1>6. CountsAgree'
  BY <1>2 DEF CountsAgree, Barriers
<1>7. TmpRight' /\ TmpKept' /\ ResultCorrect'
  BY <1>1, <1>2 DEF TmpRight, TmpKept, ResultCorrect
<1>8. ResultSoFar'
  BY <1>1 DEF ResultSoFar, Written
<1> QED BY <1>3, <1>4, <1>5, <1>6, <1>7, <1>8

LEMMA ReduceInvStep == ReduceInv /\ [ReduceNext]_reduceVars => ReduceInv'
<1> SUFFICES ASSUME ReduceInv, [ReduceNext]_reduceVars PROVE ReduceInv'
  OBVIOUS
<1>1. ReduceTypeOK'
  BY ReduceTypeStep
<1>2. CASE UNCHANGED reduceVars \/ CallsFinished
  BY <1>2, InvStutter DEF CallsFinished
<1>3. ASSUME NEW r \in RankIds, CopyInput(r) PROVE ReduceInv'
  BY <1>1, <1>3, CopyProgress, CopyData DEF ReduceInv, Progress, Data
<1>4. ASSUME NEW r \in RankIds, Launch(r) PROVE ReduceInv'
  BY <1>1, <1>4, LaunchProgress, LaunchData DEF ReduceInv, Progress, Data
<1>5. ASSUME NEW r \in RankIds, Complete(r) PROVE ReduceInv'
  BY <1>1, <1>5, CompleteProgress, CompleteData DEF ReduceInv, Progress, Data
<1>6. ASSUME NEW r \in RankIds, NEW b \in BlockIds, BlockStep(r, b) PROVE ReduceInv'
  BY <1>1, <1>6, BlockProgress, BlockStepData DEF ReduceInv, Progress, Data
<1> QED BY <1>2, <1>3, <1>4, <1>5, <1>6 DEF ReduceNext

\* The strengthening is an invariant of the kernels.
THEOREM ReduceInvariant == ReduceSpec => []ReduceInv
<1> QED BY ReduceInvInit, ReduceInvStep, PTL DEF ReduceSpec

\* Every call of either kernel, whatever came before it and however far apart
\* the ranks and the blocks are, leaves the sum of all ranks' inputs of that
\* call in every element of the result.
THEOREM ResultCorrectHolds == ReduceSpec => []ResultCorrect
<1>1. ReduceInv => ResultCorrect
  BY DEF ReduceInv
<1> QED BY <1>1, ReduceInvariant, PTL

LEMMA CopyAfterReads == ASSUME ReduceInv, NEW r \in RankIds, CopyInput(r)
                        PROVE  InputReadByAll(r)
<1> SUFFICES ASSUME NEW s \in RankIds, ~(done[s] >= done[r])
             PROVE  /\ done[s] + 1 = done[r]
                    /\ stream[s] = "running"
                    /\ \A b \in BlockIds : pc[s][b] \notin {"start", "reduce"}
  BY DEF InputReadByAll
<1>1. done[s] \in Nat /\ done[r] \in Nat
  BY ParameterAssumption DEF ReduceInv, ReduceTypeOK
<1>2. /\ done[r] = done[s] + 1 /\ Running(s)
      /\ \A b \in BlockIds : Active(s, b) => Stage(s, b) = 2
  BY <1>1 DEF ReduceInv, AtMostOneAhead
<1>3. ASSUME NEW b \in BlockIds PROVE pc[s][b] \notin {"start", "reduce"}
  <2>1. CASE Active(s, b)
    BY <1>2, <2>1 DEF Stage
  <2>2. CASE ~Active(s, b)
    BY <2>2 DEF ReduceInv, InOrder
  <2> QED BY <2>1, <2>2
<1> QED BY <1>1, <1>2, <1>3 DEF Running

\* The end barrier of the 1-stage kernel and the second one of the 2-stage
\* kernel are enough: no rank overwrites an input or a tmp buffer a peer may
\* still read, although the 2-stage kernel ends without a barrier.
THEOREM BuffersReadByAllHolds == ReduceSpec => BuffersReadByAll
<1>1. ASSUME ReduceInv, NEW r \in RankIds, NEW b \in BlockIds, ReduceScatter(r, b)
      PROVE  TmpGatheredByAll(r)
  <2>1. \A s \in RankIds : done[s] = done[r] /\ done[s] \in Nat
    BY <1>1, ReduceFacts, ParameterAssumption DEF ReduceInv, ReduceTypeOK
  <2> QED BY <2>1 DEF TmpGatheredByAll
<1>2. ReduceInv /\ [ReduceNext]_reduceVars =>
        [\A r \in RankIds : /\ CopyInput(r) => InputReadByAll(r)
                            /\ \A b \in BlockIds :
                                 ReduceScatter(r, b) => TmpGatheredByAll(r)]_reduceVars
  BY <1>1, CopyAfterReads
<1> QED BY <1>2, ReduceInvariant, PTL DEF ReduceSpec, BuffersReadByAll
=============================================================================
