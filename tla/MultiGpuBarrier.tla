-------------------------- MODULE MultiGpuBarrier --------------------------
(***************************************************************************)
(* The cross-GPU barrier of the vLLM custom all-reduce                     *)
(* (comm/vllm_custom_all_reduce.cuh, struct Signal and                     *)
(* multi_gpu_barrier), for one blockIdx: rank r runs one thread block,     *)
(* whose thread t < ngpus shakes hands with rank t.                        *)
(*                                                                         *)
(* Thread t of rank r increments its own self_counter, stores the new      *)
(* value into the peer_counter that rank t keeps for rank r, in the set    *)
(* selected by the value's parity, and spins until its own peer_counter    *)
(* for rank t, in the same set, EQUALS the value.  Nothing is ever reset,  *)
(* and the counter wraps around.                                           *)
(*                                                                         *)
(* A store to another GPU's memory becomes visible there some time after   *)
(* it is issued, and two stores of a thread to different locations may     *)
(* become visible in either order: flight holds the stores that were       *)
(* issued and are not yet visible.                                         *)
(***************************************************************************)
EXTENDS Integers

CONSTANTS Ranks,      \* the GPUs; also the indices of the threads t < ngpus
          Wrap,       \* number of values of FlagType (2^32 in the code)
          MaxRounds   \* bound: number of barriers each block goes through

\* The parity of the counter must keep alternating when the counter wraps,
\* and a value must differ from the one two rounds before.
ASSUME WrapAssumption == Wrap \in Nat /\ Wrap >= 4 /\ Wrap % 2 = 0
ASSUME RoundsAssumption == MaxRounds \in Nat

VARIABLES
  arrived,       \* arrived[r]: barriers that the block of rank r reached
  left,          \* left[r]: barriers that the whole block of rank r got past
  entered,       \* entered[r][t]: barriers that thread t of rank r entered
  passed,        \* passed[r][t]: barriers whose spin loop it got out of
  self_counter,  \* self_counter[r][t], in the memory of rank r
  peer_counter,  \* peer_counter[r][k][t]: set k, in the memory of rank r,
                 \*   written by thread r of rank t
  flight         \* flight[r][k][t]: the store to peer_counter[r][k][t] that
                 \*   is issued and not yet visible, or NoStore

vars == <<arrived, left, entered, passed, self_counter, peer_counter, flight>>

Flag == 0 .. Wrap - 1
Sets == {0, 1}
NoStore == -1

\* Mutant of Inc: the counter wraps around one value early, so that its parity
\* does not alternate there.
IncOdd(v) == IF v + 2 = Wrap THEN 0 ELSE v + 1

\* val = self_counter += 1 on an unsigned integer.
Inc(v) == IF v + 1 = Wrap THEN 0 ELSE v + 1

\* Mutant of SetOf: one set of peer counters instead of two.
OneSet(v) == 0

\* The counter set of a value: val % 2.
SetOf(v) == v % 2

TypeOK == /\ arrived \in [Ranks -> Nat]
          /\ left \in [Ranks -> Nat]
          /\ entered \in [Ranks -> [Ranks -> Nat]]
          /\ passed \in [Ranks -> [Ranks -> Nat]]
          /\ self_counter \in [Ranks -> [Ranks -> Flag]]
          /\ peer_counter \in [Ranks -> [Sets -> [Ranks -> Flag]]]
          /\ flight \in [Ranks -> [Sets -> [Ranks -> Flag \cup {NoStore}]]]

-----------------------------------------------------------------------------
\* The signal buffers are zeroed before the first call.
Init == /\ arrived = [r \in Ranks |-> 0]
        /\ left = [r \in Ranks |-> 0]
        /\ entered = [r \in Ranks |-> [t \in Ranks |-> 0]]
        /\ passed = [r \in Ranks |-> [t \in Ranks |-> 0]]
        /\ self_counter = [r \in Ranks |-> [t \in Ranks |-> 0]]
        /\ peer_counter = [r \in Ranks |-> [k \in Sets |-> [t \in Ranks |-> 0]]]
        /\ flight = [r \in Ranks |-> [k \in Sets |-> [t \in Ranks |-> NoStore]]]

\* The block of rank r reaches its next barrier: a kernel starts (start
\* barrier) or all threads met in the __syncthreads before it.
Begin(r) == /\ left[r] = arrived[r]
            /\ arrived[r] < MaxRounds
            /\ arrived' = [arrived EXCEPT ![r] = @ + 1]
            /\ UNCHANGED <<left, entered, passed, self_counter, peer_counter, flight>>

\* Thread t of rank r increments its counter and issues the store to rank t.
Signal(r, t) ==
  LET val == Inc(self_counter[r][t])
  IN  /\ entered[r][t] < arrived[r]
      /\ entered' = [entered EXCEPT ![r][t] = @ + 1]
      /\ self_counter' = [self_counter EXCEPT ![r][t] = val]
      /\ flight' = [flight EXCEPT ![t][SetOf(val)][r] = val]
      /\ UNCHANGED <<arrived, left, passed, peer_counter>>

\* A store to rank r becomes visible in its memory.
Deliver(r, k, t) ==
  /\ flight[r][k][t] # NoStore
  /\ peer_counter' = [peer_counter EXCEPT ![r][k][t] = flight[r][k][t]]
  /\ flight' = [flight EXCEPT ![r][k][t] = NoStore]
  /\ UNCHANGED <<arrived, left, entered, passed, self_counter>>

\* Mutant of Observe: the spin loop waits for at least the value.
ObserveAtLeast(r, t) ==
  LET val == self_counter[r][t]
  IN  /\ passed[r][t] < entered[r][t]
      /\ peer_counter[r][SetOf(val)][t] >= val
      /\ passed' = [passed EXCEPT ![r][t] = @ + 1]
      /\ UNCHANGED <<arrived, left, entered, self_counter, peer_counter, flight>>

\* The load in the spin loop of thread t of rank r returns the value the
\* thread waits for (a load that does not leaves the state alone).
Observe(r, t) ==
  LET val == self_counter[r][t]
  IN  /\ passed[r][t] < entered[r][t]
      /\ peer_counter[r][SetOf(val)][t] = val
      /\ passed' = [passed EXCEPT ![r][t] = @ + 1]
      /\ UNCHANGED <<arrived, left, entered, self_counter, peer_counter, flight>>

\* Mutant of Join: no __syncthreads after the barrier, so the first thread
\* that gets past takes the block with it.
JoinWithFirst(r) ==
  /\ left[r] < arrived[r]
  /\ \E t \in Ranks : passed[r][t] = arrived[r]
  /\ left' = [left EXCEPT ![r] = @ + 1]
  /\ UNCHANGED <<arrived, entered, passed, self_counter, peer_counter, flight>>

\* All threads of rank r's block got past: the __syncthreads after the
\* barrier, or the end of the kernel.
Join(r) == /\ left[r] < arrived[r]
           /\ \A t \in Ranks : passed[r][t] = arrived[r]
           /\ left' = [left EXCEPT ![r] = @ + 1]
           /\ UNCHANGED <<arrived, entered, passed, self_counter, peer_counter, flight>>

\* The program is over (the bound): nothing happens any more.
Finished == /\ \A r \in Ranks : left[r] = MaxRounds
            /\ UNCHANGED vars

Next == \/ \E r \in Ranks : Begin(r) \/ Join(r)
        \/ \E r, t \in Ranks : Signal(r, t) \/ Observe(r, t)
        \/ \E r, t \in Ranks, k \in Sets : Deliver(r, k, t)
        \/ Finished

Spec == Init /\ [][Next]_vars

\* The blocks are resident (at most kMaxBlocks = 36 of them, fewer than the
\* SMs of the GPUs the kernel supports), so each thread is scheduled, and an
\* issued store becomes visible.  Every rank makes the same calls.
Fairness == /\ \A r \in Ranks : WF_vars(Begin(r)) /\ WF_vars(Join(r))
            /\ \A r, t \in Ranks : WF_vars(Signal(r, t)) /\ WF_vars(Observe(r, t))
            /\ \A r, t \in Ranks, k \in Sets : WF_vars(Deliver(r, k, t))

FairSpec == Spec /\ Fairness

-----------------------------------------------------------------------------
\* The value that the last store to peer_counter[r][k][t] leaves there.
Posted(r, k, t) == IF flight[r][k][t] = NoStore THEN peer_counter[r][k][t]
                                                ELSE flight[r][k][t]

\* No thread gets out of the spin loop of its n-th barrier before its
\* partner entered its own n-th barrier: an equal value in the right set is
\* never a leftover of an earlier round, also when the counter has wrapped.
NoEarlyPass == \A r, t \in Ranks : passed[r][t] <= entered[t][r]

\* The barrier as a kernel sees it: when a block is past its n-th barrier,
\* the block of every rank has reached its own n-th barrier.
Meeting == \A r, s \in Ranks : left[r] <= arrived[s]

\* The hazard that the comment on struct Signal names: once the partner has
\* signalled for the round a thread is in, the value the thread spins on is
\* in place or on its way, although the partner may have signalled for the
\* next round as well.  Otherwise the spin (on equality) never ends.
NoLostSignal ==
  \A r, t \in Ranks :
    (passed[r][t] < entered[r][t] /\ entered[r][t] <= entered[t][r])
      => Posted(r, SetOf(self_counter[r][t]), t) = self_counter[r][t]

\* A thread never stores to a location while an earlier store to it is not
\* yet visible or not yet observed, so no order of delivery matters.
StoreConsumedFirst ==
  [][\A r, t \in Ranks : Signal(t, r) =>
       LET k == SetOf(self_counter'[t][r])
       IN  /\ flight[r][k][t] = NoStore
           /\ entered[t][r] - 1 <= passed[r][t]]_vars

\* Every block gets through all the barriers of the program.
AllGetThrough == <>(\A r \in Ranks : left[r] = MaxRounds)

\* Refinement: the barrier implements the meeting RankBarrier promises.
Abstract == INSTANCE RankBarrier WITH
              Ranks <- Ranks, MaxRounds <- MaxRounds,
              arrived <- arrived, left <- left
RefinesRankBarrier == Abstract!FairSpec

-----------------------------------------------------------------------------
(* The inductive invariant behind NoEarlyPass, Meeting and NoLostSignal.   *)
(* It speaks of one pair of threads at a time: thread t of rank r, its     *)
(* partner (thread r of rank t), and the two locations in rank r's memory  *)
(* that the partner writes.                                                *)

\* The rounds of a thread and of its block go together.
RoundsOrdered ==
  \A r, t \in Ranks : /\ left[r] <= passed[r][t]
                       /\ passed[r][t] <= entered[r][t]
                       /\ entered[r][t] <= passed[r][t] + 1
                       /\ entered[r][t] <= arrived[r]
                       /\ arrived[r] <= left[r] + 1

\* Partners in the same round have the same counter, and a partner that is
\* one round ahead has the next value.
CountersAgree ==
  \A r, t \in Ranks :
    /\ entered[r][t] = entered[t][r] => self_counter[r][t] = self_counter[t][r]
    /\ entered[t][r] = entered[r][t] + 1
         => self_counter[t][r] = Inc(self_counter[r][t])

\* The partner's last store holds its counter, and the other set does not
\* hold the value the partner is going to store there next.
LastPosted ==
  \A r, t \in Ranks :
    LET c == self_counter[t][r]
    IN  /\ Posted(r, SetOf(c), t) = c
        /\ Posted(r, SetOf(Inc(c)), t) # Inc(c)

\* A partner one round ahead left the value of this round in the other set.
PreviousPosted ==
  \A r, t \in Ranks :
    entered[t][r] = entered[r][t] + 1
      => Posted(r, SetOf(self_counter[r][t]), t) = self_counter[r][t]

\* A store in flight belongs to a round the thread it is meant for has not
\* got past, and changes the location it goes to.
FlightFresh ==
  \A r, t \in Ranks, k \in Sets :
    flight[r][k][t] # NoStore =>
      /\ peer_counter[r][k][t] # flight[r][k][t]
      /\ IF k = SetOf(self_counter[t][r]) THEN passed[r][t] < entered[t][r]
                                          ELSE passed[r][t] + 1 < entered[t][r]

IInv == /\ TypeOK
        /\ RoundsOrdered
        /\ NoEarlyPass
        /\ CountersAgree
        /\ LastPosted
        /\ PreviousPosted
        /\ FlightFresh
=============================================================================
