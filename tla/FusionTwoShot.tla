--------------------------- MODULE FusionTwoShot ---------------------------
(***************************************************************************)
(* The two-shot all-reduce of comm/trtllm_allreduce_fusion.cuh             *)
(* (allreduce_fusion_kernel_twoshot_sync with SyncComm and Barrier): each  *)
(* rank copies its input to its own comm buffer, reduces its part of the   *)
(* tokens from the buffers of all ranks, and stores the sums to all of     *)
(* them, with a barrier after either step.                                 *)
(*                                                                         *)
(* A barrier flag takes the values 0, 1 and 2 in turn.  Block b of a rank  *)
(* waits at the flags with index b, one for each rank; it also stores the  *)
(* flags with the indices of blocks that this call does not launch, since  *)
(* the next call may launch them.  The value carries over from call to     *)
(* call in the workspace.                                                  *)
(*                                                                         *)
(* A cluster is one block and handles a token at a time; a token is one    *)
(* cell of the comm buffer.  The stores of a thread are releases, so they  *)
(* become visible in program order: each is a step.                        *)
(***************************************************************************)
EXTENDS Integers, Sequences, FiniteSets

CONSTANTS NRanks,
          Programs,     \* sequences of calls to consider: numbers of tokens
          MaxTokens,    \* the largest number of tokens of a call
          SmCount,      \* sm_count
          FlagCount     \* kBarrierFlagCount

ASSUME ParameterAssumption ==
  /\ NRanks \in Nat \ {0} /\ MaxTokens \in Nat \ {0}
  /\ SmCount \in Nat \ {0} /\ FlagCount \in Nat /\ SmCount <= FlagCount
  /\ Programs \subseteq Seq(1 .. MaxTokens)

Ranks == 0 .. NRanks - 1
BlockIds == 0 .. SmCount - 1
FlagIds == 0 .. FlagCount - 1
Tokens == 0 .. MaxTokens - 1
Addresses == 0 .. 2 * MaxTokens - 1

VARIABLES
  program,       \* the calls each rank makes, the same on every rank
  call,          \* call[r]: calls that are over on rank r
  flag,          \* flag[r]: *flag_ptr, in the workspace of rank r
  counter,       \* counter[r]: *counter_ptr
  barrier_flags, \* barrier_flags[r][f][s]: what rank s stored on rank r
  comm_bufs,     \* comm_bufs[r][a]: the terms of the sum in the cell
  pc,            \* pc[r][b]: where block b of rank r is
  value,         \* value[r][b]: m_flag_value of the block's threads
  next,          \* next[r][b][t]: the flag thread t stores next, or Waited
  out            \* out[r][t]: the terms of the sum rank r put out for token t

vars == <<program, call, flag, counter, barrier_flags, comm_bufs, pc, value, next, out>>

Waited == -1       \* the thread is through with its wait
NoStores == -2     \* the block is in no barrier

Terms == (1 .. Len(program)) \X Ranks \X Tokens

TypeOK ==
  /\ program \in Programs
  /\ call \in [Ranks -> 0 .. Len(program)]
  /\ flag \in [Ranks -> 0 .. 2]
  /\ counter \in [Ranks -> 0 .. SmCount]
  /\ barrier_flags \in [Ranks -> [FlagIds -> [Ranks -> 0 .. 2]]]
  /\ comm_bufs \in [Ranks -> [Addresses -> SUBSET Terms]]
  /\ pc \in [Ranks -> [BlockIds -> {"off", "start", "sync1", "sync2", "update", "done"}]]
  /\ value \in [Ranks -> [BlockIds -> 0 .. 2]]
  /\ next \in [Ranks -> [BlockIds -> [Ranks -> {Waited, NoStores} \cup 0 .. FlagCount + SmCount]]]
  /\ out \in [Ranks -> [Tokens -> SUBSET Terms]]

-----------------------------------------------------------------------------
\* The launch: tokens are dealt to the ranks, then to the blocks of the grid.
NumTokens(r) == program[call[r] + 1]
PerRank(n) == n \div NRanks
Remaining(n) == n % NRanks
BeginToken(n, q) == q * PerRank(n) + (IF Remaining(n) > q THEN q ELSE Remaining(n))
\* Mutant: the remaining tokens are nobody's.
PartNoRemainder(n, q) ==
  {t \in Tokens : BeginToken(n, q) <= t /\ t < BeginToken(n, q) + PerRank(n)}

Part(n, q) == {t \in Tokens : /\ BeginToken(n, q) <= t
                              /\ t < BeginToken(n, q) + PerRank(n)
                                     + (IF Remaining(n) > q THEN 1 ELSE 0)}

GridDim(n) == LET clusters == PerRank(n) + (IF Remaining(n) > 0 THEN 1 ELSE 0)
              IN  IF clusters < SmCount THEN clusters ELSE SmCount

\* The tokens of rank q's part that block b handles, on every rank.
TokensOf(n, q, b) == {t \in Part(n, q) : (t - BeginToken(n, q)) % GridDim(n) = b}

\* The tokens of all parts that block b handles.
Mine(n, b) == UNION {TokensOf(n, q, b) : q \in Ranks}

\* Mutant: flags of two values.
NextFlagOfTwo(v) == 1 - (v % 2)

NextFlag(v) == IF v = 2 THEN 0 ELSE v + 1
PrevFlag(v) == IF v = 0 THEN 2 ELSE v - 1

Init ==
  /\ program \in Programs
  /\ call = [r \in Ranks |-> 0]
  /\ flag = [r \in Ranks |-> 0]
  /\ counter = [r \in Ranks |-> 0]
  /\ barrier_flags = [r \in Ranks |-> [f \in FlagIds |-> [s \in Ranks |-> 0]]]
  /\ comm_bufs = [r \in Ranks |-> [a \in Addresses |-> {}]]
  /\ pc = [r \in Ranks |-> [b \in BlockIds |-> "off"]]
  /\ value = [r \in Ranks |-> [b \in BlockIds |-> 0]]
  /\ next = [r \in Ranks |-> [b \in BlockIds |-> [t \in Ranks |-> NoStores]]]
  /\ out = [r \in Ranks |-> [t \in Tokens |-> {}]]

Launch(r) ==
  /\ call[r] < Len(program)
  /\ \A b \in BlockIds : pc[r][b] = "off"
  /\ pc' = [pc EXCEPT ![r] = [b \in BlockIds |->
                                IF b < GridDim(NumTokens(r)) THEN "start" ELSE "off"]]
  /\ out' = [out EXCEPT ![r] = [t \in Tokens |-> {}]]
  /\ UNCHANGED <<program, call, flag, counter, barrier_flags, comm_bufs, value, next>>

\* The block enters a barrier with the value v before it.
Enter(r, b, v) == /\ value' = [value EXCEPT ![r][b] = NextFlag(v)]
                  /\ next' = [next EXCEPT ![r][b] = [t \in Ranks |-> b]]

\* SyncComm reads the flag and arrives; the block copies its tokens of every
\* part to the rank's own comm buffer and enters the first barrier.
CopyInput(r, b) ==
  LET n == NumTokens(r)
      mine == Mine(n, b)
  IN  /\ pc[r][b] = "start"
      /\ counter' = [counter EXCEPT ![r] = @ + 1]
      /\ comm_bufs' = [comm_bufs EXCEPT ![r] =
                         [a \in Addresses |-> IF a \in mine THEN {<<call[r] + 1, r, a>>}
                                                            ELSE @[a]]]
      /\ Enter(r, b, flag[r])
      /\ pc' = [pc EXCEPT ![r][b] = "sync1"]
      /\ UNCHANGED <<program, call, flag, barrier_flags, out>>

\* Barrier::sync: thread t stores to rank t every gridDim.x-th flag.
StoreFlag(r, b, t) ==
  /\ next[r][b][t] \in FlagIds
  /\ barrier_flags' = [barrier_flags EXCEPT ![t][next[r][b][t]][r] = value[r][b]]
  /\ next' = [next EXCEPT ![r][b][t] = @ + GridDim(NumTokens(r))]
  /\ UNCHANGED <<program, call, flag, counter, comm_bufs, pc, value, out>>

\* Mutant: waits for the very value, which a peer that is ahead overwrites.
WaitFlagForEqual(r, b, t) ==
  /\ next[r][b][t] >= FlagCount
  /\ barrier_flags[r][b][t] = value[r][b]
  /\ next' = [next EXCEPT ![r][b][t] = Waited]
  /\ UNCHANGED <<program, call, flag, counter, barrier_flags, comm_bufs, pc, value, out>>

\* Then it spins on rank t's flag for its own block.
WaitFlag(r, b, t) ==
  /\ next[r][b][t] >= FlagCount
  /\ barrier_flags[r][b][t] # PrevFlag(value[r][b])
  /\ next' = [next EXCEPT ![r][b][t] = Waited]
  /\ UNCHANGED <<program, call, flag, counter, barrier_flags, comm_bufs, pc, value, out>>

Through(r, b) == \A t \in Ranks : next[r][b][t] = Waited

\* The block reduces its tokens of the rank's part, stores the sums behind the
\* inputs of this call in all comm buffers, and enters the second barrier.
Reduce(r, b) ==
  LET n == NumTokens(r)
      mine == TokensOf(n, r, b)
  IN  /\ pc[r][b] = "sync1" /\ Through(r, b)
      /\ comm_bufs' = [s \in Ranks |-> [a \in Addresses |->
                         IF a - n \in mine THEN UNION {comm_bufs[q][a - n] : q \in Ranks}
                                           ELSE comm_bufs[s][a]]]
      /\ Enter(r, b, value[r][b])
      /\ pc' = [pc EXCEPT ![r][b] = "sync2"]
      /\ UNCHANGED <<program, call, flag, counter, barrier_flags, out>>

\* The block puts out its tokens of every part, from the rank's own buffer.
Output(r, b) ==
  LET n == NumTokens(r)
      mine == Mine(n, b)
  IN  /\ pc[r][b] = "sync2" /\ Through(r, b)
      /\ out' = [out EXCEPT ![r] = [t \in Tokens |-> IF t \in mine THEN comm_bufs[r][n + t]
                                                                   ELSE @[t]]]
      /\ next' = [next EXCEPT ![r][b] = [t \in Ranks |-> NoStores]]
      /\ pc' = [pc EXCEPT ![r][b] = IF b = 0 THEN "update" ELSE "done"]
      /\ UNCHANGED <<program, call, flag, counter, barrier_flags, comm_bufs, value>>

\* Mutant: block 0 does not wait for the arrivals.
UpdateNoWait(r) ==
  /\ pc[r][0] = "update"
  /\ flag' = [flag EXCEPT ![r] = value[r][0]]
  /\ counter' = [counter EXCEPT ![r] = 0]
  /\ pc' = [pc EXCEPT ![r][0] = "done"]
  /\ UNCHANGED <<program, call, barrier_flags, comm_bufs, value, next, out>>

\* SyncComm::update, by block 0.
Update(r) ==
  /\ pc[r][0] = "update"
  /\ counter[r] = GridDim(NumTokens(r))
  /\ flag' = [flag EXCEPT ![r] = value[r][0]]
  /\ counter' = [counter EXCEPT ![r] = 0]
  /\ pc' = [pc EXCEPT ![r][0] = "done"]
  /\ UNCHANGED <<program, call, barrier_flags, comm_bufs, value, next, out>>

\* The kernel is over; the next call's waits for that
\* (cudaGridDependencySynchronize).
Complete(r) ==
  /\ pc[r][0] = "done" /\ \A b \in BlockIds : pc[r][b] \in {"off", "done"}
  /\ call' = [call EXCEPT ![r] = @ + 1]
  /\ pc' = [pc EXCEPT ![r] = [b \in BlockIds |-> "off"]]
  /\ UNCHANGED <<program, flag, counter, barrier_flags, comm_bufs, value, next, out>>

Finished == (\A r \in Ranks : call[r] = Len(program)) /\ UNCHANGED vars

BlockStep(r, b) == CopyInput(r, b) \/ Reduce(r, b) \/ Output(r, b)

Next == \/ \E r \in Ranks : Launch(r) \/ Update(r) \/ Complete(r)
        \/ \E r \in Ranks, b \in BlockIds : BlockStep(r, b)
        \/ \E r \in Ranks, b \in BlockIds, t \in Ranks : StoreFlag(r, b, t) \/ WaitFlag(r, b, t)
        \/ Finished

Spec == Init /\ [][Next]_vars

\* The grid has at most as many blocks as the GPU has SMs, so all are resident.
FairSpec ==
  /\ Spec
  /\ \A r \in Ranks : WF_vars(Launch(r) \/ Update(r) \/ Complete(r))
  /\ \A r \in Ranks, b \in BlockIds : WF_vars(BlockStep(r, b))
  /\ \A r \in Ranks, b \in BlockIds, t \in Ranks : WF_vars(StoreFlag(r, b, t) \/ WaitFlag(r, b, t))

-----------------------------------------------------------------------------
\* The barriers that block b of rank r has entered: two in each call, whether
\* the call launches the block or not.
Entered(r, b) == 2 * call[r] + (CASE pc[r][b] = "sync1" -> 1
                                  [] pc[r][b] \in {"sync2", "update", "done"} -> 2
                                  [] OTHER -> 0)

\* The barriers for which rank r has stored flag f on rank t: what the flag
\* counts, modulo 3.
Busy(r) == pc[r][0] # "off"
Grid(r) == GridDim(NumTokens(r))
InBarrier(r, b) == pc[r][b] \in {"sync1", "sync2"}

StoredIn(r, b, f, t) ==
  CASE InBarrier(r, b) -> (IF pc[r][b] = "sync1" THEN 0 ELSE 1)
                          + (IF next[r][b][t] = Waited \/ next[r][b][t] > f THEN 1 ELSE 0)
    [] pc[r][b] \in {"update", "done"} -> 2
    [] OTHER -> 0
Stored(r, f, t) == 2 * call[r] + (IF Busy(r) THEN StoredIn(r, f % Grid(r), f, t) ELSE 0)

\* Which blocks run, and the words of the workspace they share.
BlocksRight ==
  \A r \in Ranks :
    /\ Busy(r) => /\ call[r] < Len(program)
                  /\ \A b \in BlockIds : pc[r][b] = "off" <=> b >= Grid(r)
    /\ ~Busy(r) => \A b \in BlockIds : pc[r][b] = "off"
    /\ \A b \in BlockIds : pc[r][b] = "update" => b = 0
    /\ pc[r][0] = "done" => counter[r] = 0 /\ \A b \in BlockIds : pc[r][b] # "start"
    /\ pc[r][0] # "done" =>
         counter[r] = Cardinality({b \in BlockIds : pc[r][b] \notin {"off", "start"}})
    /\ flag[r] = (2 * call[r] + (IF pc[r][0] = "done" THEN 2 ELSE 0)) % 3

\* The flag values: every block stores the number of the barrier it is in.
FlagsRight ==
  /\ \A r \in Ranks, b \in BlockIds :
       pc[r][b] \in {"sync1", "sync2", "update", "done"} => value[r][b] = Entered(r, b) % 3
  /\ \A r, t \in Ranks, b \in BlockIds :
       IF InBarrier(r, b)
         THEN \/ next[r][b][t] = Waited
              \/ next[r][b][t] \in Nat /\ next[r][b][t] >= b /\ next[r][b][t] % Grid(r) = b
         ELSE next[r][b][t] = NoStores
  /\ \A r, t \in Ranks, f \in FlagIds : barrier_flags[t][f][r] = Stored(r, f, t) % 3

\* What rank r has waited for: the second barrier of its last call, for every
\* block of that call, and the barriers of this one.
MetLast ==
  \A r, t \in Ranks : call[r] > 0 =>
    \A b \in 0 .. GridDim(program[call[r]]) - 1 : Stored(t, b, r) >= 2 * call[r]
MetHere ==
  \A r, t \in Ranks, b \in BlockIds :
    /\ pc[r][b] = "sync2" => Stored(t, b, r) >= 2 * call[r] + 1
    /\ pc[r][b] \in {"update", "done"} \/ next[r][b][t] = Waited => Stored(t, b, r) >= Entered(r, b)

\* What the comm buffers hold, and what was put out.
SumOf(c, t) == {<<c, s, t>> : s \in Ranks}
Reduced(s, b, c) == \/ call[s] > c
                    \/ call[s] = c /\ pc[s][b] \in {"sync2", "update", "done"}

BufferRight ==
  \A r \in Ranks, b \in BlockIds : pc[r][b] \notin {"off", "start"} =>
    LET n == NumTokens(r) IN
      /\ \A a \in Mine(n, b) : comm_bufs[r][a] = {<<call[r] + 1, r, a>>}
      /\ \A s \in Ranks : Reduced(s, b, call[r]) =>
           \A t \in TokensOf(n, s, b) : comm_bufs[r][n + t] = SumOf(call[r] + 1, t)

OutRight ==
  \A r \in Ranks :
    /\ Busy(r) => /\ \A t \in Tokens : out[r][t] \in {{}, SumOf(call[r] + 1, t)}
                  /\ \A b \in BlockIds : pc[r][b] \in {"update", "done"} =>
                       \A t \in Mine(NumTokens(r), b) : out[r][t] = SumOf(call[r] + 1, t)
    /\ ~Busy(r) /\ call[r] > 0 =>
         \A t \in 0 .. program[call[r]] - 1 : out[r][t] = SumOf(call[r], t)

\* Together these are inductive.
IInv == TypeOK /\ BlocksRight /\ FlagsRight /\ MetLast /\ MetHere /\ BufferRight /\ OutRight

\* A thread is through with its wait for rank t only when block b of rank t has
\* entered the same barrier, whatever the values of the flags and the grids of
\* the calls before ("to avoid the ABA problem", says the code).
NoEarlyPass ==
  \A r, t \in Ranks, b \in BlockIds :
    next[r][b][t] = Waited => Entered(r, b) <= Entered(t, b)

\* What a rank puts out for a token is the sum of the inputs of this call, one
\* of each rank, and when the call is over there is one for every token: no
\* comm buffer, input or sum, is read too early or overwritten too early,
\* although inputs and sums of calls of different sizes overlap.
ResultCorrect ==
  \A r \in Ranks :
    IF \A b \in BlockIds : pc[r][b] = "off"
      THEN call[r] > 0 => \A t \in 0 .. program[call[r]] - 1 :
                            out[r][t] = {<<call[r], s, t>> : s \in Ranks}
      ELSE \A t \in Tokens : out[r][t] \in {{}, {<<call[r] + 1, s, t>> : s \in Ranks}}

\* Every call ends on every rank: a flag that moves on by one before a slow
\* peer has looked at it still lets the peer through.
AllCallsEnd == <>(\A r \in Ranks : call[r] = Len(program))
=============================================================================
