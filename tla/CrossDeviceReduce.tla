------------------------- MODULE CrossDeviceReduce -------------------------
(***************************************************************************)
(* The kernels of the vLLM custom all-reduce                               *)
(* (comm/vllm_custom_all_reduce.cuh): cross_device_reduce_1stage and       *)
(* cross_device_reduce_2stage, launched one after the other on the stream  *)
(* of every rank, with the memory they share: the registered input buffer  *)
(* of each rank, which all ranks read, and the tmp buffer behind each      *)
(* rank's Signal, which all ranks gather from.                             *)
(*                                                                         *)
(* Only thread blocks with the same blockIdx meet in multi_gpu_barrier;    *)
(* the barrier is the one RankBarrier promises (arrive, then wait for all  *)
(* ranks to arrive), so the model keeps a count of arrivals.  The wait is  *)
(* the guard of the step after the barrier: it stays true once it is true. *)
(*                                                                         *)
(* An element of an input buffer is known by the call it was written for,  *)
(* a sum by the calls its terms come from and by its index.                *)
(***************************************************************************)
EXTENDS Integers

CONSTANTS N,              \* world_size_
          Sizes,          \* sizes of the inputs, in packed elements
          OneStageBelow,  \* sizes from here on take the 2-stage kernel
          Threads,        \* threads of a block
          BlockLimit,     \* block_limit
          MaxCalls        \* bound: number of calls each rank makes

ASSUME ParameterAssumption ==
  /\ N \in Nat \ {0, 1} /\ Threads \in Nat \ {0} /\ BlockLimit \in Nat \ {0}
  /\ Sizes \subseteq Nat \ {0} /\ OneStageBelow \in Nat /\ MaxCalls \in Nat

RankIds == 0 .. N - 1
BlockIds == 0 .. BlockLimit - 1
Elements == UNION {0 .. n - 1 : n \in Sizes}
CallIds == 1 .. MaxCalls

VARIABLES
  program,   \* program[k]: the size of call k, the same on every rank
  done,      \* done[r]: calls whose kernel is over on rank r
  stream,    \* stream[r]: "idle", "copied" or "running"
  input,     \* input[r]: the call whose data rank r's input buffer holds
  tmp,       \* tmp[r][j]: the sum in rank r's tmp buffer at j
  result,    \* result[r][i]: the output of rank r's current or last call
  pc,        \* pc[r][b]: where block b of rank r is
  arrivals   \* arrivals[r][b]: barriers block b of rank r arrived at

reduceVars == <<program, done, stream, input, tmp, result, pc, arrivals>>

Unset == [of |-> {}, at |-> -1]
Sums == [of : SUBSET (CallIds \cup {0}), at : Elements] \cup {Unset}

ReduceTypeOK == /\ program \in [CallIds -> Sizes]
                /\ done \in [RankIds -> 0 .. MaxCalls]
                /\ stream \in [RankIds -> {"idle", "copied", "running"}]
                /\ input \in [RankIds -> 0 .. MaxCalls]
                /\ tmp \in [RankIds -> [Elements -> Sums]]
                /\ result \in [RankIds -> [Elements -> Sums]]
                /\ pc \in [RankIds -> [BlockIds ->
                            {"start", "reduce", "sync", "exit", "gather", "done"}]]
                /\ arrivals \in [RankIds -> [BlockIds -> Nat]]

-----------------------------------------------------------------------------
\* The launch configuration: std::min(block_limit, ceil(size / threads)).
Blocks(size) == LET need == (size + Threads - 1) \div Threads
                IN  IF need < BlockLimit THEN need ELSE BlockLimit

\* The kernel allreduce chooses (full_nvlink_).
OneStage(size) == N = 2 \/ size < OneStageBelow

\* The block that handles element i in a grid-stride loop that starts at 0.
BlockOf(i, size) == (i \div Threads) % Blocks(size)

\* The part of the elements that rank r reduces in the 2-stage kernel: the
\* last rank takes the remainder.
Part(size) == size \div N
PartStart(r, size) == r * Part(size)
\* Mutants of PartEnd: one element too many; the remainder is nobody's.
PartEndInclusive(r, size) == (IF r = N - 1 THEN size ELSE PartStart(r, size) + Part(size)) + 1
PartEndNoRemainder(r, size) == PartStart(r, size) + Part(size)

PartEnd(r, size) == IF r = N - 1 THEN size ELSE PartStart(r, size) + Part(size)

\* The sum of element i over the input buffers of all ranks as they are now.
Sum(i) == [of |-> {input[s] : s \in RankIds}, at |-> i]

\* Mutant of Met: waits for the value after the one the peers signal.
MetNextValue(r, b) == \A s \in RankIds \ {r} : arrivals[r][b] < arrivals[s][b]

\* All ranks arrived at the barrier block b of rank r waits in.
Met(r, b) == \A s \in RankIds : arrivals[r][b] <= arrivals[s][b]

Size(r) == program[done[r] + 1]

ReduceInit == /\ program \in [CallIds -> Sizes]
              /\ done = [r \in RankIds |-> 0]
              /\ stream = [r \in RankIds |-> "idle"]
              /\ input = [r \in RankIds |-> 0]
              /\ tmp = [r \in RankIds |-> [j \in Elements |-> Unset]]
              /\ result = [r \in RankIds |-> [i \in Elements |-> Unset]]
              /\ pc = [r \in RankIds |-> [b \in BlockIds |-> "done"]]
              /\ arrivals = [r \in RankIds |-> [b \in BlockIds |-> 0]]

\* The data of the next call is written to the registered buffer, on the
\* stream, after the kernel of the previous call.
CopyInput(r) == /\ stream[r] = "idle"
                /\ done[r] < MaxCalls
                /\ input' = [input EXCEPT ![r] = done[r] + 1]
                /\ stream' = [stream EXCEPT ![r] = "copied"]
                /\ UNCHANGED <<program, done, tmp, result, pc, arrivals>>

Launch(r) == /\ stream[r] = "copied"
             /\ stream' = [stream EXCEPT ![r] = "running"]
             /\ pc' = [pc EXCEPT ![r] =
                         [b \in BlockIds |-> IF b < Blocks(Size(r)) THEN "start"
                                                                   ELSE "done"]]
             /\ result' = [result EXCEPT ![r] = [i \in Elements |-> Unset]]
             /\ UNCHANGED <<program, done, input, tmp, arrivals>>

\* Block b signals in multi_gpu_barrier: the start barrier or the second one.
Arrive(r, b) ==
  /\ stream[r] = "running"
  /\ \/ /\ pc[r][b] = "start"
        /\ pc' = [pc EXCEPT ![r][b] = "reduce"]
     \/ /\ pc[r][b] = "sync"
        /\ pc' = [pc EXCEPT ![r][b] = IF OneStage(Size(r)) THEN "exit" ELSE "gather"]
  /\ arrivals' = [arrivals EXCEPT ![r][b] = @ + 1]
  /\ UNCHANGED <<program, done, stream, input, tmp, result>>

\* 1-stage: the block reduces its elements straight into the result.
Reduce(r, b) ==
  /\ pc[r][b] = "reduce" /\ OneStage(Size(r)) /\ Met(r, b)
  /\ result' = [result EXCEPT ![r] =
                  [i \in Elements |->
                     IF i < Size(r) /\ BlockOf(i, Size(r)) = b THEN Sum(i) ELSE @[i]]]
  /\ pc' = [pc EXCEPT ![r][b] = "sync"]
  /\ UNCHANGED <<program, done, stream, input, tmp, arrivals>>

\* Mutant of Exit: the 1-stage kernel ends without a barrier.
ExitNoBarrier(r, b) == /\ pc[r][b] = "exit"
                       /\ pc' = [pc EXCEPT ![r][b] = "done"]
                       /\ UNCHANGED <<program, done, stream, input, tmp, result, arrivals>>

\* 1-stage: the wait of the end barrier, after which the block exits.
Exit(r, b) == /\ pc[r][b] = "exit" /\ Met(r, b)
              /\ pc' = [pc EXCEPT ![r][b] = "done"]
              /\ UNCHANGED <<program, done, stream, input, tmp, result, arrivals>>

\* The indices of tmp that block b of rank r fills: those of its part.
InPart(r, size) == {j \in Elements : PartStart(r, size) + j < PartEnd(r, size)}
Mine(r, b, size) == {j \in InPart(r, size) : BlockOf(j, size) = b}

\* 2-stage, stage 1: element start + j of the rank's part goes to tmp[j].
ReduceScatter(r, b) ==
  /\ pc[r][b] = "reduce" /\ ~OneStage(Size(r)) /\ Met(r, b)
  /\ tmp' = [tmp EXCEPT ![r] =
               [j \in Elements |->
                  IF j \in Mine(r, b, Size(r)) THEN Sum(PartStart(r, Size(r)) + j)
                                               ELSE @[j]]]
  /\ pc' = [pc EXCEPT ![r][b] = "sync"]
  /\ UNCHANGED <<program, done, stream, input, result, arrivals>>

\* The rank whose part has element i (every rank but the last has Part(size)
\* elements), and the index of the element in that rank's tmp.
PartOf(i, size) == IF i < (N - 1) * Part(size) THEN i \div Part(size) ELSE N - 1
TmpIndex(i, size) == i - PartStart(PartOf(i, size), size)

\* 2-stage, stage 2: the block collects tmp[j] of every rank for its j.  No
\* barrier follows.
AllGather(r, b) ==
  LET size == Size(r)
  IN  /\ pc[r][b] = "gather" /\ Met(r, b)
      /\ result' = [result EXCEPT ![r] =
                      [i \in Elements |->
                         IF i < size /\ BlockOf(TmpIndex(i, size), size) = b
                           THEN tmp[PartOf(i, size)][TmpIndex(i, size)] ELSE @[i]]]
      /\ pc' = [pc EXCEPT ![r][b] = "done"]
      /\ UNCHANGED <<program, done, stream, input, tmp, arrivals>>

\* The kernel is over when all its blocks are.
Complete(r) == /\ stream[r] = "running"
               /\ \A b \in BlockIds : pc[r][b] = "done"
               /\ done' = [done EXCEPT ![r] = @ + 1]
               /\ stream' = [stream EXCEPT ![r] = "idle"]
               /\ UNCHANGED <<program, input, tmp, result, pc, arrivals>>

CallsFinished == (\A r \in RankIds : done[r] = MaxCalls) /\ UNCHANGED reduceVars

BlockStep(r, b) == \/ Arrive(r, b) \/ Reduce(r, b) \/ Exit(r, b)
                   \/ ReduceScatter(r, b) \/ AllGather(r, b)

ReduceNext == \/ \E r \in RankIds : CopyInput(r) \/ Launch(r) \/ Complete(r)
              \/ \E r \in RankIds, b \in BlockIds : BlockStep(r, b)
              \/ CallsFinished

ReduceSpec == ReduceInit /\ [][ReduceNext]_reduceVars

\* The blocks of a kernel (at most 36) are resident together, and every rank
\* launches the same calls in the same order.
ReduceFairSpec == /\ ReduceSpec
                  /\ \A r \in RankIds : WF_reduceVars(CopyInput(r) \/ Launch(r) \/ Complete(r))
                  /\ \A r \in RankIds, b \in BlockIds : WF_reduceVars(BlockStep(r, b))

-----------------------------------------------------------------------------
\* Where a block is among the barriers of its kernel: behind none, one or both.
Running(r) == stream[r] = "running"
Active(r, b) == Running(r) /\ b < Blocks(Size(r))
Stage(r, b) == IF ~Active(r, b) \/ pc[r][b] = "start" THEN 0
               ELSE IF pc[r][b] \in {"reduce", "sync"} THEN 1 ELSE 2

\* Barriers block b takes part in during call k.
Barriers(b, k) == IF b < Blocks(program[k]) THEN 2 ELSE 0

\* The input buffer holds the data of the call under way, and a kernel is of
\* the kind its size asks for; only the blocks of its grid do anything.
InOrder ==
  \A r \in RankIds :
    /\ stream[r] # "idle" => done[r] < MaxCalls
    /\ input[r] = IF stream[r] = "idle" THEN done[r] ELSE done[r] + 1
    /\ \A b \in BlockIds :
         /\ ~Active(r, b) => pc[r][b] = "done"
         /\ pc[r][b] = "exit" => OneStage(Size(r))
         /\ pc[r][b] = "gather" => ~OneStage(Size(r))

\* Ranks that are in the same call have arrived equally often before it, and
\* a rank one call ahead has the barriers of that call on top.
CountsAgree ==
  \A r, s \in RankIds, b \in BlockIds :
    /\ done[s] = done[r] =>
         arrivals[s][b] - Stage(s, b) = arrivals[r][b] - Stage(r, b)
    /\ done[s] = done[r] + 1 =>
         arrivals[s][b] - Stage(s, b)
           = arrivals[r][b] - Stage(r, b) + Barriers(b, done[s])

\* A rank is at most one call ahead of another, which then has every block
\* behind its last barrier; the blocks ahead are not past their first one.
AtMostOneAhead ==
  \A r, s \in RankIds :
    done[r] < done[s] =>
      /\ done[s] = done[r] + 1
      /\ Running(r)
      /\ \A b \in BlockIds : /\ Active(r, b) => Stage(r, b) = 2
                             /\ Active(s, b) => pc[s][b] \in {"start", "reduce"}

\* A block past a barrier of a call has every rank's block at that barrier.
PassedTogether ==
  \A r, s \in RankIds, b \in BlockIds :
    Active(s, b) /\ done[r] = done[s] =>
      /\ pc[s][b] \notin {"start", "reduce"} => Stage(r, b) >= 1
      /\ pc[s][b] = "done" => Stage(r, b) = 2

\* The sum a call has to produce for element i.
SumOf(k, i) == [of |-> {k}, at |-> i]

\* tmp holds the sums of a rank's part, block by block as they get through
\* stage 1, and keeps them until the ranks a call behind have gathered them.
TmpRight ==
  \A r \in RankIds, b \in BlockIds :
    Active(r, b) /\ ~OneStage(Size(r)) /\ pc[r][b] \notin {"start", "reduce"} =>
      \A j \in Mine(r, b, Size(r)) :
        tmp[r][j] = SumOf(done[r] + 1, PartStart(r, Size(r)) + j)

TmpKept ==
  \A r, s \in RankIds :
    done[s] = done[r] + 1 /\ ~OneStage(program[done[s]]) =>
      \A j \in InPart(s, program[done[s]]) :
        tmp[s][j] = SumOf(done[s], PartStart(s, program[done[s]]) + j)

\* The block that writes element i of the result, and whether it has.
Writer(i, size) == BlockOf(IF OneStage(size) THEN i ELSE TmpIndex(i, size), size)
Written(r, b) == \/ pc[r][b] = "done"
                 \/ OneStage(Size(r)) /\ pc[r][b] \notin {"start", "reduce"}

\* The elements of the blocks that have written their results are right.
ResultSoFar ==
  \A r \in RankIds, i \in Elements :
    Running(r) /\ i < Size(r) /\ Written(r, Writer(i, Size(r))) =>
      result[r][i] = SumOf(done[r] + 1, i)

-----------------------------------------------------------------------------
\* When a call is over on a rank, every element of the output is the sum of
\* that call's inputs, whatever the ranks, blocks and earlier calls did in
\* the meantime: no term of another call, no element missed or misplaced.
ResultCorrect ==
  \A r \in RankIds :
    (stream[r] = "idle" /\ done[r] > 0) =>
      \A i \in 0 .. program[done[r]] - 1 :
        result[r][i] = [of |-> {done[r]}, at |-> i]

\* Together with the results these are inductive: each is needed to show that
\* a step keeps the others.
ReduceInv == /\ ReduceTypeOK /\ InOrder /\ CountsAgree /\ AtMostOneAhead /\ PassedTogether
             /\ TmpRight /\ TmpKept /\ ResultSoFar /\ ResultCorrect

\* The input of a call is overwritten on a rank only when all blocks of all
\* ranks have read it: what the end barrier of the 1-stage kernel and the
\* second barrier of the 2-stage kernel are for.
InputReadByAll(r) ==
  \A s \in RankIds :
    \/ done[s] >= done[r]
    \/ /\ done[s] + 1 = done[r]
       /\ stream[s] = "running"
       /\ \A b \in BlockIds : pc[s][b] \notin {"start", "reduce"}

\* The 2-stage kernel ends without a barrier: a rank can be through while
\* others still gather from its tmp buffer.  It writes the buffer again only
\* when the kernel of every rank's previous call is over.
TmpGatheredByAll(r) == \A s \in RankIds : done[r] <= done[s]

\* No step overwrites a buffer of a rank that a peer still reads: neither the
\* copy of the next input nor the reduce-scatter of the next 2-stage call.
BuffersReadByAll ==
  [][\A r \in RankIds : /\ CopyInput(r) => InputReadByAll(r)
                        /\ \A b \in BlockIds : ReduceScatter(r, b) => TmpGatheredByAll(r)]_reduceVars

\* Any mix of 1-stage and 2-stage calls with any numbers of blocks comes to
\* an end on every rank.
AllCallsEnd == <>(\A r \in RankIds : done[r] = MaxCalls)
=============================================================================
