----------------------------- MODULE RadixTopK -----------------------------
(***************************************************************************)
(* The radix top-k kernels of topk.cuh that share a row between several    *)
(* thread blocks (CTAs): top-k itself, with and without page table and     *)
(* with atomic or deterministic placement, masking of logits and           *)
(* renormalisation of probabilities.                                       *)
(*                                                                         *)
(* The CTAs of a group go through the rows of a launch one after the other *)
(* in a persistent loop.  They share one RadixRowState in global memory:   *)
(* three histograms used in turn, so that one barrier a round suffices, an *)
(* arrival counter that only grows during a launch, an output counter and  *)
(* a sum.  The state carries over to the next launch on the stream.        *)
(*                                                                         *)
(* Groups share nothing, so the model has one.  All CTAs of a group are    *)
(* resident (the launch sizes its grid so).  An access of a CTA to one     *)
(* object of the row state is a step; what its threads do in shared memory *)
(* is part of the step before.                                             *)
(***************************************************************************)
EXTENDS Integers, Sequences, FiniteSets, FiniteSetsExt, Functions

CONSTANTS NumCtas,      \* ctas_per_group
          ChunkSize,    \* chunk_size
          Radix,        \* RADIX
          NumRounds,    \* NUM_ROUNDS: digits of a value
          Programs,     \* sequences of launches to consider
          None          \* an output cell that was not written

Ctas == 0 .. NumCtas - 1
\* The powers of the radix.
Power[n \in Nat] == IF n = 0 THEN 1 ELSE Radix * Power[n - 1]
Values == 0 .. Power[NumRounds] - 1
Positions == 0 .. NumCtas * ChunkSize - 1
Kernels == { "mask", "renorm", "basic", "page_table" }

ASSUME ParameterAssumption ==
  /\ NumCtas \in Nat \ {0} /\ ChunkSize \in Nat \ {0}
  /\ Radix \in Nat \ {0, 1} /\ NumRounds \in Nat \ {0} /\ None \notin Positions
  /\ \A p \in Programs : p \in Seq(Range(p)) /\ p # <<>>
  /\ \A p \in Programs : \A n \in DOMAIN p :
       /\ p[n].kernel \in Kernels /\ p[n].deterministic \in BOOLEAN
       /\ p[n].rows \in Seq(Range(p[n].rows))
       /\ \A r \in DOMAIN p[n].rows :
            /\ p[n].rows[r].k \in Nat \ {0}
            /\ DOMAIN p[n].rows[r].data \in SUBSET Positions
            /\ DOMAIN p[n].rows[r].data = 0 .. Cardinality(DOMAIN p[n].rows[r].data) - 1
            /\ \A i \in DOMAIN p[n].rows[r].data : p[n].rows[r].data[i] \in Values

VARIABLES
  program,          \* the launches on the stream: kernel, its DETERMINISTIC, its rows
  launch,           \* the launch that runs
  histogram,        \* state->histogram
  arrival_counter,  \* state->arrival_counter
  output_counter,   \* state->output_counter
  sum_topk,         \* state->sum_topk
  det_scratch,      \* the gt_count and eq_count of each CTA
  output,           \* output[r]: the output of row r of this launch
  row,              \* row[c]: the row CTA c works on; iter is row[c] - 1
  pc,               \* pc[c]: where CTA c is
  waiting,          \* waiting[c]: it has arrived at its barrier
  barrier_phase,    \* barrier_phase[c]
  round,            \* round[c]: round of the radix select
  prefix,           \* prefix[c]: the digits of the pivot found so far
  remaining_k,      \* remaining_k[c]
  todo              \* todo[c]: elements equal to the pivot it has not placed

state == <<histogram, arrival_counter, output_counter, sum_topk, det_scratch>>
local == <<round, prefix, remaining_k, todo>>
vars == <<program, launch, state, output, row, pc, waiting, barrier_phase, local>>

Barriers == { "first", "round", "collect", "page", "sum_init", "sum_done" }
Steps == { "row", "clear_output", "add", "clear_next", "read", "mask", "claim", "place", "count",
           "emit", "transform", "zero_sum", "add_sum", "normalize", "clear_for_next",
           "reset", "reset_counter", "done" }
----------------------------------------------------------------------------
Launched == program[launch]
Rows == DOMAIN Launched.rows
Data(r) == Launched.rows[r].data
K(r) == Launched.rows[r].k
Length(r) == Cardinality(DOMAIN Data(r))
Trivial(r) == K(r) >= Length(r)
Collects == Launched.kernel \in { "basic", "page_table" }

Chunk(c, r) == (c * ChunkSize .. (c + 1) * ChunkSize - 1) \cap DOMAIN Data(r)

\* The first n digits of v, and digit n, the most significant first.
Upper(v, n) == v \div Power[NumRounds - n]
Digit(v, n) == Upper(v, n + 1) % Radix

NoCounts == [b \in 0 .. Radix - 1 |-> 0]
NoScratch == [c \in Ctas |-> [gt |-> 0, eq |-> 0]]

\* The histogram that counts in round n of row r; round NumRounds is the first
\* of the next row.
Buffer(r, n) == ((r - 1) * NumRounds + n) % 3

LocalHistogram(c) ==
  [b \in 0 .. Radix - 1 |->
     Cardinality({ i \in Chunk(c, row[c]) : LET v == Data(row[c])[i]
                                            IN  Upper(v, round[c]) = prefix[c] /\ Digit(v, round[c]) = b })]

\* What a CTA knows of its chunk when it has the pivot.
Above(c) == { i \in Chunk(c, row[c]) : Data(row[c])[i] > prefix[c] }
Equal(c) == { i \in Chunk(c, row[c]) : Data(row[c])[i] = prefix[c] }
Kept(c) == Above(c) \cup Equal(c)

\* The entry of the page table that element i of a row goes through.
Paged(i) == -1 - i

\* The elements of S at consecutive places from base on.
Placed(S, base) == [x \in base .. base + Cardinality(S) - 1 |->
                      CHOOSE i \in S : Cardinality({ j \in S : j < i }) = x - base]

Write(c, cells) == output' = [output EXCEPT ![row[c]] =
                     [x \in DOMAIN @ |-> IF x \in DOMAIN cells THEN cells[x] ELSE @[x]]]

\* The output of a row: places of a list, or a chunk for each CTA.
Cells(n, r) == IF program[n].kernel \in { "mask", "renorm" } THEN Ctas
               ELSE 0 .. Min({ program[n].rows[r].k, Cardinality(DOMAIN program[n].rows[r].data) }) - 1
Unwritten(n) == [r \in DOMAIN program[n].rows |-> [x \in Cells(n, r) |-> None]]

Init ==
  /\ program \in Programs
  /\ launch = 1
  /\ histogram = [b \in 0 .. 2 |-> NoCounts]
  /\ arrival_counter = 0 /\ output_counter = 0 /\ sum_topk = 0
  /\ det_scratch = NoScratch
  /\ output = Unwritten(1)
  /\ row = [c \in Ctas |-> 1]
  /\ pc = [c \in Ctas |-> "row"]
  /\ waiting = [c \in Ctas |-> FALSE]
  /\ barrier_phase = [c \in Ctas |-> 0]
  /\ round = [c \in Ctas |-> 0]
  /\ prefix = [c \in Ctas |-> 0]
  /\ remaining_k = [c \in Ctas |-> 0]
  /\ todo = [c \in Ctas |-> {}]

Goto(c, s) == pc' = [pc EXCEPT ![c] = s] /\ UNCHANGED row
NextRow(c) == pc' = [pc EXCEPT ![c] = "row"] /\ row' = [row EXCEPT ![c] = @ + 1]
Running(c, s) == pc[c] = s /\ UNCHANGED <<program, launch, waiting, barrier_phase>>
----------------------------------------------------------------------------
\* AdvanceRadixGroupBarrier.
Arrive(c) ==
  /\ pc[c] \in Barriers /\ ~waiting[c]
  /\ arrival_counter' = arrival_counter + 1
  /\ waiting' = [waiting EXCEPT ![c] = TRUE]
  /\ UNCHANGED <<program, launch, histogram, output_counter, sum_topk, det_scratch, output, row, pc,
                 barrier_phase, local>>

After(c) ==
  CASE pc[c] = "first"    -> IF c = 0 THEN "clear_output" ELSE "add"
    [] pc[c] = "round"    -> "read"
    [] pc[c] = "collect"  -> IF Launched.deterministic THEN "emit" ELSE "place"
    [] pc[c] = "page"     -> "transform"
    [] pc[c] = "sum_init" -> "add_sum"
    [] pc[c] = "sum_done" -> "normalize"

Pass(c) ==
  /\ waiting[c]
  /\ arrival_counter >= (barrier_phase[c] + 1) * NumCtas
  /\ barrier_phase' = [barrier_phase EXCEPT ![c] = @ + 1]
  /\ waiting' = [waiting EXCEPT ![c] = FALSE]
  /\ Goto(c, After(c))
  /\ UNCHANGED <<program, launch, state, output, local>>
----------------------------------------------------------------------------
\* The persistent loop takes the next row.  If k elements are all there are,
\* nothing is selected: the row is copied (of the page table, every CTA
\* writes all of it), or its sum is taken.
StartRow(c) ==
  /\ Running(c, "row") /\ row[c] \in Rows
  /\ round' = [round EXCEPT ![c] = 0]
  /\ prefix' = [prefix EXCEPT ![c] = 0]
  /\ remaining_k' = [remaining_k EXCEPT ![c] = K(row[c])]
  /\ IF ~Trivial(row[c]) THEN Goto(c, "first") /\ UNCHANGED output
     ELSE CASE Launched.kernel = "renorm"     -> Goto(c, "zero_sum") /\ UNCHANGED output
            [] Launched.kernel = "mask"       -> Goto(c, "clear_for_next") /\ Write(c, [x \in {c} |-> Chunk(c, row[c])])
            [] Launched.kernel = "basic"      -> Goto(c, "clear_for_next") /\ Write(c, [i \in Chunk(c, row[c]) |-> i])
            [] Launched.kernel = "page_table" -> Goto(c, "clear_for_next") /\ Write(c, [i \in DOMAIN Data(row[c]) |-> Paged(i)])
  /\ UNCHANGED <<state, todo>>

\* CTA 0 clears the histogram of the next row's first round.
\* Mutant: it does not.
ClearForNextRowNothing(c) ==
  /\ Running(c, "clear_for_next")
  /\ NextRow(c)
  /\ UNCHANGED <<state, output, local>>
ClearForNextRow(c) ==
  /\ Running(c, "clear_for_next")
  /\ histogram' = IF c = 0 THEN [histogram EXCEPT ![Buffer(row[c], NumRounds)] = NoCounts] ELSE histogram
  /\ NextRow(c)
  /\ UNCHANGED <<arrival_counter, output_counter, sum_topk, det_scratch, output, local>>

\* RadixSelectFromSharedMemory: behind the first barrier CTA 0 clears the
\* output counter.
ClearOutputCounter(c) ==
  /\ Running(c, "clear_output")
  /\ output_counter' = 0
  /\ Goto(c, "add")
  /\ UNCHANGED <<histogram, arrival_counter, sum_topk, det_scratch, output, local>>

\* A round: the CTA's counts go to the current histogram, CTA 0 clears the
\* next one, and behind a barrier all read the sums.
Add(c) ==
  /\ Running(c, "add")
  /\ LET counts == LocalHistogram(c)
     IN  histogram' = [histogram EXCEPT ![Buffer(row[c], round[c])] =
                         [b \in DOMAIN @ |-> @[b] + counts[b]]]
  /\ Goto(c, IF c = 0 THEN "clear_next" ELSE "round")
  /\ UNCHANGED <<arrival_counter, output_counter, sum_topk, det_scratch, output, local>>

ClearNext(c) ==
  /\ Running(c, "clear_next")
  /\ histogram' = [histogram EXCEPT ![Buffer(row[c], round[c] + 1)] = NoCounts]
  /\ Goto(c, "round")
  /\ UNCHANGED <<arrival_counter, output_counter, sum_topk, det_scratch, output, local>>

\* The bucket that holds the remaining_k-th largest; bucket 0 if there is none.
ReadHistogram(c) ==
  /\ Running(c, "read")
  /\ LET counts == histogram[Buffer(row[c], round[c])]
         CountFrom(b) == SumFunctionOnSet(counts, b .. Radix - 1)
         found == { b \in 0 .. Radix - 1 : CountFrom(b) >= remaining_k[c] /\ CountFrom(b + 1) < remaining_k[c] }
         bucket == IF found = {} THEN 0 ELSE CHOOSE b \in found : TRUE
     IN  /\ prefix' = [prefix EXCEPT ![c] = @ * Radix + bucket]
         /\ remaining_k' = [remaining_k EXCEPT ![c] = IF found = {} THEN @ ELSE @ - CountFrom(bucket + 1)]
  /\ round' = [round EXCEPT ![c] = @ + 1]
  /\ Goto(c, IF round[c] + 1 < NumRounds THEN "add"
             ELSE IF Launched.kernel = "mask" THEN "mask"
             ELSE IF Launched.kernel = "renorm" THEN "zero_sum"
             ELSE IF Launched.deterministic THEN "count" ELSE "claim")
  /\ UNCHANGED <<state, output, todo>>
----------------------------------------------------------------------------
\* RadixTopKMaskLogitsKernel_MultiCTA ends a row without a barrier.
Mask(c) ==
  /\ Running(c, "mask")
  /\ Write(c, [x \in {c} |-> Kept(c)])
  /\ NextRow(c)
  /\ UNCHANGED <<state, local>>

\* RadixTopKRenormProbKernel_MultiCTA: CTA 0 clears the sum, all add to it
\* between two barriers and divide by it.
ZeroSum(c) ==
  /\ Running(c, "zero_sum")
  /\ sum_topk' = IF c = 0 THEN 0 ELSE sum_topk
  /\ Goto(c, "sum_init")
  /\ UNCHANGED <<histogram, arrival_counter, output_counter, det_scratch, output, local>>

AddSum(c) ==
  /\ Running(c, "add_sum")
  /\ sum_topk' = sum_topk + SumFunctionOnSet(Data(row[c]), Kept(c))
  /\ Goto(c, "sum_done")
  /\ UNCHANGED <<histogram, arrival_counter, output_counter, det_scratch, output, local>>

Normalize(c) ==
  /\ Running(c, "normalize")
  /\ Write(c, [x \in {c} |-> <<Kept(c), sum_topk>>])
  /\ IF Trivial(row[c]) THEN Goto(c, "clear_for_next") ELSE NextRow(c)
  /\ UNCHANGED <<state, local>>
----------------------------------------------------------------------------
EndCollect(c) == IF Launched.kernel = "page_table" THEN Goto(c, "page") ELSE NextRow(c)

\* RadixCollectIndices: the elements above the pivot go to places claimed
\* together; behind a barrier each that equals it claims a place of its own.
Claim(c) ==
  /\ Running(c, "claim")
  /\ Write(c, Placed(Above(c), output_counter))
  /\ output_counter' = output_counter + Cardinality(Above(c))
  /\ todo' = [todo EXCEPT ![c] = Equal(c)]
  /\ Goto(c, "collect")
  /\ UNCHANGED <<histogram, arrival_counter, sum_topk, det_scratch, round, prefix, remaining_k>>

Place(c) ==
  /\ Running(c, "place")
  /\ \E i \in todo[c] :
       /\ IF output_counter < K(row[c]) THEN Write(c, Placed({i}, output_counter)) ELSE UNCHANGED output
       /\ todo' = [todo EXCEPT ![c] = @ \ {i}]
  /\ output_counter' = output_counter + 1
  /\ Goto(c, "place")
  /\ UNCHANGED <<histogram, arrival_counter, sum_topk, det_scratch, round, prefix, remaining_k>>

AllPlaced(c) ==
  /\ Running(c, "place") /\ todo[c] = {}
  /\ EndCollect(c)
  /\ UNCHANGED <<state, output, local>>

\* RadixCollectIndicesDeterministic: the CTAs publish their counts and take
\* places in the order of the CTAs.  In a CTA the order is that of the threads,
\* here that of the elements.
Count(c) ==
  /\ Running(c, "count")
  /\ det_scratch' = [det_scratch EXCEPT ![c] = [gt |-> Cardinality(Above(c)), eq |-> Cardinality(Equal(c))]]
  /\ Goto(c, "collect")
  /\ UNCHANGED <<histogram, arrival_counter, output_counter, sum_topk, output, local>>

Emit(c) ==
  /\ Running(c, "emit")
  /\ LET gt == [d \in Ctas |-> det_scratch[d].gt]
         eq == [d \in Ctas |-> det_scratch[d].eq]
         total == SumFunction(gt)
         before == SumFunctionOnSet(eq, 0 .. c - 1)
         take == Max({ 0, Min({ eq[c], K(row[c]) - total - before }) })
         first == { i \in Equal(c) : Cardinality({ j \in Equal(c) : j < i }) < take }
         above == Placed(Above(c), SumFunctionOnSet(gt, 0 .. c - 1))
         equal == Placed(first, total + before)
     IN  Write(c, [x \in DOMAIN above \cup DOMAIN equal |-> IF x \in DOMAIN above THEN above[x] ELSE equal[x]])
  /\ EndCollect(c)
  /\ UNCHANGED <<state, local>>

\* The page table kernel, behind one more barrier: each CTA sends a share of
\* the row's output through the page table, whoever wrote it.
Transform(c) ==
  /\ Running(c, "transform")
  /\ LET share == (K(row[c]) + NumCtas - 1) \div NumCtas
         mine == { x \in DOMAIN output[row[c]] : c * share <= x /\ x < (c + 1) * share }
     IN  Write(c, [x \in mine |-> IF output[row[c]][x] = None THEN None ELSE Paged(output[row[c]][x])])
  /\ NextRow(c)
  /\ UNCHANGED <<state, local>>
----------------------------------------------------------------------------
\* RadixGroupResetStateLastCTA.
\* Mutant: the leading CTA resets, as it did before issue #3610.
LeadingCta(c) == c = 0
LastToExit(c) == arrival_counter + 1 = (barrier_phase[c] + 1) * NumCtas

Exit(c) ==
  /\ Running(c, "row") /\ row[c] \notin Rows
  /\ arrival_counter' = arrival_counter + 1
  /\ Goto(c, IF LastToExit(c) THEN "reset" ELSE "done")
  /\ UNCHANGED <<histogram, output_counter, sum_topk, det_scratch, output, local>>

\* Mutant: the counts of the CTAs stay, where a launch with more groups has
\* row states.
ResetHistogramsOnly(c) ==
  /\ Running(c, "reset")
  /\ histogram' = [b \in 0 .. 2 |-> NoCounts]
  /\ Goto(c, "reset_counter")
  /\ UNCHANGED <<arrival_counter, output_counter, sum_topk, det_scratch, output, local>>
Reset(c) ==
  /\ Running(c, "reset")
  /\ histogram' = [b \in 0 .. 2 |-> NoCounts]
  /\ det_scratch' = IF Collects /\ Launched.deterministic THEN NoScratch ELSE det_scratch
  /\ Goto(c, "reset_counter")
  /\ UNCHANGED <<arrival_counter, output_counter, sum_topk, output, local>>

ResetCounter(c) ==
  /\ Running(c, "reset_counter")
  /\ arrival_counter' = 0
  /\ Goto(c, "done")
  /\ UNCHANGED <<histogram, output_counter, sum_topk, det_scratch, output, local>>

AllDone == \A c \in Ctas : pc[c] = "done"

\* The next kernel on the stream starts when this one is over.
NextLaunch ==
  /\ AllDone /\ launch < Len(program)
  /\ launch' = launch + 1
  /\ output' = Unwritten(launch + 1)
  /\ row' = [c \in Ctas |-> 1]
  /\ pc' = [c \in Ctas |-> "row"]
  /\ barrier_phase' = [c \in Ctas |-> 0]
  /\ UNCHANGED <<program, state, waiting, local>>

Step(c) ==
  \/ Arrive(c) \/ Pass(c) \/ StartRow(c) \/ ClearForNextRow(c)
  \/ ClearOutputCounter(c) \/ Add(c) \/ ClearNext(c) \/ ReadHistogram(c)
  \/ Mask(c) \/ ZeroSum(c) \/ AddSum(c) \/ Normalize(c)
  \/ Claim(c) \/ Place(c) \/ AllPlaced(c) \/ Count(c) \/ Emit(c) \/ Transform(c)
  \/ Exit(c) \/ Reset(c) \/ ResetCounter(c)

Next == NextLaunch \/ \E c \in Ctas : Step(c)

Spec == Init /\ [][Next]_vars

\* The CTAs of a group are resident: each goes on when it can.
FairSpec == Spec /\ WF_vars(NextLaunch) /\ \A c \in Ctas : WF_vars(Step(c))
----------------------------------------------------------------------------
TypeOK ==
  /\ program \in Programs /\ launch \in DOMAIN program
  /\ histogram \in [0 .. 2 -> [0 .. Radix - 1 -> Nat]]
  /\ arrival_counter \in Nat /\ output_counter \in Nat /\ sum_topk \in Nat
  /\ det_scratch \in [Ctas -> [gt : 0 .. ChunkSize, eq : 0 .. ChunkSize]]
  /\ DOMAIN output = Rows
  /\ row \in [Ctas -> 1 .. Len(Launched.rows) + 1]
  /\ pc \in [Ctas -> Barriers \cup Steps]
  /\ waiting \in [Ctas -> BOOLEAN]
  /\ barrier_phase \in [Ctas -> Nat]
  /\ round \in [Ctas -> 0 .. NumRounds]
  /\ prefix \in [Ctas -> Values]
  /\ remaining_k \in [Ctas -> Nat]
  /\ todo \in [Ctas -> SUBSET Positions]

\* Between launches the histograms, the counts of the deterministic kernels and
\* the arrival counter are zero, whichever CTA was the last to exit.  The
\* buffer serves kernels of all kinds, and a launch with more groups finds row
\* states where another launch had its counts.
StateZeroed ==
  AllDone => /\ histogram = [b \in 0 .. 2 |-> NoCounts]
             /\ det_scratch = NoScratch
             /\ arrival_counter = 0

----------------------------------------------------------------------------
\* Where a CTA can be: in which round, and in which kernel's part of a row.
Exited == { "reset", "reset_counter", "done" }
Selecting == { "first", "clear_output", "add", "clear_next", "round", "read" }

PlacedAt(c) ==
  /\ IF pc[c] \in Exited THEN row[c] \notin Rows ELSE pc[c] # "row" => row[c] \in Rows
  /\ waiting[c] => pc[c] \in Barriers
  /\ pc[c] \in { "first", "clear_output" } => round[c] = 0 /\ prefix[c] = 0
  /\ pc[c] \in Selecting => round[c] < NumRounds /\ prefix[c] < Power[round[c]]
  /\ pc[c] \in Selecting \cup { "mask", "claim", "place", "count", "emit", "collect",
                                 "page", "transform" } => ~Trivial(row[c])
  /\ pc[c] = "clear_for_next" => Trivial(row[c])
  /\ pc[c] = "mask" => Launched.kernel = "mask"
  /\ pc[c] \in { "zero_sum", "sum_init", "add_sum", "sum_done", "normalize" } =>
       Launched.kernel = "renorm"
  /\ pc[c] \in { "claim", "place", "count", "emit", "collect" } => Collects
  /\ pc[c] \in { "count", "emit" } => Launched.deterministic
  /\ pc[c] \in { "claim", "place" } => ~Launched.deterministic
  /\ pc[c] \in { "page", "transform" } => Launched.kernel = "page_table"

PlacedRight == \A c \in Ctas : PlacedAt(c)

\* The barriers that the selection in row r has, that row r has, and those of the rows before r.
BarriersSelecting(r) == IF Trivial(r) THEN 0 ELSE 1 + NumRounds
BarriersIn(r) == BarriersSelecting(r) +
  CASE Launched.kernel = "mask"       -> 0
    [] Launched.kernel = "renorm"     -> 2
    [] Launched.kernel = "basic"      -> IF Trivial(r) THEN 0 ELSE 1
    [] Launched.kernel = "page_table" -> IF Trivial(r) THEN 0 ELSE 2
BarriersBefore[r \in Nat] == IF r <= 1 THEN 0 ELSE BarriersBefore[r - 1] + BarriersIn(r - 1)

\* The barriers of its row that CTA c has passed.
PassedHere(c) ==
  CASE pc[c] \in { "row", "first" } \cup Exited -> 0
    [] pc[c] = "clear_output" -> 1
    [] pc[c] \in { "add", "clear_next", "round" } -> 1 + round[c]
    [] pc[c] = "read" -> 2 + round[c]
    [] pc[c] \in { "mask", "claim", "count", "collect", "zero_sum", "sum_init" } ->
         BarriersSelecting(row[c])
    [] pc[c] \in { "place", "emit", "page", "add_sum", "sum_done" } ->
         BarriersSelecting(row[c]) + 1
    [] pc[c] \in { "transform", "normalize" } -> BarriersSelecting(row[c]) + 2
    [] pc[c] = "clear_for_next" -> BarriersIn(row[c])

PhasesRight == \A c \in Ctas : barrier_phase[c] = BarriersBefore[row[c]] + PassedHere(c)

\* How often CTA c has arrived; leaving the launch is the last time.
Arrivals(c) == barrier_phase[c] + IF waiting[c] \/ pc[c] \in Exited THEN 1 ELSE 0

\* Nobody has passed a barrier that another CTA has not arrived at, and the
\* counter is the number of arrivals, until the last to exit clears it.
Met == \A c, d \in Ctas : barrier_phase[c] <= Arrivals(d)
CounterRight ==
  ~AllDone => \E n \in 0 .. arrival_counter :
    /\ \A c \in Ctas : Arrivals(c) \in { n, n + 1 }
    /\ arrival_counter = n * NumCtas + Cardinality({ c \in Ctas : Arrivals(c) = n + 1 })

\* The CTA that resets is the last one; what it has reset stays so.
Clean == histogram = [b \in 0 .. 2 |-> NoCounts] /\ det_scratch = NoScratch
ResetRight ==
  /\ \A c \in Ctas : pc[c] \in { "reset", "reset_counter" } =>
       \A d \in Ctas \ {c} : pc[d] = "done"
  /\ \A c \in Ctas : pc[c] = "reset_counter" => Clean
  /\ ~(Collects /\ Launched.deterministic) => det_scratch = NoScratch

\* Between launches the row state is zeroed, whichever CTA was the last to
\* exit: with the other parts StateZeroed is inductive.
Control == TypeOK /\ PlacedRight /\ PhasesRight /\ Met /\ CounterRight /\ ResetRight /\ StateZeroed
----------------------------------------------------------------------------
\* The elements of a row that are not smaller than its k-th largest, and those
\* that are larger.
Leading(r) == { i \in DOMAIN Data(r) : Cardinality({ j \in DOMAIN Data(r) : Data(r)[j] > Data(r)[i] }) < K(r) }
Larger(r) == { i \in DOMAIN Data(r) : \E j \in Leading(r) : Data(r)[i] > Data(r)[j] }

Selected(r) == LET entry(x) == IF Launched.kernel = "page_table" THEN Paged(x) ELSE x
               IN  { i \in DOMAIN Data(r) : \E x \in DOMAIN output[r] : output[r][x] = entry(i) }

RowCorrect(r) ==
  CASE Launched.kernel = "mask"   -> \A c \in Ctas : output[r][c] = Chunk(c, r) \cap Leading(r)
    [] Launched.kernel = "renorm" -> \A c \in Ctas : output[r][c] =
                                       <<Chunk(c, r) \cap Leading(r), SumFunctionOnSet(Data(r), Leading(r))>>
    [] Collects -> /\ Larger(r) \subseteq Selected(r) /\ Selected(r) \subseteq Leading(r)
                   /\ Cardinality(Selected(r)) = Cardinality(DOMAIN output[r])
                   /\ Launched.deterministic =>
                        \A i \in Leading(r) \ Selected(r), j \in Selected(r) \ Larger(r) : j < i

\* When the CTAs are through with a row its output is right, however they
\* overtook each other: a masked or renormalised row keeps the k largest, with
\* the sum of them all, and a list names k largest elements once each; the
\* deterministic list takes the first of equal elements.
ResultCorrect == \A r \in Rows : (\A c \in Ctas : row[c] > r) => RowCorrect(r)

----------------------------------------------------------------------------
\* What ResultCorrect needs of the rows: one that is copied overwrites what
\* slower CTAs may still read for a row before it that needed a selection; one
\* whose sum is taken, what they may still read for any row before it.
CopiedFirstIn(programs) ==
  \A p \in programs : \A n \in DOMAIN p : \A r \in DOMAIN p[n].rows :
    LET copied(s) == p[n].rows[s].k >= Cardinality(DOMAIN p[n].rows[s].data)
    IN  copied(r) => /\ p[n].kernel = "mask" => \A s \in 1 .. r : copied(s)
                     /\ p[n].kernel = "renorm" => r = 1
CopiedFirst == CopiedFirstIn(Programs)

\* CTA c has left row r, or is in it at one of these places.
Past(c, r, places) == row[c] > r \/ (row[c] = r /\ pc[c] \in places)

\* How far CTA c is with the histogram of round n of row r, and whether the
\* leading CTA has cleared that of the next round.
Behind == { "mask", "claim", "place", "count", "emit", "collect", "page", "transform", "zero_sum",
            "sum_init", "add_sum", "sum_done", "normalize", "clear_for_next" }
HasRead(c, r, n) == Past(c, r, Behind) \/ (row[c] = r /\ pc[c] \in Selecting /\ round[c] > n)
HasAdded(c, r, n) ==
  HasRead(c, r, n) \/ (row[c] = r /\ round[c] = n /\ pc[c] \in { "clear_next", "round", "read" })
HasCleared(r, n) ==
  HasRead(0, r, n) \/ (row[0] = r /\ round[0] = n /\ pc[0] \in { "round", "read" })
Ready(r, n) == IF n > 0 THEN HasCleared(r, n - 1)
               ELSE r = 1 \/ row[0] >= r \/ (~Trivial(r - 1) /\ HasCleared(r - 1, NumRounds - 1))

\* The first n digits of the k-th largest element of row r are p.
AtLeast(r, n, p) == { i \in DOMAIN Data(r) : Upper(Data(r)[i], n) >= p }
MoreThan(r, n, p) == { i \in DOMAIN Data(r) : Upper(Data(r)[i], n) > p }
Fits(r, n, p) == Cardinality(MoreThan(r, n, p)) < K(r) /\ K(r) <= Cardinality(AtLeast(r, n, p))
PrefixOf(r, n) == CHOOSE p \in Values : Fits(r, n, p)

\* The counts of round n of row r over the chunks of the CTAs in S.
Owned(r, S) == { i \in DOMAIN Data(r) : \E c \in S : i \in Chunk(c, r) }
Counts(r, n, S) ==
  [b \in 0 .. Radix - 1 |->
     Cardinality({ i \in Owned(r, S) : Upper(Data(r)[i], n) = PrefixOf(r, n) /\ Digit(Data(r)[i], n) = b })]

\* Only the leading CTA clears.
LeaderRight == \A c \in Ctas : pc[c] \in { "clear_output", "clear_next" } => c = 0

HistogramsRight ==
  \A r \in Rows, n \in 0 .. NumRounds - 1 :
    ~Trivial(r) /\ Ready(r, n) /\ (\E c \in Ctas : ~HasRead(c, r, n)) =>
      histogram[Buffer(r, n)] = Counts(r, n, { c \in Ctas : HasAdded(c, r, n) })

\* All CTAs find the same digits.
PrefixesRight ==
  \A c \in Ctas : pc[c] \notin { "row" } \cup Exited =>
    IF Trivial(row[c]) THEN prefix[c] = 0
    ELSE /\ pc[c] \notin Selecting => round[c] = NumRounds
         /\ Fits(row[c], round[c], prefix[c])
         /\ remaining_k[c] + Cardinality(MoreThan(row[c], round[c], prefix[c])) = K(row[c])

\* The sum of a renormalised row, while somebody needs it.
HasZeroed(r) == Past(0, r, { "sum_init", "add_sum", "sum_done", "normalize", "clear_for_next" })
HasSummed(c, r) == Past(c, r, { "sum_done", "normalize", "clear_for_next" })
HasWritten(c, r) == Past(c, r, { "clear_for_next" })
SumRight ==
  Launched.kernel = "renorm" => \A r \in Rows :
    HasZeroed(r) /\ (\E c \in Ctas : ~HasWritten(c, r)) =>
      sum_topk = SumFunctionOnSet(Data(r), Owned(r, { c \in Ctas : HasSummed(c, r) }) \cap Leading(r))

\* The counts that the deterministic kernels publish.
Border(r) == Leading(r) \ Larger(r)
HasCounted(c, r) == Past(c, r, { "collect", "emit", "page", "transform" })
HasEmitted(c, r) == Past(c, r, { "page", "transform" })
ScratchRight ==
  Collects /\ Launched.deterministic => \A r \in Rows, c \in Ctas :
    ~Trivial(r) /\ HasCounted(c, r) /\ (\E d \in Ctas : ~HasEmitted(d, r)) =>
      det_scratch[c] = [gt |-> Cardinality(Chunk(c, r) \cap Larger(r)),
                        eq |-> Cardinality(Chunk(c, r) \cap Border(r))]

\* What the others have claimed places for: the larger elements of their
\* chunks, and of those that equal the pivot all that are not left to do.
HasOpened(r) == Past(0, r, { "add", "clear_next", "round", "read" } \cup Behind)
HasClaimed(c, r) == Past(c, r, { "collect", "place", "page", "transform" })
Untaken(c, r) == IF HasEmitted(c, r) THEN {}
                 ELSE IF HasClaimed(c, r) THEN todo[c] ELSE Chunk(c, r) \cap Border(r)
Claimed(r) == Owned(r, { c \in Ctas : HasClaimed(c, r) }) \cap Larger(r)
Taken(r) == { i \in Border(r) : \A c \in Ctas : i \notin Untaken(c, r) }
PlacesTaken(r) == Cardinality(Claimed(r)) + Cardinality(Taken(r))
TodoRight ==
  \A c \in Ctas : pc[c] \in { "collect", "place" } /\ ~Launched.deterministic =>
    /\ todo[c] \subseteq Chunk(c, row[c]) \cap Border(row[c])
    /\ pc[c] = "collect" => todo[c] = Chunk(c, row[c]) \cap Border(row[c])
OutputCounterRight ==
  Collects /\ ~Launched.deterministic => \A r \in Rows :
    ~Trivial(r) /\ HasOpened(r) /\ (\E c \in Ctas : ~HasEmitted(c, r)) => output_counter = PlacesTaken(r)

\* The list in the output of row r, before the page table.
Unpaged(entry) == IF entry \in Int THEN Paged(entry) ELSE None
Share(c, r) == LET share == (K(r) + NumCtas - 1) \div NumCtas
               IN  { x \in DOMAIN output[r] : c * share <= x /\ x < (c + 1) * share }
Listed(r, x) == IF Launched.kernel = "page_table" /\ (\E c \in Ctas : row[c] > r /\ x \in Share(c, r))
                THEN Unpaged(output[r][x]) ELSE output[r][x]

\* The place of an element in the deterministic list.
Target(r, i) == IF i \in Larger(r) THEN Cardinality({ j \in Larger(r) : j < i })
                ELSE Cardinality(Larger(r)) + Cardinality({ j \in Border(r) : j < i })

ListRight(r) ==
  IF Launched.deterministic
  THEN \A c \in Ctas : HasEmitted(c, r) =>
         \A i \in Chunk(c, r) \cap Leading(r) : Target(r, i) < K(r) => Listed(r, Target(r, i)) = i
  ELSE LET places == { x \in DOMAIN output[r] : x < PlacesTaken(r) }
       IN  /\ \A x \in places : Listed(r, x) \in Claimed(r) \cup Taken(r)
           /\ \A x, y \in places : Listed(r, x) = Listed(r, y) => x = y
           /\ \A i \in Claimed(r) : \E x \in places : Listed(r, x) = i

\* What the CTAs have written so far of a row.
RowRight(r) ==
  CASE Launched.kernel = "mask" ->
         \A c \in Ctas : HasWritten(c, r) => output[r][c] = Chunk(c, r) \cap Leading(r)
    [] Launched.kernel = "renorm" ->
         \A c \in Ctas : HasWritten(c, r) =>
           output[r][c] = <<Chunk(c, r) \cap Leading(r), SumFunctionOnSet(Data(r), Leading(r))>>
    [] Launched.kernel = "basic" /\ Trivial(r) ->
         \A c \in Ctas : HasWritten(c, r) => \A i \in Chunk(c, r) : output[r][i] = i
    [] Launched.kernel = "page_table" /\ Trivial(r) ->
         \A c \in Ctas : HasWritten(c, r) => \A i \in DOMAIN Data(r) : output[r][i] = Paged(i)
    [] Collects /\ ~Trivial(r) -> ListRight(r)
OutputsRight == \A r \in Rows : DOMAIN output[r] = Cells(launch, r) /\ RowRight(r)

DataRight == /\ LeaderRight /\ HistogramsRight /\ PrefixesRight /\ SumRight /\ ScratchRight /\ TodoRight
             /\ OutputCounterRight /\ OutputsRight
IInv == Control /\ DataRight

\* Every launch ends: no CTA spins for ever on a counter that another one has
\* reset (issue #3610).
AllLaunchesEnd == <>(AllDone /\ launch = Len(program))
=============================================================================
