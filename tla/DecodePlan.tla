----------------------------- MODULE DecodePlan -----------------------------
(***************************************************************************)
(* Plan and run of batch decode attention (attention/scheduler.cuh,        *)
(* attention/decode.cuh, csrc/batch_decode.cu, the wrapper of decode.py).  *)
(*                                                                         *)
(* plan() reads the lengths of the requests on the host, cuts every        *)
(* request into chunks so that the chunks fill the GPU, writes the         *)
(* schedule (which block does which chunk) into the wrapper's page-locked  *)
(* buffer, and copies it to the GPU on the stream.  run() launches one     *)
(* block per row of the schedule.  Where the launch is recorded in a CUDA  *)
(* graph, its arguments are frozen: a replay after another plan() takes    *)
(* the grid of the recorded plan and the schedule of the last.             *)
(*                                                                         *)
(* Lengths are counted in pages.  The host and the stream run              *)
(* concurrently; the stream executes its operations in order.              *)
(***************************************************************************)
EXTENDS Integers, Sequences, FiniteSets, FiniteSetsExt, Functions

CONSTANTS BatchSize,
          MaxLength,             \* most pages of a request
          MaxGridSize,           \* blocks that the GPU runs at a time
          Setups,                \* the setups to consider, see SetupType
          MaxPlans, MaxRuns,     \* bounds: calls of plan() and of run()
          None                   \* nothing there yet

SetupType == [heads : Nat \ {0},            \* number of KV heads: gridDim.y
              min_pages : Nat \ {0},        \* max(128 / page_size, 1)
              min_length : Nat,             \* fewest pages of a request
              enable_cuda_graph : BOOLEAN,
              host_indptr : BOOLEAN]        \* plan() gets the indptr on the host

ASSUME SizesAssumption ==
  /\ BatchSize \in Nat \ {0} /\ MaxLength \in Nat \ {0} /\ MaxGridSize \in Nat \ {0}
  /\ MaxPlans \in Nat /\ MaxRuns \in Nat

ASSUME SetupAssumption == \A s \in Setups : s \in SetupType

Requests == 0 .. BatchSize - 1
VARIABLES
  setup,     \* how the wrapper is used, from its construction on
  planned,   \* the lengths the last plan() was called with
  planInfo,  \* the wrapper's _plan_info: the launch shape
  pinned,    \* _pin_memory_int_workspace_buffer, on the host
  intBuffer, \* _int_workspace_buffer, on the GPU
  indptr,    \* the lengths, on the GPU
  graph,     \* the plan info frozen in the recorded graph
  stream,    \* operations issued and not yet executed
  out,       \* what the last launch to finish put out
  plans, runs

vars == <<setup, planned, planInfo, pinned, intBuffer, indptr, graph, stream, out, plans, runs>>

heads == setup.heads
EnableCudaGraph == setup.enable_cuda_graph
Lengths == [Requests -> setup.min_length .. MaxLength]

-----------------------------------------------------------------------------
\* The partition: PartitionPagedKVCacheBinarySearchMinNumPagePerBatch.
\* Mutant: one chunk too many where the division leaves no remainder.
CeilDivPlusOne(a, b) == a \div b + 1

CeilDiv(a, b) == (a + b - 1) \div b
AtLeastOne(n) == IF n = 0 THEN 1 ELSE n
Longest(lens) == Max({lens[r] : r \in Requests})

\* The rows that the search counts, and, below, those that the schedule has.
SearchRows(lens, chunk) == SumFunctionOnSet([r \in Requests |-> CeilDiv(lens[r], chunk)], Requests)
\* Mutant: an empty request has no row.
NumChunksOfEmpty(len, chunk) == CeilDiv(len, chunk)

NumChunks(len, chunk) == CeilDiv(AtLeastOne(len), chunk)
Tiles(lens, chunk) == [r \in Requests |-> NumChunks(lens[r], chunk)]
NumRows(lens, chunk) == SumFunctionOnSet(Tiles(lens, chunk), Requests)

\* Mutants: a grid that just fits is refused; one row too many is accepted.
ExceedsOrFills(rows) == rows * heads >= MaxGridSize
ExceedsByTwo(rows) == rows * heads > MaxGridSize + 1

Exceeds(rows) == rows * heads > MaxGridSize

BinarySearch(lens) ==
  LET search[range \in (Nat \ {0}) \X Nat] ==
        LET low == range[1]
            high == range[2]
            mid == (low + high) \div 2
        IN  IF low >= high THEN low
            ELSE IF Exceeds(SearchRows(lens, mid)) THEN search[<<mid + 1, high>>]
                                                   ELSE search[<<low, mid>>]
  IN  search[<<setup.min_pages, Longest(lens)>>]

\* BatchDecodeWithPagedKVCacheWorkEstimationDispatched
WorkEstimation(lens) ==
  IF BatchSize * heads >= MaxGridSize
    THEN [split |-> FALSE, chunk |-> AtLeastOne(Longest(lens)), rows |-> BatchSize]
    ELSE LET chunk == BinarySearch(lens)
             rows == NumRows(lens, chunk)
         IN  [split |-> rows # BatchSize \/ EnableCudaGraph, chunk |-> chunk, rows |-> rows]

PaddedBatchSize(work) ==
  IF EnableCudaGraph THEN IF work.split THEN MaxGridSize \div heads ELSE BatchSize
                     ELSE work.rows

\* DecodeSplitKVIndptr: the first row of each request, and each row's request
\* and chunk.  What of it lies past the padded size is not read by any block.
OIndptr(lens, chunk) ==
  [r \in 0 .. BatchSize |-> SumFunctionOnSet(Tiles(lens, chunk), {q \in Requests : q < r})]

Schedule(lens, work) ==
  LET first == OIndptr(lens, work.chunk)
      RequestOf(i) == CHOOSE r \in Requests : first[r] <= i /\ i < first[r + 1]
  IN  [rows |-> [i \in 0 .. first[BatchSize] - 1 |->
                   [request |-> RequestOf(i), tile |-> i - first[RequestOf(i)]]],
       o_indptr |-> first,
       chunk |-> work.chunk,
       valid |-> work.rows]     \* block_valid_mask: the first so many rows

\* What plan() keeps for these lengths: the launch shape, and the schedule.
InfoOf(lens) == LET work == WorkEstimation(lens)
                IN  [padded_batch_size |-> PaddedBatchSize(work), split |-> work.split]
ScheduleOf(lens) == Schedule(lens, WorkEstimation(lens))

\* The launch: BatchDecodeWithPagedKVCacheKernel and the merge of its rows.
\* A block skips the rows that the mask rules out; only graphs have a mask.
Blocks(info, schedule) ==
  {bx \in 0 .. info.padded_batch_size - 1 :
     /\ bx \in DOMAIN schedule.rows
     /\ (info.split /\ EnableCudaGraph) => bx < schedule.valid}

PagesOf(info, schedule, lens, bx) ==
  LET row == schedule.rows[bx]
      len == lens[row.request]
      end == (row.tile + 1) * schedule.chunk
  IN  IF info.split
        THEN {<<row.request, p>> : p \in row.tile * schedule.chunk .. Min({end, len}) - 1}
        ELSE {<<row.request, p>> : p \in 0 .. len - 1}

Stale(row) == {<<-1, row>>}    \* what an earlier launch left in the workspace

\* Request r's result is merged from its rows, or is row r itself.
RowsMerged(info, schedule, r) ==
  IF info.split THEN schedule.o_indptr[r] .. schedule.o_indptr[r + 1] - 1 ELSE {r}

Launch(info, schedule, lens) ==
  [r \in Requests |->
     [i \in RowsMerged(info, schedule, r) |->
        IF i \in Blocks(info, schedule) THEN PagesOf(info, schedule, lens, i) ELSE Stale(i)]]

-----------------------------------------------------------------------------
TypeOK ==
  /\ setup \in Setups
  /\ planned \in Lengths \cup {None} /\ indptr \in Lengths \cup {None}
  /\ \A info \in {planInfo, graph} \ {None} :
       info.split \in BOOLEAN /\ info.padded_batch_size \in Nat \ {0}
  /\ \A schedule \in {pinned, intBuffer} \ {None} :
       /\ schedule.chunk \in 1 .. Max({MaxLength, setup.min_pages})
       /\ schedule.o_indptr[BatchSize] = Cardinality(DOMAIN schedule.rows)
       /\ \A i \in DOMAIN schedule.rows :
            /\ schedule.rows[i].request \in Requests
            /\ schedule.rows[i].tile * schedule.chunk \in 0 .. AtLeastOne(MaxLength) - 1
  /\ Len(stream) <= 2 * plans + runs
  /\ plans \in 0 .. MaxPlans /\ runs \in 0 .. MaxRuns

Init ==
  /\ setup \in Setups
  /\ planned = None /\ planInfo = None /\ graph = None
  /\ pinned = None /\ intBuffer = None /\ indptr = None
  /\ stream = <<>> /\ out = None
  /\ plans = 0 /\ runs = 0

\* plan().  With the indptr on the GPU, indptr.to("cpu") waits for all that
\* was issued before; with a host indptr nothing waits.
Plan(lens) ==
  /\ plans < MaxPlans
  /\ ~setup.host_indptr => stream = <<>>
  /\ planned' = lens
  /\ planInfo' = InfoOf(lens)
  /\ pinned' = ScheduleOf(lens)
  /\ stream' = stream \o <<[op |-> "copy_indptr", lens |-> lens], [op |-> "copy_schedule"]>>
  /\ plans' = plans + 1
  /\ UNCHANGED <<setup, intBuffer, indptr, graph, out, runs>>

IssueRun(info) ==
  /\ runs < MaxRuns
  /\ stream' = Append(stream, [op |-> "run", info |-> info, wanted |-> planned])
  /\ runs' = runs + 1
  /\ UNCHANGED <<setup, planned, planInfo, pinned, intBuffer, indptr, graph, out, plans>>

\* run()
Run == planInfo # None /\ IssueRun(planInfo)

\* run() while a graph is recorded: nothing is executed, the arguments of the
\* launch are kept.
Capture ==
  /\ EnableCudaGraph /\ planInfo # None /\ graph = None
  /\ graph' = planInfo
  /\ UNCHANGED <<setup, planned, planInfo, pinned, intBuffer, indptr, stream, out, plans, runs>>

Replay == graph # None /\ IssueRun(graph)

\* The stream executes its oldest operation.
CopyIndptr ==
  /\ stream # <<>> /\ Head(stream).op = "copy_indptr"
  /\ indptr' = Head(stream).lens
  /\ stream' = Tail(stream)
  /\ UNCHANGED <<setup, planned, planInfo, pinned, intBuffer, graph, out, plans, runs>>

CopySchedule ==
  /\ stream # <<>> /\ Head(stream).op = "copy_schedule"
  /\ intBuffer' = pinned      \* read now, not when the copy was issued
  /\ stream' = Tail(stream)
  /\ UNCHANGED <<setup, planned, planInfo, pinned, indptr, graph, out, plans, runs>>

Execute ==
  /\ stream # <<>> /\ Head(stream).op = "run"
  /\ out' = [wanted |-> Head(stream).wanted,
             result |-> Launch(Head(stream).info, intBuffer, indptr)]
  /\ stream' = Tail(stream)
  /\ UNCHANGED <<setup, planned, planInfo, pinned, intBuffer, indptr, graph, plans, runs>>

Finished == plans = MaxPlans /\ runs = MaxRuns /\ stream = <<>> /\ UNCHANGED vars

Next == \/ \E lens \in Lengths : Plan(lens)
        \/ Run \/ Capture \/ Replay
        \/ CopyIndptr \/ CopySchedule \/ Execute
        \/ Finished

Spec == Init /\ [][Next]_vars

-----------------------------------------------------------------------------
\* The inductive invariant.  The host's state is that of the last plan, and a
\* graph, which freezes the launch shape, was recorded with the same shape.
Planned == /\ planned \in Lengths /\ planInfo = InfoOf(planned) /\ pinned = ScheduleOf(planned)
PlanRight ==
  \/ Planned
  \/ /\ planned = None /\ planInfo = None /\ pinned = None /\ graph = None
     /\ stream = <<>> /\ intBuffer = None /\ indptr = None
GraphRight == graph = None \/ (EnableCudaGraph /\ Planned /\ graph = planInfo)

Operations == [op : {"copy_indptr"}, lens : Lengths] \cup [op : {"copy_schedule"}] \cup
              [op : {"run"}, info : [padded_batch_size : Nat, split : BOOLEAN], wanted : Lengths]

\* Where plan() waits for the stream: the copies of the last plan that are still
\* to be made come first, then the launches, all of that plan.
StreamRight ==
  /\ stream \in Seq(Operations)
  /\ ~setup.host_indptr /\ Planned =>
       \E copies \in 0 .. 2 :
         /\ copies <= Len(stream)
         /\ copies = 2 => stream[1] = [op |-> "copy_indptr", lens |-> planned]
         /\ copies > 0 => stream[copies] = [op |-> "copy_schedule"]
         /\ \A i \in copies + 1 .. Len(stream) :
              stream[i] = [op |-> "run", info |-> planInfo, wanted |-> planned]
         /\ copies < 2 => indptr = planned
         /\ copies = 0 => intBuffer = pinned

OutRight ==
  ~setup.host_indptr /\ out # None =>
    /\ out.wanted \in Lengths
    /\ out.result = Launch(InfoOf(out.wanted), ScheduleOf(out.wanted), out.wanted)

IInv == TypeOK /\ PlanRight /\ GraphRight /\ StreamRight /\ OutRight

-----------------------------------------------------------------------------
\* Every launch puts out, for each request, the attention over all pages of
\* the lengths planned before it: its rows are disjoint, together they are the
\* request's pages, and none is left over from an earlier launch.  It relates
\* the schedule (DecodeSplitKVIndptr), the grid that a graph froze and the
\* order of copies and launches on the stream.
OutputCorrect ==
  out # None =>
    \A r \in Requests :
      LET rows == out.result[r]
      IN  /\ UNION {rows[i] : i \in DOMAIN rows} = {<<r, p>> : p \in 0 .. out.wanted[r] - 1}
          /\ \A i, j \in DOMAIN rows : i # j => rows[i] \cap rows[j] = {}

\* The binary search returns the least chunk, from the given minimum on, with
\* which the rows it counts fit the GPU.
SearchIsLeast ==
  (planned # None /\ BatchSize * heads < MaxGridSize) =>
    LET fitting == {c \in setup.min_pages .. Max({setup.min_pages, MaxLength}) :
                      SearchRows(planned, c) * heads <= MaxGridSize}
    IN  pinned.chunk = Min(fitting)

\* The arrays that plan() allocates, of the padded size, have room for the
\* schedule's rows, and the launch has a block for each of them: the search
\* counts as many rows as the schedule has, within what a graph can launch.
ScheduleFits ==
  planInfo # None => Cardinality(DOMAIN pinned.rows) <= planInfo.padded_batch_size
=============================================================================
