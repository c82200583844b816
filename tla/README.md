# A TLA+ verification project for FlashInfer

FlashInfer is a library of GPU kernels for LLM inference, with the host code
that plans, builds, tunes and launches them.  Most of its code is numerical and
is tested well by comparing outputs.  What such tests hardly reach is the code
whose correctness depends on *order*: GPUs that signal each other through
memory, kernels that reuse communication buffers without a barrier, plans that
are frozen into CUDA graphs and combined with later plans, host code that runs
ahead of a stream, processes that share a cache.  That code is what this
project models, checks and proves about.

## 1. Inventory

### 1.1 Parts that are modelled

**vLLM custom all-reduce** (`include/flashinfer/comm/vllm_custom_all_reduce.cuh`,
`csrc/vllm_custom_all_reduce.cu`, `flashinfer/comm/vllm_ar.py`,
`flashinfer/comm/cuda_ipc.py`).

* *State.*  Per rank a `Signal` (per block and thread a `self_counter`, and two
  sets of `peer_counter`s that the peers write), a `tmp` buffer behind it, a
  registered input buffer that peers read, an array of `RankData` entries with
  the peers' addresses, `graph_unreg_buffers_`.
* *Operations.*  `multi_gpu_barrier`; the kernels `cross_device_reduce_1stage`
  and `_2stage`; `allreduce` (choice of the kernel, number of blocks, capture);
  `register_buffer`, `get_graph_buffer_ipc_meta`, `register_graph_buffers`.
* *Interaction.*  Ranks only meet in `multi_gpu_barrier`; all else goes through
  memory that peers read and write.  Handles are exchanged by a collective.
* *Hard.*  A peer may be one barrier ahead; stores become visible late and out
  of order; counters wrap; the 2-stage kernel ends without a barrier; entries
  are promised to captured kernels before they are written.
* *Correct when* no rank passes a barrier early and none waits for ever; every
  call's result is the sum of that call's inputs; no buffer is overwritten
  while a peer reads it; a captured kernel's entry names the captured inputs.

**MNNVL Lamport all-reduce** (`include/flashinfer/comm/trtllm_mnnvl_allreduce.cuh`,
`flashinfer/comm/trtllm_mnnvl_ar.py`).

* *State.*  Per rank three Lamport buffers, filled with a sentinel (-0.0),
  buffer flags (current and dirty index, number of stages and extents to clear,
  an arrival counter).
* *Operations.*  The one-shot kernel; the two-shot kernel, alone or followed by
  the fused RMSNorm kernel; `clearDirtyLamportBuf`, `ctaArrive`, `waitAndUpdate`.
* *Hard.*  There is no barrier at all: a rank polls its own cells until none
  holds the sentinel, and every cell must have been cleared, by its own rank,
  before data of a later call arrives there.  Kernels of different shape follow
  each other; a fused second kernel starts while the first still runs.
* *Correct when* results belong to their call, stores only land in cleared
  cells, clears never hit new data, the flags name all that is dirty, and no
  thread polls for ever, whatever the payload.

**TRT-LLM all-reduce fusion, two-shot kernel** (`include/flashinfer/comm/trtllm_allreduce_fusion.cuh`,
`flashinfer/comm/trtllm_ar.py`).

* *State.*  Per rank a comm buffer (inputs and, behind them, sums), barrier flags
  that peers write, and in the workspace a flag value and an arrival counter
  that carry over from call to call.
* *Operations.*  The launch (tokens to ranks and blocks), `SyncComm`,
  `Barrier::sync`, the kernel's copy, reduce and output, `SyncComm::update`.
* *Hard.*  Flags have three values only; a block also stores the flags of
  blocks that are not launched; grids and buffer layouts change from call to call.
* *Correct when* no block passes a barrier before its peers entered it, results
  belong to their call, the next call finds the workspace ready, all calls end.

**Batch decode planning** (`include/flashinfer/attention/scheduler.cuh`,
`decode.cuh`, `cascade.cuh`, `csrc/batch_decode.cu`, `flashinfer/decode.py`).

* *State.*  The wrapper's plan info, its page-locked and device workspaces, the
  device copy of the lengths, a recorded graph, the stream's queue.
* *Operations.*  `plan()`: binary search for the chunk size, work estimation,
  schedule, asynchronous copies; `run()`: launch of one block per row and merge;
  capture and replay of a graph.
* *Hard.*  A graph freezes the launch shape of one plan and is replayed with
  the schedule of another; host and stream run concurrently on one page-locked
  buffer; empty requests, partial chunks.
* *Correct when* each launch covers every page of the lengths planned for it
  once, and merges rows that this launch computed.

**CuTe DSL kernel cache** (`flashinfer/jit/cute_dsl_core.py`, `flashinfer/jit/core.py`,
`flashinfer/gemm/gemm_mm_fp4_cute_dsl.py`).

* *State.*  One directory per op family: an object file per kernel, and
  `meta.json`, the commit marker, with the version (architecture, compiler,
  hash of the sources) that everything in it was made from; a lock file.
* *Operations.*  `build_and_load` (`try_load`, lock, `try_load`, `build`,
  `load`) and `compile_and_persist` of the precompilation workers, which
  compiles outside the lock.
* *Interaction.*  Processes meet in the directory and in the file lock only.
* *Hard.*  Lookups take no lock and look at two files one after the other; a
  wipe removes files one at a time; processes die in between, restart with
  other sources, find the lock file deleted or the directory read-only.
* *Correct when* nobody is handed a kernel of another version, what the marker
  names is what the objects are, and a kernel whose object loads is not
  compiled again.

**Autotuner** (`flashinfer/autotuner/autotuner.py`, `flashinfer/autotune_cache.py`).

* *State.*  Per rank the winners in memory and a memo of the store; a store of
  winners in files that all processes share; process groups.
* *Operations.*  `choose_one` (`search_cache`, `_profile_single_kernel`,
  publication), hydration from the store, `autotune_v2_reload`.
* *Interaction.*  Ranks of a group reduce their times and out-of-memory flags,
  and reach those collectives only on the paths that tune.
* *Hard.*  A measurement, an allocation or a write fails on one rank only; what
  one rank finds in a cache another one must tune.
* *Correct when* ranks that wait in a reduction wait in the same one, the ranks
  of a group choose the same tactic, after a reload all ranks serve the same,
  and nobody waits for ever.

**MoE all-to-all** (`flashinfer/comm/trtllm_moe_alltoall.py`,
`csrc/trtllm_moe_alltoall.cu`, `moeAlltoAllKernels.cu`).

* *State.*  A workspace that all ranks map, one row per rank: epoch, completion
  flags for dispatch and combine, receive counters, receive and combine buffers.
* *Operations.*  Mapping and clearing of the workspace, `dispatch`, `combine`,
  `checkpoint_prepare`, `checkpoint_restore`, each with the kernels it launches.
* *Interaction.*  Kernels write into the rows of peers and poll flags; hosts
  meet in barriers; host and stream run concurrently.
* *Hard.*  A rank is one kernel ahead of a peer; a rank that was masked out has
  an older epoch; memory is unmapped and mapped again under captured graphs.
* *Correct when* no kernel meets memory that is not mapped or not yet cleared,
  combine reads this round's outputs, and no rank waits for ever.

**Radix top-k across CTAs** (`include/flashinfer/topk.cuh`).

* *State.*  `RadixRowState`: three histograms, arrival counter, output counter,
  `sum_topk`; scratch of the deterministic collection.  It outlives the launch.
* *Operations.*  The persistent loop over rows: radix select, collection, page
  table, mask, renormalisation; the reset by the last CTA to exit.
* *Hard.*  One barrier per round; the leading CTA clears one histogram while
  peers fill the second and read the third; the barrier's counter has to be
  reset although peers may still spin on it; the next launch trusts the state.
* *Correct when* each row's output is that row's top k, the state is zero
  between launches, and no CTA waits for ever.

### 1.2 Parts that are not modelled

| part | state and hazards | why not |
|---|---|---|
| TRT-LLM one-shot fusion kernel, MoE all-reduce fusion (`comm/trtllm_allreduce_fusion.cuh`, `comm/trtllm_moe_allreduce_fusion.cuh`) | triple-buffered Lamport one-shot that shares the arrival counter with the two-shot kernel | the protocol is that of `LamportAllreduce` with one stage; next |
| JIT cache of ninja builds (`jit/core.py`, `jit/cpp_ext.py`, `jit/utils.py`) | ninja files that are rewritten in place, two locks for one library | what two ninja processes do to one directory is not in this code; `build_and_load` itself is part of `CuteDslCache` |
| artifact downloads (`jit/cubin_loader.py`) | rename after the download, lock with a timeout | small; next |
| prefill, MLA and holistic schedulers (`attention/scheduler.cuh`) | same hazards as decode, two-dimensional tiles, CTA cost heaps | module `PrefillPlan`, next |
| FIFO all-to-all (`comm/trtllm_alltoall.cuh`), PCIe IPC all-reduce, mixed communication, DCP | credits, epochs over a slab | next |
| MNNVL memory, symmetric memory | | driver calls, collective by construction |
| attention, GEMM, MoE, sampling, norm, quantisation kernels | floating-point arithmetic | not a discrete model |
| vendored and generated code (`csrc/nv_internal` but for the all-to-all, `csrc/cake_*`, `moe_ep/kernel_src`) | | not this repository's logic |

Most of the repository's lines are in the last two rows, so the share of lines
that the models stand for is small.  `PROJECT.json` lists every component with
its status, and under `hazards` each hazard at the line where it bites with the
properties that cover it.

## 2. Modules

```
RankBarrier             abstract: what one multi_gpu_barrier promises
  ^ refines (proved; with its fairness model-checked)
MultiGpuBarrier         counters, peer counters, delayed stores, one block index
  MultiGpuBarrierUnzeroed the same barrier on memory that was not cleared
CrossDeviceReduce       the two kernels on top of the abstract barrier
  MCCrossDeviceReduce     sizes for TLC
GraphBuffers            RankData entries, capture, exchange of handles
CustomAllreduce_proofs  TLAPS proofs about these three, which make up the
                        vLLM custom all-reduce
LamportAllreduce        one-shot, two-shot, fused RMSNorm on three buffers
  MCLamportAllreduce      call sequences for TLC
  LamportAllreduce_proofs TLAPS proofs
FusionTwoShot           two-shot fusion kernel, three-valued barrier flags
  MCFusionTwoShot         call sequences for TLC
  FusionTwoShot_proofs    TLAPS proofs
DecodePlan              plan(), run(), graphs, the stream
  MCDecodePlan            setups for TLC: heads, graph mode, empty requests
  DecodePlan_proofs       TLAPS proofs
KernelCache             abstract: a cache whose entries are of one version
  ^ refines (proved)
CuteDslCache            lookups, builds, wipes, commits, crashes, upgrades
  MCCuteDslCache          faults for TLC
  CuteDslCache_proofs     TLAPS proofs
AutotunerGroup          tuning on several ranks, reductions, store, reload
  MCAutotunerGroup        process groups and tactics for TLC
  AutotunerGroup_proofs   TLAPS proofs
MoeAlltoAll             workspace, dispatch, combine, checkpoints
  MCMoeAlltoAll           programs of the ranks for TLC
  MoeAlltoAll_proofs      TLAPS proofs
RadixTopK               CTAs of one group, row state, launch after launch
  MCRadixTopK             launches for TLC
  RadixTopK_proofs        TLAPS proofs
```

### 2.1 RankBarrier, MultiGpuBarrier

`MultiGpuBarrier` models one `blockIdx`: rank `r` runs one block whose thread
`t` shakes hands with rank `t`.  Blocks with different indices share no
counters, so one index stands for all.

| model | code |
|---|---|
| `self_counter[r][t]`, `peer_counter[r][k][t]` | `struct Signal` on rank r |
| `Begin(r)` | the block reaches a barrier (kernel start, or `__syncthreads`) |
| `Signal(r, t)` | `val = self_counter += 1` and the store to the peer |
| `Deliver` | the store becomes visible in the peer's memory |
| `Observe(r, t)` | the spin loop reads the value it waits for |
| `Join(r)` | `__syncthreads` after the barrier, or the end of the kernel |

The counter wraps at `Wrap` (2^32 in the code).  `flight` holds stores that are
issued and not yet visible; they become visible in any order.  The code issues
volatile stores in the start and end barriers, so nothing stronger is assumed.
`StoreConsumedFirst` (proved, see 4) says that no two stores to one location
are ever in flight together, so one place per location is enough.

`RefinesRankBarrier` is `Abstract!FairSpec` for `Abstract == INSTANCE RankBarrier
WITH` a mapping of the variables: with the code's fairness the barrier also
makes the progress that the abstract one promises.

### 2.2 CrossDeviceReduce

The kernels on `N` ranks, call after call, with one registered input buffer per
rank.  The barrier is the one of `RankBarrier` (arrive, then wait until all
arrived), which `MultiGpuBarrier` implements, so this module can afford four
ranks and several blocks.  A sum is the set of calls its terms come from and
the element's index, enough to tell a right sum from one with a stale, missing
or misplaced term.  `ReduceScatter` and `AllGather` follow the code's split of
the elements (the last rank takes the remainder) and the assignment of elements
to blocks by grid stride.  All links are NVLink (`full_nvlink_`): without it
`allreduce` launches a kernel for two ranks only
(`vllm_custom_all_reduce.cuh:478-490`).  `CustomAllreduce_proofs` extends this module, the
barrier and `GraphBuffers` together, so each names its specification for what it
specifies: `ReduceSpec` here, `TableSpec` in `GraphBuffers`.

### 2.3 GraphBuffers

The ranks run one script of `register_buffer`, captured `allreduce` and
exchange (`get_graph_buffer_ipc_meta`, all-gather, `register_graph_buffers`),
each at its own pace and with its own addresses.  A captured kernel is recorded
as the entry its argument points to and the input it was called with.  An eager
call looks its entry up by the address of its input (`EagerArg`), which changes
nothing; `EagerArgsRight` says what it finds at any time after the registration.
Buffers are registered from fresh allocations (`Fresh`), as in the tests.  Left
out: the cache of opened handles (`ipc_handles_`), which hands out the same address
for the same handle, and CUDA calls that fail (the ones under
`CHECK_CUDA_SUCCESS`, which raise; after a `cudaIpcOpenMemHandle` that failed the
cache holds a null address for the handle, which a second attempt would use).

### 2.4 LamportAllreduce

A program of calls, the same on every rank, of the kinds `oneshot`, `twoshot`
and `twoshot_norm` (two kernels).  A CTA handles one token, a token is one
packed element.  Each CTA goes through the kernel's steps in its own time;
stores to peers are in `net` until delivered, in any order.  `flags` and
`buffer` are the code's; `reg` is what a CTA has read of the flags into
registers.  Assumptions, all of the hardware: CTAs of a grid are dispatched in
order and at most `Resident` run at a time (2 in the runs; with one the first
CTA would wait for CTAs that cannot start); a kernel's own stores are visible
on its GPU when the next kernel starts.  Payloads that equal the sentinel are
part of the input (rank 0, token 0), and a sum can equal it too.

### 2.5 FusionTwoShot

Blocks and, within a barrier, threads: thread `t` of a block stores its flags on
rank `t` one at a time (`StoreFlag`, `st.release.sys` in program order) and then
waits for rank `t` (`WaitFlag`).  `next` is the flag it stores next.  A cluster
is one block, a token one cell.  The tokens of a call are dealt to ranks and
blocks as the launcher does, inputs lie at the start of the comm buffer and
sums behind them, at an offset that depends on the call.  Grids are at most
`SmCount` blocks and there are at least as many flags, as on any current GPU
(256 flags).

### 2.6 DecodePlan

Lengths are counted in pages.  `Plan` does on the host what
`_plan_impl` and `DecodePlanImpl` do, then appends the copies to the stream;
the stream executes its operations in order, and `CopySchedule` reads the
page-locked buffer *when it is executed*.  A device `indptr` makes `plan()`
wait for the stream (`indptr.to("cpu")`); with `host_indptr` it does not: the
copies of a host `indptr` that lies in page-locked memory are asynchronous.
`Launch` computes, for each request, the rows that its result is merged from
and the pages each row covers; a row that no block of the launch computed is
`Stale`.

### 2.7 KernelCache, CuteDslCache

A process is in `build_and_load` (mode `build`) or is a precompilation worker
in `compile_and_persist` (mode `persist`); both share the actions for the steps
that they share.

| model | code |
|---|---|
| `disk[k]`, `disk["meta.json"]` | the version an object was compiled from, the version in the marker |
| `Exists`, `ReadMeta`, `LoadCached` | `try_load`, one file access at a time |
| `LoadFails`, `unloadable` | the `except` of `try_load`: an object that is there and does not load is a miss |
| `Acquire`, `LeaveLock` | the `with FileLock` block |
| `CheckMeta`, `ListFiles`, `RemoveFile` | the wipe: `rmtree`, file by file, in any order |
| `Compile`, `ReplaceObject`, `ReplaceMeta` | `compile_fn`, the two `os.replace` of `_export` |
| `ExportFails`, `EndExport` | an export that raises, and one that skips the marker |
| `LoadExists`, `LoadFromDisk` | `load` |
| `Crash`, `Upgrade`, `BreakLock`, `BecomeReadOnly` | the environment |

Temporary files are private to a process (their names hold its id) and are left
out.  Loading can fail at any time, whatever the file is: because it is gone or
corrupt, or because the device cannot run it.  `try_load` takes this for a miss,
and `load` raises.  `unloadable` remembers, for `CompiledOnce` only, that the
process has failed to load an object since it took the lock; the code keeps no
such record.

A behaviour has a set of faults, chosen at its start: `overlap` lets
processes of two versions run at a time, `break` deletes the lock file under its
holder, `readonly` takes away write access.  Crashes are always possible, and so
are upgrades; without `overlap` an upgrade restarts all processes.  A lock
file that is deleted while builders of two versions run keeps nobody apart;
`FaultsAssumption` leaves this combination out.  One limit of the faults matters:
files cannot be removed only where the directory cannot be written any more, and
then no export succeeds either.  `rmtree(ignore_errors=True)`
(`cute_dsl_core.py:175`, `:207`) also passes over a single file that cannot be
removed, or not at that moment; if the export succeeds after that, the new marker
stands next to an object of the old version.  `CommitMarker`, `OwnVersion` and the
refinement say nothing about such a file system.

`KernelCache` is what readers rely on: entries count only while the cache is
committed to a version, and are of that version.  The mapping takes the marker
for the version.

### 2.8 AutotunerGroup

A rank walks through its profiles, `tune`s each, then finishes (`final`), waits
for all ranks, reloads, and `serve`s.  A step is a lookup, a measurement, a
publication or an entry into a reduction; a reduction is what a rank has put in
(`post`) until all ranks of its group have (`Complete`), which hands everybody
the `outcome`: the largest flag, or the sum of the times.  A failed measurement
is `Inf`.  A group of one rank is no group, as in the code.  A key of the store
holds the runner, so that an entry is a profile and a runner.  The store may hold
anything at the start.  Failures of allocations, measurements, reads and writes
are bounded by `MaxFaults` together.  `set_autotune_process_group` asks for ranks
that start with the same caches; accordingly only a rank outside a group may
find an entry unreadable.  Exceptions of other kinds in the preparation of inputs
and runners (an active capture, a hook, input synthesis:
`autotuner.py:2358-2369` and `2405-2429`) are not modelled.  They leave `choose_one`
before its reduction, so that the other ranks of the group would wait there:
`AllServe` holds for the failures named here, not for those.

### 2.9 MoeAlltoAll

Ranks run one program of operations: map the workspace, rounds of dispatch and
combine, unmap.  `host[r]` is the rank's position in it, `stream[r]` the
kernels it has launched, `done[r]` what the blocks of the running kernel have
done: the blocks of a kernel act in any order.  A round has a `max` (the
`runtime_max_tokens_per_rank` of the call), tokens per rank and a mask of active
ranks; each token goes to all active ranks, which is the routing with the most
traffic.  A payload is a token's identity, an output the token and the rank
that computed it.  The send counters, and with them the order in which atomic
increments hand out the cells of a receiver, are left out: a token's cell is given
by its index.  `PrepareCombine` copies what came from active ranks; the code also
goes by the stale counters of masked ranks, whose cells nobody combines.
`RecvCell` and `CombineCell` are the layout of the code, with
bytes counted in tokens.  Epochs wrap at `FlagCount` (2^32 in the code).

### 2.10 RadixTopK

The CTAs of one group.  An access of a CTA to one object of the shared row state
is a step, its work in shared memory belongs to the step before.  The barrier
(`Arrive`, `Pass`) is the code's: the counter grows, its target is the phase
times the number of CTAs.  A value has `NumRounds` digits of base `Radix`.  Rows
have fewer elements than there is room, so that the last CTA has a short
chunk, and values that occur more than once.  A launch has a kernel, its rows,
and whether placement is deterministic; the next launch starts when this one is
over, on the state it left.

## 3. Runs

All passing runs end without an error and without deadlock.  In `tune`, `moe` and
`topk` the system stops when its program is over, and the configuration does not
check for deadlock: there `AllServe`, `AllOpsEnd` and `AllLaunchesEnd` say that
it stops nowhere else.  Where a component has proofs, the run checks the
inductive invariant that they rest on (`IInv`, `ReduceInv`, `TableInv`; in `tune` with the types, `Inv`),
so that what is proved of all instances has been found to hold, and not to hold
for want of states, on one.

| run | bounds | shows |
|---|---|---|
| `barrier` | 2 ranks, 9 barriers, counters modulo 4 | `Meeting`, `NoLostSignal`, the invariant of the proofs; refinement of `RankBarrier` with its fairness |
| `barrier_unzeroed` | 2 ranks, 1 barrier, leftovers 0 and 1 | violated: see 5 |
| `reduce` | 4 ranks, 2 calls of 1 or 6 elements, 2 blocks | right results; inputs and `tmp` reused only when read; calls with different kernels and numbers of blocks end; the invariant of the proofs |
| `graph_discipline` | 2 ranks, 5 operations, 3 entries | captured kernels get the right entries, also when the array is full; tables agree; eager calls find the entry of their buffer; the invariant of the proofs |
| `lamport` | 2 ranks; 2 calls of all pairs of kinds, one of 1 token and one of 2; 4 calls, full and small ones | the flags name all dirty cells; results; stores into cleared cells only; nobody polls for ever; the invariant of the proofs |
| `fusion` | 2 ranks, 2 SMs, 2 flags; programs of 4 and 3, 3 and 2, and 2, 2 and 2 tokens | no early pass, right results, all calls end, for grids that do not grow; the invariant of the proofs |
| `plan` | 3 requests, grid of 5, 1 or 2 heads, chunks from 1 or 2 pages on, 2 plans, 2 runs; with a graph 1 to 3 pages, without 0 to 3 | every page once, search is least, schedule fits the frozen grid; the invariant of the proofs |
| `cute_cache` | 3 processes, 2 kernels, 2 versions, one kind of fault at a time besides crashes and upgrades | own version, compiled once unless the object does not load, the invariant of the proofs, refinement of `KernelCache` |
| `tune` | 2 ranks in one group or alone, 2 profiles, 2 runners with 2 and 1 tactics, 2 times, 2 failures | reductions match, same choice, same after a reload, all serve; the invariant of the proofs |
| `moe` | 2 ranks; programs of up to 3 rounds, 2 tokens, flags modulo 3; with empty ranks, a checkpoint, a masked rank | memory mapped and cleared when used and the rest of the invariant of the proofs, right results, all operations end |
| `topk` | 3 CTAs of 2 elements, 2 digits of base 2; two launches, up to 4 rows | right rows, state zero between launches and the rest of the invariant of the proofs, all launches end |
| `topk_copied_row` | one launch of two rows | violated: see 5 |

Why the bounds are enough.  *Barrier*: a value matters only relative to the
value two rounds before (same set), so nine rounds modulo 4 make every counter
and every set wrap twice.  With two ranks a thread's partner is the only other
one; the proofs remove both bounds.  *Reduce*: the barriers never let a rank be
more than one call ahead, so two calls show all that a rank
can do to one that is behind; 6 elements on 4 ranks take the 2-stage kernel on
two blocks, with one element for each rank and three for the last, and 1 element
takes the 1-stage kernel on one block.  *Lamport*: four calls come back to the
first of three buffers; two tokens on two ranks fill a group and one token
leaves it incomplete, which makes the extents of the stages differ.  *Fusion*:
two calls are four barriers, so the three values of a flag wrap; 3 tokens leave
a remainder; the programs have grids that stay and grids that shrink.  *Plan*:
these lengths with a grid of 5 reach plans with and without room to split,
chunks of every size, partial last chunks, and (2 heads) the path without
partition.  *Kernel cache*: a lookup that races with a wipe and with a rebuild
needs a reader, a process of another version and one that waits for the lock;
one kernel is looked for and another one is next to it; the proofs remove these
bounds.  *Autotuner*: two profiles let a rank be in the next profile while its
peer is in the last, two runners put reductions of runners between those of
tactics, and two failures can hit two ranks in one profile or one rank twice.
*All-to-all*: a rank is never more than one kernel ahead of a peer, three rounds
make an epoch modulo 3 wrap, and two tokens make rows and cells differ.
*Top-k*: with two rounds a row the three histograms are back in place after
three rows; with three CTAs one can lead, one be last to exit and one be
neither.  (With four rounds, as for 32-bit values, the run passes as well.)

A bound in a guard is named for what it is: `MaxRounds`, `MaxCalls`, `MaxOps`,
`MaxPlans`, `MaxRuns`, `MaxFaults`; the length of a program bounds
`LamportAllreduce`, `FusionTwoShot`, `MoeAlltoAll` and `RadixTopK`.
`CuteDslCache` needs no bound.

### Fairness

Weak fairness of each thread (`Signal`, `Observe`), block and stream: the
kernels launch at most 36 blocks, fewer than the SMs, so all are resident and
scheduled; every rank makes the same calls in the same order; an issued store
becomes visible.  In `CrossDeviceReduce`, `FusionTwoShot` and `RadixTopK` the
fairness is that of each block.  `LamportAllreduce` takes weak fairness of `Next`
only, the weakest there is: polling is not a step and every step brings some CTA
closer to its end, so that all behaviours are finite, and the only thing left to
assume is that they do not stop while something can go on.  In `AutotunerGroup`
each rank goes on and a collective that all its ranks have entered ends; in
`MoeAlltoAll` each host and each stream goes on.  `CuteDslCache` states no
fairness: processes may die.  No strong fairness is used: every wait is for a
condition that stays true.

### Mutants

Every property of every passing run has a mutant in `PROJECT.json`: a change of
one definition that a plausible bug would make (one set of counters instead of
two, no barrier at the end, a forgotten rounding, an off-by-one in the search)
with which TLC finds that property violated.  Two of them are bugs that this
code has had: `LeadingCta` (the leading CTA resets the row state, issue 3610,
told in the comment at `topk.cuh:1667`) and `ClearForNextRowNothing` (a copied row
does not clear the next row's histogram, told in `tests/utils/test_sampling.py`).

## 4. Proofs

### The barrier

`CustomAllreduce_proofs` proves, for every finite or infinite set of ranks,
every even `Wrap >= 4` and every bound `MaxRounds`:

* `TypeCorrect`, `InductiveInvariant`;
* `NoEarlyPassHolds`, `MeetingHolds`, `NoLostSignalHolds`,
  `StoreConsumedFirstHolds`;
* `Refinement`: `Spec => Abstract!Spec`, the barrier implements `RankBarrier`.

The assumptions are `WrapAssumption` and `RoundsAssumption`; 2^32 satisfies the
first.  `NoEarlyPass` is not inductive: that an equal value in the right set
was written for this very round depends on what the partner wrote in the two
rounds before.  `IInv` therefore says of each pair (thread `t` of rank `r`, its
partner) that

1. rounds are ordered: a thread is at most one barrier ahead of its block, and
   partners are at most one barrier apart (`RoundsOrdered`, `NoEarlyPass`);
2. their counters are equal or consecutive accordingly, modulo `Wrap`
   (`CountersAgree`);
3. the partner's last store left its counter in the set of that parity, and the
   other set does not yet hold the next value (`LastPosted`), and a partner that
   is ahead left this round's value in the other set (`PreviousPosted`);
4. a store in flight is for a round not yet passed and changes the location
   (`FlightFresh`).

`Posted` (the value in flight if there is one, else the value in memory) makes
`Deliver` a stutter for 2 and 3.  The only hard steps are `Observe`, where 3
and 4 give that the partner has entered, and `Signal`, where 1 gives that the
location is free and consumed.  That `Wrap >= 4` is what makes a value differ
from the one two rounds before is `IncFacts`.

### The kernel cache

`CuteDslCache_proofs` proves, for all sets of processes, kernels and versions and
all sets of faults that `FaultsAssumption` admits:

* `InductiveInvariant`: `Spec => []IInv`;
* `OwnVersionHolds`: without two versions at a time and with a directory that can
  be written, nobody is handed a kernel of another version;
* `CompiledOnceHolds`: while the lock file stays, `build_and_load` compiles a
  kernel that is in the cache only if it has failed to load it since it took the
  lock;
* `Refinement`: `Spec => RefinesKernelCache`.

The assumptions are `FaultsAssumption` and `NamesAssumption` (`meta.json` is no
kernel, `None` no process or version).  What readers need is `CommitMarker`:
where the marker names a version, all objects are of that version or gone.  It
is not inductive.  The step that could break it is `ReplaceMeta`, which declares
everything in the directory to be the writer's; so at that point everything has
to be (`Clean`: after its wipe, a process under the lock finds only files of its
version).  `Clean` in turn survives the steps of others because they are not
under the lock (`MutualExclusion`, `InsideWhereLocked`), or, when somebody
deleted the lock, because they are of the same version (`OneVersion`: no two
versions at a time then).  A wipe is only as good as its list: while it goes on,
what is not the wiper's own is still listed (`Wiping`).  `AloneUnderLock` and
`SameVersionUnderLock` are the lemmas that put these together; there is one
lemma per action that changes files, and the others leave the files alone.
`OwnVersion` adds what a process has seen so far: an object found by the first
look is of its version by the time it is loaded (`Found`, `Handed`), because the
marker was looked at in between and files of other versions do not come back.
`CompiledOnce` adds that what the look under the lock did not find, or could not
load, nobody puts there until the process has compiled it (`Missing`).  For the refinement, `RemoveRefines`, `ObjectRefines` and
`MetaRefines` say which abstract step each file operation is: removing the marker
is `Reset`, removing an object `Forget` or a stutter, replacing an object `Add`
or a stutter, replacing the marker `Commit`.

### The reduction kernels

`CustomAllreduce_proofs` proves, for two ranks or more, all numbers of threads,
blocks and calls and all sizes (`ParameterAssumption`):

* `ReduceInvariant`, `ResultCorrectHolds`;
* `BuffersReadByAllHolds`, an action property: no step overwrites an input or a
  `tmp` buffer that a peer still has to read.

`ResultCorrect` alone says nothing about buffers that peers read.  `ReduceInv` first
says where blocks can be: ranks in one call have arrived equally often before it
(`CountsAgree`), so what a block waits for is that the others are at the same
barrier (`PassedTogether`), and a rank is at most one call ahead, and then with
no block past its first barrier (`AtMostOneAhead`).  With that, what a block
reads was written in this call and not yet overwritten: `TmpRight` while the
call runs, `TmpKept` for ranks that are a call behind; the last one is needed
because the 2-stage kernel ends without a barrier.  The lemmas on `BlockOf`,
`PartStart` and `TmpIndex` say that parts and blocks split the elements: each is
written once, also those of the last rank, which takes the remainder.

### The registered buffers

`CustomAllreduce_proofs` proves, for every script, capacity and set of ranks and
addresses:

* `TableInvariant`, `SameTableHolds`, `EagerArgsRightHolds`, unconditionally;
* `CapturedArgsFilledHolds`, under `~LateRegister`: no `register_buffer` between
  a capture and its exchange.  Without this hypothesis it is false (5,
  `GraphBuffersLate`).

The invariant is that a rank's state is a function of its position in the
script: `Base(at)` entries, at positions that depend on the script alone
(`InStep`, `TableRight`).  So two ranks need no other relation to agree.
`GatheredRight` says that what a rank contributed to an exchange does not change
afterwards.  `PromiseKept` is the part that needs the hypothesis: the slot promised
during capture, base plus the number of captures pending, is the one that the
exchange fills.  That operations which raise change nothing, with the array full
or the capture empty, is part of the step lemmas.
For eager calls the invariant is strengthened by two facts: registered buffers
differ on every rank (`Distinct`, from `Fresh`), so that no registration takes the
key of another, and each is looked up at the entry its registration wrote
(`LookedUp`); what that entry holds is `TableRight`.

### The fusion kernel

`FusionTwoShot_proofs` proves `InductiveInvariant`, `NoEarlyPassHolds` and
`ResultCorrectHolds` for all ranks, SMs, flags and tokens (`ParameterAssumption`)
under `NonGrowing`: no grid is larger than one before.  The hypothesis is on the
constant `Programs`; without it they are false (5, `FusionTwoShotGrowing`).

A flag has three values.  That a peer's flag is not yet mine tells me that it is
behind, provided that it can be at most one barrier behind or ahead; `IInv` says
which barrier each flag stands for (`Stored`, `FlagsRight`) and what a rank has
waited for in this call and, for all blocks, in the last one (`MetHere`,
`MetLast`).  From these, `FlagAtMostOneBehind` and its counterpart bound the
difference, and a wait that ends has met its peer.  `MetLast` is where
`NonGrowing` enters: the block waited for this flag in the call before.  Results
follow from `BufferRight`: which cells of a rank's buffer are this call's inputs
and sums, although inputs of a call overlap sums of another size.

### The autotuner

`AutotunerGroup_proofs` proves, for all ranks, profiles, runners, tactics, times and
failures (`SizesAssumption`, `GroupingsAssumption`, `MarkersAssumption`):

* `InductiveInvariant`, `InvHolds` (all types, with the bound on summed times), and
  `SameAfterReloadHolds`, for any groups;
* `ReducesMatchHolds` and `SameChoiceHolds`, under `AllOrNone`: the ranks are one
  process group, or each is on its own.  With two groups on one store they are
  not in step (5, `AutotunerTwoJobs`).

Ranks of a group are not at the same place: one is still measuring when its peer is
in the reduction, one has come from the cache's hit and another one from a failed
measurement.  What they share is where they are going.  `Heading(r)` is the next
reduction that r enters and what it brings, or the choice it returns, the loops
over profiles, runners and tactics unrolled; `Lockstep` says that it is the same
for all.  A rank's own steps do not change it, and a completed reduction changes
it alike for all, because they get the same outcome.  A look-up is a step that
reads what others publish; `NoLateLookup` (who has reduced is ahead of no one's
look-up) and `KnownAll` (what a rank remembers is what the store held) make its
result independent of when it comes.  That a sum of times stays
below `Inf` needs more than types: at most as many terms as there are ranks, each
of which is a time that was measured or was not (`Posted`), and what a sum over a
set is at most is proved by induction on the size of the set.

### The all-to-all

`MoeAlltoAll_proofs` proves, for all numbers of ranks, tokens and flag values
above two (`SizesAssumption`, `ProgramsAssumption`):

* `WorkspaceReadyHolds`: `Spec => []Inv`, for every program;
* `InductiveInvariant` and `ResultCorrectHolds` for programs that are `Uniform`:
  between two checkpoints the rounds have one `max` and one set of active
  ranks.  For others `ResultCorrect` is false (5, `MoeAlltoAllGrowing`).

`Ready` is the part that holds for every program: hosts meet in the two barriers
of a checkpoint (`HostsMeet`), a host that is in one has drained its stream
(`StreamsRight`), and a kernel in a stream was launched after the last map
(`MappedRight`, `OpsMapped`).  For results, `InOrder` gives each device a place in
the program, so that ranks can be compared, and `Exchange` says, from one map to
the next checkpoint, what a rank's epoch is, which of the peer's operations its
flags, counts and memory stem from (`RowRight`), and what it has waited for
(`Met`).  The steps that matter are the waits (`WaitedDispatch`, `WaitedCombine`):
an equal epoch is this round's, because peers are at most one kernel apart and
two epochs in a row differ (`EpochApart`, for which two flag values would not do).
`AllThere` then says that all outputs of the round are in place when the combine
reads them, and `ReadValue` that none was overwritten by a peer in the next
dispatch: receive and combine cells are disjoint and, for rounds of one size, the
same in each round.  `MCMoeAlltoAll` assumes `RegularIsUniform`, so TLC confirms that
the programs of the run are `Uniform`.

### The Lamport all-reduce

`LamportAllreduce_proofs` proves, for all numbers of ranks, tokens and resident
blocks and all sequences of one-shot, two-shot and fused two-shot calls that
`CallsAssumption` and `BufferAssumption` admit (buffers as large as
`is_buffer_size_sufficient` asks for, and a whole number of stages):

* `InductiveInvariant`, `ResultCorrectHolds`, `DirtIsRecordedHolds`;
* `StoreFindsSentinelHolds`, an action property: no store hits a cell that has
  not been cleared.

No barrier separates one call from the next; what keeps ranks together is the data
itself.  `CallsTogether` says so: a call is over on a rank only when every rank has
issued all that it stores in that call, because the rank has polled it
(`CtasRight`, `PolledRight`).  Hence ranks are at most one call apart, and with
`NetRight` and `BufferRight` (what is under way, or held, is a packet of some call
at its place) all packets around are of calls within two of each other.  For
these three buffers are enough: by `SamePlace` two of them at one place are the
same packet.  `FlagsRight` gives the flags as a function of the number of calls
done and of who has arrived (`HasArrived`, counted by the arrival counter), and
says that they are handed over only when all have read them.

What is cleared is what the flags name, in extents that are rounded up, with as
many stages as the dirty buffer had.  `PlaceNamed` is the lemma that this is
all of the previous call's data, for calls of any kinds and sizes, and `NotDirty`
that it is nothing of this call's or the next one's.  Hence `ClearedRight`: what a
block has cleared stays clear until the call is over, so the previous call's
buffer is clean again before anybody is in the call that uses it next, the one
after the next.  `PolledRight` keeps what has been polled as it was until the call is
over, and `OutRight`, what has been put out so far, follows from what the polls
have read.

### The decode plan

`DecodePlan_proofs` proves, for all batch sizes, lengths, grids and setups
(`SizesAssumption`, `SetupAssumption`):

* `InductiveInvariant` and `SearchIsLeastHolds`, for every setup;
* `ScheduleFitsHolds`, under `NoEmptyUnderGraph`: where a graph is recorded no
  request is empty;
* `OutputCorrectHolds`, under the same and `IndptrOnGPU`: `plan()` gets its `indptr`
  on the GPU.

The hypotheses are on the constant `Setups`, and each is needed: without them
TLC finds `ScheduleFits` and `OutputCorrect` violated (5, `DecodePlanEmpty`,
`DecodePlanHost`).

`BinarySearchIsLeast` says what the search returns: the least chunk with which the rows
fit, because larger chunks never make more rows (`SearchRowsAntitone`).  The search
is a recursive function, so it is first shown to be defined on all intervals, and
what it is there (`SearchExists`, `SearchValues`), the latter by induction on the
length of the interval.  The rows of the schedule are numbered by a sum over the
requests before (`FirstFacts`, `FirstMonotone`); each request has the numbers from its
first row on, as many as it has chunks, and no number is left out (`RowOfSome`,
`RowOfOne`, `ScheduleRows`).  `InfoFacts` says that they fit the launch unless an empty
request, which the search does not count and the schedule does, takes one more.
`LaunchCorrect` puts these
together: launched with its own shape, its own schedule and its own lengths, every
plan covers every page once.  What is left is that a launch gets them.  That is
the inductive invariant: `StreamRight` says how far the copies of the last plan have
come and that all launches behind them are of that plan, `PlanRight` and
`GraphRight` that the shape a graph froze is the shape of every later plan
(`InfoFrozen`).

### The radix top-k

`RadixTopK_proofs` proves of all numbers of CTAs, sizes of chunks, radices and rounds
and all sequences of launches, of all kernels and rows (`ParameterAssumption`), first
what the kernels' synchronisation is for, `ControlHolds`, `Spec => []Control`:

* `StateZeroed`: between launches the row state is zero, whoever was the last to
  exit.  This is the fix of issue 3610;
* `Met`: nobody has passed a barrier that another CTA has not arrived at, although
  the barrier is one counter that is never reset during a launch, CTAs leave rows
  at different times and the last one to exit clears the counter;
* `PhasesRight`: how many barriers a CTA has passed is a function of its row and its
  place in it (`BarriersBefore`, `PassedHere`), the same for all CTAs.  So `Met`, which
  counts barriers, says which places two CTAs can be at together.

`CounterRight` carries it: as long as somebody is in the launch, the counter is the
number of arrivals, and all CTAs have arrived `n` or `n + 1` times.  When the
counter reaches the target of a waiting CTA, one that had arrived only `n` times
would make it too small (`AllCounted`); when a CTA arrives, it is one of those that
have arrived least often, or `Met` would fail (`OneMore`).  Leaving a launch counts as
an arrival (`Arrivals`), so the CTA that finds the counter one below the next target
is the last, all others are `done`, and what it resets stays reset (`ResetRight`).

On top of it `InductiveInvariant` (`IInv`, which is `Control` and `DataRight`) and
`ResultCorrectHolds` say what the shared row state and the outputs hold.  They have a
hypothesis, `CopiedFirst`: a row that needs no selection comes before all that do
when logits are masked, and first in its launch when probabilities are renormalised.
It is needed: `topk_copied_row` and `RadixTopKSummedRow` are launches that break it,
with wrong results (5).  It says nothing about the kernels that collect a
list, so for these the result is proved for all rows in any order.  TLC
evaluates it on the launches of the runs (`MixedAssumption`, `OvertakingAssumption`).

The argument is about who can still be where.  `HasAdded(c, r, n)`, `HasRead(c, r, n)`
and their like say that CTA `c` has done its part, wherever it is by now.
`ReachedFacts` and `Together` turn `Met` and `PhasesRight` into facts about them: to read a
histogram is to know that all have added to it; to clear one that has been used is
to know that all have read it.  So a buffer that is in three rounds at once is
needed in one of them only (`SlotsApart`, `AddAlone`, `ClearNextAlone`,
`ClearForNextAlone`, the place where `CopiedFirst` is used), and the same goes for the
sum (`SumAlone`) and the output counter (`CounterAlone`).  The parts of `DataRight`:

* `HistogramsRight`: from when it is cleared until all have read it, a histogram holds
  the counts of those CTAs that have added theirs;
* `PrefixesRight`: the digits found so far are those of the k-th largest element, and
  `remaining_k` is its rank among the elements that share them.  Proving a round right
  (`NextDigit`) is arithmetic: the counts of the buckets from `b` on count the elements
  from there on (`CountsFrom`), so one bucket holds the k-th largest;
* `SumRight`: the sum of a renormalised row is that over the CTAs that have added;
* `ScratchRight`: the counts the deterministic kernels publish, which place each element
  behind those of the CTAs before (`RankAcross`, `EmittedFacts`);
* `TodoRight`, `OutputCounterRight`: in the other kernels the counter is the number of
  places claimed, so that a claim gets places nobody has (`ListClaimed`, `ListPlaced`);
* `OutputsRight`: what each CTA that is through with its part of a row has written is
  right and is not overwritten, the way through the page table included (`ListedTransformed`).

When all have left a row, what each has written adds up to `RowCorrect`: a list with an
element for each place has the right number of each (`ListSelects`), and the
deterministic one has the first of those that equal the pivot (`OrderedFirst`).

### Not proved

Model-checked only: liveness (`AllCallsEnd`, `AllServe`, `AllOpsEnd`,
`AllLaunchesEnd`, the fairness part of `RefinesRankBarrier`), which the proof system
does not reach.

Induction theorems of the library cannot be instantiated here.  Where a
recursive function or a sum over a set has to be evaluated for all inputs, the proofs
use sets of numbers instead: `WFMin` gives a non-empty set of natural numbers a
least element (`LeastNumber`), and from that a set with 0 and with each successor is
`Nat` (`NatSetInduction`).

## 5. Where the code and what is said of it differ

* `barrier_unzeroed`.  `create_shared_buffer` (`comm/cuda_ipc.py:268`) does not
  clear the memory and neither does `init_custom_ar`; counters that start
  unequal let a rank wait for ever.  `csrc/ulysses_all_to_all.cu:59`, which uses
  the same barrier, says that the counters must start at zero and clears them.
* `topk_copied_row`.  The mask kernel clears, on a row with `k >= vocab_size`, the
  histogram of the next row's first round (`topk.cuh:1625`) and the comment below
  says that the next barrier is enough of a synchronisation.  It is for those
  who come later, not for a CTA that is still in the row before: between its
  last barrier and the end of its read of that row's last histogram the row
  passes no other barrier.  With two rounds (16-bit types) the copied row right
  after a selection clears just this histogram; with four (32-bit types) the
  second copied row does.

The following scenarios leave what the code is written for, or what `PROJECT.json`
has runs for; each has a configuration of its own that TLC ends with a
counterexample, for example

```
tlc -workers 2 -config MoeAlltoAllGrowing.cfg MCMoeAlltoAll
```

| configuration | module | violates | scenario |
|---|---|---|---|
| `GraphBuffersLate` | `GraphBuffers` | `CapturedArgsFilled` | `register_buffer` between a capture and its exchange |
| `FusionTwoShotGrowing` | `MCFusionTwoShot` | `NoEarlyPass` | a call with more blocks than the one before |
| `DecodePlanEmpty` | `MCDecodePlan` | `ScheduleFits` | empty requests under a CUDA graph |
| `DecodePlanHost` | `MCDecodePlan` | `OutputCorrect` | two plans from a page-locked host `indptr` |
| `CuteDslCacheReadOnly` | `MCCuteDslCache` | `PersistenceFailureIsGraceful` | the cache's directory can no longer be written |
| `AutotunerTwoJobs` | `MCAutotunerGroup` | `AllServe` | two process groups tune with one store |
| `MoeAlltoAllGrowing` | `MCMoeAlltoAll` | `ResultCorrect` | a round with a larger `runtime_max_tokens_per_rank` |
| `RadixTopKSummedRow` | `MCRadixTopK` | `ResultCorrect` | renormalisation of a row that needs no selection |

* `GraphBuffersLate`.  The comment at `vllm_custom_all_reduce.cuh:308` says
  that the pointer is incremented during capture; line 458 only adds the number
  of captures.  `register_buffer` between a capture and its exchange shifts the
  entries.  `graph_discipline` shows that without such a call all is well.
* `FusionTwoShotGrowing`.  The comment at `trtllm_allreduce_fusion.cuh:1019` says
  that storing the flag to all `barrier_flags`, also those of CTAs that were not
  launched, avoids the ABA problem.  The stores are issued one after the other,
  the block's own index first, and a peer waits for that one only: it can be
  done with its call and in the next, larger one while the rest are still
  being stored.  The block with the new index then sees a value that is two
  rounds old, takes it for a peer that has arrived, and passes.
* `DecodePlanEmpty`.  Empty requests count as no chunk in the search and as one
  in the schedule (`scheduler.cuh:86` and `:96`), so under a graph the schedule
  can need more rows than `max_grid_size / gdy`, which fixes the grid; the rows
  past it are merged although nobody computed them.
* `DecodePlanHost`.  With a host `indptr` a second `plan()` may overwrite the
  page-locked buffer before the first one's copy (`scheduler.cuh:504`).
* `CuteDslCacheReadOnly`.  The docstring at `cute_dsl_core.py:166` says that
  failures of persistence degrade gracefully, with the kernel of this process
  kept for `load()`.  The wipe ignores errors too, and `load()` prefers an object
  on disk: in a directory that cannot be written it returns the stale object
  that the wipe could not remove.
* `AutotunerTwoJobs`.  A rank that looks a profile up in the store after the
  other job has published it does not tune it, while its peers are already in
  the first reduction of the profile and wait for it.
* `MoeAlltoAllGrowing`.  The cells of a round depend on its `max`.  A rank that is
  through with its combine goes on to the next dispatch, and with a larger `max`
  its tokens land where a slower peer still has outputs of the round before.
  Rounds of one size do not meet, because the receive and the combine buffers
  alternate.
* `RadixTopKSummedRow`.  The leading CTA is through with a row, goes on to a row
  with `k >= vocab_size` and sets `sum_topk` to zero (`topk.cuh:1858`) before a
  slow CTA has read the sum of the row before (`:1965`).

One more, without a configuration: with the lock file deleted, a process can wipe
the object that another one has just been told exists, whose `load()` then
raises; the got value `Error` in `CuteDslCache` stands for it.

The FIXME at `trtllm_mnnvl_allreduce.cuh:263` ("How to guarantee the
correctness?" when a kernel uses fewer stages than the dirty buffer has) is
answered by `DirtIsRecorded` and `StoreFindsSentinel`, which are proved for
calls of all kinds and sizes: a one-shot call clears all stages and a two-shot
call that follows a one-shot call clears stage 0, the only one that was used.

## 6. Plan

What would add most, in this order:

1. the one-shot fusion kernel on the workspace of `FusionTwoShot`;
2. `LamportAllreduce` and `MoeAlltoAll`: an abstract collective that each
   implements;
3. `PrefillPlan`, with lemmas on the partition that it shares with `DecodePlan`;
4. `ArtifactCache`, and the FIFO all-to-all.
