---------------------------- MODULE GraphBuffers ----------------------------
(***************************************************************************)
(* The host side of the vLLM custom all-reduce (class CustomAllreduce in   *)
(* comm/vllm_custom_all_reduce.cuh): the array of RankData entries that    *)
(* tell a kernel where the inputs of all ranks are.                        *)
(*                                                                         *)
(* register_buffer fills the entry at d_rank_data_base_ and moves the base *)
(* on.  An allreduce that is captured into a CUDA graph gets the address   *)
(* of an entry to be filled later, base + (number of captured inputs not   *)
(* yet registered); register_graph_buffers fills these entries after the   *)
(* ranks have exchanged the IPC handles of the inputs they captured.  An   *)
(* allreduce that is not captured looks its entry up by its input.         *)
(*                                                                         *)
(* The ranks run the same script of operations, each at its own pace; the  *)
(* inputs they capture need not be at the same addresses.                  *)
(***************************************************************************)
EXTENDS Integers, Sequences, FiniteSets

CONSTANTS Processes,
          Allocs, Offsets,  \* an address is an allocation and an offset in it
          Capacity,         \* entries in the rank_data tensor
          MaxOps,           \* bound: length of the script
          LateRegister      \* may register_buffer come between a capture and
                            \* the exchange of the captured inputs?

ASSUME CapacityAssumption == Capacity \in Nat /\ MaxOps \in Nat
ASSUME LateRegisterAssumption == LateRegister \in BOOLEAN

Addresses == [alloc : Allocs, offset : Offsets]
Slots == 0 .. Capacity - 1
Empty == <<>>      \* an entry not written yet
NoSlot == -1       \* an address not in buffers_

VARIABLES
  script,    \* the operations the program has asked for so far
  at,        \* at[r]: operations rank r is through with
  base,      \* base[r]: d_rank_data_base_
  data,      \* data[r]: the entries, in the device memory of rank r
  buffers,   \* buffers[r]: buffers_, a slot for each registered address
  unreg,     \* unreg[r]: graph_unreg_buffers_
  gathered,  \* gathered[r]: what rank r contributed to the exchanges so far
  args,      \* args[r]: slot and input of each kernel rank r captured
  filled,    \* filled[r]: how many of these are registered
  failed     \* failed[r]: rank r's program was ended by an exception

tableVars == <<script, at, base, data, buffers, unreg, gathered, args, filled, failed>>

Tuples == [Processes -> Addresses]
Handles == Allocs \X Offsets
Operations == [op : {"register"}, ptrs : Tuples] \cup [op : {"capture", "exchange"}]

TableTypeOK == /\ script \in Seq(Operations) /\ Len(script) <= MaxOps
               /\ at \in [Processes -> 0 .. MaxOps]
               /\ base \in [Processes -> 0 .. Capacity]
               /\ data \in [Processes -> [Slots -> Tuples \cup {Empty}]]
               /\ buffers \in [Processes -> [Addresses -> Slots \cup {NoSlot}]]
               /\ unreg \in [Processes -> Seq(Addresses)]
               /\ gathered \in [Processes -> Seq(Seq(Handles))]
               /\ args \in [Processes -> Seq([slot : Nat, input : Addresses])]
               /\ filled \in [Processes -> Nat]
               /\ failed \in [Processes -> BOOLEAN]

TableInit == /\ script = <<>>
             /\ at = [r \in Processes |-> 0]
             /\ base = [r \in Processes |-> 0]
             /\ data = [r \in Processes |-> [k \in Slots |-> Empty]]
             /\ buffers = [r \in Processes |-> [a \in Addresses |-> NoSlot]]
             /\ unreg = [r \in Processes |-> <<>>]
             /\ gathered = [r \in Processes |-> <<>>]
             /\ args = [r \in Processes |-> <<>>]
             /\ filled = [r \in Processes |-> 0]
             /\ failed = [r \in Processes |-> FALSE]

-----------------------------------------------------------------------------
\* An operation of the script that rank r has not done yet comes next.
Doing(r, op) == /\ ~failed[r]
                /\ at[r] < Len(script)
                /\ script[at[r] + 1].op = op

\* Captures since the last exchange in the script.
PendingCapture == \E i \in 1 .. Len(script) :
                    /\ script[i].op = "capture"
                    /\ \A j \in i .. Len(script) : script[j].op # "exchange"

\* Buffers are registered once, from a fresh allocation on every rank.
Fresh(ptrs) == \A i \in 1 .. Len(script) :
                 script[i].op = "register" =>
                   \A r \in Processes : script[i].ptrs[r] # ptrs[r]

\* The program asks for one more operation, on all ranks.
Ask == /\ Len(script) < MaxOps
       /\ \/ \E p \in Tuples :
               /\ Fresh(p)
               /\ LateRegister \/ ~PendingCapture
               /\ script' = Append(script, [op |-> "register", ptrs |-> p])
          \/ \E op \in {"capture", "exchange"} :
               script' = Append(script, [op |-> op])
       /\ UNCHANGED <<at, base, data, buffers, unreg, gathered, args, filled, failed>>

\* Mutant of HasRoom: one entry past the end is allowed.
HasRoomForOneMore(r, num) == base[r] + num <= Capacity + 1

\* check_rank_data_capacity
HasRoom(r, num) == base[r] + num <= Capacity

\* The exception leaves everything as it was and ends the rank's program.
Throw(r) == /\ failed' = [failed EXCEPT ![r] = TRUE]
            /\ UNCHANGED <<script, at, base, data, buffers, unreg, gathered, args, filled>>

\* Mutant of RegisterBuffer: the base is not moved on.
RegisterInPlace(r) ==
  LET ptrs == script[at[r] + 1].ptrs
  IN  /\ Doing(r, "register")
      /\ IF ~HasRoom(r, 1)
           THEN Throw(r)
           ELSE /\ data' = [data EXCEPT ![r][base[r]] = ptrs]
                /\ buffers' = [buffers EXCEPT ![r][ptrs[r]] = base[r]]
                /\ at' = [at EXCEPT ![r] = @ + 1]
                /\ UNCHANGED <<script, base, unreg, gathered, args, filled, failed>>

RegisterBuffer(r) ==
  LET ptrs == script[at[r] + 1].ptrs
  IN  /\ Doing(r, "register")
      /\ IF ~HasRoom(r, 1)
           THEN Throw(r)
           ELSE /\ data' = [data EXCEPT ![r][base[r]] = ptrs]
                /\ buffers' = [buffers EXCEPT ![r][ptrs[r]] = base[r]]
                /\ base' = [base EXCEPT ![r] = @ + 1]
                /\ at' = [at EXCEPT ![r] = @ + 1]
                /\ UNCHANGED <<script, unreg, gathered, args, filled, failed>>

\* Mutant of CaptureAllreduce: the inputs captured before are not counted.
CaptureAtBase(r, input) ==
  /\ Doing(r, "capture")
  /\ args' = [args EXCEPT ![r] = Append(@, [slot |-> base[r], input |-> input])]
  /\ unreg' = [unreg EXCEPT ![r] = Append(@, input)]
  /\ at' = [at EXCEPT ![r] = @ + 1]
  /\ UNCHANGED <<script, base, data, buffers, gathered, filled, failed>>

\* allreduce on a stream that is capturing: the kernel's argument is fixed
\* now, the entry it points to is filled later.  No check of the capacity.
CaptureAllreduce(r, input) ==
  /\ Doing(r, "capture")
  /\ args' = [args EXCEPT ![r] = Append(@, [slot |-> base[r] + Len(unreg[r]),
                                            input |-> input])]
  /\ unreg' = [unreg EXCEPT ![r] = Append(@, input)]
  /\ at' = [at EXCEPT ![r] = @ + 1]
  /\ UNCHANGED <<script, base, data, buffers, gathered, filled, failed>>

\* How many of the first n operations of the script are of a kind.
Count(op, n) == Cardinality({i \in 1 .. n : script[i].op = op})

\* get_graph_buffer_ipc_meta and the all-gather: the handle of the allocation
\* an input lies in, and the offset of the input in it.
Exchanges(r) == Count("exchange", at[r])

GatherIpcMeta(r) ==
  /\ Doing(r, "exchange")
  /\ Len(gathered[r]) = Exchanges(r)
  /\ gathered' = [gathered EXCEPT ![r] =
                    Append(@, [i \in DOMAIN unreg[r] |->
                                 <<unreg[r][i].alloc, unreg[r][i].offset>>])]
  /\ UNCHANGED <<script, at, base, data, buffers, unreg, args, filled, failed>>

\* Mutant of Opened: the base address of the allocation.
OpenedAtBase(handle) == [alloc |-> handle[1], offset |-> CHOOSE o \in Offsets : TRUE]

\* open_ipc_handle plus the offset: the peer's address.
Opened(handle) == [alloc |-> handle[1], offset |-> handle[2]]

RegisterGraphBuffers(r) ==
  LET n == Exchanges(r) + 1
      num == Len(unreg[r])
      entry(i) == [s \in Processes |-> IF s = r THEN unreg[r][i]
                                                ELSE Opened(gathered[s][n][i])]
  IN  /\ Doing(r, "exchange")
      /\ \A s \in Processes : Len(gathered[s]) >= n
      /\ IF ~HasRoom(r, num)
           THEN Throw(r)
           ELSE /\ data' = [data EXCEPT ![r] =
                              [k \in Slots |->
                                 IF k \in base[r] .. base[r] + num - 1
                                   THEN entry(k - base[r] + 1) ELSE @[k]]]
                /\ base' = [base EXCEPT ![r] = @ + num]
                /\ unreg' = [unreg EXCEPT ![r] = <<>>]
                /\ filled' = [filled EXCEPT ![r] = Len(args[r])]
                /\ at' = [at EXCEPT ![r] = @ + 1]
                /\ UNCHANGED <<script, buffers, gathered, args, failed>>

ScriptFinished == /\ Len(script) = MaxOps
                  /\ \A r \in Processes : failed[r] \/ at[r] = MaxOps
                  /\ UNCHANGED tableVars

TableNext == \/ Ask
             \/ \E r \in Processes : \/ RegisterBuffer(r)
                                     \/ \E a \in Addresses : CaptureAllreduce(r, a)
                                     \/ GatherIpcMeta(r)
                                     \/ RegisterGraphBuffers(r)
             \/ ScriptFinished

TableSpec == TableInit /\ [][TableNext]_tableVars

-----------------------------------------------------------------------------
\* What the first n operations of the script come to on every rank that is
\* through with them: the captured inputs registered since, those still to be
\* registered, and the entries used.
Settled(n) == Cardinality({i \in 1 .. n : /\ script[i].op = "capture"
                                          /\ \E j \in i .. n : script[j].op = "exchange"})
Pending(n) == Count("capture", n) - Settled(n)
Base(n) == Count("register", n) + Settled(n)

\* What the ranks reduced in the i-th captured call.
CapturedInputs(i) == [s \in Processes |-> args[s][i].input]

\* The state of a rank follows from how far it is in the script.
InStep ==
  \A r \in Processes :
    /\ at[r] <= Len(script)
    /\ base[r] = Base(at[r])
    /\ Len(args[r]) = Count("capture", at[r])
    /\ Len(unreg[r]) = Pending(at[r])
    /\ filled[r] = Settled(at[r])
    /\ \/ Len(gathered[r]) = Exchanges(r)
       \/ at[r] < Len(script) /\ Len(gathered[r]) = Count("exchange", at[r] + 1)
    /\ \A s \in Processes : filled[r] <= Len(args[s])
    /\ \A i \in 1 .. Len(unreg[r]) : args[r][filled[r] + i].input = unreg[r][i]

\* What a rank contributed to an exchange are its captures since the last one,
\* and it had made all of them.
GatheredRight ==
  \A s \in Processes, p \in 1 .. Len(script) :
    script[p].op = "exchange" /\ Count("exchange", p) <= Len(gathered[s]) =>
      LET handles == gathered[s][Count("exchange", p)]
      IN  /\ p - 1 <= at[s]
          /\ Len(handles) = Pending(p - 1)
          /\ \A i \in 1 .. Pending(p - 1) :
               Opened(handles[i]) = args[s][Settled(p - 1) + i].input

\* Every operation behind a rank has left its entries in the rank's table, and
\* the table has no others.
TableRight ==
  \A r \in Processes :
    /\ \A k \in Slots :
         IF base[r] <= k THEN data[r][k] = Empty
                         ELSE \E p \in 1 .. at[r] : Base(p - 1) <= k /\ k < Base(p)
    /\ \A p \in 1 .. at[r] :
         /\ script[p].op = "register" => data[r][Base(p - 1)] = script[p].ptrs
         /\ script[p].op = "exchange" =>
              /\ \A s \in Processes : p - 1 <= at[s]
              /\ \A i \in 1 .. Pending(p - 1) :
                   data[r][Base(p - 1) + i - 1] = CapturedInputs(Settled(p - 1) + i)

\* No buffer is registered between a capture and the exchange after it, so an
\* entry promised to a captured kernel is the one its input will get.
PromiseKept ==
  \/ LateRegister
  \/ /\ \A p \in 1 .. Len(script) : script[p].op = "register" => Pending(p - 1) = 0
     /\ \A r \in Processes :
          /\ \A i \in 1 .. Len(unreg[r]) : args[r][filled[r] + i].slot = base[r] + i - 1
          /\ \A i \in 1 .. filled[r] :
               /\ args[r][i].slot < base[r]
               /\ data[r][args[r][i].slot] = CapturedInputs(i)

\* Together these are inductive.  What a replayed kernel finds is determined by
\* the script alone, which is why the ranks need not keep up with each other.
TableInv == TableTypeOK /\ InStep /\ GatheredRight /\ TableRight /\ PromiseKept

-----------------------------------------------------------------------------
\* After the exchange, every captured kernel's argument points to an entry
\* that names, for every rank, the input that rank captured in the same
\* call; a graph replayed from now on reduces the right buffers.
CapturedArgsFilled ==
  \A r \in Processes : \A i \in 1 .. filled[r] :
    /\ args[r][i].slot \in Slots
    /\ data[r][args[r][i].slot] = CapturedInputs(i)

\* allreduce on a stream that is not capturing: the entry registered under the
\* address of the input, or NoSlot and then an exception.  The table is not
\* touched.
EagerArg(r, input) == buffers[r][input]

\* An eager call on a registered buffer finds an entry of the table, however
\* many registrations and exchanges came after; the entry still names the
\* buffers of all ranks that were registered together, and any rank that has
\* registered its own finds the same one.
EagerArgsRight ==
  \A r \in Processes : \A p \in 1 .. at[r] :
    script[p].op = "register" =>
      LET ptrs == script[p].ptrs
          slot == EagerArg(r, ptrs[r])
      IN  /\ slot \in Slots
          /\ data[r][slot] = ptrs
          /\ \A s \in Processes : p <= at[s] => EagerArg(s, ptrs[s]) = slot

\* The tables of two ranks agree entry by entry, however far apart the ranks
\* are, so kernels that meet in a barrier read each other's right buffers.
SameTable ==
  \A r, s \in Processes, k \in Slots :
    data[r][k] # Empty /\ data[s][k] # Empty => data[r][k] = data[s][k]

=============================================================================
