----------------------------- MODULE MoeAlltoAll -----------------------------
(***************************************************************************)
(* Dispatch and combine of MoE tokens through a workspace that all ranks   *)
(* map: MoeAlltoAll of flashinfer/comm/trtllm_moe_alltoall.py, the         *)
(* operations of csrc/trtllm_moe_alltoall.cu and the kernels of            *)
(* moeAlltoAllKernels.cu.                                                  *)
(*                                                                         *)
(* Each rank has a row of the workspace: an epoch, one completion flag per *)
(* peer for dispatch and one for combine, receive counters, and space for  *)
(* the payloads.  A round is a dispatch, which copies tokens into the rows *)
(* of the ranks with their experts, and a combine, which copies the        *)
(* outputs back; both wait until the flags of all peers equal the epoch.   *)
(* The host launches kernels asynchronously; checkpoint_prepare unmaps the *)
(* workspace and checkpoint_restore maps and clears it again.              *)
(*                                                                         *)
(* Ranks run the same program of operations, every one at its own pace.    *)
(* Every token goes to every rank that is active in its round.             *)
(***************************************************************************)
EXTENDS Integers, Sequences

CONSTANTS EpSize,       \* number of ranks
          Programs,     \* the programs to consider: sequences of OpType
          MaxTokens,    \* runtime_max_tokens_per_rank is at most this
          FlagCount,    \* values of a flag before it wraps: 2^32
          None

ASSUME SizesAssumption == EpSize \in Nat \ {0} /\ MaxTokens \in Nat \ {0} /\ FlagCount \in Nat \ 0 .. 2

Ranks == 0 .. EpSize - 1

OpType == [kind : {"map", "round", "unmap"},
           max : 1 .. MaxTokens,                \* runtime_max_tokens_per_rank
           tokens : [Ranks -> 0 .. MaxTokens],  \* local_num_tokens
           active : SUBSET Ranks]               \* active_rank_mask

ASSUME ProgramsAssumption == \A p \in Programs :
         p \in Seq(OpType) /\ \A i \in DOMAIN p, r \in Ranks : p[i].tokens[r] <= p[i].max

Flag == 0 .. FlagCount - 1
Cells == 0 .. 2 * EpSize * MaxTokens - 1

VARIABLES
  program,
  host,     \* host[r]: the operation r's host is at and the step within it
  mapped,   \* r has mapped the workspace
  stream,   \* the kernels launched on r and not finished, in order
  done,     \* what the blocks of r's running kernel have done
  epoch,    \* flag_val of r's row
  flags,    \* flags[k][r][q]: q's completion flag for kernel k in r's row
  count,    \* count[r][q]: recv_counters, tokens r received from q
  memory,   \* memory[r][c]: the payload space of r's row
  out       \* what the blocks of r's running combine read

vars == <<program, host, mapped, stream, done, epoch, flags, count, memory, out>>
device == <<stream, done, epoch, flags, count, memory, out>>

Op(i) == program[i]
Kernel(r) == Head(stream[r])
Running(r, k) == stream[r] # <<>> /\ Kernel(r).kind = k
Round(r) == Op(Kernel(r).op)

-----------------------------------------------------------------------------
\* The layout of the payload space: the receive buffer has max rows for each
\* source, then the combine buffer has as many.  Where it begins depends on the
\* max of the round.
\* Mutant: the combine buffer overlays the receive buffer of another rank.
RecvCell(op, q, t) == q * op.max + t
CombineCellOverlaid(op, q, t) == ((q + 1) % EpSize) * op.max + t
CombineCell(op, q, t) == EpSize * op.max + q * op.max + t

\* Mutant: dispatch and combine share their flags.
FlagsOfBoth(k) == "dispatch"
FlagsOf(k) == k

NextEpoch(e) == (e + 1) % FlagCount

Token(i, q, t) == <<i, q, t>>
Output(x, r) == <<x, r>>

Init ==
  /\ program \in Programs
  /\ host = [r \in Ranks |-> [op |-> 1, step |-> 0]]
  /\ mapped = [r \in Ranks |-> FALSE]
  /\ stream = [r \in Ranks |-> <<>>]
  /\ done = [r \in Ranks |-> {}]
  /\ epoch = [r \in Ranks |-> 0]
  /\ flags = [k \in {"dispatch", "combine"} |-> [r \in Ranks |-> [q \in Ranks |-> 0]]]
  /\ count = [r \in Ranks |-> [q \in Ranks |-> 0]]
  /\ memory = [r \in Ranks |-> [c \in Cells |-> None]]
  /\ out = [r \in Ranks |-> {}]

-----------------------------------------------------------------------------
\* The host.
At(r, kind, step) == /\ host[r].op <= Len(program)
                     /\ Op(host[r].op).kind = kind /\ host[r].step = step
NextStep(r) == host' = [host EXCEPT ![r].step = @ + 1]
NextOp(r) == host' = [host EXCEPT ![r] = [op |-> @.op + 1, step |-> 0]]

\* comm.barrier(): all hosts have come to this step.
\* Mutant: no barrier.
NoBarrier(r) == TRUE
Barrier(r) == \A q \in Ranks : \/ host[q].op > host[r].op
                               \/ host[q].op = host[r].op /\ host[q].step >= host[r].step

Launch(r, kinds) == stream' = [stream EXCEPT ![r] =
                      @ \o [i \in DOMAIN kinds |-> [kind |-> kinds[i], op |-> host[r].op]]]

\* dispatch() and combine(): two kernels each.  A rank that is masked off takes
\* no part in the round.
Dispatch(r) ==
  /\ At(r, "round", 0) /\ mapped[r]
  /\ IF r \in Op(host[r].op).active
     THEN Launch(r, <<"prepare_dispatch", "dispatch">>) /\ NextStep(r)
     ELSE NextOp(r) /\ UNCHANGED stream
  /\ UNCHANGED <<program, mapped, done, epoch, flags, count, memory, out>>

Combine(r) ==
  /\ At(r, "round", 1) /\ mapped[r]
  /\ Launch(r, <<"prepare_combine", "combine">>)
  /\ NextOp(r)
  /\ UNCHANGED <<program, mapped, done, epoch, flags, count, memory, out>>

\* torch.cuda.synchronize(), the first step of checkpoint_prepare and _restore.
Synchronized(r) == stream[r] = <<>>

Synchronize(r) ==
  /\ At(r, "unmap", 0) \/ At(r, "map", 0)
  /\ Synchronized(r)
  /\ NextStep(r)
  /\ UNCHANGED <<program, mapped, device>>

\* checkpoint_prepare: a barrier, release the handles, a barrier.
Unmap(r) == /\ At(r, "unmap", 1) /\ Barrier(r)
            /\ mapped' = [mapped EXCEPT ![r] = FALSE]
            /\ NextStep(r)
            /\ UNCHANGED <<program, device>>

\* get_workspace and checkpoint_restore: the ranks exchange handles and map,
\* each clears its own row, and a barrier lets nobody write before that.
Map(r) == /\ At(r, "map", 1) /\ Barrier(r)
          /\ mapped' = [mapped EXCEPT ![r] = TRUE]
          /\ NextStep(r)
          /\ UNCHANGED <<program, device>>

ClearRow(r) ==
  /\ At(r, "map", 2)
  /\ epoch' = [epoch EXCEPT ![r] = 0]
  /\ flags' = [k \in DOMAIN flags |-> [flags[k] EXCEPT ![r] = [q \in Ranks |-> 0]]]
  /\ count' = [count EXCEPT ![r] = [q \in Ranks |-> 0]]
  /\ memory' = [memory EXCEPT ![r] = [c \in Cells |-> None]]
  /\ NextStep(r)
  /\ UNCHANGED <<program, mapped, stream, done, out>>

EndCheckpoint(r) == /\ At(r, "unmap", 2) \/ At(r, "map", 3)
                    /\ Barrier(r)
                    /\ NextOp(r)
                    /\ UNCHANGED <<program, mapped, device>>

-----------------------------------------------------------------------------
\* The kernels.  A block's act on peer q is <<what, block, q>>.
Does(r, act) == act \notin done[r] /\ done' = [done EXCEPT ![r] = @ \cup {act}]
Did(r, what, b) == \A q \in Round(r).active : <<what, b, q>> \in done[r]

Finish(r) == /\ stream' = [stream EXCEPT ![r] = Tail(@)]
             /\ done' = [done EXCEPT ![r] = {}]

\* moeA2APrepareDispatchKernel: a new epoch.
PrepareDispatch(r) ==
  /\ Running(r, "prepare_dispatch")
  /\ epoch' = [epoch EXCEPT ![r] = NextEpoch(@)]
  /\ Finish(r)
  /\ UNCHANGED <<program, host, mapped, flags, count, memory, out>>

\* moeA2ADispatchKernel: the tokens for q go to q's receive buffer.
Send(r, q) ==
  /\ Running(r, "dispatch") /\ Does(r, <<"send", 0, q>>)
  /\ memory' = [memory EXCEPT ![q] = [c \in Cells |->
       IF \E t \in 0 .. Round(r).tokens[r] - 1 : c = RecvCell(Round(r), r, t)
       THEN Token(Kernel(r).op, r, c - RecvCell(Round(r), r, 0)) ELSE @[c]]]
  /\ UNCHANGED <<program, host, mapped, stream, epoch, flags, count, out>>

\* The warp of the last token then tells q how many they are, and that all is
\* there.
SignalDispatch(r, q) ==
  /\ Running(r, "dispatch") /\ Did(r, "send", 0) /\ Does(r, <<"signal", 0, q>>)
  /\ count' = [count EXCEPT ![q][r] = Round(r).tokens[r]]
  /\ flags' = [flags EXCEPT ![FlagsOf("dispatch")][q][r] = epoch[r]]
  /\ UNCHANGED <<program, host, mapped, stream, epoch, memory, out>>

WaitDispatch(r, q) ==
  /\ Running(r, "dispatch") /\ Did(r, "signal", 0) /\ Does(r, <<"wait", 0, q>>)
  /\ flags[FlagsOf("dispatch")][r][q] = epoch[r]
  /\ UNCHANGED <<program, host, mapped, stream, epoch, flags, count, memory, out>>

EndDispatch(r) ==
  /\ Running(r, "dispatch") /\ Did(r, "wait", 0)
  /\ Finish(r)
  /\ UNCHANGED <<program, host, mapped, epoch, flags, count, memory, out>>

\* The experts' outputs for the tokens received, by moeA2APrepareCombineKernel
\* put into r's combine buffer; a new epoch.
PrepareCombine(r) ==
  /\ Running(r, "prepare_combine")
  /\ epoch' = [epoch EXCEPT ![r] = NextEpoch(@)]
  /\ memory' = [memory EXCEPT ![r] = [c \in Cells |->
       IF \E q \in Round(r).active : \E t \in 0 .. count[r][q] - 1 : c = CombineCell(Round(r), q, t)
       THEN LET x == CHOOSE x \in Round(r).active \X (0 .. MaxTokens - 1) :
                       x[2] < count[r][x[1]] /\ c = CombineCell(Round(r), x[1], x[2])
            IN Output(@[RecvCell(Round(r), x[1], x[2])], r)
       ELSE @[c]]]
  /\ Finish(r)
  /\ UNCHANGED <<program, host, mapped, flags, count, out>>

\* moeA2ACombineKernel: one block per token, or a block that only takes part in
\* the synchronization; block 0 signals, every block waits by itself.
Blocks(r) == IF Round(r).tokens[r] = 0 THEN {0} ELSE 0 .. Round(r).tokens[r] - 1

SignalCombine(r, q) ==
  /\ Running(r, "combine") /\ Does(r, <<"signal", 0, q>>)
  /\ flags' = [flags EXCEPT ![FlagsOf("combine")][q][r] = epoch[r]]
  /\ UNCHANGED <<program, host, mapped, stream, epoch, count, memory, out>>

WaitCombine(r, b, q) ==
  /\ Running(r, "combine") /\ b \in Blocks(r)
  /\ b = 0 => Did(r, "signal", 0)
  /\ Does(r, <<"wait", b, q>>)
  /\ flags[FlagsOf("combine")][r][q] = epoch[r]
  /\ UNCHANGED <<program, host, mapped, stream, epoch, flags, count, memory, out>>

\* Block b reads the output that rank q computed for its token.
Read(r, b, q) ==
  /\ Running(r, "combine") /\ b \in 0 .. Round(r).tokens[r] - 1
  /\ Did(r, "wait", b) /\ Does(r, <<"read", b, q>>)
  /\ out' = [out EXCEPT ![r] = @ \cup {<<b, q, memory[q][CombineCell(Round(r), r, b)]>>}]
  /\ UNCHANGED <<program, host, mapped, stream, epoch, flags, count, memory>>

EndCombine(r) ==
  /\ Running(r, "combine")
  /\ \A b \in Blocks(r) : Did(r, IF Round(r).tokens[r] = 0 THEN "wait" ELSE "read", b)
  /\ Finish(r)
  /\ out' = [out EXCEPT ![r] = {}]
  /\ UNCHANGED <<program, host, mapped, epoch, flags, count, memory>>

HostStep(r) == \/ Dispatch(r) \/ Combine(r) \/ Synchronize(r)
               \/ Unmap(r) \/ Map(r) \/ ClearRow(r) \/ EndCheckpoint(r)

DeviceStep(r) ==
  \/ PrepareDispatch(r) \/ EndDispatch(r) \/ PrepareCombine(r) \/ EndCombine(r)
  \/ stream[r] # <<>> /\ \E q \in Round(r).active :
       \/ Send(r, q) \/ SignalDispatch(r, q) \/ WaitDispatch(r, q) \/ SignalCombine(r, q)
       \/ \E b \in 0 .. MaxTokens - 1 : WaitCombine(r, b, q) \/ Read(r, b, q)

Next == \E r \in Ranks : HostStep(r) \/ DeviceStep(r)

Spec == Init /\ [][Next]_vars

\* The hosts run and the blocks of a kernel are scheduled, the first ones first.
FairSpec == Spec /\ \A r \in Ranks : WF_vars(HostStep(r)) /\ WF_vars(DeviceStep(r))

-----------------------------------------------------------------------------
KernelType == [kind : {"prepare_dispatch", "dispatch", "prepare_combine", "combine"},
               op : 1 .. Len(program)]
Acts == {"send", "signal", "wait", "read"} \X (0 .. MaxTokens - 1) \X Ranks

TypeOK ==
  /\ program \in Programs
  /\ host \in [Ranks -> [op : 1 .. Len(program) + 1, step : 0 .. 3]]
  /\ mapped \in [Ranks -> BOOLEAN]
  /\ stream \in [Ranks -> Seq(KernelType)]
  /\ done \in [Ranks -> SUBSET Acts]
  /\ epoch \in [Ranks -> Flag]
  /\ flags \in [{"dispatch", "combine"} -> [Ranks -> [Ranks -> Flag]]]
  /\ count \in [Ranks -> [Ranks -> 0 .. MaxTokens]]
  /\ memory = [r \in Ranks |-> [c \in Cells |-> memory[r][c]]]
  /\ out = [r \in Ranks |-> out[r]]

\* What combine reads for a token is the output that each rank's experts
\* computed for this token in this round: no row was overwritten by a rank that
\* was ahead, or read before it was written.
ResultCorrect ==
  \A r \in Ranks : \A x \in out[r] : x[3] = Output(Token(Kernel(r).op, r, x[1]), x[2])

\* checkpoint_prepare: "Every rank must stop using the workspace before releasing
\* its backing", and get_workspace: "a late memset can erase the peer's first
\* completion epoch".  While a rank has kernels to run, every rank has mapped the
\* workspace and is past the clearing of its row.
WorkspaceReady ==
  \A r, q \in Ranks : stream[r] # <<>> => mapped[q] /\ ~At(q, "map", 2)

Inv == TypeOK /\ WorkspaceReady

-----------------------------------------------------------------------------
\* How far host r is: it came to this step of operation i.
Checkpoint(i) == i <= Len(program) /\ Op(i).kind # "round"
LastStep(i) == CASE Op(i).kind = "map" -> 3 [] Op(i).kind = "unmap" -> 2 [] OTHER -> 1
Reached(r, i, step) == \/ host[r].op > i
                       \/ host[r].op = i /\ host[r].step >= step

\* The two barriers of a checkpoint operation.
HostsMeet ==
  \A r \in Ranks :
    /\ host[r].step <= IF host[r].op <= Len(program) THEN LastStep(host[r].op) ELSE 0
    /\ \A q \in Ranks : \A i \in DOMAIN program : Checkpoint(i) =>
         /\ Reached(r, i, 2) => Reached(q, i, 1)
         /\ host[r].op > i => Reached(q, i, LastStep(i))

\* A kernel waits for its turn only while its host has not synchronized.
StreamsRight ==
  \A r \in Ranks :
    /\ stream[r] # <<>> /\ Checkpoint(host[r].op) => host[r].step = 0
    /\ At(r, "round", 1) => r \in Op(host[r].op).active
    /\ \A n \in DOMAIN stream[r] : LET i == stream[r][n].op IN
         /\ Op(i).kind = "round" /\ r \in Op(i).active
         /\ Reached(r, i, 1)
         /\ \A c \in i .. host[r].op - 1 : ~Checkpoint(c)

\* The workspace is mapped when the last checkpoint operation was a map.
LastPerformed(r, i) ==
  Checkpoint(i) /\ Reached(r, i, 2) /\ \A c \in i + 1 .. Len(program) : Checkpoint(c) => ~Reached(r, c, 2)
MappedRight ==
  \A r \in Ranks :
    mapped[r] <=> \E i \in DOMAIN program : LastPerformed(r, i) /\ Op(i).kind = "map"
OpsMapped ==
  \A r \in Ranks : \A n \in DOMAIN stream[r] : \E i \in 1 .. stream[r][n].op :
    LastPerformed(r, i) /\ Op(i).kind = "map"

\* Inductive, whatever the program.
Ready == TypeOK /\ HostsMeet /\ StreamsRight /\ MappedRight /\ OpsMapped

\* The place of a rank's device in the program: four kernels for each operation,
\* those of the other operations being void.
StageOf == [prepare_dispatch |-> 0, dispatch |-> 1, prepare_combine |-> 2, combine |-> 3]
Place(r) == 4 * host[r].op + (IF At(r, "round", 1) THEN 2 ELSE 0) - Len(stream[r])
OpNow(r) == Place(r) \div 4
Stage(r) == Place(r) % 4

InOrder ==
  \A r \in Ranks : \A n \in DOMAIN stream[r] :
    4 * stream[r][n].op + StageOf[stream[r][n].kind] = Place(r) + n - 1

\* The acts of a kernel in their order.
DoneRight ==
  \A r \in Ranks : \A b \in 0 .. MaxTokens - 1, q \in Ranks :
    /\ <<"send", b, q>> \in done[r] => Running(r, "dispatch")
    /\ <<"read", b, q>> \in done[r] => Running(r, "combine") /\ Did(r, "wait", b)
    /\ <<"signal", b, q>> \in done[r] =>
         (Running(r, "dispatch") /\ Did(r, "send", 0)) \/ Running(r, "combine")
    /\ <<"wait", b, q>> \in done[r] =>
         /\ Running(r, "dispatch") \/ Running(r, "combine")
         /\ b = 0 => Did(r, "signal", 0)

\* The last operation in which q sent to r, signalled r, put outputs out.
SentTo(q, r) == IF Stage(q) > 1 \/ (Stage(q) = 1 /\ <<"send", 0, r>> \in done[q])
                  THEN OpNow(q) ELSE OpNow(q) - 1
Dispatched(q, r) == IF Stage(q) > 1 \/ (Stage(q) = 1 /\ <<"signal", 0, r>> \in done[q])
                      THEN OpNow(q) ELSE OpNow(q) - 1
Combined(q, r) == IF Stage(q) = 3 /\ <<"signal", 0, r>> \in done[q]
                    THEN OpNow(q) ELSE OpNow(q) - 1
Prepared(q) == IF Stage(q) = 3 THEN OpNow(q) ELSE OpNow(q) - 1

\* The rounds after the map m, while no later checkpoint was performed, and the
\* ranks that take part in them.
Current(m) == /\ Op(m).kind = "map"
              /\ \A q \in Ranks : /\ Reached(q, m, 1)
                                  /\ \A c \in m + 1 .. Len(program) :
                                       Checkpoint(c) => ~Reached(q, c, 2)
Cleared(r, m) == Reached(r, m, 3)
Member(r, m) == m + 1 <= Len(program) /\ Op(m + 1).kind = "round" /\ r \in Op(m + 1).active

DispatchEpoch(i, m) == IF i <= m THEN 0 ELSE (2 * (i - m) - 1) % FlagCount
CombineEpoch(i, m) == IF i <= m THEN 0 ELSE (2 * (i - m)) % FlagCount

EpochRight(r, m) ==
  epoch[r] = IF Stage(r) = 3 THEN CombineEpoch(OpNow(r), m)
             ELSE IF Stage(r) > 0 THEN DispatchEpoch(OpNow(r), m)
             ELSE CombineEpoch(OpNow(r) - 1, m)

\* What r's row holds from rank q, and what r knows of q.
RowRight(r, q, m) ==
  /\ flags["dispatch"][r][q] = DispatchEpoch(Dispatched(q, r), m)
  /\ flags["combine"][r][q] = CombineEpoch(Combined(q, r), m)
  /\ Dispatched(q, r) > m => count[r][q] = Op(Dispatched(q, r)).tokens[q]
  /\ SentTo(q, r) > m => \A t \in 0 .. Op(SentTo(q, r)).tokens[q] - 1 :
       memory[r][RecvCell(Op(m + 1), q, t)] = Token(SentTo(q, r), q, t)
  /\ Prepared(r) > m => \A t \in 0 .. Op(Prepared(r)).tokens[q] - 1 :
       memory[r][CombineCell(Op(m + 1), q, t)] = Output(Token(Prepared(r), q, t), r)

Met(r, q, m) ==
  /\ OpNow(r) > m + 1 => Combined(q, r) >= OpNow(r) - 1
  /\ Stage(r) > 1 \/ (Stage(r) = 1 /\ <<"wait", 0, q>> \in done[r]) => Dispatched(q, r) >= OpNow(r)
  /\ \A b \in 0 .. MaxTokens - 1 :
       Stage(r) = 3 /\ <<"wait", b, q>> \in done[r] => Combined(q, r) >= OpNow(r)

Exchange ==
  \A m \in DOMAIN program : Current(m) =>
    \A r \in Ranks : Cleared(r, m) /\ Member(r, m) =>
      /\ EpochRight(r, m)
      /\ \A q \in Ranks : Member(q, m) => RowRight(r, q, m) /\ Met(r, q, m)

\* Rounds with no checkpoint between them are of one max and one set of ranks.
Uniform ==
  \A p \in Programs : \A i, j \in DOMAIN p :
    i < j /\ (\A c \in i .. j : p[c].kind = "round") =>
      p[i].max = p[j].max /\ p[i].active = p[j].active

\* Inductive for programs that are Uniform.
IInv == /\ Inv /\ Ready /\ InOrder /\ DoneRight /\ Exchange
        /\ ResultCorrect /\ \A r \in Ranks : out[r] # {} => Running(r, "combine")

\* No rank spins in a kernel or waits in a barrier for ever, also when a peer
\* that was masked off takes part again after the workspace was mapped anew, and
\* when epochs wrap.
AllOpsEnd == <>[](\A r \in Ranks : host[r].op > Len(program) /\ stream[r] = <<>>)
=============================================================================
