-------------------------- MODULE LamportAllreduce --------------------------
(***************************************************************************)
(* The MNNVL all-reduce (comm/trtllm_mnnvl_allreduce.cuh): one-shot and    *)
(* two-shot kernels that synchronise through the data itself.  A reader    *)
(* polls a cell of its own buffer until it no longer holds the sentinel    *)
(* -0.0; there is no other signal between the ranks.  Each rank has three  *)
(* Lamport buffers.  A call uses one of them and, meanwhile, refills with  *)
(* the sentinel what the previous call dirtied in another one; buffer      *)
(* index and extent of the dirt are kept in buffer_flags.                  *)
(*                                                                         *)
(* A token is one packed element, handled by one CTA.  Stores to the       *)
(* buffers of other ranks (and multicast stores to one's own) become       *)
(* visible some time after they are issued: net holds those under way.     *)
(* Calls of both kinds and any number of tokens follow each other on the   *)
(* same workspace, in the same order on all ranks.                         *)
(***************************************************************************)
EXTENDS Integers, FiniteSets, Sequences

CONSTANTS WorldSize,
          Programs,         \* sequences of calls to consider, [kind, tokens]
          MaxTokens,        \* the largest number of tokens of a call
          CellsPerBuffer,   \* bytesPerBuffer, in cells
          Resident          \* CTAs that a GPU runs at a time

Kinds == {"oneshot", "twoshot", "twoshot_norm"}

NumBuffers == 3             \* sNumLamportBuffers
NumStages == 2              \* MNNVLTwoShotStage::NUM_STAGES
SCATTER == 0
BROADCAST == 1

RoundUp(n, m) == ((n + m - 1) \div m) * m

ASSUME CallsAssumption ==
  /\ Programs \subseteq Seq([kind : Kinds, tokens : 1 .. MaxTokens])
  /\ WorldSize \in Nat \ {0} /\ Resident \in Nat \ {0}
  /\ MaxTokens \in Nat \ {0} /\ CellsPerBuffer \in Nat

\* What is_buffer_size_sufficient demands, for each kind of call, of a buffer
\* whose size the workspace has rounded to a multiple of the stages.
ASSUME BufferAssumption ==
  /\ CellsPerBuffer % NumStages = 0
  /\ \A p \in Programs : \A k \in DOMAIN p :
       IF p[k].kind = "oneshot"
         THEN p[k].tokens * WorldSize <= CellsPerBuffer
         ELSE NumStages * RoundUp(p[k].tokens, WorldSize) <= CellsPerBuffer

Ranks == 0 .. WorldSize - 1
Tokens == 0 .. MaxTokens - 1
Addresses == 0 .. NumBuffers * CellsPerBuffer - 1

\* The CTAs of the two-shot call's second kernel (rmsNormLamport) are
\* numbered after those of the first kernel.
Ctas == 0 .. 2 * MaxTokens - 1
IsNorm(c) == c >= MaxTokens
TokenOf(c) == c % MaxTokens

VARIABLES
  program,  \* the calls each rank makes, the same on every rank
  call,     \* call[r]: calls that are over on rank r
  flags,    \* flags[r]: buffer_flags, in the memory of rank r
  buffer,   \* buffer[r]: the three Lamport buffers of rank r
  net,      \* the stores under way
  pc,       \* pc[r][c]: where CTA c of rank r is
  reg,      \* reg[r][c]: the flags as the CTA read them
  out       \* out[r][t]: the terms of the sum that rank r put out for token t

vars == <<program, call, flags, buffer, net, pc, reg, out>>

\* A cell is known by the terms (call, rank, token) of the sum it holds; its
\* word is what a poll looks at.
Cell(terms, word) == [terms |-> terms, word |-> word]
Clean == Cell({}, "negzero")
IsLamportDirty(cell) == cell.word = "negzero"   \* still the sentinel

Terms == (1 .. Len(program)) \X Ranks \X Tokens
CellValues == [terms : SUBSET Terms, word : {"other"}] \cup {Clean}
ProgramCounters == {"off", "ready", "clear0", "reduce", "clear1", "receive",
                    "join", "update", "done"}
Layout == [cur : 0 .. NumBuffers - 1, dirty : 0 .. NumBuffers - 1,
           stages : 0 .. NumStages, clear : [0 .. NumStages - 1 -> 0 .. CellsPerBuffer]]

TypeOK == /\ program \in Programs
          /\ call \in [Ranks -> 0 .. Len(program)]
          /\ flags \in [Ranks -> [layout : Layout, arrived : 0 .. MaxTokens]]
          /\ buffer \in [Ranks -> [Addresses -> CellValues]]
          /\ net \subseteq [from : Ranks, to : Ranks, at : Addresses,
                            value : CellValues \ {Clean}]
          /\ pc \in [Ranks -> [Ctas -> ProgramCounters]]
          /\ reg \in [Ranks -> [Ctas -> Layout]]
          /\ out \in [Ranks -> [Tokens -> SUBSET Terms]]

-----------------------------------------------------------------------------
\* LamportBufferLayout::getStagePtr
StageAddr(stages, index, stage) == (index * stages + stage) * (CellsPerBuffer \div stages)

\* The stage of the dirty buffer that a CTA is to clear: the whole grid
\* clears it, CTA c of n takes every n-th cell.
DirtyCells(layout, stage, c, n) ==
  IF stage < layout.stages
    THEN {StageAddr(layout.stages, layout.dirty, stage) + i :
            i \in {j \in 0 .. layout.clear[stage] - 1 : j % n = c}}
    ELSE {}

\* clearDirtyLamportBuf on rank r for a set of cells.
ClearCells(r, cells) ==
  buffer' = [buffer EXCEPT ![r] = [a \in Addresses |-> IF a \in cells THEN Clean ELSE @[a]]]

\* Payloads that happen to be -0.0: rank 0's input for token 0, and the sum
\* for token 0.  sanitizeLamportPayload turns them into +0.0.
InputWord(r, t) == IF r = 0 /\ t = 0 THEN "negzero" ELSE "other"
SumWord(t) == IF t = 0 THEN "negzero" ELSE "other"
\* Mutant: payloads are stored as they are.
SanitizeNothing(cell) == cell

Sanitize(cell) == [cell EXCEPT !.word = "other"]

Current(r) == program[call[r] + 1]
Kind(r) == Current(r).kind
NumTokens(r) == Current(r).tokens
Input(r, t) == Sanitize(Cell({<<call[r] + 1, r, t>>}, InputWord(r, t)))
TermsOf(cells) == UNION {c.terms : c \in cells}
SumOf(t, cells) == Sanitize(Cell(TermsOf(cells), SumWord(t)))

\* Where a CTA finds a token's cells, in the buffer with the given index.
OneshotAddr(index, t, s) == StageAddr(1, index, 0) + t * WorldSize + s
ScatterAddr(index, t, s) ==
  StageAddr(NumStages, index, SCATTER) + (t \div WorldSize) * WorldSize + s
BroadcastAddr(index, t) == StageAddr(NumStages, index, BROADCAST) + t
Owner(t) == t % WorldSize    \* destRank

Store(r, s, at, value) == [from |-> r, to |-> s, at |-> at, value |-> value]

\* Mutant: the extent of the scatter stage without the rounding to whole groups.
NextLayoutNoRounding(layout, kind, tokens) ==
  [cur |-> (layout.cur + 1) % NumBuffers,
   dirty |-> layout.cur,
   stages |-> IF kind = "oneshot" THEN 1 ELSE NumStages,
   clear |-> [stage \in 0 .. NumStages - 1 |->
                IF kind = "oneshot"
                  THEN IF stage = 0 THEN tokens * WorldSize ELSE 0 ELSE tokens]]

\* The flags a call leaves for the next one; the argument of waitAndUpdate.
NextLayout(layout, kind, tokens) ==
  [cur |-> (layout.cur + 1) % NumBuffers,
   dirty |-> layout.cur,
   stages |-> IF kind = "oneshot" THEN 1 ELSE NumStages,
   clear |-> [stage \in 0 .. NumStages - 1 |->
                IF kind = "oneshot"
                  THEN IF stage = 0 THEN tokens * WorldSize ELSE 0
                  ELSE IF stage = SCATTER THEN RoundUp(tokens, WorldSize) ELSE tokens]]

-----------------------------------------------------------------------------
FirstLayout == [cur |-> 0, dirty |-> 2, stages |-> 0,
                clear |-> [stage \in 0 .. NumStages - 1 |-> 0]]

Init == /\ program \in Programs
        /\ call = [r \in Ranks |-> 0]
        /\ flags = [r \in Ranks |-> [layout |-> FirstLayout, arrived |-> 0]]
        /\ buffer = [r \in Ranks |-> [a \in Addresses |-> Clean]]
        /\ net = {}
        /\ pc = [r \in Ranks |-> [c \in Ctas |-> "off"]]
        /\ reg = [r \in Ranks |-> [c \in Ctas |-> FirstLayout]]
        /\ out = [r \in Ranks |-> [t \in Tokens |-> {}]]

\* The CTAs of the kernel that CTA c belongs to: 0 .. n - 1, or the second
\* kernel's MaxTokens .. MaxTokens + n - 1, for n tokens.
MainCtas(r) == {c \in Ctas : c < NumTokens(r)}
NormCtas(r) == IF Kind(r) = "twoshot_norm"
                 THEN {c \in Ctas : IsNorm(c) /\ TokenOf(c) < NumTokens(r)} ELSE {}

\* CTAs are dispatched in order, at most Resident of them at a time.
CanStart(r, c) ==
  /\ pc[r][c] = "ready"
  /\ \A d \in Ctas : d < c => pc[r][d] # "ready"
  /\ Cardinality({d \in Ctas : pc[r][d] \notin {"off", "ready", "done"}}) < Resident

Goto(r, c, label) == pc' = [pc EXCEPT ![r][c] = label]
ReadFlags(r, c) == reg' = [reg EXCEPT ![r][c] = flags[r].layout]
CtaArrive(r) == flags' = [flags EXCEPT ![r].arrived = @ + 1]

\* The next call's first kernel starts: the kernels of the call before are
\* over (cudaGridDependencySynchronize, which every CTA calls first).
Launch(r) ==
  /\ call[r] < Len(program)
  /\ \A c \in Ctas : pc[r][c] = "off"
  /\ pc' = [pc EXCEPT ![r] = [c \in Ctas |-> IF c \in MainCtas(r) THEN "ready" ELSE "off"]]
  /\ out' = [out EXCEPT ![r] = [t \in Tokens |-> {}]]
  /\ UNCHANGED <<program, call, flags, buffer, net, reg>>

\* oneshotAllreduceFusionKernel: multicast the token's input to all ranks,
\* then arrive.
SendOneshot(r, c) ==
  /\ Kind(r) = "oneshot" /\ CanStart(r, c)
  /\ ReadFlags(r, c)
  /\ net' = net \cup {Store(r, s, OneshotAddr(flags[r].layout.cur, TokenOf(c), r),
                            Input(r, TokenOf(c))) : s \in Ranks}
  /\ CtaArrive(r)
  /\ Goto(r, c, "clear0")
  /\ UNCHANGED <<program, call, buffer, out>>

\* Mutant: the one-shot kernel clears the stages it uses itself, the first.
ClearAllOneStage(r, c) ==
  /\ Kind(r) = "oneshot" /\ pc[r][c] = "clear0"
  /\ ClearCells(r, DirtyCells(reg[r][c], 0, c, NumTokens(r)))
  /\ Goto(r, c, "receive")
  /\ UNCHANGED <<program, call, flags, net, reg, out>>

\* The CTA's share of all stages of the dirty buffer (stageIdx = -1).
ClearAll(r, c) ==
  /\ Kind(r) = "oneshot" /\ pc[r][c] = "clear0"
  /\ ClearCells(r, UNION {DirtyCells(reg[r][c], stage, c, NumTokens(r)) :
                            stage \in 0 .. NumStages - 1})
  /\ Goto(r, c, "receive")
  /\ UNCHANGED <<program, call, flags, net, reg, out>>

\* Poll the slots of the other ranks; the own term comes from a register.
ReceiveOneshot(r, c) ==
  LET t == TokenOf(c)
      cells == {buffer[r][OneshotAddr(reg[r][c].cur, t, s)] : s \in Ranks \ {r}}
  IN  /\ Kind(r) = "oneshot" /\ pc[r][c] = "receive"
      /\ \A cell \in cells : ~IsLamportDirty(cell)
      /\ out' = [out EXCEPT ![r][t] = TermsOf(cells \cup {Input(r, t)})]
      /\ Goto(r, c, IF c = 0 THEN "update" ELSE "done")
      /\ UNCHANGED <<program, call, flags, buffer, net, reg>>

\* twoshotAllreduceKernel: the input goes to the token's owner.
Scatter(r, c) ==
  LET t == TokenOf(c)
  IN  /\ Kind(r) # "oneshot" /\ ~IsNorm(c) /\ CanStart(r, c)
      /\ ReadFlags(r, c)
      /\ net' = net \cup {Store(r, Owner(t), ScatterAddr(flags[r].layout.cur, t, r),
                                Input(r, t))}
      /\ Goto(r, c, "clear0")
      /\ UNCHANGED <<program, call, flags, buffer, out>>

ClearScatter(r, c) ==
  /\ Kind(r) # "oneshot" /\ pc[r][c] = "clear0"
  /\ ClearCells(r, DirtyCells(reg[r][c], SCATTER, c, NumTokens(r)))
  /\ Goto(r, c, IF Owner(TokenOf(c)) = r THEN "reduce" ELSE "clear1")
  /\ UNCHANGED <<program, call, flags, net, reg, out>>

\* The owner polls all terms of its token and multicasts the sum.
ReduceBroadcast(r, c) ==
  LET t == TokenOf(c)
      cells == {buffer[r][ScatterAddr(reg[r][c].cur, t, s)] : s \in Ranks}
  IN  /\ pc[r][c] = "reduce"
      /\ \A cell \in cells : ~IsLamportDirty(cell)
      /\ net' = net \cup {Store(r, s, BroadcastAddr(reg[r][c].cur, t), SumOf(t, cells)) :
                            s \in Ranks}
      /\ Goto(r, c, "clear1")
      /\ UNCHANGED <<program, call, flags, buffer, reg, out>>

\* Without a fused RMSNorm the CTA then arrives and waits for the results.
ClearBroadcast(r, c) ==
  /\ pc[r][c] = "clear1"
  /\ ClearCells(r, DirtyCells(reg[r][c], BROADCAST, c, NumTokens(r)))
  /\ IF Kind(r) = "twoshot" THEN CtaArrive(r) /\ Goto(r, c, "receive")
                            ELSE UNCHANGED flags /\ Goto(r, c, "done")
  /\ UNCHANGED <<program, call, net, reg, out>>

\* With a fused RMSNorm a second kernel waits for them; it may start when
\* every CTA of the first has triggered (programmatic dependent launch).
LaunchNorm(r) ==
  /\ call[r] < Len(program)
  /\ NormCtas(r) # {} /\ \A c \in NormCtas(r) : pc[r][c] = "off"
  /\ \A c \in MainCtas(r) : pc[r][c] \notin {"off", "ready"}
  /\ pc' = [pc EXCEPT ![r] = [c \in Ctas |-> IF c \in NormCtas(r) THEN "ready" ELSE @[c]]]
  /\ UNCHANGED <<program, call, flags, buffer, net, reg, out>>

NormArrive(r, c) == /\ IsNorm(c) /\ CanStart(r, c)
                    /\ ReadFlags(r, c)
                    /\ CtaArrive(r)
                    /\ Goto(r, c, "receive")
                    /\ UNCHANGED <<program, call, buffer, net, out>>

\* Poll the broadcast sum of the token.
ReceiveBroadcast(r, c) ==
  LET t == TokenOf(c)
      cell == buffer[r][BroadcastAddr(reg[r][c].cur, t)]
  IN  /\ Kind(r) # "oneshot" /\ pc[r][c] = "receive"
      /\ ~IsLamportDirty(cell)
      /\ out' = [out EXCEPT ![r][t] = cell.terms]
      /\ Goto(r, c, IF IsNorm(c) THEN "join" ELSE IF c = 0 THEN "update" ELSE "done")
      /\ UNCHANGED <<program, call, flags, buffer, net, reg>>

\* The second kernel waits for the end of the first.
JoinFirstKernel(r, c) ==
  /\ pc[r][c] = "join"
  /\ \A d \in MainCtas(r) : pc[r][d] = "done"
  /\ Goto(r, c, IF TokenOf(c) = 0 THEN "update" ELSE "done")
  /\ UNCHANGED <<program, call, flags, buffer, net, reg, out>>

\* Mutants: the arrivals are not waited for; they are not reset.
WaitAndUpdateNoWait(r, c) ==
  /\ pc[r][c] = "update"
  /\ flags' = [flags EXCEPT ![r] =
                 [layout |-> NextLayout(reg[r][c], Kind(r), NumTokens(r)), arrived |-> 0]]
  /\ Goto(r, c, "done")
  /\ UNCHANGED <<program, call, buffer, net, reg, out>>
WaitAndUpdateNoReset(r, c) ==
  /\ pc[r][c] = "update"
  /\ flags[r].arrived >= NumTokens(r)
  /\ flags' = [flags EXCEPT ![r].layout = NextLayout(reg[r][c], Kind(r), NumTokens(r))]
  /\ Goto(r, c, "done")
  /\ UNCHANGED <<program, call, buffer, net, reg, out>>

\* waitAndUpdate: the first thread of the grid waits until every CTA arrived,
\* then hands the flags to the next call.
WaitAndUpdate(r, c) ==
  /\ pc[r][c] = "update"
  /\ flags[r].arrived >= NumTokens(r)
  /\ flags' = [flags EXCEPT ![r] =
                 [layout |-> NextLayout(reg[r][c], Kind(r), NumTokens(r)), arrived |-> 0]]
  /\ Goto(r, c, "done")
  /\ UNCHANGED <<program, call, buffer, net, reg, out>>

\* The call's kernels are over; what they stored is visible to their own GPU.
Complete(r) ==
  /\ call[r] < Len(program)
  /\ \A c \in MainCtas(r) \cup NormCtas(r) : pc[r][c] = "done"
  /\ \A m \in net : ~(m.from = r /\ m.to = r)
  /\ call' = [call EXCEPT ![r] = @ + 1]
  /\ pc' = [pc EXCEPT ![r] = [c \in Ctas |-> "off"]]
  /\ UNCHANGED <<program, flags, buffer, net, reg, out>>

Deliver(m) == /\ net' = net \ {m}
              /\ buffer' = [buffer EXCEPT ![m.to][m.at] = m.value]
              /\ UNCHANGED <<program, call, flags, pc, reg, out>>

Finished == (\A r \in Ranks : call[r] = Len(program)) /\ UNCHANGED vars

CtaStep(r, c) ==
  /\ call[r] < Len(program)
  /\ \/ SendOneshot(r, c) \/ ClearAll(r, c) \/ ReceiveOneshot(r, c)
     \/ Scatter(r, c) \/ ClearScatter(r, c) \/ ReduceBroadcast(r, c)
     \/ ClearBroadcast(r, c) \/ NormArrive(r, c) \/ ReceiveBroadcast(r, c)
     \/ JoinFirstKernel(r, c) \/ WaitAndUpdate(r, c)

Next == \/ \E r \in Ranks : Launch(r) \/ LaunchNorm(r) \/ Complete(r)
        \/ \E r \in Ranks, c \in Ctas : CtaStep(r, c)
        \/ \E m \in net : Deliver(m)
        \/ Finished

Spec == Init /\ [][Next]_vars

\* Launches follow each other on the stream, resident CTAs are scheduled, and
\* stores become visible: something happens as long as anything can.  Nobody
\* runs for ever without getting on, so this stands for fairness to each.
FairSpec == Spec /\ WF_vars(Next)

-----------------------------------------------------------------------------
\* What the ranks store in a call: each its input for each token, to all ranks
\* or to the token's owner, who then stores the sum to all.
Ways == {"oneshot", "scatter", "broadcast"}
Packets ==
  {p \in [way : Ways, call : 1 .. Len(program), token : Tokens, from : Ranks] :
     /\ p.token < program[p.call].tokens
     /\ (p.way = "oneshot") <=> (program[p.call].kind = "oneshot")
     /\ p.way = "broadcast" => p.from = Owner(p.token)}

SumTerms(k, t) == {<<k, s, t>> : s \in Ranks}
Content(p) == Cell(IF p.way = "broadcast" THEN SumTerms(p.call, p.token)
                   ELSE {<<p.call, p.from, p.token>>}, "other")
GoesTo(p, r) == p.way = "scatter" => Owner(p.token) = r
BufferOf(k) == (k - 1) % NumBuffers
Place(p) == CASE p.way = "oneshot" -> OneshotAddr(BufferOf(p.call), p.token, p.from)
              [] p.way = "scatter" -> ScatterAddr(BufferOf(p.call), p.token, p.from)
              [] p.way = "broadcast" -> BroadcastAddr(BufferOf(p.call), p.token)

\* The packet was stored: its CTA went past that step, or the call is over.
Started == {"clear0", "reduce", "clear1", "receive", "update", "done"}
Reduced == {"clear1", "receive", "update", "done"}
Issued(p) ==
  \/ call[p.from] >= p.call
  \/ /\ call[p.from] = p.call - 1
     /\ pc[p.from][p.token] \in IF p.way = "broadcast" THEN Reduced ELSE Started

\* In its current call rank r has polled the packet's cell; has put out token t.
Busy(r) == pc[r][0] # "off"
HasPutOut(r, t) == IF Kind(r) = "twoshot_norm"
                     THEN pc[r][MaxTokens + t] \in {"join", "update", "done"}
                     ELSE pc[r][t] \in {"update", "done"}
Polled(r, p) == CASE p.way = "oneshot" -> p.from # r /\ HasPutOut(r, p.token)
                  [] p.way = "scatter" -> pc[r][p.token] \in Reduced
                  [] p.way = "broadcast" -> HasPutOut(r, p.token)

\* Which CTAs run, and where they can be.
MainSteps(kind) == CASE kind = "oneshot" -> {"ready", "clear0", "receive", "update", "done"}
                     [] kind = "twoshot" -> {"ready"} \cup Started
                     [] kind = "twoshot_norm" -> {"ready", "clear0", "reduce", "clear1", "done"}
CtasRight ==
  \A r \in Ranks :
    /\ ~Busy(r) => \A c \in Ctas : pc[r][c] = "off"
    /\ Busy(r) =>
         /\ call[r] < Len(program)
         /\ \A c \in MainCtas(r) : /\ pc[r][c] \in MainSteps(Kind(r))
                                   /\ pc[r][c] = "reduce" => Owner(c) = r
                                   /\ pc[r][c] = "update" => c = 0
         /\ \A c \in NormCtas(r) :
              /\ pc[r][c] \in {"off", "ready", "receive", "join", "update", "done"}
              /\ pc[r][c] = "update" => c = MaxTokens
              /\ pc[r][c] # "off" => \A d \in MainCtas(r) : pc[r][d] # "ready"
         /\ \A c \in Ctas \ (MainCtas(r) \cup NormCtas(r)) : pc[r][c] = "off"

\* The CTAs that have arrived, and the one that then updates the flags.
Arriving(r) == IF Kind(r) = "twoshot_norm" THEN NormCtas(r) ELSE MainCtas(r)
HasArrived(r) ==
  {c \in Arriving(r) :
     pc[r][c] \in CASE Kind(r) = "oneshot" -> Started
                     [] Kind(r) = "twoshot" -> {"receive", "update", "done"}
                     [] Kind(r) = "twoshot_norm" -> {"receive", "join", "update", "done"}}
Updated(r) == Busy(r) /\ pc[r][IF Kind(r) = "twoshot_norm" THEN MaxTokens ELSE 0] = "done"

\* The flags after n calls.
LayoutAfter(n) ==
  IF n = 0 THEN FirstLayout
  ELSE NextLayout([cur |-> BufferOf(n)], program[n].kind, program[n].tokens)

FlagsRight ==
  \A r \in Ranks :
    /\ flags[r].layout = LayoutAfter(IF Updated(r) THEN call[r] + 1 ELSE call[r])
    /\ flags[r].arrived = IF Busy(r) /\ ~Updated(r) THEN Cardinality(HasArrived(r)) ELSE 0
    /\ Updated(r) => HasArrived(r) = Arriving(r)
    /\ \A c \in Ctas : pc[r][c] \notin {"off", "ready"} => reg[r][c] = LayoutAfter(call[r])

\* A call is over on a rank only when everything was stored in it by everybody.
CallsTogether == \A r \in Ranks, p \in Packets : p.call <= call[r] => Issued(p)

\* What is under way is of calls that are not over where it goes, and goes into
\* a cell that holds the sentinel.
NetRight ==
  \A m \in net :
    /\ buffer[m.to][m.at] = Clean
    /\ \E p \in Packets : /\ p.call > call[m.to] /\ Issued(p) /\ GoesTo(p, m.to)
                          /\ m = Store(p.from, m.to, Place(p), Content(p))

\* What a buffer holds is of the call before, of this one or of the next.
BufferRight ==
  LET packets == Packets IN
  \A r \in Ranks, a \in Addresses : buffer[r][a] # Clean =>
    \E p \in packets : /\ p.call >= call[r] /\ Issued(p) /\ GoesTo(p, r)
                      /\ Place(p) = a /\ buffer[r][a] = Content(p)

\* What a CTA has cleared stays clear until the call is over, and what it has
\* polled stays there.
HasCleared(r, c, stage) ==
  pc[r][c] \in IF stage = 0 THEN Started \ {"clear0"} ELSE {"receive", "update", "done"}
ClearedRight ==
  \A r \in Ranks : Busy(r) =>
    \A c \in MainCtas(r), stage \in 0 .. NumStages - 1 : HasCleared(r, c, stage) =>
      \A a \in DirtyCells(LayoutAfter(call[r]), stage, c, NumTokens(r)) : buffer[r][a] = Clean
PolledRight ==
  \A r \in Ranks : Busy(r) =>
    \A p \in Packets : p.call = call[r] + 1 /\ GoesTo(p, r) /\ Polled(r, p) =>
      buffer[r][Place(p)] # Clean

OutRight ==
  \A r \in Ranks :
    /\ Busy(r) => \A t \in Tokens :
         out[r][t] = IF t < NumTokens(r) /\ HasPutOut(r, t) THEN SumTerms(call[r] + 1, t) ELSE {}
    /\ ~Busy(r) /\ call[r] > 0 =>
         \A t \in 0 .. program[call[r]].tokens - 1 : out[r][t] = SumTerms(call[r], t)

\* Together these are inductive.
IInv == /\ TypeOK /\ CtasRight /\ FlagsRight /\ CallsTogether /\ NetRight
        /\ BufferRight /\ ClearedRight /\ PolledRight /\ OutRight

-----------------------------------------------------------------------------
Idle(r) == \A c \in Ctas : pc[r][c] = "off"
CallOf(term) == term[1]

\* What a rank puts out for a token of a call is the sum of that call's inputs,
\* one of each rank, and there is one for every token when the call is over: no
\* poll of ReceiveOneshot, ReduceBroadcast or ReceiveBroadcast ends on what an
\* earlier call left behind, or reads a later call's store.
ResultCorrect ==
  \A r \in Ranks :
    IF Idle(r)
      THEN call[r] > 0 => \A t \in 0 .. program[call[r]].tokens - 1 :
                            out[r][t] = {<<call[r], s, t>> : s \in Ranks}
      ELSE \A t \in Tokens : out[r][t] \in {{}, {<<call[r] + 1, s, t>> : s \in Ranks}}

\* A store lands only in a cell that holds the sentinel: the cell was cleared
\* by its own rank, which takes no part in the protocol of the writer, before
\* the data of the next call that uses the buffer arrives (three buffers).
StoreFindsSentinel ==
  [][\A m \in net \ net' : IsLamportDirty(buffer[m.to][m.at])]_vars

\* The cells that the flags hand to the next call for clearing.
Recorded(r) ==
  UNION {{StageAddr(flags[r].layout.stages, flags[r].layout.dirty, stage) + i :
            i \in 0 .. flags[r].layout.clear[stage] - 1} :
         stage \in 0 .. flags[r].layout.stages - 1}

\* The FIXME of clearDirtyLamportBuf ("How to guarantee the correctness?"): in
\* between two calls, whatever their kinds and sizes, every cell that holds the
\* data of a call that is over is one the flags name for clearing, so nothing
\* is left over when a call with another number of stages takes the buffer.
DirtIsRecorded ==
  \A r \in Ranks : Idle(r) =>
    \A a \in Addresses :
      (\E term \in buffer[r][a].terms : CallOf(term) <= call[r]) => a \in Recorded(r)

\* Every rank gets through all its calls: no CTA polls for ever, not even when
\* an input or a sum is the sentinel's own value.
AllCallsEnd == <>(\A r \in Ranks : call[r] = Len(program))
=============================================================================
