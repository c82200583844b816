------------------------- MODULE MoeAlltoAll_proofs -------------------------
(***************************************************************************)
(* Theorems about MoeAlltoAll: whatever operations the ranks perform, no   *)
(* rank has a kernel to run while a peer has not mapped and cleared its    *)
(* row, and combine returns the outputs of its own round.                  *)
(***************************************************************************)
EXTENDS MoeAlltoAll, SequenceTheorems, TLAPS

-----------------------------------------------------------------------------
\* The program.
LEMMA ProgramFacts ==
  ASSUME program \in Programs
  PROVE  /\ Len(program) \in Nat /\ DOMAIN program = 1 .. Len(program)
         /\ \A i \in 1 .. Len(program) :
              /\ Op(i).kind \in {"map", "round", "unmap"}
              /\ Op(i).max \in Nat /\ Op(i).max > 0 /\ Op(i).max <= MaxTokens
              /\ Op(i).active \subseteq Ranks
              /\ \A r \in Ranks : /\ Op(i).tokens[r] \in Nat
                                  /\ Op(i).tokens[r] <= Op(i).max
                                  /\ Op(i).tokens[r] <= MaxTokens
<1>1. /\ program \in Seq(OpType)
      /\ \A i \in DOMAIN program, r \in Ranks : program[i].tokens[r] <= program[i].max
  BY ProgramsAssumption
<1>2. Len(program) \in Nat /\ DOMAIN program = 1 .. Len(program)
  BY <1>1
<1>3. \A i \in 1 .. Len(program) : program[i] \in OpType
  BY <1>1, ElementOfSeq
<1>4. MaxTokens \in Nat
  BY SizesAssumption
<1> QED BY <1>1, <1>2, <1>3, <1>4 DEF OpType, Op

LEMMA RankFacts == /\ EpSize \in Nat /\ EpSize > 0 /\ MaxTokens \in Nat /\ MaxTokens > 0
                   /\ FlagCount \in Nat /\ FlagCount > 2 /\ 0 \in Flag
                   /\ \A q \in Ranks : q \in Nat /\ q < EpSize
BY SizesAssumption DEF Ranks, Flag

LEMMA HostType ==
  ASSUME TypeOK, NEW r \in Ranks
  PROVE  /\ host[r].op \in Nat /\ host[r].op >= 1 /\ host[r].op <= Len(program) + 1
         /\ host[r].step \in 0 .. 3
         /\ program \in Programs /\ Len(program) \in Nat
<1>1. program \in Programs /\ Len(program) \in Nat
  BY ProgramFacts DEF TypeOK
<1>2. host[r] \in [op : 1 .. Len(program) + 1, step : 0 .. 3]
  BY DEF TypeOK
<1> QED BY <1>1, <1>2

LEMMA StreamType ==
  ASSUME TypeOK, NEW r \in Ranks
  PROVE  /\ stream[r] \in Seq(KernelType) /\ Len(stream[r]) \in Nat
         /\ DOMAIN stream[r] = 1 .. Len(stream[r])
         /\ stream[r] # <<>> <=> Len(stream[r]) > 0
         /\ \A n \in 1 .. Len(stream[r]) :
              /\ stream[r][n].op \in 1 .. Len(program)
              /\ stream[r][n].kind \in {"prepare_dispatch", "dispatch", "prepare_combine", "combine"}
         /\ stream[r] # <<>> => Kernel(r) = stream[r][1]
<1>1. stream[r] \in Seq(KernelType)
  BY DEF TypeOK
<1>2. \A n \in 1 .. Len(stream[r]) : stream[r][n] \in KernelType
  BY <1>1, ElementOfSeq
<1>3. /\ Len(stream[r]) \in Nat /\ DOMAIN stream[r] = 1 .. Len(stream[r])
      /\ stream[r] # <<>> <=> Len(stream[r]) > 0
      /\ stream[r] # <<>> => Head(stream[r]) = stream[r][1]
  BY <1>1, EmptySeq
<1>4. \A n \in 1 .. Len(stream[r]) :
              /\ stream[r][n].op \in 1 .. Len(program)
              /\ stream[r][n].kind \in {"prepare_dispatch", "dispatch", "prepare_combine", "combine"}
  BY <1>2 DEF KernelType
<1> QED BY <1>1, <1>3, <1>4 DEF Kernel

LEMMA AppendTwo ==
  ASSUME NEW S, NEW w \in Seq(S), NEW x \in S, NEW y \in S
  PROVE  /\ w \o <<x, y>> \in Seq(S)
         /\ Len(w \o <<x, y>>) = Len(w) + 2 /\ Len(w) \in Nat
         /\ \A n \in 1 .. Len(w) : (w \o <<x, y>>)[n] = w[n]
         /\ (w \o <<x, y>>)[Len(w) + 1] = x /\ (w \o <<x, y>>)[Len(w) + 2] = y
<1>1. w \o <<x, y>> \in Seq(S)
  OBVIOUS
<1>2. Len(w \o <<x, y>>) = Len(w) + 2 /\ Len(w) \in Nat
  OBVIOUS
<1>3. \A n \in 1 .. Len(w) : (w \o <<x, y>>)[n] = w[n]
  OBVIOUS
<1>4. (w \o <<x, y>>)[Len(w) + 1] = x
  OBVIOUS
<1>5. (w \o <<x, y>>)[Len(w) + 2] = y
  OBVIOUS
<1> QED BY <1>1, <1>2, <1>3, <1>4, <1>5

-----------------------------------------------------------------------------
\* What the actions do to hosts and streams.
LEMMA NextStepEffect ==
  ASSUME TypeOK, NEW r \in Ranks, NextStep(r)
  PROVE  /\ host'[r].op = host[r].op /\ host'[r].step = host[r].step + 1
         /\ \A q \in Ranks : q # r => host'[q] = host[q]
         /\ host[r].step < 3 => host' \in [Ranks -> [op : 1 .. Len(program) + 1, step : 0 .. 3]]
<1>1. host \in [Ranks -> [op : 1 .. Len(program) + 1, step : 0 .. 3]]
  BY DEF TypeOK
<1>2. host[r] \in [op : 1 .. Len(program) + 1, step : 0 .. 3]
  BY <1>1
<1>3. host' = [host EXCEPT ![r] = [host[r] EXCEPT !.step = host[r].step + 1]]
  BY DEF NextStep
<1>4. host'[r] = [host[r] EXCEPT !.step = host[r].step + 1]
  BY <1>1, <1>3
<1>5. \A q \in Ranks : q # r => host'[q] = host[q]
  BY <1>1, <1>3
<1>6. host'[r].op = host[r].op /\ host'[r].step = host[r].step + 1
  BY <1>2, <1>4
<1>7. ASSUME host[r].step < 3
      PROVE  host' \in [Ranks -> [op : 1 .. Len(program) + 1, step : 0 .. 3]]
  <2>1. host[r].step + 1 \in 0 .. 3
    BY <1>2, <1>7
  <2>2. [host[r] EXCEPT !.step = host[r].step + 1] \in [op : 1 .. Len(program) + 1, step : 0 .. 3]
    BY <1>2, <2>1
  <2> QED BY <1>1, <1>3, <2>2
<1> QED BY <1>5, <1>6, <1>7

LEMMA NextOpEffect ==
  ASSUME TypeOK, NEW r \in Ranks, NextOp(r), host[r].op <= Len(program)
  PROVE  /\ host'[r].op = host[r].op + 1 /\ host'[r].step = 0
         /\ \A q \in Ranks : q # r => host'[q] = host[q]
         /\ host' \in [Ranks -> [op : 1 .. Len(program) + 1, step : 0 .. 3]]
<1>1. host \in [Ranks -> [op : 1 .. Len(program) + 1, step : 0 .. 3]]
  BY DEF TypeOK
<1>2. host[r] \in [op : 1 .. Len(program) + 1, step : 0 .. 3]
  BY <1>1
<1>3. host' = [host EXCEPT ![r] = [op |-> host[r].op + 1, step |-> 0]]
  BY DEF NextOp
<1>4. host'[r] = [op |-> host[r].op + 1, step |-> 0]
  BY <1>1, <1>3
<1>5. \A q \in Ranks : q # r => host'[q] = host[q]
  BY <1>1, <1>3
<1>6. host[r].op + 1 \in 1 .. Len(program) + 1
  BY <1>2, HostType
<1> QED BY <1>1, <1>3, <1>4, <1>5, <1>6

LEMMA LaunchEffect ==
  ASSUME TypeOK, NEW r \in Ranks, host[r].op <= Len(program),
         NEW a \in {"prepare_dispatch", "dispatch", "prepare_combine", "combine"},
         NEW b \in {"prepare_dispatch", "dispatch", "prepare_combine", "combine"},
         Launch(r, <<a, b>>)
  PROVE  /\ stream' \in [Ranks -> Seq(KernelType)]
         /\ \A q \in Ranks : q # r => stream'[q] = stream[q]
         /\ Len(stream'[r]) = Len(stream[r]) + 2
         /\ \A n \in 1 .. Len(stream[r]) : stream'[r][n] = stream[r][n]
         /\ stream'[r][Len(stream[r]) + 1] = [kind |-> a, op |-> host[r].op]
         /\ stream'[r][Len(stream[r]) + 2] = [kind |-> b, op |-> host[r].op]
<1>0. host[r].op \in 1 .. Len(program)
  BY HostType
<1> DEFINE x == [kind |-> a, op |-> host[r].op]
           y == [kind |-> b, op |-> host[r].op]
<1>1. x \in KernelType /\ y \in KernelType
  BY <1>0 DEF KernelType
<1>2. [i \in DOMAIN <<a, b>> |-> [kind |-> <<a, b>>[i], op |-> host[r].op]] = <<x, y>>
  OBVIOUS
<1>3. stream' = [stream EXCEPT ![r] = stream[r] \o <<x, y>>]
  BY <1>2 DEF Launch
<1>4. stream \in [Ranks -> Seq(KernelType)]
  BY DEF TypeOK
<1> HIDE DEF x, y
<1>5. stream'[r] = stream[r] \o <<x, y>> /\ \A q \in Ranks : q # r => stream'[q] = stream[q]
  BY <1>3, <1>4
<1>6. stream[r] \in Seq(KernelType)
  BY <1>4
<1>7. stream' \in [Ranks -> Seq(KernelType)]
  BY <1>1, <1>3, <1>4, <1>6, AppendTwo
<1> QED BY <1>1, <1>5, <1>6, <1>7, AppendTwo DEF x, y

LEMMA FinishEffect ==
  ASSUME TypeOK, NEW r \in Ranks, stream[r] # <<>>, Finish(r)
  PROVE  /\ stream' \in [Ranks -> Seq(KernelType)]
         /\ \A q \in Ranks : q # r => stream'[q] = stream[q] /\ done'[q] = done[q]
         /\ Len(stream'[r]) = Len(stream[r]) - 1 /\ Len(stream'[r]) \in Nat
         /\ \A n \in 1 .. Len(stream'[r]) : stream'[r][n] = stream[r][n + 1]
         /\ done'[r] = {} /\ done' \in [Ranks -> SUBSET Acts]
<1>1. stream \in [Ranks -> Seq(KernelType)] /\ done \in [Ranks -> SUBSET Acts]
  BY DEF TypeOK
<1>2. stream' = [stream EXCEPT ![r] = Tail(stream[r])] /\ done' = [done EXCEPT ![r] = {}]
  BY DEF Finish
<1>3. stream[r] \in Seq(KernelType) /\ Len(stream[r]) \in Nat /\ Len(stream[r]) > 0
  BY StreamType
<1>4. /\ Tail(stream[r]) \in Seq(KernelType)
      /\ Len(Tail(stream[r])) = Len(stream[r]) - 1
      /\ \A n \in 1 .. Len(stream[r]) - 1 : Tail(stream[r])[n] = stream[r][n + 1]
  BY <1>3, HeadTailProperties
<1>5. stream'[r] = Tail(stream[r]) /\ done'[r] = {}
  BY <1>1, <1>2
<1>6. \A q \in Ranks : q # r => stream'[q] = stream[q] /\ done'[q] = done[q]
  BY <1>1, <1>2
<1>7. stream' \in [Ranks -> Seq(KernelType)] /\ done' \in [Ranks -> SUBSET Acts]
  BY <1>1, <1>2, <1>4
<1> QED BY <1>3, <1>4, <1>5, <1>6, <1>7

-----------------------------------------------------------------------------
\* Types.
LEMMA KernelFacts ==
  ASSUME TypeOK, NEW r \in Ranks, stream[r] # <<>>
  PROVE  /\ Kernel(r).op \in 1 .. Len(program) /\ Kernel(r).op \in Nat
         /\ Kernel(r).kind \in {"prepare_dispatch", "dispatch", "prepare_combine", "combine"}
         /\ Round(r).active \subseteq Ranks
         /\ Round(r).max \in Nat /\ Round(r).max > 0 /\ Round(r).max <= MaxTokens
         /\ \A q \in Ranks : /\ Round(r).tokens[q] \in Nat
                             /\ Round(r).tokens[q] <= Round(r).max
                             /\ Round(r).tokens[q] <= MaxTokens
<1>1. Len(stream[r]) > 0 /\ Len(stream[r]) \in Nat /\ Kernel(r) = stream[r][1]
  BY StreamType
<1>2. 1 \in 1 .. Len(stream[r])
  BY <1>1
<1>3. /\ Kernel(r).op \in 1 .. Len(program)
      /\ Kernel(r).kind \in {"prepare_dispatch", "dispatch", "prepare_combine", "combine"}
  BY <1>1, <1>2, StreamType
<1>4. program \in Programs
  BY DEF TypeOK
<1> QED BY <1>3, <1>4, ProgramFacts DEF Round

LEMMA InitType == Init => TypeOK
<1> SUFFICES ASSUME Init PROVE TypeOK
  OBVIOUS
<1>1. program \in Programs /\ Len(program) \in Nat
  BY ProgramFacts DEF Init
<1>2. host \in [Ranks -> [op : 1 .. Len(program) + 1, step : 0 .. 3]]
  <2>1. 1 \in 1 .. Len(program) + 1 /\ 0 \in 0 .. 3
    BY <1>1
  <2>2. [op |-> 1, step |-> 0] \in [op : 1 .. Len(program) + 1, step : 0 .. 3]
    BY <2>1
  <2> QED BY <2>2 DEF Init
<1>3. stream \in [Ranks -> Seq(KernelType)]
  BY EmptySeq DEF Init
<1>4. epoch \in [Ranks -> Flag] /\ mapped \in [Ranks -> BOOLEAN] /\ done \in [Ranks -> SUBSET Acts]
  BY RankFacts DEF Init
<1>5. flags \in [{"dispatch", "combine"} -> [Ranks -> [Ranks -> Flag]]]
  BY RankFacts DEF Init
<1>6. count \in [Ranks -> [Ranks -> 0 .. MaxTokens]]
  <2>1. 0 \in 0 .. MaxTokens
    BY RankFacts
  <2> QED BY <2>1 DEF Init
<1>7. memory = [r \in Ranks |-> [c \in Cells |-> memory[r][c]]]
  <2>1. \A r \in Ranks : [c \in Cells |-> None] = [c \in Cells |-> [d \in Cells |-> None][c]]
    OBVIOUS
  <2> QED BY <2>1 DEF Init
<1>8. out = [r \in Ranks |-> out[r]]
  BY DEF Init
<1> QED BY <1>1, <1>2, <1>3, <1>4, <1>5, <1>6, <1>7, <1>8 DEF TypeOK

LEMMA NextEpochType == ASSUME NEW e \in Flag PROVE NextEpoch(e) \in Flag
BY RankFacts DEF NextEpoch, Flag

LEMMA WrittenType ==
  ASSUME TypeOK, NEW q \in Ranks, NEW f, memory' = [memory EXCEPT ![q] = f],
         f = [c \in Cells |-> f[c]]
  PROVE  /\ memory' = [r \in Ranks |-> [c \in Cells |-> memory'[r][c]]]
         /\ memory'[q] = f /\ \A r \in Ranks : r # q => memory'[r] = memory[r]
<1>1. memory = [r \in Ranks |-> [c \in Cells |-> memory[r][c]]]
  BY DEF TypeOK
<1>2. memory'[q] = f /\ \A r \in Ranks : r # q => memory'[r] = memory[r]
  BY <1>1
<1>3. DOMAIN memory' = Ranks
  BY <1>1
<1>4. \A r \in Ranks : memory'[r] = [c \in Cells |-> memory'[r][c]]
  <2> TAKE r \in Ranks
  <2>1. CASE r = q
    BY <1>2, <2>1
  <2>2. CASE r # q
    <3>1. memory[r] = [c \in Cells |-> memory[r][c]]
      BY <1>1
    <3> QED BY <1>2, <2>2, <3>1
  <2> QED BY <2>1, <2>2
<1>5. memory' = [r \in Ranks |-> memory'[r]]
  BY <1>1
<1> QED BY <1>2, <1>4, <1>5

LEMMA DoesType ==
  ASSUME TypeOK, NEW r \in Ranks, NEW what \in {"send", "signal", "wait", "read"},
         NEW b \in 0 .. MaxTokens - 1, NEW q \in Ranks, Does(r, <<what, b, q>>)
  PROVE  /\ done' \in [Ranks -> SUBSET Acts]
         /\ done'[r] = done[r] \cup {<<what, b, q>>}
         /\ \A p \in Ranks : p # r => done'[p] = done[p]
<1>1. done \in [Ranks -> SUBSET Acts] /\ <<what, b, q>> \in Acts
  BY DEF TypeOK, Acts
<1>2. done' = [done EXCEPT ![r] = done[r] \cup {<<what, b, q>>}]
  BY DEF Does
<1> QED BY <1>1, <1>2

LEMMA HostTypeStep ==
  ASSUME TypeOK, NEW r \in Ranks, HostStep(r) PROVE TypeOK'
<1>1. CASE Dispatch(r)
  <2>1. host[r].op <= Len(program) /\ host[r].step = 0
    BY <1>1 DEF Dispatch, At
  <2>2. /\ program' = program /\ mapped' = mapped /\ done' = done /\ epoch' = epoch
        /\ flags' = flags /\ count' = count /\ memory' = memory /\ out' = out
    BY <1>1 DEF Dispatch
  <2>3. CASE r \in Op(host[r].op).active
    <3>1. Launch(r, <<"prepare_dispatch", "dispatch">>) /\ NextStep(r)
      BY <1>1, <2>3 DEF Dispatch
    <3>2. stream' \in [Ranks -> Seq(KernelType)]
      BY <2>1, <3>1, LaunchEffect
    <3>3. host' \in [Ranks -> [op : 1 .. Len(program) + 1, step : 0 .. 3]]
      BY <2>1, <3>1, NextStepEffect
    <3> QED BY <2>2, <3>2, <3>3 DEF TypeOK, KernelType
  <2>4. CASE r \notin Op(host[r].op).active
    <3>1. NextOp(r) /\ stream' = stream
      BY <1>1, <2>4 DEF Dispatch
    <3>2. host' \in [Ranks -> [op : 1 .. Len(program) + 1, step : 0 .. 3]]
      BY <2>1, <3>1, NextOpEffect
    <3> QED BY <2>2, <3>1, <3>2 DEF TypeOK, KernelType
  <2> QED BY <2>3, <2>4
<1>2. CASE Combine(r)
  <2>1. host[r].op <= Len(program)
    BY <1>2 DEF Combine, At
  <2>2. /\ program' = program /\ mapped' = mapped /\ done' = done /\ epoch' = epoch
        /\ flags' = flags /\ count' = count /\ memory' = memory /\ out' = out
        /\ Launch(r, <<"prepare_combine", "combine">>) /\ NextOp(r)
    BY <1>2 DEF Combine
  <2>3. stream' \in [Ranks -> Seq(KernelType)]
    BY <2>1, <2>2, LaunchEffect
  <2>4. host' \in [Ranks -> [op : 1 .. Len(program) + 1, step : 0 .. 3]]
    BY <2>1, <2>2, NextOpEffect
  <2> QED BY <2>2, <2>3, <2>4 DEF TypeOK, KernelType
<1>3. CASE Synchronize(r)
  <2>1. /\ program' = program /\ mapped' = mapped /\ device' = device /\ NextStep(r)
        /\ host[r].step < 3
    BY <1>3 DEF Synchronize, At
  <2>2. host' \in [Ranks -> [op : 1 .. Len(program) + 1, step : 0 .. 3]]
    BY <2>1, NextStepEffect
  <2> QED BY <2>1, <2>2 DEF TypeOK, KernelType, device
<1>4. CASE Unmap(r) \/ Map(r)
  <2>0. mapped' \in [Ranks -> BOOLEAN]
    BY <1>4 DEF Unmap, Map, TypeOK
  <2>1. /\ program' = program /\ mapped' \in [Ranks -> BOOLEAN] /\ device' = device /\ NextStep(r)
        /\ host[r].step < 3
    BY <1>4, <2>0 DEF Unmap, Map, At
  <2>2. host' \in [Ranks -> [op : 1 .. Len(program) + 1, step : 0 .. 3]]
    BY <2>1, NextStepEffect
  <2> QED BY <2>1, <2>2 DEF TypeOK, KernelType, device
<1>5. CASE ClearRow(r)
  <2>1. /\ program' = program /\ mapped' = mapped /\ stream' = stream /\ done' = done
        /\ out' = out /\ NextStep(r) /\ host[r].step < 3
    BY <1>5 DEF ClearRow, At
  <2>2. host' \in [Ranks -> [op : 1 .. Len(program) + 1, step : 0 .. 3]]
    BY <2>1, NextStepEffect
  <2>3. epoch' \in [Ranks -> Flag]
    BY <1>5, RankFacts DEF ClearRow, TypeOK
  <2>4. flags' \in [{"dispatch", "combine"} -> [Ranks -> [Ranks -> Flag]]]
    <3>1. [q \in Ranks |-> 0] \in [Ranks -> Flag]
      BY RankFacts
    <3>2. flags \in [{"dispatch", "combine"} -> [Ranks -> [Ranks -> Flag]]]
      BY DEF TypeOK
    <3>3. flags' = [k \in {"dispatch", "combine"} |-> [flags[k] EXCEPT ![r] = [q \in Ranks |-> 0]]]
      BY <1>5, <3>2 DEF ClearRow
    <3> QED BY <3>1, <3>2, <3>3
  <2>5. count' \in [Ranks -> [Ranks -> 0 .. MaxTokens]]
    <3>1. [q \in Ranks |-> 0] \in [Ranks -> 0 .. MaxTokens]
      BY RankFacts
    <3> QED BY <1>5, <3>1 DEF ClearRow, TypeOK
  <2>6. memory' = [q \in Ranks |-> [c \in Cells |-> memory'[q][c]]]
    <3> DEFINE f == [c \in Cells |-> None]
    <3>1. f = [c \in Cells |-> f[c]] /\ memory' = [memory EXCEPT ![r] = f]
      BY <1>5 DEF ClearRow
    <3> HIDE DEF f
    <3> QED BY <3>1, WrittenType
  <2> QED BY <2>1, <2>2, <2>3, <2>4, <2>5, <2>6 DEF TypeOK, KernelType
<1>6. CASE EndCheckpoint(r)
  <2>1. /\ program' = program /\ mapped' = mapped /\ device' = device /\ NextOp(r)
        /\ host[r].op <= Len(program)
    BY <1>6 DEF EndCheckpoint, At
  <2>2. host' \in [Ranks -> [op : 1 .. Len(program) + 1, step : 0 .. 3]]
    BY <2>1, NextOpEffect
  <2> QED BY <2>1, <2>2 DEF TypeOK, KernelType, device
<1> QED BY <1>1, <1>2, <1>3, <1>4, <1>5, <1>6 DEF HostStep

LEMMA DeviceTypeStep ==
  ASSUME TypeOK, NEW r \in Ranks, DeviceStep(r) PROVE TypeOK'
<1>1. CASE PrepareDispatch(r)
  <2>1. /\ program' = program /\ host' = host /\ mapped' = mapped /\ flags' = flags
        /\ count' = count /\ memory' = memory /\ out' = out /\ stream[r] # <<>> /\ Finish(r)
    BY <1>1 DEF PrepareDispatch, Running
  <2>2. epoch' \in [Ranks -> Flag]
    BY <1>1, NextEpochType DEF PrepareDispatch, TypeOK
  <2>3. stream' \in [Ranks -> Seq(KernelType)] /\ done' \in [Ranks -> SUBSET Acts]
    BY <2>1, FinishEffect
  <2> QED BY <2>1, <2>2, <2>3 DEF TypeOK, KernelType
<1>2. CASE EndDispatch(r)
  <2>1. /\ program' = program /\ host' = host /\ mapped' = mapped /\ flags' = flags /\ epoch' = epoch
        /\ count' = count /\ memory' = memory /\ out' = out /\ stream[r] # <<>> /\ Finish(r)
    BY <1>2 DEF EndDispatch, Running
  <2>2. stream' \in [Ranks -> Seq(KernelType)] /\ done' \in [Ranks -> SUBSET Acts]
    BY <2>1, FinishEffect
  <2> QED BY <2>1, <2>2 DEF TypeOK, KernelType
<1>3. CASE PrepareCombine(r)
  <2>1. /\ program' = program /\ host' = host /\ mapped' = mapped /\ flags' = flags
        /\ count' = count /\ out' = out /\ stream[r] # <<>> /\ Finish(r)
    BY <1>3 DEF PrepareCombine, Running
  <2>2. epoch' \in [Ranks -> Flag]
    BY <1>3, NextEpochType DEF PrepareCombine, TypeOK
  <2>3. stream' \in [Ranks -> Seq(KernelType)] /\ done' \in [Ranks -> SUBSET Acts]
    BY <2>1, FinishEffect
  <2>4. memory' = [q \in Ranks |-> [c \in Cells |-> memory'[q][c]]]
    <3>1. PICK f : memory' = [memory EXCEPT ![r] = f] /\ f = [c \in Cells |-> f[c]]
      <4> DEFINE g == [c \in Cells |->
            IF \E q \in Round(r).active : \E t \in 0 .. count[r][q] - 1 : c = CombineCell(Round(r), q, t)
            THEN LET x == CHOOSE x \in Round(r).active \X (0 .. MaxTokens - 1) :
                            x[2] < count[r][x[1]] /\ c = CombineCell(Round(r), x[1], x[2])
                 IN Output(memory[r][RecvCell(Round(r), x[1], x[2])], r)
            ELSE memory[r][c]]
      <4>1. memory' = [memory EXCEPT ![r] = g]
        BY <1>3 DEF PrepareCombine
      <4>2. g = [c \in Cells |-> g[c]]
        OBVIOUS
      <4> HIDE DEF g
      <4> QED BY <4>1, <4>2
    <3> QED BY <3>1, WrittenType
  <2> QED BY <2>1, <2>2, <2>3, <2>4 DEF TypeOK, KernelType
<1>4. CASE EndCombine(r)
  <2>1. /\ program' = program /\ host' = host /\ mapped' = mapped /\ flags' = flags /\ epoch' = epoch
        /\ count' = count /\ memory' = memory /\ stream[r] # <<>> /\ Finish(r)
    BY <1>4 DEF EndCombine, Running
  <2>2. stream' \in [Ranks -> Seq(KernelType)] /\ done' \in [Ranks -> SUBSET Acts]
    BY <2>1, FinishEffect
  <2>3. out' = [q \in Ranks |-> out'[q]]
    BY <1>4 DEF EndCombine, TypeOK
  <2> QED BY <2>1, <2>2, <2>3 DEF TypeOK, KernelType
<1>5. ASSUME stream[r] # <<>>, NEW q \in Round(r).active, Send(r, q)
      PROVE  TypeOK'
  <2>1. /\ program' = program /\ host' = host /\ mapped' = mapped /\ stream' = stream
        /\ flags' = flags /\ epoch' = epoch /\ count' = count /\ out' = out
        /\ Does(r, <<"send", 0, q>>) /\ q \in Ranks /\ 0 \in 0 .. MaxTokens - 1
    BY <1>5, KernelFacts, RankFacts DEF Send
  <2>2. done' \in [Ranks -> SUBSET Acts]
    BY <2>1, DoesType
  <2>3. memory' = [p \in Ranks |-> [c \in Cells |-> memory'[p][c]]]
    <3> DEFINE f == [c \in Cells |->
           IF \E t \in 0 .. Round(r).tokens[r] - 1 : c = RecvCell(Round(r), r, t)
           THEN Token(Kernel(r).op, r, c - RecvCell(Round(r), r, 0)) ELSE memory[q][c]]
    <3>1. memory' = [memory EXCEPT ![q] = f] /\ f = [c \in Cells |-> f[c]]
      BY <1>5 DEF Send
    <3> HIDE DEF f
    <3> QED BY <2>1, <3>1, WrittenType
  <2> QED BY <2>1, <2>2, <2>3 DEF TypeOK, KernelType
<1>6. ASSUME stream[r] # <<>>, NEW q \in Round(r).active, SignalDispatch(r, q)
      PROVE  TypeOK'
  <2>1. /\ program' = program /\ host' = host /\ mapped' = mapped /\ stream' = stream
        /\ epoch' = epoch /\ memory' = memory /\ out' = out
        /\ Does(r, <<"signal", 0, q>>) /\ q \in Ranks /\ 0 \in 0 .. MaxTokens - 1
    BY <1>6, KernelFacts, RankFacts DEF SignalDispatch
  <2>2. done' \in [Ranks -> SUBSET Acts]
    BY <2>1, DoesType
  <2>3. count' \in [Ranks -> [Ranks -> 0 .. MaxTokens]]
    <3>1. Round(r).tokens[r] \in 0 .. MaxTokens
      BY <1>6, KernelFacts, RankFacts
    <3> QED BY <1>6, <2>1, <3>1 DEF SignalDispatch, TypeOK
  <2>4. flags' \in [{"dispatch", "combine"} -> [Ranks -> [Ranks -> Flag]]]
    <3>1. epoch[r] \in Flag
      BY DEF TypeOK
    <3> QED BY <1>6, <2>1, <3>1 DEF SignalDispatch, TypeOK, FlagsOf
  <2> QED BY <2>1, <2>2, <2>3, <2>4 DEF TypeOK, KernelType
<1>7. ASSUME stream[r] # <<>>, NEW q \in Round(r).active, WaitDispatch(r, q)
      PROVE  TypeOK'
  <2>1. /\ program' = program /\ host' = host /\ mapped' = mapped /\ stream' = stream
        /\ epoch' = epoch /\ flags' = flags /\ count' = count /\ memory' = memory /\ out' = out
        /\ Does(r, <<"wait", 0, q>>) /\ q \in Ranks /\ 0 \in 0 .. MaxTokens - 1
    BY <1>7, KernelFacts, RankFacts DEF WaitDispatch
  <2>2. done' \in [Ranks -> SUBSET Acts]
    BY <2>1, DoesType
  <2> QED BY <2>1, <2>2 DEF TypeOK, KernelType
<1>8. ASSUME stream[r] # <<>>, NEW q \in Round(r).active, SignalCombine(r, q)
      PROVE  TypeOK'
  <2>1. /\ program' = program /\ host' = host /\ mapped' = mapped /\ stream' = stream
        /\ epoch' = epoch /\ count' = count /\ memory' = memory /\ out' = out
        /\ Does(r, <<"signal", 0, q>>) /\ q \in Ranks /\ 0 \in 0 .. MaxTokens - 1
    BY <1>8, KernelFacts, RankFacts DEF SignalCombine
  <2>2. done' \in [Ranks -> SUBSET Acts]
    BY <2>1, DoesType
  <2>3. flags' \in [{"dispatch", "combine"} -> [Ranks -> [Ranks -> Flag]]]
    <3>1. epoch[r] \in Flag
      BY DEF TypeOK
    <3> QED BY <1>8, <2>1, <3>1 DEF SignalCombine, TypeOK, FlagsOf
  <2> QED BY <2>1, <2>2, <2>3 DEF TypeOK, KernelType
<1>9. ASSUME stream[r] # <<>>, NEW q \in Round(r).active, NEW b \in 0 .. MaxTokens - 1,
             WaitCombine(r, b, q)
      PROVE  TypeOK'
  <2>1. /\ program' = program /\ host' = host /\ mapped' = mapped /\ stream' = stream
        /\ epoch' = epoch /\ flags' = flags /\ count' = count /\ memory' = memory /\ out' = out
        /\ Does(r, <<"wait", b, q>>) /\ q \in Ranks
    BY <1>9, KernelFacts DEF WaitCombine
  <2>2. done' \in [Ranks -> SUBSET Acts]
    BY <2>1, DoesType
  <2> QED BY <2>1, <2>2 DEF TypeOK, KernelType
<1>10. ASSUME stream[r] # <<>>, NEW q \in Round(r).active, NEW b \in 0 .. MaxTokens - 1,
              Read(r, b, q)
       PROVE  TypeOK'
  <2>1. /\ program' = program /\ host' = host /\ mapped' = mapped /\ stream' = stream
        /\ epoch' = epoch /\ flags' = flags /\ count' = count /\ memory' = memory
        /\ Does(r, <<"read", b, q>>) /\ q \in Ranks
    BY <1>10, KernelFacts DEF Read
  <2>2. done' \in [Ranks -> SUBSET Acts]
    BY <2>1, DoesType
  <2>3. out' = [p \in Ranks |-> out'[p]]
    BY <1>10 DEF Read, TypeOK
  <2> QED BY <2>1, <2>2, <2>3 DEF TypeOK, KernelType
<1> QED BY <1>1, <1>2, <1>3, <1>4, <1>5, <1>6, <1>7, <1>8, <1>9, <1>10 DEF DeviceStep

-----------------------------------------------------------------------------
\* The hosts.  Host r goes on to the next step of its operation or to the next
\* operation.
StepsOn(r) == /\ host'[r].op = host[r].op /\ host'[r].step = host[r].step + 1
              /\ host[r].step < LastStep(host[r].op)
OpDone(r) == /\ host'[r].op = host[r].op + 1 /\ host'[r].step = 0
             /\ Checkpoint(host[r].op) => host[r].step = LastStep(host[r].op)
Advances(r) == /\ program' = program /\ host[r].op <= Len(program)
               /\ \A q \in Ranks : q # r => host'[q] = host[q]
               /\ StepsOn(r) \/ OpDone(r)
               /\ Checkpoint(host[r].op) /\ (host[r].step = 1 \/ OpDone(r)) => Barrier(r)

LEMMA KindFacts ==
  ASSUME program \in Programs, NEW i \in Nat, 1 <= i, i <= Len(program)
  PROVE  /\ Op(i).kind \in {"map", "round", "unmap"}
         /\ Checkpoint(i) <=> Op(i).kind # "round"
         /\ Op(i).kind = "map" => LastStep(i) = 3
         /\ Op(i).kind = "unmap" => LastStep(i) = 2
         /\ Op(i).kind = "round" => LastStep(i) = 1
BY ProgramFacts DEF Checkpoint, LastStep

LEMMA HostAdvances ==
  ASSUME TypeOK, NEW r \in Ranks, HostStep(r)
  PROVE  Advances(r)
<1> DEFINE i == host[r].op
<1>0. program \in Programs /\ i \in Nat /\ 1 <= i
  BY HostType
<1> HIDE DEF i
<1>1. CASE Dispatch(r)
  <2>1. i <= Len(program) /\ Op(i).kind = "round" /\ host[r].step = 0 /\ program' = program
    BY <1>1 DEF Dispatch, At, i
  <2>2. ~Checkpoint(i) /\ LastStep(i) = 1
    BY <1>0, <2>1, KindFacts
  <2>3. CASE NextStep(r)
    BY <2>1, <2>2, <2>3, NextStepEffect DEF Advances, StepsOn, i
  <2>4. CASE NextOp(r)
    BY <2>1, <2>2, <2>4, NextOpEffect DEF Advances, OpDone, i
  <2> QED BY <1>1, <2>3, <2>4 DEF Dispatch
<1>2. CASE Combine(r)
  <2>1. /\ i <= Len(program) /\ Op(i).kind = "round" /\ host[r].step = 1 /\ program' = program
        /\ NextOp(r)
    BY <1>2 DEF Combine, At, i
  <2>2. ~Checkpoint(i) /\ LastStep(i) = 1
    BY <1>0, <2>1, KindFacts
  <2> QED BY <2>1, <2>2, NextOpEffect DEF Advances, OpDone, i
<1>3. CASE Synchronize(r)
  <2>1. /\ i <= Len(program) /\ Op(i).kind \in {"map", "unmap"} /\ host[r].step = 0
        /\ program' = program /\ NextStep(r)
    BY <1>3 DEF Synchronize, At, i
  <2>2. LastStep(i) > 0
    BY <1>0, <2>1, KindFacts
  <2>3. StepsOn(r) /\ \A q \in Ranks : q # r => host'[q] = host[q]
    BY <2>1, <2>2, NextStepEffect DEF StepsOn, i
  <2> QED BY <2>1, <2>2, <2>3 DEF Advances, OpDone, StepsOn, i
<1>4. CASE Unmap(r) \/ Map(r)
  <2>1. /\ i <= Len(program) /\ Op(i).kind \in {"map", "unmap"} /\ host[r].step = 1
        /\ program' = program /\ NextStep(r) /\ Barrier(r)
    BY <1>4 DEF Unmap, Map, At, i
  <2>2. LastStep(i) > 1
    BY <1>0, <2>1, KindFacts
  <2>3. StepsOn(r) /\ \A q \in Ranks : q # r => host'[q] = host[q]
    BY <2>1, <2>2, NextStepEffect DEF StepsOn, i
  <2> QED BY <2>1, <2>3 DEF Advances, i
<1>5. CASE ClearRow(r)
  <2>1. /\ i <= Len(program) /\ Op(i).kind = "map" /\ host[r].step = 2
        /\ program' = program /\ NextStep(r)
    BY <1>5 DEF ClearRow, At, i
  <2>2. LastStep(i) = 3
    BY <1>0, <2>1, KindFacts
  <2>3. StepsOn(r) /\ \A q \in Ranks : q # r => host'[q] = host[q]
    BY <2>1, <2>2, NextStepEffect DEF StepsOn, i
  <2> QED BY <2>1, <2>2, <2>3 DEF Advances, StepsOn, OpDone, i
<1>6. CASE EndCheckpoint(r)
  <2>1. /\ i <= Len(program) /\ program' = program /\ NextOp(r) /\ Barrier(r)
        /\ \/ Op(i).kind = "unmap" /\ host[r].step = 2
           \/ Op(i).kind = "map" /\ host[r].step = 3
    BY <1>6 DEF EndCheckpoint, At, i
  <2>2. host[r].step = LastStep(i)
    BY <1>0, <2>1, KindFacts
  <2>3. OpDone(r) /\ \A q \in Ranks : q # r => host'[q] = host[q]
    BY <2>1, <2>2, NextOpEffect DEF OpDone, i
  <2> QED BY <2>1, <2>3 DEF Advances, i
<1> QED BY <1>1, <1>2, <1>3, <1>4, <1>5, <1>6 DEF HostStep

\* What r has reached stays so, and only this step is new.
LEMMA ReachedKept ==
  ASSUME TypeOK, TypeOK', NEW r \in Ranks, Advances(r), NEW q \in Ranks,
         NEW i \in Nat, NEW n \in Nat, Reached(q, i, n)
  PROVE  Reached(q, i, n)'
<1>1. CASE q # r
  BY <1>1 DEF Advances, Reached
<1>2. CASE q = r
  BY <1>2, HostType DEF Advances, Reached, StepsOn, OpDone
<1> QED BY <1>1, <1>2

LEMMA ReachedNew ==
  ASSUME TypeOK, TypeOK', NEW r \in Ranks, Advances(r), NEW q \in Ranks,
         NEW i \in Nat, NEW n \in Nat, Reached(q, i, n)', ~Reached(q, i, n)
  PROVE  /\ q = r
         /\ \/ StepsOn(r) /\ i = host[r].op /\ n = host[r].step + 1
            \/ OpDone(r) /\ i = host[r].op /\ n > host[r].step
            \/ OpDone(r) /\ i = host[r].op + 1 /\ n = 0
<1>1. q = r
  BY DEF Advances, Reached
<1>2. /\ host[r].op \in Nat /\ host[r].step \in Nat
      /\ host[r].op < i \/ (host[r].op = i /\ host[r].step < n)
  BY <1>1, HostType DEF Reached
<1>3. CASE StepsOn(r)
  BY <1>1, <1>2, <1>3 DEF StepsOn, Reached
<1>4. CASE OpDone(r)
  BY <1>1, <1>2, <1>4 DEF OpDone, Reached
<1> QED BY <1>1, <1>3, <1>4 DEF Advances

LEMMA PassedIs ==
  ASSUME TypeOK, NEW q \in Ranks, NEW i \in Nat
  PROVE  host[q].op > i <=> Reached(q, i + 1, 0)
BY HostType DEF Reached

LEMMA CheckpointKept ==
  ASSUME program' = program, NEW i \in Nat
  PROVE  /\ Checkpoint(i)' <=> Checkpoint(i)
         /\ LastStep(i)' = LastStep(i)
BY DEF Checkpoint, LastStep, Op

LEMMA BarrierIs ==
  ASSUME TypeOK, NEW r \in Ranks, Barrier(r), NEW q \in Ranks
  PROVE  Reached(q, host[r].op, host[r].step)
BY DEF Barrier, Reached

LEMMA HostsMeetStep ==
  ASSUME TypeOK, TypeOK', HostsMeet, NEW r \in Ranks, Advances(r)
  PROVE  HostsMeet'
<1>0. /\ program \in Programs /\ program' = program /\ Len(program) \in Nat
      /\ DOMAIN program = 1 .. Len(program)
  BY ProgramFacts DEF TypeOK, Advances
<1> SUFFICES ASSUME NEW x \in Ranks
    PROVE /\ (host[x].step <= IF host[x].op <= Len(program) THEN LastStep(host[x].op) ELSE 0)'
          /\ \A y \in Ranks : \A i \in DOMAIN program : Checkpoint(i)' =>
               /\ Reached(x, i, 2)' => Reached(y, i, 1)'
               /\ host'[x].op > i => Reached(y, i, LastStep(i))'
  BY <1>0 DEF HostsMeet
<1>1. (host[x].step <= IF host[x].op <= Len(program) THEN LastStep(host[x].op) ELSE 0)'
  <2>1. CASE x # r
    <3>1. host'[x] = host[x]
      BY <2>1 DEF Advances
    <3> QED BY <1>0, <3>1 DEF HostsMeet, LastStep, Op
  <2>2. CASE x = r /\ StepsOn(r)
    <3>1. LastStep(host[r].op) \in Nat
      BY DEF LastStep
    <3>2. host'[r].step <= LastStep(host[r].op) /\ host[r].op <= Len(program) /\ host'[r].op = host[r].op
      BY <2>2, <3>1, HostType DEF StepsOn, Advances
    <3> QED BY <1>0, <2>2, <3>2 DEF LastStep, Op
  <2>3. CASE x = r /\ OpDone(r)
    BY <2>3 DEF OpDone, LastStep
  <2> QED BY <2>1, <2>2, <2>3 DEF Advances
<1>2. ASSUME NEW y \in Ranks, NEW i \in DOMAIN program, Checkpoint(i)', Reached(x, i, 2)'
      PROVE  Reached(y, i, 1)'
  <2>1. Checkpoint(i) /\ i \in Nat /\ i <= Len(program)
    BY <1>0, <1>2, CheckpointKept
  <2>2. CASE Reached(x, i, 2)
    BY <2>1, <2>2, ReachedKept DEF HostsMeet
  <2>3. CASE ~Reached(x, i, 2)
    <3>1. x = r /\ i = host[r].op
      BY <1>2, <2>1, <2>3, ReachedNew
    <3>2. StepsOn(r) /\ host[r].step = 1
      <4>1. LastStep(i) >= 2
        BY <1>0, <2>1, KindFacts
      <4>2. \/ StepsOn(r) /\ i = host[r].op /\ 2 = host[r].step + 1
            \/ OpDone(r) /\ 2 > host[r].step
        BY <1>2, <2>1, <2>3, ReachedNew
      <4>3. ~(OpDone(r) /\ 2 > host[r].step)
        BY <2>1, <3>1, <4>1, HostType DEF OpDone, LastStep
      <4> QED BY <4>2, <4>3, HostType
    <3>3. Reached(y, i, 1)
      BY <2>1, <3>1, <3>2, BarrierIs DEF Advances
    <3> QED BY <2>1, <3>3, ReachedKept
  <2> QED BY <2>2, <2>3
<1>3. ASSUME NEW y \in Ranks, NEW i \in DOMAIN program, Checkpoint(i)', host'[x].op > i
      PROVE  Reached(y, i, LastStep(i))'
  <2>1. Checkpoint(i) /\ i \in Nat /\ i <= Len(program) /\ LastStep(i)' = LastStep(i) /\ LastStep(i) \in Nat
    BY <1>0, <1>3, CheckpointKept DEF LastStep
  <2>2. Reached(y, i, LastStep(i))
    <3>1. CASE host[x].op > i
      BY <2>1, <3>1 DEF HostsMeet
    <3>2. CASE ~(host[x].op > i)
      <4>1. x = r /\ OpDone(r) /\ i = host[r].op
        BY <1>3, <2>1, <3>2, HostType DEF Advances, StepsOn, OpDone
      <4>2. Barrier(r) /\ host[r].step = LastStep(i)
        BY <2>1, <4>1 DEF Advances, OpDone
      <4> QED BY <4>1, <4>2, BarrierIs
    <3> QED BY <3>1, <3>2
  <2>3. \A n \in Nat : Reached(y, i, n) => Reached(y, i, n)'
    BY <2>1, ReachedKept
  <2> QED BY <2>1, <2>2, <2>3 DEF Reached
<1> QED BY <1>1, <1>2, <1>3

-----------------------------------------------------------------------------
\* The streams.
KernelRight(r, i) == /\ Op(i).kind = "round" /\ r \in Op(i).active
                     /\ Reached(r, i, 1)
                     /\ \A c \in i .. host[r].op - 1 : ~Checkpoint(c)
StreamRight(r) ==
  /\ stream[r] # <<>> /\ Checkpoint(host[r].op) => host[r].step = 0
  /\ At(r, "round", 1) => r \in Op(host[r].op).active
  /\ \A n \in DOMAIN stream[r] : KernelRight(r, stream[r][n].op)

LEMMA StreamsEach == StreamsRight <=> \A r \in Ranks : StreamRight(r)
BY DEF StreamsRight, StreamRight, KernelRight

LEMMA StreamKept ==
  ASSUME NEW x \in Ranks, StreamRight(x), program' = program, host'[x] = host[x],
         stream'[x] # <<>> => stream[x] # <<>>,
         \A n \in DOMAIN stream'[x] : \E k \in DOMAIN stream[x] : stream'[x][n] = stream[x][k]
  PROVE  StreamRight(x)'
<1>1. \A i : KernelRight(x, i) => KernelRight(x, i)'
  BY DEF KernelRight, Reached, Op, Checkpoint
<1>2. (At(x, "round", 1) => x \in Op(host[x].op).active)'
  BY DEF StreamRight, At, Op
<1>3. (stream[x] # <<>> /\ Checkpoint(host[x].op) => host[x].step = 0)'
  BY DEF StreamRight, Checkpoint, Op
<1>4. \A n \in DOMAIN stream'[x] : KernelRight(x, stream[x][n].op)'
  BY <1>1 DEF StreamRight
<1> QED BY <1>2, <1>3, <1>4 DEF StreamRight

LEMMA LaunchStream ==
  ASSUME TypeOK, TypeOK', NEW r \in Ranks, StreamRight(r), Advances(r),
         At(r, "round", host[r].step), r \in Op(host[r].op).active,
         NEW a \in {"prepare_dispatch", "dispatch", "prepare_combine", "combine"},
         NEW b \in {"prepare_dispatch", "dispatch", "prepare_combine", "combine"},
         Launch(r, <<a, b>>)
  PROVE  StreamRight(r)'
<1>1. PICK i \in Nat : i = host[r].op
  BY HostType
<1>2. PICK k \in Nat : k = Len(stream[r])
  BY StreamType
<1>3. /\ Op(i).kind = "round" /\ r \in Op(i).active /\ i <= Len(program) /\ i >= 1
      /\ ~Checkpoint(i) /\ program' = program
  BY <1>1, HostType DEF At, Checkpoint, Advances
<1>4. /\ Len(stream'[r]) = k + 2
      /\ \A n \in 1 .. k : stream'[r][n] = stream[r][n]
      /\ stream'[r][k + 1].op = i /\ stream'[r][k + 2].op = i
  <2>1. host[r].op <= Len(program)
    BY <1>1, <1>3
  <2>2. /\ Len(stream'[r]) = Len(stream[r]) + 2
        /\ \A n \in 1 .. Len(stream[r]) : stream'[r][n] = stream[r][n]
        /\ stream'[r][Len(stream[r]) + 1] = [kind |-> a, op |-> host[r].op]
        /\ stream'[r][Len(stream[r]) + 2] = [kind |-> b, op |-> host[r].op]
    BY <2>1, LaunchEffect
  <2> QED BY <1>1, <1>2, <2>2
<1>5. DOMAIN stream'[r] = 1 .. k + 2 /\ DOMAIN stream[r] = 1 .. k
  BY <1>2, <1>4, StreamType
<1>6. \/ host'[r].op = i /\ host'[r].step = host[r].step + 1 /\ host[r].step < LastStep(i)
      \/ host'[r].op = i + 1 /\ host'[r].step = 0
  BY <1>1 DEF Advances, StepsOn, OpDone
<1>7. Op(i)' = Op(i) /\ \A c \in Nat : Checkpoint(c)' <=> Checkpoint(c)
  BY <1>3, CheckpointKept DEF Op
<1>8. \A j \in Nat : KernelRight(r, j) => KernelRight(r, j)'
  <2> TAKE j \in Nat
  <2> HAVE KernelRight(r, j)
  <2>1. Reached(r, j, 1)'
    BY ReachedKept DEF KernelRight
  <2>2. \A c \in j .. host'[r].op - 1 : ~Checkpoint(c)
    BY <1>1, <1>3, <1>6 DEF KernelRight
  <2> QED BY <1>3, <1>7, <2>1, <2>2 DEF KernelRight, Op
<1>9. KernelRight(r, i)'
  <2>1. Reached(r, i, 1)'
    BY <1>6, HostType DEF Reached
  <2>2. \A c \in i .. host'[r].op - 1 : ~Checkpoint(c)
    BY <1>3, <1>6
  <2> QED BY <1>3, <1>7, <2>1, <2>2 DEF KernelRight
<1>10. \A n \in DOMAIN stream'[r] : KernelRight(r, stream[r][n].op)'
  <2> TAKE n \in DOMAIN stream'[r]
  <2>1. CASE n \in 1 .. k
    <3>0. n \in DOMAIN stream[r] /\ n \in 1 .. Len(stream[r])
      BY <1>2, <1>5, <2>1
    <3>1. stream'[r][n] = stream[r][n] /\ stream[r][n].op \in Nat /\ KernelRight(r, stream[r][n].op)
      BY <1>4, <2>1, <3>0, StreamType DEF StreamRight
    <3>2. PICK j \in Nat : j = stream[r][n].op
      BY <3>1
    <3>3. KernelRight(r, j)' /\ stream'[r][n].op = j
      BY <1>8, <3>1, <3>2
    <3> QED BY <3>3 DEF KernelRight
  <2>2. CASE n \notin 1 .. k
    <3>1. n = k + 1 \/ n = k + 2
      BY <1>5, <2>2
    <3>2. stream'[r][n].op = i
      BY <1>4, <3>1
    <3> QED BY <1>9, <3>2 DEF KernelRight
  <2> QED BY <2>1, <2>2
<1>11. (stream[r] # <<>> /\ Checkpoint(host[r].op) => host[r].step = 0)'
  <2>1. CASE host'[r].op = i
    BY <1>3, <1>7, <2>1 DEF Checkpoint
  <2>2. CASE host'[r].op = i + 1
    BY <1>6, <2>2
  <2> QED BY <1>6, <2>1, <2>2
<1>12. (At(r, "round", 1) => r \in Op(host[r].op).active)'
  BY <1>3, <1>6, <1>7 DEF At
<1> QED BY <1>10, <1>11, <1>12 DEF StreamRight

\* A step of a host without a launch.
LEMMA HostOnlyStream ==
  ASSUME TypeOK, TypeOK', NEW r \in Ranks, StreamRight(r), Advances(r),
         stream'[r] = stream[r],
         Checkpoint(host[r].op) => stream[r] = <<>>,
         ~Checkpoint(host[r].op) => OpDone(r)
  PROVE  StreamRight(r)'
<1>1. PICK i \in Nat : i = host[r].op
  BY HostType
<1>2. i <= Len(program) /\ i >= 1 /\ program' = program
  BY <1>1, HostType DEF Advances
<1>3. \A c \in Nat : Op(c)' = Op(c) /\ (Checkpoint(c)' <=> Checkpoint(c))
  BY <1>2, CheckpointKept DEF Op
<1>4. CASE Checkpoint(i)
  <2>1. stream'[r] = <<>> /\ DOMAIN stream'[r] = {}
    BY <1>1, <1>4, StreamType
  <2>2. ~At(r, "round", 1)'
    BY <1>1, <1>2, <1>3, <1>4, HostType DEF At, Checkpoint, Advances, StepsOn, OpDone
  <2> QED BY <2>1, <2>2 DEF StreamRight
<1>5. CASE ~Checkpoint(i)
  <2>1. host'[r].op = i + 1 /\ host'[r].step = 0
    BY <1>1, <1>5 DEF OpDone
  <2>2. \A j \in Nat : KernelRight(r, j) => KernelRight(r, j)'
    <3> TAKE j \in Nat
    <3> HAVE KernelRight(r, j)
    <3>1. Reached(r, j, 1)'
      BY ReachedKept DEF KernelRight
    <3>2. \A c \in j .. host'[r].op - 1 : ~Checkpoint(c)
      BY <1>1, <1>5, <2>1 DEF KernelRight
    <3> QED BY <1>3, <3>1, <3>2 DEF KernelRight
  <2>3. \A n \in DOMAIN stream'[r] : KernelRight(r, stream[r][n].op)'
    <3> TAKE n \in DOMAIN stream'[r]
    <3>1. stream'[r][n] = stream[r][n] /\ stream[r][n].op \in Nat /\ KernelRight(r, stream[r][n].op)
      BY StreamType DEF StreamRight
    <3>2. PICK j \in Nat : j = stream[r][n].op
      BY <3>1
    <3>3. KernelRight(r, j)' /\ stream'[r][n].op = j
      BY <2>2, <3>1, <3>2
    <3> QED BY <3>3 DEF KernelRight
  <2>4. ~At(r, "round", 1)'
    BY <2>1 DEF At
  <2> QED BY <2>1, <2>3, <2>4 DEF StreamRight
<1> QED BY <1>4, <1>5

LEMMA HostStreams ==
  ASSUME TypeOK, TypeOK', StreamsRight, NEW r \in Ranks, HostStep(r)
  PROVE  StreamsRight'
<1>1. StreamRight(r) /\ Advances(r)
  BY StreamsEach, HostAdvances
<1>2. ASSUME NEW x \in Ranks, x # r
      PROVE  StreamRight(x)'
  <2>1. stream'[x] = stream[x]
    <3>1. CASE Dispatch(r)
      <4>1. host[r].op <= Len(program)
        BY <3>1 DEF Dispatch, At
      <4>2. CASE Launch(r, <<"prepare_dispatch", "dispatch">>)
        BY <1>2, <4>1, <4>2, LaunchEffect
      <4>3. CASE UNCHANGED stream
        BY <4>3
      <4> QED BY <3>1, <4>2, <4>3 DEF Dispatch
    <3>2. CASE Combine(r)
      BY <1>2, <3>2, LaunchEffect DEF Combine, At
    <3>3. CASE stream' = stream
      BY <3>3
    <3> QED BY <3>1, <3>2, <3>3 DEF HostStep, Synchronize, Map, Unmap, ClearRow, EndCheckpoint, device
  <2>2. host'[x] = host[x] /\ program' = program
    BY <1>1, <1>2 DEF Advances
  <2> QED BY <2>1, <2>2, StreamsEach, StreamKept
<1>3. StreamRight(r)'
  <2>1. CASE Dispatch(r)
    <3>1. /\ At(r, "round", 0) /\ host[r].step = 0 /\ host[r].op <= Len(program)
          /\ ~Checkpoint(host[r].op)
      BY <2>1 DEF Dispatch, At, Checkpoint
    <3>2. CASE r \in Op(host[r].op).active
      BY <1>1, <2>1, <3>1, <3>2, LaunchStream DEF Dispatch
    <3>3. CASE r \notin Op(host[r].op).active
      <4>1. NextOp(r) /\ stream' = stream
        BY <2>1, <3>3 DEF Dispatch
      <4>2. OpDone(r)
        BY <3>1, <4>1, NextOpEffect DEF OpDone
      <4> QED BY <1>1, <3>1, <4>1, <4>2, HostOnlyStream
    <3> QED BY <3>2, <3>3
  <2>2. CASE Combine(r)
    <3>1. At(r, "round", 1) /\ host[r].step = 1 /\ Launch(r, <<"prepare_combine", "combine">>)
      BY <2>2 DEF Combine, At
    <3>2. r \in Op(host[r].op).active
      BY <1>1, <3>1 DEF StreamRight
    <3> QED BY <1>1, <3>1, <3>2, LaunchStream
  <2>3. CASE Synchronize(r)
    <3>1. stream[r] = <<>> /\ stream' = stream /\ Checkpoint(host[r].op)
      BY <2>3 DEF Synchronize, Synchronized, At, Checkpoint, device
    <3> QED BY <1>1, <3>1, HostOnlyStream
  <2>4. CASE Unmap(r) \/ Map(r) \/ ClearRow(r) \/ EndCheckpoint(r)
    <3>1. stream' = stream /\ Checkpoint(host[r].op) /\ host[r].step # 0
      BY <2>4 DEF Unmap, Map, ClearRow, EndCheckpoint, At, Checkpoint, device
    <3>2. stream[r] = <<>>
      BY <1>1, <3>1 DEF StreamRight
    <3> QED BY <1>1, <3>1, <3>2, HostOnlyStream
  <2> QED BY <2>1, <2>2, <2>3, <2>4 DEF HostStep
<1>4. \A x \in Ranks : StreamRight(x)'
  BY <1>2, <1>3
<1> QED BY <1>4 DEF StreamsRight, StreamRight, KernelRight

\* A step of the device of r: hosts stay, and r's kernels stay or the first is
\* finished.
Ends(r) == PrepareDispatch(r) \/ EndDispatch(r) \/ PrepareCombine(r) \/ EndCombine(r)

LEMMA DeviceEffect ==
  ASSUME NEW r \in Ranks, DeviceStep(r)
  PROVE  /\ program' = program /\ host' = host /\ mapped' = mapped /\ stream[r] # <<>>
         /\ stream' = stream \/ Finish(r)
<1>1. CASE Ends(r)
  BY <1>1 DEF Ends, PrepareDispatch, EndDispatch, PrepareCombine, EndCombine, Running
<1>2. CASE ~Ends(r)
  <2>1. stream[r] # <<>> /\ stream' = stream
    BY <1>2 DEF DeviceStep, Ends, Send, SignalDispatch, WaitDispatch, SignalCombine, WaitCombine, Read
  <2>2. program' = program /\ host' = host /\ mapped' = mapped
    BY <1>2 DEF DeviceStep, Ends, Send, SignalDispatch, WaitDispatch, SignalCombine, WaitCombine, Read
  <2> QED BY <2>1, <2>2
<1> QED BY <1>1, <1>2

LEMMA DeviceStreamEffect ==
  ASSUME TypeOK, TypeOK', NEW r \in Ranks, DeviceStep(r), NEW x \in Ranks
  PROVE  /\ stream'[x] # <<>> => stream[x] # <<>>
         /\ \A n \in DOMAIN stream'[x] : \E k \in DOMAIN stream[x] : stream'[x][n] = stream[x][k]
<1>1. CASE stream' = stream
  BY <1>1
<1>2. CASE Finish(r)
  <2>1. stream[r] # <<>>
    BY DeviceEffect
  <2>2. CASE x = r
    <3>1. /\ Len(stream'[x]) = Len(stream[x]) - 1 /\ DOMAIN stream[x] = 1 .. Len(stream[x])
          /\ Len(stream[x]) \in Nat /\ DOMAIN stream'[x] = 1 .. Len(stream'[x])
      BY <1>2, <2>1, <2>2, FinishEffect, StreamType
    <3>2. \A n \in 1 .. Len(stream'[x]) : stream'[x][n] = stream[x][n + 1]
      BY <1>2, <2>1, <2>2, FinishEffect
    <3>3. \A n \in 1 .. Len(stream'[x]) : n + 1 \in DOMAIN stream[x]
      BY <3>1
    <3> QED BY <2>1, <2>2, <3>1, <3>2, <3>3
  <2>3. CASE x # r
    BY <1>2, <2>1, <2>3, FinishEffect
  <2> QED BY <2>2, <2>3
<1> QED BY <1>1, <1>2, DeviceEffect

LEMMA DeviceStreams ==
  ASSUME TypeOK, TypeOK', StreamsRight, NEW r \in Ranks, DeviceStep(r)
  PROVE  StreamsRight'
<1>1. program' = program /\ host' = host
  BY DeviceEffect
<1>2. \A x \in Ranks : StreamRight(x)'
  BY <1>1, StreamsEach, StreamKept, DeviceStreamEffect
<1> QED BY <1>2 DEF StreamsRight, StreamRight, KernelRight

-----------------------------------------------------------------------------
\* The mapping.
MapOf(r, i) == LastPerformed(r, i) /\ Op(i).kind = "map"

LEMMA LastPerformedKept ==
  ASSUME TypeOK, TypeOK', NEW r \in Ranks, Advances(r), NEW x \in Ranks,
         ~(x = r /\ StepsOn(r) /\ host[r].step = 1 /\ Checkpoint(host[r].op)),
         NEW i \in 1 .. Len(program)
  PROVE  /\ LastPerformed(x, i)' <=> LastPerformed(x, i)
         /\ MapOf(x, i)' <=> MapOf(x, i)
<1>1. /\ program' = program /\ program \in Programs /\ Len(program) \in Nat /\ i \in Nat
      /\ host[r].op \in Nat /\ host[r].step \in Nat /\ host[r].op >= 1
  BY HostType DEF Advances
<1>2. \A c \in 1 .. Len(program) : Checkpoint(c) => (Reached(x, c, 2)' <=> Reached(x, c, 2))
  <2> TAKE c \in 1 .. Len(program)
  <2> HAVE Checkpoint(c)
  <2>0. c \in Nat /\ LastStep(c) >= 2
    BY <1>1, KindFacts
  <2>1. Reached(x, c, 2) => Reached(x, c, 2)'
    BY <2>0, ReachedKept
  <2>2. ASSUME Reached(x, c, 2)', ~Reached(x, c, 2) PROVE FALSE
    <3>1. /\ x = r
          /\ \/ StepsOn(r) /\ c = host[r].op /\ 2 = host[r].step + 1
             \/ OpDone(r) /\ c = host[r].op /\ 2 > host[r].step
      BY <2>0, <2>2, ReachedNew
    <3>2. CASE StepsOn(r) /\ c = host[r].op /\ 2 = host[r].step + 1
      BY <1>1, <3>1, <3>2
    <3>3. CASE OpDone(r) /\ c = host[r].op /\ 2 > host[r].step
      BY <1>1, <2>0, <3>3 DEF OpDone, LastStep
    <3> QED BY <3>1, <3>2, <3>3
  <2> QED BY <2>1, <2>2
<1>3. \A c \in Nat : Checkpoint(c)' <=> Checkpoint(c)
  BY <1>1, CheckpointKept
<1>4. \A c \in i + 1 .. Len(program) : c \in 1 .. Len(program) /\ c \in Nat
  BY <1>1
<1>5. LastPerformed(x, i)' <=> LastPerformed(x, i)
  BY <1>1, <1>2, <1>3, <1>4 DEF LastPerformed
<1> QED BY <1>1, <1>5 DEF MapOf, Op

LEMMA PerformsNow ==
  ASSUME TypeOK, TypeOK', NEW r \in Ranks, Advances(r), StepsOn(r), host[r].step = 1,
         Checkpoint(host[r].op), NEW i \in 1 .. Len(program)
  PROVE  LastPerformed(r, i)' <=> i = host[r].op
<1>1. /\ program' = program /\ Len(program) \in Nat /\ i \in Nat
      /\ host[r].op \in Nat /\ host'[r].op = host[r].op /\ host'[r].step = 2
      /\ host[r].op <= Len(program)
  BY HostType DEF Advances, StepsOn
<1>2. Checkpoint(host[r].op)'
  BY <1>1, CheckpointKept
<1>3. ASSUME i = host[r].op PROVE LastPerformed(r, i)'
  <2>1. Reached(r, i, 2)'
    BY <1>1, <1>3 DEF Reached
  <2>2. \A c \in i + 1 .. Len(program) : ~Reached(r, c, 2)'
    BY <1>1, <1>3 DEF Reached
  <2> QED BY <1>1, <1>2, <1>3, <2>1, <2>2 DEF LastPerformed, Checkpoint
<1>4. ASSUME LastPerformed(r, i)', i # host[r].op PROVE FALSE
  <2>1. Reached(r, i, 2)'
    BY <1>4 DEF LastPerformed
  <2>2. i < host[r].op
    BY <1>1, <1>4, <2>1 DEF Reached
  <2>3. host[r].op \in i + 1 .. Len(program)
    BY <1>1, <2>2
  <2>4. PICK c \in Nat : c = host[r].op
    BY <1>1
  <2>5. Checkpoint(c)' /\ Reached(r, c, 2)' /\ c \in i + 1 .. Len(program')
    BY <1>1, <1>2, <2>3, <2>4 DEF Reached, Checkpoint
  <2> QED BY <1>4, <2>5 DEF LastPerformed
<1> QED BY <1>3, <1>4

LEMMA MappedEach ==
  ASSUME TypeOK
  PROVE  /\ MappedRight <=> \A r \in Ranks : mapped[r] <=> \E i \in 1 .. Len(program) : MapOf(r, i)
         /\ OpsMapped <=> \A r \in Ranks : \A n \in 1 .. Len(stream[r]) :
                            \E i \in 1 .. stream[r][n].op : MapOf(r, i)
<1>1. DOMAIN program = 1 .. Len(program) /\ \A r \in Ranks : DOMAIN stream[r] = 1 .. Len(stream[r])
  BY ProgramFacts, StreamType DEF TypeOK
<1>2. MappedRight <=> \A r \in Ranks : mapped[r] <=> \E i \in 1 .. Len(program) : MapOf(r, i)
  BY <1>1 DEF MappedRight, MapOf
<1>3. OpsMapped <=> \A r \in Ranks : \A n \in 1 .. Len(stream[r]) :
                            \E i \in 1 .. stream[r][n].op : MapOf(r, i)
  BY <1>1 DEF OpsMapped, MapOf
<1> QED BY <1>2, <1>3

\* The mapping, of one rank.
MapRight(r) == mapped[r] <=> \E i \in 1 .. Len(program) : MapOf(r, i)
OpMapped(r) == \A n \in 1 .. Len(stream[r]) : \E i \in 1 .. stream[r][n].op : MapOf(r, i)

LEMMA MapsEach ==
  ASSUME TypeOK
  PROVE  /\ MappedRight <=> \A r \in Ranks : MapRight(r)
         /\ OpsMapped <=> \A r \in Ranks : OpMapped(r)
BY MappedEach DEF MapRight, OpMapped

LEMMA MapsNext ==
  ASSUME TypeOK', \A r \in Ranks : MapRight(r)' /\ OpMapped(r)'
  PROVE  MappedRight' /\ OpsMapped'
<1>1. program' \in Seq(OpType) /\ stream' \in [Ranks -> Seq(KernelType')]
  BY ProgramsAssumption DEF TypeOK
<1>2. /\ DOMAIN program' = 1 .. Len(program')
      /\ \A r \in Ranks : DOMAIN stream'[r] = 1 .. Len(stream'[r])
  BY <1>1
<1>3. MappedRight'
  BY <1>2 DEF MappedRight, MapRight, MapOf
<1>4. OpsMapped'
  BY <1>2 DEF OpsMapped, OpMapped, MapOf
<1> QED BY <1>3, <1>4

LEMMA MapKept ==
  ASSUME TypeOK, TypeOK', NEW x \in Ranks, MapRight(x), OpMapped(x), program' = program,
         mapped'[x] = mapped[x],
         \A i \in 1 .. Len(program) : MapOf(x, i)' <=> MapOf(x, i),
         \A n \in DOMAIN stream'[x] : \E k \in DOMAIN stream[x] : stream'[x][n] = stream[x][k]
  PROVE  MapRight(x)' /\ OpMapped(x)'
<1>1. MapRight(x)'
  BY DEF MapRight
<1>2. OpMapped(x)'
  <2> SUFFICES ASSUME NEW n \in 1 .. Len(stream'[x])
               PROVE  \E i \in 1 .. stream'[x][n].op : MapOf(x, i)'
    BY DEF OpMapped
  <2>0. n \in DOMAIN stream'[x]
    <3>1. stream' \in [Ranks -> Seq(KernelType')]
      BY DEF TypeOK
    <3>2. DOMAIN stream'[x] = 1 .. Len(stream'[x])
      BY <3>1
    <3> QED BY <3>2
  <2>1. PICK k \in 1 .. Len(stream[x]) : stream'[x][n] = stream[x][k]
    BY <2>0, StreamType
  <2>2. stream[x][k].op \in 1 .. Len(program) /\ Len(program) \in Nat
    BY StreamType, HostType
  <2>3. PICK i \in 1 .. stream[x][k].op : MapOf(x, i)
    BY DEF OpMapped
  <2>4. i \in 1 .. Len(program)
    BY <2>2
  <2>5. MapOf(x, i)'
    BY <2>3, <2>4
  <2> QED BY <2>1, <2>5
<1> QED BY <1>1, <1>2

LEMMA LaunchMap ==
  ASSUME TypeOK, TypeOK', NEW r \in Ranks, MapRight(r), OpMapped(r), Advances(r),
         mapped[r], mapped'[r] = mapped[r], ~Checkpoint(host[r].op),
         NEW a \in {"prepare_dispatch", "dispatch", "prepare_combine", "combine"},
         NEW b \in {"prepare_dispatch", "dispatch", "prepare_combine", "combine"},
         Launch(r, <<a, b>>)
  PROVE  MapRight(r)' /\ OpMapped(r)'
<1>1. PICK h \in Nat : h = host[r].op
  BY HostType
<1>2. PICK k \in Nat : k = Len(stream[r])
  BY StreamType
<1>3. program' = program /\ h <= Len(program) /\ Len(program) \in Nat
  BY <1>1, HostType DEF Advances
<1>4. \A i \in 1 .. Len(program) : MapOf(r, i)' <=> MapOf(r, i)
  BY LastPerformedKept
<1>5. MapRight(r)'
  BY <1>3, <1>4 DEF MapRight
<1>6. PICK m \in 1 .. Len(program) : MapOf(r, m)
  BY DEF MapRight
<1>7. m <= h
  BY <1>1, <1>3, <1>6, HostType DEF MapOf, LastPerformed, Reached
<1>8. /\ Len(stream'[r]) = k + 2
      /\ \A n \in 1 .. k : stream'[r][n] = stream[r][n]
      /\ stream'[r][k + 1].op = h /\ stream'[r][k + 2].op = h
  <2>1. host[r].op <= Len(program)
    BY <1>1, <1>3
  <2>2. /\ Len(stream'[r]) = Len(stream[r]) + 2
        /\ \A n \in 1 .. Len(stream[r]) : stream'[r][n] = stream[r][n]
        /\ stream'[r][Len(stream[r]) + 1] = [kind |-> a, op |-> host[r].op]
        /\ stream'[r][Len(stream[r]) + 2] = [kind |-> b, op |-> host[r].op]
    BY <2>1, LaunchEffect
  <2> QED BY <1>1, <1>2, <2>2
<1>9. ASSUME NEW n \in 1 .. k + 2
      PROVE  \E i \in 1 .. stream'[r][n].op : MapOf(r, i)'
  <2>1. CASE n \in 1 .. k
    <3>1. n \in 1 .. Len(stream[r])
      BY <1>2, <2>1
    <3>2. stream'[r][n] = stream[r][n] /\ stream[r][n].op \in 1 .. Len(program)
      BY <1>8, <2>1, <3>1, StreamType
    <3>3. PICK i \in 1 .. stream[r][n].op : MapOf(r, i)
      BY <3>1 DEF OpMapped
    <3>4. i \in 1 .. Len(program)
      BY <1>3, <3>2
    <3>5. MapOf(r, i)'
      BY <1>4, <3>3, <3>4
    <3> QED BY <3>2, <3>5
  <2>2. CASE n \notin 1 .. k
    <3>1. n = k + 1 \/ n = k + 2
      BY <2>2
    <3>2. stream'[r][n].op = h
      BY <1>8, <3>1
    <3>3. MapOf(r, m)' /\ m \in 1 .. h
      BY <1>4, <1>6, <1>7
    <3> QED BY <3>2, <3>3
  <2> QED BY <2>1, <2>2
<1>10. OpMapped(r)'
  BY <1>8, <1>9 DEF OpMapped
<1> QED BY <1>5, <1>10

LEMMA HostMaps ==
  ASSUME TypeOK, TypeOK', StreamsRight, MappedRight, OpsMapped, NEW r \in Ranks, HostStep(r)
  PROVE  MappedRight' /\ OpsMapped'
<1>1. StreamRight(r) /\ Advances(r) /\ \A x \in Ranks : MapRight(x) /\ OpMapped(x)
  BY StreamsEach, HostAdvances, MapsEach
<1>2. program' = program
  BY <1>1 DEF Advances
<1>3. CASE Dispatch(r) \/ Combine(r)
  <2>1. /\ ~Checkpoint(host[r].op) /\ mapped[r] /\ mapped' = mapped
        /\ host[r].op <= Len(program)
    BY <1>3 DEF Dispatch, Combine, At, Checkpoint
  <2>2. \A x \in Ranks : \A i \in 1 .. Len(program) : MapOf(x, i)' <=> MapOf(x, i)
    BY <1>1, <2>1, LastPerformedKept
  <2>3. \/ stream' = stream
        \/ Launch(r, <<"prepare_dispatch", "dispatch">>)
        \/ Launch(r, <<"prepare_combine", "combine">>)
    BY <1>3 DEF Dispatch, Combine
  <2>4. ASSUME NEW x \in Ranks, x # r \/ stream' = stream
        PROVE  MapRight(x)' /\ OpMapped(x)'
    <3>1. stream'[x] = stream[x]
      BY <2>1, <2>3, <2>4, LaunchEffect
    <3> QED BY <1>1, <1>2, <2>1, <2>2, <3>1, MapKept
  <2>5. CASE Launch(r, <<"prepare_dispatch", "dispatch">>) \/ Launch(r, <<"prepare_combine", "combine">>)
    <3>1. MapRight(r)' /\ OpMapped(r)'
      BY <1>1, <2>1, <2>5, LaunchMap
    <3>2. \A x \in Ranks : MapRight(x)' /\ OpMapped(x)'
      BY <2>4, <3>1
    <3> QED BY <3>2, MapsNext
  <2>6. CASE stream' = stream
    <3>1. \A x \in Ranks : MapRight(x)' /\ OpMapped(x)'
      BY <2>4, <2>6
    <3> QED BY <3>1, MapsNext
  <2> QED BY <2>3, <2>5, <2>6
<1>4. CASE Synchronize(r) \/ ClearRow(r) \/ EndCheckpoint(r)
  <2>1. stream' = stream /\ mapped' = mapped /\ ~(StepsOn(r) /\ host[r].step = 1)
    <3>1. stream' = stream /\ mapped' = mapped
      BY <1>4 DEF Synchronize, ClearRow, EndCheckpoint, device
    <3>2. ~(StepsOn(r) /\ host[r].step = 1)
      <4>1. CASE Synchronize(r) \/ ClearRow(r)
        BY <4>1 DEF Synchronize, ClearRow, At
      <4>2. CASE EndCheckpoint(r)
        BY <4>2, NextOpEffect, HostType DEF EndCheckpoint, At, StepsOn
      <4> QED BY <1>4, <4>1, <4>2
    <3> QED BY <3>1, <3>2
  <2>2. \A x \in Ranks : \A i \in 1 .. Len(program) : MapOf(x, i)' <=> MapOf(x, i)
    BY <1>1, <2>1, LastPerformedKept
  <2>3. \A x \in Ranks : MapRight(x)' /\ OpMapped(x)'
    BY <1>1, <1>2, <2>1, <2>2, MapKept
  <2> QED BY <2>3, MapsNext
<1>5. CASE Unmap(r) \/ Map(r)
  <2>1. /\ stream' = stream /\ NextStep(r) /\ host[r].step = 1 /\ Checkpoint(host[r].op)
        /\ host[r].op \in 1 .. Len(program)
    BY <1>5, HostType DEF Unmap, Map, At, Checkpoint, device
  <2>2. StepsOn(r)
    BY <1>1, <2>1, NextStepEffect, HostType DEF Advances, OpDone
  <2>3. stream[r] = <<>> /\ Len(stream'[r]) = 0
    BY <1>1, <2>1, StreamType DEF StreamRight
  <2>4. OpMapped(r)'
    BY <2>3 DEF OpMapped
  <2>5. \A i \in 1 .. Len(program) : LastPerformed(r, i)' <=> i = host[r].op
    BY <1>1, <2>1, <2>2, PerformsNow
  <2>6. MapRight(r)'
    <3>1. (\E i \in 1 .. Len(program) : MapOf(r, i))' <=> Op(host[r].op).kind = "map"
      BY <1>2, <2>1, <2>5 DEF MapOf, Op
    <3>2. CASE Map(r)
      BY <2>1, <3>1, <3>2 DEF Map, At, TypeOK, MapRight
    <3>3. CASE Unmap(r)
      BY <2>1, <3>1, <3>3 DEF Unmap, At, TypeOK, MapRight
    <3> QED BY <1>5, <3>2, <3>3
  <2>7. ASSUME NEW x \in Ranks, x # r
        PROVE  MapRight(x)' /\ OpMapped(x)'
    <3>1. mapped'[x] = mapped[x]
      BY <1>5, <2>7 DEF Unmap, Map, TypeOK
    <3>2. \A i \in 1 .. Len(program) : MapOf(x, i)' <=> MapOf(x, i)
      BY <1>1, <2>7, LastPerformedKept
    <3> QED BY <1>1, <1>2, <2>1, <3>1, <3>2, MapKept
  <2>8. \A x \in Ranks : MapRight(x)' /\ OpMapped(x)'
    BY <2>4, <2>6, <2>7
  <2> QED BY <2>8, MapsNext
<1> QED BY <1>3, <1>4, <1>5 DEF HostStep

LEMMA DeviceMaps ==
  ASSUME TypeOK, TypeOK', MappedRight, OpsMapped, NEW r \in Ranks, DeviceStep(r)
  PROVE  MappedRight' /\ OpsMapped'
<1>1. program' = program /\ host' = host /\ mapped' = mapped
  BY DeviceEffect
<1>2. \A x \in Ranks, i \in 1 .. Len(program) : MapOf(x, i)' <=> MapOf(x, i)
  BY <1>1 DEF MapOf, LastPerformed, Reached, Checkpoint, Op
<1>3. \A x \in Ranks : MapRight(x) /\ OpMapped(x)
  BY MapsEach
<1>4. \A x \in Ranks : MapRight(x)' /\ OpMapped(x)'
  BY <1>1, <1>2, <1>3, MapKept, DeviceStreamEffect
<1> QED BY <1>4, MapsNext

-----------------------------------------------------------------------------
\* The invariant of any program.
LEMMA ReachedDown ==
  ASSUME TypeOK, NEW q \in Ranks, NEW i \in Nat, NEW a \in Nat, NEW b \in Nat, a <= b,
         Reached(q, i, b)
  PROVE  Reached(q, i, a)
BY HostType DEF Reached

\* A rank with kernels to run: the map operation before them, and that no rank
\* is on the way to the next checkpoint operation.
LEMMA SegmentFacts ==
  ASSUME Ready, NEW r \in Ranks, stream[r] # <<>>
  PROVE  \E m \in 1 .. Len(program) :
           /\ m < Kernel(r).op /\ Current(m)
           /\ \A q \in Ranks : Cleared(q, m) /\ MapOf(q, m)
           /\ \A c \in m + 1 .. Kernel(r).op : ~Checkpoint(c)
<1>1. TypeOK /\ HostsMeet /\ StreamRight(r) /\ MapRight(r) /\ OpMapped(r)
  BY StreamsEach, MapsEach DEF Ready
<1>2. PICK h \in Nat : h = host[r].op
  BY <1>1, HostType
<1>3. PICK i \in 1 .. Len(program) : i = Kernel(r).op
  BY <1>1, KernelFacts
<1>4. /\ program \in Programs /\ Len(program) \in Nat /\ DOMAIN program = 1 .. Len(program)
      /\ h <= Len(program) + 1 /\ i \in Nat
  BY <1>1, <1>2, HostType, ProgramFacts
<1>5. 1 \in 1 .. Len(stream[r]) /\ 1 \in DOMAIN stream[r] /\ stream[r][1].op = i
  BY <1>1, <1>3, StreamType
<1>6. PICK m \in 1 .. i : MapOf(r, m)
  BY <1>1, <1>5 DEF OpMapped
<1>7. KernelRight(r, i)
  BY <1>1, <1>5 DEF StreamRight
<1>8. m < i /\ m \in Nat /\ m \in 1 .. Len(program) /\ Checkpoint(m) /\ LastStep(m) = 3
  <2>1. m # i
    BY <1>6, <1>7 DEF MapOf, KernelRight
  <2>2. m \in 1 .. Len(program) /\ m < i
    BY <1>4, <2>1
  <2> QED BY <1>4, <1>6, <2>2, KindFacts DEF MapOf
<1>9. h >= i /\ h > m
  BY <1>2, <1>4, <1>7, <1>8 DEF KernelRight, Reached
<1>10. \A q \in Ranks : Reached(q, m, 3)
  BY <1>1, <1>2, <1>4, <1>8, <1>9 DEF HostsMeet
<1>11. \A c \in m + 1 .. Len(program) : Checkpoint(c) => ~Reached(r, c, 1)
  <2> SUFFICES ASSUME NEW c \in m + 1 .. Len(program), Checkpoint(c), Reached(r, c, 1)
               PROVE  FALSE
    OBVIOUS
  <2>1. ~Reached(r, c, 2)
    BY <1>6 DEF MapOf, LastPerformed
  <2>2. h = c /\ host[r].step # 0
    BY <1>1, <1>2, <2>1, HostType DEF Reached
  <2> QED BY <1>1, <1>2, <2>2 DEF StreamRight
<1>12. \A q \in Ranks, c \in m + 1 .. Len(program) : Checkpoint(c) => ~Reached(q, c, 2)
  <2> SUFFICES ASSUME NEW q \in Ranks, NEW c \in m + 1 .. Len(program), Checkpoint(c), Reached(q, c, 2)
               PROVE  FALSE
    OBVIOUS
  <2>1. c \in DOMAIN program
    BY <1>4, <1>8
  <2>2. Reached(r, c, 1)
    BY <1>1, <2>1 DEF HostsMeet
  <2> QED BY <1>11, <2>2
<1>13. Current(m)
  <2>1. Op(m).kind = "map"
    BY <1>6 DEF MapOf
  <2>2. \A q \in Ranks : Reached(q, m, 1)
    BY <1>1, <1>8, <1>10, ReachedDown
  <2> QED BY <1>12, <2>1, <2>2 DEF Current
<1>14. \A q \in Ranks : Cleared(q, m) /\ MapOf(q, m)
  <2> TAKE q \in Ranks
  <2>1. Reached(q, m, 2) /\ Reached(q, m, 3)
    BY <1>1, <1>8, <1>10, ReachedDown
  <2> QED BY <1>6, <1>8, <1>12, <2>1 DEF Cleared, MapOf, LastPerformed
<1>15. \A c \in m + 1 .. i : ~Checkpoint(c)
  <2> SUFFICES ASSUME NEW c \in m + 1 .. i, Checkpoint(c) PROVE FALSE
    OBVIOUS
  <2>1. c # i /\ c \in m + 1 .. Len(program) /\ c \in Nat
    BY <1>4, <1>7, <1>8 DEF KernelRight, Checkpoint
  <2>2. h > c
    BY <1>4, <1>8, <1>9, <2>1
  <2> QED BY <1>2, <1>11, <2>1, <2>2 DEF Reached
<1> QED BY <1>3, <1>8, <1>13, <1>14, <1>15

LEMMA ReadyGivesInv == Ready => Inv
<1> SUFFICES ASSUME Ready, NEW r \in Ranks, NEW q \in Ranks, stream[r] # <<>>
             PROVE  mapped[q] /\ ~At(q, "map", 2)
  BY DEF Ready, Inv, WorkspaceReady
<1>1. TypeOK /\ MapRight(q)
  BY MapsEach DEF Ready
<1>2. PICK m \in 1 .. Len(program) : Current(m) /\ Cleared(q, m) /\ MapOf(q, m)
  BY SegmentFacts
<1>3. mapped[q]
  BY <1>1, <1>2 DEF MapRight
<1>4. ASSUME At(q, "map", 2) PROVE FALSE
  <2>1. /\ host[q].op \in Nat /\ host[q].op <= Len(program) /\ Op(host[q].op).kind = "map"
        /\ host[q].step = 2 /\ Len(program) \in Nat
    BY <1>1, <1>4, HostType DEF At
  <2>2. host[q].op > m
    BY <1>1, <1>2, <2>1 DEF Cleared, Reached
  <2>3. PICK c \in m + 1 .. Len(program) : c = host[q].op
    BY <2>1, <2>2
  <2>4. Checkpoint(c) /\ Reached(q, c, 2)
    BY <2>1, <2>3 DEF Checkpoint, Reached
  <2> QED BY <1>2, <2>3, <2>4 DEF Current
<1> QED BY <1>3, <1>4

LEMMA InitReady == Init => Ready
<1> SUFFICES ASSUME Init PROVE Ready
  OBVIOUS
<1>1. TypeOK
  BY InitType
<1>2. \A r \in Ranks : host[r].op = 1 /\ host[r].step = 0 /\ stream[r] = <<>> /\ mapped[r] = FALSE
  BY DEF Init
<1>3. Len(program) \in Nat /\ DOMAIN program = 1 .. Len(program)
  BY <1>1, ProgramFacts DEF TypeOK
<1>4. HostsMeet
  <2>1. \A r \in Ranks, i \in DOMAIN program : ~Reached(r, i, 2) /\ ~(host[r].op > i)
    BY <1>2, <1>3 DEF Reached
  <2>2. \A r \in Ranks : host[r].step <= IF host[r].op <= Len(program) THEN LastStep(host[r].op) ELSE 0
    BY <1>2 DEF LastStep
  <2> QED BY <2>1, <2>2 DEF HostsMeet
<1>5. \A r \in Ranks : DOMAIN stream[r] = {} /\ Len(stream[r]) = 0
  BY <1>1, <1>2, StreamType
<1>6. StreamsRight
  <2>1. \A r \in Ranks : StreamRight(r)
    BY <1>2, <1>5 DEF StreamRight, At
  <2> QED BY <2>1, StreamsEach
<1>7. MappedRight /\ OpsMapped
  <2>1. \A r \in Ranks : OpMapped(r)
    BY <1>5 DEF OpMapped
  <2>2. \A r \in Ranks : MapRight(r)
    <3>1. \A r \in Ranks, i \in 1 .. Len(program) : ~Reached(r, i, 2)
      BY <1>2, <1>3 DEF Reached
    <3> QED BY <1>2, <3>1 DEF MapRight, MapOf, LastPerformed
  <2> QED BY <1>1, <2>1, <2>2, MapsEach
<1> QED BY <1>1, <1>4, <1>6, <1>7 DEF Ready

LEMMA ReadyStep == Ready /\ [Next]_vars => Ready'
<1> SUFFICES ASSUME Ready, [Next]_vars PROVE Ready'
  OBVIOUS
<1>0. TypeOK /\ HostsMeet /\ StreamsRight /\ MappedRight /\ OpsMapped
  BY DEF Ready
<1>1. ASSUME NEW r \in Ranks, HostStep(r) PROVE Ready'
  <2>1. TypeOK'
    BY <1>0, <1>1, HostTypeStep
  <2>2. HostsMeet'
    BY <1>0, <1>1, <2>1, HostAdvances, HostsMeetStep
  <2>3. StreamsRight'
    BY <1>0, <1>1, <2>1, HostStreams
  <2>4. MappedRight' /\ OpsMapped'
    BY <1>0, <1>1, <2>1, HostMaps
  <2> QED BY <2>1, <2>2, <2>3, <2>4 DEF Ready
<1>2. ASSUME NEW r \in Ranks, DeviceStep(r) PROVE Ready'
  <2>1. TypeOK'
    BY <1>0, <1>2, DeviceTypeStep
  <2>2. HostsMeet'
    <3>1. program' = program /\ host' = host
      BY <1>2, DeviceEffect
    <3> QED BY <1>0, <3>1 DEF HostsMeet, Reached, Checkpoint, LastStep, Op
  <2>3. StreamsRight'
    BY <1>0, <1>2, <2>1, DeviceStreams
  <2>4. MappedRight' /\ OpsMapped'
    BY <1>0, <1>2, <2>1, DeviceMaps
  <2> QED BY <2>1, <2>2, <2>3, <2>4 DEF Ready
<1>3. ASSUME UNCHANGED vars PROVE Ready'
  <2>1. TypeOK'
    BY <1>0, <1>3 DEF vars, TypeOK, KernelType
  <2>2. program' = program /\ host' = host /\ mapped' = mapped /\ stream' = stream
    BY <1>3 DEF vars
  <2>3. HostsMeet'
    BY <1>0, <2>2 DEF HostsMeet, Reached, Checkpoint, LastStep, Op
  <2>4. StreamsRight'
    BY <1>0, <2>2 DEF StreamsRight, Reached, Checkpoint, At, Op
  <2>5. MappedRight'
    BY <1>0, <2>2 DEF MappedRight, LastPerformed, Reached, Checkpoint, Op
  <2>6. OpsMapped'
    BY <1>0, <2>2 DEF OpsMapped, LastPerformed, Reached, Checkpoint, Op
  <2> QED BY <2>1, <2>3, <2>4, <2>5, <2>6 DEF Ready
<1> QED BY <1>1, <1>2, <1>3 DEF Next

\* While a rank has a kernel to run, every rank has mapped the workspace and is
\* past the clearing of its row: checkpoint_prepare, checkpoint_restore and
\* get_workspace of trtllm_moe_alltoall.py, for any program of rounds and
\* checkpoints.
THEOREM WorkspaceReadyHolds == Spec => []Inv
<1>1. Init => Ready
  BY InitReady
<1>2. Ready /\ [Next]_vars => Ready'
  BY ReadyStep
<1>3. Ready => Inv
  BY ReadyGivesInv
<1> QED BY <1>1, <1>2, <1>3, PTL DEF Spec

-----------------------------------------------------------------------------
\* The place of a device in the program.
LEMMA FourFacts ==
  ASSUME NEW p \in Nat
  PROVE  /\ p \div 4 \in Nat /\ p % 4 \in 0 .. 3 /\ p = 4 * (p \div 4) + (p % 4)
OBVIOUS

LEMMA FourUnique ==
  ASSUME NEW p \in Nat, NEW i \in Nat, NEW s \in 0 .. 3, p = 4 * i + s
  PROVE  p \div 4 = i /\ p % 4 = s
OBVIOUS

KindOf(s) == CASE s = 0 -> "prepare_dispatch" [] s = 1 -> "dispatch"
               [] s = 2 -> "prepare_combine" [] OTHER -> "combine"

LEMMA StageFacts ==
  ASSUME NEW k \in {"prepare_dispatch", "dispatch", "prepare_combine", "combine"}
  PROVE  /\ StageOf[k] \in 0 .. 3
         /\ StageOf[k] = 0 <=> k = "prepare_dispatch"
         /\ StageOf[k] = 1 <=> k = "dispatch"
         /\ StageOf[k] = 2 <=> k = "prepare_combine"
         /\ StageOf[k] = 3 <=> k = "combine"
BY DEF StageOf

\* Where r is in its stream, or where its host is.
LEMMA Where ==
  ASSUME TypeOK, InOrder, NEW r \in Ranks
  PROVE  /\ Place(r) \in Nat /\ OpNow(r) \in Nat /\ Stage(r) \in 0 .. 3
         /\ Place(r) = 4 * OpNow(r) + Stage(r)
         /\ OpNow(r) >= 1 /\ OpNow(r) <= host[r].op
         /\ stream[r] = <<>> => /\ OpNow(r) = host[r].op
                                /\ Stage(r) = IF At(r, "round", 1) THEN 2 ELSE 0
         /\ stream[r] # <<>> => /\ OpNow(r) = Kernel(r).op
                                /\ Stage(r) = StageOf[Kernel(r).kind]
         /\ Running(r, "prepare_dispatch") <=> stream[r] # <<>> /\ Stage(r) = 0
         /\ Running(r, "dispatch") <=> stream[r] # <<>> /\ Stage(r) = 1
         /\ Running(r, "prepare_combine") <=> stream[r] # <<>> /\ Stage(r) = 2
         /\ Running(r, "combine") <=> stream[r] # <<>> /\ Stage(r) = 3
<1>1. PICK h \in Nat : h = host[r].op /\ h >= 1
  BY HostType
<1>2. PICK k \in Nat : k = Len(stream[r])
  BY StreamType
<1>3. Place(r) = 4 * h + (IF At(r, "round", 1) THEN 2 ELSE 0) - k
  BY <1>1, <1>2 DEF Place
<1>4. CASE stream[r] = <<>>
  <2>1. k = 0
    BY <1>2, <1>4, StreamType
  <2>2. Place(r) = 4 * h + (IF At(r, "round", 1) THEN 2 ELSE 0)
    BY <1>3, <2>1
  <2>3. OpNow(r) = h /\ Stage(r) = IF At(r, "round", 1) THEN 2 ELSE 0
    <3>1. CASE At(r, "round", 1)
      <4>1. Place(r) = 4 * h + 2 /\ Place(r) \in Nat
        BY <2>2, <3>1
      <4> QED BY <3>1, <4>1, FourUnique DEF OpNow, Stage
    <3>2. CASE ~At(r, "round", 1)
      <4>1. Place(r) = 4 * h + 0 /\ Place(r) \in Nat
        BY <2>2, <3>2
      <4> QED BY <3>2, <4>1, FourUnique DEF OpNow, Stage
    <3> QED BY <3>1, <3>2
  <2> QED BY <1>1, <1>4, <2>2, <2>3 DEF Running
<1>5. CASE stream[r] # <<>>
  <2>1. k > 0 /\ 1 \in DOMAIN stream[r] /\ Kernel(r) = stream[r][1]
    BY <1>2, <1>5, StreamType
  <2>2. PICK i \in Nat : i = Kernel(r).op /\ i >= 1
    BY <1>5, KernelFacts
  <2>3. PICK s \in 0 .. 3 : s = StageOf[Kernel(r).kind]
    BY <1>5, KernelFacts, StageFacts
  <2>4. 4 * stream[r][1].op + StageOf[stream[r][1].kind] = Place(r) + 1 - 1
    BY <2>1 DEF InOrder
  <2>5. Place(r) \in Int
    BY <1>3
  <2>6. Place(r) = 4 * i + s /\ Place(r) \in Nat
    BY <2>1, <2>2, <2>3, <2>4, <2>5
  <2>7. OpNow(r) = i /\ Stage(r) = s
    BY <2>2, <2>3, <2>6, FourUnique DEF OpNow, Stage
  <2>8. i <= h
    BY <1>3, <2>1, <2>6
  <2>9. \A n \in {"prepare_dispatch", "dispatch", "prepare_combine", "combine"} :
          Running(r, n) <=> Kernel(r).kind = n
    BY <1>5 DEF Running
  <2>10. Kernel(r).kind \in {"prepare_dispatch", "dispatch", "prepare_combine", "combine"}
    BY <1>5, KernelFacts
  <2> QED BY <1>1, <1>5, <2>2, <2>3, <2>6, <2>7, <2>8, <2>9, <2>10, StageFacts
<1> QED BY <1>4, <1>5

\* What the steps do to the places.
LEMMA HostPlaces ==
  ASSUME TypeOK, TypeOK', NEW r \in Ranks, Advances(r), NEW x \in Ranks
  PROVE  /\ x # r /\ stream'[x] = stream[x] => Place(x)' = Place(x)
         /\ stream'[r] = stream[r] /\ Checkpoint(host[r].op) /\ StepsOn(r) => Place(r)' = Place(r)
         /\ stream'[r] = stream[r] /\ OpDone(r) /\ ~At(r, "round", 1) => Place(r)' = Place(r) + 4
         /\ At(r, "round", 0) /\ StepsOn(r) /\ Len(stream'[r]) = Len(stream[r]) + 2
              => Place(r)' = Place(r)
         /\ At(r, "round", 1) /\ OpDone(r) /\ Len(stream'[r]) = Len(stream[r]) + 2
              => Place(r)' = Place(r)
<1>1. program' = program
  BY DEF Advances
<1>2. ASSUME x # r, stream'[x] = stream[x] PROVE Place(x)' = Place(x)
  <2>1. host'[x] = host[x]
    BY <1>2 DEF Advances
  <2> QED BY <1>1, <1>2, <2>1 DEF Place, At, Op
<1>3. /\ host[r].op \in Nat /\ Len(stream[r]) \in Nat
      /\ host[r].step \in Nat /\ host[r].op <= Len(program)
  BY HostType, StreamType DEF Advances
<1>4. ASSUME stream'[r] = stream[r], Checkpoint(host[r].op), StepsOn(r) PROVE Place(r)' = Place(r)
  <2>1. ~At(r, "round", 1) /\ ~At(r, "round", 1)'
    BY <1>1, <1>4 DEF At, Op, Checkpoint, StepsOn
  <2> QED BY <1>4, <2>1 DEF Place, StepsOn
<1>5. ASSUME stream'[r] = stream[r], OpDone(r), ~At(r, "round", 1) PROVE Place(r)' = Place(r) + 4
  <2>1. ~At(r, "round", 1)'
    BY <1>5 DEF At, OpDone
  <2>2. host'[r].op = host[r].op + 1
    BY <1>5 DEF OpDone
  <2> QED BY <1>3, <1>5, <2>1, <2>2 DEF Place
<1>6. ASSUME At(r, "round", 0), StepsOn(r), Len(stream'[r]) = Len(stream[r]) + 2
      PROVE  Place(r)' = Place(r)
  <2>1. ~At(r, "round", 1) /\ At(r, "round", 1)'
    BY <1>1, <1>6 DEF At, Op, StepsOn
  <2> QED BY <1>3, <1>6, <2>1 DEF Place, StepsOn
<1>7. ASSUME At(r, "round", 1), OpDone(r), Len(stream'[r]) = Len(stream[r]) + 2
      PROVE  Place(r)' = Place(r)
  <2>1. ~At(r, "round", 1)'
    BY <1>7 DEF At, OpDone
  <2> QED BY <1>3, <1>7, <2>1 DEF Place, OpDone
<1> QED BY <1>2, <1>4, <1>5, <1>6, <1>7

LEMMA FinishPlaces ==
  ASSUME TypeOK, InOrder, NEW r \in Ranks, stream[r] # <<>>, Finish(r), program' = program, host' = host
  PROVE  /\ \A x \in Ranks : x # r => Place(x)' = Place(x) /\ done'[x] = done[x]
         /\ Place(r)' = Place(r) + 1 /\ done'[r] = {}
<1>1. /\ \A q \in Ranks : q # r => stream'[q] = stream[q] /\ done'[q] = done[q]
      /\ Len(stream'[r]) = Len(stream[r]) - 1 /\ done'[r] = {}
  BY FinishEffect
<1>2. \A q \in Ranks : At(q, "round", 1)' <=> At(q, "round", 1)
  BY DEF At, Op
<1>3. \A x \in Ranks : x # r => Place(x)' = Place(x)
  BY <1>1, <1>2 DEF Place
<1>4. Len(stream[r]) \in Nat /\ host[r].op \in Nat
  BY StreamType, HostType
<1>5. Place(r)' = Place(r) + 1
  <2>1. PICK n \in Nat : n = Len(stream[r])
    BY <1>4
  <2>2. PICK h \in Nat : h = host[r].op
    BY <1>4
  <2>3. Len(stream'[r]) = n - 1 /\ host'[r].op = h
    BY <1>1, <2>1, <2>2
  <2>4. PICK s \in 0 .. 2 : s = IF At(r, "round", 1) THEN 2 ELSE 0
    OBVIOUS
  <2>5. s = IF At(r, "round", 1)' THEN 2 ELSE 0
    BY <1>2, <2>4
  <2>6. Place(r) = 4 * h + s - n
    BY <2>1, <2>2, <2>4 DEF Place
  <2>7. Place(r)' = 4 * h + s - (n - 1)
    BY <2>3, <2>5 DEF Place
  <2> QED BY <2>4, <2>6, <2>7
<1> QED BY <1>1, <1>3, <1>5

LEMMA UniformFacts ==
  ASSUME Uniform, TypeOK, NEW i \in Nat, NEW j \in Nat, 1 <= i, i <= j, j <= Len(program),
         \A c \in i .. j : Op(c).kind = "round"
  PROVE  Op(i).max = Op(j).max /\ Op(i).active = Op(j).active
<1>1. program \in Programs /\ DOMAIN program = 1 .. Len(program) /\ Len(program) \in Nat
  BY ProgramFacts DEF TypeOK
<1>2. i \in DOMAIN program /\ j \in DOMAIN program
  BY <1>1
<1>3. CASE i = j
  BY <1>3
<1>4. CASE i < j
  BY <1>1, <1>2, <1>4 DEF Uniform, Op
<1> QED BY <1>3, <1>4

OrderRight(r) == \A n \in 1 .. Len(stream[r]) :
  4 * stream[r][n].op + StageOf[stream[r][n].kind] = Place(r) + n - 1

LEMMA OrdersEach == ASSUME TypeOK PROVE InOrder <=> \A r \in Ranks : OrderRight(r)
BY StreamType DEF InOrder, OrderRight

LEMMA OrdersNext ==
  ASSUME TypeOK', \A r \in Ranks : OrderRight(r)'
  PROVE  InOrder'
<1>1. stream' \in [Ranks -> Seq(KernelType')]
  BY DEF TypeOK
<1>2. \A r \in Ranks : DOMAIN stream'[r] = 1 .. Len(stream'[r])
  BY <1>1
<1> QED BY <1>2 DEF InOrder, OrderRight

LEMMA LaunchOrder ==
  ASSUME TypeOK, NEW r \in Ranks, OrderRight(r), Advances(r), Place(r)' = Place(r),
         NEW a \in {"prepare_dispatch", "dispatch", "prepare_combine", "combine"},
         NEW b \in {"prepare_dispatch", "dispatch", "prepare_combine", "combine"},
         Launch(r, <<a, b>>),
         StageOf[b] = StageOf[a] + 1,
         StageOf[a] = IF At(r, "round", 1) THEN 2 ELSE 0
  PROVE  OrderRight(r)'
<1>1. PICK h \in Nat : h = host[r].op
  BY HostType
<1>2. PICK k \in Nat : k = Len(stream[r])
  BY StreamType
<1>3. PICK s \in 0 .. 2 : s = IF At(r, "round", 1) THEN 2 ELSE 0
  OBVIOUS
<1>4. /\ Len(stream'[r]) = k + 2
      /\ \A n \in 1 .. k : stream'[r][n] = stream[r][n]
      /\ stream'[r][k + 1].op = h /\ stream'[r][k + 2].op = h
      /\ stream'[r][k + 1].kind = a /\ stream'[r][k + 2].kind = b
  <2>1. host[r].op <= Len(program)
    BY DEF Advances
  <2>2. /\ Len(stream'[r]) = Len(stream[r]) + 2
        /\ \A n \in 1 .. Len(stream[r]) : stream'[r][n] = stream[r][n]
        /\ stream'[r][Len(stream[r]) + 1] = [kind |-> a, op |-> host[r].op]
        /\ stream'[r][Len(stream[r]) + 2] = [kind |-> b, op |-> host[r].op]
    BY <2>1, LaunchEffect
  <2> QED BY <1>1, <1>2, <2>2
<1>5. Place(r) = 4 * h + s - k /\ StageOf[a] = s /\ StageOf[b] = s + 1
  BY <1>1, <1>2, <1>3 DEF Place
<1>6. PICK p \in Int : p = Place(r)
  BY <1>3, <1>5
<1>7. \A n \in 1 .. k + 2 :
        4 * stream'[r][n].op + StageOf[stream'[r][n].kind] = p + n - 1
  <2> TAKE n \in 1 .. k + 2
  <2>1. CASE n \in 1 .. k
    BY <1>2, <1>4, <1>6, <2>1 DEF OrderRight
  <2>2. CASE n = k + 1
    BY <1>3, <1>4, <1>5, <1>6, <2>2
  <2>3. CASE n = k + 2
    <3>1. stream'[r][n].op = h /\ StageOf[stream'[r][n].kind] = s + 1
      BY <1>4, <1>5, <2>3
    <3> QED BY <1>3, <1>5, <1>6, <2>3, <3>1
  <2> QED BY <2>1, <2>2, <2>3
<1> QED BY <1>4, <1>6, <1>7 DEF OrderRight

LEMMA OrderKept ==
  ASSUME NEW x \in Ranks, OrderRight(x),
         (Place(x)' = Place(x) /\ stream'[x] = stream[x]) \/ Len(stream'[x]) = 0
  PROVE  OrderRight(x)'
BY DEF OrderRight

LEMMA FinishOrder ==
  ASSUME TypeOK, InOrder, NEW r \in Ranks, stream[r] # <<>>, Finish(r), program' = program, host' = host,
         NEW x \in Ranks
  PROVE  OrderRight(x)'
<1>1. OrderRight(x)
  BY OrdersEach
<1>2. CASE x # r
  BY <1>1, <1>2, FinishPlaces, FinishEffect, OrderKept
<1>3. CASE x = r
  <2>1. PICK p \in Nat : p = Place(r)
    BY Where
  <2>2. Place(r)' = p + 1
    BY <2>1, FinishPlaces
  <2>3. PICK k \in Nat : k = Len(stream'[r]) /\ Len(stream[r]) = k + 1
    BY FinishEffect, StreamType
  <2>4. \A n \in 1 .. k : stream'[r][n] = stream[r][n + 1] /\ n + 1 \in 1 .. Len(stream[r])
    BY <2>3, FinishEffect
  <2>5. \A n \in 1 .. k :
          4 * stream'[r][n].op + StageOf[stream'[r][n].kind] = p + (n + 1) - 1
    BY <1>1, <1>3, <2>1, <2>4 DEF OrderRight
  <2>6. \A n \in 1 .. k :
          4 * stream'[r][n].op + StageOf[stream'[r][n].kind] = (p + 1) + n - 1
    BY <2>1, <2>5
  <2> QED BY <1>3, <2>2, <2>3, <2>6 DEF OrderRight
<1> QED BY <1>2, <1>3

\* Every step of a host, and what it does to places and streams.
LEMMA HostEffect ==
  ASSUME Uniform, TypeOK, TypeOK', StreamsRight, InOrder, NEW r \in Ranks, HostStep(r)
  PROVE  /\ Advances(r) /\ \A x \in Ranks : OrderRight(x)'
         /\ \A x \in Ranks : x # r => Place(x)' = Place(x)
         /\ \/ Place(r)' = Place(r)
            \/ EndCheckpoint(r) /\ stream[r] = <<>> /\ Place(r)' = Place(r) + 4
            \/ Dispatch(r) /\ r \notin Op(host[r].op).active
         /\ \A x \in Ranks : stream[x] # <<>> => stream'[x] # <<>> /\ Kernel(x)' = Kernel(x)
<1>1. Advances(r) /\ StreamRight(r) /\ \A x \in Ranks : OrderRight(x)
  BY StreamsEach, OrdersEach, HostAdvances
<1>2. CASE (Dispatch(r) /\ r \in Op(host[r].op).active) \/ Combine(r)
  <2>1. PICK a, b \in {"prepare_dispatch", "dispatch", "prepare_combine", "combine"} :
           /\ Launch(r, <<a, b>>) /\ StageOf[b] = StageOf[a] + 1
           /\ StageOf[a] = IF At(r, "round", 1) THEN 2 ELSE 0
           /\ \/ At(r, "round", 0) /\ StepsOn(r)
              \/ At(r, "round", 1) /\ OpDone(r)
    <3>1. CASE Dispatch(r) /\ r \in Op(host[r].op).active
      <4>1. /\ At(r, "round", 0) /\ ~At(r, "round", 1) /\ Launch(r, <<"prepare_dispatch", "dispatch">>)
            /\ NextStep(r)
        BY <3>1 DEF Dispatch, At
      <4>2. StepsOn(r)
        BY <1>1, <4>1, NextStepEffect, HostType DEF Advances, OpDone
      <4> QED BY <4>1, <4>2 DEF StageOf
    <3>2. CASE Combine(r)
      <4>1. /\ At(r, "round", 1) /\ Launch(r, <<"prepare_combine", "combine">>) /\ NextOp(r)
            /\ host[r].op <= Len(program)
        BY <3>2 DEF Combine, At
      <4>2. OpDone(r)
        BY <1>1, <4>1, NextOpEffect, HostType DEF Advances, StepsOn
      <4> QED BY <4>1, <4>2 DEF StageOf
    <3> QED BY <1>2, <3>1, <3>2
  <2>2. host[r].op <= Len(program)
    BY <1>1 DEF Advances
  <2>3. /\ \A q \in Ranks : q # r => stream'[q] = stream[q]
        /\ Len(stream'[r]) = Len(stream[r]) + 2
        /\ \A n \in 1 .. Len(stream[r]) : stream'[r][n] = stream[r][n]
    BY <2>1, <2>2, LaunchEffect
  <2>4. \A x \in Ranks : Place(x)' = Place(x)
    BY <1>1, <2>1, <2>3, HostPlaces
  <2>5. OrderRight(r)'
    BY <1>1, <2>1, <2>4, LaunchOrder
  <2>6. \A x \in Ranks : x # r => OrderRight(x)'
    BY <1>1, <2>3, <2>4, OrderKept
  <2>7. stream[r] # <<>> => stream'[r] # <<>> /\ Kernel(r)' = Kernel(r)
    <3> SUFFICES ASSUME stream[r] # <<>> PROVE stream'[r] # <<>> /\ Kernel(r)' = Kernel(r)
      OBVIOUS
    <3>1. Len(stream[r]) > 0 /\ Len(stream[r]) \in Nat /\ Kernel(r) = stream[r][1]
      BY StreamType
    <3>2. stream'[r][1] = stream[r][1] /\ Len(stream'[r]) > 0
      BY <2>3, <3>1
    <3>3. stream'[r] \in Seq(KernelType')
      BY DEF TypeOK
    <3>4. stream'[r] # <<>> /\ Head(stream'[r]) = stream'[r][1]
      BY <3>2, <3>3, EmptySeq
    <3> QED BY <3>1, <3>2, <3>4 DEF Kernel
  <2>8. \A x \in Ranks : x # r => (stream[x] # <<>> => stream'[x] # <<>> /\ Kernel(x)' = Kernel(x))
    BY <2>3 DEF Kernel
  <2> QED BY <1>1, <2>4, <2>5, <2>6, <2>7, <2>8
<1>3. CASE Dispatch(r) /\ r \notin Op(host[r].op).active
  <2>1. /\ stream' = stream /\ NextOp(r) /\ host[r].op <= Len(program) /\ At(r, "round", 0)
        /\ ~At(r, "round", 1)
    BY <1>3 DEF Dispatch, At
  <2>2. OpDone(r)
    BY <1>1, <2>1, NextOpEffect, HostType DEF Advances, StepsOn
  <2>3. stream[r] = <<>>
    <3> SUFFICES ASSUME stream[r] # <<>> PROVE FALSE
      OBVIOUS
    <3>1. PICK h \in Nat : h = host[r].op
      BY HostType
    <3>2. PICK j \in 1 .. Len(program) : j = stream[r][1].op /\ KernelRight(r, j)
      BY <1>1, StreamType DEF StreamRight
    <3>3. Op(h).kind = "round" /\ host[r].step = 0 /\ h <= Len(program) /\ r \notin Op(h).active
      BY <1>3, <2>1, <3>1 DEF At
    <3>4. j < h /\ Len(program) \in Nat
      BY <3>1, <3>2, <3>3, HostType DEF KernelRight, Reached
    <3>5. \A c \in j .. h : Op(c).kind = "round"
      <4> SUFFICES ASSUME NEW c \in j .. h, c # h PROVE Op(c).kind = "round"
        BY <3>3
      <4>1. c \in j .. h - 1 /\ c <= Len(program)
        BY <3>3, <3>4
      <4>2. ~Checkpoint(c)
        BY <3>1, <3>2, <4>1 DEF KernelRight
      <4> QED BY <4>1, <4>2 DEF Checkpoint
    <3>6. Op(j).active = Op(h).active
      BY <3>3, <3>4, <3>5, UniformFacts
    <3> QED BY <3>2, <3>3, <3>6 DEF KernelRight
  <2>4. \A x \in Ranks : stream'[x] = stream[x]
    BY <2>1
  <2>5. \A x \in Ranks : x # r => Place(x)' = Place(x)
    BY <1>1, <2>4, HostPlaces
  <2>6. Len(stream'[r]) = 0
    BY <2>1, <2>3, StreamType
  <2>7. \A x \in Ranks : OrderRight(x)'
    BY <1>1, <2>4, <2>5, <2>6, OrderKept
  <2> QED BY <1>1, <1>3, <2>4, <2>5, <2>7 DEF Kernel
<1>4. CASE Synchronize(r) \/ Unmap(r) \/ Map(r) \/ ClearRow(r)
  <2>1. stream' = stream /\ Checkpoint(host[r].op) /\ NextStep(r)
    BY <1>4 DEF Synchronize, Unmap, Map, ClearRow, At, Checkpoint, device
  <2>2. StepsOn(r)
    BY <1>1, <2>1, NextStepEffect, HostType DEF Advances, OpDone
  <2>3. \A x \in Ranks : Place(x)' = Place(x) /\ stream'[x] = stream[x]
    BY <1>1, <2>1, <2>2, HostPlaces
  <2> QED BY <1>1, <2>3, OrderKept DEF Kernel
<1>5. CASE EndCheckpoint(r)
  <2>1. /\ stream' = stream /\ Checkpoint(host[r].op) /\ NextOp(r) /\ ~At(r, "round", 1)
        /\ host[r].op <= Len(program) /\ host[r].step # 0
    BY <1>5 DEF EndCheckpoint, At, Checkpoint, device
  <2>2. OpDone(r)
    BY <1>1, <2>1, NextOpEffect, HostType DEF Advances, StepsOn
  <2>3. stream[r] = <<>> /\ Len(stream'[r]) = 0
    BY <1>1, <2>1, StreamType DEF StreamRight
  <2>4. Place(r)' = Place(r) + 4 /\ \A x \in Ranks : x # r => Place(x)' = Place(x)
    BY <1>1, <2>1, <2>2, HostPlaces
  <2>5. \A x \in Ranks : OrderRight(x)'
    BY <1>1, <2>1, <2>3, <2>4, OrderKept
  <2> QED BY <1>1, <1>5, <2>1, <2>3, <2>4, <2>5 DEF Kernel
<1> QED BY <1>2, <1>3, <1>4, <1>5 DEF HostStep

-----------------------------------------------------------------------------
\* The acts of the kernels.
DoneOk(r) ==
  \A b \in 0 .. MaxTokens - 1, q \in Ranks :
    /\ <<"send", b, q>> \in done[r] => Running(r, "dispatch")
    /\ <<"read", b, q>> \in done[r] => Running(r, "combine") /\ Did(r, "wait", b)
    /\ <<"signal", b, q>> \in done[r] =>
         (Running(r, "dispatch") /\ Did(r, "send", 0)) \/ Running(r, "combine")
    /\ <<"wait", b, q>> \in done[r] =>
         /\ Running(r, "dispatch") \/ Running(r, "combine")
         /\ b = 0 => Did(r, "signal", 0)

LEMMA DoneEach == DoneRight <=> \A r \in Ranks : DoneOk(r)
BY DEF DoneRight, DoneOk

LEMMA DoneKept ==
  ASSUME NEW x \in Ranks, DoneOk(x), program' = program, done'[x] = done[x],
         stream[x] # <<>> => stream'[x] # <<>> /\ Kernel(x)' = Kernel(x)
  PROVE  DoneOk(x)'
<1>1. \A k : Running(x, k) => Running(x, k)'
  BY DEF Running
<1>2. stream[x] # <<>> => \A w, b : Did(x, w, b)' <=> Did(x, w, b)
  BY DEF Did, Round, Op
<1>3. (\E k : Running(x, k)) => stream[x] # <<>>
  BY DEF Running
<1> QED BY <1>1, <1>2, <1>3 DEF DoneOk

LEMMA DoneEmpty ==
  ASSUME NEW x \in Ranks, done'[x] = {} PROVE DoneOk(x)'
BY DEF DoneOk

\* An act may be done.
MayDo(r, what, b) ==
  /\ what = "send" => Running(r, "dispatch")
  /\ what = "read" => Running(r, "combine") /\ Did(r, "wait", b)
  /\ what = "signal" => (Running(r, "dispatch") /\ Did(r, "send", 0)) \/ Running(r, "combine")
  /\ what = "wait" => /\ Running(r, "dispatch") \/ Running(r, "combine")
                      /\ b = 0 => Did(r, "signal", 0)

LEMMA DoneGrows ==
  ASSUME NEW r \in Ranks, DoneOk(r), program' = program, stream' = stream,
         NEW what \in {"send", "signal", "wait", "read"}, NEW b \in 0 .. MaxTokens - 1, NEW q \in Ranks,
         done'[r] = done[r] \cup {<<what, b, q>>}, MayDo(r, what, b)
  PROVE  DoneOk(r)'
<1>1. \A k : Running(r, k) <=> Running(r, k)'
  BY DEF Running, Kernel
<1>2. \A w, c : Did(r, w, c) => Did(r, w, c)'
  BY DEF Did, Round, Op, Kernel
<1>3. \A w, c, p : <<w, c, p>> \in done'[r] => <<w, c, p>> \in done[r] \/ (w = what /\ c = b /\ p = q)
  OBVIOUS
<1>4. ASSUME NEW c \in 0 .. MaxTokens - 1, NEW p \in Ranks, <<"send", c, p>> \in done'[r]
      PROVE  Running(r, "dispatch")'
  BY <1>1, <1>3, <1>4 DEF DoneOk, MayDo
<1>5. ASSUME NEW c \in 0 .. MaxTokens - 1, NEW p \in Ranks, <<"read", c, p>> \in done'[r]
      PROVE  Running(r, "combine")' /\ Did(r, "wait", c)'
  BY <1>1, <1>2, <1>3, <1>5 DEF DoneOk, MayDo
<1>6. ASSUME NEW c \in 0 .. MaxTokens - 1, NEW p \in Ranks, <<"signal", c, p>> \in done'[r]
      PROVE  (Running(r, "dispatch")' /\ Did(r, "send", 0)') \/ Running(r, "combine")'
  BY <1>1, <1>2, <1>3, <1>6 DEF DoneOk, MayDo
<1>7. ASSUME NEW c \in 0 .. MaxTokens - 1, NEW p \in Ranks, <<"wait", c, p>> \in done'[r]
      PROVE  /\ Running(r, "dispatch")' \/ Running(r, "combine")'
             /\ c = 0 => Did(r, "signal", 0)'
  BY <1>1, <1>2, <1>3, <1>7 DEF DoneOk, MayDo
<1> QED BY <1>4, <1>5, <1>6, <1>7 DEF DoneOk

LEMMA DeviceDone ==
  ASSUME TypeOK, DoneRight, NEW r \in Ranks, DeviceStep(r)
  PROVE  DoneRight'
<1>1. \A x \in Ranks : DoneOk(x)
  BY DoneEach
<1>2. program' = program /\ host' = host /\ stream[r] # <<>>
  BY DeviceEffect
<1>3. CASE Finish(r)
  <2>1. \A q \in Ranks : q # r => stream'[q] = stream[q] /\ done'[q] = done[q]
    BY <1>2, <1>3, FinishEffect
  <2>2. done'[r] = {}
    BY <1>2, <1>3, FinishEffect
  <2>3. \A x \in Ranks : DoneOk(x)'
    BY <1>1, <1>2, <2>1, <2>2, DoneKept, DoneEmpty DEF Kernel
  <2> QED BY <2>3 DEF DoneRight, DoneOk
<1>4. ASSUME NEW what \in {"send", "signal", "wait", "read"}, NEW b \in 0 .. MaxTokens - 1, NEW q \in Ranks,
             Does(r, <<what, b, q>>), MayDo(r, what, b), stream' = stream
      PROVE  DoneRight'
  <2>1. /\ done'[r] = done[r] \cup {<<what, b, q>>}
        /\ \A p \in Ranks : p # r => done'[p] = done[p]
    BY <1>4, DoesType
  <2>2. DoneOk(r)'
    BY <1>1, <1>2, <1>4, <2>1, DoneGrows
  <2>3. \A x \in Ranks : x # r => DoneOk(x)'
    BY <1>1, <1>2, <1>4, <2>1, DoneKept DEF Kernel
  <2>4. \A x \in Ranks : DoneOk(x)'
    BY <2>2, <2>3
  <2> QED BY <2>4 DEF DoneRight, DoneOk
<1>5. 0 \in 0 .. MaxTokens - 1 /\ Round(r).active \subseteq Ranks
  BY <1>2, RankFacts, KernelFacts
<1>6. ASSUME NEW q \in Round(r).active, Send(r, q) PROVE DoneRight'
  BY <1>4, <1>5, <1>6 DEF Send, MayDo
<1>7. ASSUME NEW q \in Round(r).active, SignalDispatch(r, q) PROVE DoneRight'
  BY <1>4, <1>5, <1>7 DEF SignalDispatch, MayDo
<1>8. ASSUME NEW q \in Round(r).active, WaitDispatch(r, q) PROVE DoneRight'
  BY <1>4, <1>5, <1>8 DEF WaitDispatch, MayDo
<1>9. ASSUME NEW q \in Round(r).active, SignalCombine(r, q) PROVE DoneRight'
  BY <1>4, <1>5, <1>9 DEF SignalCombine, MayDo
<1>10. ASSUME NEW q \in Round(r).active, NEW b \in 0 .. MaxTokens - 1, WaitCombine(r, b, q) PROVE DoneRight'
  BY <1>4, <1>5, <1>10 DEF WaitCombine, MayDo
<1>11. ASSUME NEW q \in Round(r).active, NEW b \in 0 .. MaxTokens - 1, Read(r, b, q) PROVE DoneRight'
  BY <1>4, <1>5, <1>11 DEF Read, MayDo
<1>12. CASE Ends(r)
  BY <1>3, <1>12 DEF Ends, PrepareDispatch, EndDispatch, PrepareCombine, EndCombine
<1> QED BY <1>6, <1>7, <1>8, <1>9, <1>10, <1>11, <1>12 DEF DeviceStep, Ends

LEMMA HostDone ==
  ASSUME Uniform, TypeOK, TypeOK', StreamsRight, InOrder, DoneRight, NEW r \in Ranks, HostStep(r)
  PROVE  DoneRight' /\ done' = done /\ out' = out
<1>1. done' = done /\ out' = out
  BY DEF HostStep, Dispatch, Combine, Synchronize, Unmap, Map, ClearRow, EndCheckpoint, device
<1>2. program' = program
  BY HostAdvances DEF Advances
<1>3. \A x \in Ranks : DoneOk(x)'
  BY <1>1, <1>2, HostEffect, DoneEach, DoneKept
<1> QED BY <1>1, <1>3 DEF DoneRight, DoneOk

-----------------------------------------------------------------------------
\* Epochs.
LEMMA DivFacts ==
  ASSUME NEW n \in Nat, NEW g \in Nat, g > 0
  PROVE  /\ n \div g \in Nat
         /\ (n % g) \in Nat /\ (n % g) < g
         /\ n = g * (n \div g) + (n % g)
<1>1. (n \div g) \in Int /\ (n \div g) >= 0
  OBVIOUS
<1>2. (n % g) \in 0 .. g - 1
  OBVIOUS
<1>3. n = g * (n \div g) + (n % g)
  OBVIOUS
<1> QED BY <1>1, <1>2, <1>3

LEMMA ModUnique ==
  ASSUME NEW n \in Nat, NEW g \in Nat, g > 0, NEW q \in Int, NEW m \in Nat, m < g,
         n = g * q + m
  PROVE  n % g = m
OBVIOUS

LEMMA ModSmall == ASSUME NEW n \in Nat, NEW g \in Nat, n < g PROVE n % g = n
OBVIOUS

LEMMA ModNext ==
  ASSUME NEW n \in Nat, NEW g \in Nat, g > 1
  PROVE  (n + 1) % g = ((n % g) + 1) % g
<1> DEFINE q == n \div g
           m == n % g
<1>1. q \in Nat /\ m \in Nat /\ m < g /\ n = g * q + m
  BY DivFacts
<1> HIDE DEF q, m
<1>2. CASE m + 1 < g
  <2>1. n + 1 = g * q + (m + 1)
    BY <1>1
  <2>2. (n + 1) % g = m + 1
    BY <1>1, <1>2, <2>1, ModUnique
  <2>3. (m + 1) % g = m + 1
    BY <1>1, <1>2, ModSmall
  <2> QED BY <2>2, <2>3 DEF m
<1>3. CASE m + 1 >= g
  <2>1. m + 1 = g
    BY <1>1, <1>3
  <2>2. g * (q + 1) = g * q + g
    BY <1>1
  <2>3. n + 1 = g * (q + 1) + 0
    BY <1>1, <2>1, <2>2
  <2>4. (n + 1) % g = 0
    BY <1>1, <2>3, ModUnique
  <2>5. m + 1 = g * 1 + 0
    BY <1>1, <2>1
  <2>6. (m + 1) % g = 0
    BY <1>1, <2>5, ModUnique
  <2> QED BY <2>4, <2>6 DEF m
<1> QED BY <1>1, <1>2, <1>3

LEMMA ModTwo ==
  ASSUME NEW n \in Nat, NEW g \in Nat, g > 2
  PROVE  (n + 2) % g # n % g
<1> DEFINE a == n \div g
           b == (n + 2) \div g
           m == n % g
<1>1. a \in Nat /\ m \in Nat /\ m < g /\ n = g * a + m
  BY DivFacts
<1>2. n + 2 \in Nat
  OBVIOUS
<1>3. b \in Nat /\ n + 2 = g * b + ((n + 2) % g)
  BY <1>2, DivFacts
<1> HIDE DEF a, b, m
<1>4. ASSUME (n + 2) % g = m PROVE FALSE
  <2>1. g * a \in Nat /\ g * b \in Nat /\ g * b = g * a + 2
    BY <1>1, <1>3, <1>4
  <2>2. CASE b <= a
    <3>1. g * b <= g * a
      BY <1>1, <1>3, <2>2
    <3> QED BY <2>1, <3>1
  <2>3. CASE b > a
    <3>1. g * (a + 1) <= g * b
      BY <1>1, <1>3, <2>3
    <3>2. g * (a + 1) = g * a + g
      BY <1>1
    <3> QED BY <1>1, <2>1, <3>1, <3>2
  <2> QED BY <1>1, <1>3, <2>2, <2>3
<1> QED BY <1>4 DEF m

LEMMA EpochNext ==
  ASSUME NEW m \in Nat, NEW i \in Nat, m < i
  PROVE  /\ NextEpoch(CombineEpoch(i - 1, m)) = DispatchEpoch(i, m)
         /\ NextEpoch(DispatchEpoch(i, m)) = CombineEpoch(i, m)
<1>0. FlagCount \in Nat /\ FlagCount > 2
  BY RankFacts
<1>1. PICK n \in Nat : i = m + 1 + n
  <2>1. i - m - 1 \in Nat /\ i = m + 1 + (i - m - 1)
    OBVIOUS
  <2> QED BY <2>1
<1>2. DispatchEpoch(i, m) = (2 * n + 1) % FlagCount
  <2>1. 2 * (i - m) - 1 = 2 * n + 1 /\ ~(i <= m)
    BY <1>1
  <2> QED BY <2>1 DEF DispatchEpoch
<1>3. CombineEpoch(i, m) = (2 * n + 2) % FlagCount
  <2>1. 2 * (i - m) = 2 * n + 2 /\ ~(i <= m)
    BY <1>1
  <2> QED BY <2>1 DEF CombineEpoch
<1>4. CombineEpoch(i - 1, m) = (2 * n) % FlagCount
  <2>1. CASE n = 0
    <3>1. i - 1 <= m /\ 2 * n = 0 /\ 0 % FlagCount = 0
      BY <1>0, <1>1, <2>1, ModSmall
    <3> QED BY <3>1 DEF CombineEpoch
  <2>2. CASE n > 0
    <3>1. 2 * (i - 1 - m) = 2 * n /\ ~(i - 1 <= m)
      BY <1>1, <2>2
    <3> QED BY <3>1 DEF CombineEpoch
  <2> QED BY <2>1, <2>2
<1>5. (2 * n + 1) % FlagCount = (((2 * n) % FlagCount) + 1) % FlagCount
  <2>1. 2 * n \in Nat /\ FlagCount > 1
    BY <1>0
  <2> QED BY <1>0, <2>1, ModNext
<1>6. (2 * n + 2) % FlagCount = (((2 * n + 1) % FlagCount) + 1) % FlagCount
  <2>1. 2 * n + 1 \in Nat /\ FlagCount > 1 /\ (2 * n + 1) + 1 = 2 * n + 2
    BY <1>0
  <2>2. ((2 * n + 1) + 1) % FlagCount = (((2 * n + 1) % FlagCount) + 1) % FlagCount
    BY <1>0, <2>1, ModNext
  <2> QED BY <2>1, <2>2
<1> QED BY <1>2, <1>3, <1>4, <1>5, <1>6 DEF NextEpoch

\* A flag of the round before, or of none, is not the epoch of this one.
LEMMA EpochApart ==
  ASSUME NEW m \in Nat, NEW i \in Nat, m < i, NEW j \in Int, j < i,
         i > m + 1 => j = i - 1
  PROVE  /\ DispatchEpoch(j, m) # DispatchEpoch(i, m)
         /\ CombineEpoch(j, m) # CombineEpoch(i, m)
<1>0. FlagCount \in Nat /\ FlagCount > 2
  BY RankFacts
<1>1. CASE i = m + 1
  <2>1. DispatchEpoch(j, m) = 0 /\ CombineEpoch(j, m) = 0
    BY <1>1 DEF DispatchEpoch, CombineEpoch
  <2>2. 2 * (i - m) - 1 = 1 /\ 2 * (i - m) = 2 /\ ~(i <= m)
    BY <1>1
  <2>3. DispatchEpoch(i, m) = 1 % FlagCount /\ CombineEpoch(i, m) = 2 % FlagCount
    BY <2>2 DEF DispatchEpoch, CombineEpoch
  <2>4. 1 % FlagCount = 1 /\ 2 % FlagCount = 2
    BY <1>0, ModSmall
  <2> QED BY <2>1, <2>3, <2>4
<1>2. CASE i > m + 1
  <2>1. PICK n \in Nat : j = m + 1 + n
    <3>1. j - m - 1 \in Nat /\ j = m + 1 + (j - m - 1)
      BY <1>2
    <3> QED BY <3>1
  <2>2. i = m + 2 + n /\ ~(i <= m) /\ ~(j <= m)
    BY <1>2, <2>1
  <2>3. /\ 2 * (i - m) - 1 = (2 * n + 1) + 2 /\ 2 * (i - m) = (2 * n + 2) + 2
        /\ 2 * (j - m) - 1 = 2 * n + 1 /\ 2 * (j - m) = 2 * n + 2
    BY <2>1, <2>2
  <2>4. 2 * n + 1 \in Nat /\ 2 * n + 2 \in Nat
    OBVIOUS
  <2>5. /\ ((2 * n + 1) + 2) % FlagCount # (2 * n + 1) % FlagCount
        /\ ((2 * n + 2) + 2) % FlagCount # (2 * n + 2) % FlagCount
    BY <1>0, <2>4, ModTwo
  <2> QED BY <2>2, <2>3, <2>5 DEF DispatchEpoch, CombineEpoch
<1> QED BY <1>1, <1>2

-----------------------------------------------------------------------------
\* Cells of the payload space.
LEMMA CellArithmetic ==
  ASSUME NEW e \in Nat, NEW x \in Nat, x > 0, NEW q \in Nat, q < e, NEW t \in 0 .. x - 1
  PROVE  /\ q * x + t \in Nat /\ q * x + t < e * x /\ q * x \in Nat /\ e * x \in Nat
         /\ \A p \in Nat, u \in 0 .. x - 1 : q * x + t = p * x + u => p = q /\ u = t
<1>1. q * x \in Nat /\ e * x \in Nat
  OBVIOUS
<1>2. (q + 1) * x <= e * x /\ (q + 1) * x = q * x + x
  OBVIOUS
<1>3. ASSUME NEW p \in Nat, NEW u \in 0 .. x - 1, q * x + t = p * x + u
      PROVE  p = q /\ u = t
  <2>1. p * x \in Nat
    OBVIOUS
  <2>2. CASE p < q
    <3>1. (p + 1) * x <= q * x /\ (p + 1) * x = p * x + x
      BY <2>2
    <3> QED BY <1>1, <1>3, <2>1, <3>1
  <2>3. CASE p > q
    <3>1. (q + 1) * x <= p * x
      BY <2>3
    <3> QED BY <1>1, <1>2, <1>3, <2>1, <3>1
  <2>4. CASE p = q
    BY <1>1, <1>3, <2>4
  <2> QED BY <2>2, <2>3, <2>4
<1> QED BY <1>1, <1>2, <1>3

LEMMA CellFacts ==
  ASSUME NEW op, op.max \in Nat, op.max > 0, op.max <= MaxTokens,
         NEW q \in Ranks, NEW t \in 0 .. op.max - 1
  PROVE  /\ RecvCell(op, q, t) \in Cells /\ CombineCell(op, q, t) \in Cells
         /\ RecvCell(op, q, t) - RecvCell(op, q, 0) = t
         /\ \A p \in Ranks, u \in 0 .. op.max - 1 :
              /\ RecvCell(op, q, t) = RecvCell(op, p, u) => p = q /\ u = t
              /\ CombineCell(op, q, t) = CombineCell(op, p, u) => p = q /\ u = t
              /\ RecvCell(op, q, t) # CombineCell(op, p, u)
<1> DEFINE x == op.max
           e == EpSize
<1>1. /\ x \in Nat /\ x > 0 /\ e \in Nat /\ q \in Nat /\ q < e /\ t \in 0 .. x - 1
      /\ MaxTokens \in Nat /\ x <= MaxTokens
  BY RankFacts
<1>2. /\ RecvCell(op, q, t) = q * x + t /\ CombineCell(op, q, t) = e * x + q * x + t
      /\ RecvCell(op, q, 0) = q * x + 0
  BY DEF RecvCell, CombineCell
<1> HIDE DEF x, e
<1>3. /\ q * x + t \in Nat /\ q * x + t < e * x /\ q * x \in Nat /\ e * x \in Nat
      /\ \A p \in Nat, u \in 0 .. x - 1 : q * x + t = p * x + u => p = q /\ u = t
  BY <1>1, CellArithmetic
<1>4. e * x <= e * MaxTokens /\ e * MaxTokens \in Nat
  BY <1>1
<1>5. Cells = 0 .. 2 * (e * MaxTokens) - 1
  <2>1. 2 * EpSize * MaxTokens = 2 * (EpSize * MaxTokens)
    BY RankFacts
  <2> QED BY <2>1 DEF Cells, e
<1>6. RecvCell(op, q, t) \in Cells /\ CombineCell(op, q, t) \in Cells
  BY <1>1, <1>2, <1>3, <1>4, <1>5
<1>7. RecvCell(op, q, t) - RecvCell(op, q, 0) = t
  BY <1>1, <1>2, <1>3
<1>8. ASSUME NEW p \in Ranks, NEW u \in 0 .. op.max - 1
      PROVE  /\ RecvCell(op, q, t) = RecvCell(op, p, u) => p = q /\ u = t
             /\ CombineCell(op, q, t) = CombineCell(op, p, u) => p = q /\ u = t
             /\ RecvCell(op, q, t) # CombineCell(op, p, u)
  <2>1. p \in Nat /\ p < e /\ u \in 0 .. x - 1
    BY <1>8, RankFacts DEF x, e
  <2>2. RecvCell(op, p, u) = p * x + u /\ CombineCell(op, p, u) = e * x + p * x + u
    BY DEF RecvCell, CombineCell, x, e
  <2>3. p * x + u \in Nat /\ p * x \in Nat
    BY <1>1, <2>1, CellArithmetic
  <2>4. q * x + t = p * x + u => p = q /\ u = t
    BY <1>3, <2>1
  <2>5. e * x + q * x + t = e * x + p * x + u => q * x + t = p * x + u
    BY <1>1, <1>3, <2>1, <2>3
  <2>6. q * x + t # e * x + p * x + u
    BY <1>1, <1>3, <2>1, <2>3
  <2> QED BY <1>2, <2>2, <2>4, <2>5, <2>6
<1> QED BY <1>6, <1>7, <1>8

-----------------------------------------------------------------------------
\* The rounds after a map operation.
LEMMA RoundsAfter ==
  ASSUME Uniform, TypeOK, NEW m \in 1 .. Len(program), Current(m), NEW y \in Ranks,
         NEW j \in Nat, m < j, j <= Len(program),
         j < host[y].op \/ (j = host[y].op /\ Op(j).kind = "round")
  PROVE  /\ Op(j).kind = "round" /\ Op(j).max = Op(m + 1).max /\ Op(j).active = Op(m + 1).active
         /\ m + 1 \in 1 .. Len(program) /\ Op(m + 1).kind = "round"
<1>1. PICK h \in Nat : h = host[y].op
  BY HostType
<1>2. m \in Nat /\ Len(program) \in Nat
  BY HostType
<1>3. \A c \in m + 1 .. j : Op(c).kind = "round"
  <2> SUFFICES ASSUME NEW c \in m + 1 .. j, Op(c).kind # "round" PROVE FALSE
    OBVIOUS
  <2>1. c < h /\ c \in Nat /\ c \in m + 1 .. Len(program)
    BY <1>1, <1>2
  <2>2. Reached(y, c, 2)
    BY <1>1, <2>1 DEF Reached
  <2>3. Checkpoint(c)
    BY <2>1 DEF Checkpoint
  <2> QED BY <2>1, <2>2, <2>3 DEF Current
<1>4. m + 1 \in Nat /\ 1 <= m + 1 /\ m + 1 <= j /\ m + 1 \in 1 .. Len(program)
  BY <1>2
<1>5. Op(m + 1).max = Op(j).max /\ Op(m + 1).active = Op(j).active
  BY <1>3, <1>4, UniformFacts
<1> QED BY <1>3, <1>4, <1>5

\* The operations that the progress of a rank speaks of are rounds.
LEMMA ProgressRounds ==
  ASSUME Uniform, Ready, InOrder, NEW m \in 1 .. Len(program), Current(m), NEW y \in Ranks,
         NEW j \in Int, m < j, j = OpNow(y) - 1 \/ (j = OpNow(y) /\ Stage(y) > 0)
  PROVE  /\ j \in 1 .. Len(program) /\ Op(j).max = Op(m + 1).max
         /\ Op(j).max \in Nat /\ Op(j).max > 0 /\ Op(j).max <= MaxTokens
         /\ \A q \in Ranks : Op(j).tokens[q] \in Nat /\ Op(j).tokens[q] <= Op(j).max
<1>1. TypeOK /\ StreamRight(y)
  BY StreamsEach DEF Ready
<1>2. PICK h \in Nat : h = host[y].op /\ h <= Len(program) + 1
  BY <1>1, HostType
<1>3. m \in Nat /\ Len(program) \in Nat /\ program \in Programs /\ j \in Nat
  BY <1>1, HostType
<1>4. OpNow(y) \in Nat /\ OpNow(y) <= h
  BY <1>1, <1>2, Where
<1>5. j <= Len(program) /\ (j < h \/ (j = h /\ Op(j).kind = "round"))
  <2>1. CASE j = OpNow(y) - 1
    BY <1>2, <1>3, <1>4, <2>1
  <2>2. CASE j = OpNow(y) /\ Stage(y) > 0 /\ stream[y] = <<>>
    <3>1. At(y, "round", 1) /\ j = h
      BY <1>1, <1>2, <2>2, Where
    <3> QED BY <1>2, <3>1 DEF At
  <2>3. CASE j = OpNow(y) /\ stream[y] # <<>>
    <3>1. j = stream[y][1].op /\ 1 \in DOMAIN stream[y] /\ j \in 1 .. Len(program)
      BY <1>1, <2>3, Where, StreamType
    <3>2. Op(j).kind = "round"
      BY <1>1, <3>1 DEF StreamRight, KernelRight
    <3> QED BY <1>3, <1>4, <2>3, <3>1, <3>2
  <2> QED BY <2>1, <2>2, <2>3
<1>6. Op(j).max = Op(m + 1).max
  BY <1>1, <1>2, <1>3, <1>5, RoundsAfter
<1> QED BY <1>3, <1>5, <1>6, ProgramFacts

\* A running kernel belongs to the rounds after the only map operation whose
\* row clearing is over and that is current.
LEMMA SegmentIs ==
  ASSUME Uniform, Ready, NEW r \in Ranks, stream[r] # <<>>,
         NEW m \in 1 .. Len(program), Current(m), NEW x \in Ranks, Cleared(x, m)
  PROVE  /\ m < Kernel(r).op
         /\ \A q \in Ranks : Cleared(q, m) /\ (Member(q, m) <=> q \in Round(r).active)
         /\ Round(r).max = Op(m + 1).max
<1>1. TypeOK /\ StreamRight(r)
  BY StreamsEach DEF Ready
<1>2. PICK n \in 1 .. Len(program) :
           /\ n < Kernel(r).op /\ Current(n)
           /\ \A q \in Ranks : Cleared(q, n) /\ MapOf(q, n)
           /\ \A c \in n + 1 .. Kernel(r).op : ~Checkpoint(c)
  BY SegmentFacts
<1>3. m \in Nat /\ n \in Nat /\ Len(program) \in Nat /\ program \in Programs
  BY <1>1, HostType
<1>4. Checkpoint(m) /\ Checkpoint(n)
  BY <1>2, <1>3 DEF Current, Checkpoint
<1>5. m = n
  <2>1. CASE m < n
    <3>1. n \in m + 1 .. Len(program) /\ Reached(x, n, 2)
      BY <1>1, <1>2, <1>3, <2>1, ReachedDown DEF Cleared
    <3> QED BY <1>4, <3>1 DEF Current
  <2>2. CASE n < m
    <3>1. m \in n + 1 .. Len(program) /\ Reached(x, m, 2)
      BY <1>1, <1>3, <2>2, ReachedDown DEF Cleared
    <3> QED BY <1>2, <1>4, <3>1 DEF Current
  <2> QED BY <1>3, <2>1, <2>2
<1>6. PICK i \in 1 .. Len(program) : i = Kernel(r).op /\ i = stream[r][1].op /\ 1 \in DOMAIN stream[r]
  BY <1>1, KernelFacts, StreamType
<1>7. KernelRight(r, i)
  BY <1>1, <1>6 DEF StreamRight
<1>8. i \in Nat /\ m < i /\ i <= host[r].op /\ i <= Len(program)
  BY <1>1, <1>2, <1>3, <1>5, <1>6, <1>7, HostType DEF KernelRight, Reached
<1>9. i < host[r].op \/ (i = host[r].op /\ Op(i).kind = "round")
  BY <1>1, <1>7, <1>8, HostType DEF KernelRight
<1>10. /\ Op(i).max = Op(m + 1).max /\ Op(i).active = Op(m + 1).active
       /\ m + 1 \in 1 .. Len(program) /\ Op(m + 1).kind = "round"
  BY <1>1, <1>8, <1>9, RoundsAfter
<1>11. Round(r) = Op(i) /\ m + 1 <= Len(program)
  BY <1>3, <1>6, <1>10 DEF Round
<1>12. \A q \in Ranks : Cleared(q, m) /\ (Member(q, m) <=> q \in Round(r).active)
  BY <1>2, <1>5, <1>10, <1>11 DEF Member
<1> QED BY <1>6, <1>8, <1>10, <1>11, <1>12

-----------------------------------------------------------------------------
\* Progress of the ranks.
LEMMA ProgressFacts ==
  ASSUME TypeOK, InOrder, NEW y \in Ranks, NEW x \in Ranks
  PROVE  /\ OpNow(y) \in Nat /\ Stage(y) \in 0 .. 3
         /\ SentTo(y, x) \in Int /\ Dispatched(y, x) \in Int /\ Combined(y, x) \in Int
         /\ Prepared(y) \in Int
         /\ SentTo(y, x) = OpNow(y) - 1 \/ (SentTo(y, x) = OpNow(y) /\ Stage(y) > 0)
         /\ Dispatched(y, x) = OpNow(y) - 1 \/ (Dispatched(y, x) = OpNow(y) /\ Stage(y) > 0)
         /\ Combined(y, x) = OpNow(y) - 1 \/ (Combined(y, x) = OpNow(y) /\ Stage(y) = 3)
         /\ Prepared(y) = OpNow(y) - 1 \/ (Prepared(y) = OpNow(y) /\ Stage(y) = 3)
         /\ Combined(y, x) <= Prepared(y) /\ Combined(y, x) <= Dispatched(y, x)
<1>1. OpNow(y) \in Nat /\ Stage(y) \in 0 .. 3
  BY Where
<1> QED BY <1>1 DEF SentTo, Dispatched, Combined, Prepared

\* The rank is where it was.
Same(y) == Place(y)' = Place(y) /\ done'[y] = done[y]
SameTo(y, x) == /\ SentTo(y, x)' = SentTo(y, x) /\ Dispatched(y, x)' = Dispatched(y, x)
                /\ Combined(y, x)' = Combined(y, x)
SamePlace(y) == OpNow(y)' = OpNow(y) /\ Stage(y)' = Stage(y)

LEMMA PlaceGives ==
  ASSUME NEW y \in Ranks, Place(y)' = Place(y)
  PROVE  SamePlace(y) /\ Prepared(y)' = Prepared(y)
BY DEF SamePlace, OpNow, Stage, Prepared

LEMMA SameGives ==
  ASSUME NEW y \in Ranks, Same(y)
  PROVE  /\ SamePlace(y) /\ Prepared(y)' = Prepared(y)
         /\ \A x \in Ranks : SameTo(y, x)
<1>1. SamePlace(y) /\ Prepared(y)' = Prepared(y)
  BY PlaceGives DEF Same
<1>2. \A x \in Ranks : SameTo(y, x)
  BY <1>1 DEF Same, SamePlace, SameTo, SentTo, Dispatched, Combined
<1> QED BY <1>1, <1>2

LEMMA NextPlace ==
  ASSUME TypeOK, InOrder, NEW r \in Ranks, Place(r)' = Place(r) + 1
  PROVE  /\ Stage(r) < 3 => OpNow(r)' = OpNow(r) /\ Stage(r)' = Stage(r) + 1
         /\ Stage(r) = 3 => OpNow(r)' = OpNow(r) + 1 /\ Stage(r)' = 0
<1>1. PICK p \in Nat : p = Place(r)
  BY Where
<1>2. PICK i \in Nat, s \in 0 .. 3 : i = OpNow(r) /\ s = Stage(r) /\ p = 4 * i + s
  BY <1>1, Where
<1>3. OpNow(r)' = (p + 1) \div 4 /\ Stage(r)' = (p + 1) % 4
  BY <1>1 DEF OpNow, Stage
<1>4. CASE s < 3
  <2>1. p + 1 = 4 * i + (s + 1) /\ s + 1 \in 0 .. 3 /\ p + 1 \in Nat
    BY <1>2, <1>4
  <2>2. (p + 1) \div 4 = i /\ (p + 1) % 4 = s + 1
    BY <2>1, FourUnique
  <2> QED BY <1>2, <1>3, <1>4, <2>2
<1>5. CASE s = 3
  <2>1. p + 1 = 4 * (i + 1) + 0 /\ i + 1 \in Nat /\ 0 \in 0 .. 3 /\ p + 1 \in Nat
    BY <1>2, <1>5
  <2>2. (p + 1) \div 4 = i + 1 /\ (p + 1) % 4 = 0
    BY <2>1, FourUnique
  <2> QED BY <1>2, <1>3, <1>5, <2>2
<1> QED BY <1>2, <1>4, <1>5

\* An act on q, one more.
LEMMA ActProgress ==
  ASSUME TypeOK, InOrder, NEW r \in Ranks, NEW q \in Ranks,
         NEW what \in {"send", "signal", "wait", "read"}, NEW b \in 0 .. MaxTokens - 1,
         program' = program, host' = host, stream' = stream,
         done'[r] = done[r] \cup {<<what, b, q>>}, \A p \in Ranks : p # r => done'[p] = done[p]
  PROVE  /\ \A y \in Ranks : SamePlace(y) /\ Prepared(y)' = Prepared(y) /\ Place(y)' = Place(y)
         /\ \A y, x \in Ranks : y # r \/ x # q \/ what \in {"wait", "read"} => SameTo(y, x)
         /\ what = "send" => Dispatched(r, q)' = Dispatched(r, q) /\ Combined(r, q)' = Combined(r, q)
         /\ what = "send" /\ b = 0 /\ Stage(r) = 1 => SentTo(r, q)' = OpNow(r)
         /\ what = "signal" => SentTo(r, q)' = SentTo(r, q)
         /\ what = "signal" /\ b = 0 /\ Stage(r) = 1 =>
              Dispatched(r, q)' = OpNow(r) /\ Combined(r, q)' = Combined(r, q)
         /\ what = "signal" /\ b = 0 /\ Stage(r) = 3 =>
              Combined(r, q)' = OpNow(r) /\ Dispatched(r, q)' = Dispatched(r, q)
         /\ \A y, x \in Ranks : /\ Dispatched(y, x)' >= Dispatched(y, x)
                                /\ Combined(y, x)' >= Combined(y, x)
                                /\ Dispatched(y, x)' \in Int /\ Combined(y, x)' \in Int
<1>1. \A y \in Ranks : Place(y)' = Place(y)
  BY DEF Place, At, Op
<1>2. \A y \in Ranks : SamePlace(y) /\ Prepared(y)' = Prepared(y)
  BY <1>1, PlaceGives
<1>3. \A y \in Ranks : \A w, c, x : <<w, c, x>> \in done'[y] <=>
         <<w, c, x>> \in done[y] \/ (y = r /\ w = what /\ c = b /\ x = q)
  <2> TAKE y \in Ranks
  <2>1. CASE y = r
    BY <2>1
  <2>2. CASE y # r
    BY <2>2
  <2> QED BY <2>1, <2>2
<1>4. ASSUME NEW y \in Ranks, NEW x \in Ranks, y # r \/ x # q \/ what \in {"wait", "read"}
      PROVE  SameTo(y, x)
  <2>1. \A w \in {"send", "signal"} : <<w, 0, x>> \in done'[y] <=> <<w, 0, x>> \in done[y]
    BY <1>3, <1>4
  <2> QED BY <1>2, <2>1 DEF SamePlace, SameTo, SentTo, Dispatched, Combined
<1>5. what = "send" => Dispatched(r, q)' = Dispatched(r, q) /\ Combined(r, q)' = Combined(r, q)
  BY <1>2, <1>3 DEF SamePlace, Dispatched, Combined
<1>6. what = "send" /\ b = 0 /\ Stage(r) = 1 => SentTo(r, q)' = OpNow(r)
  BY <1>2, <1>3 DEF SamePlace, SentTo
<1>7. what = "signal" => SentTo(r, q)' = SentTo(r, q)
  BY <1>2, <1>3 DEF SamePlace, SentTo
<1>8. what = "signal" /\ b = 0 /\ Stage(r) = 1 =>
              Dispatched(r, q)' = OpNow(r) /\ Combined(r, q)' = Combined(r, q)
  BY <1>2, <1>3 DEF SamePlace, Dispatched, Combined
<1>9. what = "signal" /\ b = 0 /\ Stage(r) = 3 =>
              Combined(r, q)' = OpNow(r) /\ Dispatched(r, q)' = Dispatched(r, q)
  BY <1>2, <1>3 DEF SamePlace, Dispatched, Combined
<1>10. ASSUME NEW y \in Ranks, NEW x \in Ranks
       PROVE  /\ Dispatched(y, x)' >= Dispatched(y, x) /\ Combined(y, x)' >= Combined(y, x)
              /\ Dispatched(y, x)' \in Int /\ Combined(y, x)' \in Int
  <2>1. OpNow(y) \in Nat /\ SamePlace(y)
    BY <1>2, ProgressFacts
  <2>2. <<"signal", 0, x>> \in done[y] => <<"signal", 0, x>> \in done'[y]
    BY <1>3
  <2> QED BY <2>1, <2>2 DEF SamePlace, Dispatched, Combined
<1> QED BY <1>1, <1>2, <1>4, <1>5, <1>6, <1>7, <1>8, <1>9, <1>10

-----------------------------------------------------------------------------
\* The rows: the parts of RowRight, and what leaves them as they are.
FlagsIn(x, y, m) == /\ flags["dispatch"][x][y] = DispatchEpoch(Dispatched(y, x), m)
                    /\ flags["combine"][x][y] = CombineEpoch(Combined(y, x), m)
CountIn(x, y, m) == Dispatched(y, x) > m => count[x][y] = Op(Dispatched(y, x)).tokens[y]
RecvIn(x, y, m) == SentTo(y, x) > m => \A t \in 0 .. Op(SentTo(y, x)).tokens[y] - 1 :
                     memory[x][RecvCell(Op(m + 1), y, t)] = Token(SentTo(y, x), y, t)
PutOut(x, y, m) == Prepared(x) > m => \A t \in 0 .. Op(Prepared(x)).tokens[y] - 1 :
                     memory[x][CombineCell(Op(m + 1), y, t)] = Output(Token(Prepared(x), y, t), x)

LEMMA RowIs ==
  ASSUME NEW x \in Ranks, NEW y \in Ranks, NEW m \in Nat
  PROVE  RowRight(x, y, m) <=> /\ FlagsIn(x, y, m) /\ CountIn(x, y, m)
                               /\ RecvIn(x, y, m) /\ PutOut(x, y, m)
BY DEF RowRight, FlagsIn, CountIn, RecvIn, PutOut

LEMMA RowNext ==
  ASSUME NEW x \in Ranks, NEW y \in Ranks, NEW m \in Nat,
         FlagsIn(x, y, m)', CountIn(x, y, m)', RecvIn(x, y, m)', PutOut(x, y, m)'
  PROVE  RowRight(x, y, m)'
BY DEF RowRight, FlagsIn, CountIn, RecvIn, PutOut

LEMMA FlagsKept ==
  ASSUME NEW x \in Ranks, NEW y \in Ranks, NEW m \in Nat, FlagsIn(x, y, m),
         flags'["dispatch"][x][y] = flags["dispatch"][x][y],
         flags'["combine"][x][y] = flags["combine"][x][y],
         Dispatched(y, x)' = Dispatched(y, x), Combined(y, x)' = Combined(y, x)
  PROVE  FlagsIn(x, y, m)'
BY DEF FlagsIn, DispatchEpoch, CombineEpoch

LEMMA CountKept ==
  ASSUME NEW x \in Ranks, NEW y \in Ranks, NEW m \in Nat, CountIn(x, y, m), program' = program,
         count'[x][y] = count[x][y], Dispatched(y, x)' = Dispatched(y, x)
  PROVE  CountIn(x, y, m)'
BY DEF CountIn, Op

LEMMA RecvKept ==
  ASSUME NEW x \in Ranks, NEW y \in Ranks, NEW m \in Nat, RecvIn(x, y, m), program' = program,
         SentTo(y, x)' = SentTo(y, x),
         SentTo(y, x) > m => \A t \in 0 .. Op(SentTo(y, x)).tokens[y] - 1 :
           memory'[x][RecvCell(Op(m + 1), y, t)] = memory[x][RecvCell(Op(m + 1), y, t)]
  PROVE  RecvIn(x, y, m)'
BY DEF RecvIn, Op, RecvCell, Token

LEMMA PutOutKept ==
  ASSUME NEW x \in Ranks, NEW y \in Ranks, NEW m \in Nat, PutOut(x, y, m), program' = program,
         Prepared(x)' = Prepared(x),
         Prepared(x) > m => \A t \in 0 .. Op(Prepared(x)).tokens[y] - 1 :
           memory'[x][CombineCell(Op(m + 1), y, t)] = memory[x][CombineCell(Op(m + 1), y, t)]
  PROVE  PutOut(x, y, m)'
BY DEF PutOut, Op, CombineCell, Token, Output

LEMMA RowKept ==
  ASSUME NEW x \in Ranks, NEW y \in Ranks, NEW m \in Nat, RowRight(x, y, m), program' = program,
         flags' = flags, count' = count, memory' = memory, SameTo(y, x), Prepared(x)' = Prepared(x)
  PROVE  RowRight(x, y, m)'
<1>1. FlagsIn(x, y, m) /\ CountIn(x, y, m) /\ RecvIn(x, y, m) /\ PutOut(x, y, m)
  BY RowIs
<1>2. FlagsIn(x, y, m)'
  BY <1>1, FlagsKept DEF SameTo
<1>3. CountIn(x, y, m)'
  BY <1>1, CountKept DEF SameTo
<1>4. RecvIn(x, y, m)'
  BY <1>1, RecvKept DEF SameTo
<1>5. PutOut(x, y, m)'
  BY <1>1, PutOutKept
<1> QED BY <1>2, <1>3, <1>4, <1>5, RowNext

LEMMA MetKept ==
  ASSUME NEW x \in Ranks, NEW y \in Ranks, NEW m \in Nat, TypeOK, InOrder, Met(x, y, m),
         SamePlace(x), \A b : <<"wait", b, y>> \in done'[x] => <<"wait", b, y>> \in done[x],
         Combined(y, x)' \in Int, Dispatched(y, x)' \in Int,
         Combined(y, x)' >= Combined(y, x), Dispatched(y, x)' >= Dispatched(y, x)
  PROVE  Met(x, y, m)'
<1>1. OpNow(x) \in Nat /\ Combined(y, x) \in Int /\ Dispatched(y, x) \in Int
  BY ProgressFacts
<1> QED BY <1>1 DEF Met, SamePlace

LEMMA EpochKept ==
  ASSUME NEW x \in Ranks, NEW m \in Nat, EpochRight(x, m), SamePlace(x), epoch'[x] = epoch[x]
  PROVE  EpochRight(x, m)'
BY DEF EpochRight, SamePlace, DispatchEpoch, CombineEpoch

-----------------------------------------------------------------------------
\* What a running kernel can rely on.
Good == Ready /\ InOrder /\ DoneRight /\ Exchange
Holds(x, m) == /\ EpochRight(x, m)
               /\ \A y \in Ranks : Member(y, m) => RowRight(x, y, m) /\ Met(x, y, m)

LEMMA ExchangeEach ==
  ASSUME TypeOK
  PROVE  Exchange <=> \A m \in 1 .. Len(program) : Current(m) =>
                        \A x \in Ranks : Cleared(x, m) /\ Member(x, m) => Holds(x, m)
BY ProgramFacts DEF Exchange, Holds, TypeOK

LEMMA ExchangeNext ==
  ASSUME TypeOK',
         \A m \in 1 .. Len(program') : Current(m)' =>
            \A x \in Ranks : Cleared(x, m)' /\ Member(x, m)' => Holds(x, m)'
  PROVE  Exchange'
<1>1. DOMAIN program' = 1 .. Len(program')
  BY ProgramsAssumption DEF TypeOK
<1> QED BY <1>1 DEF Exchange, Holds

LEMMA Context ==
  ASSUME Uniform, Good, NEW r \in Ranks, stream[r] # <<>>,
         NEW m \in 1 .. Len(program), Current(m), NEW x \in Ranks, Cleared(x, m)
  PROVE  /\ TypeOK /\ InOrder /\ DoneOk(r) /\ m \in Nat
         /\ OpNow(r) = Kernel(r).op /\ OpNow(r) \in Nat /\ OpNow(r) \in 1 .. Len(program) /\ m < OpNow(r)
         /\ Round(r) = Op(OpNow(r)) /\ Round(r).max = Op(m + 1).max
         /\ Member(r, m) /\ r \in Round(r).active
         /\ \A q \in Ranks : Cleared(q, m) /\ (Member(q, m) <=> q \in Round(r).active)
         /\ \A q \in Ranks : Member(q, m) => Holds(q, m)
<1>1. TypeOK /\ InOrder /\ DoneOk(r) /\ StreamRight(r)
  BY StreamsEach, DoneEach DEF Good, Ready
<1>2. m \in Nat
  OBVIOUS
<1>3. OpNow(r) = Kernel(r).op /\ OpNow(r) \in Nat /\ OpNow(r) \in 1 .. Len(program)
  BY <1>1, Where, KernelFacts
<1>4. Round(r) = Op(OpNow(r))
  BY <1>3 DEF Round
<1>5. /\ m < Kernel(r).op
      /\ \A q \in Ranks : Cleared(q, m) /\ (Member(q, m) <=> q \in Round(r).active)
      /\ Round(r).max = Op(m + 1).max
  BY SegmentIs DEF Good
<1>6. r \in Round(r).active
  <2>1. 1 \in DOMAIN stream[r] /\ Kernel(r) = stream[r][1]
    BY <1>1, StreamType
  <2> QED BY <1>1, <2>1 DEF StreamRight, KernelRight, Round
<1>7. \A q \in Ranks : Member(q, m) => Holds(q, m)
  BY <1>1, <1>5, ExchangeEach DEF Good
<1> QED BY <1>1, <1>2, <1>3, <1>4, <1>5, <1>6, <1>7

\* A wait for q's flag is over only when q has signalled in this round.
LEMMA WaitedDispatch ==
  ASSUME Uniform, Good, NEW r \in Ranks, Running(r, "dispatch"), NEW q \in Ranks,
         NEW m \in 1 .. Len(program), Current(m), NEW x \in Ranks, Cleared(x, m), Member(q, m),
         flags["dispatch"][r][q] = epoch[r]
  PROVE  Dispatched(q, r) >= OpNow(r)
<1>0. stream[r] # <<>>
  BY DEF Running
<1>1. /\ TypeOK /\ InOrder /\ m \in Nat /\ m < OpNow(r)
      /\ EpochRight(r, m) /\ RowRight(r, q, m) /\ Met(r, q, m)
  BY <1>0, Context DEF Holds
<1>2. PICK i \in Nat : i = OpNow(r)
  BY <1>1, ProgressFacts
<1>3. PICK j \in Int : j = Dispatched(q, r)
  BY <1>1, ProgressFacts
<1>4. Stage(r) = 1
  BY <1>1, Where
<1>5. epoch[r] = DispatchEpoch(i, m)
  BY <1>1, <1>2, <1>4 DEF EpochRight
<1>6. flags["dispatch"][r][q] = DispatchEpoch(j, m)
  BY <1>1, <1>3 DEF RowRight
<1>7. ASSUME j < i PROVE FALSE
  <2>0. Combined(q, r) \in Int /\ Combined(q, r) <= j
    BY <1>1, <1>3, ProgressFacts
  <2>1. i > m + 1 => j = i - 1
    BY <1>1, <1>2, <1>3, <1>7, <2>0 DEF Met
  <2> QED BY <1>1, <1>2, <1>5, <1>6, <1>7, <2>1, EpochApart
<1> QED BY <1>2, <1>3, <1>7

LEMMA WaitedCombine ==
  ASSUME Uniform, Good, NEW r \in Ranks, Running(r, "combine"), NEW q \in Ranks,
         NEW m \in 1 .. Len(program), Current(m), NEW x \in Ranks, Cleared(x, m), Member(q, m),
         flags["combine"][r][q] = epoch[r]
  PROVE  Combined(q, r) >= OpNow(r)
<1>0. stream[r] # <<>>
  BY DEF Running
<1>1. /\ TypeOK /\ InOrder /\ m \in Nat /\ m < OpNow(r)
      /\ EpochRight(r, m) /\ RowRight(r, q, m) /\ Met(r, q, m)
  BY <1>0, Context DEF Holds
<1>2. PICK i \in Nat : i = OpNow(r)
  BY <1>1, ProgressFacts
<1>3. PICK j \in Int : j = Combined(q, r)
  BY <1>1, ProgressFacts
<1>4. Stage(r) = 3
  BY <1>1, Where
<1>5. epoch[r] = CombineEpoch(i, m)
  BY <1>1, <1>2, <1>4 DEF EpochRight
<1>6. flags["combine"][r][q] = CombineEpoch(j, m)
  BY <1>1, <1>3 DEF RowRight
<1>7. ASSUME j < i PROVE FALSE
  <2>1. i > m + 1 => j = i - 1
    BY <1>1, <1>2, <1>3, <1>7 DEF Met
  <2> QED BY <1>1, <1>2, <1>5, <1>6, <1>7, <2>1, EpochApart
<1> QED BY <1>2, <1>3, <1>7

LEMMA HoldsNext ==
  ASSUME NEW x \in Ranks, NEW m \in Nat, program' = program, EpochRight(x, m)',
         \A y \in Ranks : Member(y, m) => RowRight(x, y, m)' /\ Met(x, y, m)'
  PROVE  Holds(x, m)'
<1>1. \A y \in Ranks : Member(y, m)' <=> Member(y, m)
  BY DEF Member, Op
<1> QED BY <1>1 DEF Holds

-----------------------------------------------------------------------------
\* The acts of a kernel that leave the rows as they are.
LEMMA LookHolds ==
  ASSUME TypeOK, InOrder, NEW r \in Ranks, NEW q \in Ranks,
         NEW what \in {"wait", "read"}, NEW b \in 0 .. MaxTokens - 1,
         program' = program, host' = host, stream' = stream,
         epoch' = epoch, flags' = flags, count' = count, memory' = memory,
         done'[r] = done[r] \cup {<<what, b, q>>}, \A p \in Ranks : p # r => done'[p] = done[p],
         what = "wait" /\ Stage(r) = 1 => Dispatched(q, r) >= OpNow(r),
         what = "wait" /\ Stage(r) = 3 => Combined(q, r) >= OpNow(r),
         what = "wait" => Stage(r) \in {1, 3},
         NEW m \in Nat, NEW x \in Ranks, Holds(x, m)
  PROVE  Holds(x, m)'
<1>1. /\ \A y \in Ranks : SamePlace(y) /\ Prepared(y)' = Prepared(y)
      /\ \A y, z \in Ranks : SameTo(y, z)
      /\ \A y, z \in Ranks : /\ Dispatched(y, z)' >= Dispatched(y, z) /\ Combined(y, z)' >= Combined(y, z)
                             /\ Dispatched(y, z)' \in Int /\ Combined(y, z)' \in Int
  BY ActProgress
<1>2. EpochRight(x, m)'
  BY <1>1, EpochKept DEF Holds
<1>3. ASSUME NEW y \in Ranks, Member(y, m)
      PROVE  RowRight(x, y, m)'
  BY <1>1, <1>3, RowKept DEF Holds
<1>4. ASSUME NEW y \in Ranks, Member(y, m)
      PROVE  Met(x, y, m)'
  <2>1. Met(x, y, m)
    BY <1>4 DEF Holds
  <2>2. CASE x # r \/ y # q \/ what = "read"
    <3>1. \A c : <<"wait", c, y>> \in done'[x] => <<"wait", c, y>> \in done[x]
      <4>1. CASE x = r
        BY <2>2, <4>1
      <4>2. CASE x # r
        BY <4>2
      <4> QED BY <4>1, <4>2
    <3> QED BY <1>1, <2>1, <3>1, MetKept
  <2>3. CASE x = r /\ y = q /\ what = "wait"
    <3>1. OpNow(r)' = OpNow(r) /\ Stage(r)' = Stage(r)
      BY <1>1 DEF SamePlace
    <3>2. Combined(q, r)' = Combined(q, r) /\ Dispatched(q, r)' = Dispatched(q, r)
      BY <1>1 DEF SameTo
    <3>3. Stage(r) \in {1, 3}
      BY <2>3
    <3> QED BY <2>1, <2>3, <3>1, <3>2, <3>3 DEF Met
  <2> QED BY <2>2, <2>3
<1> QED BY <1>2, <1>3, <1>4, HoldsNext

LEMMA WaitHolds ==
  ASSUME Uniform, Good, NEW r \in Ranks, stream[r] # <<>>, NEW q \in Round(r).active,
         NEW b \in 0 .. MaxTokens - 1, WaitDispatch(r, q) \/ WaitCombine(r, b, q) \/ Read(r, b, q),
         NEW m \in 1 .. Len(program), Current(m), NEW x \in Ranks, Cleared(x, m), Member(x, m)
  PROVE  Holds(x, m)'
<1>1. /\ TypeOK /\ InOrder /\ q \in Ranks /\ Member(q, m) /\ Holds(x, m) /\ m \in Nat
      /\ 0 \in 0 .. MaxTokens - 1
  BY Context, KernelFacts, RankFacts
<1>2. CASE WaitDispatch(r, q)
  <2>1. /\ Running(r, "dispatch") /\ Does(r, <<"wait", 0, q>>) /\ flags["dispatch"][r][q] = epoch[r]
        /\ program' = program /\ host' = host /\ stream' = stream
        /\ epoch' = epoch /\ flags' = flags /\ count' = count /\ memory' = memory
    BY <1>2 DEF WaitDispatch, FlagsOf
  <2>2. Stage(r) = 1 /\ Dispatched(q, r) >= OpNow(r)
    BY <1>1, <2>1, Where, WaitedDispatch
  <2>3. /\ done'[r] = done[r] \cup {<<"wait", 0, q>>} /\ \A p \in Ranks : p # r => done'[p] = done[p]
    BY <1>1, <2>1, DoesType
  <2> QED BY <1>1, <2>1, <2>2, <2>3, LookHolds
<1>3. CASE WaitCombine(r, b, q)
  <2>1. /\ Running(r, "combine") /\ Does(r, <<"wait", b, q>>) /\ flags["combine"][r][q] = epoch[r]
        /\ program' = program /\ host' = host /\ stream' = stream
        /\ epoch' = epoch /\ flags' = flags /\ count' = count /\ memory' = memory
    BY <1>3 DEF WaitCombine, FlagsOf
  <2>2. Stage(r) = 3 /\ Combined(q, r) >= OpNow(r)
    BY <1>1, <2>1, Where, WaitedCombine
  <2>3. /\ done'[r] = done[r] \cup {<<"wait", b, q>>} /\ \A p \in Ranks : p # r => done'[p] = done[p]
    BY <1>1, <2>1, DoesType
  <2> QED BY <1>1, <2>1, <2>2, <2>3, LookHolds
<1>4. CASE Read(r, b, q)
  <2>1. /\ Does(r, <<"read", b, q>>)
        /\ program' = program /\ host' = host /\ stream' = stream
        /\ epoch' = epoch /\ flags' = flags /\ count' = count /\ memory' = memory
    BY <1>4 DEF Read
  <2>2. /\ done'[r] = done[r] \cup {<<"read", b, q>>} /\ \A p \in Ranks : p # r => done'[p] = done[p]
    BY <1>1, <2>1, DoesType
  <2> QED BY <1>1, <2>1, <2>2, LookHolds
<1> QED BY <1>2, <1>3, <1>4

\* The acts that write into the row of q.
LEMMA ActSignal ==
  ASSUME TypeOK, InOrder, NEW r \in Ranks, NEW q \in Ranks, Does(r, <<"signal", 0, q>>),
         program' = program, host' = host, stream' = stream
  PROVE  /\ \A y \in Ranks : SamePlace(y) /\ Prepared(y)' = Prepared(y)
         /\ \A y, z \in Ranks : y # r \/ z # q => SameTo(y, z)
         /\ SentTo(r, q)' = SentTo(r, q)
         /\ Stage(r) = 1 => Dispatched(r, q)' = OpNow(r) /\ Combined(r, q)' = Combined(r, q)
         /\ Stage(r) = 3 => Combined(r, q)' = OpNow(r) /\ Dispatched(r, q)' = Dispatched(r, q)
         /\ \A y, z \in Ranks : /\ Dispatched(y, z)' >= Dispatched(y, z)
                                /\ Combined(y, z)' >= Combined(y, z)
                                /\ Dispatched(y, z)' \in Int /\ Combined(y, z)' \in Int
<1>1. PICK w \in {"send", "signal", "wait", "read"} : w = "signal"
  OBVIOUS
<1>2. PICK b \in 0 .. MaxTokens - 1 : b = 0
  BY RankFacts
<1>3. done'[r] = done[r] \cup {<<w, b, q>>} /\ \A p \in Ranks : p # r => done'[p] = done[p]
  BY <1>1, <1>2, DoesType
<1>4. \A y \in Ranks : SamePlace(y) /\ Prepared(y)' = Prepared(y)
  BY <1>3, ActProgress
<1>5. \A y, z \in Ranks : y # r \/ z # q => SameTo(y, z)
  BY <1>3, ActProgress
<1>6. /\ w = "signal" => SentTo(r, q)' = SentTo(r, q)
      /\ w = "signal" /\ b = 0 /\ Stage(r) = 1 =>
           Dispatched(r, q)' = OpNow(r) /\ Combined(r, q)' = Combined(r, q)
      /\ w = "signal" /\ b = 0 /\ Stage(r) = 3 =>
           Combined(r, q)' = OpNow(r) /\ Dispatched(r, q)' = Dispatched(r, q)
  BY <1>3, ActProgress
<1>7. \A y, z \in Ranks : /\ Dispatched(y, z)' >= Dispatched(y, z)
                         /\ Combined(y, z)' >= Combined(y, z)
                         /\ Dispatched(y, z)' \in Int /\ Combined(y, z)' \in Int
  BY <1>3, ActProgress
<1> QED BY <1>1, <1>2, <1>4, <1>5, <1>6, <1>7

LEMMA SignalDispatchHolds ==
  ASSUME Uniform, Good, NEW r \in Ranks, stream[r] # <<>>, NEW q \in Round(r).active,
         SignalDispatch(r, q),
         NEW m \in 1 .. Len(program), Current(m), NEW x \in Ranks, Cleared(x, m), Member(x, m)
  PROVE  Holds(x, m)'
<1>1. /\ TypeOK /\ InOrder /\ q \in Ranks /\ Member(q, m) /\ Holds(x, m) /\ Holds(r, m) /\ m \in Nat
      /\ 0 \in 0 .. MaxTokens - 1 /\ OpNow(r) \in Nat /\ m < OpNow(r) /\ Round(r) = Op(OpNow(r))
  BY Context, KernelFacts, RankFacts
<1>2. /\ Running(r, "dispatch") /\ Does(r, <<"signal", 0, q>>)
      /\ program' = program /\ host' = host /\ stream' = stream /\ epoch' = epoch /\ memory' = memory
      /\ count' = [count EXCEPT ![q][r] = Round(r).tokens[r]]
      /\ flags' = [flags EXCEPT !["dispatch"][q][r] = epoch[r]]
  BY DEF SignalDispatch, FlagsOf
<1>3. Stage(r) = 1
  BY <1>1, <1>2, Where
<1>4. /\ done'[r] = done[r] \cup {<<"signal", 0, q>>} /\ \A p \in Ranks : p # r => done'[p] = done[p]
  BY <1>1, <1>2, DoesType
<1>5. /\ \A y \in Ranks : SamePlace(y) /\ Prepared(y)' = Prepared(y)
      /\ \A y, z \in Ranks : y # r \/ z # q => SameTo(y, z)
      /\ SentTo(r, q)' = SentTo(r, q) /\ Dispatched(r, q)' = OpNow(r) /\ Combined(r, q)' = Combined(r, q)
      /\ \A y, z \in Ranks : /\ Dispatched(y, z)' >= Dispatched(y, z) /\ Combined(y, z)' >= Combined(y, z)
                             /\ Dispatched(y, z)' \in Int /\ Combined(y, z)' \in Int
  <2>1. program' = program /\ host' = host /\ stream' = stream /\ Does(r, <<"signal", 0, q>>)
    BY <1>2
  <2>2. TypeOK /\ InOrder /\ q \in Ranks
    BY <1>1
  <2> QED BY <1>3, <2>1, <2>2, ActSignal
<1>6. EpochRight(x, m)'
  BY <1>1, <1>2, <1>5, EpochKept DEF Holds
<1>7. ASSUME NEW y \in Ranks, Member(y, m)
      PROVE  Met(x, y, m)'
  <2>1. \A c : <<"wait", c, y>> \in done'[x] => <<"wait", c, y>> \in done[x]
    <3>1. CASE x = r
      BY <1>4, <3>1
    <3>2. CASE x # r
      BY <1>4, <3>2
    <3> QED BY <3>1, <3>2
  <2> QED BY <1>1, <1>5, <1>7, <2>1, MetKept DEF Holds
<1>8. ASSUME NEW y \in Ranks, Member(y, m)
      PROVE  RowRight(x, y, m)'
  <2>1. FlagsIn(x, y, m) /\ CountIn(x, y, m) /\ RecvIn(x, y, m) /\ PutOut(x, y, m)
    BY <1>1, <1>8, RowIs DEF Holds
  <2>2. RecvIn(x, y, m)' /\ PutOut(x, y, m)'
    <3>1. SentTo(y, x)' = SentTo(y, x) /\ Prepared(x)' = Prepared(x)
      BY <1>5 DEF SameTo
    <3> QED BY <1>1, <1>2, <2>1, <3>1, RecvKept, PutOutKept
  <2>3. CASE x # q \/ y # r
    <3>1. /\ flags'["dispatch"][x][y] = flags["dispatch"][x][y]
          /\ flags'["combine"][x][y] = flags["combine"][x][y]
          /\ count'[x][y] = count[x][y]
      BY <1>1, <1>2, <2>3 DEF TypeOK
    <3>2. Dispatched(y, x)' = Dispatched(y, x) /\ Combined(y, x)' = Combined(y, x)
      BY <1>5, <2>3 DEF SameTo
    <3>3. FlagsIn(x, y, m)' /\ CountIn(x, y, m)'
      BY <1>1, <1>2, <2>1, <3>1, <3>2, FlagsKept, CountKept
    <3> QED BY <1>1, <2>2, <3>3, RowNext
  <2>4. CASE x = q /\ y = r
    <3>1. /\ flags'["dispatch"][q][r] = epoch[r]
          /\ flags'["combine"][q][r] = flags["combine"][q][r]
          /\ count'[q][r] = Round(r).tokens[r]
      BY <1>1, <1>2 DEF TypeOK
    <3>2. PICK i \in Nat : i = OpNow(r)
      BY <1>1
    <3>3. epoch[r] = DispatchEpoch(i, m)
      BY <1>1, <1>3, <3>2 DEF Holds, EpochRight
    <3>4. Dispatched(r, q)' = i
      BY <1>5, <3>2
    <3>5. FlagsIn(q, r, m)'
      BY <1>5, <2>1, <2>4, <3>1, <3>3, <3>4 DEF FlagsIn, DispatchEpoch, CombineEpoch
    <3>6. CountIn(q, r, m)'
      BY <1>1, <1>2, <3>1, <3>2, <3>4 DEF CountIn, Op
    <3> QED BY <1>1, <2>2, <2>4, <3>5, <3>6, RowNext
  <2> QED BY <2>3, <2>4
<1> QED BY <1>1, <1>2, <1>6, <1>7, <1>8, HoldsNext

LEMMA SignalCombineHolds ==
  ASSUME Uniform, Good, NEW r \in Ranks, stream[r] # <<>>, NEW q \in Round(r).active,
         SignalCombine(r, q),
         NEW m \in 1 .. Len(program), Current(m), NEW x \in Ranks, Cleared(x, m), Member(x, m)
  PROVE  Holds(x, m)'
<1>1. /\ TypeOK /\ InOrder /\ q \in Ranks /\ Member(q, m) /\ Holds(x, m) /\ Holds(r, m) /\ m \in Nat
      /\ 0 \in 0 .. MaxTokens - 1 /\ OpNow(r) \in Nat /\ m < OpNow(r)
  BY Context, KernelFacts, RankFacts
<1>2. /\ Running(r, "combine") /\ Does(r, <<"signal", 0, q>>)
      /\ program' = program /\ host' = host /\ stream' = stream /\ epoch' = epoch /\ memory' = memory
      /\ count' = count
      /\ flags' = [flags EXCEPT !["combine"][q][r] = epoch[r]]
  BY DEF SignalCombine, FlagsOf
<1>3. Stage(r) = 3
  BY <1>1, <1>2, Where
<1>4. /\ done'[r] = done[r] \cup {<<"signal", 0, q>>} /\ \A p \in Ranks : p # r => done'[p] = done[p]
  BY <1>1, <1>2, DoesType
<1>5. /\ \A y \in Ranks : SamePlace(y) /\ Prepared(y)' = Prepared(y)
      /\ \A y, z \in Ranks : y # r \/ z # q => SameTo(y, z)
      /\ SentTo(r, q)' = SentTo(r, q) /\ Combined(r, q)' = OpNow(r) /\ Dispatched(r, q)' = Dispatched(r, q)
      /\ \A y, z \in Ranks : /\ Dispatched(y, z)' >= Dispatched(y, z) /\ Combined(y, z)' >= Combined(y, z)
                             /\ Dispatched(y, z)' \in Int /\ Combined(y, z)' \in Int
  <2>1. program' = program /\ host' = host /\ stream' = stream /\ Does(r, <<"signal", 0, q>>)
    BY <1>2
  <2>2. TypeOK /\ InOrder /\ q \in Ranks
    BY <1>1
  <2> QED BY <1>3, <2>1, <2>2, ActSignal
<1>6. EpochRight(x, m)'
  BY <1>1, <1>2, <1>5, EpochKept DEF Holds
<1>7. ASSUME NEW y \in Ranks, Member(y, m)
      PROVE  Met(x, y, m)'
  <2>1. \A c : <<"wait", c, y>> \in done'[x] => <<"wait", c, y>> \in done[x]
    <3>1. CASE x = r
      BY <1>4, <3>1
    <3>2. CASE x # r
      BY <1>4, <3>2
    <3> QED BY <3>1, <3>2
  <2> QED BY <1>1, <1>5, <1>7, <2>1, MetKept DEF Holds
<1>8. ASSUME NEW y \in Ranks, Member(y, m)
      PROVE  RowRight(x, y, m)'
  <2>1. FlagsIn(x, y, m) /\ CountIn(x, y, m) /\ RecvIn(x, y, m) /\ PutOut(x, y, m)
    BY <1>1, <1>8, RowIs DEF Holds
  <2>2. RecvIn(x, y, m)' /\ PutOut(x, y, m)' /\ CountIn(x, y, m)'
    <3>1. SentTo(y, x)' = SentTo(y, x) /\ Prepared(x)' = Prepared(x) /\ Dispatched(y, x)' = Dispatched(y, x)
      BY <1>5 DEF SameTo
    <3> QED BY <1>1, <1>2, <2>1, <3>1, RecvKept, PutOutKept, CountKept
  <2>3. CASE x # q \/ y # r
    <3>1. /\ flags'["dispatch"][x][y] = flags["dispatch"][x][y]
          /\ flags'["combine"][x][y] = flags["combine"][x][y]
      BY <1>1, <1>2, <2>3 DEF TypeOK
    <3>2. Dispatched(y, x)' = Dispatched(y, x) /\ Combined(y, x)' = Combined(y, x)
      BY <1>5, <2>3 DEF SameTo
    <3>3. FlagsIn(x, y, m)'
      BY <1>1, <1>2, <2>1, <3>1, <3>2, FlagsKept
    <3> QED BY <1>1, <2>2, <3>3, RowNext
  <2>4. CASE x = q /\ y = r
    <3>1. /\ flags'["combine"][q][r] = epoch[r]
          /\ flags'["dispatch"][q][r] = flags["dispatch"][q][r]
      BY <1>1, <1>2 DEF TypeOK
    <3>2. PICK i \in Nat : i = OpNow(r)
      BY <1>1
    <3>3. epoch[r] = CombineEpoch(i, m)
      BY <1>1, <1>3, <3>2 DEF Holds, EpochRight
    <3>4. Combined(r, q)' = i
      BY <1>5, <3>2
    <3>5. FlagsIn(q, r, m)'
      BY <1>5, <2>1, <2>4, <3>1, <3>3, <3>4 DEF FlagsIn, DispatchEpoch, CombineEpoch
    <3> QED BY <1>1, <2>2, <2>4, <3>5, RowNext
  <2> QED BY <2>3, <2>4
<1> QED BY <1>1, <1>2, <1>6, <1>7, <1>8, HoldsNext

LEMMA ActSend ==
  ASSUME TypeOK, InOrder, NEW r \in Ranks, NEW q \in Ranks, Does(r, <<"send", 0, q>>),
         program' = program, host' = host, stream' = stream
  PROVE  /\ \A y \in Ranks : SamePlace(y) /\ Prepared(y)' = Prepared(y)
         /\ \A y, z \in Ranks : y # r \/ z # q => SameTo(y, z)
         /\ Dispatched(r, q)' = Dispatched(r, q) /\ Combined(r, q)' = Combined(r, q)
         /\ Stage(r) = 1 => SentTo(r, q)' = OpNow(r)
         /\ \A y, z \in Ranks : /\ Dispatched(y, z)' >= Dispatched(y, z)
                                /\ Combined(y, z)' >= Combined(y, z)
                                /\ Dispatched(y, z)' \in Int /\ Combined(y, z)' \in Int
<1>1. PICK w \in {"send", "signal", "wait", "read"} : w = "send"
  OBVIOUS
<1>2. PICK b \in 0 .. MaxTokens - 1 : b = 0
  BY RankFacts
<1>3. done'[r] = done[r] \cup {<<w, b, q>>} /\ \A p \in Ranks : p # r => done'[p] = done[p]
  BY <1>1, <1>2, DoesType
<1>4. \A y \in Ranks : SamePlace(y) /\ Prepared(y)' = Prepared(y)
  BY <1>3, ActProgress
<1>5. \A y, z \in Ranks : y # r \/ z # q => SameTo(y, z)
  BY <1>3, ActProgress
<1>6. /\ w = "send" => Dispatched(r, q)' = Dispatched(r, q) /\ Combined(r, q)' = Combined(r, q)
      /\ w = "send" /\ b = 0 /\ Stage(r) = 1 => SentTo(r, q)' = OpNow(r)
  BY <1>3, ActProgress
<1>7. \A y, z \in Ranks : /\ Dispatched(y, z)' >= Dispatched(y, z)
                         /\ Combined(y, z)' >= Combined(y, z)
                         /\ Dispatched(y, z)' \in Int /\ Combined(y, z)' \in Int
  BY <1>3, ActProgress
<1> QED BY <1>1, <1>2, <1>4, <1>5, <1>6, <1>7

LEMMA SendMemory ==
  ASSUME TypeOK, NEW r \in Ranks, stream[r] # <<>>, NEW q \in Round(r).active, Send(r, q)
  PROVE  /\ \A z \in Ranks : z # q => memory'[z] = memory[z]
         /\ \A t \in 0 .. Round(r).tokens[r] - 1 :
              memory'[q][RecvCell(Round(r), r, t)] = Token(Kernel(r).op, r, t)
         /\ \A c \in Cells : (\A t \in 0 .. Round(r).tokens[r] - 1 : c # RecvCell(Round(r), r, t)) =>
              memory'[q][c] = memory[q][c]
<1> DEFINE f == [c \in Cells |->
       IF \E t \in 0 .. Round(r).tokens[r] - 1 : c = RecvCell(Round(r), r, t)
       THEN Token(Kernel(r).op, r, c - RecvCell(Round(r), r, 0)) ELSE memory[q][c]]
<1>1. q \in Ranks /\ Round(r).max \in Nat /\ Round(r).max > 0 /\ Round(r).max <= MaxTokens
      /\ Round(r).tokens[r] \in Nat /\ Round(r).tokens[r] <= Round(r).max
  BY KernelFacts
<1>2. memory' = [memory EXCEPT ![q] = f]
  BY DEF Send
<1>3. memory'[q] = f /\ \A z \in Ranks : z # q => memory'[z] = memory[z]
  BY <1>1, <1>2, WrittenType
<1>4. \A t \in 0 .. Round(r).tokens[r] - 1 : t \in 0 .. Round(r).max - 1
  BY <1>1
<1>5. ASSUME NEW t \in 0 .. Round(r).tokens[r] - 1
      PROVE  memory'[q][RecvCell(Round(r), r, t)] = Token(Kernel(r).op, r, t)
  <2>1. RecvCell(Round(r), r, t) \in Cells /\ RecvCell(Round(r), r, t) - RecvCell(Round(r), r, 0) = t
    BY <1>1, <1>4, CellFacts
  <2> QED BY <1>3, <2>1
<1>6. \A c \in Cells : (\A t \in 0 .. Round(r).tokens[r] - 1 : c # RecvCell(Round(r), r, t)) =>
              memory'[q][c] = memory[q][c]
  BY <1>3
<1> QED BY <1>3, <1>5, <1>6

LEMMA SendHolds ==
  ASSUME Uniform, Good, NEW r \in Ranks, stream[r] # <<>>, NEW q \in Round(r).active, Send(r, q),
         NEW m \in 1 .. Len(program), Current(m), NEW x \in Ranks, Cleared(x, m), Member(x, m)
  PROVE  Holds(x, m)'
<1>1. /\ TypeOK /\ InOrder /\ q \in Ranks /\ Member(q, m) /\ Holds(x, m) /\ m \in Nat
      /\ OpNow(r) \in Nat /\ m < OpNow(r) /\ Round(r) = Op(OpNow(r)) /\ OpNow(r) = Kernel(r).op
      /\ Round(r).max = Op(m + 1).max
  BY Context, KernelFacts
<1>2. /\ Running(r, "dispatch") /\ Does(r, <<"send", 0, q>>)
      /\ program' = program /\ host' = host /\ stream' = stream /\ epoch' = epoch
      /\ count' = count /\ flags' = flags
  BY DEF Send
<1>3. Stage(r) = 1
  BY <1>1, <1>2, Where
<1>4. /\ done'[r] = done[r] \cup {<<"send", 0, q>>} /\ \A p \in Ranks : p # r => done'[p] = done[p]
  BY <1>1, <1>2, DoesType, RankFacts
<1>5. /\ \A y \in Ranks : SamePlace(y) /\ Prepared(y)' = Prepared(y)
      /\ \A y, z \in Ranks : y # r \/ z # q => SameTo(y, z)
      /\ Dispatched(r, q)' = Dispatched(r, q) /\ Combined(r, q)' = Combined(r, q)
      /\ SentTo(r, q)' = OpNow(r)
      /\ \A y, z \in Ranks : /\ Dispatched(y, z)' >= Dispatched(y, z) /\ Combined(y, z)' >= Combined(y, z)
                             /\ Dispatched(y, z)' \in Int /\ Combined(y, z)' \in Int
  <2>1. program' = program /\ host' = host /\ stream' = stream /\ Does(r, <<"send", 0, q>>)
    BY <1>2
  <2>2. TypeOK /\ InOrder /\ q \in Ranks
    BY <1>1
  <2> QED BY <1>3, <2>1, <2>2, ActSend
<1>6. EpochRight(x, m)'
  BY <1>1, <1>2, <1>5, EpochKept DEF Holds
<1>7. ASSUME NEW y \in Ranks, Member(y, m)
      PROVE  Met(x, y, m)'
  <2>1. \A c : <<"wait", c, y>> \in done'[x] => <<"wait", c, y>> \in done[x]
    <3>1. CASE x = r
      BY <1>4, <3>1
    <3>2. CASE x # r
      BY <1>4, <3>2
    <3> QED BY <3>1, <3>2
  <2> QED BY <1>1, <1>5, <1>7, <2>1, MetKept DEF Holds
\* What the cells are.
<1>8. /\ \A z \in Ranks : z # q => memory'[z] = memory[z]
      /\ \A t \in 0 .. Round(r).tokens[r] - 1 :
           memory'[q][RecvCell(Round(r), r, t)] = Token(OpNow(r), r, t)
      /\ \A c \in Cells : (\A t \in 0 .. Round(r).tokens[r] - 1 : c # RecvCell(Round(r), r, t)) =>
           memory'[q][c] = memory[q][c]
  BY <1>1, SendMemory
<1>9. /\ Round(r).max \in Nat /\ Round(r).max > 0 /\ Round(r).max <= MaxTokens
      /\ Round(r).tokens[r] \in Nat /\ Round(r).tokens[r] <= Round(r).max
  BY <1>1, KernelFacts
<1>10. \A y \in Ranks, t \in Int : /\ RecvCell(Op(m + 1), y, t) = RecvCell(Round(r), y, t)
                                   /\ CombineCell(Op(m + 1), y, t) = CombineCell(Round(r), y, t)
  BY <1>1 DEF RecvCell, CombineCell
<1>11. ASSUME NEW y \in Ranks, NEW t \in 0 .. Round(r).max - 1
       PROVE  /\ y # r => memory'[q][RecvCell(Op(m + 1), y, t)] = memory[q][RecvCell(Op(m + 1), y, t)]
              /\ memory'[q][CombineCell(Op(m + 1), y, t)] = memory[q][CombineCell(Op(m + 1), y, t)]
  <2>1. /\ RecvCell(Round(r), y, t) \in Cells /\ CombineCell(Round(r), y, t) \in Cells
        /\ \A u \in 0 .. Round(r).max - 1 :
             /\ RecvCell(Round(r), y, t) = RecvCell(Round(r), r, u) => r = y
    BY <1>9, CellFacts
  <2>2. \A u \in 0 .. Round(r).max - 1 : RecvCell(Round(r), r, u) # CombineCell(Round(r), y, t)
    BY <1>9, CellFacts
  <2>3. \A u \in 0 .. Round(r).tokens[r] - 1 : u \in 0 .. Round(r).max - 1
    BY <1>9
  <2> QED BY <1>8, <1>10, <2>1, <2>2, <2>3
<1>12. ASSUME NEW y \in Ranks, Member(y, m)
       PROVE  RowRight(x, y, m)'
  <2>1. FlagsIn(x, y, m) /\ CountIn(x, y, m) /\ RecvIn(x, y, m) /\ PutOut(x, y, m)
    BY <1>1, <1>12, RowIs DEF Holds
  <2>2. Dispatched(y, x)' = Dispatched(y, x) /\ Combined(y, x)' = Combined(y, x)
    BY <1>5 DEF SameTo
  <2>3. FlagsIn(x, y, m)' /\ CountIn(x, y, m)'
    BY <1>1, <1>2, <2>1, <2>2, FlagsKept, CountKept
  <2>4. PutOut(x, y, m)'
    <3>1. Prepared(x)' = Prepared(x)
      BY <1>5
    <3>2. Prepared(x) > m => \A t \in 0 .. Op(Prepared(x)).tokens[y] - 1 : t \in 0 .. Round(r).max - 1
      <4>1. Prepared(x) \in Int /\ (Prepared(x) = OpNow(x) - 1 \/ (Prepared(x) = OpNow(x) /\ Stage(x) > 0))
        BY <1>1, ProgressFacts
      <4>2. Prepared(x) > m => Op(Prepared(x)).tokens[y] \in Nat /\ Op(Prepared(x)).tokens[y] <= Round(r).max
        BY <1>1, <4>1, ProgressRounds DEF Good
      <4> QED BY <1>9, <4>2
    <3>3. Prepared(x) > m => \A t \in 0 .. Op(Prepared(x)).tokens[y] - 1 :
             memory'[x][CombineCell(Op(m + 1), y, t)] = memory[x][CombineCell(Op(m + 1), y, t)]
      <4>1. CASE x = q
        BY <1>11, <3>2, <4>1
      <4>2. CASE x # q
        BY <1>8, <4>2
      <4> QED BY <4>1, <4>2
    <3> QED BY <1>1, <1>2, <2>1, <3>1, <3>3, PutOutKept
  <2>5. CASE x # q \/ y # r
    <3>1. SentTo(y, x)' = SentTo(y, x)
      BY <1>5, <2>5 DEF SameTo
    <3>2. SentTo(y, x) > m => \A t \in 0 .. Op(SentTo(y, x)).tokens[y] - 1 : t \in 0 .. Round(r).max - 1
      <4>1. SentTo(y, x) \in Int /\ (SentTo(y, x) = OpNow(y) - 1 \/ (SentTo(y, x) = OpNow(y) /\ Stage(y) > 0))
        BY <1>1, ProgressFacts
      <4>2. SentTo(y, x) > m => Op(SentTo(y, x)).tokens[y] \in Nat /\ Op(SentTo(y, x)).tokens[y] <= Round(r).max
        BY <1>1, <4>1, ProgressRounds DEF Good
      <4> QED BY <1>9, <4>2
    <3>3. SentTo(y, x) > m => \A t \in 0 .. Op(SentTo(y, x)).tokens[y] - 1 :
             memory'[x][RecvCell(Op(m + 1), y, t)] = memory[x][RecvCell(Op(m + 1), y, t)]
      <4>1. CASE x = q
        BY <1>11, <2>5, <3>2, <4>1
      <4>2. CASE x # q
        BY <1>8, <4>2
      <4> QED BY <4>1, <4>2
    <3>4. RecvIn(x, y, m)'
      BY <1>1, <1>2, <2>1, <3>1, <3>3, RecvKept
    <3> QED BY <1>1, <2>3, <2>4, <3>4, RowNext
  <2>6. CASE x = q /\ y = r
    <3>1. PICK i \in Nat : i = OpNow(r)
      BY <1>1
    <3>2. SentTo(r, q)' = i
      BY <1>5, <3>1
    <3>3. \A t \in 0 .. Op(i).tokens[r] - 1 : memory'[q][RecvCell(Op(m + 1), r, t)] = Token(i, r, t)
      BY <1>1, <1>8, <1>10, <3>1
    <3>4. Op(m + 1)' = Op(m + 1) /\ Op(i)' = Op(i)
      BY <1>2 DEF Op
    <3>5. RecvIn(q, r, m)'
      BY <3>2, <3>3, <3>4 DEF RecvIn, RecvCell, Token
    <3> QED BY <1>1, <2>3, <2>4, <2>6, <3>5, RowNext
  <2> QED BY <2>5, <2>6
<1> QED BY <1>1, <1>2, <1>6, <1>7, <1>12, HoldsNext

-----------------------------------------------------------------------------
\* The end of a kernel.
LEMMA EndPlaces ==
  ASSUME TypeOK, InOrder, NEW r \in Ranks, stream[r] # <<>>, Finish(r), program' = program, host' = host
  PROVE  /\ done'[r] = {}
         /\ \A y \in Ranks : y # r => /\ SamePlace(y) /\ Prepared(y)' = Prepared(y) /\ done'[y] = done[y]
                                      /\ \A z \in Ranks : SameTo(y, z)
         /\ Stage(r) < 3 => OpNow(r)' = OpNow(r) /\ Stage(r)' = Stage(r) + 1
         /\ Stage(r) = 3 => OpNow(r)' = OpNow(r) + 1 /\ Stage(r)' = 0
<1>1. \A y \in Ranks : y # r => Place(y)' = Place(y) /\ done'[y] = done[y]
  BY FinishPlaces
<1>2. Place(r)' = Place(r) + 1 /\ done'[r] = {}
  BY FinishPlaces
<1>3. \A y \in Ranks : y # r => /\ SamePlace(y) /\ Prepared(y)' = Prepared(y)
                                /\ \A z \in Ranks : SameTo(y, z)
  BY <1>1, SameGives DEF Same
<1>4. /\ Stage(r) < 3 => OpNow(r)' = OpNow(r) /\ Stage(r)' = Stage(r) + 1
      /\ Stage(r) = 3 => OpNow(r)' = OpNow(r) + 1 /\ Stage(r)' = 0
  BY <1>2, NextPlace
<1> QED BY <1>1, <1>2, <1>3, <1>4

\* When what r sent and signalled to the others is as before.
LEMMA EndHolds ==
  ASSUME TypeOK, InOrder, NEW r \in Ranks, NEW m \in Nat, program' = program,
         \A y \in Ranks : y # r => /\ SamePlace(y) /\ Prepared(y)' = Prepared(y) /\ done'[y] = done[y]
                                   /\ epoch'[y] = epoch[y]
                                   /\ \A z \in Ranks : SameTo(y, z),
         \A z \in Ranks : Member(z, m) => SameTo(r, z),
         Prepared(r)' = Prepared(r),
         flags' = flags, count' = count, memory' = memory,
         EpochRight(r, m)', \A y \in Ranks : Member(y, m) => Met(r, y, m)',
         NEW x \in Ranks, Member(x, m), Holds(x, m)
  PROVE  Holds(x, m)'
<1>1. EpochRight(x, m)'
  BY EpochKept DEF Holds
<1>2. ASSUME NEW y \in Ranks, Member(y, m) PROVE RowRight(x, y, m)' /\ Met(x, y, m)'
  <2>1. RowRight(x, y, m) /\ Met(x, y, m)
    BY <1>2 DEF Holds
  <2>2. SameTo(y, x) /\ Prepared(x)' = Prepared(x)
    OBVIOUS
  <2>3. RowRight(x, y, m)'
    BY <2>1, <2>2, RowKept
  <2>4. CASE x = r
    BY <1>2, <2>3, <2>4
  <2>5. CASE x # r
    <3>1. SamePlace(x) /\ done'[x] = done[x]
      BY <2>5
    <3>2. Combined(y, x) \in Int /\ Dispatched(y, x) \in Int
      BY ProgressFacts
    <3>3. Combined(y, x)' = Combined(y, x) /\ Dispatched(y, x)' = Dispatched(y, x)
      BY <2>2 DEF SameTo
    <3> QED BY <2>1, <2>3, <3>1, <3>2, <3>3, MetKept
  <2> QED BY <2>4, <2>5
<1> QED BY <1>1, <1>2, HoldsNext

LEMMA PrepareDispatchHolds ==
  ASSUME Uniform, Good, NEW r \in Ranks, PrepareDispatch(r),
         NEW m \in 1 .. Len(program), Current(m), NEW x \in Ranks, Cleared(x, m), Member(x, m)
  PROVE  Holds(x, m)'
<1>0. stream[r] # <<>> /\ Running(r, "prepare_dispatch")
  BY DEF PrepareDispatch, Running
<1>1. /\ TypeOK /\ InOrder /\ Holds(x, m) /\ Holds(r, m) /\ m \in Nat
      /\ OpNow(r) \in Nat /\ m < OpNow(r)
  BY <1>0, Context
<1>2. /\ program' = program /\ host' = host /\ flags' = flags /\ count' = count /\ memory' = memory
      /\ Finish(r) /\ epoch' = [epoch EXCEPT ![r] = NextEpoch(@)]
  BY DEF PrepareDispatch
<1>3. Stage(r) = 0
  BY <1>0, <1>1, Where
<1>4. /\ done'[r] = {} /\ OpNow(r)' = OpNow(r) /\ Stage(r)' = 1
      /\ \A y \in Ranks : y # r => /\ SamePlace(y) /\ Prepared(y)' = Prepared(y) /\ done'[y] = done[y]
                                   /\ \A z \in Ranks : SameTo(y, z)
  BY <1>0, <1>1, <1>2, <1>3, EndPlaces
<1>5. (\A z \in Ranks : SameTo(r, z)) /\ Prepared(r)' = Prepared(r)
  BY <1>3, <1>4 DEF SameTo, SentTo, Dispatched, Combined, Prepared
<1>6. epoch'[r] = NextEpoch(epoch[r]) /\ \A y \in Ranks : y # r => epoch'[y] = epoch[y]
  BY <1>1, <1>2 DEF TypeOK
<1>7. EpochRight(r, m)'
  <2>1. PICK i \in Nat : i = OpNow(r)
    BY <1>1
  <2>2. epoch[r] = CombineEpoch(i - 1, m)
    BY <1>1, <1>3, <2>1 DEF Holds, EpochRight
  <2>3. epoch'[r] = DispatchEpoch(i, m)
    BY <1>1, <1>6, <2>1, <2>2, EpochNext
  <2> QED BY <1>4, <2>1, <2>3 DEF EpochRight, DispatchEpoch
<1>8. ASSUME NEW y \in Ranks, Member(y, m) PROVE Met(r, y, m)'
  <2>1. Met(r, y, m)
    BY <1>1, <1>8 DEF Holds
  <2>2. Combined(y, r)' = Combined(y, r)
    BY <1>4, <1>5 DEF SameTo
  <2> QED BY <1>4, <2>1, <2>2 DEF Met
<1> QED BY <1>1, <1>2, <1>4, <1>5, <1>6, <1>7, <1>8, EndHolds

LEMMA EndDispatchHolds ==
  ASSUME Uniform, Good, NEW r \in Ranks, EndDispatch(r),
         NEW m \in 1 .. Len(program), Current(m), NEW x \in Ranks, Cleared(x, m), Member(x, m)
  PROVE  Holds(x, m)'
<1>0. stream[r] # <<>> /\ Running(r, "dispatch") /\ Did(r, "wait", 0)
  BY DEF EndDispatch, Running
<1>1. /\ TypeOK /\ InOrder /\ DoneOk(r) /\ Holds(x, m) /\ Holds(r, m) /\ m \in Nat
      /\ OpNow(r) \in Nat /\ m < OpNow(r) /\ 0 \in 0 .. MaxTokens - 1
      /\ \A q \in Ranks : Member(q, m) => q \in Round(r).active
  BY <1>0, Context, RankFacts
<1>2. /\ program' = program /\ host' = host /\ flags' = flags /\ count' = count /\ memory' = memory
      /\ Finish(r) /\ epoch' = epoch
  BY DEF EndDispatch
<1>3. Stage(r) = 1
  BY <1>0, <1>1, Where
<1>4. /\ done'[r] = {} /\ OpNow(r)' = OpNow(r) /\ Stage(r)' = 2
      /\ \A y \in Ranks : y # r => /\ SamePlace(y) /\ Prepared(y)' = Prepared(y) /\ done'[y] = done[y]
                                   /\ \A z \in Ranks : SameTo(y, z)
  BY <1>0, <1>1, <1>2, <1>3, EndPlaces
<1>5. ~Running(r, "combine")
  BY <1>0 DEF Running
<1>6. ASSUME NEW z \in Ranks, Member(z, m)
      PROVE  /\ <<"wait", 0, z>> \in done[r] /\ <<"signal", 0, z>> \in done[r] /\ <<"send", 0, z>> \in done[r]
  <2>1. z \in Round(r).active /\ <<"wait", 0, z>> \in done[r]
    BY <1>0, <1>1, <1>6 DEF Did
  <2>2. Did(r, "signal", 0)
    BY <1>1, <2>1 DEF DoneOk
  <2>3. <<"signal", 0, z>> \in done[r]
    BY <2>1, <2>2 DEF Did
  <2>4. Did(r, "send", 0)
    BY <1>1, <1>5, <2>3 DEF DoneOk
  <2> QED BY <2>1, <2>3, <2>4 DEF Did
<1>7. /\ \A z \in Ranks : Member(z, m) => SameTo(r, z)
      /\ Prepared(r)' = Prepared(r)
  <2>1. ASSUME NEW z \in Ranks, Member(z, m) PROVE SameTo(r, z)
    <3>0. <<"send", 0, z>> \in done[r] /\ <<"signal", 0, z>> \in done[r]
      BY <1>6, <2>1
    <3>1. SentTo(r, z) = OpNow(r) /\ Dispatched(r, z) = OpNow(r) /\ Combined(r, z) = OpNow(r) - 1
      BY <1>3, <3>0 DEF SentTo, Dispatched, Combined
    <3>2. SentTo(r, z)' = OpNow(r)' /\ Dispatched(r, z)' = OpNow(r)' /\ Combined(r, z)' = OpNow(r)' - 1
      BY <1>4 DEF SentTo, Dispatched, Combined
    <3> QED BY <1>4, <3>1, <3>2 DEF SameTo
  <2>2. Prepared(r) = OpNow(r) - 1 /\ Prepared(r)' = OpNow(r)' - 1
    BY <1>3, <1>4 DEF Prepared
  <2> QED BY <1>4, <2>1, <2>2
<1>8. EpochRight(r, m)'
  BY <1>1, <1>2, <1>3, <1>4 DEF Holds, EpochRight, DispatchEpoch
<1>9. ASSUME NEW y \in Ranks, Member(y, m) PROVE Met(r, y, m)'
  <2>1. Met(r, y, m)
    BY <1>1, <1>9 DEF Holds
  <2>2. Member(r, m)
    BY <1>0, Context
  <2>3. Combined(y, r)' = Combined(y, r) /\ Dispatched(y, r)' = Dispatched(y, r)
    BY <1>4, <1>7, <2>2 DEF SameTo
  <2>4. Dispatched(y, r) >= OpNow(r)
    BY <1>3, <1>6, <1>9, <2>1 DEF Met
  <2> QED BY <1>4, <2>1, <2>3, <2>4 DEF Met
<1> QED BY <1>1, <1>2, <1>4, <1>7, <1>8, <1>9, EndHolds

LEMMA EndCombineHolds ==
  ASSUME Uniform, Good, NEW r \in Ranks, EndCombine(r),
         NEW m \in 1 .. Len(program), Current(m), NEW x \in Ranks, Cleared(x, m), Member(x, m)
  PROVE  Holds(x, m)'
<1>0. stream[r] # <<>> /\ Running(r, "combine")
  BY DEF EndCombine, Running
<1>1. /\ TypeOK /\ InOrder /\ DoneOk(r) /\ Holds(x, m) /\ Holds(r, m) /\ m \in Nat
      /\ OpNow(r) \in Nat /\ m < OpNow(r) /\ 0 \in 0 .. MaxTokens - 1
      /\ r \in Round(r).active /\ Round(r).active \subseteq Ranks
      /\ \A q \in Ranks : Member(q, m) => q \in Round(r).active
  BY <1>0, Context, RankFacts, KernelFacts
<1>2. /\ program' = program /\ host' = host /\ flags' = flags /\ count' = count /\ memory' = memory
      /\ Finish(r) /\ epoch' = epoch
  BY DEF EndCombine
<1>3. Stage(r) = 3
  BY <1>0, <1>1, Where
<1>4. /\ done'[r] = {} /\ OpNow(r)' = OpNow(r) + 1 /\ Stage(r)' = 0
      /\ \A y \in Ranks : y # r => /\ SamePlace(y) /\ Prepared(y)' = Prepared(y) /\ done'[y] = done[y]
                                   /\ \A z \in Ranks : SameTo(y, z)
  BY <1>0, <1>1, <1>2, <1>3, EndPlaces
<1>5. Did(r, "wait", 0)
  <2>1. 0 \in Blocks(r)
    <3>1. Round(r).tokens[r] \in Nat
      BY <1>0, <1>1, KernelFacts
    <3> QED BY <3>1 DEF Blocks
  <2>2. Did(r, IF Round(r).tokens[r] = 0 THEN "wait" ELSE "read", 0)
    BY <2>1 DEF EndCombine
  <2>3. CASE Round(r).tokens[r] = 0
    BY <2>2, <2>3
  <2>4. CASE Round(r).tokens[r] # 0
    <3>1. <<"read", 0, r>> \in done[r]
      BY <1>1, <2>2, <2>4 DEF Did
    <3> QED BY <1>1, <3>1 DEF DoneOk
  <2> QED BY <2>3, <2>4
<1>6. ASSUME NEW z \in Ranks, Member(z, m)
      PROVE  <<"wait", 0, z>> \in done[r] /\ <<"signal", 0, z>> \in done[r]
  <2>1. z \in Round(r).active /\ <<"wait", 0, z>> \in done[r]
    BY <1>1, <1>5, <1>6 DEF Did
  <2>2. Did(r, "signal", 0)
    BY <1>1, <2>1 DEF DoneOk
  <2> QED BY <2>1, <2>2 DEF Did
<1>7. /\ \A z \in Ranks : Member(z, m) => SameTo(r, z)
      /\ Prepared(r)' = Prepared(r)
  <2>1. ASSUME NEW z \in Ranks, Member(z, m) PROVE SameTo(r, z)
    <3>0. <<"signal", 0, z>> \in done[r]
      BY <1>6, <2>1
    <3>1. SentTo(r, z) = OpNow(r) /\ Dispatched(r, z) = OpNow(r) /\ Combined(r, z) = OpNow(r)
      BY <1>3, <3>0 DEF SentTo, Dispatched, Combined
    <3>2. SentTo(r, z)' = OpNow(r)' - 1 /\ Dispatched(r, z)' = OpNow(r)' - 1 /\ Combined(r, z)' = OpNow(r)' - 1
      BY <1>4 DEF SentTo, Dispatched, Combined
    <3>3. OpNow(r)' - 1 = OpNow(r)
      BY <1>1, <1>4
    <3> QED BY <3>1, <3>2, <3>3 DEF SameTo
  <2>2. Prepared(r) = OpNow(r) /\ Prepared(r)' = OpNow(r)' - 1 /\ OpNow(r)' - 1 = OpNow(r)
    BY <1>1, <1>3, <1>4 DEF Prepared
  <2> QED BY <2>1, <2>2
<1>8. EpochRight(r, m)'
  <2>1. PICK i \in Nat : i = OpNow(r)
    BY <1>1
  <2>2. epoch[r] = CombineEpoch(i, m)
    BY <1>1, <1>3, <2>1 DEF Holds, EpochRight
  <2>3. OpNow(r)' - 1 = i
    BY <1>4, <2>1
  <2> QED BY <1>2, <1>4, <2>2, <2>3 DEF EpochRight, CombineEpoch
<1>9. ASSUME NEW y \in Ranks, Member(y, m) PROVE Met(r, y, m)'
  <2>1. Met(r, y, m)
    BY <1>1, <1>9 DEF Holds
  <2>2. Member(r, m)
    BY <1>0, Context
  <2>3. Combined(y, r)' = Combined(y, r)
    BY <1>4, <1>7, <2>2 DEF SameTo
  <2>4. Combined(y, r) >= OpNow(r)
    BY <1>1, <1>3, <1>6, <1>9, <2>1 DEF Met
  <2>5. OpNow(r)' - 1 = OpNow(r)
    BY <1>1, <1>4
  <2> QED BY <1>4, <2>3, <2>4, <2>5 DEF Met
<1> QED BY <1>1, <1>2, <1>4, <1>7, <1>8, <1>9, EndHolds

\* What r knows when it prepares its outputs: the others sent and signalled in
\* this round, and none is a round ahead.
LEMMA AllThere ==
  ASSUME Uniform, Good, NEW r \in Ranks, Running(r, "prepare_combine"),
         NEW m \in 1 .. Len(program), Current(m), NEW x \in Ranks, Cleared(x, m),
         NEW q \in Ranks, Member(q, m)
  PROVE  Dispatched(q, r) = OpNow(r) /\ SentTo(q, r) = OpNow(r)
<1>0. stream[r] # <<>>
  BY DEF Running
<1>1. /\ TypeOK /\ InOrder /\ Holds(r, m) /\ Holds(q, m) /\ Member(r, m) /\ m \in Nat
      /\ OpNow(r) \in Nat /\ m < OpNow(r) /\ DoneOk(q) /\ 0 \in 0 .. MaxTokens - 1
  BY <1>0, Context, DoneEach, RankFacts DEF Good
<1>2. Stage(r) = 2
  BY <1>0, <1>1, Where
<1>3. PICK i \in Nat : i = OpNow(r)
  BY <1>1
<1>4. PICK j \in Nat : j = OpNow(q)
  BY <1>1, ProgressFacts
<1>5. Dispatched(q, r) \in Int /\ Dispatched(q, r) >= i
  BY <1>1, <1>2, <1>3, ProgressFacts DEF Holds, Met
<1>6. Combined(r, q) = i - 1
  BY <1>2, <1>3 DEF Combined
<1>7. j > m + 1 => Combined(r, q) >= j - 1
  BY <1>1, <1>4 DEF Holds, Met
<1>8. j <= i
  BY <1>1, <1>3, <1>4, <1>6, <1>7
<1>9. j = i /\ Dispatched(q, r) = i
  BY <1>3, <1>4, <1>5, <1>8 DEF Dispatched
<1>10. Stage(q) > 1 \/ (Stage(q) = 1 /\ <<"signal", 0, r>> \in done[q])
  BY <1>4, <1>9 DEF Dispatched
<1>11. CASE Stage(q) > 1
  BY <1>3, <1>4, <1>9, <1>11 DEF SentTo
<1>12. CASE Stage(q) = 1 /\ <<"signal", 0, r>> \in done[q]
  <2>1. Running(q, "dispatch") \/ Running(q, "combine")
    BY <1>1, <1>12 DEF DoneOk
  <2>2. Running(q, "dispatch") /\ stream[q] # <<>> /\ ~Running(q, "combine")
    <3>1. stream[q] # <<>>
      BY <2>1 DEF Running
    <3> QED BY <1>1, <1>12, <3>1, Where
  <2>3. Did(q, "send", 0)
    BY <1>1, <1>12, <2>2 DEF DoneOk
  <2>4. r \in Round(q).active
    BY <1>1, <2>2, Context
  <2>5. <<"send", 0, r>> \in done[q]
    BY <2>3, <2>4 DEF Did
  <2> QED BY <1>3, <1>4, <1>9, <1>12, <2>5 DEF SentTo
<1> QED BY <1>10, <1>11, <1>12

LEMMA CombineMemory ==
  ASSUME TypeOK, NEW r \in Ranks, stream[r] # <<>>, PrepareCombine(r),
         \A q \in Round(r).active : count[r][q] <= Round(r).max
  PROVE  /\ \A z \in Ranks : z # r => memory'[z] = memory[z]
         /\ \A q \in Round(r).active : \A t \in 0 .. count[r][q] - 1 :
              memory'[r][CombineCell(Round(r), q, t)] = Output(memory[r][RecvCell(Round(r), q, t)], r)
         /\ \A c \in Cells :
              (\A q \in Round(r).active : \A t \in 0 .. count[r][q] - 1 : c # CombineCell(Round(r), q, t)) =>
                memory'[r][c] = memory[r][c]
<1> DEFINE S == Round(r).active \X (0 .. MaxTokens - 1)
           P(c, x) == x[2] < count[r][x[1]] /\ c = CombineCell(Round(r), x[1], x[2])
           g(c) ==
             IF \E q \in Round(r).active : \E t \in 0 .. count[r][q] - 1 : c = CombineCell(Round(r), q, t)
             THEN LET x == CHOOSE x \in S : P(c, x)
                  IN Output(memory[r][RecvCell(Round(r), x[1], x[2])], r)
             ELSE memory[r][c]
           f == [c \in Cells |-> g(c)]
<1>1. /\ Round(r).active \subseteq Ranks
      /\ Round(r).max \in Nat /\ Round(r).max > 0 /\ Round(r).max <= MaxTokens /\ MaxTokens \in Nat
  BY KernelFacts, RankFacts
<1>2. memory' = [memory EXCEPT ![r] = f]
  BY DEF PrepareCombine
<1>3. memory'[r] = f /\ \A z \in Ranks : z # r => memory'[z] = memory[z]
  <2> HIDE DEF g
  <2>1. f = [c \in Cells |-> f[c]]
    OBVIOUS
  <2> HIDE DEF f
  <2> QED BY <1>2, <2>1, WrittenType
<1>4. \A q \in Round(r).active : q \in Ranks /\ count[r][q] \in Nat
  BY <1>1 DEF TypeOK
<1>5. ASSUME NEW q \in Round(r).active, NEW t \in 0 .. count[r][q] - 1
      PROVE  memory'[r][CombineCell(Round(r), q, t)] = Output(memory[r][RecvCell(Round(r), q, t)], r)
  <2>1. t \in 0 .. Round(r).max - 1 /\ t \in 0 .. MaxTokens - 1 /\ t < count[r][q] /\ q \in Ranks
    BY <1>1, <1>4
  <2>2. PICK c \in Cells : c = CombineCell(Round(r), q, t)
    BY <1>1, <2>1, CellFacts
  <2>3. <<q, t>> \in S /\ P(c, <<q, t>>)
    BY <2>1, <2>2
  <2>4. PICK x \in S : x = CHOOSE y \in S : P(c, y)
    BY <2>3
  <2>5. P(c, x)
    BY <2>3, <2>4
  <2>6. x[1] \in Ranks /\ x[2] \in 0 .. Round(r).max - 1
    <3>1. x[1] \in Round(r).active /\ x[2] \in 0 .. MaxTokens - 1
      BY <2>4
    <3> QED BY <1>1, <1>4, <2>5, <3>1
  <2>7. x[1] = q /\ x[2] = t
    <3>1. PICK p \in Ranks : p = x[1]
      BY <2>6
    <3>2. PICK u \in 0 .. Round(r).max - 1 : u = x[2]
      BY <2>6
    <3>3. CombineCell(Round(r), q, t) = CombineCell(Round(r), p, u)
      BY <2>2, <2>5, <3>1, <3>2
    <3>4. p = q /\ u = t
      BY <1>1, <2>1, <3>3, CellFacts
    <3> QED BY <3>1, <3>2, <3>4
  <2>8. f[c] = Output(memory[r][RecvCell(Round(r), x[1], x[2])], r)
    BY <2>2, <2>4
  <2> QED BY <1>3, <2>2, <2>7, <2>8
<1>6. \A c \in Cells :
        (\A q \in Round(r).active : \A t \in 0 .. count[r][q] - 1 : c # CombineCell(Round(r), q, t)) =>
          memory'[r][c] = memory[r][c]
  BY <1>3
<1> QED BY <1>3, <1>5, <1>6

LEMMA PrepareCombineHolds ==
  ASSUME Uniform, Good, NEW r \in Ranks, PrepareCombine(r),
         NEW m \in 1 .. Len(program), Current(m), NEW x \in Ranks, Cleared(x, m), Member(x, m)
  PROVE  Holds(x, m)'
<1>0. stream[r] # <<>> /\ Running(r, "prepare_combine")
  BY DEF PrepareCombine, Running
<1>1. /\ TypeOK /\ InOrder /\ Holds(x, m) /\ Holds(r, m) /\ m \in Nat
      /\ OpNow(r) \in Nat /\ m < OpNow(r) /\ Round(r) = Op(OpNow(r)) /\ Round(r).max = Op(m + 1).max
      /\ \A q \in Ranks : Member(q, m) <=> q \in Round(r).active
  BY <1>0, Context
<1>2. /\ program' = program /\ host' = host /\ flags' = flags /\ count' = count
      /\ Finish(r) /\ epoch' = [epoch EXCEPT ![r] = NextEpoch(@)]
  BY DEF PrepareCombine
<1>3. Stage(r) = 2
  BY <1>0, <1>1, Where
<1>4. /\ done'[r] = {} /\ OpNow(r)' = OpNow(r) /\ Stage(r)' = 3
      /\ \A y \in Ranks : y # r => /\ SamePlace(y) /\ Prepared(y)' = Prepared(y) /\ done'[y] = done[y]
                                   /\ \A z \in Ranks : SameTo(y, z)
  BY <1>0, <1>1, <1>2, <1>3, EndPlaces
<1>5. \A z \in Ranks : SameTo(r, z)
  BY <1>3, <1>4 DEF SameTo, SentTo, Dispatched, Combined
<1>6. epoch'[r] = NextEpoch(epoch[r]) /\ \A y \in Ranks : y # r => epoch'[y] = epoch[y]
  BY <1>1, <1>2 DEF TypeOK
<1>7. PICK i \in Nat : i = OpNow(r)
  BY <1>1
<1>8. EpochRight(r, m)'
  <2>1. epoch[r] = DispatchEpoch(i, m)
    BY <1>1, <1>3, <1>7 DEF Holds, EpochRight
  <2>2. epoch'[r] = CombineEpoch(i, m)
    BY <1>1, <1>6, <1>7, <2>1, EpochNext
  <2> QED BY <1>4, <1>7, <2>2 DEF EpochRight, CombineEpoch
<1>9. EpochRight(x, m)'
  <2>1. CASE x = r
    BY <1>8, <2>1
  <2>2. CASE x # r
    BY <1>1, <1>4, <1>6, <2>2, EpochKept DEF Holds
  <2> QED BY <2>1, <2>2
<1>10. ASSUME NEW y \in Ranks, Member(y, m) PROVE Met(x, y, m)'
  <2>1. Met(x, y, m)
    BY <1>1, <1>10 DEF Holds
  <2>2. Combined(y, x)' = Combined(y, x) /\ Dispatched(y, x)' = Dispatched(y, x)
    BY <1>4, <1>5 DEF SameTo
  <2>3. CASE x = r
    BY <1>3, <1>4, <2>1, <2>2, <2>3 DEF Met
  <2>4. CASE x # r
    <3>1. SamePlace(x) /\ done'[x] = done[x]
      BY <1>4, <2>4
    <3>2. Combined(y, x) \in Int /\ Dispatched(y, x) \in Int
      BY <1>1, ProgressFacts
    <3> QED BY <1>1, <2>1, <2>2, <3>1, <3>2, MetKept
  <2> QED BY <2>3, <2>4
\* The tokens are there, and the outputs go to cells of their own.
<1>11. /\ Round(r).max \in Nat /\ Round(r).max > 0 /\ Round(r).max <= MaxTokens
       /\ Round(r).active \subseteq Ranks
       /\ \A q \in Ranks : Round(r).tokens[q] \in Nat /\ Round(r).tokens[q] <= Round(r).max
  BY <1>0, <1>1, KernelFacts
<1>12. ASSUME NEW q \in Ranks, Member(q, m)
       PROVE  /\ count[r][q] = Op(i).tokens[q]
              /\ \A t \in 0 .. Op(i).tokens[q] - 1 : memory[r][RecvCell(Op(m + 1), q, t)] = Token(i, q, t)
  <2>1. Dispatched(q, r) = i /\ SentTo(q, r) = i
    BY <1>0, <1>7, <1>12, AllThere
  <2>2. RowRight(r, q, m) /\ i > m
    BY <1>1, <1>7, <1>12 DEF Holds
  <2> QED BY <2>1, <2>2 DEF RowRight
<1>13. \A q \in Round(r).active : count[r][q] <= Round(r).max
  BY <1>1, <1>7, <1>11, <1>12
<1>14. /\ \A z \in Ranks : z # r => memory'[z] = memory[z]
       /\ \A q \in Round(r).active : \A t \in 0 .. count[r][q] - 1 :
            memory'[r][CombineCell(Round(r), q, t)] = Output(memory[r][RecvCell(Round(r), q, t)], r)
       /\ \A c \in Cells :
            (\A q \in Round(r).active : \A t \in 0 .. count[r][q] - 1 : c # CombineCell(Round(r), q, t)) =>
              memory'[r][c] = memory[r][c]
  BY <1>0, <1>1, <1>13, CombineMemory
<1>15. \A y \in Ranks, t \in Int : /\ RecvCell(Op(m + 1), y, t) = RecvCell(Round(r), y, t)
                                   /\ CombineCell(Op(m + 1), y, t) = CombineCell(Round(r), y, t)
  BY <1>1 DEF RecvCell, CombineCell
<1>16. ASSUME NEW y \in Ranks, NEW t \in 0 .. Round(r).max - 1
       PROVE  memory'[r][RecvCell(Op(m + 1), y, t)] = memory[r][RecvCell(Op(m + 1), y, t)]
  <2>1. /\ RecvCell(Round(r), y, t) \in Cells
        /\ \A q \in Ranks, u \in 0 .. Round(r).max - 1 : RecvCell(Round(r), y, t) # CombineCell(Round(r), q, u)
    BY <1>11, CellFacts
  <2>2. \A q \in Round(r).active : q \in Ranks /\ \A u \in 0 .. count[r][q] - 1 : u \in 0 .. Round(r).max - 1
    BY <1>1, <1>7, <1>11, <1>12
  <2> QED BY <1>14, <1>15, <2>1, <2>2
<1>17. ASSUME NEW y \in Ranks, Member(y, m) PROVE RowRight(x, y, m)'
  <2>1. FlagsIn(x, y, m) /\ CountIn(x, y, m) /\ RecvIn(x, y, m) /\ PutOut(x, y, m)
    BY <1>1, <1>17, RowIs DEF Holds
  <2>2. /\ Dispatched(y, x)' = Dispatched(y, x) /\ Combined(y, x)' = Combined(y, x)
        /\ SentTo(y, x)' = SentTo(y, x)
    BY <1>4, <1>5 DEF SameTo
  <2>3. FlagsIn(x, y, m)' /\ CountIn(x, y, m)'
    BY <1>1, <1>2, <2>1, <2>2, FlagsKept, CountKept
  <2>4. RecvIn(x, y, m)'
    <3>1. CASE x # r
      BY <1>1, <1>2, <1>14, <2>1, <2>2, <3>1, RecvKept
    <3>2. CASE x = r
      <4>1. SentTo(y, x) > m => \A t \in 0 .. Op(SentTo(y, x)).tokens[y] - 1 : t \in 0 .. Round(r).max - 1
        <5>1. SentTo(y, x) \in Int /\ (SentTo(y, x) = OpNow(y) - 1 \/ (SentTo(y, x) = OpNow(y) /\ Stage(y) > 0))
          BY <1>1, ProgressFacts
        <5>2. SentTo(y, x) > m => Op(SentTo(y, x)).tokens[y] \in Nat /\ Op(SentTo(y, x)).tokens[y] <= Round(r).max
          BY <1>1, <5>1, ProgressRounds DEF Good
        <5> QED BY <1>11, <5>2
      <4>2. SentTo(y, x) > m => \A t \in 0 .. Op(SentTo(y, x)).tokens[y] - 1 :
               memory'[x][RecvCell(Op(m + 1), y, t)] = memory[x][RecvCell(Op(m + 1), y, t)]
        BY <1>16, <3>2, <4>1
      <4> QED BY <1>1, <1>2, <2>1, <2>2, <4>2, RecvKept
    <3> QED BY <3>1, <3>2
  <2>5. PutOut(x, y, m)'
    <3>1. CASE x # r
      <4>1. Prepared(x)' = Prepared(x) /\ memory'[x] = memory[x]
        BY <1>4, <1>14, <3>1
      <4> QED BY <1>1, <1>2, <2>1, <4>1, PutOutKept
    <3>2. CASE x = r
      <4>1. Prepared(r)' = i
        BY <1>4, <1>7 DEF Prepared
      <4>2. \A t \in 0 .. Op(i).tokens[y] - 1 :
              memory'[r][CombineCell(Op(m + 1), y, t)] = Output(Token(i, y, t), r)
        BY <1>1, <1>12, <1>14, <1>15, <1>17
      <4>3. Op(i)' = Op(i) /\ Op(m + 1)' = Op(m + 1)
        BY <1>2 DEF Op
      <4> QED BY <3>2, <4>1, <4>2, <4>3 DEF PutOut, CombineCell, Output, Token
    <3> QED BY <3>1, <3>2
  <2> QED BY <1>1, <2>3, <2>4, <2>5, RowNext
<1> QED BY <1>1, <1>2, <1>9, <1>10, <1>17, HoldsNext

LEMMA DeviceExchange ==
  ASSUME Uniform, Good, TypeOK', NEW r \in Ranks, DeviceStep(r)
  PROVE  Exchange'
<1>1. program' = program /\ host' = host /\ stream[r] # <<>> /\ TypeOK
  BY DeviceEffect DEF Good, Ready
<1>2. ASSUME NEW m \in 1 .. Len(program), Current(m), NEW x \in Ranks, Cleared(x, m), Member(x, m)
      PROVE  Holds(x, m)'
  <2>1. CASE Ends(r)
    BY <1>2, <2>1, PrepareDispatchHolds, EndDispatchHolds, PrepareCombineHolds, EndCombineHolds DEF Ends
  <2>2. CASE \E q \in Round(r).active : Send(r, q) \/ SignalDispatch(r, q) \/ SignalCombine(r, q)
    BY <1>1, <1>2, <2>2, SendHolds, SignalDispatchHolds, SignalCombineHolds
  <2>3. CASE \E q \in Round(r).active : \E b \in 0 .. MaxTokens - 1 :
               WaitDispatch(r, q) \/ WaitCombine(r, b, q) \/ Read(r, b, q)
    BY <1>1, <1>2, <2>3, WaitHolds
  <2> QED BY <2>1, <2>2, <2>3, RankFacts DEF DeviceStep, Ends
<1>3. ASSUME NEW m \in 1 .. Len(program)
      PROVE  /\ Current(m)' <=> Current(m)
             /\ \A x \in Ranks : (Cleared(x, m)' <=> Cleared(x, m)) /\ (Member(x, m)' <=> Member(x, m))
  BY <1>1 DEF Current, Cleared, Member, Reached, Checkpoint, Op
<1> QED BY <1>1, <1>2, <1>3, ExchangeNext

LEMMA DeviceOrder ==
  ASSUME Uniform, Good, TypeOK', NEW r \in Ranks, DeviceStep(r)
  PROVE  InOrder'
<1>1. program' = program /\ host' = host /\ stream[r] # <<>> /\ TypeOK /\ InOrder
  BY DeviceEffect DEF Good, Ready
<1>2. CASE stream' = stream
  <2>1. \A x \in Ranks : Place(x)' = Place(x)
    BY <1>1, <1>2 DEF Place, At, Op
  <2> QED BY <1>1, <1>2, <2>1, OrdersEach, OrderKept, OrdersNext
<1>3. CASE Finish(r)
  BY <1>1, <1>3, FinishOrder, OrdersNext
<1> QED BY <1>2, <1>3, DeviceEffect

-----------------------------------------------------------------------------
\* The steps of the hosts.
LEMMA FrameHolds ==
  ASSUME TypeOK, InOrder, NEW m \in Nat, program' = program, done' = done,
         \A y \in Ranks : Member(y, m) => Place(y)' = Place(y),
         NEW x \in Ranks, Member(x, m), Holds(x, m),
         epoch'[x] = epoch[x], count'[x] = count[x], memory'[x] = memory[x],
         flags'["dispatch"][x] = flags["dispatch"][x], flags'["combine"][x] = flags["combine"][x]
  PROVE  Holds(x, m)'
<1>1. \A y \in Ranks : Member(y, m) => /\ SamePlace(y) /\ Prepared(y)' = Prepared(y)
                                       /\ \A z \in Ranks : SameTo(y, z)
  BY SameGives DEF Same
<1>2. EpochRight(x, m)'
  BY <1>1, EpochKept DEF Holds
<1>3. ASSUME NEW y \in Ranks, Member(y, m) PROVE RowRight(x, y, m)' /\ Met(x, y, m)'
  <2>1. /\ FlagsIn(x, y, m) /\ CountIn(x, y, m) /\ RecvIn(x, y, m) /\ PutOut(x, y, m)
        /\ Met(x, y, m)
    BY <1>3, RowIs DEF Holds
  <2>2. /\ SentTo(y, x)' = SentTo(y, x) /\ Dispatched(y, x)' = Dispatched(y, x)
        /\ Combined(y, x)' = Combined(y, x) /\ Prepared(x)' = Prepared(x) /\ SamePlace(x)
    BY <1>1, <1>3 DEF SameTo
  <2>3. FlagsIn(x, y, m)' /\ CountIn(x, y, m)'
    BY <2>1, <2>2, FlagsKept, CountKept
  <2>4. RecvIn(x, y, m)' /\ PutOut(x, y, m)'
    BY <2>1, <2>2, RecvKept, PutOutKept
  <2>5. Combined(y, x) \in Int /\ Dispatched(y, x) \in Int
    BY ProgressFacts
  <2>6. Met(x, y, m)'
    BY <2>1, <2>2, <2>5, MetKept
  <2> QED BY <2>3, <2>4, <2>6, RowNext
<1> QED BY <1>2, <1>3, HoldsNext

\* The end of the map operation: r is ready for the first round after it.
LEMMA FirstRoundHolds ==
  ASSUME TypeOK, InOrder, NEW r \in Ranks, NEW m \in Nat, OpNow(r) = m, Stage(r) = 0,
         Place(r)' = Place(r) + 4, \A y \in Ranks : y # r => Place(y)' = Place(y),
         program' = program, done' = done,
         epoch' = epoch, flags' = flags, count' = count, memory' = memory,
         NEW x \in Ranks, Holds(x, m)
  PROVE  Holds(x, m)'
<1>1. \A y \in Ranks : y # r => /\ SamePlace(y) /\ Prepared(y)' = Prepared(y)
                                /\ \A z \in Ranks : SameTo(y, z)
  BY SameGives DEF Same
<1>2. OpNow(r)' = m + 1 /\ Stage(r)' = 0
  <2>1. Place(r) = 4 * m /\ Place(r)' = 4 * (m + 1) + 0
    BY Where
  <2>2. PICK p \in Nat : p = 4 * (m + 1) + 0
    OBVIOUS
  <2>3. p \div 4 = m + 1 /\ p % 4 = 0
    BY <2>2, FourUnique
  <2> QED BY <2>1, <2>2, <2>3 DEF OpNow, Stage
<1>3. ASSUME NEW z \in Ranks
      PROVE  /\ SentTo(r, z) = m - 1 /\ Dispatched(r, z) = m - 1 /\ Combined(r, z) = m - 1
             /\ SentTo(r, z)' = m /\ Dispatched(r, z)' = m /\ Combined(r, z)' = m
  BY <1>2 DEF SentTo, Dispatched, Combined
<1>4. Prepared(r) = m - 1 /\ Prepared(r)' = m
  BY <1>2 DEF Prepared
<1>5. CombineEpoch(m - 1, m) = 0 /\ CombineEpoch(m, m) = 0 /\ DispatchEpoch(m - 1, m) = 0 /\ DispatchEpoch(m, m) = 0
  BY DEF CombineEpoch, DispatchEpoch
<1>6. EpochRight(x, m)'
  <2>1. CASE x # r
    BY <1>1, <2>1, EpochKept DEF Holds
  <2>2. CASE x = r
    <3>1. epoch[r] = 0
      BY <1>5, <2>2 DEF Holds, EpochRight
    <3>2. CombineEpoch(OpNow(r)' - 1, m) = 0
      BY <1>2, <1>5
    <3> QED BY <1>2, <2>2, <3>1, <3>2 DEF EpochRight, CombineEpoch
  <2> QED BY <2>1, <2>2
<1>7. ASSUME NEW y \in Ranks, Member(y, m) PROVE RowRight(x, y, m)' /\ Met(x, y, m)'
  <2>1. /\ FlagsIn(x, y, m) /\ CountIn(x, y, m) /\ RecvIn(x, y, m) /\ PutOut(x, y, m)
        /\ Met(x, y, m)
    BY <1>7, RowIs DEF Holds
  <2>2. FlagsIn(x, y, m)' /\ CountIn(x, y, m)' /\ RecvIn(x, y, m)'
    <3>1. CASE y # r
      <4>1. /\ SentTo(y, x)' = SentTo(y, x) /\ Dispatched(y, x)' = Dispatched(y, x)
            /\ Combined(y, x)' = Combined(y, x)
        BY <1>1, <3>1 DEF SameTo
      <4> QED BY <2>1, <4>1, FlagsKept, CountKept, RecvKept
    <3>2. CASE y = r
      <4>1. flags["dispatch"][x][r] = 0 /\ flags["combine"][x][r] = 0
        BY <1>3, <1>5, <2>1, <3>2 DEF FlagsIn
      <4>2. FlagsIn(x, r, m)'
        BY <1>3, <1>5, <4>1 DEF FlagsIn, DispatchEpoch, CombineEpoch
      <4>3. CountIn(x, r, m)' /\ RecvIn(x, r, m)'
        BY <1>3 DEF CountIn, RecvIn
      <4> QED BY <3>2, <4>2, <4>3
    <3> QED BY <3>1, <3>2
  <2>3. PutOut(x, y, m)'
    <3>1. CASE x # r
      BY <1>1, <2>1, <3>1, PutOutKept
    <3>2. CASE x = r
      BY <1>4, <3>2 DEF PutOut
    <3> QED BY <3>1, <3>2
  <2>4. Met(x, y, m)'
    <3>1. CASE x # r
      <4>1. SamePlace(x) /\ done'[x] = done[x]
        BY <1>1, <3>1
      <4>2. Combined(y, x) \in Int /\ Dispatched(y, x) \in Int
        BY ProgressFacts
      <4>3. /\ Combined(y, x)' \in Int /\ Dispatched(y, x)' \in Int
            /\ Combined(y, x)' >= Combined(y, x) /\ Dispatched(y, x)' >= Dispatched(y, x)
        <5>1. CASE y # r
          BY <1>1, <4>2, <5>1 DEF SameTo
        <5>2. CASE y = r
          BY <1>3, <5>2
        <5> QED BY <5>1, <5>2
      <4> QED BY <2>1, <4>1, <4>3, MetKept
    <3>2. CASE x = r
      BY <1>2, <3>2 DEF Met
    <3> QED BY <3>1, <3>2
  <2> QED BY <2>2, <2>3, <2>4, RowNext
<1> QED BY <1>6, <1>7, HoldsNext

\* The clearing of a row: nobody is past the map operation.
LEMMA ClearHolds ==
  ASSUME TypeOK, InOrder, HostsMeet, StreamsRight, NEW r \in Ranks, ClearRow(r), done' = done,
         \A y \in Ranks : Place(y)' = Place(y),
         NEW m \in Nat, m = host[r].op
  PROVE  Holds(r, m)'
<1>1. /\ Op(m).kind = "map" /\ host[r].step = 2 /\ m <= Len(program) /\ 1 <= m /\ program' = program
      /\ Len(program) \in Nat /\ program \in Programs /\ DOMAIN program = 1 .. Len(program)
  BY HostType, ProgramFacts DEF ClearRow, At, TypeOK
<1>2. Checkpoint(m) /\ LastStep(m) = 3 /\ m \in DOMAIN program
  BY <1>1 DEF Checkpoint, LastStep
<1>3. \A y \in Ranks : host[y].op \in Nat /\ host[y].op <= m
  <2>1. ASSUME NEW y \in Ranks, host[y].op > m PROVE FALSE
    <3>1. Reached(r, m, LastStep(m))
      BY <1>2, <2>1 DEF HostsMeet
    <3> QED BY <1>1, <1>2, <3>1 DEF Reached
  <2>2. \A y \in Ranks : host[y].op \in Nat
    BY HostType
  <2> QED BY <2>1, <2>2
<1>4. \A y \in Ranks : OpNow(y) \in Nat /\ OpNow(y) <= m
  BY <1>3, Where
<1>5. stream[r] = <<>>
  <2>1. StreamRight(r)
    BY StreamsEach
  <2> QED BY <1>1, <1>2, <2>1 DEF StreamRight
<1>6. OpNow(r) = m /\ Stage(r) = 0
  <2>1. ~At(r, "round", 1)
    BY <1>1 DEF At
  <2> QED BY <1>5, <2>1, Where
<1>7. \A y \in Ranks : /\ SamePlace(y) /\ Prepared(y)' = Prepared(y)
                       /\ \A z \in Ranks : SameTo(y, z)
  BY SameGives DEF Same
<1>8. /\ epoch'[r] = 0
      /\ \A y \in Ranks : flags'["dispatch"][r][y] = 0 /\ flags'["combine"][r][y] = 0
  BY DEF ClearRow, TypeOK
<1>9. EpochRight(r, m)'
  BY <1>6, <1>7, <1>8 DEF SamePlace, EpochRight, CombineEpoch
<1>10. ASSUME NEW y \in Ranks PROVE RowRight(r, y, m)' /\ Met(r, y, m)'
  <2>1. /\ SentTo(y, r)' \in Int /\ SentTo(y, r)' <= m
        /\ Dispatched(y, r)' \in Int /\ Dispatched(y, r)' <= m
        /\ Combined(y, r)' \in Int /\ Combined(y, r)' <= m
    BY <1>4, <1>7, ProgressFacts DEF SameTo
  <2>2. Prepared(r)' = m - 1
    BY <1>6, <1>7 DEF Prepared
  <2>3. FlagsIn(r, y, m)'
    BY <1>8, <2>1 DEF FlagsIn, DispatchEpoch, CombineEpoch
  <2>4. CountIn(r, y, m)' /\ RecvIn(r, y, m)'
    BY <2>1 DEF CountIn, RecvIn
  <2>5. PutOut(r, y, m)'
    BY <2>2 DEF PutOut
  <2>6. Met(r, y, m)'
    BY <1>6, <1>7 DEF SamePlace, Met
  <2> QED BY <2>3, <2>4, <2>5, <2>6, RowNext
<1> QED BY <1>1, <1>9, <1>10, HoldsNext

\* A host that finishes an operation it did not finish before, by its steps.
LEMMA MapSteps ==
  ASSUME TypeOK, TypeOK', NEW r \in Ranks, HostStep(r), NEW q \in Ranks, NEW m \in 1 .. Len(program),
         Op(m).kind = "map", Reached(q, m, 3)', ~Reached(q, m, 3)
  PROVE  q = r /\ m = host[r].op /\ ClearRow(r)
<1>1. Advances(r) /\ program \in Programs /\ Len(program) \in Nat
  BY HostAdvances, HostType
<1>2. /\ q = r
      /\ \/ StepsOn(r) /\ m = host[r].op /\ 3 = host[r].step + 1
         \/ OpDone(r) /\ m = host[r].op /\ 3 > host[r].step
  BY <1>1, ReachedNew
<1>3. Checkpoint(m) /\ LastStep(m) = 3
  BY DEF Checkpoint, LastStep
<1>4. host[r].step = 2 /\ m = host[r].op
  BY <1>2, <1>3, HostType DEF OpDone
<1>5. ClearRow(r)
  BY <1>4 DEF HostStep, Dispatch, Combine, Synchronize, Unmap, Map, EndCheckpoint, At
<1> QED BY <1>2, <1>4, <1>5

\* A map operation becomes the current one before any row is cleared for it.
LEMMA CurrentNew ==
  ASSUME TypeOK, TypeOK', HostsMeet, NEW r \in Ranks, HostStep(r), NEW m \in 1 .. Len(program),
         Current(m)', NEW x \in Ranks, Cleared(x, m)'
  PROVE  Current(m)
<1>1. Advances(r) /\ program' = program /\ Len(program) \in Nat /\ DOMAIN program = 1 .. Len(program)
  BY HostAdvances, HostType, ProgramFacts DEF Advances
<1>2. Op(m).kind = "map" /\ Checkpoint(m)
  BY <1>1 DEF Current, Checkpoint, Op
<1>3. ASSUME NEW q \in Ranks, NEW c \in m + 1 .. Len(program), Checkpoint(c), Reached(q, c, 2) PROVE FALSE
  <2>1. Reached(q, c, 2)' /\ Checkpoint(c)'
    BY <1>1, <1>3, ReachedKept, CheckpointKept
  <2> QED BY <1>1, <1>3, <2>1 DEF Current
<1>4. ASSUME NEW q \in Ranks PROVE Reached(q, m, 1)
  <2>1. CASE Reached(x, m, 2)
    BY <1>1, <1>2, <2>1 DEF HostsMeet
  <2>2. CASE ~Reached(x, m, 2)
    <3>1. ~Reached(x, m, 3)
      BY <2>2, HostType DEF Reached
    <3>2. x = r /\ m = host[r].op /\ ClearRow(r)
      BY <1>2, <3>1, MapSteps DEF Cleared
    <3>3. Reached(x, m, 2)
      BY <3>2, HostType DEF ClearRow, At, Reached
    <3> QED BY <2>2, <3>3
  <2> QED BY <2>1, <2>2
<1> QED BY <1>2, <1>3, <1>4 DEF Current

\* At the end of a checkpoint operation, or when r sits out a round.
LEMMA PlaceNew ==
  ASSUME Uniform, Ready, TypeOK', InOrder, NEW r \in Ranks, HostStep(r), NEW m \in 1 .. Len(program),
         Current(m), Current(m)'
  PROVE  \/ Place(r)' = Place(r)
         \/ EndCheckpoint(r) /\ Place(r)' = Place(r) + 4 /\ OpNow(r) = m /\ Stage(r) = 0
         \/ Dispatch(r) /\ ~Member(r, m)
<1>1. TypeOK /\ StreamsRight
  BY DEF Ready
<1>2. PICK h \in Nat : h = host[r].op
  BY <1>1, HostType
<1>3. Reached(r, m, 1) /\ h >= m /\ Op(m).kind = "map"
  BY <1>2 DEF Current, Reached
<1>4. CASE EndCheckpoint(r) /\ stream[r] = <<>> /\ Place(r)' = Place(r) + 4
  <2>1. Checkpoint(h) /\ h <= Len(program) /\ ~At(r, "round", 1) /\ Len(program) \in Nat
    BY <1>1, <1>2, <1>4, HostType DEF EndCheckpoint, At, Checkpoint
  <2>2. OpNow(r) = h /\ Stage(r) = 0
    BY <1>1, <1>2, <1>4, <2>1, Where DEF Ready
  <2>3. ASSUME h # m PROVE FALSE
    <3>1. h \in m + 1 .. Len(program)
      BY <1>3, <2>1, <2>3
    <3>2. host[r].step >= 2
      BY <1>4 DEF EndCheckpoint, At
    <3>3. Reached(r, h, 2)
      BY <1>2, <3>2 DEF Reached
    <3> QED BY <2>1, <3>1, <3>3 DEF Current
  <2> QED BY <1>4, <2>2, <2>3
<1>5. CASE Dispatch(r) /\ r \notin Op(host[r].op).active
  <2>1. Op(h).kind = "round" /\ h <= Len(program) /\ r \notin Op(h).active
    BY <1>2, <1>5 DEF Dispatch, At
  <2>2. m < h
    BY <1>3, <2>1
  <2>3. Op(h).active = Op(m + 1).active
    BY <1>1, <1>2, <2>1, <2>2, RoundsAfter
  <2> QED BY <1>5, <2>1, <2>3 DEF Member
<1> QED BY <1>1, <1>4, <1>5, HostEffect

LEMMA HostExchange ==
  ASSUME Uniform, Good, TypeOK', NEW r \in Ranks, HostStep(r)
  PROVE  Exchange'
<1>1. /\ Ready /\ TypeOK /\ HostsMeet /\ StreamsRight /\ InOrder /\ DoneRight
      /\ Len(program) \in Nat
  BY HostType DEF Good, Ready
<1>2. program' = program /\ done' = done
  BY <1>1, HostDone, HostAdvances DEF Advances
<1>3. ASSUME NEW m \in 1 .. Len(program), Current(m)', NEW x \in Ranks, Cleared(x, m)', Member(x, m)'
      PROVE  Holds(x, m)'
  <2>1. Current(m) /\ Member(x, m) /\ Op(m).kind = "map" /\ m \in Nat
    BY <1>1, <1>2, <1>3, CurrentNew DEF Member, Op, Current
  <2>2. \A y \in Ranks : y # r => Place(y)' = Place(y)
    BY <1>1, HostEffect
  <2>3. \/ Place(r)' = Place(r)
        \/ EndCheckpoint(r) /\ Place(r)' = Place(r) + 4 /\ OpNow(r) = m /\ Stage(r) = 0
        \/ Dispatch(r) /\ ~Member(r, m)
    BY <1>1, <1>3, <2>1, PlaceNew
  <2>4. CASE ClearRow(r)
    <3>1. At(r, "map", 2)
      BY <2>4 DEF ClearRow
    <3>2. ~EndCheckpoint(r) /\ ~Dispatch(r)
      BY <3>1 DEF EndCheckpoint, Dispatch, At
    <3>3. \A y \in Ranks : Place(y)' = Place(y)
      BY <2>2, <2>3, <3>2
    <3>4. CASE ~Cleared(x, m)
      <4>1. x = r /\ m = host[r].op
        BY <1>1, <1>3, <2>1, <3>4, MapSteps DEF Cleared
      <4> QED BY <1>1, <1>2, <2>1, <2>4, <3>3, <4>1, ClearHolds
    <3>5. CASE Cleared(x, m)
      <4>1. x # r
        <5> SUFFICES ASSUME x = r PROVE FALSE
          OBVIOUS
        <5>1. PICK h \in Nat : h = host[r].op
          BY <1>1, HostType
        <5>2. host[r].step = 2 /\ Op(h).kind = "map" /\ h <= Len(program)
          BY <3>1, <5>1 DEF At
        <5>3. h > m
          BY <3>5, <5>1, <5>2 DEF Cleared, Reached
        <5>4. h \in m + 1 .. Len(program) /\ Checkpoint(h) /\ Reached(r, h, 2)
          BY <1>1, <5>1, <5>2, <5>3 DEF Checkpoint, Reached
        <5> QED BY <2>1, <5>4 DEF Current
      <4>2. Holds(x, m)
        BY <1>1, <2>1, <3>5, ExchangeEach DEF Good
      <4>3. /\ epoch'[x] = epoch[x] /\ count'[x] = count[x] /\ memory'[x] = memory[x]
            /\ flags'["dispatch"][x] = flags["dispatch"][x] /\ flags'["combine"][x] = flags["combine"][x]
        BY <1>1, <2>4, <4>1 DEF ClearRow, TypeOK
      <4> QED BY <1>1, <1>2, <2>1, <3>3, <4>2, <4>3, FrameHolds
    <3> QED BY <3>4, <3>5
  <2>5. CASE ~ClearRow(r)
    <3>1. epoch' = epoch /\ flags' = flags /\ count' = count /\ memory' = memory
      BY <2>5 DEF HostStep, Dispatch, Combine, Synchronize, Unmap, Map, EndCheckpoint, device
    <3>2. Cleared(x, m)
      BY <1>1, <1>3, <2>1, <2>5, MapSteps DEF Cleared
    <3>3. Holds(x, m)
      BY <1>1, <2>1, <3>2, ExchangeEach DEF Good
    <3>4. CASE EndCheckpoint(r) /\ Place(r)' = Place(r) + 4 /\ OpNow(r) = m /\ Stage(r) = 0
      BY <1>1, <1>2, <2>1, <2>2, <3>1, <3>3, <3>4, FirstRoundHolds
    <3>5. CASE Place(r)' = Place(r) \/ ~Member(r, m)
      <4>1. \A y \in Ranks : Member(y, m) => Place(y)' = Place(y)
        BY <2>2, <3>5
      <4> QED BY <1>1, <1>2, <2>1, <3>1, <3>3, <4>1, FrameHolds
    <3> QED BY <2>3, <3>4, <3>5
  <2> QED BY <2>4, <2>5
<1> QED BY <1>2, <1>3, ExchangeNext

-----------------------------------------------------------------------------
\* What combine reads.
ReadRight(r) == \A x \in out[r] : x[3] = Output(Token(Kernel(r).op, r, x[1]), x[2])
OutRight(r) == ReadRight(r) /\ (out[r] # {} => Running(r, "combine"))

LEMMA OutKept ==
  ASSUME NEW x \in Ranks, OutRight(x), out'[x] = out[x],
         stream[x] # <<>> => stream'[x] # <<>> /\ Kernel(x)' = Kernel(x)
  PROVE  OutRight(x)'
<1>1. CASE out[x] = {}
  BY <1>1 DEF OutRight, ReadRight
<1>2. CASE out[x] # {}
  <2>1. Running(x, "combine") /\ stream[x] # <<>>
    BY <1>2 DEF OutRight, Running
  <2> QED BY <2>1 DEF OutRight, ReadRight, Running, Output, Token
<1> QED BY <1>1, <1>2

\* A rank that signalled for combine has put out the outputs of this round, and
\* it puts out no others before r signals.
LEMMA ReadValue ==
  ASSUME Uniform, Good, NEW r \in Ranks, stream[r] # <<>>, NEW q \in Round(r).active,
         NEW b \in 0 .. MaxTokens - 1, Read(r, b, q)
  PROVE  memory[q][CombineCell(Round(r), r, b)] = Output(Token(Kernel(r).op, r, b), q)
<1>1. PICK m \in 1 .. Len(program) : Current(m) /\ Cleared(r, m)
  BY SegmentFacts DEF Good
<1>2. /\ TypeOK /\ InOrder /\ m \in Nat /\ Holds(r, m) /\ Holds(q, m) /\ q \in Ranks
      /\ Member(r, m) /\ Member(q, m)
      /\ OpNow(r) \in Nat /\ m < OpNow(r) /\ OpNow(r) = Kernel(r).op
      /\ Round(r) = Op(OpNow(r)) /\ Round(r).max = Op(m + 1).max
  BY <1>1, Context, KernelFacts
<1>3. Running(r, "combine") /\ <<"wait", b, q>> \in done[r] /\ b \in 0 .. Round(r).tokens[r] - 1
  BY DEF Read, Did
<1>4. Stage(r) = 3
  BY <1>2, <1>3, Where
<1>5. PICK i \in Nat : i = OpNow(r)
  BY <1>2
<1>6. PICK j \in Nat : j = OpNow(q)
  BY <1>2, ProgressFacts
<1>7. Prepared(q) \in Int /\ Prepared(q) >= i
  <2>1. Combined(q, r) >= i
    BY <1>2, <1>3, <1>4, <1>5 DEF Holds, Met
  <2>2. Combined(q, r) \in Int /\ Prepared(q) \in Int /\ Combined(q, r) <= Prepared(q)
    BY <1>2, ProgressFacts
  <2> QED BY <2>1, <2>2
<1>8. /\ Combined(r, q) \in Int /\ Combined(r, q) <= i
      /\ Dispatched(r, q) \in Int /\ Dispatched(r, q) <= i
  <2>1. TypeOK /\ InOrder /\ q \in Ranks
    BY <1>2
  <2>2. /\ Combined(r, q) \in Int /\ (Combined(r, q) = OpNow(r) - 1 \/ Combined(r, q) = OpNow(r))
        /\ Dispatched(r, q) \in Int /\ (Dispatched(r, q) = OpNow(r) - 1 \/ Dispatched(r, q) = OpNow(r))
    BY <2>1, ProgressFacts
  <2> QED BY <1>5, <2>2
<1>9. /\ j > m + 1 => Combined(r, q) >= j - 1
      /\ Stage(q) = 3 => Dispatched(r, q) >= j
  <2>1. Met(q, r, m)
    BY <1>2 DEF Holds
  <2> QED BY <1>6, <2>1 DEF Met
<1>10. j <= i + 1 /\ (Stage(q) = 3 => j <= i)
  BY <1>2, <1>5, <1>6, <1>8, <1>9
<1>11. Prepared(q) = i
  BY <1>5, <1>6, <1>7, <1>10 DEF Prepared
<1>12. RowRight(q, r, m) /\ i > m /\ b \in 0 .. Op(i).tokens[r] - 1
  BY <1>2, <1>3, <1>5 DEF Holds
<1>13. memory[q][CombineCell(Op(m + 1), r, b)] = Output(Token(i, r, b), q)
  BY <1>11, <1>12 DEF RowRight
<1> QED BY <1>2, <1>5, <1>13 DEF CombineCell

LEMMA DeviceOut ==
  ASSUME Uniform, Good, \A x \in Ranks : OutRight(x), NEW r \in Ranks, DeviceStep(r)
  PROVE  \A x \in Ranks : OutRight(x)'
<1>1. stream[r] # <<>> /\ TypeOK /\ Round(r).active \subseteq Ranks
  BY DeviceEffect, KernelFacts DEF Good, Ready
<1>2. ASSUME stream' = stream, out' = out PROVE \A x \in Ranks : OutRight(x)'
  BY <1>2, OutKept DEF Kernel
<1>3. CASE Ends(r)
  <2>1. Finish(r)
    BY <1>3 DEF Ends, PrepareDispatch, EndDispatch, PrepareCombine, EndCombine
  <2>2. \A x \in Ranks : x # r => stream'[x] = stream[x]
    BY <1>1, <2>1, FinishEffect
  <2>3. out'[r] = {} /\ \A x \in Ranks : x # r => out'[x] = out[x]
    <3>1. CASE EndCombine(r)
      BY <1>1, <3>1 DEF EndCombine, TypeOK
    <3>2. CASE ~EndCombine(r)
      <4>1. out' = out /\ ~Running(r, "combine")
        BY <1>3, <3>2 DEF Ends, PrepareDispatch, EndDispatch, PrepareCombine, Running
      <4> QED BY <4>1 DEF OutRight
    <3> QED BY <3>1, <3>2
  <2>4. OutRight(r)'
    BY <2>3 DEF OutRight, ReadRight
  <2>5. \A x \in Ranks : x # r => OutRight(x)'
    BY <2>2, <2>3, OutKept DEF Kernel
  <2> QED BY <2>4, <2>5
<1>4. CASE \E q \in Round(r).active : Send(r, q) \/ SignalDispatch(r, q) \/ WaitDispatch(r, q) \/ SignalCombine(r, q)
  BY <1>2, <1>4 DEF Send, SignalDispatch, WaitDispatch, SignalCombine
<1>5. CASE \E q \in Round(r).active : \E b \in 0 .. MaxTokens - 1 : WaitCombine(r, b, q)
  BY <1>2, <1>5 DEF WaitCombine
<1>6. ASSUME NEW q \in Round(r).active, NEW b \in 0 .. MaxTokens - 1, Read(r, b, q)
      PROVE  \A x \in Ranks : OutRight(x)'
  <2>1. memory[q][CombineCell(Round(r), r, b)] = Output(Token(Kernel(r).op, r, b), q)
    BY <1>1, <1>6, ReadValue
  <2>2. /\ stream' = stream /\ Running(r, "combine")
        /\ out' = [out EXCEPT ![r] = @ \cup {<<b, q, memory[q][CombineCell(Round(r), r, b)]>>}]
    BY <1>6 DEF Read
  <2>3. /\ out'[r] = out[r] \cup {<<b, q, memory[q][CombineCell(Round(r), r, b)]>>}
        /\ \A x \in Ranks : x # r => out'[x] = out[x]
    BY <1>1, <2>2 DEF TypeOK
  <2>4. \A x \in Ranks : x # r => OutRight(x)'
    BY <2>2, <2>3, OutKept DEF Kernel
  <2>5. Kernel(r)' = Kernel(r) /\ Running(r, "combine")'
    BY <2>2 DEF Kernel, Running
  <2>6. ASSUME NEW x \in out'[r] PROVE x[3] = Output(Token(Kernel(r).op, r, x[1]), x[2])
    <3>1. CASE x \in out[r]
      BY <3>1 DEF OutRight, ReadRight
    <3>2. CASE x = <<b, q, memory[q][CombineCell(Round(r), r, b)]>>
      BY <2>1, <3>2
    <3> QED BY <2>3, <3>1, <3>2
  <2>7. OutRight(r)'
    BY <2>5, <2>6 DEF OutRight, ReadRight, Output, Token
  <2> QED BY <2>4, <2>7
<1> QED BY <1>3, <1>4, <1>5, <1>6 DEF DeviceStep, Ends

-----------------------------------------------------------------------------
\* The invariant of Uniform programs.
LEMMA IInvParts == IInv <=> Inv /\ Good /\ \A r \in Ranks : OutRight(r)
BY DEF IInv, Good, ResultCorrect, OutRight, ReadRight

LEMMA InvNext ==
  ASSUME Inv', Ready', InOrder', DoneRight', Exchange', \A r \in Ranks : OutRight(r)'
  PROVE  IInv'
BY DEF IInv, ResultCorrect, OutRight, ReadRight

LEMMA InitIInv == Init => IInv
<1> SUFFICES ASSUME Init PROVE IInv
  OBVIOUS
<1>1. Ready /\ Inv /\ TypeOK
  BY InitReady, ReadyGivesInv DEF Ready
<1>2. \A r \in Ranks : host[r].op = 1 /\ host[r].step = 0 /\ stream[r] = <<>> /\ done[r] = {} /\ out[r] = {}
  BY DEF Init
<1>3. InOrder
  BY <1>2 DEF InOrder
<1>4. DoneRight
  BY <1>2 DEF DoneRight
<1>5. Exchange
  <2>1. ASSUME NEW m \in 1 .. Len(program), NEW x \in Ranks PROVE ~Cleared(x, m)
    BY <1>1, <1>2, HostType DEF Cleared, Reached
  <2> QED BY <1>1, <2>1, ExchangeEach
<1>6. \A r \in Ranks : OutRight(r)
  BY <1>2 DEF OutRight, ReadRight
<1> QED BY <1>1, <1>3, <1>4, <1>5, <1>6, IInvParts DEF Good

LEMMA IInvStep == Uniform /\ IInv /\ [Next]_vars => IInv'
<1> SUFFICES ASSUME Uniform, IInv, [Next]_vars PROVE IInv'
  OBVIOUS
<1>1. /\ Good /\ Ready /\ TypeOK /\ StreamsRight /\ InOrder /\ DoneRight /\ Exchange
      /\ \A r \in Ranks : OutRight(r)
  BY IInvParts DEF Good, Ready
<1>2. Ready' /\ Inv' /\ TypeOK'
  <2>1. Ready'
    BY <1>1, ReadyStep
  <2>2. TypeOK'
    BY <2>1 DEF Ready
  <2>3. Ready' => Inv'
    BY ReadyGivesInv, PTL
  <2> QED BY <2>1, <2>2, <2>3
<1>3. ASSUME NEW r \in Ranks, HostStep(r) PROVE IInv'
  <2>1. InOrder'
    BY <1>1, <1>2, <1>3, HostEffect, OrdersNext
  <2>2. DoneRight' /\ out' = out
    BY <1>1, <1>2, <1>3, HostDone
  <2>3. Exchange'
    BY <1>1, <1>2, <1>3, HostExchange
  <2>4. \A x \in Ranks : OutRight(x)'
    BY <1>1, <1>2, <1>3, <2>2, HostEffect, OutKept
  <2> QED BY <1>2, <2>1, <2>2, <2>3, <2>4, InvNext
<1>4. ASSUME NEW r \in Ranks, DeviceStep(r) PROVE IInv'
  <2>1. InOrder'
    BY <1>1, <1>2, <1>4, DeviceOrder
  <2>2. DoneRight'
    BY <1>1, <1>4, DeviceDone
  <2>3. Exchange'
    BY <1>1, <1>2, <1>4, DeviceExchange
  <2>4. \A x \in Ranks : OutRight(x)'
    BY <1>1, <1>4, DeviceOut
  <2> QED BY <1>2, <2>1, <2>2, <2>3, <2>4, InvNext
<1>5. ASSUME UNCHANGED vars PROVE IInv'
  <2>1. /\ program' = program /\ host' = host /\ stream' = stream /\ done' = done
        /\ epoch' = epoch /\ flags' = flags /\ count' = count /\ memory' = memory /\ out' = out
    BY <1>5 DEF vars
  <2>2. \A x \in Ranks : Place(x)' = Place(x)
    BY <2>1 DEF Place, At, Op
  <2>3. InOrder'
    BY <1>1, <1>2, <2>1, <2>2, OrdersEach, OrderKept, OrdersNext
  <2>4. \A x \in Ranks : DoneOk(x)'
    BY <1>1, <2>1, DoneEach, DoneKept DEF Kernel
  <2>5. DoneRight'
    BY <2>4 DEF DoneRight, DoneOk
  <2>6. \A x \in Ranks : OutRight(x)'
    BY <1>1, <2>1, OutKept DEF Kernel
  <2>7. Exchange'
    <3>1. ASSUME NEW m \in 1 .. Len(program)
          PROVE  /\ Current(m)' <=> Current(m)
                 /\ \A x \in Ranks : (Cleared(x, m)' <=> Cleared(x, m)) /\ (Member(x, m)' <=> Member(x, m))
      BY <2>1 DEF Current, Cleared, Member, Reached, Checkpoint, Op
    <3>2. ASSUME NEW m \in 1 .. Len(program), Current(m), NEW x \in Ranks, Cleared(x, m), Member(x, m)
          PROVE  Holds(x, m)'
      <4>1. Holds(x, m)
        BY <1>1, <3>2, ExchangeEach
      <4> QED BY <1>1, <2>1, <2>2, <3>2, <4>1, FrameHolds
    <3> QED BY <1>2, <2>1, <3>1, <3>2, ExchangeNext
  <2> QED BY <1>2, <2>3, <2>5, <2>6, <2>7, InvNext
<1> QED BY <1>3, <1>4, <1>5 DEF Next

\* The discipline of epochs, flags, rows and buffers that the kernels of
\* moeAlltoAllKernels.cu rely on, whatever the number of ranks and of flag values:
\* for programs whose rounds between two checkpoints are of one max and of one
\* set of active ranks.
THEOREM InductiveInvariant == Uniform => (Spec => []IInv)
<1> CASE Uniform
  <2>1. Init => IInv
    BY InitIInv
  <2>2. IInv /\ [Next]_vars => IInv'
    BY IInvStep
  <2> QED BY <2>1, <2>2, PTL DEF Spec
<1> QED OBVIOUS

\* What moeA2ACombineKernel reads for a token is the output that the rank's
\* experts computed for this token in this round.
THEOREM ResultCorrectHolds == Uniform => (Spec => []ResultCorrect)
<1>1. IInv => ResultCorrect
  BY DEF IInv
<1> QED BY <1>1, InductiveInvariant, PTL
=============================================================================
