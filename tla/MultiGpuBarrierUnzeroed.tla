---------------------- MODULE MultiGpuBarrierUnzeroed ----------------------
(***************************************************************************)
(* MultiGpuBarrier on signal buffers that were not zeroed.  The buffers    *)
(* come from create_shared_buffer (comm/cuda_ipc.py), which calls          *)
(* cudaMalloc and clears nothing, and init_custom_ar stores the pointers   *)
(* and clears nothing either.  init_ulysses_a2a, which uses the same       *)
(* barrier, clears them: "The multi_gpu_barrier counters must start at     *)
(* zero, and cudaMalloc does not zero memory."  Here the counters start as *)
(* whatever the memory holds.                                              *)
(***************************************************************************)
EXTENDS MultiGpuBarrier

CONSTANT Leftover   \* the values that allocated memory may hold

InitUnzeroed ==
  /\ arrived = [r \in Ranks |-> 0]
  /\ left = [r \in Ranks |-> 0]
  /\ entered = [r \in Ranks |-> [t \in Ranks |-> 0]]
  /\ passed = [r \in Ranks |-> [t \in Ranks |-> 0]]
  /\ self_counter \in [Ranks -> [Ranks -> Leftover \cap Flag]]
  /\ peer_counter \in [Ranks -> [Sets -> [Ranks -> Leftover \cap Flag]]]
  /\ flight = [r \in Ranks |-> [k \in Sets |-> [t \in Ranks |-> NoStore]]]

SpecUnzeroed == InitUnzeroed /\ [][Next]_vars /\ Fairness
=============================================================================
