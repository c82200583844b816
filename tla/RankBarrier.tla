---------------------------- MODULE RankBarrier ----------------------------
(***************************************************************************)
(* What one call of multi_gpu_barrier promises to the kernels that use it: *)
(* the thread blocks with one blockIdx, one on every rank, meet.  A block  *)
(* leaves its n-th barrier only when every rank's block has arrived at its *)
(* own n-th barrier.  MultiGpuBarrier is shown to implement this module;   *)
(* CrossDeviceReduce uses it for the barriers of its kernels.              *)
(***************************************************************************)
EXTENDS Naturals

CONSTANTS Ranks,      \* the GPUs that take part in the all-reduce
          MaxRounds   \* bound: number of barriers each block goes through

VARIABLES arrived,    \* arrived[r]: barriers that rank r's block reached
          left        \* left[r]: barriers that rank r's block got past

vars == <<arrived, left>>

Init == /\ arrived = [r \in Ranks |-> 0]
        /\ left = [r \in Ranks |-> 0]

\* The block of rank r reaches its next barrier.
Arrive(r) == /\ left[r] = arrived[r]
             /\ arrived[r] < MaxRounds
             /\ arrived' = [arrived EXCEPT ![r] = @ + 1]
             /\ UNCHANGED left

\* The block of rank r gets past the barrier it waits in.
Leave(r) == /\ left[r] < arrived[r]
            /\ \A s \in Ranks : arrived[r] <= arrived[s]
            /\ left' = [left EXCEPT ![r] = @ + 1]
            /\ UNCHANGED arrived

Next == \E r \in Ranks : Arrive(r) \/ Leave(r)

Spec == Init /\ [][Next]_vars

FairSpec == Spec /\ \A r \in Ranks : WF_vars(Arrive(r)) /\ WF_vars(Leave(r))
=============================================================================
