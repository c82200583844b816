----------------------- MODULE MCCrossDeviceReduce -----------------------
(* Model checking of CrossDeviceReduce: with Threads = 1 and BlockLimit = 2, *)
(* a call of size 1 is a 1-stage call on one block, and a call of size 6 a   *)
(* 2-stage call on two; on four ranks size 6 leaves three elements to the    *)
(* last rank and one to each of the others.                                  *)
EXTENDS CrossDeviceReduce

TwoSizes == {1, 6}
=============================================================================
