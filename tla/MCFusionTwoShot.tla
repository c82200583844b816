-------------------------- MODULE MCFusionTwoShot --------------------------
(* Model checking of FusionTwoShot: which programs the ranks run.  With two *)
(* ranks, two tokens take a grid of one block and three or four take two.   *)
EXTENDS FusionTwoShot

\* Grids that do not grow from call to call: the flags of every block that is
\* launched were waited for in the call before.
Shrinking == {<<4, 3>>, <<3, 2>>, <<2, 2, 2>>}

\* A call with more blocks than the one before.
Growing == {<<2, 4>>}
=============================================================================
