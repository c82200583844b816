--------------------------- MODULE MCCuteDslCache ---------------------------
(* Model checking of CuteDslCache: the faults to consider, one at a time. *)
EXTENDS CuteDslCache, TLC

OneAtATime == {{}, {"overlap"}, {"break"}, {"readonly"}}
ReadOnlyDirectory == {{"readonly"}}

Symmetry == Permutations(Procs) \cup Permutations(Kernels) \cup Permutations(Versions)
=============================================================================
