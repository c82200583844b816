--------------------------- MODULE MCMoeAlltoAll ---------------------------
(* Model checking of MoeAlltoAll: the programs of the ranks. *)
EXTENDS MoeAlltoAll, TLC

OpOf(kind, max, tokens, active) == [kind |-> kind, max |-> max, tokens |-> tokens, active |-> active]
NoTokens == [r \in Ranks |-> 0]
MapOp == OpOf("map", 1, NoTokens, Ranks)
UnmapOp == OpOf("unmap", 1, NoTokens, Ranks)
Full(n) == OpOf("round", n, [r \in Ranks |-> n], Ranks)
\* Rank 0 has n tokens, the others none.
First(n) == OpOf("round", n, [r \in Ranks |-> IF r = 0 THEN n ELSE 0], Ranks)
Without(q) == OpOf("round", 1, [r \in Ranks |-> 1], Ranks \ {q})

\* Rounds of one max, also with ranks that have no token; checkpoints; rounds
\* without a rank that is back after a checkpoint.
Regular == { <<MapOp, Full(2), Full(2)>>,
             <<MapOp, First(2), Full(2)>>,
             <<MapOp, Full(1), Full(1), Full(1)>>,
             <<MapOp, Full(1), UnmapOp, MapOp, Full(1)>>,
             <<MapOp, Without(1), UnmapOp, MapOp, Full(1)>> }

\* The hypothesis of the theorems of MoeAlltoAll_proofs.
ASSUME RegularIsUniform == Programs = Regular => Uniform

\* A round with a larger max than the one before.
Growing == { <<MapOp, Full(1), Full(2)>> }
=============================================================================
