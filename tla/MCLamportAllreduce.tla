------------------------- MODULE MCLamportAllreduce -------------------------
(* Model checking of LamportAllreduce: which programs the ranks run. *)
EXTENDS LamportAllreduce

Call(kind, tokens) == [kind |-> kind, tokens |-> tokens]

\* Two calls of any kinds: a smaller one after a larger one where the kind
\* changes, a larger one after a smaller one where it stays.
TwoSizes == {<<Call(first, IF first = second THEN 1 ELSE MaxTokens),
               Call(second, IF first = second THEN MaxTokens ELSE 1)>> : first, second \in Kinds}

\* Four calls, the last of which uses the first buffer again: small calls with
\* one kernel or two, and a one-shot call that fills the buffer before two-shot
\* calls that leave most of it alone, then either again.
SmallCalls == [1 .. 4 -> [kind : {"oneshot", "twoshot_norm"}, tokens : {1}]]
Full == Call("oneshot", MaxTokens)
Small == Call("twoshot", 1)
FullFirst == {<<Full, Small, Small, last>> : last \in {Full, Small}}

AllPrograms == TwoSizes \cup SmallCalls \cup FullFirst
=============================================================================
