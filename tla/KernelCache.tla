---------------------------- MODULE KernelCache ----------------------------
(***************************************************************************)
(* What the on-disk cache of one op family of CuTe-DSL kernels promises to *)
(* its readers: the entries that count are all of one version of the       *)
(* kernel sources, the version the cache is committed to.  Entries can be  *)
(* added and lost one at a time; a cache of another version begins empty   *)
(* or with entries of its own.  CuteDslCache is shown to implement it.     *)
(***************************************************************************)
CONSTANTS Kernels,    \* the specializations of the op family
          Versions,   \* contents that meta.json can have
          None

VARIABLES version,    \* the version the cache is committed to, or None
          entries     \* entries[k]: the version kernel k was compiled from, or None

vars == <<version, entries>>

Empty == [k \in Kernels |-> None]

Init == /\ version \in Versions \cup {None}
        /\ entries \in [Kernels -> {version, None}]

\* Entries compiled from version v begin to count.
Commit(v) == /\ version = None
             /\ version' = v
             /\ entries' \in [Kernels -> {v, None}]

Add(k) == /\ version # None
          /\ entries' = [entries EXCEPT ![k] = version]
          /\ UNCHANGED version

Forget(k) == /\ entries' = [entries EXCEPT ![k] = None]
             /\ UNCHANGED version

\* All entries stop counting at once.
Reset == version' = None /\ entries' = Empty

Next == \/ \E v \in Versions : Commit(v)
        \/ \E k \in Kernels : Add(k) \/ Forget(k)
        \/ Reset

Spec == Init /\ [][Next]_vars
=============================================================================
