-------------------------- MODULE MCAutotunerGroup --------------------------
(* Model checking of AutotunerGroup: process groups and tactics.  The first *)
(* runner has its default tactic -1 and another one, the second runner one. *)
EXTENDS AutotunerGroup
CONSTANTS a, b, c, d

TwoRanks == {{{a, b}}, {{a}, {b}}}
TwoJobs == {{{a, b}, {c, d}}}

TwoRunners == << <<-1, 0>>, <<0>> >>
OneRunner == << <<-1>> >>
=============================================================================
