---------------------------- MODULE MCDecodePlan ----------------------------
(* Model checking of DecodePlan: the setups. *)
EXTENDS DecodePlan

Setup(h, m, shortest, graphs, host) ==
  [heads |-> h, min_pages |-> m, min_length |-> shortest,
   enable_cuda_graph |-> graphs, host_indptr |-> host]

\* Graphs on batches without an empty request, and, without a graph, any
\* lengths; chunks from one or two pages on.
Supported ==
  {Setup(h, m, 1, TRUE, FALSE) : h \in {1, 2}, m \in {1, 2}} \cup
  {Setup(h, m, 0, FALSE, FALSE) : h \in {1, 2}, m \in {1, 2}}

\* Empty requests in a batch that a graph is recorded for.
EmptyUnderGraph == {Setup(1, 1, 0, TRUE, FALSE)}

\* A host indptr: plan() does not wait for the stream.
HostIndptr == {Setup(1, 1, 1, FALSE, TRUE)}
=============================================================================
