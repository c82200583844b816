---------------------------- MODULE MCRadixTopK ----------------------------
(* Model checking of RadixTopK: the launches on the stream. *)
EXTENDS RadixTopK

\* A row with these values, for two or three CTAs; All needs no selection.
RowOf(k, values) == [k |-> k, data |-> [i \in 0 .. Len(values) - 1 |-> values[i + 1]]]
One == RowOf(1, <<0, 1, 3, 2, 1>>)
Ties == RowOf(2, <<2, 3, 2, 1, 2>>)
Short == RowOf(2, <<0, 1, 1, 2>>)
All == RowOf(5, <<3, 1, 0, 2, 3>>)

LaunchOf(kernel, det, rows) == [kernel |-> kernel, deterministic |-> det, rows |-> rows]

\* Rows that need no selection between, before and after others.
Collecting == { LaunchOf(kernel, det, rows) : kernel \in { "basic", "page_table" }, det \in BOOLEAN,
                                              rows \in { <<Ties, All, Short>>, <<All, All, One>> } }
Other == { LaunchOf("mask", FALSE, <<All, All, Ties, One>>), LaunchOf("renorm", FALSE, <<All, Ties, One>>) }

\* One launch, then one of another kernel on the state it leaves.
Second == { LaunchOf("basic", FALSE, <<One, Ties>>), LaunchOf("page_table", TRUE, <<Ties>>),
            LaunchOf("renorm", FALSE, <<One>>) }
Mixed == { <<l, m>> : l \in Collecting \cup Other, m \in Second }

ASSUME MixedAssumption == CopiedFirstIn(Mixed)

\* A selection, then a row that needs none: not CopiedFirst.
CopiedRow == { <<LaunchOf("mask", FALSE, <<One, All>>)>> }
SummedRow == { <<LaunchOf("renorm", FALSE, <<Ties, All>>)>> }

ASSUME OvertakingAssumption == ~CopiedFirstIn(CopiedRow) /\ ~CopiedFirstIn(SummedRow)
=============================================================================
