--------------------------- MODULE MCServiceTree ---------------------------
(* The instances of ServiceTree that TLC checks.                           *)
EXTENDS ServiceTree

CONSTANTS c1, c2, f, h1, G, P, A, B

Ask(op, node) == [op |-> op, node |-> node, hosts |-> {h1}]

\* Every operation, on paths that share their group and product, and on paths
\* whose product has no name.
AllRequests ==
    {Ask(op, <<G, P, A>>) : op \in {"add", "del", "q4"}}
    \cup {Ask(op, <<G, P, B>>) : op \in {"mount", "unmount"}}
    \cup {Ask("mount", <<G, NoName, A>>), Ask("del", <<G, NoName, A>>),
          Ask("del", <<G, P>>), Ask("del", <<G>>)}
    \cup {Ask("q3", <<G, P>>), Ask("q1", <<G>>), Ask("q2", <<G>>), Ask("q5", <<G>>)}

\* Additions only.
AddRequests == {Ask("add", <<G, P, A>>), Ask("add", <<G, P, B>>)}
=============================================================================
