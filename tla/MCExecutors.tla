----------------------------- MODULE MCExecutors -----------------------------
(* Small instance of Executors for TLC.                                    *)
EXTENDS Executors

CONSTANTS cli1, cli2, epic1, n1, n2, n3

MCProcs  == {cli1, cli2}
MCEpics  == {L1, epic1}
MCNodes  == {n1, n2, n3}
MCListed == <<n3, n1, n2>>
Depending(d1, d2, d3) == [n \in MCNodes |-> CASE n = n1 -> d1 [] n = n2 -> d2 [] n = n3 -> d3]

(* The empty graph, chains, joins and cycles, and an unknown dependency.   *)
MCGraphs ==
    {Depending(d1, d2, d3) : d1 \in {{}, {n2}}, d2 \in {{n1}, {n1, n3}}, d3 \in {{}, {n2}}}
        \cup {Depending({}, {}, {}), Depending({}, {"unknown"}, {})}

MCSymmetry == Permutations(MCProcs)
=============================================================================
