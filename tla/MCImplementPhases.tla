-------------------------- MODULE MCImplementPhases --------------------------
(* Small instances of ImplementPhases for TLC: a phase of two tasks and one *)
(* of a single task, as tasks.md groups them.                              *)
EXTENDS ImplementPhases, TaskGroups

CONSTANTS t1, t2, t3

MCTasks  == {t1, t2, t3}
MCOrder  == <<t1, t2, t3>>
MCPhases == <<{t1, t2}, {t3}>>

MCHeader == [t \in MCTasks |-> IF t = t3 THEN "polish" ELSE "setup"]
ASSUME AsGrouped == MCPhases = GroupTasksByPhase(MCOrder, MCHeader, 2)

(* Grouping is sound for every tasks.md of up to five tasks under up to    *)
(* three headers: no part is too large, every task is in one part, parts   *)
(* follow the order of the tasks within their phase.                       *)
Sound(n, phase, max) ==
    LET g == GroupTasksByPhase([i \in 1..n |-> i], phase, max) IN
    /\ \A i \in DOMAIN g : Cardinality(g[i]) \in 1..max
    /\ \A t \in 1..n : Cardinality({i \in DOMAIN g : t \in g[i]}) = 1
    /\ \A i, j \in DOMAIN g : i < j =>
          \A t \in g[i], u \in g[j] : phase[t] = phase[u] => t < u
ASSUME GroupingIsSound ==
    \A n \in 1..5 : \A phase \in [1..n -> 1..3], max \in 1..3 : Sound(n, phase, max)
=============================================================================
