------------------------------ MODULE TaskGroups ------------------------------
(***************************************************************************)
(* group_tasks_by_phase: the tasks of tasks.md, in order, cut into the     *)
(* units that are sent to claude.  A task belongs to the phase of the last *)
(* header above it; a phase with too many tasks is cut into parts of about *)
(* the same size, counted with the tasks that are done, so that the        *)
(* numbers of the parts never shift.                                       *)
(***************************************************************************)
LOCAL INSTANCE Naturals
LOCAL INSTANCE SequencesExt

CeilDiv(n, d) == (n + d - 1) \div d

(* The phases, in the order of their first tasks.                          *)
Headers(order, phase) ==
    FoldLeft(LAMBDA hs, t : IF phase[t] \in ToSet(hs) THEN hs ELSE Append(hs, phase[t]), << >>, order)

(* The parts of one phase: as few as possible, and balanced.               *)
Parts(tasks, max) ==
    LET n == Len(tasks)
        per == CeilDiv(n, CeilDiv(n, max)) IN
    [i \in 1..CeilDiv(n, per) |->
        {tasks[j] : j \in {k \in 1..n : CeilDiv(k, per) = i}}]

GroupTasksByPhase(order, phase, max) ==
    LET hs == Headers(order, phase) IN
    FlattenSeq([h \in DOMAIN hs |-> Parts(SelectSeq(order, LAMBDA t : phase[t] = hs[h]), max)])
=============================================================================
