------------------------------ MODULE PipelineDb ------------------------------
(***************************************************************************)
(* The tables of the pipeline database (SQLite) that the easter daemon,    *)
(* the command line and the Telegram bot share, and the statements of      *)
(* db_pipeline.py on them.  Every statement commits on its own, so each    *)
(* operator below is one atomic step of the module that uses it.           *)
(*                                                                         *)
(*   epicStatus[e]   the column epics.status                               *)
(*   finished[e]     the nodes whose epic_nodes row is 'done' or 'skipped' *)
(*   runs            the rows of pipeline_runs, in the order of started_at; *)
(*                   the index of a row stands for its run_id              *)
(***************************************************************************)
EXTENDS Naturals, Sequences

CONSTANTS Epics,    \* the epics of the platforms the daemon serves
          Nodes     \* the nodes of epic_cycle in pipeline.yaml

EpicStatuses == {"drafted", "in_progress", "shipped", "blocked", "cancelled"}
RunStatuses  == {"running", "completed", "failed", "cancelled"}
GateStatuses == {"none", "waiting_approval", "approved", "rejected"}

Run == [epic: Epics, node: Nodes, status: RunStatuses, gate: GateStatuses]

-----------------------------------------------------------------------------
(* insert_run: a new row is 'running' and its gate_status is NULL.         *)
InsertRun(rs, e, n) ==
    Append(rs, [epic |-> e, node |-> n, status |-> "running", gate |-> "none"])

(* complete_run: overwrites the status of the row, whatever it was.        *)
CompleteRun(rs, r, status) == [rs EXCEPT ![r].status = status]

SetGate(rs, r, gate) == [rs EXCEPT ![r].gate = gate]

(* approve_gate, reject_gate: conditional on the gate still waiting.       *)
CanResolve(rs, r) == r \in DOMAIN rs /\ rs[r].gate = "waiting_approval"

(* get_pending_gates: waiting gates of rows neither cancelled nor failed.  *)
PendingGates(rs, e) ==
    {r \in DOMAIN rs : /\ rs[r].epic = e
                       /\ rs[r].gate = "waiting_approval"
                       /\ rs[r].status \notin {"cancelled", "failed"}}

(* Mutant: every row that ever was a gate is preserved.                     *)
OpenRunsNoGate(rs) == {r \in DOMAIN rs : rs[r].status = "running" /\ rs[r].gate = "none"}

(* Mutant: a gate that waits is closed with the rest.                      *)
OpenRunsAll(rs) == {r \in DOMAIN rs : rs[r].status = "running"}

(* Rows the resume clean-up and the zombie sweep may close: 'running' and  *)
(* not a gate that still waits for a human.                                *)
OpenRuns(rs) ==
    {r \in DOMAIN rs : rs[r].status = "running" /\ rs[r].gate # "waiting_approval"}

(* The look-up of a prior approval: any approved row of this node.         *)
Approved(rs, e, n) ==
    \E r \in DOMAIN rs : rs[r].epic = e /\ rs[r].node = n /\ rs[r].gate = "approved"

(* The clean-up of a resumed pipeline: an open row of the epic becomes     *)
(* 'completed' when its node is done, 'cancelled' otherwise.               *)
CloseStaleRuns(rs, e, done) ==
    [r \in DOMAIN rs |->
        IF r \in OpenRuns(rs) /\ rs[r].epic = e
        THEN [rs[r] EXCEPT !.status = IF rs[r].node \in done THEN "completed" ELSE "cancelled"]
        ELSE rs[r]]

(* The zombie sweep fails the open rows older than ZOMBIE_THRESHOLD.       *)
SweepZombies(rs, old) ==
    [r \in DOMAIN rs |-> IF r \in old THEN [rs[r] EXCEPT !.status = "failed"] ELSE rs[r]]
=============================================================================
