-------------------------- MODULE EpicPipelineProofs --------------------------
(***************************************************************************)
(* Safety of EpicPipeline for every set of epics, every pipeline, every    *)
(* gate mode and every number of faults.                                   *)
(*                                                                         *)
(* The inductive invariant says, beside the types, where the locals of     *)
(* run_pipeline_async are meaningful (Frame), that the local set of        *)
(* completed nodes never runs ahead of the database (Checkpointed), what   *)
(* the guards of the walk established about the node in hand (Dispatched), *)
(* that the walk has left no node behind it (Walked), that a gate row just *)
(* inserted is not yet a gate (FreshGate), so that marking it cannot       *)
(* overwrite an approval, and that from the clean-up on, the epic has no   *)
(* running row but the one the walk has just inserted (Settled).  What     *)
(* post_save.py does beside the walk only adds to the finished nodes.      *)
(***************************************************************************)
EXTENDS EpicPipeline, TLAPS

-----------------------------------------------------------------------------
(* The statements of PipelineDb                                            *)

(* A row overwritten in place leaves a table of rows of the same length.    *)
LEMMA RowsByIndex ==
    ASSUME NEW rs \in Seq(Run), NEW f, f = [r \in DOMAIN rs |-> f[r]],
           \A r \in DOMAIN rs : f[r] \in Run
    PROVE  f \in Seq(Run) /\ Len(f) = Len(rs) /\ DOMAIN f = DOMAIN rs
<1>1. DOMAIN rs = 1..Len(rs) /\ Len(rs) \in Nat
  OBVIOUS
<1>2. f \in [1..Len(rs) -> Run]
  BY <1>1
<1> QED
  BY <1>1, <1>2

(* insert_run appends one row, running and without a gate.                  *)
LEMMA InsertRunRows ==
    ASSUME NEW rs \in Seq(Run), NEW e \in Epics, NEW n \in Nodes
    PROVE  /\ InsertRun(rs, e, n) \in Seq(Run)
           /\ Len(InsertRun(rs, e, n)) = Len(rs) + 1
           /\ DOMAIN InsertRun(rs, e, n) = 1..(Len(rs) + 1)
           /\ DOMAIN rs = 1..Len(rs)
           /\ \A r \in DOMAIN rs : InsertRun(rs, e, n)[r] = rs[r]
           /\ InsertRun(rs, e, n)[Len(rs) + 1].epic = e
           /\ InsertRun(rs, e, n)[Len(rs) + 1].node = n
           /\ InsertRun(rs, e, n)[Len(rs) + 1].status = "running"
           /\ InsertRun(rs, e, n)[Len(rs) + 1].gate = "none"
<1> DEFINE new == [epic |-> e, node |-> n, status |-> "running", gate |-> "none"]
<1>1. new \in Run
  BY DEF Run, RunStatuses, GateStatuses
<1>2. new.epic = e /\ new.node = n /\ new.status = "running" /\ new.gate = "none"
  OBVIOUS
<1> HIDE DEF new
<1>3. /\ Append(rs, new) \in Seq(Run) /\ Len(Append(rs, new)) = Len(rs) + 1
      /\ DOMAIN Append(rs, new) = 1..(Len(rs) + 1) /\ DOMAIN rs = 1..Len(rs)
      /\ \A r \in DOMAIN rs : Append(rs, new)[r] = rs[r]
      /\ Append(rs, new)[Len(rs) + 1] = new
  BY <1>1
<1>4. InsertRun(rs, e, n) = Append(rs, new)
  BY DEF InsertRun, new
<1> QED
  BY <1>2, <1>3, <1>4

(* complete_run and the gate statements touch one row and one column.       *)
LEMMA CompleteRunRows ==
    ASSUME NEW rs \in Seq(Run), NEW r, NEW s \in RunStatuses
    PROVE  /\ CompleteRun(rs, r, s) \in Seq(Run)
           /\ Len(CompleteRun(rs, r, s)) = Len(rs)
           /\ DOMAIN CompleteRun(rs, r, s) = DOMAIN rs
           /\ \A q \in DOMAIN rs :
                 /\ CompleteRun(rs, r, s)[q].epic = rs[q].epic
                 /\ CompleteRun(rs, r, s)[q].node = rs[q].node
                 /\ CompleteRun(rs, r, s)[q].gate = rs[q].gate
                 /\ CompleteRun(rs, r, s)[q].status = IF q = r THEN s ELSE rs[q].status
<1> DEFINE f == CompleteRun(rs, r, s)
<1>1. f = [q \in DOMAIN rs |-> IF q = r THEN [rs[q] EXCEPT !.status = s] ELSE rs[q]]
  BY DEF CompleteRun
<1>2. \A q \in DOMAIN rs : rs[q] \in Run
  OBVIOUS
<1>3. \A q \in DOMAIN rs : f[q] \in Run
  BY <1>1, <1>2 DEF Run
<1>4. f \in Seq(Run) /\ Len(f) = Len(rs) /\ DOMAIN f = DOMAIN rs
  BY <1>1, <1>3, RowsByIndex
<1> QED
  BY <1>1, <1>2, <1>4 DEF Run

LEMMA SetGateRows ==
    ASSUME NEW rs \in Seq(Run), NEW r, NEW g \in GateStatuses
    PROVE  /\ SetGate(rs, r, g) \in Seq(Run)
           /\ Len(SetGate(rs, r, g)) = Len(rs)
           /\ DOMAIN SetGate(rs, r, g) = DOMAIN rs
           /\ \A q \in DOMAIN rs :
                 /\ SetGate(rs, r, g)[q].epic = rs[q].epic
                 /\ SetGate(rs, r, g)[q].node = rs[q].node
                 /\ SetGate(rs, r, g)[q].status = rs[q].status
                 /\ SetGate(rs, r, g)[q].gate = IF q = r THEN g ELSE rs[q].gate
<1> DEFINE f == SetGate(rs, r, g)
<1>1. f = [q \in DOMAIN rs |-> IF q = r THEN [rs[q] EXCEPT !.gate = g] ELSE rs[q]]
  BY DEF SetGate
<1>2. \A q \in DOMAIN rs : rs[q] \in Run
  OBVIOUS
<1>3. \A q \in DOMAIN rs : f[q] \in Run
  BY <1>1, <1>2 DEF Run
<1>4. f \in Seq(Run) /\ Len(f) = Len(rs) /\ DOMAIN f = DOMAIN rs
  BY <1>1, <1>3, RowsByIndex
<1> QED
  BY <1>1, <1>2, <1>4 DEF Run

(* The clean-up and the sweep change the column status only.                *)
LEMMA CloseStaleRunsRows ==
    ASSUME NEW rs \in Seq(Run), NEW e, NEW done
    PROVE  /\ CloseStaleRuns(rs, e, done) \in Seq(Run)
           /\ Len(CloseStaleRuns(rs, e, done)) = Len(rs)
           /\ DOMAIN CloseStaleRuns(rs, e, done) = DOMAIN rs
           /\ \A q \in DOMAIN rs :
                 /\ CloseStaleRuns(rs, e, done)[q].epic = rs[q].epic
                 /\ CloseStaleRuns(rs, e, done)[q].node = rs[q].node
                 /\ CloseStaleRuns(rs, e, done)[q].gate = rs[q].gate
                 /\ CloseStaleRuns(rs, e, done)[q].status =
                       IF q \in OpenRuns(rs) /\ rs[q].epic = e
                       THEN IF rs[q].node \in done THEN "completed" ELSE "cancelled"
                       ELSE rs[q].status
<1> DEFINE f == CloseStaleRuns(rs, e, done)
           t(q) == IF rs[q].node \in done THEN "completed" ELSE "cancelled"
<1>1. f = [q \in DOMAIN rs |->
             IF q \in OpenRuns(rs) /\ rs[q].epic = e THEN [rs[q] EXCEPT !.status = t(q)] ELSE rs[q]]
  BY DEF CloseStaleRuns
<1>2. \A q \in DOMAIN rs : rs[q] \in Run
  OBVIOUS
<1>3. \A q : t(q) \in RunStatuses
  BY DEF RunStatuses
<1> HIDE DEF t
<1>4. \A q \in DOMAIN rs : f[q] \in Run
  BY <1>1, <1>2, <1>3 DEF Run
<1>5. \A q \in DOMAIN rs : /\ f[q].epic = rs[q].epic /\ f[q].node = rs[q].node
                           /\ f[q].gate = rs[q].gate
                           /\ f[q].status = IF q \in OpenRuns(rs) /\ rs[q].epic = e
                                            THEN t(q) ELSE rs[q].status
  BY <1>1, <1>2 DEF Run
<1>7. f = [q \in DOMAIN rs |-> f[q]]
  BY <1>1
<1>6. f \in Seq(Run) /\ Len(f) = Len(rs) /\ DOMAIN f = DOMAIN rs
  <2> HIDE DEF f
  <2> QED
    BY <1>4, <1>7, RowsByIndex
<1> QED
  BY <1>5, <1>6 DEF t

LEMMA SweepZombiesRows ==
    ASSUME NEW rs \in Seq(Run), NEW old \in SUBSET OpenRuns(rs)
    PROVE  /\ SweepZombies(rs, old) \in Seq(Run)
           /\ Len(SweepZombies(rs, old)) = Len(rs)
           /\ DOMAIN SweepZombies(rs, old) = DOMAIN rs
           /\ \A q \in DOMAIN rs :
                 /\ SweepZombies(rs, old)[q].epic = rs[q].epic
                 /\ SweepZombies(rs, old)[q].node = rs[q].node
                 /\ SweepZombies(rs, old)[q].gate = rs[q].gate
                 /\ SweepZombies(rs, old)[q].status = IF q \in old THEN "failed" ELSE rs[q].status
<1> DEFINE f == SweepZombies(rs, old)
<1>1. f = [q \in DOMAIN rs |-> IF q \in old THEN [rs[q] EXCEPT !.status = "failed"] ELSE rs[q]]
  BY DEF SweepZombies
<1>2. \A q \in DOMAIN rs : rs[q] \in Run
  OBVIOUS
<1>3. \A q \in DOMAIN rs : f[q] \in Run
  BY <1>1, <1>2 DEF Run, RunStatuses
<1>4. \A q \in DOMAIN rs : /\ f[q].epic = rs[q].epic /\ f[q].node = rs[q].node
                           /\ f[q].gate = rs[q].gate
                           /\ f[q].status = IF q \in old THEN "failed" ELSE rs[q].status
  BY <1>1, <1>2 DEF Run
<1>5. f = [q \in DOMAIN rs |-> f[q]]
  BY <1>1
<1>6. f \in Seq(Run) /\ Len(f) = Len(rs) /\ DOMAIN f = DOMAIN rs
  <2> HIDE DEF f
  <2> QED
    BY <1>3, <1>5, RowsByIndex
<1> QED
  BY <1>4, <1>6

-----------------------------------------------------------------------------
(* The inductive invariant                                                 *)

Frame == cur = NoEpic <=> pc \in {"down", "poll", "scan"}

Checkpointed ==
    /\ cur = NoEpic => completed = {}
    /\ cur # NoEpic => completed \subseteq finished[cur]

Dispatched ==
    /\ pc \in {"gate", "dispatch", "implement", "verdict", "save"} =>
          at \in 1..Len(Order) /\ Node \notin Skippable /\ Depends[Node] \subseteq completed
    /\ pc \in {"dispatch", "implement", "verdict", "save"} =>
          (gateMode = "manual" /\ Node \in HumanGated => Approved(runs, cur, Node))

Walked ==
    /\ \A i \in 1..(at - 1) : Order[i] \in completed
    /\ pc \in {"readStatus", "writeStatus"} => at = Len(Order) + 1

FreshGate == pc = "gate" => row \in DOMAIN runs /\ runs[row].gate = "none"

NoneRunning(e) == \A r \in DOMAIN runs : runs[r].epic = e => runs[r].status # "running"

OnlyRunning(r) ==
    /\ r \in DOMAIN runs /\ runs[r].epic = cur
    /\ \A q \in DOMAIN runs : runs[q].epic = cur /\ runs[q].status = "running" => q = r

Settled ==
    /\ pc \in {"checkout", "cleanup"} => PendingGates(runs, cur) = {}
    /\ pc \in {"checkpoint", "prepare", "walk", "implement", "verdict", "save", "readStatus",
               "writeStatus"} => NoneRunning(cur)
    /\ pc \in {"gate", "dispatch"} => OnlyRunning(row)

IInv == TypeOK /\ Frame /\ Checkpointed /\ Dispatched /\ Walked /\ FreshGate /\ Settled /\ OneOpenRun

-----------------------------------------------------------------------------
(* The types, and where cur is an epic.                                     *)

TypeInv == TypeOK /\ Frame

LEMMA InitTypeInv == Init => TypeInv
<1> SUFFICES ASSUME Init PROVE TypeInv
  OBVIOUS
<1>1. finished \in [Epics -> SUBSET Nodes]
  BY SavesType DEF Init
<1>2. epicStatus \in [Epics -> EpicStatuses] /\ newStatus \in EpicStatuses
  BY DEF Init, EpicStatuses
<1> QED
  BY <1>1, <1>2, OrderType, BoundsType, NoEpicType DEF Init, TypeInv, TypeOK, Frame, PCs

(* The node under the cursor of the walk.                                   *)
LEMMA NodeType ==
    ASSUME TypeInv, at <= Len(Order) PROVE Node \in Nodes /\ at \in 1..Len(Order)
BY OrderType DEF TypeInv, TypeOK, Node

(* compute_epic_status: an epic ships only by its required nodes, and       *)
(* nothing becomes a draft again.                                           *)
LEMMA NextStatusIs ==
    ASSUME NEW s \in EpicStatuses, NEW done
    PROVE  /\ NextStatus(s, done) \in EpicStatuses
           /\ NextStatus(s, done) = "shipped" => s = "shipped" \/ Required \subseteq done
           /\ NextStatus(s, done) = "drafted" => s = "drafted"
           /\ s = "shipped" => NextStatus(s, done) = "shipped"
           /\ s # "drafted" /\ NextStatus(s, done) # s
                 => NextStatus(s, done) = "shipped" /\ Required \subseteq done
BY DEF NextStatus, EpicStatuses

(* A save by others: some nodes more are finished, and the status follows.  *)
LEMMA PostSaveSteps ==
    ASSUME TypeOK, NEW e \in Epics, NEW saved \in Saves, PostSave(e, saved)
    PROVE  /\ \E done \in SUBSET Nodes :
                 /\ finished[e] \subseteq done
                 /\ finished' = [finished EXCEPT ![e] = done]
                 /\ \E status \in {epicStatus[e], NextStatus(epicStatus[e], done)} :
                       epicStatus' = [epicStatus EXCEPT ![e] = status]
           /\ UNCHANGED <<runs, gateMode, broken, pc, runningEpics, failCounts, polled, cur, at,
                          completed, row, newStatus, cooling>>
           /\ budget' \in 0..Budget
<1>1. PICK rest \in {{}, IF epicStatus[e] = "shipped" THEN Nodes ELSE {}} :
         LET done == finished[e] \cup saved \cup rest
         IN  /\ finished' = [finished EXCEPT ![e] = done]
             /\ \E status \in {epicStatus[e], NextStatus(epicStatus[e], done)} :
                   epicStatus' = [epicStatus EXCEPT ![e] = status]
  BY DEF PostSave
<1>2. rest \subseteq Nodes /\ saved \subseteq Nodes /\ finished[e] \subseteq Nodes
  BY SavesType DEF TypeOK
<1>3. finished[e] \cup saved \cup rest \in SUBSET Nodes
  BY <1>2
<1>4. UNCHANGED <<runs, gateMode, broken, pc, runningEpics, failCounts, polled, cur, at,
                  completed, row, newStatus, cooling>>
  BY DEF PostSave, OnlyDb, scheduler, locals
<1>5. budget' \in 0..Budget
  BY BoundsType DEF PostSave, Adverse, TypeOK
<1> QED
  BY <1>1, <1>3, <1>4, <1>5

LEMMA NextTypeInv == ASSUME TypeInv, Dispatched, Next PROVE TypeInv'
<1> USE OrderType, BoundsType, NoEpicType, BreakableType
    DEF TypeInv, TypeOK, Frame, PCs, EpicStatuses, RunStatuses, GateStatuses, db, scheduler,
        locals, Goto, Adverse, DispatchFails, DropLocals, OnlyDb
<1>1. CASE Poll \/ Restart
  <2>1. PICK old \in SUBSET OpenRuns(runs) :
           /\ runs' = SweepZombies(runs, old)
           /\ cooling' = cooling \ {runs[r].epic : r \in old}
    BY <1>1 DEF Poll, Restart
  <2>2. runs' \in Seq(Run) /\ Len(runs') = Len(runs)
    BY <2>1, SweepZombiesRows
  <2> QED
    BY <1>1, <2>1, <2>2 DEF Poll, Restart, InProgress
<1>2. CASE EndScan \/ Checkout \/ CheckoutRaises
  BY <1>2 DEF EndScan, Checkout, CheckoutRaises
<1>3. ASSUME NEW e \in Epics, SkipEpic(e) \/ DispatchEpic(e) PROVE TypeInv'
  BY <1>3 DEF SkipEpic, DispatchEpic
<1>4. CASE DispatchOk
  BY <1>4 DEF DispatchOk
<1>5. CASE DispatchFailed
  BY <1>5 DEF DispatchFailed, LastOfStreak
<1>6. CASE BlockEpic
  BY <1>6 DEF BlockEpic, LastOfStreak
<1>7. CASE BlockEpicRaises
  BY <1>7 DEF BlockEpicRaises, LastOfStreak
<1>8. CASE Cooldown
  BY <1>8 DEF Cooldown
<1>9. CASE Cleanup
  BY <1>9, CloseStaleRunsRows DEF Cleanup
<1>10. CASE Checkpoint \/ Prepare \/ PrepareRaises
  BY <1>10 DEF Checkpoint, Resumable, Prepare, PrepareRaises
<1>27. CASE PipelineRaises
  BY <1>27 DEF PipelineRaises
<1>26. CASE DirtyTree
  <2>1. epicStatus' \in [Epics -> EpicStatuses]
    BY <1>26 DEF DirtyTree, EpicStatuses
  <2>2. /\ Goto("prepare", "scan") /\ Adverse /\ DropLocals
        /\ failCounts' = [failCounts EXCEPT ![cur] = 0] /\ runningEpics' = runningEpics \ {cur}
        /\ UNCHANGED <<gateMode, broken, finished, runs, polled, cooling>>
    BY <1>26 DEF DirtyTree
  <2> QED
    BY <2>1, <2>2
<1>11. CASE SkipNode
  BY <1>11, NodeType DEF SkipNode, Walking
<1>12. CASE SkipOptional
  BY <1>12, NodeType DEF SkipOptional, Walking
<1>13. CASE OpenGate \/ StartNode
  <2>1. cur \in Epics /\ Node \in Nodes
    BY <1>13, NodeType DEF OpenGate, StartNode, Ready, Walking
  <2>2. runs' = InsertRun(runs, cur, Node)
    BY <1>13 DEF OpenGate, StartNode
  <2>3. runs' \in Seq(Run) /\ Len(runs') = Len(runs) + 1
    BY <2>1, <2>2, InsertRunRows
  <2> QED
    BY <1>13, <2>1, <2>3 DEF OpenGate, StartNode, Ready, Walking
<1>14. CASE MarkGate
  BY <1>14, SetGateRows DEF MarkGate
<1>15. CASE DeclineGate \/ StartImplement
  BY <1>15 DEF DeclineGate, StartImplement, Ready, Walking
<1>30. CASE AcceptVerdict \/ DeclineVerdict
  BY <1>30 DEF AcceptVerdict, DeclineVerdict
<1>31. CASE ImplementFails
  BY <1>31 DEF ImplementFails
<1>16. CASE NodeFails \/ NodeCompletes
  <2>1. \A s \in {"failed", "completed"} : s \in RunStatuses
    BY DEF RunStatuses
  <2>2. runs' \in Seq(Run) /\ Len(runs') = Len(runs)
    BY <1>16, <2>1, CompleteRunRows DEF NodeFails, NodeCompletes
  <2>3. CASE NodeFails
    BY <2>2, <2>3 DEF NodeFails
  <2>4. CASE NodeCompletes
    BY <2>2, <2>4 DEF NodeCompletes
  <2> QED
    BY <1>16, <2>3, <2>4
<1>17. CASE Escalate
  <2>1. cur \in Epics /\ Node \in Nodes
    BY <1>17, NodeType DEF Escalate, Dispatched
  <2>2. runs' \in Seq(Run) /\ Len(runs') = Len(runs) + 1
    BY <1>17, <2>1, InsertRunRows DEF Escalate
  <2> QED
    BY <1>17, <2>1, <2>2 DEF Escalate
<1>18. ASSUME NEW here \in {"save", "implement"}, SaveNode(here) PROVE TypeInv'
  BY <1>18, NodeType DEF SaveNode, Dispatched
<1>19. CASE EndWalk \/ ReadStatus
  <2>1. cur \in Epics => Derived(cur) \in EpicStatuses
    <3>1. cur \in Epics => epicStatus[cur] \in EpicStatuses
      OBVIOUS
    <3> HIDE DEF EpicStatuses
    <3> QED
      BY <3>1, NextStatusIs DEF Derived
  <2> QED
    BY <1>19, <2>1 DEF EndWalk, ReadStatus
<1>28. CASE WriteStatus
  <2>1. cur \in Epics
    BY <1>28 DEF WriteStatus
  <2>2. epicStatus' \in [Epics -> EpicStatuses]
    BY <1>28, <2>1 DEF WriteStatus
  <2> QED
    BY <1>28, <2>1, <2>2 DEF WriteStatus
<1>29. CASE TransitionFails
  BY <1>29 DEF TransitionFails
<1>20. ASSUME NEW r \in DOMAIN runs, ApproveGate(r) \/ RejectGate(r) PROVE TypeInv'
  <2>1. runs' \in Seq(Run) /\ Len(runs') = Len(runs)
    BY <1>20, SetGateRows DEF ApproveGate, RejectGate
  <2>2. CASE ApproveGate(r)
    BY <2>1, <2>2 DEF ApproveGate
  <2>3. CASE RejectGate(r)
    BY <2>1, <2>3 DEF RejectGate
  <2> QED
    BY <1>20, <2>2, <2>3
<1>21. ASSUME NEW e \in Epics, StartEpic(e) PROVE TypeInv'
  BY <1>21 DEF StartEpic
<1>22. ASSUME NEW e \in Epics, CancelEpic(e) PROVE TypeInv'
  BY <1>22 DEF CancelEpic
<1>23. ASSUME NEW e \in Epics, ReenableEpic(e) PROVE TypeInv'
  BY <1>23 DEF ReenableEpic
<1>24. CASE Crash
  BY <1>24 DEF Crash
<1>32. ASSUME NEW e \in Epics, NEW saved \in Saves, PostSave(e, saved) PROVE TypeInv'
  <2>1. PICK done \in SUBSET Nodes :
           /\ finished' = [finished EXCEPT ![e] = done]
           /\ \E status \in {epicStatus[e], NextStatus(epicStatus[e], done)} :
                 epicStatus' = [epicStatus EXCEPT ![e] = status]
    BY <1>32, PostSaveSteps
  <2>2. epicStatus[e] \in EpicStatuses /\ NextStatus(epicStatus[e], done) \in EpicStatuses
    BY NextStatusIs
  <2>3. epicStatus' \in [Epics -> EpicStatuses] /\ finished' \in [Epics -> SUBSET Nodes]
    BY <2>1, <2>2
  <2> QED
    BY <1>32, <2>3, PostSaveSteps
<1>25. ASSUME NEW e \in Epics, CooldownExpires(e) PROVE TypeInv'
  BY <1>25 DEF CooldownExpires
<1> QED
  BY <1>1, <1>2, <1>3, <1>4, <1>5, <1>6, <1>7, <1>8, <1>9, <1>10, <1>11, <1>12, <1>13, <1>14,
     <1>15, <1>16, <1>17, <1>18, <1>19, <1>20, <1>21, <1>22, <1>23, <1>24, <1>25, <1>26, <1>27, <1>28, <1>29,
     <1>30, <1>31, <1>32
     DEF Next, Daemon, Scheduler, Pipeline, Operator, Decide, Others

LEMMA StutterTypeInv == ASSUME TypeInv, UNCHANGED vars PROVE TypeInv'
BY DEF TypeInv, TypeOK, Frame, Goto, vars, db, scheduler, locals

-----------------------------------------------------------------------------
(* What a step does to the rows of pipeline_runs.                           *)

RowsKeep(rs) ==
    /\ DOMAIN runs \subseteq DOMAIN rs
    /\ \A r \in DOMAIN runs : /\ rs[r].epic = runs[r].epic
                              /\ rs[r].node = runs[r].node
                              /\ rs[r].gate = runs[r].gate

(* Only marking a new gate and the human's answer change a gate_status.     *)
LEMMA GateSteps ==
    ASSUME TypeInv, Dispatched, FreshGate, Next
    PROVE  \/ RowsKeep(runs')
           \/ /\ pc = "gate" /\ pc' = "ok" /\ runs[row].gate = "none"
              /\ runs' = SetGate(runs, row, "waiting_approval")
           \/ \E r \in DOMAIN runs, g \in {"approved", "rejected"} :
                 /\ runs[r].gate = "waiting_approval" /\ runs' = SetGate(runs, r, g)
                 /\ OnlyDb
<1> USE DEF TypeInv, TypeOK, Frame, db, Goto, RunStatuses
<1>1. ASSUME UNCHANGED runs PROVE RowsKeep(runs')
  BY <1>1 DEF RowsKeep
<1>2. ASSUME NEW old \in SUBSET OpenRuns(runs), runs' = SweepZombies(runs, old)
      PROVE  RowsKeep(runs')
  BY <1>2, SweepZombiesRows DEF RowsKeep
<1>3. ASSUME NEW done, runs' = CloseStaleRuns(runs, cur, done) PROVE RowsKeep(runs')
  BY <1>3, CloseStaleRunsRows DEF RowsKeep
<1>4. ASSUME NEW s \in RunStatuses, runs' = CompleteRun(runs, row, s) PROVE RowsKeep(runs')
  BY <1>4, CompleteRunRows DEF RowsKeep
<1>5. ASSUME cur \in Epics, at <= Len(Order), runs' = InsertRun(runs, cur, Node)
      PROVE  RowsKeep(runs')
  <2>1. Node \in Nodes /\ runs \in Seq(Run)
    BY <1>5, NodeType
  <2>2. /\ DOMAIN runs' = 1..(Len(runs) + 1) /\ DOMAIN runs = 1..Len(runs)
        /\ \A r \in DOMAIN runs : runs'[r] = runs[r]
    BY <1>5, <2>1, InsertRunRows
  <2> QED
    BY <2>1, <2>2 DEF RowsKeep
<1>6. CASE Daemon
  <2>1. CASE Scheduler
    BY <1>1, <1>2, <2>1 DEF Scheduler, Poll, EndScan, Checkout, CheckoutRaises, SkipEpic,
       DispatchEpic, DispatchOk, DispatchFailed, BlockEpic, BlockEpicRaises, Cooldown
  <2>2. CASE Restart
    BY <1>2, <2>2 DEF Restart
  <2>3. CASE Pipeline
    <3>1. CASE Cleanup
      BY <1>3, <3>1 DEF Cleanup
    <3>2. CASE OpenGate \/ StartNode
      BY <1>5, <3>2 DEF OpenGate, StartNode, Ready, Walking
    <3>3. CASE Escalate
      BY <1>5, <3>3 DEF Escalate, Dispatched
    <3>4. CASE NodeFails \/ NodeCompletes
      BY <1>4, <3>4 DEF NodeFails, NodeCompletes
    <3>5. CASE MarkGate
      BY <3>5 DEF MarkGate, FreshGate
    <3> QED
      BY <1>1, <2>3, <3>1, <3>2, <3>3, <3>4, <3>5
         DEF Pipeline, Checkpoint, Prepare, DirtyTree, PrepareRaises, PipelineRaises, SkipNode, SkipOptional,
             DeclineGate, StartImplement, AcceptVerdict, DeclineVerdict, ImplementFails,
             SaveNode, EndWalk, ReadStatus, WriteStatus, TransitionFails
  <2> QED
    BY <1>6, <2>1, <2>2, <2>3 DEF Daemon
<1>7. CASE Operator
  BY <1>1, <1>7 DEF Operator, Decide, ApproveGate, RejectGate, CanResolve, StartEpic, CancelEpic,
                    ReenableEpic
<1>8. CASE Crash
  BY <1>1, <1>8 DEF Crash
<1>9. ASSUME NEW e \in Epics, CooldownExpires(e) PROVE RowsKeep(runs')
  BY <1>1, <1>9 DEF CooldownExpires
<1>10. ASSUME NEW e \in Epics, NEW saved \in Saves, PostSave(e, saved) PROVE RowsKeep(runs')
  BY <1>1, <1>10, PostSaveSteps
<1> QED
  BY <1>6, <1>7, <1>8, <1>9, <1>10 DEF Next, Others

(* No step undoes an approval.                                              *)
LEMMA ApprovalIsKept ==
    ASSUME TypeInv, Dispatched, FreshGate, Next, NEW e, NEW n, Approved(runs, e, n)
    PROVE  Approved(runs', e, n)
<1> PICK q \in DOMAIN runs : runs[q].epic = e /\ runs[q].node = n /\ runs[q].gate = "approved"
  BY DEF Approved
<1>1. CASE RowsKeep(runs')
  BY <1>1 DEF Approved, RowsKeep
<1>2. ASSUME NEW r, NEW g \in GateStatuses, runs[r].gate # "approved", runs' = SetGate(runs, r, g)
      PROVE  Approved(runs', e, n)
  <2>1. runs \in Seq(Run)
    BY DEF TypeInv, TypeOK
  <2> QED
    BY <1>2, <2>1, SetGateRows DEF Approved
<1> QED
  BY <1>1, <1>2, GateSteps DEF GateStatuses

-----------------------------------------------------------------------------
(* epic_nodes only grows, whoever writes it.                                *)
LEMMA FinishedGrows ==
    ASSUME TypeInv, Dispatched, Next PROVE \A e \in Epics : finished[e] \subseteq finished'[e]
<1> USE DEF TypeInv, TypeOK, Frame, db, Goto, OnlyDb
<1>1. CASE Pipeline
  <2>1. CASE SkipOptional
    BY <2>1 DEF SkipOptional
  <2>2. ASSUME NEW here \in {"save", "implement"}, SaveNode(here)
        PROVE  \A e \in Epics : finished[e] \subseteq finished'[e]
    BY <2>2 DEF SaveNode
  <2> QED
    BY <1>1, <2>1, <2>2
       DEF Pipeline, Cleanup, Checkpoint, Prepare, DirtyTree, PrepareRaises, PipelineRaises, SkipNode, OpenGate,
           MarkGate, DeclineGate, StartNode, StartImplement, NodeFails, NodeCompletes,
           AcceptVerdict, Escalate, DeclineVerdict, ImplementFails, EndWalk, ReadStatus,
           WriteStatus, TransitionFails
<1>2. CASE Scheduler
  BY <1>2 DEF Scheduler, Poll, EndScan, Checkout, CheckoutRaises, SkipEpic, DispatchEpic,
              DispatchOk, DispatchFailed, BlockEpic, BlockEpicRaises, Cooldown
<1>3. CASE Restart \/ Operator \/ Crash
  BY <1>3 DEF Restart, Operator, Decide, ApproveGate, RejectGate, StartEpic, CancelEpic,
              ReenableEpic, Crash
<1>4. ASSUME NEW e \in Epics, CooldownExpires(e) PROVE UNCHANGED finished
  BY <1>4 DEF CooldownExpires
<1>5. ASSUME NEW e \in Epics, NEW saved \in Saves, PostSave(e, saved)
      PROVE  \A f \in Epics : finished[f] \subseteq finished'[f]
  <2>1. PICK done \in SUBSET Nodes :
           finished[e] \subseteq done /\ finished' = [finished EXCEPT ![e] = done]
    BY <1>5, PostSaveSteps
  <2> QED
    BY <2>1
<1> QED
  BY <1>1, <1>2, <1>3, <1>4, <1>5 DEF Next, Daemon, Others

LEMMA NextCheckpointed == ASSUME TypeInv, Dispatched, Checkpointed, Next PROVE Checkpointed'
<1> USE NoEpicType DEF TypeInv, TypeOK, Frame, Checkpointed, db, locals, Goto, DropLocals, OnlyDb
<1>1. CASE Poll \/ EndScan \/ Checkout \/ CheckoutRaises
  BY <1>1 DEF Poll, EndScan, Checkout, CheckoutRaises
<1>2. ASSUME NEW e \in Epics, SkipEpic(e) \/ DispatchEpic(e) PROVE Checkpointed'
  BY <1>2 DEF SkipEpic, DispatchEpic
<1>3. CASE DispatchOk \/ DispatchFailed \/ BlockEpic \/ BlockEpicRaises \/ Cooldown
  BY <1>3 DEF DispatchOk, DispatchFailed, BlockEpic, BlockEpicRaises, Cooldown
<1>4. CASE Cleanup \/ Checkpoint \/ Prepare \/ DirtyTree \/ PrepareRaises \/ PipelineRaises
  BY <1>4 DEF Cleanup, Checkpoint, Resumable, Prepare, DirtyTree, PrepareRaises, PipelineRaises
<1>5. CASE SkipNode \/ SkipOptional
  BY <1>5 DEF SkipNode, SkipOptional, Walking
<1>6. CASE OpenGate \/ MarkGate \/ DeclineGate \/ StartNode \/ StartImplement \/ NodeFails
  BY <1>6 DEF OpenGate, MarkGate, DeclineGate, StartNode, StartImplement, NodeFails, Ready, Walking
<1>7. CASE NodeCompletes \/ AcceptVerdict \/ Escalate \/ DeclineVerdict \/ ImplementFails
  BY <1>7 DEF NodeCompletes, AcceptVerdict, Escalate, DeclineVerdict, ImplementFails
<1>8. ASSUME NEW here \in {"save", "implement"}, SaveNode(here) PROVE Checkpointed'
  BY <1>8 DEF SaveNode
<1>9. CASE EndWalk \/ ReadStatus \/ WriteStatus \/ TransitionFails
  BY <1>9 DEF EndWalk, ReadStatus, WriteStatus, TransitionFails
<1>10. CASE Operator
  BY <1>10 DEF Operator, Decide, ApproveGate, RejectGate, StartEpic, CancelEpic, ReenableEpic
<1>11. CASE Restart \/ Crash
  BY <1>11 DEF Restart, Crash
<1>12. ASSUME NEW e \in Epics, CooldownExpires(e) PROVE Checkpointed'
  BY <1>12 DEF CooldownExpires
<1>13. ASSUME NEW e \in Epics, NEW saved \in Saves, PostSave(e, saved) PROVE Checkpointed'
  BY <1>13, PostSaveSteps, FinishedGrows
<1> QED
  BY <1>1, <1>2, <1>3, <1>4, <1>5, <1>6, <1>7, <1>8, <1>9, <1>10, <1>11, <1>12, <1>13
     DEF Next, Daemon, Scheduler, Pipeline, Others

(* The walk leaves nothing behind: in topological order no node that it     *)
(* reaches misses a dependency.                                             *)
LEMMA NextWalked == ASSUME TypeInv, Dispatched, Walked, Next PROVE Walked'
<1> USE DEF TypeInv, TypeOK, Frame, db, locals, Goto, DropLocals, OnlyDb
<1>1. ASSUME UNCHANGED <<at, completed>>, pc' \in {"readStatus", "writeStatus"} => pc \in {"readStatus", "writeStatus"}
      PROVE  Walked'
  BY <1>1 DEF Walked
<1>2. ASSUME at' = 1, pc' \notin {"readStatus", "writeStatus"} PROVE Walked'
  BY <1>2 DEF Walked
<1>3. ASSUME at \in 1..Len(Order), at' = at + 1, completed \subseteq completed', Order[at] \in completed',
             pc' \notin {"readStatus", "writeStatus"}
      PROVE  Walked'
  <2>1. \A i \in 1..(at' - 1) : i \in 1..(at - 1) \/ i = at
    BY <1>3
  <2> QED
    BY <1>3, <2>1 DEF Walked
<1>4. CASE Scheduler
  BY <1>1, <1>2, <1>4 DEF Scheduler, Poll, EndScan, Checkout, CheckoutRaises, SkipEpic, DispatchEpic,
              DispatchOk, DispatchFailed, BlockEpic, BlockEpicRaises, Cooldown
<1>5. CASE SkipNode
  <2>1. at \in 1..Len(Order) /\ at' = at + 1 /\ completed' = completed /\ pc' = "walk"
        /\ (Order[at] \in completed \/ ~(Depends[Order[at]] \subseteq completed))
    BY <1>5, NodeType DEF SkipNode, Walking, MissingDeps, Node
  <2>2. Depends[Order[at]] \subseteq completed
    BY <2>1, OrderIsTopological DEF Walked
  <2> QED
    BY <1>3, <2>1, <2>2
<1>6. CASE SkipOptional
  BY <1>3, <1>6, NodeType DEF SkipOptional, Walking, Node
<1>7. ASSUME NEW here \in {"save", "implement"}, SaveNode(here) PROVE Walked'
  BY <1>3, <1>7 DEF SaveNode, Dispatched, Node
<1>8. CASE EndWalk
  <2>1. at = Len(Order) + 1
    BY <1>8, OrderType DEF EndWalk
  <2> QED
    BY <1>8, <2>1 DEF EndWalk, Walked
<1>9. ASSUME Pipeline, ~SkipNode, ~SkipOptional, ~SaveNode("save"), ~SaveNode("implement"), ~EndWalk
      PROVE  Walked'
  BY <1>1, <1>2, <1>9
     DEF Pipeline, Cleanup, Checkpoint, Prepare, DirtyTree, PrepareRaises, PipelineRaises, OpenGate,
         MarkGate, DeclineGate, StartNode, StartImplement, NodeFails, NodeCompletes, AcceptVerdict,
         Escalate, DeclineVerdict, ImplementFails, ReadStatus, WriteStatus, TransitionFails,
         Walking, Ready
<1>10. CASE Operator
  BY <1>1, <1>10 DEF Operator, Decide, ApproveGate, RejectGate, StartEpic, CancelEpic, ReenableEpic
<1>11. CASE Restart \/ Crash
  BY <1>1, <1>2, <1>11 DEF Restart, Crash
<1>12. ASSUME NEW e \in Epics, CooldownExpires(e) PROVE Walked'
  BY <1>1, <1>12 DEF CooldownExpires
<1>13. ASSUME NEW e \in Epics, NEW saved \in Saves, PostSave(e, saved) PROVE Walked'
  BY <1>1, <1>13, PostSaveSteps
<1> QED
  BY <1>4, <1>5, <1>6, <1>7, <1>8, <1>9, <1>10, <1>11, <1>12, <1>13 DEF Next, Daemon, Others

(* The guards of the walk, once passed, stay true until the node is saved:  *)
(* in particular no one can withdraw the approval it was dispatched on.     *)
LEMMA NextDispatched ==
    ASSUME TypeInv, Dispatched, FreshGate, Next PROVE Dispatched'
<1> USE DEF TypeInv, TypeOK, Frame, locals, Goto, OnlyDb
<1> DEFINE Busy == {"dispatch", "implement", "verdict", "save"}
<1>1. ASSUME UNCHANGED <<cur, at, completed, gateMode>>, pc \in Busy \cup {"gate"},
             pc' \in Busy => pc \in Busy
      PROVE  Dispatched'
  BY <1>1, ApprovalIsKept DEF Dispatched, Node
<1>2. CASE StartNode \/ StartImplement
  <2>1. at \in 1..Len(Order)
    BY <1>2, NodeType DEF StartNode, StartImplement, Ready, Walking
  <2>2. UNCHANGED <<cur, at, completed, gateMode>> /\ ~NeedsHuman /\ Ready
    BY <1>2 DEF StartNode, StartImplement
  <2>3. Approved(runs, cur, Node) => Approved(runs', cur, Node)
    BY ApprovalIsKept
  <2> QED
    BY <2>1, <2>2, <2>3 DEF Dispatched, Ready, NeedsHuman, Node
<1>3. CASE OpenGate
  <2>1. at \in 1..Len(Order)
    BY <1>3, NodeType DEF OpenGate, Ready, Walking
  <2> QED
    BY <1>3, <2>1 DEF OpenGate, Dispatched, Ready, Node
<1>4. CASE NodeCompletes \/ AcceptVerdict \/ Escalate
  BY <1>1, <1>4 DEF NodeCompletes, AcceptVerdict, Escalate
<1>5. CASE Scheduler
  BY <1>5 DEF Scheduler, Poll, EndScan, Checkout, CheckoutRaises, SkipEpic, DispatchEpic,
              DispatchOk, DispatchFailed, BlockEpic, BlockEpicRaises, Cooldown, Dispatched
<1>6. CASE Operator
  BY <1>1, <1>6 DEF Operator, Decide, ApproveGate, RejectGate, StartEpic, CancelEpic, ReenableEpic,
                    Dispatched
<1>7. CASE Restart \/ Crash
  BY <1>7 DEF Restart, Crash, Dispatched
<1>8. ASSUME NEW e \in Epics, CooldownExpires(e) PROVE Dispatched'
  BY <1>1, <1>8 DEF CooldownExpires, Dispatched
<1>9. ASSUME pc' \notin Busy \cup {"gate"} PROVE Dispatched'
  BY <1>9 DEF Dispatched
<1>10. ASSUME NEW e \in Epics, NEW saved \in Saves, PostSave(e, saved) PROVE Dispatched'
  <2>1. UNCHANGED <<pc, cur, at, completed, gateMode>>
    BY <1>10, PostSaveSteps
  <2> QED
    BY <1>1, <1>9, <2>1
<1> QED
  BY <1>2, <1>3, <1>4, <1>5, <1>6, <1>7, <1>8, <1>9, <1>10
     DEF Next, Daemon, Others, Pipeline, Cleanup, Checkpoint, Prepare, DirtyTree, PrepareRaises,
         PipelineRaises, SkipNode, SkipOptional, MarkGate, DeclineGate, NodeFails,
         DeclineVerdict, ImplementFails, SaveNode, EndWalk, ReadStatus, WriteStatus, TransitionFails,
         Walking, Ready

LEMMA NextFreshGate == ASSUME TypeInv, Dispatched, FreshGate, Next PROVE FreshGate'
<1> USE DEF TypeInv, TypeOK, Frame, locals, db, Goto, OnlyDb
<1>1. CASE OpenGate \/ Escalate
  <2>1. cur \in Epics /\ Node \in Nodes /\ runs \in Seq(Run)
    BY <1>1, NodeType DEF OpenGate, Ready, Walking, Escalate, Dispatched
  <2>2. runs' = InsertRun(runs, cur, Node) /\ row' = Len(runs) + 1
    BY <1>1 DEF OpenGate, Escalate
  <2>3. row' \in DOMAIN runs' /\ runs'[row'].gate = "none"
    <3> HIDE DEF TypeInv, TypeOK
    <3>1. Len(runs) \in Nat
      BY <2>1
    <3>2. /\ DOMAIN runs' = 1..(Len(runs) + 1)
          /\ runs'[Len(runs) + 1].gate = "none"
      BY <2>1, <2>2, InsertRunRows
    <3> QED
      BY <2>2, <3>1, <3>2
  <2> QED
    BY <2>3 DEF FreshGate
<1>2. ASSUME pc = "gate", pc' = "gate", row' = row PROVE FreshGate'
  <2>1. row \in DOMAIN runs /\ runs[row].gate = "none"
    BY <1>2 DEF FreshGate
  <2>2. CASE RowsKeep(runs')
    BY <1>2, <2>1, <2>2 DEF RowsKeep, FreshGate
  <2>3. ASSUME NEW r \in DOMAIN runs, NEW g \in {"approved", "rejected"},
               runs[r].gate = "waiting_approval", runs' = SetGate(runs, r, g)
        PROVE  FreshGate'
    <3>1. runs \in Seq(Run) /\ g \in GateStatuses
      BY DEF GateStatuses
    <3>2. row \in DOMAIN runs' /\ runs'[row].gate = "none"
      <4> HIDE DEF TypeInv, TypeOK
      <4> QED
        BY <2>1, <2>3, <3>1, SetGateRows
    <3> QED
      BY <1>2, <3>2 DEF FreshGate
  <2> QED
    BY <1>2, <2>2, <2>3, GateSteps
<1>3. CASE Operator
  BY <1>2, <1>3 DEF Operator, Decide, ApproveGate, RejectGate, StartEpic, CancelEpic,
                    ReenableEpic, FreshGate
<1>4. ASSUME NEW e \in Epics, CooldownExpires(e) PROVE FreshGate'
  BY <1>2, <1>4 DEF CooldownExpires, FreshGate
<1>5. ASSUME pc' # "gate" PROVE FreshGate'
  BY <1>5 DEF FreshGate
<1>6. CASE Scheduler \/ Restart \/ Crash
  BY <1>5, <1>6 DEF Scheduler, Poll, EndScan, Checkout, CheckoutRaises, SkipEpic, DispatchEpic,
              DispatchOk, DispatchFailed, BlockEpic, BlockEpicRaises, Cooldown, Restart, Crash
<1>7. CASE Pipeline
  BY <1>1, <1>5, <1>7
     DEF Pipeline, Cleanup, Checkpoint, Prepare, DirtyTree, PrepareRaises, PipelineRaises, SkipNode,
         SkipOptional, MarkGate, DeclineGate, StartNode, StartImplement, NodeFails, NodeCompletes,
         AcceptVerdict, DeclineVerdict, ImplementFails, SaveNode, EndWalk, ReadStatus,
         WriteStatus, TransitionFails, Walking, Ready
<1>8. ASSUME NEW e \in Epics, NEW saved \in Saves, PostSave(e, saved) PROVE FreshGate'
  BY <1>2, <1>5, <1>8, PostSaveSteps
<1> QED
  BY <1>3, <1>4, <1>6, <1>7, <1>8 DEF Next, Daemon, Others

-----------------------------------------------------------------------------
(* One open row per epic.  A dispatch starts when the epic waits for no     *)
(* gate, so the clean-up leaves none of its rows running; from there the    *)
(* only running row is the one the walk has just inserted.                  *)

(* No row becomes running again, and none waits for a gate that did not.    *)
NoneReopened(rs) ==
    /\ DOMAIN rs = DOMAIN runs
    /\ \A r \in DOMAIN rs : /\ rs[r].epic = runs[r].epic
                            /\ rs[r].status = "running" => runs[r].status = "running"

LEMMA StatusSteps ==
    ASSUME TypeInv, Dispatched, Next
    PROVE  \/ NoneReopened(runs')
           \/ /\ runs' = InsertRun(runs, cur, Node) /\ row' = Len(runs) + 1 /\ cur' = cur
              /\ cur \in Epics /\ Node \in Nodes
              /\ pc \in {"walk", "verdict"} /\ pc' \in {"gate", "dispatch"}
<1>0. runs \in Seq(Run)
  BY DEF TypeInv, TypeOK
<1>1. ASSUME UNCHANGED runs PROVE NoneReopened(runs')
  BY <1>1 DEF NoneReopened
<1>2. ASSUME NEW old \in SUBSET OpenRuns(runs), runs' = SweepZombies(runs, old)
      PROVE  NoneReopened(runs')
  BY <1>0, <1>2, SweepZombiesRows DEF NoneReopened
<1>3. ASSUME NEW done, runs' = CloseStaleRuns(runs, cur, done) PROVE NoneReopened(runs')
  <2>1. DOMAIN runs' = DOMAIN runs
    BY <1>0, <1>3, CloseStaleRunsRows
  <2>2. ASSUME NEW q \in DOMAIN runs
        PROVE  runs'[q].epic = runs[q].epic /\ (runs'[q].status = "running" => runs[q].status = "running")
    BY <1>0, <1>3, CloseStaleRunsRows
  <2> QED
    BY <2>1, <2>2 DEF NoneReopened
<1>4. ASSUME NEW s \in RunStatuses \ {"running"}, runs' = CompleteRun(runs, row, s)
      PROVE  NoneReopened(runs')
  <2>1. s \in RunStatuses /\ s # "running"
    BY <1>4
  <2>2. /\ DOMAIN runs' = DOMAIN runs
        /\ \A q \in DOMAIN runs : /\ runs'[q].epic = runs[q].epic
                                  /\ runs'[q].status = IF q = row THEN s ELSE runs[q].status
    BY <1>0, <1>4, <2>1, CompleteRunRows
  <2> QED
    BY <2>1, <2>2 DEF NoneReopened
<1>5. ASSUME NEW r, NEW g \in GateStatuses, runs' = SetGate(runs, r, g) PROVE NoneReopened(runs')
  BY <1>0, <1>5, SetGateRows DEF NoneReopened
<1> USE DEF TypeInv, TypeOK, Frame, db, Goto, RunStatuses
<1>6. CASE Scheduler \/ Restart
  BY <1>1, <1>2, <1>6 DEF Scheduler, Poll, EndScan, Checkout, CheckoutRaises, SkipEpic,
     DispatchEpic, DispatchOk, DispatchFailed, BlockEpic, BlockEpicRaises, Cooldown, Restart
<1>7. CASE Pipeline
  <2>1. CASE Cleanup
    BY <1>3, <2>1 DEF Cleanup
  <2>2. CASE OpenGate \/ StartNode
    BY <2>2, NodeType DEF OpenGate, StartNode, Ready, Walking
  <2>3. CASE Escalate
    BY <2>3, NodeType DEF Escalate, Dispatched
  <2>4. CASE NodeFails \/ NodeCompletes
    BY <1>4, <2>4 DEF NodeFails, NodeCompletes
  <2>5. CASE MarkGate
    BY <1>5, <2>5 DEF MarkGate, GateStatuses
  <2> QED
    BY <1>1, <1>7, <2>1, <2>2, <2>3, <2>4, <2>5
       DEF Pipeline, Checkpoint, Prepare, DirtyTree, PrepareRaises, PipelineRaises, SkipNode, SkipOptional,
           DeclineGate, StartImplement, AcceptVerdict, DeclineVerdict, ImplementFails,
           SaveNode, EndWalk, ReadStatus, WriteStatus, TransitionFails
<1>8. CASE Operator
  BY <1>1, <1>5, <1>8 DEF Operator, Decide, ApproveGate, RejectGate, StartEpic, CancelEpic,
                          ReenableEpic, GateStatuses
<1>9. CASE Crash
  BY <1>1, <1>9 DEF Crash
<1>10. ASSUME NEW e \in Epics, CooldownExpires(e) PROVE NoneReopened(runs')
  BY <1>1, <1>10 DEF CooldownExpires
<1>11. ASSUME NEW e \in Epics, NEW saved \in Saves, PostSave(e, saved) PROVE NoneReopened(runs')
  BY <1>1, <1>11, PostSaveSteps
<1> QED
  BY <1>6, <1>7, <1>8, <1>9, <1>10, <1>11 DEF Next, Daemon, Others

LEMMA NextOneOpenRun ==
    ASSUME TypeInv, Dispatched, Settled, OneOpenRun, Next PROVE OneOpenRun'
<1>1. CASE NoneReopened(runs')
  BY <1>1 DEF NoneReopened, OneOpenRun
<1>2. ASSUME runs' = InsertRun(runs, cur, Node), cur \in Epics, Node \in Nodes, NoneRunning(cur)
      PROVE  OneOpenRun'
  <2>1. runs \in Seq(Run)
    BY DEF TypeInv, TypeOK
  <2>2. /\ DOMAIN runs' = 1..(Len(runs) + 1) /\ DOMAIN runs = 1..Len(runs)
        /\ \A r \in DOMAIN runs : runs'[r] = runs[r]
        /\ runs'[Len(runs) + 1].epic = cur
    BY <1>2, <2>1, InsertRunRows
  <2>3. Len(runs) \in Nat
    BY <2>1
  <2>4. \A r \in DOMAIN runs' : r \in DOMAIN runs \/ r = Len(runs) + 1
    BY <2>2, <2>3
  <2> SUFFICES ASSUME NEW r \in DOMAIN runs', NEW s \in DOMAIN runs',
                      runs'[r].status = "running", runs'[s].status = "running",
                      runs'[r].epic = runs'[s].epic
               PROVE  r = s
    BY DEF OneOpenRun
  <2>5. CASE r \in DOMAIN runs /\ s \in DOMAIN runs
    BY <2>2, <2>5 DEF OneOpenRun
  <2>6. ASSUME NEW q \in DOMAIN runs, runs'[q].status = "running", runs'[q].epic = cur PROVE FALSE
    BY <1>2, <2>2, <2>6 DEF NoneRunning
  <2>7. CASE r \notin DOMAIN runs \/ s \notin DOMAIN runs
    BY <2>2, <2>4, <2>6, <2>7
  <2> QED
    BY <2>5, <2>7
<1> QED
  BY <1>1, <1>2, StatusSteps DEF Settled

(* The clean-up leaves running only what waits for a gate.                  *)
LEMMA CleanupSettles ==
    ASSUME NEW rs \in Seq(Run), NEW e, NEW done, PendingGates(rs, e) = {}
    PROVE  \A r \in DOMAIN CloseStaleRuns(rs, e, done) :
              CloseStaleRuns(rs, e, done)[r].epic = e
                 => CloseStaleRuns(rs, e, done)[r].status # "running"
<1> DEFINE f == CloseStaleRuns(rs, e, done)
<1> SUFFICES ASSUME NEW r \in DOMAIN f, f[r].epic = e, f[r].status = "running" PROVE FALSE
  OBVIOUS
<1>1. r \in DOMAIN rs /\ rs[r].epic = e
  BY CloseStaleRunsRows
<1>2. rs[r].status = "running" /\ r \notin OpenRuns(rs)
  BY <1>1, CloseStaleRunsRows
<1>3. r \in PendingGates(rs, e)
  BY <1>1, <1>2 DEF OpenRuns, PendingGates
<1> QED
  BY <1>3

LEMMA NextSettled == ASSUME TypeInv, Dispatched, FreshGate, Settled, Next PROVE Settled'
<1> USE DEF TypeInv, TypeOK, Frame, locals, db, Goto, OnlyDb
<1> DEFINE Quiet == {"checkpoint", "prepare", "walk", "implement", "verdict", "save",
                     "readStatus", "writeStatus"}
<1>1. ASSUME pc \in Quiet, pc' \in Quiet, cur' = cur, NoneReopened(runs') PROVE Settled'
  BY <1>1 DEF Settled, NoneRunning, NoneReopened
<1>2. ASSUME pc \in {"gate", "dispatch"}, pc' = pc, cur' = cur, row' = row, NoneReopened(runs')
      PROVE  Settled'
  BY <1>2 DEF Settled, OnlyRunning, NoneReopened
<1>3. ASSUME pc \in {"checkout", "cleanup"}, pc' \in {"checkout", "cleanup"}, cur' = cur,
             NoneReopened(runs'),
             PendingGates(runs', cur) \subseteq PendingGates(runs, cur)
      PROVE  Settled'
  BY <1>3 DEF Settled
<1>4. ASSUME pc' \in {"down", "poll", "scan", "ok", "failed", "cooldown"} PROVE Settled'
  BY <1>4 DEF Settled
<1>5. CASE OpenGate \/ StartNode \/ Escalate
  <2>1. /\ runs' = InsertRun(runs, cur, Node) /\ row' = Len(runs) + 1 /\ cur' = cur
        /\ pc' \in {"gate", "dispatch"} /\ pc \in {"walk", "verdict"}
    BY <1>5 DEF OpenGate, StartNode, Escalate, Ready, Walking
  <2>2. cur \in Epics /\ Node \in Nodes /\ runs \in Seq(Run) /\ Len(runs) \in Nat
    BY <1>5, NodeType DEF OpenGate, StartNode, Escalate, Ready, Walking, Dispatched
  <2>3. NoneRunning(cur)
    BY <2>1 DEF Settled
  <2>4. /\ DOMAIN runs' = 1..(Len(runs) + 1) /\ DOMAIN runs = 1..Len(runs)
        /\ \A r \in DOMAIN runs : runs'[r] = runs[r]
        /\ runs'[Len(runs) + 1].epic = cur
    <3> HIDE DEF TypeInv, TypeOK
    <3> QED
      BY <2>1, <2>2, InsertRunRows
  <2>5. OnlyRunning(row)'
    <3>1. \A q \in DOMAIN runs' : q \in DOMAIN runs \/ q = row'
      BY <2>1, <2>2, <2>4
    <3>2. row' \in DOMAIN runs'
      BY <2>1, <2>2, <2>4
    <3>3. \A q \in DOMAIN runs : runs'[q].epic = cur => runs'[q].status # "running"
      BY <2>3, <2>4 DEF NoneRunning
    <3>4. runs'[row'].epic = cur'
      BY <2>1, <2>4
    <3> HIDE DEF TypeInv, TypeOK
    <3> QED
      BY <2>1, <3>1, <3>2, <3>3, <3>4 DEF OnlyRunning
  <2> QED
    BY <2>1, <2>5 DEF Settled
<1>6. CASE NodeCompletes
  <2>1. /\ runs' = CompleteRun(runs, row, "completed") /\ cur' = cur /\ pc' = "verdict"
        /\ OnlyRunning(row) /\ runs \in Seq(Run)
    BY <1>6 DEF NodeCompletes, Settled
  <2>2. /\ DOMAIN runs' = DOMAIN runs
        /\ \A q \in DOMAIN runs : /\ runs'[q].epic = runs[q].epic
                                  /\ runs'[q].status = IF q = row THEN "completed" ELSE runs[q].status
    <3> HIDE DEF TypeInv, TypeOK
    <3> QED
      BY <2>1, CompleteRunRows DEF RunStatuses
  <2>3. NoneRunning(cur)'
    BY <2>1, <2>2 DEF NoneRunning, OnlyRunning
  <2> QED
    BY <2>1, <2>3 DEF Settled
<1>7. CASE Cleanup
  <2>1. /\ runs' = CloseStaleRuns(runs, cur, finished[cur]) /\ cur' = cur /\ pc' = "checkpoint"
        /\ PendingGates(runs, cur) = {} /\ runs \in Seq(Run)
    BY <1>7 DEF Cleanup, Settled
  <2>2. NoneRunning(cur)'
    BY <2>1, CleanupSettles DEF NoneRunning
  <2> QED
    BY <2>1, <2>2 DEF Settled
<1>8. CASE Operator
  <2>1. pc' = pc /\ cur' = cur /\ row' = row
    BY <1>8 DEF Operator, Decide, ApproveGate, RejectGate, StartEpic, CancelEpic, ReenableEpic
  <2>2. UNCHANGED runs \/ \E r \in DOMAIN runs, g \in {"approved", "rejected"} : runs' = SetGate(runs, r, g)
    BY <1>8 DEF Operator, Decide, ApproveGate, RejectGate, StartEpic, CancelEpic, ReenableEpic
  <2>3. NoneReopened(runs') /\ PendingGates(runs', cur) \subseteq PendingGates(runs, cur)
    <3>1. CASE UNCHANGED runs
      BY <3>1 DEF NoneReopened
    <3>2. ASSUME NEW r \in DOMAIN runs, NEW g \in {"approved", "rejected"}, runs' = SetGate(runs, r, g)
          PROVE  NoneReopened(runs') /\ PendingGates(runs', cur) \subseteq PendingGates(runs, cur)
      <4>1. runs \in Seq(Run) /\ g \in GateStatuses /\ g # "waiting_approval"
        BY DEF GateStatuses
      <4>2. /\ DOMAIN runs' = DOMAIN runs
            /\ \A q \in DOMAIN runs : /\ runs'[q].epic = runs[q].epic
                                      /\ runs'[q].status = runs[q].status
                                      /\ runs'[q].gate = IF q = r THEN g ELSE runs[q].gate
        <5> HIDE DEF TypeInv, TypeOK
        <5> QED
          BY <3>2, <4>1, SetGateRows
      <4> QED
        BY <4>1, <4>2 DEF NoneReopened, PendingGates
    <3> QED
      BY <2>2, <3>1, <3>2
  <2> QED
    BY <1>1, <1>2, <1>3, <1>4, <2>1, <2>3 DEF PCs
<1>9. ASSUME NEW e \in Epics, CooldownExpires(e) PROVE Settled'
  BY <1>9 DEF CooldownExpires, Settled, NoneRunning, OnlyRunning
<1>10. CASE Scheduler
  <2>1. ASSUME NEW e \in Epics, DispatchEpic(e) PROVE Settled'
    BY <2>1 DEF DispatchEpic, Settled
  <2>2. CASE Checkout
    BY <2>2 DEF Checkout, Settled
  <2> QED
    BY <1>4, <1>10, <2>1, <2>2
       DEF Scheduler, Poll, EndScan, CheckoutRaises, SkipEpic, DispatchOk, DispatchFailed,
           BlockEpic, BlockEpicRaises, Cooldown
<1>11. CASE Restart \/ Crash
  BY <1>4, <1>11 DEF Restart, Crash
<1>12. CASE Pipeline
  <2>2. ASSUME UNCHANGED <<runs, cur>>, pc \in Quiet, pc' \in Quiet PROVE Settled'
    BY <2>2 DEF Settled, NoneRunning
  <2>3. CASE Checkpoint \/ Prepare \/ DirtyTree \/ PrepareRaises \/ PipelineRaises
    BY <1>4, <2>2, <2>3 DEF Checkpoint, Prepare, DirtyTree, PrepareRaises, PipelineRaises
  <2>4. CASE SkipNode \/ SkipOptional \/ StartImplement
    BY <2>2, <2>4 DEF SkipNode, SkipOptional, StartImplement, Walking, Ready
  <2>5. CASE MarkGate \/ DeclineGate \/ NodeFails \/ DeclineVerdict \/ ImplementFails
    BY <1>4, <2>5 DEF MarkGate, DeclineGate, NodeFails, DeclineVerdict, ImplementFails
  <2>6. CASE AcceptVerdict \/ SaveNode("save") \/ SaveNode("implement")
    BY <2>2, <2>6 DEF AcceptVerdict, SaveNode
  <2>7. CASE EndWalk \/ ReadStatus \/ WriteStatus \/ TransitionFails
    BY <1>4, <2>2, <2>7 DEF EndWalk, ReadStatus, WriteStatus, TransitionFails
  <2> QED
    BY <1>5, <1>6, <1>7, <1>12, <2>3, <2>4, <2>5, <2>6, <2>7 DEF Pipeline
<1>13. ASSUME NEW e \in Epics, NEW saved \in Saves, PostSave(e, saved) PROVE Settled'
  BY <1>13, PostSaveSteps DEF Settled, NoneRunning, OnlyRunning
<1> QED
  BY <1>8, <1>9, <1>10, <1>11, <1>12, <1>13 DEF Next, Daemon, Others

-----------------------------------------------------------------------------
(* Shipping: an epic taken up is no draft and none becomes one, so that the *)
(* only status a walk may decide to write is 'shipped', and what it decided *)
(* by is still true when it writes.                                         *)

Shipping ==
    /\ \A e \in Epics : epicStatus[e] = "shipped" => Required \subseteq finished[e]
    /\ \A e \in Epics : e \in polled \/ e = cur => epicStatus[e] # "drafted"
    /\ pc = "writeStatus" => newStatus = "shipped" /\ Required \subseteq finished[cur]

(* One step, whoever takes it: what may become of the statuses.             *)
StatusKept ==
    \A e \in Epics :
        /\ epicStatus[e] = "shipped" =>
              epicStatus'[e] = "shipped" \/ (e = cur /\ epicStatus'[e] = "blocked")
        /\ epicStatus'[e] = "shipped" => epicStatus[e] = "shipped" \/ Required \subseteq finished'[e]
        /\ epicStatus'[e] = "drafted" => epicStatus[e] = "drafted"

LEMMA StatusStays == ASSUME TypeInv, Dispatched, Shipping, Next PROVE StatusKept
<1>0. \A e \in Epics : finished[e] \subseteq finished'[e]
  BY FinishedGrows
<1> USE NoEpicType DEF TypeInv, TypeOK, Frame, db, Goto, OnlyDb
<1>1. ASSUME UNCHANGED epicStatus PROVE StatusKept
  BY <1>1 DEF StatusKept
<1>2. ASSUME NEW e \in Epics, NEW s \in {"in_progress", "cancelled"}, epicStatus[e] # "shipped",
             epicStatus' = [epicStatus EXCEPT ![e] = s]
      PROVE  StatusKept
  BY <1>2 DEF StatusKept
<1>3. ASSUME cur \in Epics, epicStatus' = [epicStatus EXCEPT ![cur] = "blocked"] PROVE StatusKept
  BY <1>3 DEF StatusKept
<1>4. CASE DirtyTree \/ BlockEpic
  BY <1>1, <1>3, <1>4 DEF DirtyTree, BlockEpic
<1>5. CASE WriteStatus
  <2>1. cur \in Epics /\ epicStatus' = [epicStatus EXCEPT ![cur] = "shipped"] /\ Required \subseteq finished'[cur]
    BY <1>0, <1>5 DEF WriteStatus, Shipping
  <2> QED
    BY <2>1 DEF StatusKept
<1>6. CASE Operator
  BY <1>1, <1>2, <1>6
     DEF Operator, Decide, ApproveGate, RejectGate, StartEpic, CancelEpic, ReenableEpic
<1>7. ASSUME NEW e \in Epics, NEW saved \in Saves, PostSave(e, saved) PROVE StatusKept
  <2>1. PICK done \in SUBSET Nodes :
           /\ finished' = [finished EXCEPT ![e] = done]
           /\ \E status \in {epicStatus[e], NextStatus(epicStatus[e], done)} :
                 epicStatus' = [epicStatus EXCEPT ![e] = status]
    BY <1>7, PostSaveSteps
  <2>2. finished'[e] = done
    BY <2>1
  <2>3. CASE epicStatus' = [epicStatus EXCEPT ![e] = epicStatus[e]]
    BY <2>3 DEF StatusKept
  <2>4. CASE epicStatus' = [epicStatus EXCEPT ![e] = NextStatus(epicStatus[e], done)]
    <3>1. epicStatus[e] \in EpicStatuses
      OBVIOUS
    <3>2. \A f \in Epics : epicStatus'[f] = IF f = e THEN NextStatus(epicStatus[e], done) ELSE epicStatus[f]
      BY <2>4
    <3> QED
      BY <2>2, <3>1, <3>2, NextStatusIs DEF StatusKept
  <2> QED
    BY <2>1, <2>3, <2>4
<1>8. ASSUME ~DirtyTree, ~BlockEpic, ~WriteStatus, ~Operator, ~Others PROVE UNCHANGED epicStatus
  BY <1>8 DEF Next, Daemon, Scheduler, Pipeline, Poll, EndScan, Checkout,
       CheckoutRaises, SkipEpic, DispatchEpic, DispatchOk, DispatchFailed,
       BlockEpicRaises, Cooldown, Cleanup, Checkpoint, Prepare, PrepareRaises, PipelineRaises,
       SkipNode, SkipOptional, OpenGate, MarkGate, DeclineGate, StartNode, StartImplement,
       NodeFails, NodeCompletes, AcceptVerdict, Escalate, DeclineVerdict, ImplementFails,
       SaveNode, EndWalk, ReadStatus, TransitionFails, Restart, Crash, CooldownExpires
<1> QED
  BY <1>1, <1>4, <1>5, <1>6, <1>7, <1>8 DEF Others

LEMMA ShipSteps ==
    ASSUME TypeInv, Dispatched, Checkpointed, Walked, Shipping, Next PROVE Shipping'
<1>0. (\A e \in Epics : finished[e] \subseteq finished'[e]) /\ StatusKept
  BY FinishedGrows, StatusStays
<1> USE NoEpicType
    DEF TypeInv, TypeOK, Frame, db, scheduler, locals, Goto, DropLocals, OnlyDb
<1>1. \A e \in Epics : epicStatus'[e] = "shipped" => Required \subseteq finished'[e]
  BY <1>0 DEF StatusKept, Shipping
<1>2. ASSUME polled' \subseteq polled, cur' = cur \/ cur' = NoEpic
      PROVE  \A e \in Epics : e \in polled' \/ e = cur' => epicStatus'[e] # "drafted"
  BY <1>0, <1>2 DEF StatusKept, Shipping
<1>3. ASSUME polled' \subseteq polled, cur' = cur \/ cur' = NoEpic,
             pc' = "writeStatus" => pc = "writeStatus" /\ UNCHANGED <<cur, newStatus>>
      PROVE  Shipping'
  <2>1. pc' = "writeStatus" => cur \in Epics
    BY <1>3
  <2> QED
    BY <1>0, <1>1, <1>2, <1>3, <2>1 DEF Shipping
<1> HIDE DEF TypeInv, TypeOK, Frame
<1>4. CASE Scheduler
  <2>1. CASE Poll
    BY <1>1, <2>1 DEF Poll, Shipping, InProgress, TypeInv, TypeOK, Frame
  <2>2. ASSUME NEW e \in Epics, DispatchEpic(e) PROVE Shipping'
    BY <1>1, <2>2 DEF DispatchEpic, Foremost, Shipping
  <2>3. ASSUME NEW e \in Epics, SkipEpic(e) PROVE Shipping'
    BY <1>3, <2>3 DEF SkipEpic
  <2>4. CASE EndScan \/ Checkout \/ CheckoutRaises
    BY <1>3, <2>4 DEF EndScan, Checkout, CheckoutRaises
  <2>5. CASE DispatchOk \/ DispatchFailed
    BY <1>3, <2>5 DEF DispatchOk, DispatchFailed
  <2>6. CASE BlockEpic \/ BlockEpicRaises \/ Cooldown
    BY <1>3, <2>6 DEF BlockEpic, BlockEpicRaises, Cooldown
  <2> QED
    BY <1>4, <2>1, <2>2, <2>3, <2>4, <2>5, <2>6 DEF Scheduler
<1>5. CASE Pipeline
  <2>1. CASE ReadStatus
    <3>1. UNCHANGED <<polled, cur, finished, epicStatus>> /\ newStatus' = Derived(cur)
          /\ (pc' = "writeStatus" => Derived(cur) # epicStatus[cur])
          /\ pc = "readStatus"
      BY <2>1 DEF ReadStatus
    <3>2. cur \in Epics /\ epicStatus[cur] \in EpicStatuses /\ epicStatus[cur] # "drafted"
      BY <3>1 DEF TypeInv, TypeOK, Frame, Shipping
    <3>3. pc' = "writeStatus" => newStatus' = "shipped" /\ Required \subseteq finished'[cur']
      BY <3>1, <3>2, NextStatusIs DEF Derived
    <3> QED
      BY <1>1, <1>2, <3>1, <3>3 DEF Shipping
  <2>2. CASE Cleanup \/ Checkpoint \/ Prepare
    BY <1>3, <2>2 DEF Cleanup, Checkpoint, Prepare
  <2>3. CASE DirtyTree \/ PrepareRaises \/ PipelineRaises
    BY <1>3, <2>3 DEF DirtyTree, PrepareRaises, PipelineRaises
  <2>4. CASE SkipNode \/ SkipOptional
    BY <1>3, <2>4 DEF SkipNode, SkipOptional, Walking
  <2>5. CASE OpenGate \/ MarkGate \/ DeclineGate \/ StartNode \/ StartImplement
    BY <1>3, <2>5 DEF OpenGate, MarkGate, DeclineGate, StartNode, StartImplement, Walking, Ready
  <2>6. CASE NodeFails \/ NodeCompletes \/ ImplementFails
    BY <1>3, <2>6 DEF NodeFails, NodeCompletes, ImplementFails
  <2>7. CASE AcceptVerdict \/ Escalate \/ DeclineVerdict
    BY <1>3, <2>7 DEF AcceptVerdict, Escalate, DeclineVerdict
  <2>8. CASE SaveNode("save") \/ SaveNode("implement") \/ EndWalk
    BY <1>3, <2>8 DEF SaveNode, EndWalk
  <2>9. CASE WriteStatus \/ TransitionFails
    BY <1>3, <2>9 DEF WriteStatus, TransitionFails
  <2> QED
    BY <1>5, <2>1, <2>2, <2>3, <2>4, <2>5, <2>6, <2>7, <2>8, <2>9 DEF Pipeline
<1>6. CASE Operator
  BY <1>3, <1>6 DEF Operator, Decide, ApproveGate, RejectGate, StartEpic, CancelEpic, ReenableEpic
<1>7. CASE Restart \/ Crash
  BY <1>3, <1>7 DEF Restart, Crash
<1>8. ASSUME NEW e \in Epics, CooldownExpires(e) PROVE Shipping'
  BY <1>3, <1>8 DEF CooldownExpires
<1>9. ASSUME NEW e \in Epics, NEW saved \in Saves, PostSave(e, saved) PROVE Shipping'
  <2>1. UNCHANGED <<pc, polled, cur, newStatus>>
    BY <1>9, PostSaveSteps DEF TypeInv
  <2> QED
    BY <1>3, <2>1
<1> QED
  BY <1>4, <1>5, <1>6, <1>7, <1>8, <1>9 DEF Next, Daemon, Others

-----------------------------------------------------------------------------
(* The inductive invariant, and what follows from it.                       *)

LEMMA InitIInv == Init => IInv
<1> SUFFICES ASSUME Init PROVE IInv
  OBVIOUS
<1>1. TypeInv
  BY InitTypeInv
<1>2. Checkpointed /\ Dispatched /\ Walked /\ FreshGate /\ Settled
  BY DEF Init, Checkpointed, Dispatched, Walked, FreshGate, Settled
<1>3. OneOpenRun
  BY DEF Init, OneOpenRun
<1> QED
  BY <1>1, <1>2, <1>3 DEF IInv, TypeInv

LEMMA NextIInv == IInv /\ [Next]_vars => IInv'
<1> SUFFICES ASSUME IInv, [Next]_vars PROVE IInv'
  OBVIOUS
<1>1. CASE Next
  BY <1>1, NextTypeInv, NextCheckpointed, NextDispatched, NextWalked, NextFreshGate, NextSettled,
     NextOneOpenRun DEF IInv, TypeInv
<1>2. CASE UNCHANGED vars
  <2>1. UNCHANGED <<epicStatus, finished, runs, pc, runningEpics, failCounts, polled, cur, at,
                    completed, row, newStatus, gateMode, broken, cooling, budget>>
    BY <1>2 DEF vars, db, scheduler, locals
  <2>2. TypeInv'
    BY <1>2, StutterTypeInv DEF IInv, TypeInv
  <2>3. (Checkpointed /\ Dispatched /\ Walked /\ FreshGate)'
    BY <2>1 DEF IInv, Checkpointed, Dispatched, Walked, FreshGate, Node, Approved
  <2>4. (Settled /\ OneOpenRun)'
    BY <2>1 DEF IInv, Settled, OneOpenRun, NoneRunning, OnlyRunning
  <2> QED
    BY <2>2, <2>3, <2>4 DEF IInv, TypeInv
<1> QED
  BY <1>1, <1>2

(* The inductive invariant holds in every reachable state.                 *)
THEOREM Invariance == Spec => []IInv
BY InitIInv, NextIInv, PTL DEF Spec

(* Every reachable state of the daemon and the database is well-typed, for  *)
(* any number of epics, any pipeline and any number of faults.              *)
THEOREM TypeCorrect == Spec => []TypeOK
<1>1. IInv => TypeOK
  BY DEF IInv
<1> QED
  BY <1>1, Invariance, PTL

(* The walk reaches no node before the nodes it depends on are finished.    *)
THEOREM DependenciesHold == Spec => []DependenciesFirst
<1>1. IInv => DependenciesFirst
  BY NoEpicType DEF IInv, Dispatched, Checkpointed, Frame, TypeOK, DependenciesFirst
<1> QED
  BY <1>1, Invariance, PTL

(* In manual mode the walk runs no human-gated node without an approval of  *)
(* its own, however the daemon was interrupted since it was given.          *)
THEOREM GatesHold == Spec => []GateBeforeNode
<1>1. IInv => GateBeforeNode
  BY DEF IInv, Dispatched, GateBeforeNode
<1> QED
  BY <1>1, Invariance, PTL

(* A walk that comes to its end has left no node of the cycle unfinished.   *)
THEOREM WalksAreWhole == Spec => []WalkIsWhole
<1>1. IInv => WalkIsWhole
  <2> SUFFICES ASSUME IInv, pc \in {"readStatus", "writeStatus"} PROVE finished[cur] = Nodes
    BY DEF WalkIsWhole
  <2>1. cur \in Epics /\ completed \subseteq finished[cur] /\ finished[cur] \subseteq Nodes
    BY NoEpicType DEF IInv, Checkpointed, Frame, TypeOK
  <2>2. \A i \in 1..Len(Order) : Order[i] \in completed
    BY OrderType DEF IInv, Walked
  <2> QED
    BY <2>1, <2>2, OrderIsWhole
<1> QED
  BY <1>1, Invariance, PTL

(* At most one row of an epic is 'running', whatever crashed in between.    *)
THEOREM RunsAreSequential == Spec => []OneOpenRun
<1>1. IInv => OneOpenRun
  BY DEF IInv
<1> QED
  BY <1>1, Invariance, PTL

LEMMA InitShipping == Init => Shipping
BY NoEpicType DEF Init, Shipping

LEMMA NextShipping == IInv /\ Shipping /\ [Next]_vars => Shipping'
<1> SUFFICES ASSUME IInv, Shipping, [Next]_vars PROVE Shipping'
  OBVIOUS
<1>1. CASE Next
  BY <1>1, ShipSteps DEF IInv, TypeInv
<1>2. CASE UNCHANGED vars
  BY <1>2 DEF vars, db, scheduler, locals, Shipping
<1> QED
  BY <1>1, <1>2

THEOREM ShippingInvariance == Spec => [](IInv /\ Shipping)
BY InitIInv, NextIInv, InitShipping, NextShipping, PTL DEF Spec

(* An epic ships, by the walk or by a save, only when its required nodes    *)
(* are finished, and nothing takes it back, however old the poll or the     *)
(* decision it rests on, but the blocking of its own dispatch.              *)
THEOREM ShippedForGood == Spec => ShippedIsEarnedAndFinal
<1> DEFINE Kept == \A e \in Epics :
              /\ epicStatus[e] = "shipped" =>
                    epicStatus'[e] = "shipped" \/ (e = cur /\ epicStatus'[e] = "blocked")
              /\ epicStatus'[e] = "shipped" => Required \subseteq finished'[e]
<1>1. IInv /\ Shipping /\ [Next]_vars => [Kept]_vars
  <2> SUFFICES ASSUME IInv, Shipping, Next PROVE Kept
    OBVIOUS
  <2>1. StatusKept /\ \A e \in Epics : finished[e] \subseteq finished'[e]
    BY StatusStays, FinishedGrows DEF IInv, TypeInv
  <2> QED
    BY <2>1 DEF StatusKept, Shipping
<1> QED
  BY <1>1, ShippingInvariance, PTL DEF Spec, ShippedIsEarnedAndFinal

=============================================================================
