----------------------------- MODULE EpicPipeline -----------------------------
(***************************************************************************)
(* The easter daemon's dag_scheduler coroutine and the run_pipeline_async   *)
(* it awaits, over the shared database, with the operator who resolves     *)
(* gates and changes epics, the post_save.py of hooks, skills and people,  *)
(* which marks nodes done beside the pipeline, crashes of the daemon and   *)
(* its restart.                                                            *)
(*                                                                         *)
(* The scheduler is one coroutine: `pc` is the point where it can be       *)
(* interleaved with the other writers of the database, that is before each *)
(* commit and each await.  `runningEpics` and `failCounts` are the module  *)
(* variables _running_epics and _epic_fail_counts of easter.py; `polled`   *)
(* holds the epics of the last poll not yet looked at; `cur`, `at`,        *)
(* `completed` and `row` are the locals of run_pipeline_async.             *)
(***************************************************************************)
EXTENDS PipelineDb

CONSTANTS Priority,     \* Priority[e]: position of e in ORDER BY priority, rowid
          Order,        \* the nodes in topological order
          Depends,      \* Depends[n]: the nodes n depends on
          HumanGated,   \* nodes whose gate is in HUMAN_GATES
          Escalating,   \* nodes whose gate is auto-escalate
          Implementing, \* the node whose skill is speckit.implement
          Skippable,    \* optional nodes with a skip_condition
          Context,      \* the node epic-context, all that a draft has done
          Beforehand,   \* Beforehand[e]: what e may have finished when the daemon starts
          Saves,        \* what one post_save.py may find done: its node, backfilled ones
          GateModes,    \* the values MADRUGA_MODE may have
          MaxFails,     \* MAX_EPIC_DISPATCH_FAILURES
          Faults,       \* the exceptions the environment may raise
          Breakable,    \* the sets of epics whose repositories can never be prepared
          Budget,       \* bound: adverse events and saves of others in a behaviour
          NoEpic

ASSUME PriorityType  == Priority \in [Epics -> Nat]
ASSUME OrderType     == Order \in Seq(Nodes)
ASSUME DependsType   == Depends \in [Nodes -> SUBSET Nodes]
ASSUME NodeKinds     == HumanGated \cup Escalating \cup Implementing \cup Skippable \subseteq Nodes
ASSUME OrderIsWhole  == Nodes = {Order[i] : i \in 1..Len(Order)}
ASSUME OrderIsTopological ==
    \A i \in 1..Len(Order) : Depends[Order[i]] \subseteq {Order[j] : j \in 1..(i - 1)}
ASSUME SavesType     == Beforehand \in [Epics -> SUBSET SUBSET Nodes] /\ Saves \subseteq SUBSET Nodes
ASSUME ModesType     == GateModes \subseteq {"manual", "auto", "interactive"}
ASSUME BreakableType == Breakable \subseteq SUBSET Epics
ASSUME BoundsType    == MaxFails \in Nat \ {0} /\ Budget \in Nat
ASSUME NoEpicType    == NoEpic \notin Epics

VARIABLES epicStatus, finished, runs,              \* the database
          pc, runningEpics, failCounts, polled,    \* dag_scheduler
          cur, at, completed, row, newStatus,      \* run_pipeline_async
          gateMode,     \* the environment variable MADRUGA_MODE of the daemon
          broken,       \* the epics whose repositories can never be prepared
          cooling,      \* epics whose last failed run hit a rate limit under 600 s ago
          budget        \* adverse events left

db        == <<epicStatus, finished, runs>>
scheduler == <<runningEpics, failCounts, polled>>
locals    == <<cur, at, completed, row, newStatus>>
vars      == <<db, pc, scheduler, locals, gateMode, broken, cooling, budget>>

PCs == {"down", "poll", "scan", "checkout", "cleanup", "checkpoint", "prepare", "walk",
        "gate", "dispatch", "implement", "verdict", "save", "readStatus", "writeStatus",
        "ok", "failed", "cooldown"}

TypeOK ==
    /\ epicStatus \in [Epics -> EpicStatuses]
    /\ finished \in [Epics -> SUBSET Nodes]
    /\ runs \in Seq(Run)
    /\ pc \in PCs
    /\ runningEpics \subseteq Epics
    /\ failCounts \in [Epics -> 0..MaxFails]
    /\ polled \subseteq Epics
    /\ cur \in Epics \cup {NoEpic}
    /\ at \in 1..(Len(Order) + 1)
    /\ completed \subseteq Nodes
    /\ row \in 0..Len(runs)
    /\ newStatus \in EpicStatuses
    /\ gateMode \in GateModes
    /\ broken \in Breakable
    /\ cooling \subseteq Epics
    /\ budget \in 0..Budget

Init ==
    /\ epicStatus \in [Epics -> {"drafted", "in_progress"}]
    /\ finished \in [Epics -> SUBSET Nodes] /\ \A e \in Epics : finished[e] \in Beforehand[e]
    /\ runs = << >>
    /\ pc = "poll"
    /\ runningEpics = {}
    /\ failCounts = [e \in Epics |-> 0]
    /\ polled = {}
    /\ cur = NoEpic /\ at = 1 /\ completed = {} /\ row = 0 /\ newStatus = "drafted"
    /\ gateMode \in GateModes
    /\ broken \in Breakable
    /\ cooling = {}
    /\ budget = Budget

Goto(here, there) == pc = here /\ pc' = there

(* The frame of run_pipeline_async is gone.                                *)
DropLocals ==
    /\ cur' = NoEpic /\ at' = 1 /\ completed' = {} /\ row' = 0 /\ newStatus' = "drafted"

Adverse == budget > 0 /\ budget' = budget - 1

(* A dispatch that has failed may go on failing: the cause stays.          *)
DispatchFails ==
    /\ failCounts[cur] = 0 => Adverse
    /\ failCounts[cur] # 0 => UNCHANGED budget

-----------------------------------------------------------------------------
(* dag_scheduler: poll and choose                                           *)

InProgress == {e \in Epics : epicStatus[e] = "in_progress"}

(* One turn of the loop: skipped while _running_epics is not empty; the    *)
(* periodic sweep may come first and fail any open row that is old enough. *)
Poll ==
    /\ Goto("poll", "scan")
    /\ runningEpics = {}
    /\ \E old \in SUBSET OpenRuns(runs) :
          /\ runs' = SweepZombies(runs, old)
          /\ cooling' = cooling \ {runs[r].epic : r \in old}
    /\ polled' = InProgress
    /\ UNCHANGED <<gateMode, broken, epicStatus, finished, runningEpics, failCounts, locals, budget>>

(* The epic at the head of the rows still to be looked at.                 *)
Foremost(e) == e \in polled /\ \A f \in polled : Priority[e] <= Priority[f]

(* A pending gate, or the rate limit cool-down, makes the loop `continue`. *)
SkipEpic(e) ==
    /\ pc = "scan" /\ Foremost(e)
    /\ PendingGates(runs, e) # {} \/ e \in cooling
    /\ polled' = polled \ {e}
    /\ UNCHANGED <<gateMode, broken, db, pc, runningEpics, failCounts, locals, cooling, budget>>

DispatchEpic(e) ==
    /\ Goto("scan", "checkout") /\ Foremost(e)
    /\ PendingGates(runs, e) = {} /\ e \notin cooling
    /\ runningEpics' = runningEpics \cup {e}
    /\ polled' = polled \ {e}
    /\ cur' = e
    /\ UNCHANGED <<gateMode, broken, db, failCounts, at, completed, row, newStatus, cooling, budget>>

EndScan ==
    /\ Goto("scan", "poll") /\ polled = {}
    /\ UNCHANGED <<gateMode, broken, db, scheduler, locals, cooling, budget>>

(* The proactive `git checkout` of the epic's branch; its failure is only  *)
(* logged.                                                                 *)
Checkout ==
    /\ Goto("checkout", "cleanup")
    /\ UNCHANGED <<gateMode, broken, db, scheduler, locals, cooling, budget>>

(* It may also raise (TimeoutExpired): this is before the `try` whose      *)
(* `finally` discards the epic from _running_epics.                        *)
CheckoutRaises ==
    /\ "checkout" \in Faults /\ Adverse
    /\ Goto("checkout", "poll")
    /\ polled' = {} /\ DropLocals
    /\ UNCHANGED <<gateMode, broken, db, runningEpics, failCounts, cooling>>

-----------------------------------------------------------------------------
(* run_pipeline_async(resume=True): resume                                  *)

Cleanup ==
    /\ Goto("cleanup", "checkpoint")
    /\ runs' = CloseStaleRuns(runs, cur, finished[cur])
    /\ UNCHANGED <<gateMode, broken, epicStatus, finished, scheduler, locals, cooling, budget>>

(* Mutant: an approved gate counts as a finished node.                     *)
ResumableApproved(e) == finished[e] \cup {n \in Nodes : Approved(runs, e, n)}

(* get_resumable_nodes *)
Resumable(e) == finished[e]

(* A pending gate of an unfinished node makes the pipeline return 0.       *)
GateAwaited == \E r \in PendingGates(runs, cur) : runs[r].node \notin Resumable(cur)

Checkpoint ==
    /\ pc = "checkpoint"
    /\ pc' = IF GateAwaited THEN "ok" ELSE "prepare"
    /\ completed' = Resumable(cur)
    /\ at' = 1
    /\ UNCHANGED <<gateMode, broken, db, scheduler, cur, row, newStatus, cooling, budget>>

(* _resolve_code_dir clones the repository and checks the branch out.      *)
Prepare ==
    /\ Goto("prepare", "walk") /\ cur \notin broken
    /\ UNCHANGED <<gateMode, broken, db, scheduler, locals, cooling, budget>>

(* DirtyTreeError: the epic is blocked at once and its streak forgotten; a *)
(* failure to write 'blocked' is only logged.                              *)
DirtyTree ==
    /\ Goto("prepare", "scan") /\ cur \notin broken /\ Adverse
    /\ \/ epicStatus' = [epicStatus EXCEPT ![cur] = "blocked"]
       \/ "block" \in Faults /\ UNCHANGED epicStatus
    /\ failCounts' = [failCounts EXCEPT ![cur] = 0]
    /\ runningEpics' = runningEpics \ {cur} /\ DropLocals
    /\ UNCHANGED <<gateMode, broken, finished, runs, polled, cooling>>

(* Any other exception, such as git fetch failing, leaves the loop over    *)
(* the polled epics for the handler of dag_scheduler, which counts nothing. *)
PrepareRaises ==
    /\ Goto("prepare", "poll")
    /\ \/ cur \in broken /\ UNCHANGED budget
       \/ "prepare" \in Faults /\ Adverse
    /\ runningEpics' = runningEpics \ {cur}
    /\ polled' = {} /\ DropLocals
    /\ UNCHANGED <<gateMode, broken, db, failCounts, cooling>>

(* So does a statement of the pipeline that raises (a locked database, a   *)
(* full disk): the rows written before it stay as they are.                *)
PipelineRaises ==
    /\ "database" \in Faults /\ Adverse
    /\ pc \in {"cleanup", "checkpoint", "walk", "gate", "dispatch", "implement", "verdict", "save"}
    /\ pc' = "poll"
    /\ runningEpics' = runningEpics \ {cur}
    /\ polled' = {} /\ DropLocals
    /\ UNCHANGED <<gateMode, broken, db, failCounts, cooling>>

-----------------------------------------------------------------------------
(* run_pipeline_async: the walk over the ordered nodes                      *)

Node == Order[at]
Walking == pc = "walk" /\ at <= Len(Order)
Ready == Walking /\ Node \notin completed /\ Node \notin Skippable /\ Depends[Node] \subseteq completed

MissingDeps == Node \notin Skippable /\ ~(Depends[Node] \subseteq completed)

SkipNode ==
    /\ Walking /\ (Node \in completed \/ MissingDeps)
    /\ at' = at + 1
    /\ UNCHANGED <<gateMode, broken, db, pc, scheduler, cur, completed, row, newStatus, cooling, budget>>

(* An optional node with a skip_condition is recorded before its           *)
(* dependencies are looked at.                                             *)
SkipOptional ==
    /\ Walking /\ Node \notin completed /\ Node \in Skippable
    /\ finished' = [finished EXCEPT ![cur] = @ \cup {Node}]
    /\ completed' = completed \cup {Node}
    /\ at' = at + 1
    /\ UNCHANGED <<gateMode, broken, epicStatus, runs, pc, scheduler, cur, row, newStatus, cooling, budget>>

(* Mutant: a rejected gate counts as answered.                             *)
NeedsHumanAnswer ==
    /\ gateMode = "manual" /\ Node \in HumanGated
    /\ ~\E r \in DOMAIN runs : /\ runs[r].epic = cur /\ runs[r].node = Node
                               /\ runs[r].gate \in {"approved", "rejected"}

NeedsHuman == gateMode = "manual" /\ Node \in HumanGated /\ ~Approved(runs, cur, Node)

(* A gate not yet approved: the row is inserted in one commit ...          *)
OpenGate ==
    /\ Ready /\ NeedsHuman
    /\ pc' = "gate"
    /\ runs' = InsertRun(runs, cur, Node)
    /\ row' = Len(runs) + 1
    /\ UNCHANGED <<gateMode, broken, epicStatus, finished, scheduler, cur, at, completed, newStatus, cooling, budget>>

(* ... and becomes a waiting gate in the next; the pipeline returns 0.     *)
MarkGate ==
    /\ Goto("gate", "ok")
    /\ runs' = SetGate(runs, row, "waiting_approval")
    /\ UNCHANGED <<gateMode, broken, epicStatus, finished, scheduler, locals, cooling, budget>>

(* input() at the terminal answered with anything but "y" returns 0.       *)
DeclineGate ==
    /\ Ready /\ gateMode = "interactive" /\ Node \in HumanGated /\ Adverse
    /\ pc' = "ok"
    /\ UNCHANGED <<gateMode, broken, db, scheduler, locals, cooling>>

StartNode ==
    /\ Ready /\ ~NeedsHuman /\ Node \notin Implementing
    /\ pc' = "dispatch"
    /\ runs' = InsertRun(runs, cur, Node)
    /\ row' = Len(runs) + 1
    /\ UNCHANGED <<gateMode, broken, epicStatus, finished, scheduler, cur, at, completed, newStatus, cooling, budget>>

(* speckit.implement records its own rows (run_implement_tasks).           *)
StartImplement ==
    /\ Ready /\ ~NeedsHuman /\ Node \in Implementing
    /\ pc' = "implement"
    /\ UNCHANGED <<gateMode, broken, db, scheduler, locals, cooling, budget>>

(* Mutant: the pipeline goes on past a node that failed.                   *)
NodeFailsAndGoesOn ==
    /\ Goto("dispatch", "walk") /\ DispatchFails
    /\ runs' = CompleteRun(runs, row, "failed")
    /\ cooling' \in {cooling \cup {cur}, cooling \ {cur}}
    /\ at' = at + 1
    /\ UNCHANGED <<gateMode, broken, epicStatus, finished, scheduler, cur, completed, row, newStatus>>

(* Retries exhausted, the breaker open, the epic's status changed, or an   *)
(* output missing: the row is failed and the pipeline returns 1.           *)
NodeFails ==
    /\ Goto("dispatch", "failed") /\ DispatchFails
    /\ runs' = CompleteRun(runs, row, "failed")
    /\ cooling' \in {cooling \cup {cur}, cooling \ {cur}}
    /\ UNCHANGED <<gateMode, broken, epicStatus, finished, scheduler, locals>>

NodeCompletes ==
    /\ Goto("dispatch", "verdict")
    /\ runs' = CompleteRun(runs, row, "completed")
    /\ UNCHANGED <<gateMode, broken, epicStatus, finished, scheduler, locals, cooling, budget>>

(* _handle_auto_escalate: the report passes, cannot be read, or the mode   *)
(* proceeds anyway.                                                        *)
AcceptVerdict ==
    /\ Goto("verdict", "save")
    /\ UNCHANGED <<gateMode, broken, db, scheduler, locals, cooling, budget>>

(* A failing report in manual mode opens a gate of the node just completed. *)
Escalate ==
    /\ Goto("verdict", "gate") /\ gateMode = "manual" /\ Node \in Escalating /\ Adverse
    /\ runs' = InsertRun(runs, cur, Node)
    /\ row' = Len(runs) + 1
    /\ UNCHANGED <<gateMode, broken, epicStatus, finished, scheduler, cur, at, completed, newStatus, cooling>>

(* A failing report in interactive mode, not confirmed, returns 0.         *)
DeclineVerdict ==
    /\ Goto("verdict", "ok") /\ gateMode = "interactive" /\ Node \in Escalating /\ Adverse
    /\ UNCHANGED <<gateMode, broken, db, scheduler, locals, cooling>>

ImplementFails ==
    /\ Goto("implement", "failed") /\ DispatchFails
    /\ cooling' \in {cooling \cup {cur}, cooling \ {cur}}
    /\ UNCHANGED <<gateMode, broken, db, scheduler, locals>>

SaveNode(here) ==
    /\ Goto(here, "walk")
    /\ finished' = [finished EXCEPT ![cur] = @ \cup {Node}]
    /\ completed' = completed \cup {Node}
    /\ at' = at + 1
    /\ UNCHANGED <<gateMode, broken, epicStatus, runs, scheduler, cur, row, newStatus, cooling, budget>>

EndWalk ==
    /\ Goto("walk", "readStatus") /\ at > Len(Order)
    /\ UNCHANGED <<gateMode, broken, db, scheduler, locals, cooling, budget>>

(* compute_epic_status: what the finished nodes make of an epic's status.  *)
Required == Nodes \ Skippable

NextStatus(status, done) ==
    IF status \notin {"drafted", "in_progress"} \/ (status = "drafted" /\ done \subseteq {Context})
    THEN status
    ELSE IF Required # {} /\ Required \subseteq done THEN "shipped" ELSE "in_progress"

(* Mutant: a skipped optional node keeps the epic from shipping.           *)
DerivedExactly(e) ==
    IF epicStatus[e] = "in_progress" /\ Required = finished[e] THEN "shipped" ELSE epicStatus[e]

(* _transition_epic_status reads the epic and computes its next status ... *)
Derived(e) == NextStatus(epicStatus[e], finished[e])

ReadStatus ==
    /\ pc = "readStatus"
    /\ pc' = IF Derived(cur) # epicStatus[cur] THEN "writeStatus" ELSE "ok"
    /\ newStatus' = Derived(cur)
    /\ UNCHANGED <<gateMode, broken, db, scheduler, cur, at, completed, row, cooling, budget>>

(* ... and upsert_epic then overwrites whatever the row holds.             *)
WriteStatus ==
    /\ Goto("writeStatus", "ok")
    /\ epicStatus' = [epicStatus EXCEPT ![cur] = newStatus]
    /\ UNCHANGED <<gateMode, broken, finished, runs, scheduler, locals, cooling, budget>>

(* An exception in between is only logged at debug level: the pipeline     *)
(* returns 0 and the epic stays in progress until a later walk.            *)
TransitionFails ==
    /\ "database" \in Faults /\ Adverse
    /\ pc \in {"readStatus", "writeStatus"} /\ pc' = "ok"
    /\ UNCHANGED <<gateMode, broken, db, scheduler, locals, cooling>>

-----------------------------------------------------------------------------
(* dag_scheduler: the result of a dispatch                                  *)

DispatchOk ==
    /\ Goto("ok", "scan")
    /\ failCounts' = [failCounts EXCEPT ![cur] = 0]
    /\ runningEpics' = runningEpics \ {cur} /\ DropLocals
    /\ UNCHANGED <<gateMode, broken, db, polled, cooling, budget>>

(* Mutant: the streak may grow past its limit.                             *)
LastOfStreakLate == failCounts[cur] > MaxFails

(* Exit code 1 is counted ...                                              *)
LastOfStreak == failCounts[cur] + 1 >= MaxFails

DispatchFailed ==
    /\ Goto("failed", "cooldown") /\ ~LastOfStreak
    /\ failCounts' = [failCounts EXCEPT ![cur] = @ + 1]
    /\ UNCHANGED <<gateMode, broken, db, runningEpics, polled, locals, cooling, budget>>

(* ... and the last of the streak blocks the epic.                         *)
BlockEpic ==
    /\ Goto("failed", "cooldown") /\ LastOfStreak
    /\ epicStatus' = [epicStatus EXCEPT ![cur] = "blocked"]
    /\ failCounts' = [failCounts EXCEPT ![cur] = 0]
    /\ UNCHANGED <<gateMode, broken, finished, runs, runningEpics, polled, locals, cooling, budget>>

(* When the write raises (a locked database), the streak is kept; the      *)
(* model stops counting at MaxFails, where every comparison is decided.    *)
BlockEpicRaises ==
    /\ "block" \in Faults /\ Adverse
    /\ Goto("failed", "cooldown") /\ LastOfStreak
    /\ failCounts' = [failCounts EXCEPT ![cur] = MaxFails]
    /\ UNCHANGED <<gateMode, broken, db, runningEpics, polled, locals, cooling>>

(* The interruptible sleep of two poll intervals, then `finally`.          *)
Cooldown ==
    /\ Goto("cooldown", "scan")
    /\ runningEpics' = runningEpics \ {cur} /\ DropLocals
    /\ UNCHANGED <<gateMode, broken, db, failCounts, polled, cooling, budget>>

CooldownExpires(e) ==
    /\ e \in cooling
    /\ cooling' = cooling \ {e}
    /\ UNCHANGED <<gateMode, broken, db, pc, scheduler, locals, budget>>

-----------------------------------------------------------------------------
(* The operator, and the daemon's crash and restart                         *)

OnlyDb == UNCHANGED <<gateMode, broken, pc, scheduler, locals, cooling>>

ApproveGate(r) ==
    /\ CanResolve(runs, r)
    /\ runs' = SetGate(runs, r, "approved")
    /\ OnlyDb /\ UNCHANGED <<epicStatus, finished, budget>>

RejectGate(r) ==
    /\ CanResolve(runs, r) /\ Adverse
    /\ runs' = SetGate(runs, r, "rejected")
    /\ OnlyDb /\ UNCHANGED <<epicStatus, finished>>

(* Mutant: any epic that is not in progress can be started.                *)
StartEpicAnew(e) ==
    /\ epicStatus[e] # "in_progress" /\ InProgress = {}
    /\ epicStatus' = [epicStatus EXCEPT ![e] = "in_progress"]
    /\ OnlyDb /\ UNCHANGED <<finished, runs, budget>>

(* The portal's Start button: only a drafted epic, and only when no other  *)
(* epic of the platform is in progress.                                    *)
StartEpic(e) ==
    /\ epicStatus[e] = "drafted" /\ InProgress = {}
    /\ epicStatus' = [epicStatus EXCEPT ![e] = "in_progress"]
    /\ OnlyDb /\ UNCHANGED <<finished, runs, budget>>

(* An operator cancels an epic (post_save --epic-status or a reseed), or   *)
(* puts a blocked one back as the alert tells him to.  Other statuses he   *)
(* may write by hand are in EpicStatus.                                    *)
CancelEpic(e) ==
    /\ epicStatus[e] = "in_progress" /\ Adverse
    /\ epicStatus' = [epicStatus EXCEPT ![e] = "cancelled"]
    /\ OnlyDb /\ UNCHANGED <<finished, runs>>

ReenableEpic(e) ==
    /\ epicStatus[e] = "blocked" /\ Adverse
    /\ epicStatus' = [epicStatus EXCEPT ![e] = "in_progress"]
    /\ OnlyDb /\ UNCHANGED <<finished, runs>>

(* post_save.py: the PostToolUse hook of a claude at work, a skill's own   *)
(* call, or a person's.  In one transaction it marks done the node whose   *)
(* artifact was saved and every node whose outputs it finds on disk; on a  *)
(* shipped epic it records the missing ones as skipped.  The status then   *)
(* follows, unless giving the epic its branch name writes the one it had   *)
(* read back.  An explicit --epic-status is the operator's, see above.     *)
PostSave(e, saved) ==
    /\ Adverse
    /\ \E rest \in {{}, IF epicStatus[e] = "shipped" THEN Nodes ELSE {}} :
          LET done == finished[e] \cup saved \cup rest
          IN  /\ finished' = [finished EXCEPT ![e] = done]
              /\ \E status \in {epicStatus[e], NextStatus(epicStatus[e], done)} :
                    epicStatus' = [epicStatus EXCEPT ![e] = status]
    /\ OnlyDb /\ UNCHANGED runs

(* SIGKILL: the memory of the daemon is lost, the database is not.         *)
Crash ==
    /\ pc # "down" /\ Adverse
    /\ pc' = "down"
    /\ runningEpics' = {} /\ polled' = {}
    /\ failCounts' = [e \in Epics |-> 0]
    /\ DropLocals
    /\ UNCHANGED <<gateMode, broken, db, cooling>>

(* lifespan: the start-up sweep, then the scheduler starts to poll.        *)
Restart ==
    /\ Goto("down", "poll")
    /\ \E old \in SUBSET OpenRuns(runs) :
          /\ runs' = SweepZombies(runs, old)
          /\ cooling' = cooling \ {runs[r].epic : r \in old}
    /\ UNCHANGED <<gateMode, broken, epicStatus, finished, scheduler, locals, budget>>

-----------------------------------------------------------------------------
Scheduler ==
    \/ Poll \/ EndScan \/ Checkout \/ CheckoutRaises
    \/ \E e \in Epics : SkipEpic(e) \/ DispatchEpic(e)
    \/ DispatchOk \/ DispatchFailed \/ BlockEpic \/ BlockEpicRaises \/ Cooldown

Pipeline ==
    \/ Cleanup \/ Checkpoint \/ Prepare \/ DirtyTree \/ PrepareRaises \/ PipelineRaises
    \/ SkipNode \/ SkipOptional \/ OpenGate \/ MarkGate \/ DeclineGate
    \/ StartNode \/ StartImplement \/ NodeFails \/ NodeCompletes
    \/ AcceptVerdict \/ Escalate \/ DeclineVerdict
    \/ ImplementFails \/ SaveNode("save") \/ SaveNode("implement")
    \/ EndWalk \/ ReadStatus \/ WriteStatus \/ TransitionFails

Daemon == Scheduler \/ Pipeline \/ Restart

Decide == \E r \in DOMAIN runs : ApproveGate(r) \/ RejectGate(r)

Operator ==
    \/ Decide
    \/ \E e \in Epics : StartEpic(e) \/ CancelEpic(e) \/ ReenableEpic(e)

Others == \E e \in Epics, saved \in Saves : PostSave(e, saved)

Next == Daemon \/ Operator \/ Others \/ Crash \/ \E e \in Epics : CooldownExpires(e)

Spec == Init /\ [][Next]_vars

(* The event loop keeps running the daemon, which systemd restarts, and    *)
(* claude is killed at its timeout; a sleep ends; the operator decides a   *)
(* gate he was asked about.                                                *)
Fairness ==
    /\ WF_vars(Daemon)
    /\ WF_vars(Decide)
    /\ WF_vars(\E e \in Epics : CooldownExpires(e))

FairSpec == Spec /\ Fairness

-----------------------------------------------------------------------------
(* Properties                                                               *)

InDispatch == pc \notin {"down", "poll", "scan"}

(* _running_epics holds exactly the epic whose pipeline is being awaited:  *)
(* the loop skips its polls (easter.py, N5) only while an epic really runs, *)
(* and never runs two.                                                     *)
RunningIsReal == runningEpics = IF InDispatch THEN {cur} ELSE {}

(* The walk asks for a node's gate, runs it and saves it only when every   *)
(* node it depends on is finished in the database, whatever crashes,       *)
(* resumes, saves by others and approvals of other gates came between.     *)
DependenciesFirst ==
    pc \in {"gate", "dispatch", "implement", "verdict", "save"} => Depends[Node] \subseteq finished[cur]

(* In manual mode the walk runs a human-gated node, and saves it, only     *)
(* after a gate of that very node and epic was approved, by whichever      *)
(* dispatch it was opened.                                                 *)
GateBeforeNode ==
    gateMode = "manual" /\ pc \in {"dispatch", "implement", "verdict", "save"} /\ Node \in HumanGated
        => Approved(runs, cur, Node)

(* An epic never has two rows shown as 'running': each resume closes the   *)
(* rows a crash, a resolved gate or a failure left open before it inserts  *)
(* another.                                                                *)
OneOpenRun ==
    \A r, s \in DOMAIN runs :
        runs[r].status = "running" /\ runs[s].status = "running" /\ runs[r].epic = runs[s].epic
            => r = s

(* A walk that comes to its end, and so may report success and ship the    *)
(* epic, leaves no node of the cycle unfinished: none was passed over for  *)
(* a missing dependency, a failure or a gate.                              *)
WalkIsWhole == pc \in {"readStatus", "writeStatus"} => finished[cur] = Nodes

(* An epic becomes 'shipped', by the walk or by a save, only when all its  *)
(* required nodes are finished, and no stale poll or decision takes it     *)
(* back: only a failure of its own dispatch can, for a save may ship it    *)
(* while that goes on and the daemon blocks what fails without a look.     *)
ShippedIsEarnedAndFinal ==
    [][\A e \in Epics :
          /\ epicStatus[e] = "shipped" =>
                epicStatus'[e] = "shipped" \/ (e = cur /\ epicStatus'[e] = "blocked")
          /\ epicStatus'[e] = "shipped" => Required \subseteq finished'[e]]_vars

(* What the code gives no answer to: a scheduler wedged by an exception of  *)
(* the checkout, and an epic of the same or a higher priority whose         *)
(* repository can never be prepared.                                       *)
Unhindered(e) == RunningIsReal /\ \A b \in broken : Priority[b] > Priority[e]

(* When the faults and the operator's changes of mind have come to an end, *)
(* every epic in progress has ended: its nodes all run, or its failures    *)
(* block it, or the operator cancelled it; an approved gate is acted on,   *)
(* lower priority does not starve, nor does a broken epic of lower one.    *)
EpicsEnd ==
    <>[](\A e \in Epics : epicStatus[e] = "in_progress" => ~Unhindered(e))

=============================================================================
