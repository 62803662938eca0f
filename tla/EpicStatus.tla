------------------------------ MODULE EpicStatus ------------------------------
(***************************************************************************)
(* The writers of an epic's status: post_save (called by a skill, or by    *)
(* the hook of every file claude writes), the reseed from the files, the   *)
(* pipeline that saves nodes and ships, the scheduler that blocks and the  *)
(* operator who starts.  The row of an epic and its nodes are one record;  *)
(* a transaction of the code is one action.                                *)
(*                                                                         *)
(* `disk` has what the epic's directory holds, `pitch` the front matter of *)
(* its pitch.md, which only the reseed reads and only post_save writes.    *)
(* Dates are the numbers of days; 0 is NULL.                               *)
(***************************************************************************)
EXTENDS Naturals, FiniteSets

CONSTANTS Epics, NoEpic,
          Nodes, Required,   \* of the epic cycle, in the order of First
          First(_),          \* the node of a set that comes first
          Context,           \* the node epic-context
          Files, Output,     \* the file a node writes
          Templated,         \* the files that start as a template of speckit
          Garbled,           \* bound: the files that may be left invalid
          Planned,           \* the statuses of the first pitches
          Overrides,         \* bound: the statuses given with --epic-status
          Hooks,             \* bound: saves of hooks that wait
          Days,              \* bound: the last day
          Budget             \* bound: overrides, edits, checkouts, failures, deaths

Statuses   == {"proposed", "drafted", "queued", "in_progress", "shipped", "blocked", "cancelled"}
Fronts     == Statuses \ {"queued"}     \* what a front matter may say
Contents   == {"none", "template", "garbage", "filled"}

ASSUME EpicsType == NoEpic \notin Epics
ASSUME NodesType == Context \in Nodes /\ Required \subseteq Nodes /\ Output \in [Nodes -> Files]
ASSUME RequiredType == ~(Required \subseteq {Context})
ASSUME FilesType == Templated \subseteq Files /\ Garbled \subseteq Files
ASSUME FirstType == \A ns \in SUBSET Nodes : ns # {} => First(ns) \in ns
ASSUME PlannedType == Planned \subseteq {"proposed", "drafted", "in_progress"}
ASSUME OverridesType == Overrides \subseteq Statuses
ASSUME BoundsType == Days \in Nat \ {0} /\ {Hooks, Budget} \subseteq Nat

VARIABLES epics,     \* the rows of epics and epic_nodes
          pitch,     \* the front matter of each pitch.md
          disk,      \* the files: missing, an unfilled template, invalid, filled
          hooks,     \* saves that hooks detected and have not done yet
          announced, \* the date a save has to write into pitch.md
          running,   \* the epic the pipeline walks
          decided,   \* the status its last step is about to write
          day, budget

vars == <<epics, pitch, disk, hooks, announced, running, decided, day, budget>>

Dates      == 0..Days
NodeStates == {"absent", "pending", "done", "skipped"}

Row == [status : Statuses \cup {"absent"}, delivered : Dates, branch : BOOLEAN,
        nodes : [Nodes -> NodeStates],
        skilled : SUBSET Nodes]     \* nodes whose completed_by is a skill's

TypeOK ==
    /\ epics \in [Epics -> Row]
    /\ \A e \in Epics : epics[e].status = "absent" => \A n \in Nodes : epics[e].nodes[n] = "absent"
    /\ pitch \in [Epics -> [status : Fronts, delivered : Dates]]
    /\ disk \in [Epics -> [Files -> Contents]]
    /\ hooks \subseteq Epics \X Nodes
    /\ announced \in [Epics -> Dates]
    /\ running \in Epics \cup {NoEpic} /\ (running # NoEpic => epics[running].status # "absent")
    /\ decided \in Statuses \cup {"none"} /\ (decided # "none" => running # NoEpic)
    /\ day \in 1..Days /\ budget \in 0..Budget

Absent == [status |-> "absent", delivered |-> 0, branch |-> FALSE,
           nodes |-> [n \in Nodes |-> "absent"], skilled |-> {}]

OnlyPitch == [f \in Files |-> IF f = Output[Context] THEN "filled" ELSE "none"]

Init ==
    /\ epics = [e \in Epics |-> Absent]
    /\ pitch \in [Epics -> [status : Planned, delivered : {0}]]
    /\ disk = [e \in Epics |-> OnlyPitch]
    /\ hooks = {} /\ announced = [e \in Epics |-> 0]
    /\ running = NoEpic /\ decided = "none"
    /\ day = 1 /\ budget = Budget

Adverse == budget > 0 /\ budget' = budget - 1

-----------------------------------------------------------------------------
(* The rows                                                                 *)

CompletedOf(row) == {n \in Nodes : row.nodes[n] \in {"done", "skipped"}}

(* Mutant: epic-context is work enough to start a draft.                   *)
DerivedFromDraft(status, completed) ==
    IF status \in {"blocked", "cancelled", "shipped"} THEN status
    ELSE IF Required # {} /\ Required \subseteq completed THEN "shipped"
    ELSE IF status \in {"drafted", "proposed"} /\ completed # {} THEN "in_progress" ELSE status

(* compute_epic_status *)
Derived(status, completed) ==
    IF status \in {"blocked", "cancelled", "shipped"} THEN status
    ELSE IF Required # {} /\ Required \subseteq completed
            /\ (status = "drafted" => ~(completed \subseteq {Context})) THEN "shipped"
    ELSE IF \/ status = "drafted" /\ ~(completed \subseteq {Context})
            \/ status = "proposed" /\ completed # {} THEN "in_progress"
    ELSE status

(* The status a row derives on a day, with the date it is delivered.       *)
Progressed(row, today) ==
    LET new == Derived(row.status, CompletedOf(row))
    IN  [row EXCEPT !.status = new,
                    !.delivered = IF new = "shipped" /\ row.status # "shipped" THEN today ELSE @]

(* _is_valid_output, of a file that exists; a template has headings too.   *)
Valid(content) == content \in {"template", "filled"}

(* Mutant: a file that has gone takes its node back.                       *)
WithFilesOnly(row, files) ==
    [row EXCEPT !.nodes = [n \in Nodes |-> IF Valid(files[Output[n]]) THEN "done" ELSE "pending"]]

(* seed_epic_nodes_from_disk: a file that is valid makes every node that   *)
(* writes it done.                                                         *)
WithNodesOf(row, files) ==
    [row EXCEPT !.nodes =
        [n \in Nodes |->
            IF Valid(files[Output[n]]) THEN "done"
            ELSE IF row.nodes[n] # "absent" THEN row.nodes[n]
            ELSE IF row.status = "shipped" THEN "skipped" ELSE "pending"]]

(* Mutants: the status is derived before the nodes; it is only read.       *)
SeedStatusFirst(row, front, files, today) ==
    LET status == IF row.status = "shipped" /\ front.status = "proposed"
                  THEN "shipped" ELSE front.status
    IN  WithNodesOf(Progressed([row EXCEPT !.status = status], today), files)

SeedStatusAsRead(row, front, files, today) ==
    WithNodesOf([row EXCEPT !.status = front.status, !.delivered = today], files)

(* seed_from_filesystem, one epic                                          *)
Seeded(row, front, files, today) ==
    LET status == IF row.status = "shipped" /\ front.status = "proposed"
                  THEN "shipped" ELSE front.status
        read   == [row EXCEPT !.status = status,
                              !.delivered = IF front.delivered # 0 THEN front.delivered ELSE @]
    IN  Progressed(WithNodesOf(read, files), today)

(* upsert_epic_node(..., "done", completed_by=skill), unless the artifact  *)
(* is an unfilled template.                                                *)
WithNode(row, n, artifact) ==
    IF artifact = "template" THEN row
    ELSE [row EXCEPT !.nodes[n] = "done", !.skilled = @ \cup {n}]

-----------------------------------------------------------------------------
(* post_save                                                                *)

(* The upsert that names the branch writes back the status that was read   *)
(* before the save changed it.                                             *)
NameBranch(row, current, onBranch) ==
    IF ~row.branch /\ (onBranch \/ current = "in_progress")
    THEN [row EXCEPT !.branch = TRUE, !.status = current] ELSE row

(* record_save, the transaction.  `override` is --epic-status, or "none".  *)
SavedNodes(row, n, files) == WithNodesOf(WithNode(row, n, files[Output[n]]), files)

Saved(row, n, override, onBranch, files) ==
    LET nodes == SavedNodes(row, n, files)
        moved == IF override = "none" THEN Progressed(nodes, day)
                 ELSE [nodes EXCEPT !.status = override]
    IN  NameBranch(moved, row.status, onBranch)

(* The date a save announces: the epic has just been shipped.              *)
ShipsNow(row, n, files) ==
    LET nodes == SavedNodes(row, n, files)
    IN  nodes.status # "shipped" /\ Progressed(nodes, day).status = "shipped"

Save(e, n, override) ==
    /\ epics[e].status # "absent"           \* or the save exits with an error
    /\ \E onBranch \in BOOLEAN :
           epics' = [epics EXCEPT ![e] = Saved(@, n, override, onBranch, disk[e])]
    /\ announced' = [announced EXCEPT ![e] =
                        IF override = "none" /\ ShipsNow(epics[e], n, disk[e]) THEN day ELSE @]

(* A skill records its node.                                               *)
SkillSave(e, n) ==
    /\ Save(e, n, "none")
    /\ UNCHANGED <<pitch, disk, hooks, running, decided, day, budget>>

(* A save with --epic-status: the draft of epic-context, or any status     *)
(* somebody asks for, of any epic.                                         *)
OverrideSave(e, n, status) ==
    /\ Adverse
    /\ Save(e, n, status)
    /\ UNCHANGED <<pitch, disk, hooks, running, decided, day>>

(* A file is written, as a template, filled, or as something that is not   *)
(* valid (a stub, claude's own JSON); its hook picks the first node of the *)
(* file that is not done, or the last of them.                             *)
Detected(row, f) ==
    LET writers == {n \in Nodes : Output[n] = f}
        open    == writers \ CompletedOf(row)
    IN  IF open # {} THEN {First(open)}
        ELSE {n \in writers : \A m \in writers : First({m, n}) = m}

ClaudeWrites(e, f) ==
    /\ Cardinality(hooks) < Hooks
    /\ \E c \in {"filled"} \cup {t \in {"template"} : f \in Templated}
                          \cup {g \in {"garbage"} : f \in Garbled} :
           disk' = [disk EXCEPT ![e][f] = c]
    /\ hooks' = hooks \cup ({e} \X Detected(epics[e], f))
    /\ UNCHANGED <<epics, pitch, announced, running, decided, day, budget>>

(* --register-only: a node that a skill has done is left alone.            *)
HookSave(e, n) ==
    /\ <<e, n>> \in hooks
    /\ hooks' = hooks \ {<<e, n>>}
    /\ IF epics[e].status = "absent" \/ (epics[e].nodes[n] = "done" /\ n \in epics[e].skilled)
       THEN UNCHANGED <<epics, announced>>
       ELSE Save(e, n, "none")
    /\ UNCHANGED <<pitch, disk, running, decided, day, budget>>

(* _inject_ship_fields, after the transaction.                             *)
InjectShip(e) ==
    /\ announced[e] # 0
    /\ pitch' = [pitch EXCEPT ![e] =
                    [status |-> "shipped",
                     delivered |-> IF @.delivered # 0 THEN @.delivered ELSE announced[e]]]
    /\ announced' = [announced EXCEPT ![e] = 0]
    /\ UNCHANGED <<epics, disk, hooks, running, decided, day, budget>>

(* The process dies before it has written the pitch.                       *)
SaveDies(e) ==
    /\ announced[e] # 0 /\ Adverse
    /\ announced' = [announced EXCEPT ![e] = 0]
    /\ UNCHANGED <<epics, pitch, disk, hooks, running, decided, day>>

(* reseed: every epic of the platform, in one transaction.                 *)
Reseed ==
    /\ epics' = [e \in Epics |-> Seeded(epics[e], pitch[e], disk[e], day)]
    /\ UNCHANGED <<pitch, disk, hooks, announced, running, decided, day, budget>>

-----------------------------------------------------------------------------
(* The operator                                                             *)

(* The skill epic-context creates the row, or starts it with its branch.   *)
CreateEpic(e, status) ==
    /\ epics[e].status \in {"absent", "proposed", "drafted"}
    /\ epics' = [epics EXCEPT ![e].status = status, ![e].branch = @ \/ status = "in_progress"]
    /\ UNCHANGED <<pitch, disk, hooks, announced, running, decided, day, budget>>

(* start_epic                                                              *)
StartEpic(e) ==
    /\ epics[e].status = "drafted"
    /\ \A f \in Epics : epics[f].status # "in_progress"
    /\ epics' = [epics EXCEPT ![e].status = "in_progress"]
    /\ UNCHANGED <<pitch, disk, hooks, announced, running, decided, day, budget>>

EditPitch(e) ==
    /\ Adverse
    /\ \E s \in Fronts \ {pitch[e].status} : pitch' = [pitch EXCEPT ![e].status = s]
    /\ UNCHANGED <<epics, disk, hooks, announced, running, decided, day>>

(* The working tree moves to a branch without the artifacts of the epic.   *)
Checkout(e) ==
    /\ Adverse
    /\ disk' = [disk EXCEPT ![e] = OnlyPitch]
    /\ UNCHANGED <<epics, pitch, hooks, announced, running, decided, day>>

NextDay ==
    /\ day < Days /\ decided = "none"     \* nothing spans midnight
    /\ day' = day + 1
    /\ UNCHANGED <<epics, pitch, disk, hooks, announced, running, decided, budget>>

-----------------------------------------------------------------------------
(* The daemon: the walk of the module EpicPipeline, seen from the rows      *)

Dispatch(e) ==
    /\ running = NoEpic /\ epics[e].status = "in_progress"
    /\ running' = e
    /\ UNCHANGED <<epics, pitch, disk, hooks, announced, decided, day, budget>>

(* upsert_epic_node of the pipeline names nobody as completed_by.          *)
PipelineSave ==
    /\ running # NoEpic /\ decided = "none"
    /\ LET open == Nodes \ CompletedOf(epics[running])
       IN  /\ open # {}
           /\ epics' = [epics EXCEPT ![running].nodes[First(open)] = "done"]
    /\ UNCHANGED <<pitch, disk, hooks, announced, running, decided, day, budget>>

(* _transition_epic_status reads and writes in two statements.             *)
PipelineRead ==
    /\ running # NoEpic /\ decided = "none" /\ Nodes \subseteq CompletedOf(epics[running])
    /\ LET new == Derived(epics[running].status, Nodes)
       IN  IF new # epics[running].status
           THEN decided' = new /\ UNCHANGED running
           ELSE running' = NoEpic /\ UNCHANGED decided
    /\ UNCHANGED <<epics, pitch, disk, hooks, announced, day, budget>>

PipelineWrite ==
    /\ decided # "none"
    /\ epics' = [epics EXCEPT ![running].status = decided,
                               ![running].delivered = IF decided = "shipped" THEN day ELSE @]
    /\ running' = NoEpic /\ decided' = "none"
    /\ UNCHANGED <<pitch, disk, hooks, announced, day, budget>>

(* Mutant: the status decided outlives its pipeline.                       *)
StopsDeciding ==
    /\ running # NoEpic /\ Adverse
    /\ running' = NoEpic
    /\ UNCHANGED <<epics, pitch, disk, hooks, announced, decided, day>>

(* A failure, an open gate or a crash; _mark_epic_blocked may follow.      *)
PipelineStops ==
    /\ running # NoEpic /\ Adverse
    /\ running' = NoEpic /\ decided' = "none"
    /\ \/ UNCHANGED epics
       \/ epics' = [epics EXCEPT ![running].status = "blocked"]
    /\ UNCHANGED <<pitch, disk, hooks, announced, day>>

-----------------------------------------------------------------------------

SaveNext(e) == \/ \E n \in Nodes : SkillSave(e, n) \/ HookSave(e, n)
               \/ \E n \in Nodes, s \in Overrides : OverrideSave(e, n, s)
               \/ InjectShip(e) \/ SaveDies(e)

OperatorNext(e) == \/ \E s \in {"drafted", "in_progress"} : CreateEpic(e, s)
                   \/ StartEpic(e) \/ EditPitch(e) \/ Checkout(e)

Next == \/ \E e \in Epics : SaveNext(e) \/ OperatorNext(e) \/ Dispatch(e)
        \/ \E e \in Epics, f \in Files : ClaudeWrites(e, f)
        \/ Reseed \/ NextDay
        \/ PipelineSave \/ PipelineRead \/ PipelineWrite \/ PipelineStops

Spec == Init /\ [][Next]_vars

-----------------------------------------------------------------------------
(* Properties                                                               *)

(* Nothing but a skill, a hook, a reseed or the pipeline touches a node,   *)
(* and none of them takes back a node that is done: not when its file has  *)
(* gone with a checkout, nor when its file is a template again.            *)
NeverUndone ==
    [][\A e \in Epics, n \in Nodes :
         epics[e].nodes[n] = "done" => epics'[e].nodes[n] = "done"]_vars

(* A second reseed of the same files finds nothing to do: whatever the     *)
(* rows were, one leaves every status and node where it leaves them.       *)
ReseedSettles ==
    \A e \in Epics :
       LET once  == Seeded(epics[e], pitch[e], disk[e], day)
           twice == Seeded(once, pitch[e], disk[e], day)
       IN  twice.status = once.status /\ twice.nodes = once.nodes

(* Somebody sets the status of an epic with --epic-status; the budget such *)
(* a step spends tells it from every step that does the same to the row.   *)
Overridden(e) == \E n \in Nodes, s \in Overrides : OverrideSave(e, n, s)

(* An epic that its nodes have shipped does not go back to work unless     *)
(* somebody says so with --epic-status: the front matter, or the block of  *)
(* a failed dispatch, may still stop it, and nothing else moves it.        *)
ShippedStays ==
    [][\A e \in Epics :
         epics[e].status = "shipped" /\ Required \subseteq CompletedOf(epics[e])
            => epics'[e].status \in {"shipped", "blocked", "cancelled"} \/ Overridden(e)]_vars

(* A draft that its pitch calls a draft starts when the operator starts    *)
(* it or sets its status, or when a node beyond epic-context is done, and  *)
(* never because its row was saved, reseeded or given a branch             *)
(* (upsert_epic's postmortem).                                             *)
DraftNeedsWork ==
    [][\A e \in Epics :
         epics[e].status = "drafted" /\ pitch[e].status = "drafted"
            /\ epics'[e].status \in {"in_progress", "shipped"}
            => \/ ~(CompletedOf(epics'[e]) \subseteq {Context})
               \/ StartEpic(e) \/ CreateEpic(e, "in_progress") \/ Overridden(e)]_vars

=============================================================================
