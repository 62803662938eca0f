--------------------------- MODULE EpicStatusProofs ---------------------------
(***************************************************************************)
(* Theorems of the module EpicStatus, for any epics, nodes, files and      *)
(* bounds: what the writers of an epic's row may never do to it.           *)
(*                                                                         *)
(* TypeOK is inductive.  The three action properties need nothing else:    *)
(* each writer rewrites rows with the operators of the section on rows,    *)
(* so what those do to a node and to a status is stated once, as lemmas.   *)
(***************************************************************************)
EXTENDS EpicStatus, TLAPS

-----------------------------------------------------------------------------
(* What the operators on rows do                                            *)

Stages == Statuses \cup {"absent"}
Pitches == [status : Fronts, delivered : Dates]
Trees   == [Files -> Contents]

LEMMA DerivedType ==
    ASSUME NEW s \in Stages, NEW c
    PROVE  /\ Derived(s, c) \in Stages
           /\ s # "absent" => Derived(s, c) \in Statuses
           /\ s \in {"shipped", "blocked", "cancelled"} => Derived(s, c) = s
BY DEF Derived, Stages, Statuses

LEMMA WithNodesOfRow ==
    ASSUME NEW row \in Row, NEW files \in Trees
    PROVE  /\ WithNodesOf(row, files) \in Row
           /\ WithNodesOf(row, files).status = row.status
           /\ WithNodesOf(row, files).delivered = row.delivered
           /\ \A n \in Nodes : row.nodes[n] = "done" => WithNodesOf(row, files).nodes[n] = "done"
           /\ CompletedOf(row) \subseteq CompletedOf(WithNodesOf(row, files))
BY NodesType DEF WithNodesOf, Row, NodeStates, CompletedOf, Trees

LEMMA WithNodeRow ==
    ASSUME NEW row \in Row, NEW n \in Nodes, NEW artifact
    PROVE  /\ WithNode(row, n, artifact) \in Row
           /\ WithNode(row, n, artifact).status = row.status
           /\ \A m \in Nodes : row.nodes[m] = "done" => WithNode(row, n, artifact).nodes[m] = "done"
           /\ CompletedOf(row) \subseteq CompletedOf(WithNode(row, n, artifact))
BY DEF WithNode, Row, NodeStates, CompletedOf

LEMMA ProgressedRow ==
    ASSUME NEW row \in Row, NEW today \in Dates
    PROVE  /\ Progressed(row, today) \in Row
           /\ Progressed(row, today).nodes = row.nodes
           /\ Progressed(row, today).status = Derived(row.status, CompletedOf(row))
BY DerivedType DEF Progressed, Row, Stages, Dates

(* A node that is done in one row is done in the other.                    *)
Keeps(row, new) ==
    /\ \A n \in Nodes : row.nodes[n] = "done" => new.nodes[n] = "done"
    /\ CompletedOf(row) \subseteq CompletedOf(new)

LEMMA SeededRow ==
    ASSUME NEW row \in Row, NEW front \in Pitches, NEW files \in Trees, NEW today \in Dates
    PROVE  /\ Seeded(row, front, files, today) \in Row
           /\ Seeded(row, front, files, today).status \in Statuses
           /\ Keeps(row, Seeded(row, front, files, today))
           /\ \E s \in {front.status, "shipped"} :
                 /\ s = "shipped" => row.status = "shipped" \/ front.status = "shipped"
                 /\ Seeded(row, front, files, today).status
                      = Derived(s, CompletedOf(Seeded(row, front, files, today)))
<1> DEFINE status == IF row.status = "shipped" /\ front.status = "proposed"
                     THEN "shipped" ELSE front.status
           read   == [row EXCEPT !.status = status,
                                 !.delivered = IF front.delivered # 0 THEN front.delivered ELSE @]
           nodes  == WithNodesOf(read, files)
<1>1. Seeded(row, front, files, today) = Progressed(nodes, today)
  BY DEF Seeded
<1>2. /\ read \in Row /\ read.status = status /\ read.nodes = row.nodes
      /\ status \in Statuses
  BY DEF Row, Pitches, Fronts, Statuses
<1>3. /\ nodes \in Row /\ nodes.status = status
      /\ \A n \in Nodes : row.nodes[n] = "done" => nodes.nodes[n] = "done"
      /\ CompletedOf(read) \subseteq CompletedOf(nodes)
  <2> HIDE DEF read
  <2> QED BY <1>2, WithNodesOfRow
<1>4. CompletedOf(read) = CompletedOf(row)
  BY <1>2 DEF CompletedOf
<1> HIDE DEF nodes
<1>5. /\ Progressed(nodes, today) \in Row
      /\ Progressed(nodes, today).nodes = nodes.nodes
      /\ Progressed(nodes, today).status = Derived(status, CompletedOf(nodes))
  BY <1>3, ProgressedRow
<1>6. CompletedOf(Progressed(nodes, today)) = CompletedOf(nodes)
  BY <1>5 DEF CompletedOf
<1>7. Derived(status, CompletedOf(nodes)) \in Statuses
  BY <1>2, DerivedType DEF Stages, Statuses
<1> QED BY <1>1, <1>2, <1>3, <1>4, <1>5, <1>6, <1>7 DEF Keeps

LEMMA SavedNodesRow ==
    ASSUME NEW row \in Row, NEW n \in Nodes, NEW files \in Trees
    PROVE  /\ SavedNodes(row, n, files) \in Row
           /\ SavedNodes(row, n, files).status = row.status
           /\ Keeps(row, SavedNodes(row, n, files))
<1> DEFINE with == WithNode(row, n, files[Output[n]])
<1>1. /\ with \in Row /\ with.status = row.status
      /\ \A m \in Nodes : row.nodes[m] = "done" => with.nodes[m] = "done"
      /\ CompletedOf(row) \subseteq CompletedOf(with)
  BY WithNodeRow
<1>2. SavedNodes(row, n, files) = WithNodesOf(with, files)
  BY DEF SavedNodes
<1> HIDE DEF with
<1> QED BY <1>1, <1>2, WithNodesOfRow DEF Keeps

(* What a save may do to the status: leave it, override it or derive it.   *)
LEMMA SavedRow ==
    ASSUME NEW row \in Row, NEW n \in Nodes, NEW files \in Trees,
           NEW override \in {"none"} \cup Statuses, NEW onBranch \in BOOLEAN,
           row.status # "absent", day \in Dates
    PROVE  LET new == Saved(row, n, override, onBranch, files)
           IN  /\ new \in Row /\ new.status \in Statuses
               /\ Keeps(row, new)
               /\ \/ new.status = row.status
                  \/ override # "none" /\ new.status = override
                  \/ override = "none" /\ new.status = Derived(row.status, CompletedOf(new))
<1> DEFINE nodes == SavedNodes(row, n, files)
           moved == IF override = "none" THEN Progressed(nodes, day)
                    ELSE [nodes EXCEPT !.status = override]
           new   == NameBranch(moved, row.status, onBranch)
<1>1. Saved(row, n, override, onBranch, files) = new
  BY DEF Saved
<1>2. nodes \in Row /\ nodes.status = row.status /\ Keeps(row, nodes)
  BY SavedNodesRow
<1> HIDE DEF nodes
<1>3. /\ moved \in Row /\ moved.nodes = nodes.nodes
      /\ override = "none" => moved.status = Derived(row.status, CompletedOf(nodes))
      /\ override # "none" => moved.status = override
  <2>1. CASE override = "none"
    BY <1>2, <2>1, ProgressedRow
  <2>2. CASE override # "none"
    BY <1>2, <2>2 DEF Row, Statuses
  <2> QED BY <2>1, <2>2
<1>4. moved.status \in Statuses
  BY <1>3, DerivedType DEF Row, Stages, Statuses
<1> HIDE DEF moved
<1>5. /\ new \in Row /\ new.nodes = nodes.nodes
      /\ new.status \in {moved.status, row.status}
  BY <1>3 DEF NameBranch, Row
<1> HIDE DEF new
<1>6. CompletedOf(new) = CompletedOf(nodes) /\ Keeps(row, new)
  BY <1>2, <1>5 DEF CompletedOf, Keeps
<1>7. row.status \in Statuses
  BY DEF Row
<1> QED BY <1>1, <1>3, <1>4, <1>5, <1>6, <1>7

-----------------------------------------------------------------------------
(* The invariant                                                            *)

LEMMA InitType == Init => TypeOK
<1> SUFFICES ASSUME Init PROVE TypeOK
  OBVIOUS
<1>1. Absent \in Row /\ Absent.status = "absent" /\ Absent.nodes = [n \in Nodes |-> "absent"]
  BY BoundsType DEF Absent, Row, NodeStates, Dates
<1>2. OnlyPitch \in Trees
  BY DEF OnlyPitch, Trees, Contents
<1>3. pitch \in [Epics -> Pitches]
  <2>1. [status : Planned, delivered : {0}] \subseteq Pitches
    <3>1. Planned \subseteq Fronts /\ 0 \in Dates
      BY PlannedType, BoundsType DEF Statuses, Fronts, Dates
    <3> QED BY <3>1 DEF Pitches
  <2> QED BY <2>1 DEF Init
<1> QED BY <1>1, <1>2, <1>3, BoundsType DEF Init, TypeOK, Trees, Pitches, Fronts, Dates

(* The rows and the dates of a state, as the other lemmas want them.       *)
LEMMA Typed ==
    TypeOK => /\ epics \in [Epics -> Row] /\ pitch \in [Epics -> Pitches]
              /\ disk \in [Epics -> Trees] /\ day \in Dates
BY BoundsType DEF TypeOK, Pitches, Fronts, Trees, Dates

(* One row is replaced by one that has a status.                           *)
LEMMA OneRow ==
    ASSUME TypeOK, NEW e \in Epics, NEW new \in Row, new.status # "absent",
           epics' = [epics EXCEPT ![e] = new]
    PROVE  /\ epics' \in [Epics -> Row]
           /\ \A d \in Epics : epics'[d].status = "absent"
                                => \A n \in Nodes : epics'[d].nodes[n] = "absent"
           /\ \A d \in Epics : epics[d].status # "absent" => epics'[d].status # "absent"
<1>1. epics \in [Epics -> Row]
  BY DEF TypeOK
<1>2. epics'[e] = new /\ \A d \in Epics \ {e} : epics'[d] = epics[d]
  BY <1>1
<1>3. epics' \in [Epics -> Row]
  BY <1>1
<1> QED BY <1>2, <1>3 DEF TypeOK

LEMMA DetectedNodes ==
    ASSUME NEW row, NEW f PROVE Detected(row, f) \subseteq Nodes
BY FirstType DEF Detected

(* The rows after a save.                                                  *)
LEMMA SaveRows ==
    ASSUME TypeOK, NEW e \in Epics, NEW n \in Nodes,
           NEW override \in {"none"} \cup Statuses, Save(e, n, override)
    PROVE  /\ epics' \in [Epics -> Row] /\ announced' \in [Epics -> Dates]
           /\ epics' = [epics EXCEPT ![e] = epics'[e]] /\ epics'[e] \in Row
           /\ epics'[e].status \in Statuses /\ Keeps(epics[e], epics'[e])
           /\ \/ epics'[e].status = epics[e].status
              \/ override # "none" /\ epics'[e].status = override
              \/ override = "none"
                 /\ epics'[e].status = Derived(epics[e].status, CompletedOf(epics'[e]))
<1>1. PICK onBranch \in BOOLEAN :
         epics' = [epics EXCEPT ![e] = Saved(epics[e], n, override, onBranch, disk[e])]
  BY DEF Save
<1>2. epics[e] \in Row /\ disk[e] \in Trees /\ epics[e].status # "absent" /\ day \in Dates
  BY Typed DEF Save
<1> DEFINE new == Saved(epics[e], n, override, onBranch, disk[e])
<1>3. /\ new \in Row /\ new.status \in Statuses /\ Keeps(epics[e], new)
      /\ \/ new.status = epics[e].status
         \/ override # "none" /\ new.status = override
         \/ override = "none" /\ new.status = Derived(epics[e].status, CompletedOf(new))
  BY <1>2, SavedRow
<1> HIDE DEF new
<1>4. epics' = [epics EXCEPT ![e] = new] /\ epics \in [Epics -> Row]
  BY <1>1, Typed DEF new
<1>5. epics'[e] = new
  BY <1>4
<1>6. announced' \in [Epics -> Dates]
  BY <1>2 DEF Save, TypeOK
<1> QED BY <1>3, <1>4, <1>5, <1>6

LEMMA SaveType ==
    ASSUME TypeOK, NEW e \in Epics, NEW n \in Nodes,
           NEW override \in {"none"} \cup Statuses, Save(e, n, override),
           UNCHANGED <<pitch, disk, running, decided, day>>,
           budget' \in 0..Budget, hooks' \subseteq hooks
    PROVE  TypeOK'
<1> DEFINE new == epics'[e]
<1>1. /\ new \in Row /\ new.status # "absent" /\ announced' \in [Epics -> Dates]
      /\ epics' = [epics EXCEPT ![e] = new]
  BY SaveRows DEF Statuses
<1> HIDE DEF new
<1>2. /\ epics' \in [Epics -> Row]
      /\ \A d \in Epics : epics'[d].status = "absent"
                           => \A m \in Nodes : epics'[d].nodes[m] = "absent"
      /\ \A d \in Epics : epics[d].status # "absent" => epics'[d].status # "absent"
  BY <1>1, OneRow
<1> QED BY <1>1, <1>2 DEF TypeOK

LEMMA SaveNextType ==
    ASSUME TypeOK, NEW e \in Epics, SaveNext(e) PROVE TypeOK'
<1>1. ASSUME NEW n \in Nodes, SkillSave(e, n) PROVE TypeOK'
  BY <1>1, SaveType DEF SkillSave, TypeOK
<1>2. ASSUME NEW n \in Nodes, HookSave(e, n) PROVE TypeOK'
  <2>1. hooks' \subseteq hooks
    BY <1>2 DEF HookSave
  <2>2. CASE Save(e, n, "none")
    BY <1>2, <2>1, <2>2, SaveType DEF HookSave, TypeOK
  <2>3. CASE UNCHANGED <<epics, announced>>
    BY <1>2, <2>1, <2>3 DEF HookSave, TypeOK
  <2> QED BY <1>2, <2>2, <2>3 DEF HookSave
<1>3. ASSUME NEW n \in Nodes, NEW s \in Overrides, OverrideSave(e, n, s) PROVE TypeOK'
  <2>1. s \in Statuses /\ budget' \in 0..Budget
    BY <1>3, OverridesType, BoundsType DEF OverrideSave, Adverse, TypeOK
  <2> QED BY <1>3, <2>1, SaveType DEF OverrideSave
<1>4. CASE InjectShip(e)
  <2>1. [status |-> "shipped",
         delivered |-> IF pitch[e].delivered # 0 THEN pitch[e].delivered ELSE announced[e]] \in Pitches
    BY Typed DEF TypeOK, Pitches, Fronts, Statuses
  <2>2. pitch' \in [Epics -> Pitches] /\ announced' \in [Epics -> Dates]
    BY <1>4, <2>1, Typed, BoundsType DEF InjectShip, TypeOK, Dates
  <2> QED BY <1>4, <2>2 DEF InjectShip, TypeOK, Pitches, Fronts
<1>5. CASE SaveDies(e)
  BY <1>5, BoundsType DEF SaveDies, Adverse, TypeOK, Dates
<1> QED BY <1>1, <1>2, <1>3, <1>4, <1>5 DEF SaveNext

LEMMA OperatorNextType ==
    ASSUME TypeOK, NEW e \in Epics, OperatorNext(e) PROVE TypeOK'
<1>0. epics \in [Epics -> Row] /\ epics[e] \in Row
  BY Typed
<1>1. ASSUME NEW s \in {"drafted", "in_progress"}, CreateEpic(e, s) PROVE TypeOK'
  <2> DEFINE new == [epics[e] EXCEPT !.status = s, !.branch = @ \/ s = "in_progress"]
  <2>1. new \in Row /\ new.status # "absent"
    BY <1>0 DEF Row, Statuses
  <2>2. epics' = [epics EXCEPT ![e] = new]
    BY <1>1, <1>0 DEF CreateEpic
  <2> HIDE DEF new
  <2> QED BY <1>1, <2>1, <2>2, OneRow DEF CreateEpic, TypeOK
<1>2. CASE StartEpic(e)
  <2> DEFINE new == [epics[e] EXCEPT !.status = "in_progress"]
  <2>1. new \in Row /\ new.status # "absent"
    BY <1>0 DEF Row, Statuses
  <2>2. epics' = [epics EXCEPT ![e] = new]
    BY <1>2, <1>0 DEF StartEpic
  <2> HIDE DEF new
  <2> QED BY <1>2, <2>1, <2>2, OneRow DEF StartEpic, TypeOK
<1>3. CASE EditPitch(e)
  BY <1>3, BoundsType DEF EditPitch, Adverse, TypeOK
<1>4. CASE Checkout(e)
  BY <1>4, BoundsType DEF Checkout, OnlyPitch, Adverse, TypeOK, Contents
<1> QED BY <1>1, <1>2, <1>3, <1>4 DEF OperatorNext

LEMMA ReseedRows ==
    ASSUME TypeOK, Reseed
    PROVE  /\ epics' \in [Epics -> Row]
           /\ \A e \in Epics : epics'[e] = Seeded(epics[e], pitch[e], disk[e], day)
           /\ \A e \in Epics : epics'[e].status \in Statuses
BY Typed, SeededRow DEF Reseed

LEMMA DaemonType ==
    ASSUME TypeOK, PipelineSave \/ PipelineRead \/ PipelineWrite \/ PipelineStops
    PROVE  TypeOK'
<1>0. /\ epics \in [Epics -> Row] /\ running \in Epics /\ epics[running] \in Row
      /\ epics[running].status \in Statuses
  BY DEF PipelineSave, PipelineRead, PipelineWrite, PipelineStops, TypeOK, Row
<1>1. CASE PipelineSave
  <2> DEFINE open == Nodes \ CompletedOf(epics[running])
             n    == First(open)
             new  == [epics[running] EXCEPT !.nodes[n] = "done"]
  <2>1. n \in Nodes
    BY <1>1, FirstType DEF PipelineSave
  <2>2. epics' = [epics EXCEPT ![running] = new]
    BY <1>1, <1>0 DEF PipelineSave
  <2> HIDE DEF n
  <2>3. new \in Row /\ new.status # "absent"
    BY <1>0, <2>1 DEF Row, NodeStates, Statuses
  <2> HIDE DEF new
  <2> QED BY <1>0, <1>1, <2>2, <2>3, OneRow DEF PipelineSave, TypeOK
<1>2. CASE PipelineRead
  <2>1. Derived(epics[running].status, Nodes) \in Statuses
    BY <1>0, DerivedType DEF Stages, Statuses
  <2> QED BY <1>2, <2>1, EpicsType DEF PipelineRead, TypeOK
<1>3. CASE PipelineWrite
  <2> DEFINE new == [epics[running] EXCEPT !.status = decided,
                                           !.delivered = IF decided = "shipped" THEN day ELSE @]
  <2>1. new \in Row /\ new.status # "absent"
    BY <1>0, <1>3, Typed DEF PipelineWrite, TypeOK, Row, Statuses
  <2>2. epics' = [epics EXCEPT ![running] = new]
    BY <1>3, <1>0 DEF PipelineWrite
  <2> HIDE DEF new
  <2> QED BY <1>0, <1>3, <2>1, <2>2, OneRow, EpicsType DEF PipelineWrite, TypeOK
<1>4. CASE PipelineStops
  <2> DEFINE new == [epics[running] EXCEPT !.status = "blocked"]
  <2>1. new \in Row /\ new.status # "absent"
    BY <1>0 DEF Row, Statuses
  <2>2. budget' \in 0..Budget
    BY <1>4, BoundsType DEF PipelineStops, Adverse, TypeOK
  <2>3. CASE UNCHANGED epics
    BY <1>4, <2>2, <2>3, EpicsType DEF PipelineStops, TypeOK
  <2>4. CASE epics' = [epics EXCEPT ![running].status = "blocked"]
    <3>1. epics' = [epics EXCEPT ![running] = new]
      BY <1>0, <2>4
    <3> HIDE DEF new
    <3> QED BY <1>0, <1>4, <2>1, <2>2, <3>1, OneRow, EpicsType DEF PipelineStops, TypeOK
  <2> QED BY <1>4, <2>3, <2>4 DEF PipelineStops
<1> QED BY <1>1, <1>2, <1>3, <1>4

LEMMA NextType == TypeOK /\ [Next]_vars => TypeOK'
<1> SUFFICES ASSUME TypeOK, [Next]_vars PROVE TypeOK'
  OBVIOUS
<1>1. ASSUME NEW e \in Epics, SaveNext(e) PROVE TypeOK'
  BY <1>1, SaveNextType
<1>2. ASSUME NEW e \in Epics, OperatorNext(e) PROVE TypeOK'
  BY <1>2, OperatorNextType
<1>3. ASSUME NEW e \in Epics, Dispatch(e) PROVE TypeOK'
  BY <1>3 DEF Dispatch, TypeOK
<1>4. ASSUME NEW e \in Epics, NEW f \in Files, ClaudeWrites(e, f) PROVE TypeOK'
  BY <1>4, DetectedNodes DEF ClaudeWrites, TypeOK, Contents
<1>5. CASE Reseed
  BY <1>5, ReseedRows DEF Reseed, TypeOK, Statuses
<1>6. CASE NextDay
  BY <1>6, BoundsType DEF NextDay, TypeOK
<1>7. CASE PipelineSave \/ PipelineRead \/ PipelineWrite \/ PipelineStops
  BY <1>7, DaemonType
<1>8. CASE UNCHANGED vars
  BY <1>8 DEF vars, TypeOK
<1> QED BY <1>1, <1>2, <1>3, <1>4, <1>5, <1>6, <1>7, <1>8 DEF Next

(* Every reachable state is well-typed: whatever the order of its writers, *)
(* a row always has a status, and a status is decided only while the       *)
(* pipeline that decided it runs.                                          *)
THEOREM TypeCorrect == Spec => []TypeOK
<1> QED BY InitType, NextType, PTL DEF Spec

-----------------------------------------------------------------------------
(* What no writer does                                                      *)

(* Every step keeps the nodes of every row.                                *)
LEMMA StepRows ==
    ASSUME TypeOK, Next, NEW e \in Epics
    PROVE  Keeps(epics[e], epics'[e])
<1>0. epics \in [Epics -> Row]
  BY DEF TypeOK
<1>1. ASSUME UNCHANGED epics PROVE Keeps(epics[e], epics'[e])
  BY <1>1 DEF Keeps
<1>2. ASSUME NEW d \in Epics, NEW n \in Nodes, NEW override \in {"none"} \cup Statuses,
             Save(d, n, override)
      PROVE  Keeps(epics[e], epics'[e])
  <2>1. Keeps(epics[d], epics'[d]) /\ epics' = [epics EXCEPT ![d] = epics'[d]]
    BY <1>2, SaveRows
  <2>2. e # d => epics'[e] = epics[e]
    BY <2>1, <1>0
  <2> QED BY <2>1, <2>2 DEF Keeps
<1>3. ASSUME NEW d \in Epics, SaveNext(d) PROVE Keeps(epics[e], epics'[e])
  BY <1>1, <1>2, <1>3, OverridesType
     DEF SaveNext, SkillSave, HookSave, OverrideSave, InjectShip, SaveDies
<1>4. ASSUME NEW d \in Epics, OperatorNext(d) PROVE Keeps(epics[e], epics'[e])
  <2>1. CASE UNCHANGED epics
    BY <1>1, <2>1
  <2>2. ASSUME NEW s, CreateEpic(d, s) PROVE epics'[e].nodes = epics[e].nodes
    BY <1>0, <2>2 DEF CreateEpic, Row
  <2>3. ASSUME StartEpic(d) PROVE epics'[e].nodes = epics[e].nodes
    BY <1>0, <2>3 DEF StartEpic, Row
  <2>4. epics'[e].nodes = epics[e].nodes => Keeps(epics[e], epics'[e])
    BY DEF Keeps, CompletedOf
  <2> QED BY <1>4, <2>1, <2>2, <2>3, <2>4 DEF OperatorNext, EditPitch, Checkout
<1>5. CASE Reseed
  BY <1>5, ReseedRows, Typed, SeededRow
<1>6. CASE PipelineSave
  <2> DEFINE n == First(Nodes \ CompletedOf(epics[running]))
  <2>1. n \in Nodes \ CompletedOf(epics[running]) /\ running \in Epics
    BY <1>6, FirstType DEF PipelineSave, TypeOK
  <2>2. epics' = [epics EXCEPT ![running].nodes[n] = "done"]
    BY <1>6 DEF PipelineSave
  <2> HIDE DEF n
  <2>3. \A m \in Nodes : epics'[e].nodes[m] \in {epics[e].nodes[m], "done"}
    BY <1>0, <2>1, <2>2 DEF Row
  <2> QED BY <2>3 DEF Keeps, CompletedOf
<1>7. CASE PipelineWrite \/ PipelineStops
  <2>1. epics'[e].nodes = epics[e].nodes
    BY <1>0, <1>7 DEF PipelineWrite, PipelineStops, Row
  <2> QED BY <2>1 DEF Keeps, CompletedOf
<1> QED BY <1>1, <1>3, <1>4, <1>5, <1>6, <1>7
        DEF Next, Dispatch, ClaudeWrites, NextDay, PipelineRead

(* No writer takes back a node that is done, although its file may go or   *)
(* turn into a template, and although hooks, reseeds and the pipeline all  *)
(* decide from what they find.                                             *)
THEOREM DoneIsKept == Spec => NeverUndone
<1>1. ASSUME TypeOK, [Next]_vars,
             NEW e \in Epics, NEW n \in Nodes, epics[e].nodes[n] = "done"
      PROVE  epics'[e].nodes[n] = "done"
  BY <1>1, StepRows DEF Keeps, vars
<1>2. TypeOK /\ [Next]_vars
        => [\A e \in Epics, n \in Nodes :
              epics[e].nodes[n] = "done" => epics'[e].nodes[n] = "done"]_vars
  BY <1>1
<1> QED BY <1>2, TypeCorrect, PTL DEF Spec, NeverUndone

(* The pipeline decides to ship, and only with every node behind it.       *)
Decision == decided # "none" => decided = "shipped" /\ Nodes \subseteq CompletedOf(epics[running])

LEMMA DerivedOfAll ==
    ASSUME NEW s \in Statuses, NEW c, Required \subseteq c
    PROVE  Derived(s, c) \in {"shipped", "blocked", "cancelled"}
           /\ (s \notin {"blocked", "cancelled"} => Derived(s, c) = "shipped")
<1>1. ~(c \subseteq {Context}) /\ Required # {}
  BY RequiredType
<1> QED BY <1>1 DEF Derived, Statuses

LEMMA DecisionStep == TypeOK /\ Decision /\ [Next]_vars => Decision'
<1> SUFFICES ASSUME TypeOK, Decision, [Next]_vars, decided' # "none"
             PROVE  decided' = "shipped" /\ Nodes \subseteq CompletedOf(epics'[running'])
  BY DEF Decision, CompletedOf
<1>1. CASE PipelineRead
  <2>1. running \in Epics /\ epics[running].status \in Statuses /\ UNCHANGED <<epics, running>>
    BY <1>1 DEF PipelineRead, TypeOK, Row
  <2>2. decided' = Derived(epics[running].status, Nodes) /\ decided' # epics[running].status
    BY <1>1 DEF PipelineRead
  <2>3. decided' = "shipped"
    BY <2>1, <2>2, DerivedOfAll, NodesType DEF Derived
  <2> QED BY <1>1, <2>1, <2>3 DEF PipelineRead, CompletedOf
<1>2. CASE UNCHANGED <<decided, running>> /\ Next
  <2>1. Keeps(epics[running], epics'[running])
    BY <1>2, StepRows DEF TypeOK
  <2> QED BY <1>2, <2>1 DEF Decision, Keeps
<1>3. CASE UNCHANGED vars
  BY <1>3 DEF vars, Decision, CompletedOf
<1>4. \/ PipelineRead \/ UNCHANGED vars \/ decided' = "none"
      \/ running' # running /\ decided = "none" /\ UNCHANGED decided
      \/ UNCHANGED <<decided, running>> /\ Next
  BY EpicsType DEF Next, SaveNext, SkillSave, HookSave, OverrideSave, InjectShip, SaveDies,
     OperatorNext, CreateEpic, StartEpic, EditPitch, Checkout, Dispatch, ClaudeWrites, Reseed, NextDay,
     PipelineSave, PipelineWrite, PipelineStops, TypeOK
<1> QED BY <1>1, <1>2, <1>3, <1>4

IInv == TypeOK /\ Decision

LEMMA Invariance == Spec => []IInv
<1>1. Init => IInv
  BY InitType DEF Init, Decision, IInv
<1>2. IInv /\ [Next]_vars => IInv'
  BY NextType, DecisionStep DEF IInv
<1> QED BY <1>1, <1>2, PTL DEF Spec

(* How a step may change the status of an epic.                            *)
LEMMA StepStatus ==
    ASSUME IInv, Next, NEW e \in Epics
    PROVE  \/ epics'[e].status \in {epics[e].status, "blocked"}
           \/ epics'[e].status = Derived(epics[e].status, CompletedOf(epics'[e]))
           \/ epics'[e].status = "drafted" /\ epics[e].status \in {"proposed", "drafted", "absent"}
           \/ StartEpic(e) \/ CreateEpic(e, "in_progress") \/ Overridden(e)
           \/ \E s \in {pitch[e].status, "shipped"} :
                 /\ s = "shipped" => epics[e].status = "shipped" \/ pitch[e].status = "shipped"
                 /\ epics'[e].status = Derived(s, CompletedOf(epics'[e]))
           \/ epics'[e].status = "shipped" /\ Nodes \subseteq CompletedOf(epics'[e])
<1> USE DEF IInv
<1>0. epics \in [Epics -> Row]
  BY DEF TypeOK
<1>1. CASE UNCHANGED epics
  BY <1>1
<1>2. ASSUME NEW d \in Epics, NEW n \in Nodes, NEW override \in {"none"} \cup Statuses,
             Save(d, n, override)
      PROVE  \/ epics'[e].status = epics[e].status
             \/ d = e /\ override # "none"
             \/ epics'[e].status = Derived(epics[e].status, CompletedOf(epics'[e]))
  <2>1. /\ epics' = [epics EXCEPT ![d] = epics'[d]]
        /\ \/ epics'[d].status = epics[d].status
           \/ override # "none" /\ epics'[d].status = override
           \/ epics'[d].status = Derived(epics[d].status, CompletedOf(epics'[d]))
    BY <1>2, SaveRows
  <2>2. e # d => epics'[e] = epics[e]
    BY <2>1, <1>0
  <2> QED BY <2>1, <2>2
<1>3. ASSUME NEW d \in Epics, SaveNext(d)
      PROVE  \/ epics'[e].status = epics[e].status
             \/ epics'[e].status = Derived(epics[e].status, CompletedOf(epics'[e]))
             \/ Overridden(e)
  <2>1. CASE UNCHANGED epics
    BY <2>1
  <2>2. ASSUME NEW n \in Nodes, Save(d, n, "none")
        PROVE  \/ epics'[e].status = epics[e].status
               \/ epics'[e].status = Derived(epics[e].status, CompletedOf(epics'[e]))
    BY <1>2, <2>2
  <2>3. ASSUME NEW n \in Nodes, NEW s \in Overrides, OverrideSave(d, n, s)
        PROVE  \/ epics'[e].status = epics[e].status
               \/ epics'[e].status = Derived(epics[e].status, CompletedOf(epics'[e]))
               \/ Overridden(e)
    <3>1. s \in Statuses /\ Save(d, n, s)
      BY <2>3, OverridesType DEF OverrideSave
    <3> QED BY <1>2, <2>3, <3>1 DEF Overridden
  <2> QED BY <1>3, <2>1, <2>2, <2>3 DEF SaveNext, SkillSave, HookSave, InjectShip, SaveDies
<1>4. ASSUME NEW d \in Epics, OperatorNext(d)
      PROVE  \/ epics'[e].status = epics[e].status
             \/ epics'[e].status = "drafted" /\ epics[e].status \in {"proposed", "drafted", "absent"}
             \/ StartEpic(e) \/ CreateEpic(e, "in_progress")
  <2>1. CASE UNCHANGED epics
    BY <2>1
  <2>2. ASSUME CreateEpic(d, "drafted")
        PROVE  \/ epics'[e].status = epics[e].status
               \/ epics'[e].status = "drafted" /\ epics[e].status \in {"proposed", "drafted", "absent"}
    BY <1>0, <2>2 DEF CreateEpic, Row
  <2>3. ASSUME CreateEpic(d, "in_progress") PROVE e = d \/ epics'[e] = epics[e]
    BY <1>0, <2>3 DEF CreateEpic
  <2>4. ASSUME StartEpic(d) PROVE e = d \/ epics'[e] = epics[e]
    BY <1>0, <2>4 DEF StartEpic
  <2> QED BY <1>4, <2>1, <2>2, <2>3, <2>4 DEF OperatorNext, EditPitch, Checkout
<1>5. CASE Reseed
  BY <1>5, ReseedRows, Typed, SeededRow
<1>6. CASE PipelineSave
  BY <1>0, <1>6 DEF PipelineSave, Row
<1>7. CASE PipelineWrite
  <2>1. Nodes \subseteq CompletedOf(epics[running]) /\ decided = "shipped"
    BY <1>7 DEF PipelineWrite, Decision
  <2>2. running \in Epics
    BY <1>7 DEF PipelineWrite, TypeOK
  <2>3. Keeps(epics[e], epics'[e])
    BY StepRows
  <2>4. /\ e # running => epics'[e] = epics[e]
        /\ epics'[running].status = "shipped"
    BY <1>0, <1>7, <2>1, <2>2 DEF PipelineWrite, Row
  <2> QED BY <2>1, <2>3, <2>4 DEF Keeps
<1>8. CASE PipelineStops
  BY <1>0, <1>8 DEF PipelineStops, Row
<1> QED BY <1>1, <1>3, <1>4, <1>5, <1>6, <1>7, <1>8
        DEF Next, Dispatch, ClaudeWrites, NextDay, PipelineRead

(* An epic that its nodes have shipped stays shipped, whatever its front   *)
(* matter, its files and its writers say, unless it is blocked or          *)
(* cancelled, or somebody says otherwise with --epic-status.               *)
THEOREM ShippedForGood == Spec => ShippedStays
<1>1. ASSUME IInv, [Next]_vars, NEW e \in Epics,
             epics[e].status = "shipped", Required \subseteq CompletedOf(epics[e])
      PROVE  epics'[e].status \in {"shipped", "blocked", "cancelled"} \/ Overridden(e)
  <2>1. CASE UNCHANGED vars
    BY <1>1, <2>1 DEF vars
  <2>2. CASE Next
    <3>1. Required \subseteq CompletedOf(epics'[e])
      BY <1>1, <2>2, StepRows DEF Keeps, IInv
    <3>2. Derived("shipped", CompletedOf(epics'[e])) = "shipped"
      BY DEF Derived
    <3>3. \A s \in Statuses : Derived(s, CompletedOf(epics'[e])) \in {"shipped", "blocked", "cancelled"}
      BY <3>1, DerivedOfAll
    <3>4. pitch[e].status \in Statuses /\ "shipped" \in Statuses
      BY <1>1 DEF IInv, TypeOK, Fronts, Statuses
    <3>5. ~StartEpic(e) /\ ~CreateEpic(e, "in_progress")
      BY <1>1 DEF StartEpic, CreateEpic
    <3> QED BY <1>1, <2>2, <3>2, <3>3, <3>4, <3>5, StepStatus
  <2> QED BY <1>1, <2>1, <2>2
<1>2. IInv /\ [Next]_vars
        => [\A e \in Epics :
              epics[e].status = "shipped" /\ Required \subseteq CompletedOf(epics[e])
                 => epics'[e].status \in {"shipped", "blocked", "cancelled"} \/ Overridden(e)]_vars
  BY <1>1
<1> QED BY <1>2, Invariance, PTL DEF Spec, ShippedStays

(* A draft is started by the operator, by an explicit status or by work    *)
(* beyond epic-context, and by nothing else.                               *)
THEOREM DraftsWait == Spec => DraftNeedsWork
<1>1. ASSUME IInv, [Next]_vars, NEW e \in Epics,
             epics[e].status = "drafted", pitch[e].status = "drafted",
             epics'[e].status \in {"in_progress", "shipped"}
      PROVE  \/ ~(CompletedOf(epics'[e]) \subseteq {Context})
             \/ StartEpic(e) \/ CreateEpic(e, "in_progress") \/ Overridden(e)
  <2>1. Next
    BY <1>1 DEF vars
  <2>2. Derived("drafted", CompletedOf(epics'[e])) \in {"in_progress", "shipped"}
          => ~(CompletedOf(epics'[e]) \subseteq {Context})
    BY DEF Derived
  <2>3. ~(Nodes \subseteq {Context})
    BY NodesType, RequiredType
  <2> QED BY <1>1, <2>1, <2>2, <2>3, StepStatus
<1>2. IInv /\ [Next]_vars
        => [\A e \in Epics :
              epics[e].status = "drafted" /\ pitch[e].status = "drafted"
                 /\ epics'[e].status \in {"in_progress", "shipped"}
                 => \/ ~(CompletedOf(epics'[e]) \subseteq {Context})
                    \/ StartEpic(e) \/ CreateEpic(e, "in_progress") \/ Overridden(e)]_vars
  BY <1>1
<1> QED BY <1>2, Invariance, PTL DEF Spec, DraftNeedsWork

(* What a reseed leaves in a row, as functions of what it read.            *)
Read(row, front) ==
    IF row.status = "shipped" /\ front.status = "proposed" THEN "shipped" ELSE front.status

LEMMA SeededExactly ==
    ASSUME NEW row \in Row, NEW front \in Pitches, NEW files \in Trees, NEW today \in Dates
    PROVE  LET new == Seeded(row, front, files, today)
           IN  /\ new.status = Derived(Read(row, front), CompletedOf(new))
               /\ \A n \in Nodes :
                     IF Valid(files[Output[n]]) THEN new.nodes[n] = "done"
                     ELSE IF row.nodes[n] # "absent" THEN new.nodes[n] = row.nodes[n]
                     ELSE new.nodes[n] \in {"skipped", "pending"}
<1> DEFINE read == [row EXCEPT !.status = Read(row, front),
                               !.delivered = IF front.delivered # 0 THEN front.delivered ELSE @]
           nodes == WithNodesOf(read, files)
<1>1. Seeded(row, front, files, today) = Progressed(nodes, today)
  BY DEF Seeded, Read
<1>2. read \in Row /\ read.status = Read(row, front) /\ read.nodes = row.nodes
  BY DEF Row, Pitches, Fronts, Read, Statuses
<1> HIDE DEF read
<1>3. nodes \in Row /\ nodes.status = Read(row, front)
  BY <1>2, WithNodesOfRow
<1>4. \A n \in Nodes :
         IF Valid(files[Output[n]]) THEN nodes.nodes[n] = "done"
         ELSE IF row.nodes[n] # "absent" THEN nodes.nodes[n] = row.nodes[n]
         ELSE nodes.nodes[n] \in {"skipped", "pending"}
  BY <1>2 DEF WithNodesOf, Row
<1> HIDE DEF nodes
<1>5. /\ Progressed(nodes, today).nodes = nodes.nodes
      /\ Progressed(nodes, today).status = Derived(Read(row, front), CompletedOf(nodes))
  BY <1>3, ProgressedRow
<1>6. CompletedOf(Progressed(nodes, today)) = CompletedOf(nodes)
  BY <1>5 DEF CompletedOf
<1> QED BY <1>1, <1>4, <1>5, <1>6

(* A second reseed of the same files changes no status and no node.        *)
THEOREM ReseedsSettle == Spec => []ReseedSettles
<1>1. ASSUME TypeOK, NEW e \in Epics
      PROVE  LET once  == Seeded(epics[e], pitch[e], disk[e], day)
                 twice == Seeded(once, pitch[e], disk[e], day)
             IN  twice.status = once.status /\ twice.nodes = once.nodes
  <2> DEFINE row == epics[e]
             front == pitch[e]
             once  == Seeded(row, front, disk[e], day)
             twice == Seeded(once, front, disk[e], day)
  <2>1. row \in Row /\ front \in Pitches /\ disk[e] \in Trees /\ day \in Dates
    BY <1>1, Typed
  <2>2. once \in Row /\ twice \in Row
    BY <2>1, SeededRow
  <2>3. /\ once.status = Derived(Read(row, front), CompletedOf(once))
        /\ \A n \in Nodes :
              IF Valid(disk[e][Output[n]]) THEN once.nodes[n] = "done"
              ELSE IF row.nodes[n] # "absent" THEN once.nodes[n] = row.nodes[n]
              ELSE once.nodes[n] \in {"skipped", "pending"}
    BY <2>1, SeededExactly
  <2>4. /\ twice.status = Derived(Read(once, front), CompletedOf(twice))
        /\ \A n \in Nodes :
              IF Valid(disk[e][Output[n]]) THEN twice.nodes[n] = "done"
              ELSE IF once.nodes[n] # "absent" THEN twice.nodes[n] = once.nodes[n]
              ELSE twice.nodes[n] \in {"skipped", "pending"}
    BY <2>1, <2>2, SeededExactly
  <2> HIDE DEF once, twice
  <2>5. \A n \in Nodes : twice.nodes[n] = once.nodes[n]
    BY <2>3, <2>4
  <2>6. twice.nodes = once.nodes
    BY <2>2, <2>5 DEF Row
  <2>7. CompletedOf(twice) = CompletedOf(once)
    BY <2>6 DEF CompletedOf
  <2>8. Derived(Read(once, front), CompletedOf(once)) = once.status
    BY <2>3 DEF Read, Derived
  <2> QED BY <2>4, <2>6, <2>7, <2>8 DEF once, twice
<1>2. TypeOK => ReseedSettles
  BY <1>1 DEF ReseedSettles
<1> QED BY <1>2, TypeCorrect, PTL

=============================================================================
