---------------------------- MODULE ExecutorsProofs ----------------------------
(***************************************************************************)
(* For any number of executors, any pipeline.yaml and any mix of the two   *)
(* functions, modes and scopes:                                            *)
(*                                                                         *)
(*   - a node is finished only after those it depends on.  Nothing keeps   *)
(*     the executors apart; it is enough that each knows only nodes that   *)
(*     are finished in its scope (Known), that it is past a node's         *)
(*     dependencies until the node is saved (Entered), and that nobody     *)
(*     takes a finished node back.  This does not use what                 *)
(*     topological_sort returns;                                           *)
(*   - topological_sort returns every node once, after what it depends on, *)
(*     or there is an unknown dependency or a cycle (TopologicalSortFacts, *)
(*     by induction over the steps of Kahn's algorithm);                   *)
(*   - so an executor never passes a node over as blocked (Passed), and    *)
(*     when it says that the pipeline is complete, it is;                  *)
(*   - a row that one of them is about to close or to make a gate belongs  *)
(*     to it alone and is no gate yet (Owned), so a question asked of a    *)
(*     human waits for the answer, and the answer stays.                   *)
(***************************************************************************)
EXTENDS Executors, WellFoundedInduction, FiniteSetTheorems, TLAPS

-----------------------------------------------------------------------------
(* Dependencies first                                                      *)

Fields == {"pc", "scope", "kind", "resume", "mode", "order", "at", "completed", "row", "trace", "failures"}

Shape ==
    /\ DOMAIN ex = Procs /\ DOMAIN finished = Epics
    /\ \A p \in Procs : DOMAIN ex[p] = Fields /\ ex[p].scope \in Epics

Known   == \A p \in Procs : ex[p].completed \subseteq finished[ex[p].scope]
Entered == \A p \in Procs : ex[p].pc \in {"dispatch", "pass", "save"} => Met(p)

IInv == Shape /\ Known /\ Entered /\ DependenciesFirst

(* A step of an executor that leaves the finished nodes alone: it knows no *)
(* more than before, or all that is finished, and enters a node only after *)
(* its dependencies.                                                       *)
Local(p, r) ==
    /\ ex' = [ex EXCEPT ![p] = r]
    /\ DOMAIN r = Fields /\ r.scope \in Epics
    /\ r.completed \subseteq finished[r.scope]
    /\ r.pc \in {"dispatch", "pass", "save"} => graph[r.order[r.at]] \subseteq r.completed
    /\ UNCHANGED <<graph, finished>>

LEMMA LocalKeeps == ASSUME IInv, NEW p \in Procs, NEW r, Local(p, r) PROVE IInv'
<1>1. \A q \in Procs : ex'[q] = IF q = p THEN r ELSE ex[q]
  BY DEF Local, IInv, Shape
<1>2. Shape'
  BY <1>1 DEF Local, IInv, Shape
<1>3. Known'
  BY <1>1 DEF Local, IInv, Known
<1>4. Entered'
  BY <1>1 DEF Local, IInv, Entered, Met, Node
<1>5. DependenciesFirst'
  BY DEF Local, IInv, DependenciesFirst
<1> QED
  BY <1>2, <1>3, <1>4, <1>5 DEF IInv

LEMMA OffShape == DOMAIN Off = Fields /\ Off.completed = {} /\ Off.pc = "off"
BY DEF Off, Fields

LEMMA ExitKeeps ==
    ASSUME IInv, NEW p \in Procs, NEW pc \in Ended, Exit(p, pc), UNCHANGED <<graph, finished>>
    PROVE  IInv'
<1> DEFINE r == [Off EXCEPT !.pc = pc, !.scope = ex[p].scope]
<1>1. DOMAIN r = Fields /\ r.scope = ex[p].scope /\ r.completed = {} /\ r.pc = pc
  BY DEF Off, Fields
<1>2. ex' = [ex EXCEPT ![p] = r]
  BY DEF Exit
<1>3. Local(p, r)
  <2> HIDE DEF r
  <2> QED
    BY <1>1, <1>2 DEF Local, IInv, Shape, Ended
<1> QED
  BY <1>3, LocalKeeps

LEMMA BeginKeeps ==
    ASSUME IInv, NEW p \in Procs, NEW s \in Epics, NEW k, NEW resume, NEW m, Begin(p, s, k, resume, m)
    PROVE  IInv'
<1>1. PICK r : /\ ex' = [ex EXCEPT ![p] = r] /\ DOMAIN r = Fields
               /\ r.scope = s /\ r.completed = {}
               /\ r.pc \in {"refused", "trace", "cleanup", "checkpoint"}
  <2> DEFINE order == TopologicalSort(graph)
             r == [pc |-> IF Refuses(graph, order) THEN "refused"
                          ELSE IF ~resume THEN "trace"
                          ELSE IF k = "async" THEN "cleanup" ELSE "checkpoint",
                scope |-> s, kind |-> k, resume |-> resume, mode |-> m,
                order |-> order, at |-> 1, completed |-> {}, row |-> 0, trace |-> 0, failures |-> 0]
  <2>1. ex' = [ex EXCEPT ![p] = r]
    BY DEF Begin
  <2>2. DOMAIN r = Fields /\ r.scope = s /\ r.completed = {}
    BY DEF Fields
  <2>3. r.pc \in {"refused", "trace", "cleanup", "checkpoint"}
    OBVIOUS
  <2> QED
    BY <2>1, <2>2, <2>3
<1>2. UNCHANGED <<graph, finished>>
  BY DEF Begin, db
<1> QED
  BY <1>1, <1>2, LocalKeeps DEF Local

(* A row of fields that stays where it is.                                 *)
Stays(p, r) ==
    /\ DOMAIN r = Fields /\ r.scope = ex[p].scope /\ r.completed = ex[p].completed
    /\ r.order = ex[p].order /\ r.at = ex[p].at

(* Steps at a node: they change neither the node nor what is known.         *)
AtSameNode(p) ==
    /\ \E r : /\ ex' = [ex EXCEPT ![p] = r] /\ DOMAIN r = Fields /\ r.scope = ex[p].scope
              /\ r.completed = ex[p].completed
              /\ \/ r.pc \notin {"dispatch", "pass", "save"}
                 \/ r.order = ex[p].order /\ r.at = ex[p].at /\ Met(p)
    /\ UNCHANGED <<graph, finished>>

LEMMA SameNodeKeeps == ASSUME IInv, NEW p \in Procs, AtSameNode(p) PROVE IInv'
<1>1. PICK r : /\ ex' = [ex EXCEPT ![p] = r] /\ DOMAIN r = Fields /\ r.scope = ex[p].scope
               /\ r.completed = ex[p].completed
               /\ \/ r.pc \notin {"dispatch", "pass", "save"}
                  \/ r.order = ex[p].order /\ r.at = ex[p].at /\ Met(p)
  BY DEF AtSameNode
<1>2. Local(p, r)
  BY <1>1 DEF AtSameNode, Local, IInv, Shape, Known, Met, Node
<1> QED
  BY <1>2, LocalKeeps

(* A node is finished: it can be skipped, or its dependencies are.          *)
LEMMA FinishKeeps ==
    ASSUME IInv, NEW p \in Procs, Finish(p), Node(p) \in Skippable \/ Met(p), graph' = graph
    PROVE  IInv'
<1> DEFINE e == ex[p].scope
           r == [ex[p] EXCEPT !.pc = "walk", !.at = @ + 1, !.completed = @ \cup {Node(p)}]
<1>1. ex' = [ex EXCEPT ![p] = r]
  BY DEF Finish
<1>2. DOMAIN ex[p] = Fields /\ DOMAIN ex = Procs /\ DOMAIN finished = Epics /\ e \in Epics
  BY DEF IInv, Shape
<1>3. DOMAIN r = Fields /\ r.scope = e /\ r.pc = "walk" /\ r.completed = ex[p].completed \cup {Node(p)}
  BY <1>2 DEF Fields
<1> HIDE DEF r
<1>4. \A q \in Procs : ex'[q] = IF q = p THEN r ELSE ex[q]
  BY <1>1, <1>2
<1>5. /\ DOMAIN finished' = Epics /\ finished'[e] = finished[e] \cup {Node(p)}
      /\ \A f \in Epics : finished[f] \subseteq finished'[f] /\ (f # e => finished'[f] = finished[f])
  BY <1>2 DEF Finish
<1>6. Shape'
  BY <1>1, <1>2, <1>3, <1>4, <1>5 DEF IInv, Shape
<1>7. Known'
  BY <1>2, <1>3, <1>4, <1>5 DEF IInv, Known, Shape
<1>8. Entered'
  BY <1>3, <1>4 DEF IInv, Entered, Met, Node
<1>9. DependenciesFirst'
  BY <1>2, <1>5 DEF IInv, DependenciesFirst, Known, Met
<1> QED
  BY <1>6, <1>7, <1>8, <1>9 DEF IInv

LEMMA StepKeeps == ASSUME IInv, NEW p \in Procs, Step(p) PROVE IInv'
<1> USE DEF db
<1>0. DOMAIN ex[p] = Fields
  BY DEF IInv, Shape
<1>1. CASE Cleanup(p)
  <2>1. CASE Exit(p, "off")
    BY <1>1, <2>1, ExitKeeps DEF Cleanup, Ended
  <2>2. CASE ex' = [ex EXCEPT ![p].pc = "checkpoint"]
    <3> DEFINE r == [ex[p] EXCEPT !.pc = "checkpoint"]
    <3>1. ex' = [ex EXCEPT ![p] = r]
      BY <2>2
    <3>2. DOMAIN r = Fields /\ r.pc = "checkpoint" /\ r.scope = ex[p].scope /\ r.completed = ex[p].completed
      BY <1>0 DEF Fields
    <3> HIDE DEF r
    <3> QED
      BY <1>1, <3>1, <3>2, SameNodeKeeps DEF Cleanup, AtSameNode
  <2> QED
    BY <1>1, <2>1, <2>2 DEF Cleanup, Goto
<1>2. CASE Checkpoint(p)
  <2>1. CASE Exit(p, "paused")
    BY <1>2, <2>1, ExitKeeps DEF Checkpoint, Ended
  <2>2. CASE ex' = [ex EXCEPT ![p].pc = "trace", ![p].completed = Resumable(ex[p].scope)]
    <3> DEFINE r == [ex[p] EXCEPT !.pc = "trace", !.completed = Resumable(ex[p].scope)]
    <3>1. DOMAIN r = Fields /\ r.pc = "trace" /\ r.scope = ex[p].scope /\ r.completed = finished[ex[p].scope]
      BY <1>0 DEF Fields, Resumable
    <3>2. ex' = [ex EXCEPT ![p] = r]
      BY <2>2
    <3>3. Local(p, r)
      <4> HIDE DEF r
      <4> QED
        BY <1>2, <3>1, <3>2 DEF Local, Checkpoint, IInv, Shape
    <3> QED
      BY <3>3, LocalKeeps
  <2> QED
    BY <1>2, <2>1, <2>2 DEF Checkpoint
<1>3. CASE ResolveTrace(p)
  <2>1. PICK t : ex' = [ex EXCEPT ![p].pc = "walk", ![p].trace = t]
    BY <1>3 DEF ResolveTrace
  <2>2. AtSameNode(p)
    <3> DEFINE r == [ex[p] EXCEPT !.pc = "walk", !.trace = t]
    <3>1. ex' = [ex EXCEPT ![p] = r]
      BY <2>1
    <3>2. DOMAIN r = Fields /\ r.pc = "walk" /\ r.scope = ex[p].scope /\ r.completed = ex[p].completed
      BY <1>0 DEF Fields
    <3> HIDE DEF r
    <3> QED
      BY <1>3, <3>1, <3>2 DEF ResolveTrace, AtSameNode
  <2> QED
    BY <2>2, SameNodeKeeps
<1>4. CASE PassOver(p)
  <2>1. AtSameNode(p)
    <3> DEFINE r == [ex[p] EXCEPT !.at = @ + 1]
    <3>1. ex' = [ex EXCEPT ![p] = r]
      BY <1>4 DEF PassOver
    <3>2. DOMAIN r = Fields /\ r.pc = "walk" /\ r.scope = ex[p].scope /\ r.completed = ex[p].completed
      BY <1>0, <1>4 DEF Fields, PassOver
    <3> HIDE DEF r
    <3> QED
      BY <1>4, <3>1, <3>2 DEF PassOver, AtSameNode
  <2> QED
    BY <2>1, SameNodeKeeps
<1>5. CASE SkipOptional(p)
  BY <1>5, FinishKeeps DEF SkipOptional
<1>6. CASE SaveNode(p)
  BY <1>6, FinishKeeps DEF SaveNode, IInv, Entered
<1>7. CASE OpenGate(p) \/ Escalate(p)
  <2>1. ex' = [ex EXCEPT ![p].pc = "gate", ![p].row = Len(runs) + 1, ![p].failures = 0]
    BY <1>7 DEF OpenGate, Escalate, InsertRow
  <2>2. AtSameNode(p)
    <3> DEFINE r == [ex[p] EXCEPT !.pc = "gate", !.row = Len(runs) + 1, !.failures = 0]
    <3>1. ex' = [ex EXCEPT ![p] = r]
      BY <2>1
    <3>2. DOMAIN r = Fields /\ r.pc = "gate" /\ r.scope = ex[p].scope /\ r.completed = ex[p].completed
      BY <1>0 DEF Fields
    <3> HIDE DEF r
    <3> QED
      BY <1>7, <3>1, <3>2 DEF OpenGate, Escalate, AtSameNode
  <2> QED
    BY <2>2, SameNodeKeeps
<1>8. CASE MarkGate(p) \/ Decline(p) \/ FailTrace(p) \/ EndWalk(p)
  <2>1. Exit(p, "paused") \/ Exit(p, "failed") \/ Exit(p, "complete")
    BY <1>8 DEF MarkGate, Decline, FailTrace, EndWalk
  <2>2. UNCHANGED <<graph, finished>>
    BY <1>8 DEF MarkGate, Decline, FailTrace, EndWalk
  <2> QED
    BY <2>1, <2>2, ExitKeeps DEF Ended
<1>9. CASE StartNode(p) \/ ClaudeSucceeds(p) \/ DispatchFails(p) \/ OutputMissing(p)
  <2>1. PICK there \in {"dispatch", "pass", "fail"} :
            \/ ex' = [ex EXCEPT ![p].pc = there, ![p].row = Len(runs) + 1, ![p].failures = 0]
            \/ ex' = [ex EXCEPT ![p].pc = there, ![p].failures = 0]
            \/ ex' = [ex EXCEPT ![p].pc = there]
    BY <1>9 DEF StartNode, ClaudeSucceeds, DispatchFails, OutputMissing, Returned, InsertRow
  <2>2. Met(p) /\ UNCHANGED <<graph, finished>>
    BY <1>9 DEF StartNode, Ready, ClaudeSucceeds, DispatchFails, OutputMissing, Returned, IInv, Entered
  <2>3. AtSameNode(p)
    <3>1. \E r : ex' = [ex EXCEPT ![p] = r] /\ Stays(p, r)
      <4>1. Stays(p, [ex[p] EXCEPT !.pc = there, !.row = Len(runs) + 1, !.failures = 0])
        BY <1>0 DEF Stays, Fields
      <4>2. Stays(p, [ex[p] EXCEPT !.pc = there, !.failures = 0])
        BY <1>0 DEF Stays, Fields
      <4>3. Stays(p, [ex[p] EXCEPT !.pc = there])
        BY <1>0 DEF Stays, Fields
      <4> QED
        BY <2>1, <4>1, <4>2, <4>3
    <3> QED
      BY <2>2, <3>1 DEF Stays, AtSameNode
  <2> QED
    BY <2>3, SameNodeKeeps
<1>10. CASE ClaudeFails(p) \/ CompleteRow(p) \/ FailRow(p)
  <2>1. PICK there \in {"dispatch", "save", "failTrace"} :
            \/ ex' = [ex EXCEPT ![p].pc = there] /\ (there = "failTrace" \/ Met(p))
            \/ ex' = [ex EXCEPT ![p].failures = @ + 1] /\ Met(p)
    BY <1>10 DEF ClaudeFails, CompleteRow, FailRow, Goto, IInv, Entered
  <2>2. UNCHANGED <<graph, finished>>
    BY <1>10 DEF ClaudeFails, CompleteRow, FailRow
  <2>3. CASE ex' = [ex EXCEPT ![p].pc = there] /\ (there = "failTrace" \/ Met(p))
    <3> DEFINE r == [ex[p] EXCEPT !.pc = there]
    <3>1. ex' = [ex EXCEPT ![p] = r]
      BY <2>3
    <3>2. Stays(p, r) /\ r.pc = there
      BY <1>0 DEF Stays, Fields
    <3> HIDE DEF r
    <3>3. AtSameNode(p)
      BY <2>2, <2>3, <3>1, <3>2 DEF Stays, AtSameNode
    <3> QED
      BY <3>3, SameNodeKeeps
  <2>4. CASE ex' = [ex EXCEPT ![p].failures = @ + 1] /\ Met(p)
    <3> DEFINE r == [ex[p] EXCEPT !.failures = @ + 1]
    <3>1. ex' = [ex EXCEPT ![p] = r]
      BY <2>4
    <3>2. Stays(p, r)
      BY <1>0 DEF Stays, Fields
    <3> HIDE DEF r
    <3>3. AtSameNode(p)
      BY <2>2, <2>4, <3>1, <3>2 DEF Stays, AtSameNode
    <3> QED
      BY <3>3, SameNodeKeeps
  <2> QED
    BY <2>1, <2>3, <2>4
<1> QED
  BY <1>1, <1>2, <1>3, <1>4, <1>5, <1>6, <1>7, <1>8, <1>9, <1>10 DEF Step

LEMMA InitIInv == Init => IInv
<1> SUFFICES ASSUME Init PROVE IInv
  OBVIOUS
<1>1. Off.scope = L1
  BY DEF Off
<1>2. Shape /\ Known /\ Entered
  BY <1>1, OffShape, L1Type DEF Init, Shape, Known, Entered
<1>3. DependenciesFirst
  BY DEF Init, DependenciesFirst
<1> QED
  BY <1>2, <1>3 DEF IInv

LEMMA NextIInv == ASSUME IInv, [Next]_vars PROVE IInv'
<1>1. ASSUME NEW p \in Procs, Step(p) PROVE IInv'
  BY <1>1, StepKeeps
<1>2. ASSUME NEW p \in Procs, Kill(p) PROVE IInv'
  BY <1>2, ExitKeeps DEF Kill, db, Ended
<1>3. ASSUME NEW p \in Procs, NEW s \in Epics, NEW k, NEW resume, NEW m, Begin(p, s, k, resume, m) PROVE IInv'
  BY <1>3, BeginKeeps
<1>4. ASSUME UNCHANGED <<graph, finished, ex>> PROVE IInv'
  BY <1>4 DEF IInv, Shape, Known, Entered, Met, Node, DependenciesFirst
<1> QED
  BY <1>1, <1>2, <1>3, <1>4 DEF Next, Resolve, vars, db

(* However many executors of either kind walk one scope, are killed and    *)
(* resumed, a node that is done has all it depends on done before it       *)
(* (run_pipeline, run_pipeline_async).                                     *)
THEOREM DependenciesHold == Spec => []DependenciesFirst
<1>1. IInv /\ [Next]_vars => IInv'
  BY NextIInv
<1>2. IInv => DependenciesFirst
  BY DEF IInv
<1> QED
  BY <1>1, <1>2, InitIInv, PTL DEF Spec

-----------------------------------------------------------------------------
(* Induction, and definitions by recursion                                 *)

NatOrder == {pair \in Nat \X Nat : pair[1] < pair[2]}

LEMMA NatWellFounded == IsWellFoundedOn(NatOrder, Nat)
BY NatLessThanWellFounded DEF OpToRel, NatOrder

(* Induction, for a set in place of a predicate.                            *)
LEMMA Induction ==
    ASSUME NEW T, 0 \in T, \A n \in Nat : n \in T => n + 1 \in T
    PROVE  Nat \subseteq T
<1> SUFFICES ASSUME Nat \ T # {} PROVE FALSE
  OBVIOUS
<1>1. PICK n \in Nat \ T : \A m \in Nat \ T : <<m, n>> \notin NatOrder
  BY NatWellFounded, WFMin
<1>2. n # 0 /\ n - 1 \in Nat
  BY <1>1
<1>3. <<n - 1, n>> \in NatOrder
  BY <1>2 DEF NatOrder
<1>4. n - 1 \in T
  BY <1>1, <1>2, <1>3
<1> QED
  BY <1>1, <1>2, <1>4

(* A function that is defined by recursion on 0..n.                         *)
Iterates(V, c, step, n, f) == f \in [0..n -> V] /\ f[0] = c /\ \A i \in 1..n : f[i] = step[<<f[i - 1], i>>]

LEMMA Recursion ==
    ASSUME NEW V, NEW c \in V, NEW step \in [V \X Nat -> V], NEW n \in Nat
    PROVE  \E f : Iterates(V, c, step, n, f)
<1> DEFINE Is(f, m) == f[0] = c /\ \A i \in 1..m : f[i] = step[<<f[i - 1], i>>]
           T == {m \in Nat : \E f \in [0..m -> V] : Is(f, m)}
<1>1. 0 \in T
  <2>1. Is([i \in 0..0 |-> c], 0)
    OBVIOUS
  <2>2. [i \in 0..0 |-> c] \in [0..0 -> V]
    OBVIOUS
  <2> QED
    BY <2>1, <2>2
<1>2. ASSUME NEW m \in Nat, m \in T PROVE m + 1 \in T
  <2>1. PICK f \in [0..m -> V] : Is(f, m)
    BY <1>2
  <2> DEFINE h == [i \in 0..(m + 1) |-> IF i = m + 1 THEN step[<<f[m], m + 1>>] ELSE f[i]]
  <2>2. h \in [0..(m + 1) -> V]
    <3>1. f[m] \in V /\ <<f[m], m + 1>> \in V \X Nat
      BY <2>1
    <3> QED
      BY <2>1, <3>1
  <2>3. Is(h, m + 1)
    <3>1. h[0] = c
      BY <2>1
    <3>2. ASSUME NEW i \in 1..(m + 1) PROVE h[i] = step[<<h[i - 1], i>>]
      <4>1. h[i - 1] = f[i - 1]
        OBVIOUS
      <4>2. CASE i = m + 1
        <5>1. i - 1 = m /\ h[i] = step[<<f[m], m + 1>>]
          BY <4>2
        <5> QED
          BY <4>1, <4>2, <5>1
      <4>3. CASE i # m + 1
        <5>1. i \in 1..m /\ h[i] = f[i]
          BY <4>3
        <5> QED
          BY <2>1, <4>1, <5>1
      <4> QED
        BY <4>2, <4>3
    <3> QED
      BY <3>1, <3>2
  <2> HIDE DEF h
  <2> QED
    BY <2>2, <2>3
<1> HIDE DEF T
<1>3. Nat \subseteq T
  BY <1>1, <1>2, Induction
<1> QED
  BY <1>3 DEF T, Iterates

-----------------------------------------------------------------------------
(* Sequences of nodes, and those of pipeline.yaml                          *)

(* The function InOrder defines: Taken.                                    *)
InOrderOf(S, f) ==
    /\ f \in [0..Len(Listed) -> Seq(Nodes)] /\ f[0] = << >>
    /\ \A i \in 1..Len(Listed) : f[i] = IF Listed[i] \in S THEN Append(f[i - 1], Listed[i]) ELSE f[i - 1]
    /\ InOrder(S) = f[Len(Listed)]

LEMMA InOrderExists == ASSUME NEW S PROVE \E f : InOrderOf(S, f)
<1> DEFINE N == Len(Listed)
           Next1(s, i) == IF Listed[i] \in S THEN Append(s, Listed[i]) ELSE s
           V == Seq(Nodes)
           step == [x \in V \X Nat |-> IF x[2] \in 1..N THEN Next1(x[1], x[2]) ELSE x[1]]
           Def(f) == f = [i \in 0..N |-> IF i = 0 THEN << >> ELSE Next1(f[i - 1], i)]
<1>0. N \in Nat /\ << >> \in V /\ \A i \in 1..N : Listed[i] \in Nodes /\ i \in Nat
  BY ListedType
<1>1. \A s \in V : \A i \in 1..N : Next1(s, i) \in V
  BY <1>0
<1>2. step \in [V \X Nat -> V] /\ \A s \in V : \A i \in 1..N : step[<<s, i>>] = Next1(s, i)
  <2> HIDE DEF V, N, Next1
  <2>1. \A x \in V \X Nat : x[1] \in V /\ x[2] \in Nat
    OBVIOUS
  <2>2. \A s \in V : \A i \in 1..N : <<s, i>> \in V \X Nat
    BY <1>0
  <2> QED
    BY <1>1, <2>1, <2>2
<1>3. PICK f : Iterates(V, << >>, step, N, f)
  <2> HIDE DEF step, N, V, Next1
  <2> QED
    BY <1>0, <1>2, Recursion
<1>4. \A i \in 1..N : f[i] = Next1(f[i - 1], i)
  <2> HIDE DEF step, V, Next1
  <2>1. \A i \in 1..N : f[i - 1] \in V
    BY <1>0, <1>3 DEF Iterates
  <2> QED
    BY <1>2, <1>3, <2>1 DEF Iterates
<1>5. Def(f)
  <2> HIDE DEF Next1, V, step
  <2>1. \A i \in 0..N : i = 0 \/ i \in 1..N
    BY <1>0
  <2> QED
    BY <1>3, <1>4, <2>1 DEF Iterates
<1> DEFINE h == CHOOSE h : Def(h)
<1>6. Def(h)
  BY <1>5
<1>7. InOrder(S) = h[N]
  BY DEF InOrder
<1>8. h[0] = << >> /\ \A i \in 1..N : h[i] = Next1(h[i - 1], i)
  <2> HIDE DEF h, Next1
  <2> QED
    BY <1>0, <1>6
<1>9. \A i \in 0..N : h[i] = f[i]
  <2> DEFINE T == {i \in Nat : i \in 0..N => h[i] = f[i]}
  <2> HIDE DEF h, Next1
  <2>1. 0 \in T
    BY <1>3, <1>8 DEF Iterates
  <2>2. ASSUME NEW i \in Nat, i \in T PROVE i + 1 \in T
    <3>1. CASE i + 1 \in 1..N
      <4>1. h[i] = f[i]
        BY <1>0, <2>2, <3>1
      <4> QED
        BY <1>4, <1>8, <3>1, <4>1
    <3> QED
      BY <3>1
  <2> HIDE DEF T
  <2>3. Nat \subseteq T
    BY <2>1, <2>2, Induction
  <2> QED
    BY <2>3, <1>0 DEF T
<1>10. h \in [0..N -> V]
  <2> HIDE DEF h, Next1, V
  <2> QED
    BY <1>3, <1>6, <1>9 DEF Iterates
<1> QED
  <2> HIDE DEF h
  <2> QED
    BY <1>7, <1>8, <1>10 DEF InOrderOf

(* Sequences without repetition.                                           *)
Distinct(s) == \A i, j \in 1..Len(s) : s[i] = s[j] => i = j

LEMMA AppendFacts ==
    ASSUME NEW s \in Seq(Nodes), NEW x \in Nodes
    PROVE  /\ Append(s, x) \in Seq(Nodes)
           /\ ToSet(Append(s, x)) = ToSet(s) \cup {x}
           /\ Distinct(s) /\ x \notin ToSet(s) => Distinct(Append(s, x))
<1>1. /\ Append(s, x) \in Seq(Nodes) /\ Len(Append(s, x)) = Len(s) + 1 /\ Len(s) \in Nat
      /\ \A i \in 1..Len(s) : Append(s, x)[i] = s[i]
      /\ Append(s, x)[Len(s) + 1] = x
  OBVIOUS
<1>2. DOMAIN s = 1..Len(s) /\ DOMAIN Append(s, x) = 1..(Len(s) + 1)
  BY <1>1
<1>3. ToSet(Append(s, x)) = ToSet(s) \cup {x}
  BY <1>1, <1>2 DEF ToSet
<1>4. Distinct(s) /\ x \notin ToSet(s) => Distinct(Append(s, x))
  BY <1>1, <1>2 DEF Distinct, ToSet
<1> QED
  BY <1>1, <1>3, <1>4

LEMMA ConcatFacts ==
    ASSUME NEW s \in Seq(Nodes), NEW t \in Seq(Nodes)
    PROVE  /\ s \o t \in Seq(Nodes)
           /\ ToSet(s \o t) = ToSet(s) \cup ToSet(t)
           /\ Distinct(s) /\ Distinct(t) /\ ToSet(s) \cap ToSet(t) = {} => Distinct(s \o t)
<1>1. /\ s \o t \in Seq(Nodes) /\ Len(s \o t) = Len(s) + Len(t) /\ Len(s) \in Nat /\ Len(t) \in Nat
      /\ \A i \in 1..Len(s) : (s \o t)[i] = s[i]
      /\ \A i \in (Len(s) + 1)..(Len(s) + Len(t)) : (s \o t)[i] = t[i - Len(s)]
  OBVIOUS
<1>2. DOMAIN s = 1..Len(s) /\ DOMAIN t = 1..Len(t) /\ DOMAIN (s \o t) = 1..(Len(s) + Len(t))
  BY <1>1
<1>3. \A i \in 1..Len(t) : (s \o t)[Len(s) + i] = t[i] /\ Len(s) + i \in 1..(Len(s) + Len(t))
  BY <1>1
<1>4. ToSet(s \o t) = ToSet(s) \cup ToSet(t)
  <2> DEFINE u == s \o t
  <2>1. \A i \in DOMAIN u : u[i] \in ToSet(s) \cup ToSet(t)
    <3> SUFFICES ASSUME NEW i \in DOMAIN u PROVE u[i] \in ToSet(s) \cup ToSet(t)
      OBVIOUS
    <3>1. CASE i \in 1..Len(s)
      BY <1>1, <1>2, <3>1 DEF ToSet
    <3>2. CASE i \in (Len(s) + 1)..(Len(s) + Len(t))
      BY <1>1, <1>2, <3>2 DEF ToSet
    <3> QED
      BY <1>1, <1>2, <3>1, <3>2
  <2>2. ToSet(s) \subseteq ToSet(u)
    BY <1>1, <1>2 DEF ToSet
  <2>3. ToSet(t) \subseteq ToSet(u)
    BY <1>2, <1>3 DEF ToSet
  <2>4. ToSet(u) \subseteq ToSet(s) \cup ToSet(t)
    <3> HIDE DEF u
    <3> QED
      BY <2>1 DEF ToSet
  <2> QED
    BY <2>2, <2>3, <2>4
<1>5. Distinct(s) /\ Distinct(t) /\ ToSet(s) \cap ToSet(t) = {} => Distinct(s \o t)
  <2> SUFFICES ASSUME Distinct(s), Distinct(t), ToSet(s) \cap ToSet(t) = {},
                      NEW i \in 1..Len(s \o t), NEW j \in 1..Len(s \o t), (s \o t)[i] = (s \o t)[j]
               PROVE  i = j
    BY DEF Distinct
  <2>1. CASE i \in 1..Len(s) /\ j \in 1..Len(s)
    BY <1>1, <2>1 DEF Distinct
  <2>2. CASE i \notin 1..Len(s) /\ j \notin 1..Len(s)
    <3>1. i - Len(s) \in 1..Len(t) /\ j - Len(s) \in 1..Len(t)
      BY <1>1, <2>2
    <3>2. t[i - Len(s)] = t[j - Len(s)]
      BY <1>1, <2>2
    <3> QED
      BY <1>1, <3>1, <3>2 DEF Distinct
  <2>3. CASE i \in 1..Len(s) /\ j \notin 1..Len(s)
    <3>1. j - Len(s) \in 1..Len(t) /\ (s \o t)[j] = t[j - Len(s)] /\ (s \o t)[i] = s[i]
      BY <1>1, <2>3
    <3> QED
      BY <1>2, <2>3, <3>1 DEF ToSet
  <2>4. CASE i \notin 1..Len(s) /\ j \in 1..Len(s)
    <3>1. i - Len(s) \in 1..Len(t) /\ (s \o t)[i] = t[i - Len(s)] /\ (s \o t)[j] = s[j]
      BY <1>1, <2>4
    <3> QED
      BY <1>2, <2>4, <3>1 DEF ToSet
  <2> QED
    BY <2>1, <2>2, <2>3, <2>4
<1> QED
  BY <1>1, <1>4, <1>5

LEMMA TailFacts ==
    ASSUME NEW s \in Seq(Nodes), s # << >>
    PROVE  /\ Head(s) \in Nodes /\ Tail(s) \in Seq(Nodes)
           /\ ToSet(s) = {Head(s)} \cup ToSet(Tail(s))
           /\ Distinct(s) => Distinct(Tail(s)) /\ Head(s) \notin ToSet(Tail(s))
<1>1. /\ Head(s) = s[1] /\ Head(s) \in Nodes /\ Tail(s) \in Seq(Nodes) /\ Len(s) \in Nat /\ Len(s) # 0
      /\ Len(Tail(s)) = Len(s) - 1 /\ \A i \in 1..(Len(s) - 1) : Tail(s)[i] = s[i + 1]
  OBVIOUS
<1>2. DOMAIN s = 1..Len(s) /\ DOMAIN Tail(s) = 1..(Len(s) - 1)
  BY <1>1
<1>3. ToSet(s) = {Head(s)} \cup ToSet(Tail(s))
  <2>1. \A i \in 1..Len(s) : i = 1 \/ (i - 1 \in 1..(Len(s) - 1) /\ Tail(s)[i - 1] = s[i])
    BY <1>1
  <2>2. \A i \in 1..(Len(s) - 1) : i + 1 \in 1..Len(s) /\ Tail(s)[i] = s[i + 1]
    BY <1>1
  <2>3. 1 \in DOMAIN s
    BY <1>1, <1>2
  <2>4. \A i \in DOMAIN s : s[i] \in {Head(s)} \cup ToSet(Tail(s))
    BY <1>1, <1>2, <2>1 DEF ToSet
  <2>5. ToSet(Tail(s)) \subseteq ToSet(s)
    BY <1>2, <2>2 DEF ToSet
  <2>6. Head(s) \in ToSet(s)
    BY <1>1, <2>3 DEF ToSet
  <2>7. ToSet(s) \subseteq {Head(s)} \cup ToSet(Tail(s))
    BY <2>4 DEF ToSet
  <2> QED
    BY <2>5, <2>6, <2>7
<1>4. Distinct(s) => Distinct(Tail(s)) /\ Head(s) \notin ToSet(Tail(s))
  <2> SUFFICES ASSUME Distinct(s) PROVE Distinct(Tail(s)) /\ Head(s) \notin ToSet(Tail(s))
    OBVIOUS
  <2>1. \A i \in 1..(Len(s) - 1) : i + 1 \in 1..Len(s) /\ Tail(s)[i] = s[i + 1] /\ i + 1 # 1
    BY <1>1
  <2>2. 1 \in 1..Len(s)
    BY <1>1
  <2>3. Head(s) \notin ToSet(Tail(s))
    BY <1>1, <1>2, <2>1, <2>2 DEF ToSet, Distinct
  <2>4. Distinct(Tail(s))
    BY <1>1, <2>1 DEF Distinct
  <2> QED
    BY <2>3, <2>4
<1> QED
  BY <1>1, <1>3, <1>4

(* There is no longer one than the file's list of all nodes.               *)
LEMMA NoLonger == ASSUME NEW s \in Seq(Nodes), Distinct(s) PROVE Len(s) <= Len(Listed)
<1> DEFINE place == [i \in 1..Len(s) |-> CHOOSE k \in 1..Len(Listed) : Listed[k] = s[i]]
<1>1. \A n \in Nodes : \E k \in 1..Len(Listed) : Listed[k] = n
  <2>1. DOMAIN Listed = 1..Len(Listed)
    BY ListedType
  <2> QED
    BY <2>1, ListedType DEF ToSet
<1>2. \A i \in 1..Len(s) : s[i] \in Nodes
  OBVIOUS
<1>3. \A i \in 1..Len(s) : place[i] \in 1..Len(Listed) /\ Listed[place[i]] = s[i]
  BY <1>1, <1>2
<1>4. place \in [1..Len(s) -> 1..Len(Listed)]
  BY <1>3
<1>5. Len(s) \in Nat /\ Len(Listed) \in Nat
  BY ListedType
<1>6. /\ IsFiniteSet(1..Len(s)) /\ Cardinality(1..Len(s)) = Len(s)
      /\ IsFiniteSet(1..Len(Listed)) /\ Cardinality(1..Len(Listed)) = Len(Listed)
  <2>1. \A b \in Nat : IsFiniteSet(1..b) /\ Cardinality(1..b) = b
    BY FS_Interval
  <2> QED
    BY <1>5, <2>1
<1>7. \A i, j \in 1..Len(s) : place[i] = place[j] => i = j
  <2> HIDE DEF place
  <2> QED
    BY <1>3 DEF Distinct
<1> QED
  <2> SUFFICES ASSUME Len(Listed) < Len(s) PROVE FALSE
    BY <1>5
  <2> HIDE DEF place
  <2>1. \E x, y \in 1..Len(s) : x # y /\ place[x] = place[y]
    BY <1>4, <1>6, FS_PigeonHole
  <2> QED
    BY <1>7, <2>1

(* One that lists all nodes is as long as the file's.                      *)
LEMMA NoShorter == ASSUME NEW s \in Seq(Nodes), ToSet(s) = Nodes PROVE Len(Listed) <= Len(s)
<1> DEFINE place == [k \in 1..Len(Listed) |-> CHOOSE i \in 1..Len(s) : s[i] = Listed[k]]
<1>1. \A n \in Nodes : \E i \in 1..Len(s) : s[i] = n
  <2>1. DOMAIN s = 1..Len(s)
    OBVIOUS
  <2> QED
    BY <2>1 DEF ToSet
<1>2. DOMAIN Listed = 1..Len(Listed) /\ \A k \in 1..Len(Listed) : Listed[k] \in Nodes
  BY ListedType
<1>3. \A k \in 1..Len(Listed) : place[k] \in 1..Len(s) /\ s[place[k]] = Listed[k]
  BY <1>1, <1>2
<1>4. place \in [1..Len(Listed) -> 1..Len(s)]
  BY <1>3
<1>5. Len(s) \in Nat /\ Len(Listed) \in Nat
  BY ListedType
<1>6. /\ IsFiniteSet(1..Len(s)) /\ Cardinality(1..Len(s)) = Len(s)
      /\ IsFiniteSet(1..Len(Listed)) /\ Cardinality(1..Len(Listed)) = Len(Listed)
  <2>1. \A b \in Nat : IsFiniteSet(1..b) /\ Cardinality(1..b) = b
    BY FS_Interval
  <2> QED
    BY <1>5, <2>1
<1>7. \A i, j \in 1..Len(Listed) : place[i] = place[j] => i = j
  <2> HIDE DEF place
  <2> QED
    BY <1>2, <1>3, ListedType
<1> QED
  <2> SUFFICES ASSUME Len(s) < Len(Listed) PROVE FALSE
    BY <1>5
  <2> HIDE DEF place
  <2>1. \E x, y \in 1..Len(Listed) : x # y /\ place[x] = place[y]
    BY <1>4, <1>6, FS_PigeonHole
  <2> QED
    BY <1>7, <2>1

LEMMA EmptyFacts == << >> \in Seq(Nodes) /\ Distinct(<< >>) /\ ToSet(<< >>) = {}
BY DEF Distinct, ToSet

(* The nodes of S, each once.                                              *)
LEMMA InOrderFacts ==
    ASSUME NEW S
    PROVE  InOrder(S) \in Seq(Nodes) /\ Distinct(InOrder(S)) /\ ToSet(InOrder(S)) = S \cap Nodes
<1>1. PICK f : InOrderOf(S, f)
  BY InOrderExists
<1> DEFINE N == Len(Listed)
           First(i) == {Listed[j] : j \in 1..i}
           Good(i) == Distinct(f[i]) /\ ToSet(f[i]) = First(i) \cap S
           T == {i \in Nat : i \in 0..N => Good(i)}
<1>2. N \in Nat /\ DOMAIN Listed = 1..N /\ \A i \in 1..N : Listed[i] \in Nodes
  BY ListedType
<1>3. 0 \in T
  <2>1. First(0) = {}
    OBVIOUS
  <2> QED
    BY <1>1, <2>1, EmptyFacts DEF InOrderOf
<1>4. ASSUME NEW i \in Nat, i \in T PROVE i + 1 \in T
  <2> SUFFICES ASSUME i + 1 \in 1..N PROVE Good(i + 1)
    OBVIOUS
  <2> DEFINE x == Listed[i + 1]
  <2>1. Good(i) /\ f[i] \in Seq(Nodes) /\ x \in Nodes
    <3>1. i \in 0..N
      BY <1>2
    <3> QED
      BY <1>1, <1>2, <1>4, <3>1 DEF InOrderOf
  <2>2. f[i + 1] = IF x \in S THEN Append(f[i], x) ELSE f[i]
    <3>1. f[i + 1] = IF Listed[i + 1] \in S THEN Append(f[i + 1 - 1], Listed[i + 1]) ELSE f[i + 1 - 1]
      BY <1>1 DEF InOrderOf
    <3>2. i + 1 - 1 = i
      OBVIOUS
    <3> QED
      BY <3>1, <3>2
  <2>3. First(i + 1) = First(i) \cup {x}
    OBVIOUS
  <2>4. x \notin First(i)
    BY <1>2, ListedType
  <2> HIDE DEF First, x
  <2>5. CASE x \in S
    BY <2>1, <2>2, <2>3, <2>4, <2>5, AppendFacts
  <2>6. CASE x \notin S
    BY <2>1, <2>2, <2>3, <2>6
  <2> QED
    BY <2>5, <2>6
<1> HIDE DEF T
<1>5. Nat \subseteq T
  BY <1>3, <1>4, Induction
<1>6. Good(N)
  BY <1>2, <1>5 DEF T
<1>7. First(N) = Nodes
  BY <1>2, ListedType DEF ToSet
<1>8. f[N] = InOrder(S) /\ f[N] \in Seq(Nodes)
  BY <1>1, <1>2 DEF InOrderOf
<1> QED
  BY <1>6, <1>7, <1>8

-----------------------------------------------------------------------------
(* topological_sort                                                        *)

State == [queue : Seq(Nodes), result : Seq(Nodes)]

(* After k steps: what is listed or waits is exactly what depends only on  *)
(* what is listed, each once, and nothing is listed before what it depends *)
(* on.                                                                     *)
Sorted(g, s) == \A i, j \in 1..Len(s) : s[j] \in g[s[i]] => j < i

KahnInv(g, s, k) ==
    /\ s \in State
    /\ Distinct(s.result) /\ Distinct(s.queue) /\ ToSet(s.result) \cap ToSet(s.queue) = {}
    /\ \A n \in Nodes : n \in ToSet(s.result) \cup ToSet(s.queue) <=> g[n] \subseteq ToSet(s.result)
    /\ Sorted(g, s.result)
    /\ Len(s.result) = k \/ s.queue = << >>

LEMMA FirstQueueInv == ASSUME NEW g PROVE KahnInv(g, FirstQueue(g), 0)
<1> DEFINE q == InOrder({n \in Nodes : g[n] = {}})
           s == FirstQueue(g)
<1>1. s.queue = q /\ s.result = << >> /\ s = [queue |-> q, result |-> << >>]
  BY DEF FirstQueue
<1>2. q \in Seq(Nodes) /\ Distinct(q) /\ ToSet(q) = {n \in Nodes : g[n] = {}}
  BY InOrderFacts
<1> HIDE DEF q, s
<1>3. s \in State
  BY <1>1, <1>2, EmptyFacts DEF State
<1>4. Sorted(g, << >>) /\ Len(<< >>) = 0
  BY DEF Sorted
<1> QED
  <2> HIDE DEF s
  <2>1. KahnInv(g, s, 0)
    BY <1>1, <1>2, <1>3, <1>4, EmptyFacts DEF KahnInv
  <2> QED
    BY <2>1 DEF s

LEMMA TakeHeadInv ==
    ASSUME NEW g, NEW s, NEW k \in Nat, KahnInv(g, s, k)
    PROVE  KahnInv(g, TakeHead(g, s), k + 1)
<1>1. CASE s.queue = << >>
  BY <1>1 DEF KahnInv, TakeHead
<1>2. CASE s.queue # << >>
  <2> DEFINE h == Head(s.queue)
             q == Tail(s.queue)
             new == Freed(g, h, s.result)
             t == TakeHead(g, s)
  <2>1. t = [queue |-> q \o new, result |-> Append(s.result, h)]
    BY <1>2 DEF TakeHead
  <2>2. /\ h \in Nodes /\ q \in Seq(Nodes) /\ ToSet(s.queue) = {h} \cup ToSet(q)
        /\ Distinct(q) /\ h \notin ToSet(q)
    BY <1>2, TailFacts DEF KahnInv, State
  <2>3. /\ new \in Seq(Nodes) /\ Distinct(new)
        /\ ToSet(new) = {c \in Nodes : h \in g[c] /\ g[c] \subseteq ToSet(s.result) \cup {h}}
    BY InOrderFacts DEF Freed
  <2>4. s.result \in Seq(Nodes) /\ Distinct(s.result)
    BY DEF KahnInv, State
  <2> DEFINE R == ToSet(s.result)
             Q == ToSet(q)
             F == ToSet(new)
  <2>5. h \notin R /\ Q \cap R = {}
    BY <2>2 DEF KahnInv
  <2>6. \A n \in Nodes : n \in R \cup Q \cup {h} <=> g[n] \subseteq R
    BY <2>2 DEF KahnInv
  <2>7. t.queue = q \o new /\ t.result = Append(s.result, h)
    <3> HIDE DEF t, h, q, new
    <3> QED
      BY <2>1
  <2> HIDE DEF h, q, new, t
  <2>8. t.result \in Seq(Nodes) /\ ToSet(t.result) = R \cup {h} /\ Distinct(t.result)
    BY <2>2, <2>4, <2>5, <2>7, AppendFacts
  <2>9. F \cap (R \cup Q \cup {h}) = {}
    BY <2>3, <2>5, <2>6
  <2>10. t.queue \in Seq(Nodes) /\ ToSet(t.queue) = Q \cup F /\ Distinct(t.queue)
    BY <2>2, <2>3, <2>7, <2>9, ConcatFacts
  <2>11. t \in State
    BY <2>1, <2>7, <2>8, <2>10 DEF State
  <2>12. ToSet(t.result) \cap ToSet(t.queue) = {}
    BY <2>2, <2>5, <2>8, <2>9, <2>10
  <2>13. \A n \in Nodes : n \in ToSet(t.result) \cup ToSet(t.queue) <=> g[n] \subseteq ToSet(t.result)
    <3> SUFFICES ASSUME NEW n \in Nodes PROVE n \in R \cup {h} \cup Q \cup F <=> g[n] \subseteq R \cup {h}
      BY <2>8, <2>10
    <3> QED
      BY <2>3, <2>6
  <2>14. Sorted(g, t.result)
    <3> DEFINE L == Len(s.result)
    <3>1. /\ Len(t.result) = L + 1 /\ t.result[L + 1] = h /\ L \in Nat
          /\ \A i \in 1..L : t.result[i] = s.result[i] /\ s.result[i] \in R /\ s.result[i] \in Nodes
      BY <2>4, <2>7 DEF ToSet
    <3> SUFFICES ASSUME NEW i \in 1..(L + 1), NEW j \in 1..(L + 1), t.result[j] \in g[t.result[i]]
                 PROVE  j < i
      BY <3>1 DEF Sorted
    <3>2. CASE i = L + 1
      <4>1. j # L + 1
        BY <2>2, <2>5, <2>6, <3>1, <3>2
      <4> QED
        BY <3>1, <3>2, <4>1
    <3>3. CASE i # L + 1
      <4>1. i \in 1..L
        BY <3>1, <3>3
      <4>2. j # L + 1
        BY <2>5, <2>6, <3>1, <4>1
      <4>3. j \in 1..L
        BY <3>1, <4>2
      <4> QED
        BY <3>1, <4>1, <4>3 DEF KahnInv, Sorted
    <3> QED
      BY <3>2, <3>3
  <2>15. Len(t.result) = k + 1
    BY <1>2, <2>4, <2>7 DEF KahnInv
  <2>16. KahnInv(g, t, k + 1)
    BY <2>8, <2>10, <2>11, <2>12, <2>13, <2>14, <2>15 DEF KahnInv
  <2> QED
    BY <2>16 DEF t
<1> QED
  BY <1>1, <1>2

(* The function TopologicalSort defines: Kahn.                             *)
KahnOf(g, f) ==
    /\ f \in [0..Len(Listed) -> State] /\ f[0] = FirstQueue(g)
    /\ \A k \in 1..Len(Listed) : f[k] = TakeHead(g, f[k - 1])
    /\ TopologicalSort(g) = f[Len(Listed)].result

LEMMA KahnExists == ASSUME NEW g PROVE \E f : KahnOf(g, f)
<1> DEFINE N == Len(Listed)
           step == [x \in State \X Nat |-> TakeHead(g, x[1])]
           Def(f) == f = [k \in 0..N |-> IF k = 0 THEN FirstQueue(g) ELSE TakeHead(g, f[k - 1])]
<1>0. N \in Nat /\ FirstQueue(g) \in State
  BY ListedType, FirstQueueInv DEF KahnInv
<1>1. \A s \in State : TakeHead(g, s) \in State
  <2> SUFFICES ASSUME NEW s \in State PROVE TakeHead(g, s) \in State
    OBVIOUS
  <2>1. CASE s.queue # << >>
    <3>1. Head(s.queue) \in Nodes /\ Tail(s.queue) \in Seq(Nodes)
      BY <2>1, TailFacts DEF State
    <3>2. Freed(g, Head(s.queue), s.result) \in Seq(Nodes)
      BY InOrderFacts DEF Freed
    <3>3. Tail(s.queue) \o Freed(g, Head(s.queue), s.result) \in Seq(Nodes)
      BY <3>1, <3>2
    <3>4. Append(s.result, Head(s.queue)) \in Seq(Nodes)
      BY <3>1 DEF State
    <3> QED
      BY <2>1, <3>3, <3>4 DEF TakeHead, State
  <2> QED
    BY <2>1 DEF TakeHead
<1>2. step \in [State \X Nat -> State] /\ \A s \in State : \A k \in Nat : step[<<s, k>>] = TakeHead(g, s)
  <2>1. \A x \in State \X Nat : x[1] \in State
    OBVIOUS
  <2> HIDE DEF State
  <2>2. \A s \in State : \A k \in Nat : <<s, k>> \in State \X Nat
    OBVIOUS
  <2> QED
    BY <1>1, <2>1, <2>2
<1>3. PICK f : Iterates(State, FirstQueue(g), step, N, f)
  <2> HIDE DEF step, N
  <2> QED
    BY <1>0, <1>2, Recursion
<1>4. \A k \in 1..N : f[k] = TakeHead(g, f[k - 1])
  <2> HIDE DEF step
  <2>1. \A k \in 1..N : f[k - 1] \in State /\ k \in Nat
    BY <1>0, <1>3 DEF Iterates
  <2> QED
    BY <1>2, <1>3, <2>1 DEF Iterates
<1>5. Def(f)
  <2>1. \A k \in 0..N : k = 0 \/ k \in 1..N
    BY <1>0
  <2> QED
    BY <1>3, <1>4, <2>1 DEF Iterates
<1> DEFINE h == CHOOSE h : Def(h)
<1>6. Def(h)
  BY <1>5
<1>7. TopologicalSort(g) = h[N].result
  BY DEF TopologicalSort
<1>8. h[0] = FirstQueue(g) /\ \A k \in 1..N : h[k] = TakeHead(g, h[k - 1])
  <2> HIDE DEF h
  <2> QED
    BY <1>0, <1>6
<1>9. \A k \in 0..N : h[k] = f[k]
  <2> DEFINE T == {k \in Nat : k \in 0..N => h[k] = f[k]}
  <2> HIDE DEF h
  <2>1. 0 \in T
    BY <1>3, <1>8 DEF Iterates
  <2>2. ASSUME NEW k \in Nat, k \in T PROVE k + 1 \in T
    <3>1. CASE k + 1 \in 1..N
      <4>1. h[k] = f[k]
        BY <1>0, <2>2, <3>1
      <4> QED
        BY <1>4, <1>8, <3>1, <4>1
    <3> QED
      BY <3>1
  <2> HIDE DEF T
  <2>3. Nat \subseteq T
    BY <2>1, <2>2, Induction
  <2> QED
    BY <2>3, <1>0 DEF T
<1>10. h \in [0..N -> State]
  <2> HIDE DEF h
  <2> QED
    BY <1>3, <1>6, <1>9 DEF Iterates
<1> QED
  <2> HIDE DEF h
  <2> QED
    BY <1>7, <1>8, <1>10 DEF KahnOf

LEMMA KahnEnds ==
    ASSUME NEW g
    PROVE  \E s : KahnInv(g, s, Len(Listed)) /\ s.queue = << >> /\ s.result = TopologicalSort(g)
<1>1. PICK f : KahnOf(g, f)
  BY KahnExists
<1> DEFINE N == Len(Listed)
           T == {k \in Nat : k \in 0..N => KahnInv(g, f[k], k)}
           s == f[N]
<1>2. N \in Nat
  BY ListedType
<1>3. 0 \in T
  BY <1>1, FirstQueueInv DEF KahnOf
<1>4. ASSUME NEW k \in Nat, k \in T PROVE k + 1 \in T
  <2>1. CASE k + 1 \in 1..N
    <3>1. KahnInv(g, f[k], k)
      BY <1>2, <1>4, <2>1
    <3>2. f[k + 1] = TakeHead(g, f[k])
      <4>1. f[k + 1] = TakeHead(g, f[k + 1 - 1])
        BY <1>1, <2>1 DEF KahnOf
      <4>2. k + 1 - 1 = k
        OBVIOUS
      <4> QED
        BY <4>1, <4>2
    <3>3. KahnInv(g, f[k + 1], k + 1)
      BY <3>1, <3>2, TakeHeadInv
    <3> QED
      BY <3>3
  <2> QED
    BY <1>2, <2>1
<1> HIDE DEF T
<1>5. Nat \subseteq T
  BY <1>3, <1>4, Induction
<1>6. KahnInv(g, s, N)
  BY <1>2, <1>5 DEF T
<1>7. s.queue = << >>
  <2> SUFFICES ASSUME s.queue # << >> PROVE FALSE
    OBVIOUS
  <2> HIDE DEF s
  <2>1. Len(s.result) = N /\ s.result \in Seq(Nodes) /\ Distinct(s.result)
    BY <1>6 DEF KahnInv, State
  <2>2. Head(s.queue) \in Nodes /\ Head(s.queue) \notin ToSet(s.result)
    BY <1>6, TailFacts DEF KahnInv, State
  <2> DEFINE longer == Append(s.result, Head(s.queue))
  <2>3. longer \in Seq(Nodes) /\ Distinct(longer)
    BY <2>1, <2>2, AppendFacts
  <2>4. Len(longer) = N + 1
    BY <2>1, <2>2
  <2> HIDE DEF longer
  <2> QED
    BY <1>2, <2>3, <2>4, NoLonger
<1>8. s.result = TopologicalSort(g)
  BY <1>1 DEF KahnOf
<1> QED
  BY <1>6, <1>7, <1>8

AcyclicGraph(g) == \A S \in SUBSET Nodes : S # {} => \E n \in S : g[n] \cap S = {}

(* topological_sort, for any dependencies: what it returns is sound, and   *)
(* what it refuses has an unknown dependency or a cycle.                   *)
LEMMA TopologicalSortFacts ==
    ASSUME NEW g
    PROVE  LET order == TopologicalSort(g)
           IN  /\ order \in Seq(Nodes) /\ Len(order) <= Len(Listed) /\ Sorted(g, order)
               /\ ~Refuses(g, order) => ToSet(order) = Nodes /\ ~Unknown(g)
               /\ Refuses(g, order) => Unknown(g) \/ ~AcyclicGraph(g)
<1> DEFINE order == TopologicalSort(g)
           N == Len(Listed)
<1>1. PICK s : KahnInv(g, s, N) /\ s.queue = << >> /\ s.result = order
  BY KahnEnds
<1> HIDE DEF order
<1>2. order \in Seq(Nodes) /\ Distinct(order) /\ Sorted(g, order)
  BY <1>1 DEF KahnInv, State
<1>3. \A n \in Nodes : n \in ToSet(order) <=> g[n] \subseteq ToSet(order)
  BY <1>1, EmptyFacts DEF KahnInv
<1>4. Len(order) <= N /\ N \in Nat /\ Len(order) \in Nat
  BY <1>2, NoLonger, ListedType
<1>5. ToSet(order) \subseteq Nodes
  BY <1>2 DEF ToSet
<1>6. ASSUME ~Refuses(g, order) PROVE ToSet(order) = Nodes /\ ~Unknown(g)
  <2> SUFFICES ASSUME NEW n \in Nodes, n \notin ToSet(order) PROVE FALSE
    BY <1>5, <1>6 DEF Refuses
  <2> DEFINE longer == Append(order, n)
  <2>1. longer \in Seq(Nodes) /\ Distinct(longer)
    BY <1>2, AppendFacts
  <2>2. Len(longer) = N + 1
    BY <1>2, <1>6 DEF Refuses
  <2> HIDE DEF longer
  <2> QED
    BY <1>4, <2>1, <2>2, NoLonger
<1>7. ASSUME Refuses(g, order), ~Unknown(g) PROVE ~AcyclicGraph(g)
  <2>1. ToSet(order) # Nodes
    BY <1>2, <1>4, <1>7, NoShorter DEF Refuses
  <2> DEFINE S == Nodes \ ToSet(order)
  <2>2. S \in SUBSET Nodes /\ S # {}
    BY <1>5, <2>1
  <2>3. \A n \in S : g[n] \cap S # {}
    BY <1>3, <1>7 DEF Unknown
  <2> QED
    BY <2>2, <2>3 DEF AcyclicGraph
<1> QED
  BY <1>2, <1>4, <1>6, <1>7 DEF order

-----------------------------------------------------------------------------
(* What every executor is                                                  *)

Walking == {"walk", "gate", "dispatch", "pass", "fail", "failTrace", "save"}
Busy    == Walking \ {"walk"}

(* Its row and its trace are there, it walks the order that               *)
(* topological_sort found, and all it is past is completed (Passed).       *)
Passed(r) == \A i \in 1..Len(r.order) : i < r.at => r.order[i] \in r.completed

HasRow(r) == r.pc \in {"gate", "pass", "fail"} \/ (r.pc = "dispatch" /\ r.kind = "async")

Sane(r, fin, rs, ts) ==
    /\ r \in Executor
    /\ HasRow(r) => r.row \in DOMAIN rs /\ rs[r.row].epic = r.scope
    /\ r.pc \in Walking => r.trace \in DOMAIN ts /\ ts[r.trace].scope = r.scope
    /\ r.pc = "refused" => Refuses(graph, TopologicalSort(graph))
    /\ r.pc \notin Ended => r.order = TopologicalSort(graph) /\ ~Refuses(graph, r.order) /\ Passed(r)
    /\ r.pc \in Busy => r.at <= Len(r.order)
    /\ r.pc \in {"cleanup", "checkpoint"} => r.at = 1
    /\ r.pc = "complete" => fin[r.scope] = Nodes

Trace      == [scope : Epics, status : {"running", "completed", "failed"}]
TracesType == Seq(Trace)

Done(ts, fin) == \A t \in DOMAIN ts : ts[t].status = "completed" => fin[ts[t].scope] = Nodes

WInv ==
    /\ graph \in Graphs /\ finished \in [Epics -> SUBSET Nodes]
    /\ runs \in Seq(Run) /\ traces \in TracesType
    /\ starts \in 0..MaxStarts /\ budget \in 0..Budget
    /\ ex = [p \in Procs |-> ex[p]] /\ \A p \in Procs : Sane(ex[p], finished, runs, traces)
    /\ Done(traces, finished)

(* What is there stays there, with its epic.                                *)
Grows ==
    /\ graph' = graph /\ starts' \in 0..MaxStarts /\ budget' \in 0..Budget
    /\ finished' \in [Epics -> SUBSET Nodes] /\ \A e \in Epics : finished[e] \subseteq finished'[e]
    /\ runs' \in Seq(Run) /\ DOMAIN runs \subseteq DOMAIN runs'
    /\ \A r \in DOMAIN runs : runs'[r].epic = runs[r].epic
    /\ traces' \in TracesType /\ DOMAIN traces \subseteq DOMAIN traces'
    /\ \A t \in DOMAIN traces : traces'[t].scope = traces[t].scope
    /\ Done(traces', finished')

LEMMA SaneStays ==
    ASSUME WInv, Grows, NEW r, Sane(r, finished, runs, traces)
    PROVE  Sane(r, finished', runs', traces')
<1>1. r.scope \in Epics
  BY DEF Sane, Executor
<1>2. finished[r.scope] \subseteq finished'[r.scope] /\ finished'[r.scope] \subseteq Nodes
  BY <1>1 DEF Grows
<1> QED
  BY <1>2 DEF Sane, Grows

LEMMA StepsTo ==
    ASSUME WInv, Grows, NEW p \in Procs, NEW r,
           ex' = [ex EXCEPT ![p] = r], Sane(r, finished', runs', traces')
    PROVE  WInv'
<1>1. DOMAIN ex = Procs
  BY DEF WInv
<1>2. ex' = [q \in Procs |-> ex'[q]] /\ \A q \in Procs : ex'[q] = IF q = p THEN r ELSE ex[q]
  BY <1>1
<1>3. \A q \in Procs : Sane(ex[q], finished', runs', traces')
  BY SaneStays DEF WInv
<1>4. \A q \in Procs : Sane(ex'[q], finished', runs', traces')
  BY <1>2, <1>3
<1>5. (\A q \in Procs : Sane(ex[q], finished, runs, traces))'
  BY <1>4 DEF Sane, Grows
<1> QED
  BY <1>2, <1>5 DEF WInv, Grows

LEMMA GrowsWithout ==
    ASSUME WInv, UNCHANGED <<graph, db>>, starts' \in 0..MaxStarts, budget' \in 0..Budget
    PROVE  Grows
BY DEF WInv, Grows, db

(* The statements of the database.                                         *)
LEMMA RunsType ==
    ASSUME NEW rs \in Seq(Run)
    PROVE  Len(rs) \in Nat /\ DOMAIN rs = 1..Len(rs) /\ \A r \in DOMAIN rs : rs[r] \in Run
OBVIOUS

LEMMA TracesFacts ==
    ASSUME NEW ts \in TracesType
    PROVE  Len(ts) \in Nat /\ DOMAIN ts = 1..Len(ts) /\ \A t \in DOMAIN ts : ts[t] \in Trace /\ ts[t].scope \in Epics
<1>1. Len(ts) \in Nat /\ DOMAIN ts = 1..Len(ts) /\ \A t \in DOMAIN ts : ts[t] \in Trace
  BY DEF TracesType
<1>2. \A t \in Trace : t.scope \in Epics
  BY DEF Trace
<1> QED
  BY <1>1, <1>2

LEMMA InsertRunFacts ==
    ASSUME NEW rs \in Seq(Run), NEW e \in Epics, NEW n \in Nodes
    PROVE  /\ InsertRun(rs, e, n) \in Seq(Run)
           /\ DOMAIN rs \subseteq DOMAIN InsertRun(rs, e, n)
           /\ \A r \in DOMAIN rs : InsertRun(rs, e, n)[r] = rs[r]
           /\ Len(rs) + 1 \in DOMAIN InsertRun(rs, e, n)
           /\ InsertRun(rs, e, n)[Len(rs) + 1].epic = e
<1> DEFINE row == [epic |-> e, node |-> n, status |-> "running", gate |-> "none"]
<1>1. row \in Run /\ row.epic = e
  BY DEF Run, RunStatuses, GateStatuses
<1>2. InsertRun(rs, e, n) = Append(rs, row)
  BY DEF InsertRun
<1> HIDE DEF row
<1> QED
  BY <1>1, <1>2

LEMMA OneRunFacts ==
    ASSUME NEW rs \in Seq(Run), NEW r \in DOMAIN rs, NEW row \in Run, row.epic = rs[r].epic
    PROVE  LET u == [rs EXCEPT ![r] = row]
           IN  u \in Seq(Run) /\ DOMAIN u = DOMAIN rs /\ \A q \in DOMAIN rs : u[q].epic = rs[q].epic
<1> DEFINE u == [rs EXCEPT ![r] = row]
<1>1. u \in Seq(Run) /\ DOMAIN u = DOMAIN rs
  OBVIOUS
<1>2. \A q \in DOMAIN rs : u[q].epic = rs[q].epic
  OBVIOUS
<1> QED
  BY <1>1, <1>2

LEMMA CompleteRunFacts ==
    ASSUME NEW rs \in Seq(Run), NEW r \in DOMAIN rs, NEW status \in RunStatuses
    PROVE  LET u == CompleteRun(rs, r, status)
           IN  u \in Seq(Run) /\ DOMAIN u = DOMAIN rs /\ \A q \in DOMAIN rs : u[q].epic = rs[q].epic
<1> DEFINE row == [rs[r] EXCEPT !.status = status]
<1>1. row \in Run /\ row.epic = rs[r].epic
  BY RunsType DEF Run
<1>2. CompleteRun(rs, r, status) = [rs EXCEPT ![r] = row]
  BY DEF CompleteRun
<1> HIDE DEF row
<1> QED
  BY <1>1, <1>2, OneRunFacts

LEMMA SetGateFacts ==
    ASSUME NEW rs \in Seq(Run), NEW r \in DOMAIN rs, NEW gate \in GateStatuses
    PROVE  LET u == SetGate(rs, r, gate)
           IN  /\ u \in Seq(Run) /\ DOMAIN u = DOMAIN rs /\ \A q \in DOMAIN rs : u[q].epic = rs[q].epic
               /\ u[r].gate = gate
<1> DEFINE row == [rs[r] EXCEPT !.gate = gate]
<1>1. row \in Run /\ row.epic = rs[r].epic /\ row.gate = gate
  BY RunsType DEF Run
<1>2. SetGate(rs, r, gate) = [rs EXCEPT ![r] = row]
  BY DEF SetGate
<1> HIDE DEF row
<1>3. [rs EXCEPT ![r] = row][r] = row
  OBVIOUS
<1> QED
  BY <1>1, <1>2, <1>3, OneRunFacts

LEMMA CloseStaleRunsFacts ==
    ASSUME NEW rs \in Seq(Run), NEW e, NEW done
    PROVE  LET u == CloseStaleRuns(rs, e, done)
           IN  u \in Seq(Run) /\ DOMAIN u = DOMAIN rs /\ \A q \in DOMAIN rs : u[q].epic = rs[q].epic
<1> DEFINE status(q) == IF rs[q].node \in done THEN "completed" ELSE "cancelled"
           row(q) == IF q \in OpenRuns(rs) /\ rs[q].epic = e
                     THEN [rs[q] EXCEPT !.status = status(q)] ELSE rs[q]
           u == CloseStaleRuns(rs, e, done)
<1>1. \A q \in DOMAIN rs : row(q) \in Run /\ row(q).epic = rs[q].epic
  <2> SUFFICES ASSUME NEW q \in DOMAIN rs PROVE row(q) \in Run /\ row(q).epic = rs[q].epic
    OBVIOUS
  <2>1. status(q) \in RunStatuses /\ rs[q] \in Run
    BY RunsType DEF RunStatuses
  <2> HIDE DEF status
  <2> QED
    BY <2>1 DEF Run
<1>2. u = [q \in DOMAIN rs |-> row(q)]
  BY DEF CloseStaleRuns
<1> HIDE DEF row, u
<1>3. DOMAIN rs = 1..Len(rs) /\ Len(rs) \in Nat
  BY RunsType
<1>4. u \in [1..Len(rs) -> Run]
  BY <1>1, <1>2, <1>3
<1>5. u \in Seq(Run)
  BY <1>3, <1>4
<1>6. DOMAIN u = DOMAIN rs /\ \A q \in DOMAIN rs : u[q].epic = rs[q].epic
  BY <1>1, <1>2
<1> QED
  BY <1>5, <1>6 DEF u

(* A step that only writes the rows of pipeline_runs.                      *)
LEMMA GrowsRuns ==
    ASSUME WInv, UNCHANGED <<graph, finished, traces>>, starts' \in 0..MaxStarts, budget' \in 0..Budget,
           runs' \in Seq(Run), DOMAIN runs \subseteq DOMAIN runs',
           \A r \in DOMAIN runs : runs'[r].epic = runs[r].epic
    PROVE  Grows
BY DEF WInv, Grows

-----------------------------------------------------------------------------
(* The steps                                                               *)

(* To another place of the walk, at the same node.                         *)
Same(r, s) ==
    /\ r \in Executor /\ r.scope = s.scope /\ r.order = s.order /\ r.at = s.at
    /\ r.completed = s.completed /\ r.trace = s.trace

LEMMA MovesSane ==
    ASSUME WInv, Grows, NEW p \in Procs, NEW r, Same(r, ex[p]), ex[p].pc \in Walking, r.pc \in Walking,
           r.pc \in Busy => ex[p].at <= Len(ex[p].order),
           HasRow(r) => r.row \in DOMAIN runs' /\ runs'[r.row].epic = r.scope
    PROVE  Sane(r, finished', runs', traces')
<1>1. Sane(ex[p], finished', runs', traces')
  BY SaneStays DEF WInv
<1> QED
  BY <1>1 DEF Sane, HasRow, Same, Walking, Busy, Ended, Passed

LEMMA OffType == Off \in Executor
<1>1. /\ << >> \in Seq(Nodes) /\ 1 \in 1..(Len(Listed) + 1) /\ {} \in SUBSET Nodes /\ 0 \in 0..Retries
      /\ "manual" \in Modes
  BY ListedType, RetryType, ModesType
<1> QED
  BY <1>1, L1Type DEF Off, Executor, PCs, Ended

LEMMA ExitSane ==
    ASSUME WInv, Grows, NEW p \in Procs, NEW pc \in {"off", "paused", "failed", "complete"}, Exit(p, pc),
           pc = "complete" => finished'[ex[p].scope] = Nodes
    PROVE  WInv'
<1> DEFINE r == [Off EXCEPT !.pc = pc, !.scope = ex[p].scope]
<1>1. ex' = [ex EXCEPT ![p] = r]
  BY DEF Exit
<1>2. ex[p].scope \in Epics
  BY DEF WInv, Sane, Executor
<1>3. r \in Executor /\ r.pc = pc /\ r.scope = ex[p].scope
  BY <1>2, OffType DEF Executor, PCs, Ended
<1> HIDE DEF r
<1>4. Sane(r, finished', runs', traces')
  BY <1>3 DEF Sane, HasRow, Ended, Walking, Busy
<1> QED
  BY <1>1, <1>4, StepsTo

LEMMA BeginSane ==
    ASSUME WInv, NEW p \in Procs, NEW s \in Epics, NEW k \in {"sync", "async"}, NEW resume \in BOOLEAN,
           NEW m \in Modes, Begin(p, s, k, resume, m)
    PROVE  WInv'
<1> DEFINE order == TopologicalSort(graph)
           pc == IF Refuses(graph, order) THEN "refused"
                 ELSE IF ~resume THEN "trace"
                 ELSE IF k = "async" THEN "cleanup" ELSE "checkpoint"
           r == [pc |-> pc, scope |-> s, kind |-> k, resume |-> resume, mode |-> m,
                 order |-> order, at |-> 1, completed |-> {}, row |-> 0, trace |-> 0, failures |-> 0]
<1>1. ex' = [ex EXCEPT ![p] = r]
  BY DEF Begin
<1>2. Grows
  BY GrowsWithout, BoundsType DEF Begin, WInv, db
<1>3. order \in Seq(Nodes)
  BY TopologicalSortFacts
<1>4. 1 \in 1..(Len(Listed) + 1) /\ 0 \in 0..Retries
  BY ListedType, RetryType
<1>5. pc \in {"refused", "trace", "cleanup", "checkpoint"} /\ (pc = "refused" <=> Refuses(graph, order))
  <2> HIDE DEF order
  <2> QED
    BY DEF Refuses
<1> HIDE DEF order, pc
<1>6. r \in Executor
  BY <1>3, <1>4, <1>5 DEF Executor, PCs, Ended
<1>7. /\ r.pc = pc /\ r.order = order /\ r.at = 1 /\ r.completed = {}
  OBVIOUS
<1> HIDE DEF r
<1>8. Passed(r)
  BY <1>7 DEF Passed
<1>9. Sane(r, finished', runs', traces')
  BY <1>5, <1>6, <1>7, <1>8 DEF Sane, HasRow, Ended, Walking, Busy, order
<1> QED
  BY <1>1, <1>2, <1>9, StepsTo

(* The walk is in the order, and the order lists all nodes.                *)
LEMMA WalkFacts ==
    ASSUME WInv, NEW p \in Procs, ex[p].pc \in Walking
    PROVE  /\ ex[p] \in Executor /\ DOMAIN ex = Procs /\ DOMAIN finished = Epics
           /\ ex[p].scope \in Epics /\ ex[p].at \in 1..(Len(Listed) + 1)
           /\ ex[p].completed \subseteq Nodes
           /\ ex[p].order \in Seq(Nodes) /\ ToSet(ex[p].order) = Nodes /\ Len(ex[p].order) <= Len(Listed)
           /\ Sorted(graph, ex[p].order) /\ ~Unknown(graph)
           /\ Len(ex[p].order) \in Nat /\ Len(Listed) \in Nat
           /\ \A i \in 1..Len(ex[p].order) : i < ex[p].at => ex[p].order[i] \in ex[p].completed
           /\ ex[p].trace \in DOMAIN traces /\ traces[ex[p].trace].scope = ex[p].scope
           /\ Within(p) => Node(p) \in Nodes /\ ex[p].at \in 1..Len(ex[p].order)
           /\ ex[p].pc \in Busy => Within(p)
<1>1. Sane(ex[p], finished, runs, traces) /\ ex[p].pc \notin Ended
  BY DEF WInv, Walking, Ended
<1>2. ex[p].order = TopologicalSort(graph) /\ ~Refuses(graph, ex[p].order) /\ Passed(ex[p]) /\ ex[p] \in Executor
  BY <1>1 DEF Sane
<1>3. ex[p].order \in Seq(Nodes) /\ Len(ex[p].order) \in Nat /\ Len(Listed) \in Nat
  BY <1>2, ListedType DEF Executor
<1>4. ex[p].scope \in Epics /\ ex[p].at \in 1..(Len(Listed) + 1) /\ ex[p].completed \subseteq Nodes
  BY <1>2 DEF Executor
<1>5. Within(p) => Node(p) \in Nodes /\ ex[p].at \in 1..Len(ex[p].order)
  BY <1>3, <1>4 DEF Within, Node
<1>6. /\ ToSet(ex[p].order) = Nodes /\ Len(ex[p].order) <= Len(Listed)
      /\ Sorted(graph, ex[p].order) /\ ~Unknown(graph)
  BY <1>2, TopologicalSortFacts
<1>7. ex[p].pc \in Busy => Within(p)
  BY <1>1 DEF Sane, Within
<1>8. ex[p].trace \in DOMAIN traces /\ traces[ex[p].trace].scope = ex[p].scope
  BY <1>1 DEF Sane
<1> QED
  BY <1>2, <1>3, <1>4, <1>5, <1>6, <1>7, <1>8 DEF WInv, Passed

(* A node in the order comes after all it depends on: those are completed, *)
(* so it is never passed over as blocked.                                  *)
LEMMA NeverBlocked ==
    ASSUME WInv, NEW p \in Procs, ex[p].pc \in Walking, Within(p)
    PROVE  Met(p)
<1> SUFFICES ASSUME NEW d \in graph[Node(p)] PROVE d \in ex[p].completed
  BY DEF Met
<1> DEFINE order == ex[p].order
           at == ex[p].at
<1>1. /\ order \in Seq(Nodes) /\ ToSet(order) = Nodes /\ Sorted(graph, order)
      /\ at \in 1..Len(order) /\ Node(p) \in Nodes /\ ~Unknown(graph)
      /\ \A i \in 1..Len(order) : i < at => order[i] \in ex[p].completed
  BY WalkFacts
<1>2. d \in ToSet(order) /\ Node(p) = order[at]
  BY <1>1 DEF Unknown, Node
<1> HIDE DEF order, at
<1>3. PICK j \in 1..Len(order) : order[j] = d
  BY <1>1, <1>2 DEF ToSet
<1>4. j < at
  BY <1>1, <1>2, <1>3 DEF Sorted
<1> QED
  BY <1>1, <1>3, <1>4

(* Past the last node, all nodes are completed.                            *)
LEMMA AllPassed ==
    ASSUME WInv, IInv, NEW p \in Procs, ex[p].pc \in Walking, ~Within(p)
    PROVE  finished[ex[p].scope] = Nodes
<1>1. /\ ex[p].order \in Seq(Nodes) /\ ToSet(ex[p].order) = Nodes /\ ex[p].scope \in Epics
      /\ ex[p].at \in 1..(Len(Listed) + 1) /\ Len(ex[p].order) \in Nat /\ Len(Listed) \in Nat
      /\ \A i \in 1..Len(ex[p].order) : i < ex[p].at => ex[p].order[i] \in ex[p].completed
  BY WalkFacts
<1>2. \A i \in 1..Len(ex[p].order) : ex[p].order[i] \in ex[p].completed
  BY <1>1 DEF Within
<1>3. Nodes \subseteq ex[p].completed
  <2>1. DOMAIN ex[p].order = 1..Len(ex[p].order)
    BY <1>1
  <2>2. \A n \in Nodes : \E i \in 1..Len(ex[p].order) : ex[p].order[i] = n
    BY <1>1, <2>1 DEF ToSet
  <2> QED
    BY <1>2, <2>2
<1> QED
  BY <1>1, <1>3 DEF IInv, Known, WInv

LEMMA FinishSane ==
    ASSUME WInv, NEW p \in Procs, ex[p].pc \in Walking, Within(p), Finish(p),
           UNCHANGED <<graph, runs, traces, starts, budget>>
    PROVE  WInv'
<1> DEFINE r == [ex[p] EXCEPT !.pc = "walk", !.at = @ + 1, !.completed = @ \cup {Node(p)}]
<1>1. /\ ex[p] \in Executor /\ ex[p].scope \in Epics /\ ex[p].at \in 1..Len(ex[p].order) /\ Node(p) \in Nodes
      /\ Len(ex[p].order) \in Nat /\ Len(ex[p].order) <= Len(Listed) /\ Len(Listed) \in Nat
      /\ ex[p].completed \subseteq Nodes
      /\ \A i \in 1..Len(ex[p].order) : i < ex[p].at => ex[p].order[i] \in ex[p].completed
  BY WalkFacts
<1>2. ex' = [ex EXCEPT ![p] = r]
  BY DEF Finish
<1>3. Grows
  <2>1. finished' \in [Epics -> SUBSET Nodes] /\ \A e \in Epics : finished[e] \subseteq finished'[e]
    BY <1>1 DEF WInv, Finish
  <2>2. Done(traces', finished')
    <3> SUFFICES ASSUME NEW t \in DOMAIN traces, traces[t].status = "completed"
                 PROVE  finished'[traces[t].scope] = Nodes
      BY DEF Done
    <3>1. traces[t].scope \in Epics /\ finished[traces[t].scope] = Nodes
      BY TracesFacts DEF WInv, Done
    <3> QED
      BY <2>1, <3>1
  <2> QED
    BY <2>1, <2>2 DEF Grows, WInv
<1>4. /\ r.scope = ex[p].scope /\ r.order = ex[p].order /\ r.trace = ex[p].trace /\ r.pc = "walk"
      /\ r.at = ex[p].at + 1 /\ r.completed = ex[p].completed \cup {Node(p)}
  BY <1>1 DEF Executor
<1>5. r \in Executor
  <2>1. ex[p].at + 1 \in 1..(Len(Listed) + 1)
    BY <1>1
  <2> QED
    BY <1>1, <2>1 DEF Executor, PCs
<1> HIDE DEF r
<1>6. Passed(r)
  BY <1>1, <1>4 DEF Passed, Node
<1>7. Sane(ex[p], finished', runs', traces')
  BY <1>3, SaneStays DEF WInv
<1>8. Sane(r, finished', runs', traces')
  BY <1>4, <1>5, <1>6, <1>7 DEF Sane, HasRow, Walking, Busy, Ended
<1> QED
  BY <1>2, <1>3, <1>8, StepsTo

LEMMA StepSane == ASSUME WInv, IInv, NEW p \in Procs, Step(p) PROVE WInv'
<1> USE DEF db
<1>0. /\ Sane(ex[p], finished, runs, traces) /\ ex[p] \in Executor /\ ex[p].scope \in Epics
      /\ runs \in Seq(Run) /\ traces \in TracesType
      /\ starts \in 0..MaxStarts /\ budget \in 0..Budget /\ MaxStarts \in Nat /\ Budget \in Nat
      /\ Adverse => budget' \in 0..Budget
  BY BoundsType DEF WInv, Sane, Executor, Adverse
<1>1. CASE Cleanup(p)
  <2> DEFINE closed == CloseStaleRuns(runs, ex[p].scope, finished[ex[p].scope])
  <2>1. closed \in Seq(Run) /\ DOMAIN closed = DOMAIN runs /\ \A r \in DOMAIN runs : closed[r].epic = runs[r].epic
    BY <1>0, CloseStaleRunsFacts
  <2> HIDE DEF closed
  <2>2. CASE Exit(p, "off") /\ UNCHANGED runs
    <3>1. Grows
      BY <1>0, <1>1, <2>2, GrowsWithout DEF Cleanup
    <3> QED
      BY <2>2, <3>1, ExitSane
  <2>3. CASE Goto(p, "cleanup", "checkpoint") /\ runs' = closed
    <3>1. Grows
      BY <1>0, <1>1, <2>1, <2>3, GrowsRuns DEF Cleanup
    <3> DEFINE r == [ex[p] EXCEPT !.pc = "checkpoint"]
    <3>2. ex' = [ex EXCEPT ![p] = r] /\ ex[p].pc = "cleanup"
      BY <2>3 DEF Goto
    <3>3. Same(r, ex[p]) /\ r.pc = "checkpoint"
      BY <1>0 DEF Same, Executor, PCs
    <3> HIDE DEF r
    <3>4. Sane(ex[p], finished', runs', traces')
      BY <3>1, SaneStays DEF WInv
    <3>5. Sane(r, finished', runs', traces')
      BY <3>2, <3>3, <3>4 DEF Sane, HasRow, Same, Ended, Walking, Busy, Passed
    <3> QED
      BY <3>1, <3>2, <3>5, StepsTo
  <2> QED
    BY <1>1, <2>2, <2>3 DEF Cleanup, closed
<1>2. CASE Checkpoint(p)
  <2>1. Grows
    BY <1>0, <1>2, GrowsWithout DEF Checkpoint
  <2>2. CASE Exit(p, "paused")
    BY <2>1, <2>2, ExitSane
  <2>3. CASE ex' = [ex EXCEPT ![p].pc = "trace", ![p].completed = Resumable(ex[p].scope)]
    <3> DEFINE r == [ex[p] EXCEPT !.pc = "trace", !.completed = Resumable(ex[p].scope)]
    <3>1. ex' = [ex EXCEPT ![p] = r] /\ ex[p].pc = "checkpoint"
      BY <1>2, <2>3 DEF Checkpoint
    <3>2. Resumable(ex[p].scope) \in SUBSET Nodes
      BY <1>0 DEF Resumable, WInv
    <3>3. /\ r \in Executor /\ r.scope = ex[p].scope /\ r.order = ex[p].order /\ r.at = ex[p].at
          /\ r.pc = "trace"
      BY <1>0, <3>2 DEF Executor, PCs
    <3> HIDE DEF r
    <3>4. ex[p].at = 1
      BY <1>0, <3>1 DEF Sane
    <3>5. Passed(r)
      BY <3>3, <3>4 DEF Passed
    <3>6. Sane(r, finished', runs', traces')
      BY <1>0, <3>1, <3>3, <3>5 DEF Sane, HasRow, Ended, Walking, Busy
    <3> QED
      BY <2>1, <3>1, <3>6, StepsTo
  <2> QED
    BY <1>2, <2>2, <2>3 DEF Checkpoint
<1>3. CASE ResolveTrace(p)
  <2>1. PICK t : /\ ex' = [ex EXCEPT ![p].pc = "walk", ![p].trace = t]
                 /\ \/ t \in OpenTraces(ex[p].scope) /\ UNCHANGED traces
                    \/ t = Len(traces) + 1 /\ traces' = CreateTrace(ex[p].scope)
    BY <1>3 DEF ResolveTrace
  <2>2. /\ t \in DOMAIN traces' /\ traces'[t].scope = ex[p].scope /\ t \in Nat
        /\ traces' \in TracesType /\ DOMAIN traces \subseteq DOMAIN traces'
        /\ \A u \in DOMAIN traces : traces'[u] = traces[u]
        /\ \A u \in DOMAIN traces' \ DOMAIN traces : traces'[u].status = "running"
    <3>1. CASE t \in OpenTraces(ex[p].scope) /\ UNCHANGED traces
      BY <1>0, <3>1, TracesFacts DEF OpenTraces
    <3>2. CASE t = Len(traces) + 1 /\ traces' = CreateTrace(ex[p].scope)
      <4> DEFINE trace == [scope |-> ex[p].scope, status |-> "running"]
      <4>1. trace \in Trace /\ trace.scope = ex[p].scope /\ trace.status = "running"
        BY <1>0 DEF Trace
      <4>2. traces' = Append(traces, trace) /\ traces \in Seq(Trace)
        BY <1>0, <3>2 DEF CreateTrace, TracesType
      <4> HIDE DEF trace
      <4>3. /\ Append(traces, trace) \in Seq(Trace) /\ DOMAIN traces = 1..Len(traces) /\ Len(traces) \in Nat
            /\ DOMAIN Append(traces, trace) = 1..(Len(traces) + 1)
            /\ Append(traces, trace)[Len(traces) + 1] = trace
            /\ \A u \in 1..Len(traces) : Append(traces, trace)[u] = traces[u]
        BY <4>1, <4>2
      <4>4. \A u \in 1..(Len(traces) + 1) : u \notin 1..Len(traces) => u = Len(traces) + 1
        BY <4>3
      <4> QED
        BY <3>2, <4>1, <4>2, <4>3, <4>4 DEF TracesType
    <3> QED
      BY <2>1, <3>1, <3>2
  <2>3. Done(traces', finished')
    <3> SUFFICES ASSUME NEW u \in DOMAIN traces', traces'[u].status = "completed"
                 PROVE  finished'[traces'[u].scope] = Nodes
      BY DEF Done
    <3>1. u \in DOMAIN traces
      BY <2>2
    <3> QED
      BY <1>3, <2>2, <3>1 DEF Done, WInv, ResolveTrace
  <2>4. Grows
    BY <1>0, <1>3, <2>2, <2>3 DEF Grows, WInv, ResolveTrace
  <2> DEFINE r == [ex[p] EXCEPT !.pc = "walk", !.trace = t]
  <2>5. ex' = [ex EXCEPT ![p] = r] /\ ex[p].pc = "trace"
    BY <1>3, <2>1 DEF ResolveTrace
  <2>6. /\ r \in Executor /\ r.scope = ex[p].scope /\ r.order = ex[p].order /\ r.at = ex[p].at
        /\ r.completed = ex[p].completed /\ r.trace = t /\ r.pc = "walk"
    BY <1>0, <2>2 DEF Executor, PCs
  <2> HIDE DEF r
  <2>7. Sane(r, finished', runs', traces')
    BY <1>0, <2>2, <2>5, <2>6 DEF Sane, HasRow, Ended, Walking, Busy, Passed
  <2> QED
    BY <2>4, <2>5, <2>7, StepsTo
<1>4. CASE PassOver(p)
  <2>1. Grows /\ ex[p].pc = "walk" /\ Within(p)
    BY <1>0, <1>4, GrowsWithout DEF PassOver
  <2>2. Met(p) /\ Node(p) \in ex[p].completed
    BY <1>4, <2>1, NeverBlocked DEF PassOver, Walking
  <2> DEFINE r == [ex[p] EXCEPT !.at = @ + 1]
  <2>3. ex' = [ex EXCEPT ![p] = r]
    BY <1>4 DEF PassOver
  <2>4. /\ ex[p].at \in 1..Len(ex[p].order) /\ Len(ex[p].order) \in Nat /\ Len(ex[p].order) <= Len(Listed)
        /\ Len(Listed) \in Nat
        /\ \A i \in 1..Len(ex[p].order) : i < ex[p].at => ex[p].order[i] \in ex[p].completed
    BY <2>1, WalkFacts DEF Walking
  <2>5. ex[p].at + 1 \in 1..(Len(Listed) + 1)
    BY <2>4
  <2>6. /\ r \in Executor /\ r.scope = ex[p].scope /\ r.order = ex[p].order /\ r.at = ex[p].at + 1
        /\ r.completed = ex[p].completed /\ r.trace = ex[p].trace /\ r.pc = "walk"
    BY <1>0, <2>1, <2>5 DEF Executor
  <2> HIDE DEF r
  <2>7. Passed(r)
    BY <2>2, <2>4, <2>6 DEF Passed, Node
  <2>8. Sane(r, finished', runs', traces')
    BY <1>0, <1>4, <2>1, <2>6, <2>7 DEF Sane, HasRow, Ended, Walking, Busy, PassOver
  <2> QED
    BY <2>1, <2>3, <2>8, StepsTo
<1>5. CASE SkipOptional(p)
  BY <1>5, FinishSane DEF SkipOptional, AtNode, Walking
<1>6. CASE SaveNode(p)
  <2>1. ex[p].pc = "save" /\ Within(p)
    BY <1>6, WalkFacts DEF SaveNode, Walking, Busy
  <2> QED
    BY <1>6, <2>1, FinishSane DEF SaveNode, Walking
<1>7. CASE OpenGate(p) \/ Escalate(p) \/ (StartNode(p) /\ ex[p].kind = "async")
           \/ ((ClaudeSucceeds(p) \/ DispatchFails(p) \/ OutputMissing(p)) /\ ex[p].kind = "sync")
  <2>1. PICK pc \in {"gate", "dispatch", "pass", "fail"} : InsertRow(p, pc)
    BY <1>7 DEF OpenGate, Escalate, StartNode, ClaudeSucceeds, DispatchFails, OutputMissing, Returned
  <2>2. /\ ex[p].pc \in Walking /\ Within(p) /\ UNCHANGED <<graph, finished, traces, starts>>
        /\ budget' \in 0..Budget
    <3>1. ex[p].pc \in Walking /\ (ex[p].pc \in Busy \/ Within(p)) /\ UNCHANGED <<graph, finished, traces, starts>>
      BY <1>7 DEF OpenGate, Escalate, StartNode, ClaudeSucceeds, DispatchFails, OutputMissing, Returned,
                  Ready, AtNode, Walking, Busy
    <3>2. budget' \in 0..Budget
      BY <1>0, <1>7 DEF OpenGate, Escalate, StartNode, ClaudeSucceeds, DispatchFails, OutputMissing
    <3> QED
      BY <3>1, <3>2, WalkFacts
  <2>3. Node(p) \in Nodes /\ Len(runs) \in Nat /\ ex[p].at <= Len(ex[p].order)
    BY <1>0, <2>2, WalkFacts, RunsType DEF Within
  <2>4. runs' = InsertRun(runs, ex[p].scope, Node(p))
    BY <2>1 DEF InsertRow
  <2>5. /\ runs' \in Seq(Run) /\ DOMAIN runs \subseteq DOMAIN runs'
        /\ \A r \in DOMAIN runs : runs'[r].epic = runs[r].epic
        /\ Len(runs) + 1 \in DOMAIN runs' /\ runs'[Len(runs) + 1].epic = ex[p].scope
    BY <1>0, <2>3, <2>4, InsertRunFacts
  <2>6. Grows
    BY <1>0, <2>2, <2>5, GrowsRuns
  <2> DEFINE r == [ex[p] EXCEPT !.pc = pc, !.row = Len(runs) + 1, !.failures = 0]
  <2>7. ex' = [ex EXCEPT ![p] = r]
    BY <2>1 DEF InsertRow
  <2>8. Same(r, ex[p]) /\ r.pc = pc /\ r.row = Len(runs) + 1
    <3>1. 0 \in 0..Retries /\ Len(runs) + 1 \in Nat /\ pc \in PCs
      BY <2>3, RetryType DEF PCs
    <3> QED
      BY <1>0, <3>1 DEF Same, Executor
  <2> HIDE DEF r
  <2>9. Sane(r, finished', runs', traces')
    BY <2>2, <2>3, <2>5, <2>6, <2>8, MovesSane DEF Walking, Same
  <2> QED
    BY <2>6, <2>7, <2>9, StepsTo
<1>8. CASE (StartNode(p) /\ ex[p].kind # "async")
           \/ ((ClaudeSucceeds(p) \/ DispatchFails(p) \/ OutputMissing(p)) /\ ex[p].kind # "sync")
           \/ ClaudeFails(p)
  <2>1. /\ ex[p].pc \in {"walk", "dispatch"} /\ Within(p)
        /\ UNCHANGED <<graph, db, starts>> /\ budget' \in 0..Budget
    <3>1. ex[p].pc \in {"walk", "dispatch"} /\ (ex[p].pc = "dispatch" \/ Within(p)) /\ UNCHANGED <<graph, db, starts>>
      BY <1>8 DEF StartNode, ClaudeSucceeds, DispatchFails, OutputMissing, ClaudeFails, Returned, Ready, AtNode
    <3>2. budget' \in 0..Budget
      BY <1>0, <1>8 DEF StartNode, ClaudeSucceeds, DispatchFails, OutputMissing, ClaudeFails
    <3> QED
      BY <3>1, <3>2, WalkFacts DEF Walking, Busy
  <2>2. Grows
    BY <1>0, <2>1, GrowsWithout
  <2>3. PICK pc \in {"dispatch", "pass", "fail"}, n \in 0..Retries :
            /\ ex' = [ex EXCEPT ![p] = [ex[p] EXCEPT !.pc = pc, !.failures = n]]
            /\ pc \in {"pass", "fail"} => ex[p].pc = "dispatch" /\ ex[p].kind = "async"
            /\ ex[p].kind = "async" => ex[p].pc = "dispatch"
    <3>1. CASE StartNode(p) /\ ex[p].kind # "async"
      <4>1. ex' = [ex EXCEPT ![p] = [ex[p] EXCEPT !.pc = "dispatch"]]
        BY <3>1 DEF StartNode
      <4>2. [ex[p] EXCEPT !.pc = "dispatch"] = [ex[p] EXCEPT !.pc = "dispatch", !.failures = ex[p].failures]
        BY <1>0 DEF Executor
      <4>3. ex[p].failures \in 0..Retries
        BY <1>0 DEF Executor
      <4> QED
        BY <3>1, <4>1, <4>2, <4>3
    <3>2. CASE (ClaudeSucceeds(p) \/ DispatchFails(p) \/ OutputMissing(p)) /\ ex[p].kind # "sync"
      <4>1. PICK pc \in {"pass", "fail"} : ex[p].pc = "dispatch" /\ ex' = [ex EXCEPT ![p].pc = pc, ![p].failures = 0]
        BY <3>2 DEF ClaudeSucceeds, DispatchFails, OutputMissing, Returned
      <4>2. ex' = [ex EXCEPT ![p] = [ex[p] EXCEPT !.pc = pc, !.failures = 0]]
        BY <4>1
      <4>4. 0 \in 0..Retries
        BY RetryType
      <4>3. ex[p].kind = "async"
        BY <1>0, <3>2 DEF Executor
      <4> QED
        BY <4>1, <4>2, <4>3, <4>4
    <3>3. CASE ClaudeFails(p)
      <4>1. ex' = [ex EXCEPT ![p] = [ex[p] EXCEPT !.failures = ex[p].failures + 1]] /\ ex[p].pc = "dispatch"
        BY <3>3 DEF ClaudeFails
      <4>2. ex[p].failures + 1 \in 0..Retries
        <5>1. ex[p].failures \in 0..Retries
          BY <1>0 DEF Executor
        <5>2. ex[p].failures < Retries
          BY <3>3 DEF ClaudeFails
        <5> QED
          BY <5>1, <5>2, RetryType
      <4>3. [ex[p] EXCEPT !.failures = ex[p].failures + 1]
            = [ex[p] EXCEPT !.pc = "dispatch", !.failures = ex[p].failures + 1]
        BY <1>0, <4>1 DEF Executor
      <4> QED
        BY <4>1, <4>2, <4>3
    <3> QED
      BY <1>8, <3>1, <3>2, <3>3
  <2> DEFINE r == [ex[p] EXCEPT !.pc = pc, !.failures = n]
  <2>4. Same(r, ex[p]) /\ r.pc = pc /\ r.row = ex[p].row /\ r.kind = ex[p].kind
    BY <1>0, <2>3 DEF Same, Executor, PCs
  <2>5. ex[p].at <= Len(ex[p].order) /\ ex' = [ex EXCEPT ![p] = r]
    BY <2>1, <2>3 DEF Within
  <2> HIDE DEF r
  <2>6. HasRow(r) => r.row \in DOMAIN runs' /\ runs'[r.row].epic = r.scope
    <3>1. HasRow(r) => HasRow(ex[p])
      BY <2>3, <2>4 DEF HasRow
    <3> QED
      BY <1>0, <2>1, <2>4, <3>1 DEF Sane, Same
  <2>7. Sane(r, finished', runs', traces')
    BY <2>1, <2>2, <2>3, <2>4, <2>5, <2>6, MovesSane DEF Walking
  <2> QED
    BY <2>2, <2>5, <2>7, StepsTo
<1>9. CASE CompleteRow(p) \/ FailRow(p)
  <2>1. PICK here \in {"pass", "fail"}, there \in {"save", "failTrace"}, status \in {"completed", "failed"} :
            Goto(p, here, there) /\ runs' = CompleteRun(runs, ex[p].row, status)
    BY <1>9 DEF CompleteRow, FailRow
  <2>2. UNCHANGED <<graph, finished, traces, starts, budget>>
    BY <1>9 DEF CompleteRow, FailRow
  <2>3. ex[p].pc = here /\ ex[p].row \in DOMAIN runs
    BY <1>0, <2>1 DEF Goto, Sane, HasRow
  <2>4. Grows
    <3>1. runs' \in Seq(Run) /\ DOMAIN runs' = DOMAIN runs /\ \A r \in DOMAIN runs : runs'[r].epic = runs[r].epic
      <4>1. status \in RunStatuses
        BY DEF RunStatuses
      <4> QED
        BY <1>0, <2>1, <2>3, <4>1, CompleteRunFacts
    <3> QED
      BY <1>0, <2>2, <3>1, GrowsRuns
  <2> DEFINE r == [ex[p] EXCEPT !.pc = there]
  <2>5. ex' = [ex EXCEPT ![p] = r]
    BY <2>1 DEF Goto
  <2>6. Same(r, ex[p]) /\ r.pc = there
    BY <1>0 DEF Same, Executor, PCs
  <2>7. ex[p].at <= Len(ex[p].order)
    BY <2>3, WalkFacts DEF Walking, Busy, Within
  <2> HIDE DEF r
  <2>8. Sane(r, finished', runs', traces')
    BY <2>3, <2>4, <2>6, <2>7, MovesSane DEF Walking, HasRow
  <2> QED
    BY <2>4, <2>5, <2>8, StepsTo
<1>10. CASE MarkGate(p)
  <2>1. ex[p].row \in DOMAIN runs
    BY <1>0, <1>10 DEF MarkGate, Sane, HasRow
  <2>2. runs' \in Seq(Run) /\ DOMAIN runs' = DOMAIN runs /\ \A r \in DOMAIN runs : runs'[r].epic = runs[r].epic
    <3>1. "waiting_approval" \in GateStatuses
      BY DEF GateStatuses
    <3> QED
      BY <1>0, <1>10, <2>1, <3>1, SetGateFacts DEF MarkGate
  <2>3. Grows
    BY <1>0, <1>10, <2>2, GrowsRuns DEF MarkGate
  <2> QED
    BY <1>10, <2>3, ExitSane DEF MarkGate
<1>11. CASE Decline(p)
  <2>1. Grows
    BY <1>0, <1>11, GrowsWithout DEF Decline
  <2> QED
    BY <1>11, <2>1, ExitSane DEF Decline
<1>12. CASE FailTrace(p) \/ EndWalk(p)
  <2>1. PICK pc \in {"failed", "complete"}, status \in {"failed", "completed"} :
            /\ Exit(p, pc) /\ traces' = [traces EXCEPT ![ex[p].trace].status = status]
            /\ pc = "complete" \/ status = "completed" => EndWalk(p)
    BY <1>12 DEF FailTrace, EndWalk
  <2>2. ex[p].pc \in Walking /\ UNCHANGED <<graph, finished, runs, starts, budget>>
    BY <1>12 DEF FailTrace, EndWalk, Walking
  <2>3. ex[p].trace \in DOMAIN traces /\ traces[ex[p].trace].scope = ex[p].scope
    BY <2>2, WalkFacts
  <2>4. pc = "complete" \/ status = "completed" => finished[ex[p].scope] = Nodes
    BY <2>1, <2>2, AllPassed DEF EndWalk
  <2> DEFINE t == ex[p].trace
             trace == [traces[t] EXCEPT !.status = status]
  <2>5. trace \in Trace /\ trace.scope = ex[p].scope /\ trace.status = status
    BY <1>0, <2>3, TracesFacts DEF Trace
  <2>6. traces' = [traces EXCEPT ![t] = trace]
    BY <2>1
  <2> HIDE DEF trace
  <2>7. /\ traces' \in TracesType /\ DOMAIN traces' = DOMAIN traces
        /\ \A u \in DOMAIN traces : traces'[u] = IF u = t THEN trace ELSE traces[u]
    BY <1>0, <2>3, <2>5, <2>6 DEF TracesType
  <2>8. Done(traces', finished')
    <3> SUFFICES ASSUME NEW u \in DOMAIN traces, traces'[u].status = "completed"
                 PROVE  finished'[traces'[u].scope] = Nodes
      BY <2>7 DEF Done
    <3>1. CASE u = t
      BY <2>2, <2>4, <2>5, <2>7, <3>1
    <3>2. CASE u # t
      BY <2>2, <2>7, <3>2 DEF Done, WInv
    <3> QED
      BY <3>1, <3>2
  <2>9. Grows
    BY <1>0, <2>2, <2>3, <2>5, <2>7, <2>8 DEF Grows, WInv
  <2> QED
    BY <2>1, <2>2, <2>4, <2>9, ExitSane
<1>13. ex[p].kind \in {"sync", "async"}
  BY <1>0 DEF Executor
<1> QED
  BY <1>1, <1>2, <1>3, <1>4, <1>5, <1>6, <1>7, <1>8, <1>9, <1>10, <1>11, <1>12, <1>13 DEF Step

LEMMA InitWInv == Init => WInv
<1> SUFFICES ASSUME Init PROVE WInv
  OBVIOUS
<1>1. Sane(Off, finished, runs, traces)
  BY OffType DEF Sane, HasRow, Off, Ended, Walking, Busy
<1>2. /\ graph \in Graphs /\ finished \in [Epics -> SUBSET Nodes]
      /\ starts \in 0..MaxStarts /\ budget \in 0..Budget
  BY BoundsType DEF Init
<1>3. runs \in Seq(Run) /\ traces \in TracesType /\ DOMAIN traces = {}
  BY DEF Init, TracesType
<1>4. ex = [p \in Procs |-> ex[p]] /\ \A p \in Procs : ex[p] = Off
  BY DEF Init
<1> QED
  BY <1>1, <1>2, <1>3, <1>4 DEF WInv, Done

LEMMA NextWInv == ASSUME WInv, IInv, [Next]_vars PROVE WInv'
<1> USE DEF db
<1>0. /\ starts \in 0..MaxStarts /\ budget \in 0..Budget /\ MaxStarts \in Nat /\ Budget \in Nat
      /\ Adverse => budget' \in 0..Budget
  BY BoundsType DEF WInv, Adverse
<1>1. ASSUME NEW p \in Procs, Step(p) PROVE WInv'
  BY <1>1, StepSane
<1>2. ASSUME NEW p \in Procs, Kill(p) PROVE WInv'
  <2>1. Grows
    BY <1>0, <1>2, GrowsWithout DEF Kill
  <2> QED
    BY <1>2, <2>1, ExitSane DEF Kill
<1>3. ASSUME NEW p \in Procs, NEW s \in Epics, NEW k \in {"sync", "async"}, NEW resume \in BOOLEAN, NEW m \in Modes,
             Begin(p, s, k, resume, m)
      PROVE  WInv'
  BY <1>3, BeginSane
<1>4. ASSUME NEW r \in DOMAIN runs, Resolve(r) PROVE WInv'
  <2>1. runs \in Seq(Run)
    BY DEF WInv
  <2>2. PICK gate \in {"approved", "rejected"} : runs' = SetGate(runs, r, gate)
    BY <1>4 DEF Resolve
  <2>3. runs' \in Seq(Run) /\ DOMAIN runs' = DOMAIN runs /\ \A q \in DOMAIN runs : runs'[q].epic = runs[q].epic
    <3>1. gate \in GateStatuses
      BY DEF GateStatuses
    <3> QED
      BY <2>1, <2>2, <3>1, SetGateFacts
  <2>4. Grows
    BY <1>0, <1>4, <2>3, GrowsRuns DEF Resolve
  <2>5. \A p \in Procs : Sane(ex[p], finished', runs', traces')
    BY <2>4, SaneStays DEF WInv
  <2>6. (\A p \in Procs : Sane(ex[p], finished, runs, traces))'
    BY <1>4, <2>5 DEF Sane, Resolve
  <2> QED
    BY <1>4, <2>4, <2>6 DEF WInv, Grows, Resolve
<1>5. CASE UNCHANGED vars
  <2>1. UNCHANGED <<graph, finished, runs, traces, ex, starts, budget>>
    BY <1>5 DEF vars
  <2>2. (\A p \in Procs : Sane(ex[p], finished, runs, traces))'
    BY <2>1 DEF WInv, Sane
  <2> QED
    BY <2>1, <2>2 DEF WInv, Done
<1> QED
  BY <1>1, <1>2, <1>3, <1>4, <1>5 DEF Next

LEMMA Inductive == Spec => [](IInv /\ WInv)
<1>1. IInv /\ WInv /\ [Next]_vars => (IInv /\ WInv)'
  BY NextIInv, NextWInv
<1>2. Init => IInv /\ WInv
  BY InitIInv, InitWInv
<1> QED
  BY <1>1, <1>2, PTL DEF Spec

(* The database, the executors and their rows and traces are what they     *)
(* should be: a row an executor is about to close, a trace it is about to  *)
(* complete, is there and is of its scope.                                 *)
THEOREM TypeCorrect == Spec => []TypeOK
<1>1. WInv => TypeOK
  <2> SUFFICES ASSUME WInv PROVE TypeOK
    OBVIOUS
  <2>1. \A p \in Procs : Sane(ex[p], finished, runs, traces)
    BY DEF WInv
  <2>2. ex \in [Procs -> Executor]
    BY <2>1 DEF WInv, Sane
  <2>3. ASSUME NEW p \in Procs
        PROVE  /\ ex[p].pc \in {"gate", "pass", "fail"} =>
                     ex[p].row \in DOMAIN runs /\ runs[ex[p].row].epic = ex[p].scope
               /\ ex[p].pc \in PCs \ (Ended \cup {"cleanup", "checkpoint", "trace"}) =>
                     ex[p].trace \in DOMAIN traces /\ traces[ex[p].trace].scope = ex[p].scope
    BY <2>1 DEF Sane, HasRow, Walking, PCs, Ended
  <2> QED
    BY <2>2, <2>3 DEF TypeOK, WInv, TracesType, Trace
<1> QED
  BY <1>1, Inductive, PTL

(* topological_sort: an executor walks all nodes, each after those it      *)
(* depends on; one that is refused has a dependency nobody knows, or a     *)
(* cycle.                                                                  *)
THEOREM OrderHolds == Spec => []OrderIsSound
<1>1. WInv => OrderIsSound
  <2> SUFFICES ASSUME WInv, NEW p \in Procs
               PROVE  /\ ex[p].pc = "refused" => Unknown(graph) \/ ~Acyclic
                      /\ ex[p].pc \notin Ended =>
                            /\ ~Unknown(graph) /\ ToSet(ex[p].order) = Nodes
                            /\ \A i, j \in DOMAIN ex[p].order : ex[p].order[j] \in graph[ex[p].order[i]] => j < i
    BY DEF OrderIsSound
  <2>1. Sane(ex[p], finished, runs, traces)
    BY DEF WInv
  <2>2. ex[p].pc = "refused" => Unknown(graph) \/ ~Acyclic
    BY <2>1, TopologicalSortFacts DEF Sane, Acyclic, AcyclicGraph
  <2>3. ASSUME ex[p].pc \notin Ended
        PROVE  /\ ~Unknown(graph) /\ ToSet(ex[p].order) = Nodes
               /\ \A i, j \in DOMAIN ex[p].order : ex[p].order[j] \in graph[ex[p].order[i]] => j < i
    <3> DEFINE order == ex[p].order
    <3>1. order = TopologicalSort(graph) /\ ~Refuses(graph, order)
      BY <2>1, <2>3 DEF Sane
    <3>2. order \in Seq(Nodes) /\ Sorted(graph, order) /\ ToSet(order) = Nodes /\ ~Unknown(graph)
      BY <3>1, TopologicalSortFacts
    <3> HIDE DEF order
    <3>3. \A i, j \in DOMAIN order : order[j] \in graph[order[i]] => j < i
      BY <3>2 DEF Sorted
    <3> QED
      BY <3>2, <3>3 DEF order
  <2> QED
    BY <2>2, <2>3
<1> QED
  BY <1>1, Inductive, PTL

(* "Pipeline complete", and a trace that is completed, mean that all nodes *)
(* of the scope are finished, however many executors share the scope or    *)
(* the trace.                                                              *)
THEOREM CompleteHolds == Spec => []CompleteMeansAll
<1>1. WInv => CompleteMeansAll
  BY DEF WInv, Sane, Done, CompleteMeansAll
<1> QED
  BY <1>1, Inductive, PTL

-----------------------------------------------------------------------------
(* Questions                                                               *)

(* A row that an executor is about to close, or to make a gate, is not a    *)
(* gate yet and belongs to no other executor.                               *)
Owned ==
    \A p \in Procs : HasRow(ex[p]) =>
        /\ runs[ex[p].row].gate = "none"
        /\ \A q \in Procs \ {p} : HasRow(ex[q]) => ex[q].row # ex[p].row

(* What a step of an executor, which becomes r, does to the rows.           *)
RowStep(p, r) ==
    /\ ex' = [ex EXCEPT ![p] = r]
    /\ \/ /\ UNCHANGED runs
          /\ HasRow(r) => HasRow(ex[p]) /\ r.row = ex[p].row
       \/ /\ runs' = InsertRun(runs, ex[p].scope, Node(p))
          /\ r.row = Len(runs) + 1
       \/ /\ HasRow(ex[p]) /\ ~HasRow(r)
          /\ \/ \E status : runs' = CompleteRun(runs, ex[p].row, status)
             \/ runs' = SetGate(runs, ex[p].row, "waiting_approval")
       \/ /\ ~HasRow(r)
          /\ \E done : runs' = CloseStaleRuns(runs, ex[p].scope, done)

(* A question that is asked stays, and so does an answer.                   *)
Waits(rs, r) == rs[r].gate = "waiting_approval" /\ rs[r].status \notin {"cancelled", "failed"}
Answered(rs, r) == rs[r].gate \in {"approved", "rejected"}

Stand(old, new) ==
    \A r \in DOMAIN old :
        /\ r \in DOMAIN new /\ new[r].epic = old[r].epic
        /\ Waits(old, r) => Waits(new, r) \/ Answered(new, r)
        /\ Answered(old, r) => new[r].gate = old[r].gate
        /\ old[r].gate = "none" => new[r].gate = "none" \/ new[r].gate = "waiting_approval"

LEMMA InsertedRow ==
    ASSUME NEW rs \in Seq(Run), NEW e, NEW n
    PROVE  LET u == InsertRun(rs, e, n)
           IN  /\ \A r \in DOMAIN rs : r \in DOMAIN u /\ u[r] = rs[r]
               /\ Len(rs) + 1 \notin DOMAIN rs /\ u[Len(rs) + 1].gate = "none"
<1> DEFINE row == [epic |-> e, node |-> n, status |-> "running", gate |-> "none"]
<1>1. rs \in Seq(Run \cup {row})
  OBVIOUS
<1>2. row.gate = "none" /\ InsertRun(rs, e, n) = Append(rs, row)
  BY DEF InsertRun
<1> HIDE DEF row
<1>3. /\ \A r \in DOMAIN rs : r \in DOMAIN Append(rs, row) /\ Append(rs, row)[r] = rs[r]
      /\ Len(rs) + 1 \notin DOMAIN rs /\ Append(rs, row)[Len(rs) + 1] = row
  BY <1>1
<1> QED
  BY <1>2, <1>3

LEMMA RowStepKeeps ==
    ASSUME WInv, Owned, NEW p \in Procs, NEW r, RowStep(p, r)
    PROVE  Stand(runs, runs') /\ Owned'
<1>0. /\ DOMAIN ex = Procs /\ runs \in Seq(Run)
      /\ \A q \in Procs : HasRow(ex[q]) => ex[q].row \in DOMAIN runs
      /\ \A i \in DOMAIN runs : DOMAIN runs[i] = {"epic", "node", "status", "gate"}
  BY RunsType DEF WInv, Sane, Run
<1>1. \A q \in Procs : ex'[q] = IF q = p THEN r ELSE ex[q]
  BY <1>0 DEF RowStep
<1> DEFINE mine == ex[p].row
<1>2. CASE UNCHANGED runs /\ (HasRow(r) => HasRow(ex[p]) /\ r.row = mine)
  <2>1. Stand(runs, runs')
    BY <1>2 DEF Stand
  <2>2. Owned'
    BY <1>1, <1>2 DEF Owned, HasRow
  <2> QED
    BY <2>1, <2>2
<1>3. CASE runs' = InsertRun(runs, ex[p].scope, Node(p)) /\ r.row = Len(runs) + 1
  <2>1. /\ \A i \in DOMAIN runs : i \in DOMAIN runs' /\ runs'[i] = runs[i]
        /\ Len(runs) + 1 \notin DOMAIN runs /\ runs'[Len(runs) + 1].gate = "none"
    BY <1>0, <1>3, InsertedRow
  <2>2. Stand(runs, runs')
    BY <2>1 DEF Stand, Waits
  <2>3. Owned'
    BY <1>0, <1>1, <1>3, <2>1 DEF Owned, HasRow
  <2> QED
    BY <2>2, <2>3
<1>4. ASSUME HasRow(ex[p]), ~HasRow(r), NEW status, runs' = CompleteRun(runs, mine, status)
      PROVE  Stand(runs, runs') /\ Owned'
  <2>1. /\ DOMAIN runs' = DOMAIN runs
        /\ \A i \in DOMAIN runs : /\ i # mine => runs'[i] = runs[i]
                                  /\ runs'[i].gate = runs[i].gate /\ runs'[i].epic = runs[i].epic
    BY <1>0, <1>4 DEF CompleteRun
  <2>2. runs[mine].gate = "none"
    BY <1>4 DEF Owned
  <2>3. Stand(runs, runs')
    BY <2>1, <2>2 DEF Stand, Waits, Answered
  <2>4. Owned'
    BY <1>0, <1>1, <1>4, <2>1 DEF Owned, HasRow
  <2> QED
    BY <2>3, <2>4
<1>5. CASE HasRow(ex[p]) /\ ~HasRow(r) /\ runs' = SetGate(runs, mine, "waiting_approval")
  <2>1. /\ DOMAIN runs' = DOMAIN runs
        /\ \A i \in DOMAIN runs : /\ i # mine => runs'[i] = runs[i]
                                  /\ runs'[i].epic = runs[i].epic
                                  /\ i = mine => runs'[i].gate = "waiting_approval"
    BY <1>0, <1>5 DEF SetGate
  <2>2. runs[mine].gate = "none"
    BY <1>5 DEF Owned
  <2>3. Stand(runs, runs')
    BY <2>1, <2>2 DEF Stand, Waits, Answered
  <2>4. Owned'
    BY <1>0, <1>1, <1>5, <2>1 DEF Owned, HasRow
  <2> QED
    BY <2>3, <2>4
<1>6. ASSUME ~HasRow(r), NEW done, runs' = CloseStaleRuns(runs, ex[p].scope, done)
      PROVE  Stand(runs, runs') /\ Owned'
  <2>1. /\ DOMAIN runs' = DOMAIN runs
        /\ \A i \in DOMAIN runs : /\ i \notin OpenRuns(runs) => runs'[i] = runs[i]
                                  /\ runs'[i].gate = runs[i].gate /\ runs'[i].epic = runs[i].epic
    BY <1>0, <1>6 DEF CloseStaleRuns
  <2>2. \A i \in OpenRuns(runs) : runs[i].gate # "waiting_approval"
    BY DEF OpenRuns
  <2>3. Stand(runs, runs')
    BY <2>1, <2>2 DEF Stand, Waits, Answered
  <2>4. Owned'
    BY <1>0, <1>1, <1>6, <2>1 DEF Owned, HasRow
  <2> QED
    BY <2>3, <2>4
<1> QED
  BY <1>2, <1>3, <1>4, <1>5, <1>6 DEF RowStep

(* Every step of an executor is such a step.                                *)
LEMMA StepsRow == ASSUME WInv, NEW p \in Procs, Step(p) PROVE \E r : RowStep(p, r)
<1> USE DEF Fields, db
<1>0. DOMAIN ex = Procs /\ DOMAIN ex[p] = Fields /\ ex[p].kind \in {"sync", "async"}
  BY DEF WInv, Sane, Executor
<1>1. ASSUME NEW pc, pc \in Ended, Exit(p, pc)
      PROVE  \E r : ex' = [ex EXCEPT ![p] = r] /\ ~HasRow(r)
  <2> DEFINE r == [Off EXCEPT !.pc = pc, !.scope = ex[p].scope]
  <2>1. r.pc = pc /\ ex' = [ex EXCEPT ![p] = r]
    BY <1>1 DEF Off, Exit
  <2> HIDE DEF r
  <2> QED
    BY <1>1, <2>1 DEF HasRow, Ended
(* The executor keeps its row, or has none.                                 *)
<1>2. ASSUME NEW r, ex' = [ex EXCEPT ![p] = r], UNCHANGED runs,
             HasRow(r) => HasRow(ex[p]) /\ r.row = ex[p].row
      PROVE  \E q : RowStep(p, q)
  BY <1>2 DEF RowStep
<1>3. ASSUME NEW pc, InsertRow(p, pc) PROVE \E r : RowStep(p, r)
  <2> DEFINE r == [ex[p] EXCEPT !.pc = pc, !.row = Len(runs) + 1, !.failures = 0]
  <2>1. ex' = [ex EXCEPT ![p] = r] /\ r.row = Len(runs) + 1
        /\ runs' = InsertRun(runs, ex[p].scope, Node(p))
    BY <1>0, <1>3 DEF InsertRow
  <2> HIDE DEF r
  <2> QED
    BY <2>1 DEF RowStep
<1>4. ASSUME NEW pc \in Ended, Exit(p, pc), UNCHANGED runs PROVE \E r : RowStep(p, r)
  BY <1>1, <1>2, <1>4
<1>5. ASSUME NEW here, NEW pc, Goto(p, here, pc)
      PROVE  /\ ex[p].pc = here
             /\ \E r : ex' = [ex EXCEPT ![p] = r] /\ r.pc = pc /\ r.row = ex[p].row /\ r.kind = ex[p].kind
  <2> DEFINE r == [ex[p] EXCEPT !.pc = pc]
  <2>1. ex' = [ex EXCEPT ![p] = r] /\ r.pc = pc /\ r.row = ex[p].row /\ r.kind = ex[p].kind
    BY <1>0, <1>5 DEF Goto
  <2> HIDE DEF r
  <2> QED
    BY <1>5, <2>1 DEF Goto
<1>6. CASE Cleanup(p)
  <2>1. CASE Exit(p, "off") /\ UNCHANGED runs
    BY <1>4, <2>1 DEF Ended
  <2>2. ASSUME NEW done, Goto(p, "cleanup", "checkpoint"),
               runs' = CloseStaleRuns(runs, ex[p].scope, done)
        PROVE  \E r : RowStep(p, r)
    BY <1>5, <2>2 DEF RowStep, HasRow
  <2> QED
    BY <1>6, <2>1, <2>2 DEF Cleanup
<1>7. CASE Checkpoint(p)
  <2>1. CASE Awaited(p)
    BY <1>4, <1>7, <2>1 DEF Checkpoint, Ended
  <2>2. CASE ~Awaited(p)
    <3> DEFINE r == [ex[p] EXCEPT !.pc = "trace", !.completed = Resumable(ex[p].scope)]
    <3>1. ex' = [ex EXCEPT ![p] = r] /\ r.pc = "trace" /\ UNCHANGED runs
      BY <1>0, <1>7, <2>2 DEF Checkpoint
    <3> HIDE DEF r
    <3> QED
      BY <1>2, <3>1 DEF HasRow
  <2> QED
    BY <2>1, <2>2
<1>8. CASE ResolveTrace(p)
  <2>1. PICK t : ex' = [ex EXCEPT ![p].pc = "walk", ![p].trace = t]
    BY <1>8 DEF ResolveTrace
  <2> DEFINE r == [ex[p] EXCEPT !.pc = "walk", !.trace = t]
  <2>2. ex' = [ex EXCEPT ![p] = r] /\ r.pc = "walk"
    BY <1>0, <2>1
  <2>3. UNCHANGED runs
    BY <1>8 DEF ResolveTrace
  <2> HIDE DEF r
  <2> QED
    BY <1>2, <2>2, <2>3 DEF HasRow
<1>9. CASE PassOver(p)
  <2> DEFINE r == [ex[p] EXCEPT !.at = ex[p].at + 1]
  <2>1. ex' = [ex EXCEPT ![p] = r] /\ r.pc = "walk" /\ UNCHANGED runs
    BY <1>0, <1>9 DEF PassOver
  <2> HIDE DEF r
  <2> QED
    BY <1>2, <2>1 DEF HasRow
<1>10. CASE SkipOptional(p) \/ SaveNode(p)
  <2> DEFINE r == [ex[p] EXCEPT !.pc = "walk", !.at = ex[p].at + 1, !.completed = ex[p].completed \cup {Node(p)}]
  <2>1. ex' = [ex EXCEPT ![p] = r] /\ r.pc = "walk" /\ UNCHANGED runs
    BY <1>0, <1>10 DEF SkipOptional, SaveNode, Finish
  <2> HIDE DEF r
  <2> QED
    BY <1>2, <2>1 DEF HasRow
<1>11. CASE OpenGate(p) \/ Escalate(p)
  BY <1>3, <1>11 DEF OpenGate, Escalate
<1>12. CASE MarkGate(p)
  <2>1. PICK r : ex' = [ex EXCEPT ![p] = r] /\ ~HasRow(r)
    BY <1>1, <1>12 DEF MarkGate, Ended
  <2>2. HasRow(ex[p]) /\ runs' = SetGate(runs, ex[p].row, "waiting_approval")
    BY <1>12 DEF MarkGate, HasRow
  <2> QED
    BY <2>1, <2>2 DEF RowStep
<1>13. CASE Decline(p)
  BY <1>4, <1>13 DEF Decline, Ended
<1>14. CASE StartNode(p)
  <2>1. CASE ex[p].kind = "async"
    BY <1>3, <1>14, <2>1 DEF StartNode
  <2>2. CASE ex[p].kind # "async"
    <3> DEFINE r == [ex[p] EXCEPT !.pc = "dispatch"]
    <3>1. ex' = [ex EXCEPT ![p] = r] /\ r.pc = "dispatch" /\ r.kind # "async" /\ UNCHANGED runs
      BY <1>0, <1>14, <2>2 DEF StartNode
    <3> HIDE DEF r
    <3> QED
      BY <1>2, <3>1 DEF HasRow
  <2> QED
    BY <2>1, <2>2
<1>15. CASE ClaudeSucceeds(p) \/ DispatchFails(p) \/ OutputMissing(p)
  <2>1. PICK pc \in {"pass", "fail"} : Returned(p, pc)
    BY <1>15 DEF ClaudeSucceeds, DispatchFails, OutputMissing
  <2>2. CASE ex[p].kind = "sync"
    BY <1>3, <2>1, <2>2 DEF Returned
  <2>3. CASE ex[p].kind # "sync"
    <3> DEFINE r == [ex[p] EXCEPT !.pc = pc, !.failures = 0]
    <3>1. ex' = [ex EXCEPT ![p] = r] /\ r.row = ex[p].row /\ UNCHANGED runs
      BY <1>0, <2>1, <2>3 DEF Returned
    <3>2. HasRow(ex[p])
      BY <1>0, <2>1, <2>3 DEF Returned, HasRow
    <3> HIDE DEF r
    <3> QED
      BY <1>2, <3>1, <3>2
  <2> QED
    BY <2>2, <2>3
<1>16. CASE ClaudeFails(p)
  <2> DEFINE r == [ex[p] EXCEPT !.failures = ex[p].failures + 1]
  <2>1. /\ ex' = [ex EXCEPT ![p] = r] /\ UNCHANGED runs
        /\ r.pc = ex[p].pc /\ r.row = ex[p].row /\ r.kind = ex[p].kind
    BY <1>0, <1>16 DEF ClaudeFails
  <2> HIDE DEF r
  <2> QED
    BY <1>2, <2>1 DEF HasRow
<1>17. CASE CompleteRow(p) \/ FailRow(p)
  <2>1. ASSUME NEW status, NEW pc \in {"save", "failTrace"}, NEW here \in {"pass", "fail"},
               Goto(p, here, pc), runs' = CompleteRun(runs, ex[p].row, status)
        PROVE  \E r : RowStep(p, r)
    <3>1. HasRow(ex[p])
      BY <1>5, <2>1 DEF HasRow
    <3>2. PICK r : ex' = [ex EXCEPT ![p] = r] /\ r.pc = pc
      BY <1>5, <2>1
    <3> QED
      BY <2>1, <3>1, <3>2 DEF RowStep, HasRow
  <2>2. CASE CompleteRow(p)
    BY <2>1, <2>2 DEF CompleteRow
  <2>3. CASE FailRow(p)
    BY <2>1, <2>3 DEF FailRow
  <2> QED
    BY <1>17, <2>2, <2>3
<1>18. CASE FailTrace(p) \/ EndWalk(p)
  BY <1>4, <1>18 DEF FailTrace, EndWalk, Ended
<1> QED
  BY <1>6, <1>7, <1>8, <1>9, <1>10, <1>11, <1>12, <1>13, <1>14, <1>15, <1>16, <1>17, <1>18 DEF Step

LEMMA NextKeeps == ASSUME WInv, Owned, [Next]_vars PROVE Stand(runs, runs') /\ Owned'
<1>0. DOMAIN ex = Procs /\ runs \in Seq(Run) /\ \A q \in Procs : DOMAIN ex[q] = Fields
  BY DEF WInv, Sane, Executor, Fields
<1>1. ASSUME NEW p \in Procs, Step(p) PROVE Stand(runs, runs') /\ Owned'
  BY <1>1, StepsRow, RowStepKeeps
<1>2. ASSUME NEW p \in Procs, Kill(p) PROVE Stand(runs, runs') /\ Owned'
  <2> DEFINE r == [Off EXCEPT !.pc = "off", !.scope = ex[p].scope]
  <2>1. ex' = [ex EXCEPT ![p] = r] /\ r.pc = "off" /\ UNCHANGED runs
    BY <1>2 DEF Kill, Exit, Off, db
  <2> HIDE DEF r
  <2> QED
    BY <2>1, RowStepKeeps DEF RowStep, HasRow
<1>3. ASSUME NEW p \in Procs, NEW s, NEW k, NEW resume, NEW m, Begin(p, s, k, resume, m)
      PROVE  Stand(runs, runs') /\ Owned'
  <2> DEFINE r == ex'[p]
  <2>1. ex' = [ex EXCEPT ![p] = r] /\ r.pc \in {"refused", "trace", "cleanup", "checkpoint"}
    BY <1>0, <1>3 DEF Begin
  <2>2. UNCHANGED runs
    BY <1>3 DEF Begin, db
  <2> QED
    BY <2>1, <2>2, RowStepKeeps DEF RowStep, HasRow
<1>4. ASSUME NEW i, Resolve(i) PROVE Stand(runs, runs') /\ Owned'
  <2>1. PICK gate \in {"approved", "rejected"} : runs' = SetGate(runs, i, gate)
    BY <1>4 DEF Resolve
  <2>2. i \in DOMAIN runs /\ runs[i].gate = "waiting_approval" /\ ex' = ex
    BY <1>4 DEF Resolve, CanResolve
  <2>3. \A j \in DOMAIN runs : DOMAIN runs[j] = {"epic", "node", "status", "gate"}
    BY <1>0, RunsType DEF Run
  <2>4. /\ DOMAIN runs' = DOMAIN runs /\ runs'[i].gate = gate
        /\ \A j \in DOMAIN runs : runs'[j].epic = runs[j].epic /\ (j # i => runs'[j] = runs[j])
    BY <2>1, <2>2, <2>3 DEF SetGate
  <2>5. Stand(runs, runs')
    BY <2>2, <2>4 DEF Stand, Waits, Answered
  <2>6. Owned'
    BY <2>2, <2>4 DEF Owned, HasRow, WInv, Sane
  <2> QED
    BY <2>5, <2>6
<1>5. CASE UNCHANGED vars
  BY <1>5 DEF vars, db, Stand, Waits, Owned, HasRow
<1> QED
  BY <1>1, <1>2, <1>3, <1>4, <1>5 DEF Next

(* No executor, whatever it resumes, cleans up or leaves undone, takes back *)
(* a question or an answer: what it closes is a row of its own, which is no *)
(* gate yet and nobody else's (Owned), or one that does not wait.           *)
THEOREM QuestionsStand == Spec => QuestionsWait
<1>1. Init => Owned
  BY DEF Init, Owned, HasRow, Off
<1>2. WInv /\ Owned /\ [Next]_vars => Owned'
  BY NextKeeps
<1>3. Spec => []Owned
  BY <1>1, <1>2, Inductive, PTL DEF Spec
<1>4. WInv /\ Owned /\ [Next]_vars =>
        [\A e \in Epics : \A r \in DOMAIN runs :
            /\ r \in PendingGates(runs, e) => \/ r \in PendingGates(runs', e)
                                              \/ runs'[r].gate \in {"approved", "rejected"}
            /\ runs[r].gate \in {"approved", "rejected"} => runs'[r].gate = runs[r].gate]_runs
  BY NextKeeps DEF Stand, Waits, Answered, PendingGates
<1> QED
  BY <1>3, <1>4, Inductive, PTL DEF Spec, QuestionsWait
=============================================================================
