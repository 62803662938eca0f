------------------------------ MODULE Executors ------------------------------
(***************************************************************************)
(* Pipelines started from the command line: any number of executors, each  *)
(* a call of run_pipeline or of run_pipeline_async in a process of its     *)
(* own, on the platform cycle (L1) or on an epic, fresh or resumed, over   *)
(* one database and with nothing that keeps them apart.  The order of the  *)
(* nodes is computed from pipeline.yaml by topological_sort.               *)
(*                                                                         *)
(* EpicPipeline has the daemon's only executor, with what its scheduler    *)
(* and the epic's status add; here the status of epics is left out.        *)
(***************************************************************************)
EXTENDS PipelineDb, FiniteSets, SequencesExt

CONSTANTS Procs,        \* the executors
          L1,           \* the platform cycle, which stands beside the epics
          Listed,       \* the nodes in the order of pipeline.yaml
          Graphs,       \* the dependencies pipeline.yaml may state
          HumanGated, Escalating, Skippable,
          Modes,        \* the gate modes --mode may give
          Retries,      \* len(RETRY_BACKOFFS)
          MaxStarts,    \* bound: starts of executors in a behaviour
          Budget        \* bound: adverse events in a behaviour

ASSUME L1Type     == L1 \in Epics
(* Each node once: a file that lists one twice is refused by the length     *)
(* test of topological_sort, whatever it depends on.                       *)
ASSUME ListedType == /\ Listed \in Seq(Nodes) /\ ToSet(Listed) = Nodes
                     /\ \A i, j \in DOMAIN Listed : Listed[i] = Listed[j] => i = j
ASSUME KindsType  == HumanGated \cup Escalating \cup Skippable \subseteq Nodes
ASSUME ModesType  == "manual" \in Modes /\ Modes \subseteq {"manual", "interactive", "auto"}
ASSUME RetryType  == Retries \in Nat
ASSUME BoundsType == MaxStarts \in Nat /\ Budget \in Nat

VARIABLES graph,            \* Node.depends of every node
          finished, runs,   \* the database: epic_nodes and pipeline_nodes, pipeline_runs
          traces,           \* ... and traces, in the order of started_at
          ex,               \* the executors: where they are, and their locals
          starts, budget

db   == <<finished, runs, traces>>
vars == <<graph, db, ex, starts, budget>>

Ended == {"off", "refused", "paused", "failed", "complete"}
PCs   == Ended \cup {"cleanup", "checkpoint", "trace", "walk", "gate", "dispatch", "pass",
                     "fail", "failTrace", "save"}

Executor == [pc : PCs, scope : Epics, kind : {"sync", "async"}, resume : BOOLEAN, mode : Modes,
             order : Seq(Nodes), at : 1..(Len(Listed) + 1), completed : SUBSET Nodes, row : Nat, trace : Nat,
             failures : 0..Retries]

TypeOK ==
    /\ graph \in Graphs
    /\ finished \in [Epics -> SUBSET Nodes]
    /\ runs \in Seq(Run)
    /\ traces \in Seq([scope : Epics, status : {"running", "completed", "failed"}])
    /\ ex \in [Procs -> Executor]
    /\ \A p \in Procs :
          /\ ex[p].pc \in {"gate", "pass", "fail"} =>
                ex[p].row \in DOMAIN runs /\ runs[ex[p].row].epic = ex[p].scope
          /\ ex[p].pc \in PCs \ (Ended \cup {"cleanup", "checkpoint", "trace"}) =>
                ex[p].trace \in DOMAIN traces /\ traces[ex[p].trace].scope = ex[p].scope
    /\ starts \in 0..MaxStarts /\ budget \in 0..Budget

Off == [pc |-> "off", scope |-> L1, kind |-> "async", resume |-> FALSE, mode |-> "manual",
        order |-> << >>, at |-> 1, completed |-> {}, row |-> 0, trace |-> 0,
        failures |-> 0]

Init ==
    /\ graph \in Graphs
    /\ finished = [e \in Epics |-> {}] /\ runs = << >> /\ traces = << >>
    /\ ex = [p \in Procs |-> Off]
    /\ starts = 0 /\ budget = Budget

Adverse == budget > 0 /\ budget' = budget - 1

-----------------------------------------------------------------------------
(* topological_sort: Kahn's algorithm                                       *)

Unknown(g) == \E n \in Nodes : ~(g[n] \subseteq Nodes)

(* The nodes of S, in the order of pipeline.yaml.                          *)
InOrder(S) ==
    LET Taken[i \in 0..Len(Listed)] ==
            IF i = 0 THEN << >>
            ELSE IF Listed[i] \in S THEN Append(Taken[i - 1], Listed[i]) ELSE Taken[i - 1]
    IN  Taken[Len(Listed)]

(* Mutant: one satisfied dependency is enough.                             *)
FreedByAny(g, n, result) == InOrder({c \in Nodes : n \in g[c] /\ c \notin ToSet(result)})

(* The nodes whose in-degree drops to 0 when n comes after `result`.       *)
Freed(g, n, result) == InOrder({c \in Nodes : n \in g[c] /\ g[c] \subseteq ToSet(result) \cup {n}})

(* The queue begins with the nodes of in-degree 0; its head is taken until *)
(* it is empty.                                                            *)
FirstQueue(g) == [queue |-> InOrder({n \in Nodes : g[n] = {}}), result |-> << >>]

TakeHead(g, s) ==
    IF s.queue = << >> THEN s
    ELSE [queue  |-> Tail(s.queue) \o Freed(g, Head(s.queue), s.result),
          result |-> Append(s.result, Head(s.queue))]

TopologicalSort(g) ==
    LET Kahn[k \in 0..Len(Listed)] == IF k = 0 THEN FirstQueue(g) ELSE TakeHead(g, Kahn[k - 1])
    IN  Kahn[Len(Listed)].result

(* An unknown dependency, or a cycle, raises SystemExit.                   *)
Refuses(g, order) == Unknown(g) \/ Len(order) # Len(Listed)

-----------------------------------------------------------------------------
(* The start: main, and the beginning of either function                    *)

Begin(p, scope, kind, resume, mode) ==
    /\ ex[p].pc \in Ended /\ starts < MaxStarts /\ starts' = starts + 1
    /\ LET order == TopologicalSort(graph)
       IN  ex' = [ex EXCEPT ![p] =
               [pc |-> IF Refuses(graph, order) THEN "refused"
                       ELSE IF ~resume THEN "trace"
                       ELSE IF kind = "async" THEN "cleanup" ELSE "checkpoint",
                scope |-> scope, kind |-> kind, resume |-> resume, mode |-> mode,
                order |-> order, at |-> 1, completed |-> {}, row |-> 0, trace |-> 0, failures |-> 0]]
    /\ UNCHANGED <<graph, db, budget>>

Goto(p, here, there) == ex[p].pc = here /\ ex' = [ex EXCEPT ![p].pc = there]

(* It returns or exits: the locals are gone.                               *)
Exit(p, pc) == ex' = [ex EXCEPT ![p] = [Off EXCEPT !.pc = pc, !.scope = ex[p].scope]]

(* Only the asynchronous one closes the rows earlier processes left open.  *)
(* For the platform cycle it raises when there is one: the statement that  *)
(* reads the nodes done names a column pipeline_nodes does not have.       *)
Cleanup(p) ==
    LET closed == CloseStaleRuns(runs, ex[p].scope, finished[ex[p].scope])
    IN  /\ IF ex[p].scope = L1 /\ closed # runs
           THEN ex[p].pc = "cleanup" /\ Exit(p, "off") /\ UNCHANGED runs
           ELSE Goto(p, "cleanup", "checkpoint") /\ runs' = closed
        /\ UNCHANGED <<graph, finished, traces, starts, budget>>

(* Mutant: the nodes finished in any scope.                                *)
ResumableAnywhere(e) == UNION {finished[s] : s \in Epics}

(* get_resumable_nodes                                                     *)
Resumable(e) == finished[e]

(* A pending gate of an unfinished node ends a resumed run; the platform   *)
(* cycle looks at the gates of every epic, none of which is a node of its  *)
(* own.                                                                    *)
Awaited(p) ==
    \E e \in IF ex[p].scope = L1 THEN Epics ELSE {ex[p].scope} :
        \E r \in PendingGates(runs, e) :
            e # ex[p].scope \/ runs[r].node \notin Resumable(ex[p].scope)

Checkpoint(p) ==
    /\ ex[p].pc = "checkpoint"
    /\ IF Awaited(p) THEN Exit(p, "paused")
       ELSE ex' = [ex EXCEPT ![p].pc = "trace", ![p].completed = Resumable(ex[p].scope)]
    /\ UNCHANGED <<graph, db, starts, budget>>

(* Mutant: the open traces of the platform, whatever they trace.           *)
OpenTracesAnywhere(e) == {t \in DOMAIN traces : traces[t].status = "running"}

OpenTraces(e) == {t \in DOMAIN traces : traces[t].scope = e /\ traces[t].status = "running"}

CreateTrace(e) == Append(traces, [scope |-> e, status |-> "running"])

(* _resolve_trace_id: a resumed run goes on with the latest open trace.    *)
ResolveTrace(p) ==
    LET open == OpenTraces(ex[p].scope)
    IN  /\ ex[p].pc = "trace"
        /\ IF ex[p].resume /\ open # {}
           THEN /\ \E t \in open : /\ \A u \in open : u <= t
                                   /\ ex' = [ex EXCEPT ![p].pc = "walk", ![p].trace = t]
                /\ UNCHANGED traces
           ELSE /\ traces' = CreateTrace(ex[p].scope)
                /\ ex' = [ex EXCEPT ![p].pc = "walk", ![p].trace = Len(traces) + 1]
        /\ UNCHANGED <<graph, finished, runs, starts, budget>>

-----------------------------------------------------------------------------
(* The walk                                                                 *)

Node(p) == ex[p].order[ex[p].at]
Within(p) == ex[p].at <= Len(ex[p].order)
AtNode(p) == ex[p].pc = "walk" /\ Within(p) /\ Node(p) \notin ex[p].completed
Met(p) == graph[Node(p)] \subseteq ex[p].completed

(* What is completed, or blocked by a missing dependency, is passed over.  *)
PassOver(p) ==
    /\ ex[p].pc = "walk" /\ Within(p)
    /\ Node(p) \in ex[p].completed \/ (Node(p) \notin Skippable /\ ~Met(p))
    /\ ex' = [ex EXCEPT ![p].at = @ + 1]
    /\ UNCHANGED <<graph, db, starts, budget>>

Finish(p) ==
    /\ finished' = [finished EXCEPT ![ex[p].scope] = @ \cup {Node(p)}]
    /\ ex' = [ex EXCEPT ![p].pc = "walk", ![p].at = @ + 1, ![p].completed = @ \cup {Node(p)}]

SkipOptional(p) ==
    /\ AtNode(p) /\ Node(p) \in Skippable
    /\ Finish(p)
    /\ UNCHANGED <<graph, runs, traces, starts, budget>>

Ready(p) == AtNode(p) /\ Node(p) \notin Skippable /\ Met(p)

(* The synchronous one asks at every pass: it never looks for an approval. *)
NeedsHuman(p) ==
    /\ ex[p].mode = "manual" /\ Node(p) \in HumanGated
    /\ ex[p].kind = "sync" \/ ~Approved(runs, ex[p].scope, Node(p))

InsertRow(p, pc) ==
    /\ runs' = InsertRun(runs, ex[p].scope, Node(p))
    /\ ex' = [ex EXCEPT ![p].pc = pc, ![p].row = Len(runs) + 1, ![p].failures = 0]

OpenGate(p) ==
    /\ Ready(p) /\ NeedsHuman(p)
    /\ InsertRow(p, "gate")
    /\ UNCHANGED <<graph, finished, traces, starts, budget>>

MarkGate(p) ==
    /\ ex[p].pc = "gate" /\ Exit(p, "paused")
    /\ runs' = SetGate(runs, ex[p].row, "waiting_approval")
    /\ UNCHANGED <<graph, finished, traces, starts, budget>>

(* input() answered with anything but "y", for a gate or a verdict.        *)
Decline(p) ==
    /\ ex[p].mode = "interactive" /\ Adverse
    /\ \/ Ready(p) /\ Node(p) \in HumanGated
       \/ ex[p].pc = "save" /\ Node(p) \in Escalating
    /\ Exit(p, "paused")
    /\ UNCHANGED <<graph, db, starts>>

(* The asynchronous one shows its row before claude runs.                  *)
StartNode(p) ==
    /\ Ready(p) /\ ~NeedsHuman(p)
    /\ IF ex[p].kind = "async" THEN InsertRow(p, "dispatch")
       ELSE ex' = [ex EXCEPT ![p].pc = "dispatch"] /\ UNCHANGED runs
    /\ UNCHANGED <<graph, finished, traces, starts, budget>>

(* dispatch_with_retry returns; then the synchronous one inserts the row.  *)
Returned(p, pc) ==
    /\ ex[p].pc = "dispatch"
    /\ IF ex[p].kind = "sync" THEN InsertRow(p, pc)
       ELSE ex' = [ex EXCEPT ![p].pc = pc, ![p].failures = 0] /\ UNCHANGED runs
    /\ UNCHANGED <<graph, finished, traces, starts>>

ClaudeSucceeds(p) == Returned(p, "pass") /\ UNCHANGED budget

(* dispatch_node: claude is not there, exits with an error or is stopped   *)
(* by the timeout; dispatch_with_retry sleeps and tries again, ...         *)
ClaudeFails(p) ==
    /\ ex[p].pc = "dispatch" /\ ex[p].failures < Retries
    /\ ex[p].failures = 0 => Adverse
    /\ ex[p].failures # 0 => UNCHANGED budget
    /\ ex' = [ex EXCEPT ![p].failures = @ + 1]
    /\ UNCHANGED <<graph, db, starts>>

(* ... as often as it may, and not at all when the breaker is open.        *)
DispatchFails(p) ==
    /\ Returned(p, "fail")
    /\ IF ex[p].failures = Retries THEN UNCHANGED budget ELSE ex[p].failures = 0 /\ Adverse

(* claude has succeeded, and verify_outputs misses a file, or finds a      *)
(* template nobody filled.                                                 *)
OutputMissing(p) == Returned(p, "fail") /\ Adverse

CompleteRow(p) ==
    /\ Goto(p, "pass", "save")
    /\ runs' = CompleteRun(runs, ex[p].row, "completed")
    /\ UNCHANGED <<graph, finished, traces, starts, budget>>

(* Mutant: a failed node is recorded and the walk goes on.                 *)
FailRowGoesOn(p) ==
    /\ ex[p].pc = "fail"
    /\ runs' = CompleteRun(runs, ex[p].row, "failed")
    /\ ex' = [ex EXCEPT ![p].pc = "walk", ![p].at = @ + 1]
    /\ UNCHANGED <<graph, finished, traces, starts, budget>>

FailRow(p) ==
    /\ Goto(p, "fail", "failTrace")
    /\ runs' = CompleteRun(runs, ex[p].row, "failed")
    /\ UNCHANGED <<graph, finished, traces, starts, budget>>

FailTrace(p) ==
    /\ ex[p].pc = "failTrace" /\ Exit(p, "failed")
    /\ traces' = [traces EXCEPT ![ex[p].trace].status = "failed"]
    /\ UNCHANGED <<graph, finished, runs, starts, budget>>

(* _handle_auto_escalate: a failing report opens a gate in manual mode.    *)
Escalate(p) ==
    /\ ex[p].pc = "save" /\ Node(p) \in Escalating /\ ex[p].mode = "manual" /\ Adverse
    /\ InsertRow(p, "gate")
    /\ UNCHANGED <<graph, finished, traces, starts>>

SaveNode(p) ==
    /\ ex[p].pc = "save"
    /\ Finish(p)
    /\ UNCHANGED <<graph, runs, traces, starts, budget>>

EndWalk(p) ==
    /\ ex[p].pc = "walk" /\ ~Within(p) /\ Exit(p, "complete")
    /\ traces' = [traces EXCEPT ![ex[p].trace].status = "completed"]
    /\ UNCHANGED <<graph, finished, runs, starts, budget>>

-----------------------------------------------------------------------------
(* The operator                                                             *)

(* A gate is approved, or rejected.                                        *)
Resolve(r) ==
    /\ CanResolve(runs, r)
    /\ \/ runs' = SetGate(runs, r, "approved") /\ UNCHANGED budget
       \/ runs' = SetGate(runs, r, "rejected") /\ Adverse
    /\ UNCHANGED <<graph, finished, traces, ex, starts>>

(* Ctrl-C, or a crash.                                                     *)
Kill(p) ==
    /\ ex[p].pc \notin Ended /\ Adverse
    /\ Exit(p, "off")
    /\ UNCHANGED <<graph, db, starts>>

Step(p) ==
    \/ Cleanup(p) \/ Checkpoint(p) \/ ResolveTrace(p) \/ PassOver(p) \/ SkipOptional(p)
    \/ OpenGate(p) \/ MarkGate(p) \/ Decline(p) \/ StartNode(p) \/ ClaudeSucceeds(p) \/ ClaudeFails(p)
    \/ DispatchFails(p) \/ OutputMissing(p)
    \/ CompleteRow(p) \/ FailRow(p) \/ FailTrace(p) \/ Escalate(p) \/ SaveNode(p) \/ EndWalk(p)

Next ==
    \/ \E p \in Procs :
          \/ Step(p) \/ Kill(p)
          \/ \E s \in Epics, k \in {"sync", "async"}, resume \in BOOLEAN, m \in Modes :
                Begin(p, s, k, resume, m)
    \/ \E r \in DOMAIN runs : Resolve(r)

Spec == Init /\ [][Next]_vars

-----------------------------------------------------------------------------
(* Properties                                                               *)

(* Some node of any set of nodes depends on none of the set.               *)
Acyclic == \A S \in SUBSET Nodes : S # {} => \E n \in S : graph[n] \cap S = {}

(* topological_sort accepts exactly the graphs that can be walked, and      *)
(* lists each node once and after all it depends on.                       *)
OrderIsSound ==
    \A p \in Procs :
        /\ ex[p].pc = "refused" => Unknown(graph) \/ ~Acyclic
        /\ ex[p].pc \notin Ended =>
              LET order == ex[p].order
              IN  /\ ~Unknown(graph) /\ ToSet(order) = Nodes
                  /\ \A i, j \in DOMAIN order : order[j] \in graph[order[i]] => j < i

(* However many executors walk one scope, a node is finished only when all *)
(* it depends on is.                                                       *)
DependenciesFirst ==
    \A e \in Epics : \A n \in finished[e] \ Skippable : graph[n] \subseteq finished[e]

(* "Pipeline complete" is true, whoever says so: neither is a node passed  *)
(* over as blocked, nor a trace completed by one of the executors that     *)
(* share it before the others are through.                                 *)
CompleteMeansAll ==
    /\ \A p \in Procs : ex[p].pc = "complete" => finished[ex[p].scope] = Nodes
    /\ \A t \in DOMAIN traces :
          traces[t].status = "completed" => finished[traces[t].scope] = Nodes

(* A question waits for a human: once a gate can be seen it stays so until  *)
(* it is answered, whichever executors resume, clean up, fail or die in the *)
(* meantime, and what was answered is not asked or answered again.          *)
QuestionsWait ==
    [][\A e \in Epics : \A r \in DOMAIN runs :
          /\ r \in PendingGates(runs, e) => \/ r \in PendingGates(runs', e)
                                            \/ runs'[r].gate \in {"approved", "rejected"}
          /\ runs[r].gate \in {"approved", "rejected"} => runs'[r].gate = runs[r].gate]_runs
=============================================================================
