# A TLA+ model of the madruga.ai pipeline

madruga.ai drives the documentation and implementation of software platforms: a
daemon (`easter`) polls a SQLite database for epics in progress, walks each one
through the nodes of `pipeline.yaml` by running `claude -p`, stops at human gates
that are answered on Telegram or the command line, and ships, retries or blocks
the epic. This directory holds the models of that system, their TLC runs and the
proofs about them. Paths below are relative to `src/.specify/scripts/`.

## Inventory

| part | source | state | operations | hard behaviour |
|---|---|---|---|---|
| easter scheduler | `easter.py` | `_running_epics`, `_epic_fail_counts`, the last poll | poll, sweep, skip, checkout, dispatch, count, block, back off | exceptions at every await, stale poll list, starvation, SIGKILL |
| pipeline executor | `dag_executor.py` `run_pipeline_async`, `run_pipeline`, `topological_sort` | `completed_nodes`, the row of the node, the trace | clean-up, checkpoint, prepare, walk, gate, dispatch, verify, escalate, save, ship | crashes between commits, gates answered at any time, resume, several executors on one scope |
| implement node | `dag_executor.py` `run_implement_tasks`, `group_tasks_by_phase` | `tasks.md`, one row per phase or task | units, verification, failure limits | claude writes `tasks.md` while it runs and may lie about success |
| retries and breaker | `dag_executor.py` `dispatch_with_retry_async`, `CircuitBreaker` | failure count, state, last failure | check, record, seed, retry, abort | restarts, time, cancellation between retries |
| database | `db_pipeline.py`, `db_core.py` `migrate` | `epics`, `epic_nodes`, `pipeline_runs` and others, the schema | one commit per statement; migrations at every opening | shared by daemon, command line, hooks, bot, all of which migrate it |
| human gates | `platform_cli.py`, `telegram_bot.py` | `gate_status`, `gate_notified_at`, `telegram_message_id` | notify, remind, approve, reject | double answers, crashes between send and record |
| epic status writers | `post_save.py`, `db_pipeline.py` seeding | `epics.status`, `epic_nodes` | record_save, reseed, start_epic | lost updates, regressions from front matter |
| instance lock, lifespan | `easter.py` | the lock file, its inode, its PID | start, reclaim, stop | overlapping starts, stop racing a start |
| repository preparation | `ensure_repo.py` | the clone, its lock, its branch, its working tree | clone, fetch, check out | concurrent clones, interrupted clones, dirty trees |
| commit traceability | `hook_post_commit.py`, `backfill_commits.py`, `post_save.py` | `commits` | record, backfill, sync | duplicates, amended commits |
| reverse reconciliation | `reverse_reconcile_*.py` | `commits.reconciled_at` | ingest, classify, aggregate, apply, mark | partial application, repeated runs |
| memory synchronisation | `sync_memory.py`, `db_decisions.py`, `memory_consolidate.py` | memory files, `memory_entries` | import, export, mark as stale | claude writes the files meanwhile |
| others | `qa_startup.py`, decision records, `screen_flow_*`, `capture/`, observability, linters, portal | files, exported JSON | sequential tools | see "Not modelled" |

The parts interact through the database (every statement its own commit), through
the environment variable `MADRUGA_MODE`, through files (`tasks.md`, reports, the
lock) and through the result of the awaited `run_pipeline_async`.

What must be right: an epic is walked in the order of its dependencies; nothing
gated is run by a walk without its approval in manual mode; a walk that ends has left nothing
undone; failures never storm and always end; an epic ships exactly when
it is done; one daemon, one pipeline, one clone at a time; every gate is asked
and every answer acted on.

## Modules

| module | models |
|---|---|
| `PipelineDb` | the tables and statements of `db_pipeline.py` the others share; its lemmas are in `EpicPipelineProofs` |
| `EpicPipeline`, `EpicPipelineProofs` | `dag_scheduler` and the `run_pipeline_async` it awaits, the operator, crash and restart; theorems |
| `Executors`, `ExecutorsProofs` | the pipelines started from the command line, several at a time, with traces and `topological_sort`; theorems |
| `ImplementPhases`, `ImplementPhasesProofs` | `run_implement_tasks` by phases and task by task, retries, the circuit breaker, the streak that blocks; theorems |
| `TaskGroups` | `group_tasks_by_phase` as a function |
| `GateDesk`, `GatePromise`, `GateDeskProofs` | the bots, the callbacks and the command line that answer gates; what they promise; theorems and the refinement |
| `EpicStatus`, `EpicStatusProofs` | every writer of an epic's row: hooks, skills, reseeds, the pipeline, the operator; theorems |
| `EnsureRepo`, `EnsureRepoProofs` | the clone of a platform's repository, its lock, its branches and the work committed there; theorems |
| `Migrations`, `MigrationsProofs` | `migrate` by any number of processes, with SQLite's write lock and Python's transactions; theorems |
| `Ledger`, `LedgerProofs` | the table of commits and its writers, from the post-commit hook to the marks of a reverse reconcile; theorems |
| `MemorySync` | the memory files, the table that mirrors them, and who writes both |
| `InstanceLock` | the lock file of the daemon over inodes, PIDs and flocks |
| `MC...` | the small instances of TLC |

**EpicPipeline.** `epicStatus`, `finished` and `runs` are the database; `pc` is the
point of the one coroutine at which another writer can come in: before each commit
and each await. `runningEpics` and `failCounts` are the module variables of
`easter.py`; `polled` what is left of the polled list; `cur`, `at`, `completed`,
`row`, `newStatus` the locals of the pipeline, which `DropLocals` forgets when its
frame is gone. One action stands for the code between two such points: for
instance `OpenGate` is the commit of `insert_run` and `MarkGate` the one that makes
the row a gate. The actions `...Raises` are the exceptions the constant `Faults`
allows at that place, with the handler that catches them: `CheckoutRaises` leaves
before the `try` of `dag_scheduler`, `PrepareRaises` and `PipelineRaises` through
its `finally` to the outer handler, `DirtyTree` through its own `except`,
`TransitionFails` inside the pipeline. `broken` has epics whose repository
can never be prepared. The walk is not the only writer of `epic_nodes`: `PostSave` is a
`post_save.py` run by the PostToolUse hook of the claude at work, by a skill or by a person, at any
time and for any epic. It marks done the node whose file was saved together with those the backfill finds
on disk (`Saves`), and the status follows. An epic the daemon takes up may have nodes done before
(`Beforehand`; epic-context usually is). So the finished nodes say nothing of gates or of
completed rows, and the properties speak of what the walk does; its `completed` is a snapshot which
others outrun: it may run a node again which a save finished since, and takes nodes for completed that nobody
dispatched (clarify, once specify has written `spec.md`, its output too), whatever the comment of
`get_resumable_nodes` says (`db_pipeline.py:533`). Left out is `--epic-status` but for a cancellation and re-enabling: `EpicStatus` has it.

**Executors.** `ex` has the locals of each process that runs `run_pipeline` (`sync`) or
`run_pipeline_async` (`async`) on a scope, which is an epic or the platform cycle `L1`; nothing
keeps two from the same scope. They differ as the functions do: only the asynchronous
one cleans up, looks for an approval and inserts its row before claude runs. `graph` is what
`pipeline.yaml` states, and the order of the walk is what `TopologicalSort`, Kahn's
algorithm over it, returns (recursive functions, since a proof can speak of those). The clean-up of the platform cycle raises where the code
names a column that `pipeline_nodes` does not have. The status of epics and the other writers of
`epic_nodes` and `pipeline_nodes` (hooks, skills, reseeds), which `EpicPipeline` has for the
daemon, are left out: the finished nodes of a scope are those its executors saved or skipped,
and `DependenciesFirst` and `CompleteMeansAll` of this module are to be read so.

**ImplementPhases.** `done` and `deferred` are `tasks.md`; a unit is what one claude is asked to
do, a phase or (without `MADRUGA_PHASE_DISPATCH` or phase headers) a task; `rows` are the rows
of the units with a class of error; time is reduced to whether the recovery time has passed
since the breaker's `last_failure_at` (`elapsed`), which a seed from the database sets to the
time of the seed. The phases of the instance are what `GroupTasksByPhase` makes of its
tasks, and `MCImplementPhases` has TLC evaluate for every task list of up to five tasks
under three headers that the groups are a partition in order, none too large.

**GateDesk.** `gate`, `notified` and `messages` are `gate_status`, `gate_notified_at` and
the chat; a message keeps whether its buttons are still there. A bot is the daemon's or the
standalone one; `listening` is the one that polls for callbacks (`preflight_polling_safe`
lets only one do so). A notification is three steps, as in `notify_gate`: the message is
delivered, the send returns or fails, the row is recorded; a crash may come between any
two. A callback is `handle_gate_callback` with a step per await (`Receive`, `Look`,
`Resolve`, `Edit`), so that the command line or the other bot may answer in between.
Telegram (external) keeps presses, may lose those in hand of a bot that crashes or
deliver them again; a start may drop the queue. `GatePromise` says that a gate is asked about
only once it is open, and answered once; `GateDesk` refines it (`KeepsPromise`). The probe of the preflight always answers truly: two bots that both
poll are not modelled.

**EpicStatus.** The module sees the rows from the side of their many writers, so an
epic's row and its nodes are one record and a transaction of `post_save.py` or of the
reseed is one action: `Saved` is the transaction of `record_save` (node, backfill from
the files, status, branch), `Seeded` that of `seed_from_filesystem` for one epic.
`disk` has what each file of the epic is (missing, an unfilled template, filled),
`pitch` the front matter, `hooks` the saves that a hook detected
(`detect_from_path` reads in a connection of its own) and has not yet done. After its
transaction a save that shipped has still to rewrite the pitch (`announced`,
`InjectShip`), and may die before. The walk of the pipeline is reduced to its saves and
to the two statements of `_transition_epic_status` (`PipelineRead`, `PipelineWrite`):
`EpicPipeline` has the rest. `record_save` reads the nodes before its first write takes
SQLite's lock; the model has no writer in that gap. `OverrideSave` is a save with
`--epic-status`, which takes any existing epic to any status without a look at the one it
has; `ShippedStays` and `DraftNeedsWork` except exactly these steps (`Overridden`). A file
counts for the backfill and the reseed when `_is_valid_output` says so (`Valid`). Midnight does not fall between the
two statements of the pipeline. Quick cycles, nodes of the platform (L1), hashes,
provenance and the protection of nodes inside a phase dispatch are left out.

**InstanceLock.** Each process is at a point of `lifespan`: open, try the lock, read the
PID, kill -0, unlink, reopen, lock; `files` has each inode with the PID in it and the
process that has its flock, `path` the inode the name refers to. The HTTP port of the daemon is not a lock: the
service listens on another port than the command line does.

**Ledger.** `rows` is the table `commits`, a function on what is stored as `sha`: a commit
with `Raw`, or the composite `<sha>:<platform>`. `change` and `via` are what a commit is about
(the directories it touches, its tag, what the triage makes of its files) and the epic
branch it was made on; `hosted`, `main` and `base` say which repository has it. Platforms in
`Checkout` live in the repository the hook is installed in, the others have their own.
`Hook` follows `HostCommit` at once or fails; `Reseed` inserts the one commit that
`sync_commits` gets from its log (`newest`), `Backfill` all of main. An ingest is two steps,
`BeginIngest` with what it reads and `WriteIngest` with its transaction (sweep of orphans,
inserts, upgrade), or `IngestFails` when a plain INSERT meets a key that was taken in
between; between the two every other writer may come, a second ingest of the same platform
included (`Ingesters`), since nothing keeps two apart; `overlapped` is a history of the platforms of which
two were open at a time, and of which `DriftIsReviewed` says nothing: when one ingest has read the log, a commit is
pushed and the other ingest inserts it as pending, the sweep of the first takes it for an orphan. A reverse reconcile is a `session`:
`Triage` writes what is pending to a file, `Aggregate` asserts that none of it is reconciled
(when the database can be read) and sorts it, `MarkAuto` marks what needs no patch, `ApplyPatches` patches some of the rest,
`MarkPatched` marks that. `settled` is a history of what was patched or cut off, `reports` the epics
with a `reconcile-report.md`. Git is external: a commit, a merge, a push are actions of the
environment; history is never rewritten, a commit is pushed only after its hook has run, and the
reads of an ingest (358-363) are one instant: a commit, its hook and its push between two of them, which
could give a commit two rows, are left out. Which document a patch changes, and the `host_repo` column, are left out.

**EnsureRepo.** `dir` is what is at the path of the clone: nothing, a directory, one with a
`.git`, a clone. A process is at a line of `ensure_repo` between two system calls or git
commands, with the inode of the lock file it has open (`fd`); `holder` has the flocks, which a
death releases. The daemon goes on through `get_repo_work_dir` (`Status`, `CheckOut`,
`FetchBase`, `CreateBranch` with the cascade base) to claude's work and `AutoCommit`; `branches` is the work each
branch has, `inherited` a history of what it was created with, `disturbed` one of whether a
clone has failed, been killed or been removed. A push, conflicts and what git does inside a
command are left out.

**Migrations.** `db` is what is committed, `pending` what the process with SQLite's write lock
sees; a process is in `migrate` at a statement of a file. Statements outside of a transaction
commit at once; an INSERT begins one (`Copy`), as Python's `sqlite3` does, and the record of
the migration commits it. `Script` has the statements of each file; the instance has one file for
each way the repository's migrations change a table: 001, the two halves of 003, and 009, 013 and
016, which rebuild tables, 009 and 013 the same one, 016 in a transaction of its own. Any process can die, fail on a
lock, or begin with a list of applied migrations that others have made old. The last is why
`SchemaIsKnown` bounds the columns of a table from above only by what the migrations so far and
the next one ever gave it (`Given`), those taken away since included, and not by the schema: a process that
still has 009 to apply commits its DROP and CREATE of `epics_new` one by one, and when they fall between the
CREATE of 013 and the copy of another process, 013 is recorded while `epics` keeps `appetite` (which 017, a
third rebuild, drops again). The bound by the schema is `NothingLeftOver`: it holds, wherever a process dies, until two have migrated at a
time (`beside`, a history); after that it is false, as said.
`CreateShape`, `RebuildShape`, `NewShape`, `CommitShape` and `AddedShape` say how the
repository's files are written; all of them are, and TLC evaluates the five for those of the instance.

**MemorySync.** `files` is a memory directory, `rows` the table; a process is in one of the
modes of `sync_memory.py`, `platform_cli.py` or `memory_consolidate.py`, with a step for each
time it reads or writes a file, since the code reads one three times during an import.

Abstractions shared by all: prompts, outputs, metrics, wording and logging
are left out; the implement node is one step of `EpicPipeline` and a module of its
own; the branch for missing dependencies is never taken by the daemon because the nodes come in
topological order (it is in `SkipNode` all the same). Of the epic cycle's nodes the
instance has one of each kind: human gate, optional, implementing, auto-escalate.

## Runs

| run | what it asks | bounds | result |
|---|---|---|---|
| `epic_pipeline` | order, gates, rows, whole walks, shipping; every epic ends | 2 epics of different priority, the second's repository possibly broken, 4 nodes, epic-context done beforehand by the second and maybe the first, saves of the first or of the last two nodes, modes manual and interactive (what auto does, interactive may: a question answered with yes), 2 adverse events, streak 2 | holds, `EpicsEnd` under fairness |
| `epic_pipeline_wedge` | does `_running_epics` hold what runs? | faults of the checkout | violated: finding |
| `executors` | is the order sound, is "complete" true, does a question stand until it is answered, with several executors? | 2 executors, 2 starts, 2 scopes, 3 nodes, 10 graphs, 2 modes, 1 retry, 2 adverse events | holds |
| `implement_phases` | success is real, no storm, passes end | 3 tasks, 2 phases or 3 tasks as units, 3 classes of error, 4 attempts, breaker 2, limits 2, 3 adverse events | holds, `Settles` under fairness |
| `gate_desk` | every gate asked, asked once per bot, answered once, answerable while it waits | 1 gate, 2 bots, 2 presses, 2 adverse events | holds, `EveryGateAsked` under fairness |
| `epic_status` | nodes stay done, shipped stays, drafts wait, reseeds settle | 1 epic, 4 nodes on 3 files (1 that may be invalid), 2 statuses to override with, 2 days, 1 waiting hook, 1 adverse event | holds |
| `ensure_repo` | clones one at a time, no work on a foreign branch, every call ends | 3 processes, 3 calls, 2 epics, 3 inodes, 1 adverse event | holds, `CallsEnd` under fairness |
| `migrations` | nothing recorded is missing from the schema, nothing taken away is left, no row is lost, the schema is reached | 2 processes, 6 migrations (two of which rebuild one table), 2 tables, 1 row, 2 adverse events | holds, `SchemaIsReached` under fairness |
| `ledger` | no drift lost, no commit counted twice, ingests do their work | 2 commits of 2 kinds, 2 platforms (one in the checkout), 1 epic, 2 ingests (also at a time), cuts or sessions, 1 reseed or backfill | holds |
| `ledger_since` | the same of drift, when ingests are limited to recent commits | as above | violated: finding |
| `memory_sync` | does the file win, as documented? | 2 files, 1 process, 2 texts, 2 rows, 2 starts | violated: finding |
| `instance_lock` | one daemon at a time, as documented? | 3 processes | violated: finding |

The other modules take one daemon for granted, as the code and its documents do;
`instance_lock` shows that the lock does not guarantee it.

`EpicsEnd` says that eventually no epic stays in progress unless something the code gives no
answer to hinders it: a scheduler wedged as in `epic_pipeline_wedge`, or an epic of the same or
a higher priority whose repository can never be prepared (its exceptions are counted by
nobody, and each abandons the polled list). It does not say that a judge whose report keeps failing stops
asking: an approval of its gate has no effect, the next walk runs it again, and what ends that here is
the bound on `Escalate`, not the code. It is one formula about all epics, where a property
for each would take TLC several times as long. `NoStorm` excepts one chance that the
code leaves: a failed row that the breaker in memory did not count (a unit that did nothing,
an aborted one), while the breaker that a later pass seeds from the rows does.
`Serialized` ends with the first clone that fails or is killed: from then on a process can find
half a clone behind the lock, and git fails call by call; `CallsEnd` says that all the same
no call hangs.

An adverse event is a fault, a failure, a crash, a rejection, a cancellation, a
re-enabling, an override or, in `EpicPipeline`, a save by another; `Budget` bounds how many a behaviour has. Two let a crash and a failure, or either
and an interference of the operator, fall between two commits of one node; in `implement_phases`
three let claude fail often enough for the breaker and lie once. In `gate_desk` two let a bot crash between sending and recording and its
successor lose a press; two presses are a double press or two opposite answers. In `ensure_repo`
three calls are one that clones, one that waits for its lock and one that comes after the
unlink. In `executors` a second start is a concurrent executor or a resume, and the ten graphs are the
empty one, chains, joins, cycles and one with an unknown dependency. In `migrations` one event kills
the daemon within a migration, the other starts the hook beside it. The
cycle of `epic_status` has one node of each kind: the one that drafts, two that share a
templated file, and a last one; its rows are independent, so one epic is enough for what
a writer may do to a row. The limits of the code (3 failures per epic, 5 for the breaker) are made
smaller so that a bounded behaviour reaches them. Two epics are enough for
priority and starvation, two phases for a partly done one followed by another.
In `ledger` one kind of commit touches the documents of both platforms with a tag of
digits, the other is code without a tag; one commit that is recorded under a composite key
while another ingest, session or recovery is under way needs no third. The symmetric processes of
`executors`, and the commits of `ledger`, are permuted; both runs have safety properties only.
In `epic_pipeline` the two are also a save and a crash, or two saves, at any points of a walk.
Runs allow deadlock only where the program stops: a pipeline of which every epic has ended, an
implement node that is finished or whose epic is blocked or cancelled, a gate that is answered,
and models whose bounds on calls, starts or events are used up.

**Fairness.** `WF_vars(Daemon)`: the event loop keeps running its coroutine, systemd
restarts the daemon (`Restart=on-failure`, and a crash is a failure), and claude is killed at its timeout, so
each await ends. `WF_vars(Decide)`: the operator answers a gate that keeps waiting.
`WF_vars(\E e \in Epics : CooldownExpires(e))`: time passes. `WF_vars(Claude)`: as in `Daemon`.
In `GateDesk`, weak fairness of `Start` and `Poller` for the bots of `Daemons` only: the
service is restarted and its poll loop keeps running; nothing is assumed of the
standalone bot, of presses or of callbacks. In `EnsureRepo`, of `Ensure(p)` for every process,
of `Prepare` and `EndWork`: a process that has called goes on until it returns, git ends and
so does claude; nothing makes anybody call. Nothing is assumed of the saves of hooks and skills in `EpicPipeline`: claude need
not write. In `Migrations`, of `Start` of the daemon, which systemd starts
again, or of a `Step` of any process: some process that can go on does, none is chosen. Nothing is assumed of
faults, crashes or the operator's other actions, and a flock or a write lock is granted to some
waiting process, not to a chosen one.

## Proofs

`EpicPipelineProofs` proves, for every set of epics, every pipeline, every gate mode and every
bound, `TypeOK`, `DependenciesFirst`, `GateBeforeNode`, `OneOpenRun`, `WalkIsWhole` and
`ShippedIsEarnedAndFinal`. The assumptions used are those of the constants (`OrderType`, `OrderIsWhole`,
`OrderIsTopological`, `SavesType`, `BreakableType`, `BoundsType`, `NoEpicType`): the order has every node,
after all it depends on. None of these is inductive alone. `IInv` is `TypeOK` and `OneOpenRun` with

- `Frame`: the locals mean something exactly between a dispatch and its end;
- `Checkpointed`: the local set of completed nodes never runs ahead of the table, whoever else
  writes it, so a dependency found in it is finished;
- `Dispatched`: what the guards of the walk established (dependencies, approval)
  still holds when the node is saved, several commits later;
- `Walked`: all the walk is past is in its set of completed nodes; with a topological
  order no node can then miss a dependency, so a walk at its end has passed nothing over;
- `FreshGate`: a row just inserted is not yet a gate, so marking it overwrites no
  approval;
- `Settled`: from the clean-up on, the epic's only running row is the one the walk
  inserted, which with the absence of pending gates at dispatch gives `OneOpenRun`.

`ShippedIsEarnedAndFinal` rests on `IInv` and `Shipping`: a shipped epic has every required node finished,
an epic that is polled or in hand is no draft, and a walk that is about to write decided to ship, with every
required node finished, although a save may have shipped the epic first.

`ExecutorsProofs` proves `DependenciesFirst` for any number of executors on one scope. It uses
neither what `TopologicalSort` returns nor any exclusion: each executor knows only
nodes that are finished in its scope (`Known`), is past a node's dependencies until it saves
the node (`Entered`), and nobody takes a finished node back. `OrderIsSound`, for every finite graph,
is Kahn's algorithm: by induction over its steps, what is in the order or the queue is exactly what has its
dependencies in the order, so the order is complete or the rest has a cycle. On it rest `CompleteMeansAll` and
`TypeOK`, with the invariant `WInv`: each executor is sane (`Sane`: its
row and its trace are there and are its own, it walks the order that was found, and all it is
past is completed, `Passed`) and a completed trace has its scope finished (`Done`). `QuestionsWait` adds `Owned`: the row an
executor has in hand is no gate yet and nobody else's, so the row it completes, fails or marks
is never one that waits, although a clean-up may close the rows of others under them.

The library's induction theorems cannot be used with these provers, since they take an operator. The
proofs use `NatLessThanWellFounded` and `WFMin`, which speak of sets: a set of
numbers that is not empty has a least element, hence induction (`T` has 0 and with each number the next,
so it has all) and, from it, that a recursive function is what its definition says.

`ImplementPhasesProofs` proves `TypeOK`, `SuccessMeansDone`, `CancelStopsRetries` and `NoStorm`, for any
tasks, units, classes of errors and limits. What makes success real is `CountedIsDone`: the counter of a pass
never exceeds the number of tasks done in the units behind it, whatever claude reported, so that
reaching the number of all tasks means that they are done. `Running`, `Retrying` and
`Dispatched` say what a pass, its retries and its current row stand for. `NoStorm` needs `Guarded`: while the
breaker in memory is closed its count is below the limit and at least the number of failing units
among the last rows, wherever a seed took them from, and no attempt is made while it is open.

`EnsureRepoProofs` proves `TypeOK`, `Serialized` and `OwnWorkOnly`. flock excludes only those that have the
same inode, and the path is unlinked after each use, so there may be several lock files; `Serial` says why
that is enough until something is disturbed: either the clone is complete, and whoever gets a lock only looks,
or nobody has come as far as the unlink and every open lock file is the one at the path. `Work`
says that what is uncommitted belongs to the branch that is checked out. `TypeOK` needs `Purpose`: the daemon has an
epic between two calls, and creates a branch only where there is none.

`MigrationsProofs` proves `TypeOK`, `KeepsRows`, `SchemaIsKnown` and `NothingLeftOver`, for any processes, any tables and rows, and any migrations that have the shape of
the repository's (`CreateShape`, `RebuildShape`; for the schema `CommitShape` too, for what is
left over also `NewShape` and `AddedShape`). The
invariant `RInv` says of each process that it is at
a statement its file has, and outside of a transaction at the first one (`Placed`), so that the PRAGMA there
takes effect and foreign keys are off when a table is dropped (`KeysOff`); that with `DROP` or `RENAME` next it has
the write lock, and the new table all rows (`Rebuilding`); and that its transaction has
otherwise kept what was committed (`Kept`), from the rename to the commit under the same lock (`Lock`).

`SchemaIsKnown` needs more, `Known`. A process may work from a list that others have made old, but never further than at the
first migration that is not recorded (`Reader`, `Place`), and what it has executed so far still shows in the
tables, whatever others have committed since (`Obliged`): that is what makes a record true although its
statements were committed one by one. Between records a table has at least its columns
in the schema, and at most those ever given to it (`Floor`, `Ceiling`), and so has it in the transaction of the
writer unless its script rebuilds the table (`Ahead`). A migration that is run again after it was recorded changes nothing
that `Floor` speaks of, since a table that has columns keeps some (`SchemaStays`), and a rebuild that
commits before its record is the last that adds to the table (`SchemaFixed`). `Schema` and `Given` are functions over the
numbers, so these lemmas are inductions over a set of numbers too.

`NothingLeftOver` needs `Exact`, which holds until two processes migrate at a time. One that is alone has a true list and is at the first migration that is not
recorded (`Current`); the new table it has made is as it made it when it takes the name (`Made`), which a second
process would spoil; and a table, also after a death, has at most the columns of the schema and of
the next migration (`Between`).

`GateDeskProofs` proves `TypeOK`, `WaitingIsAnswerable`, `AskedOncePerBot` and the refinement `KeepsPromise`,
for any gates, bots and numbers of presses and faults. `IInv` is `TypeOK` with three
parts: `Opened` (a gate in a batch, in hand or in the chat was opened), `Sent` (a gate that
is recorded as notified, or about to be, has a message in the chat) and `Resolved` (a
message without buttons, or about to lose them, is about a gate that is answered). Each step of the desk is then a step of the promise or a stutter:
opening, the record or the delivery that asks, and the one UPDATE that answers. For
`AskedOncePerBot` a bot is spent for a gate when it has just told of it, or can neither hold nor read it as
unnotified any more; `CopiesPaid` says that each message of a gate is paid for by a spent bot or a fault.

`EpicStatusProofs` proves `TypeOK`, `NeverUndone`, `ShippedStays`, `DraftNeedsWork` and
`ReseedSettles`, for any epics, nodes, files and bounds, from the assumptions of the
constants; the one that matters is `RequiredType`: something beyond epic-context is
required. `ShippedStays` and `DraftNeedsWork` hold of every step but an override. The lemmas say what the operators on rows (`WithNodesOf`, `Progressed`,
`Seeded`, `Saved`) keep of nodes and make of a status. The invariant beside `TypeOK` is
`Decision`: a pipeline that is about to write decided to ship, with every node done;
without it a stale decision could put a shipped epic back in progress.

`LedgerProofs` proves `TypeOK`, `RowsAreKept`, `IngestStartsClean`, `IngestIsComplete`,
`ApprovedAreSettled` (the two halves of `IngestDoesItsWork`), `TwiceOnlyByRecovery` and `DriftIsReviewed` for any commits, platforms, epics, kinds of
change and bounds; the last under the hypothesis `~Since`, which `ledger_since` shows to be needed, and of the platforms that no two ingests had open at a time. One lemma, `RowsAlways`, says of any step what it may do to a row (`Kept`) and where
a new row comes from (`NewRow`). `IngestInv` adds that a composite key names the platform of
its row (`CompositeOwn`) and that what an ingest found there stays there until it writes
(`ReadsStay`, `TrackedStay`). `DriftInv` adds that a commit is made in one repository (`Repos`), that two ingests open for one platform
show in `overlapped` (`Alone`), that an open ingest of another
has seen every row it could sweep that is on the base branch (`NoneMissed`, the conjunct
`--since` breaks), and that sessions list as noise what is noise and as patched what is
settled (`ReasonsStand`). `TwiceInv` adds that the hook of a commit runs before the commit can be
pushed (`Unpushed`) and that what an ingest has not found tracked is written since only by a
recovery (`Seen`), so neither the hook nor the ingest meets a row of the other.

`RowsAreKept` and `IngestStartsClean` of `Ledger` are proved only: no run repeats them.

Only model-checked:

- every liveness property (`EpicsEnd`, `Settles`, `EveryGateAsked`, `CallsEnd`,
  `SchemaIsReached`): fairness and ENABLED are beyond the prover;
- `GroupingIsSound`, which TLC evaluates for every list of up to five tasks.

Violated by the code, and findings: `RunningIsReal`, `OneInstance`, `FilesystemWins` and, with `--since`,
`DriftIsReviewed`.

## Not modelled

- **Telegram**: offsets of the long poll, reminders, the degraded mode (an alert by ntfy), decision
  callbacks and chat commands. Offsets and lost updates are reduced to presses that are lost or
  come again; the rest reads the same columns and changes none a property is about.
- **Epic status**: quick cycles, the nodes of the platform, hashes, dates of nodes, provenance.
- **Database**: evaluations, events, full-text search and the queries of the reports, which nothing in
  the control flow reads; the commits' audit (`audit_commit_attribution.py`), a report.
- **Decisions**: import and export of decision records are one-way and done by one process; their score is
  a function of words.
- **Implement node**: which claude session a task resumes; it changes the prompt, not the control.
- **Lifespan of the daemon** beside its lock: task group, HTTP endpoints, watchdog.
- **Pull requests** of `implement_remote.py`: one call of `gh` with its result logged.
- **Observability**: written best-effort, never read by the control flow.
- **QA startup, screen flow and capture, command line, linters, skills, `recover_db.py`**: sequential
  tools, run by hand or by a hook, without state of their own that another step relies on.
- **Prompt composition and portal**: strings and a static web site.
