------------------------------ MODULE Migrations ------------------------------
(***************************************************************************)
(* db_core.migrate: every process that opens the database (the daemon, the *)
(* hooks, the command line) first runs the migrations that are not yet     *)
(* recorded, at any time and beside each other, while others write rows.   *)
(*                                                                         *)
(* Python's sqlite3 begins a transaction before an INSERT only: what a     *)
(* migration does to tables before its first INSERT is committed statement *)
(* by statement, the rest together with its record in _migrations.         *)
(***************************************************************************)
EXTENDS Naturals, Sequences, SequencesExt

CONSTANTS Procs,
          Daemon,       \* the process that systemd starts again
          Order,        \* the migrations, sorted by the names of their files
          Script,       \* the statements of each
          Unavailable,  \* those this SQLite cannot run (FTS5)
          Old, Splits,  \* a migration of older versions, and its two halves
          Tables,
          Columns,
          Rows,
          NoTable, Nobody,
          Budget        \* bound: adverse events, and starts of the others

Migrations == ToSet(Order)
Statements == [op : {"create", "column", "dropNew", "createNew", "copy", "drop", "rename"},
               table : Tables, cols : SUBSET Columns]
                \cup [op : {"begin", "commit", "off", "on"}]

ASSUME ProcsType  == Daemon \in Procs /\ Nobody \notin Procs
ASSUME ScriptType == Script \in [Migrations -> Seq(Statements)]
ASSUME NamesType  == Unavailable \cup Splits \subseteq Migrations /\ Old \notin Migrations
ASSUME BoundType  == Budget \in Nat
ASSUME OrderType  == Order \in Seq(Migrations) /\ \A i, j \in DOMAIN Order : Order[i] = Order[j] => i = j

(* Where a migration does `op` to a table, and how the migrations of the    *)
(* repository are written.  A table is created once, with some column; ... *)
Does(m, op, t) == {k \in DOMAIN Script[m] : Script[m][k].op = op /\ Script[m][k].table = t}

ASSUME CreateShape ==
    \A m \in Migrations, t \in Tables :
        /\ \A j, k \in Does(m, "create", t) : j = k
        /\ \A k \in Does(m, "create", t) \cup Does(m, "createNew", t) : Script[m][k].cols # {}

(* ... or it is rebuilt, and nothing else, with foreign keys off; ...       *)
Rebuilds(m, t) == Does(m, "createNew", t) # {}

ASSUME RebuildShape ==
    \A m \in Migrations, t \in Tables :
        /\ Rebuilds(m, t) => Does(m, "rename", t) # {} /\ Does(m, "create", t) \cup Does(m, "column", t) = {}
        /\ \A j, k \in Does(m, "drop", t) : j = k
        /\ \A k \in Does(m, "drop", t) :
              /\ k - 1 \in Does(m, "copy", t) /\ k + 1 \in Does(m, "rename", t)
              /\ Script[m][1].op = "off" /\ \A j \in 1..k : Script[m][j].op # "on"
        /\ \A k \in Does(m, "rename", t) : k - 1 \in Does(m, "drop", t) /\ Rebuilds(m, t)

(* ... the new table is created once, before the rows are copied; ...       *)
ASSUME NewShape ==
    \A m \in Migrations, t \in Tables : \A j \in Does(m, "createNew", t) :
        /\ \A k \in Does(m, "createNew", t) : j = k
        /\ \A k \in Does(m, "copy", t) : j < k

(* ... a COMMIT comes after all this, and what it commits stays as it is.   *)
ASSUME CommitShape ==
    \A i \in DOMAIN Order : \A c \in DOMAIN Script[Order[i]], t \in Tables :
        Script[Order[i]][c].op = "commit" /\ Rebuilds(Order[i], t) =>
           /\ \A k \in Does(Order[i], "rename", t) : k < c
           /\ \A j \in DOMAIN Order, op \in {"create", "column", "createNew"} :
                 j > i => Does(Order[j], op, t) = {}

Table == [cols : SUBSET Columns, rows : SUBSET Rows]
ASSUME NoTableType == NoTable \notin Table

VARIABLES db,       \* what is committed
          pending,  \* what the writer sees, in its transaction
          writer,   \* the process that has SQLite's write lock
          proc,     \* the processes: where each is in migrate
          beside,   \* history: two processes have migrated at a time
          budget

vars == <<db, pending, writer, proc, beside, budget>>

(* `tables` are the tables themselves, `news` those called <table>_new,     *)
(* `children` the rows of other tables that refer to a row of a table.     *)
Database == [tables : [Tables -> Table \cup {NoTable}], news : [Tables -> Table \cup {NoTable}],
             children : [Tables -> SUBSET Rows], recorded : SUBSET (Migrations \cup {Old})]

Ended == {"off", "failed", "done"}

DataOK ==
    /\ db \in Database /\ pending \in Database
    /\ writer \in Procs \cup {Nobody}
    /\ proc \in [Procs -> [pc : Ended \cup {"split", "repair", "run"}, applied : SUBSET (Migrations \cup {Old}),
                           at : 1..(Len(Order) + 1), next : Nat, tx : BOOLEAN, keys : BOOLEAN]]
    /\ \A p \in Procs : writer = p => proc[p].pc = "run" /\ proc[p].tx
    /\ writer = Nobody => pending = db
    /\ budget \in 0..Budget

TypeOK == DataOK /\ beside \in BOOLEAN

-----------------------------------------------------------------------------
(* What the statements of a migration say of the columns of a table.       *)
ColumnsOf(m, ops, t) ==
    UNION {s.cols : s \in {s \in ToSet(Script[m]) : s.op \in ops /\ s.table = t}}

(* The columns each table has when the first n migrations are applied: a    *)
(* rebuild replaces them, CREATE TABLE IF NOT EXISTS makes a new table.     *)
ColumnsAfter(m, cols, t) ==
    IF m \in Unavailable THEN cols
    ELSE IF Rebuilds(m, t) THEN ColumnsOf(m, {"createNew"}, t)
    ELSE (IF cols = {} THEN ColumnsOf(m, {"create"}, t) ELSE cols) \cup ColumnsOf(m, {"column"}, t)

Schema[n \in 0..Len(Order)] ==
    [t \in Tables |-> IF n = 0 THEN {} ELSE ColumnsAfter(Order[n], Schema[n - 1][t], t)]

(* No migration takes away a column that one before has added by ALTER     *)
(* TABLE: the repair would add it again.                                   *)
ASSUME AddedShape ==
    \A n \in 0..Len(Order), t \in Tables : \A i \in 1..n :
        ColumnsOf(Order[i], {"column"}, t) \subseteq Schema[n][t]

With(n, recorded) ==
    [tables |-> [t \in Tables |-> IF Schema[n][t] = {} THEN NoTable ELSE [cols |-> Schema[n][t], rows |-> {}]],
     news |-> [t \in Tables |-> NoTable], children |-> [t \in Tables |-> {}], recorded |-> recorded]

(* A new database, or one an older version migrated before the split.      *)
Init ==
    /\ \/ db = With(0, {})
       \/ \E n \in 1..Len(Order) :
             /\ \A i \in 1..Len(Order) : Order[i] \in Splits => i <= n
             /\ Order[n] \in Splits
             /\ db = With(n, ({Order[i] : i \in 1..n} \ Splits) \cup {Old})
    /\ pending = db /\ writer = Nobody
    /\ proc = [p \in Procs |-> [pc |-> "off", applied |-> {}, at |-> 1, next |-> 1, tx |-> FALSE, keys |-> TRUE]]
    /\ beside = FALSE
    /\ budget = Budget

Adverse == budget > 0 /\ budget' = budget - 1

-----------------------------------------------------------------------------
(* SQLite                                                                   *)

View(p) == IF writer = p THEN pending ELSE db

(* A statement that writes: it waits for the lock, and outside of a        *)
(* transaction it commits.                                                 *)
Write(p, new, tx) ==
    /\ writer \in {p, Nobody}
    /\ pending' = new
    /\ IF tx THEN writer' = p /\ UNCHANGED db ELSE db' = new /\ UNCHANGED writer

Commit(p) == IF writer = p THEN db' = pending /\ writer' = Nobody ELSE UNCHANGED <<db, writer>>

Rollback(p) ==
    IF writer = p THEN pending' = db /\ writer' = Nobody ELSE UNCHANGED <<pending, writer>>

(* Another process writes a row, and one that refers to it.                *)
AddRow(t, r) ==
    /\ db.tables[t] # NoTable /\ r \notin db.tables[t].rows
    /\ writer = Nobody
    /\ db' = [db EXCEPT !.tables[t].rows = @ \cup {r}, !.children[t] = @ \cup {r}]
    /\ pending' = db'
    /\ UNCHANGED <<writer, proc, beside, budget>>

-----------------------------------------------------------------------------
(* migrate                                                                  *)

(* get_conn, with foreign keys on, and the names recorded so far.          *)
Start(p) ==
    /\ proc[p].pc \in Ended
    /\ IF p = Daemon THEN proc[p].pc # "done" /\ UNCHANGED budget ELSE Adverse
    /\ beside' = (beside \/ \E q \in Procs : proc[q].pc \notin Ended)
    /\ proc' = [proc EXCEPT ![p] = [pc |-> "split", applied |-> db.recorded, at |-> 1, next |-> 1,
                                    tx |-> FALSE, keys |-> TRUE]]
    /\ UNCHANGED <<db, pending, writer>>

(* The halves of an old migration are recorded, or already are.            *)
RecordSplit(p) ==
    LET missing == IF Old \in proc[p].applied THEN Splits \ proc[p].applied ELSE {}
    IN  /\ proc[p].pc = "split" /\ missing \cap db.recorded = {}
        /\ IF missing = {} THEN UNCHANGED <<db, pending, writer>>
           ELSE Write(p, [db EXCEPT !.recorded = @ \cup missing], FALSE)
        /\ proc' = [proc EXCEPT ![p].pc = "repair", ![p].applied = IF missing = {} THEN @ ELSE db'.recorded]
        /\ UNCHANGED <<beside, budget>>

(* The columns of the applied migrations are added again; what fails, also *)
(* for the lock, is only a warning.                                        *)
Repaired(applied) ==
    LET again(t) == UNION {s.cols : s \in {s \in UNION {ToSet(Script[m]) : m \in applied \ {Old}} :
                                              s.op = "column" /\ s.table = t}}
    IN  [db EXCEPT !.tables = [t \in Tables |-> IF db.tables[t] = NoTable THEN NoTable
                                                ELSE [db.tables[t] EXCEPT !.cols = @ \cup again(t)]]]

(* The first file from the i-th on whose migration is not among the applied. *)
FirstFrom(i, applied) == Min({j \in i..Len(Order) : Order[j] \notin applied} \cup {Len(Order) + 1})

Repair(p) ==
    /\ proc[p].pc = "repair"
    /\ \/ Write(p, Repaired(proc[p].applied), FALSE) /\ UNCHANGED budget
       \/ writer # Nobody /\ Adverse /\ UNCHANGED <<db, pending, writer>>
    /\ proc' = [proc EXCEPT ![p].pc = "run", ![p].at = FirstFrom(1, proc[p].applied)]
    /\ UNCHANGED beside

Migration(p) == Order[proc[p].at]
Pending(p)   == proc[p].pc = "run" /\ proc[p].at <= Len(Order)
NextFile(p)  ==
    proc' = [proc EXCEPT ![p].at = FirstFrom(@ + 1, proc[p].applied), ![p].next = 1, ![p].tx = FALSE]

(* Without FTS5 its migration is only recorded.                            *)
RecordUnavailable(p) ==
    /\ Pending(p) /\ Migration(p) \in Unavailable /\ Migration(p) \notin db.recorded
    /\ Write(p, [db EXCEPT !.recorded = @ \cup {Migration(p)}], FALSE)
    /\ NextFile(p)
    /\ UNCHANGED <<beside, budget>>

(* The statement of the file the process is at.                            *)
AtStatement(p) ==
    /\ Pending(p) /\ Migration(p) \notin Unavailable
    /\ proc[p].next <= Len(Script[Migration(p)])
Statement(p) == Script[Migration(p)][proc[p].next]
At(p, op)    == AtStatement(p) /\ Statement(p).op = op
Advance(p, tx, keys) == proc' = [proc EXCEPT ![p].next = @ + 1, ![p].tx = tx, ![p].keys = keys]

(* The columns an INSERT names are all that its script gives the table.    *)
Named(p) == ColumnsOf(Migration(p), {"createNew"}, Statement(p).table)

(* What SQLite refuses.                                                    *)
Wrong(p) ==
    LET s == Statement(p) v == View(p)
    IN  \/ s.op \in {"column", "copy", "drop"} /\ v.tables[s.table] = NoTable
        \/ s.op = "createNew" /\ v.news[s.table] # NoTable
        \/ s.op \in {"copy", "rename"} /\ v.news[s.table] = NoTable
        \/ /\ s.op = "copy" /\ v.tables[s.table] # NoTable /\ v.news[s.table] # NoTable
           /\ ~(s.cols \subseteq v.tables[s.table].cols /\ Named(p) \subseteq v.news[s.table].cols)
        \/ s.op = "rename" /\ v.tables[s.table] # NoTable

Change(p, new, tx) ==
    /\ ~Wrong(p)
    /\ Write(p, new, tx)
    /\ Advance(p, tx, proc[p].keys)
    /\ UNCHANGED <<beside, budget>>

(* CREATE TABLE IF NOT EXISTS                                              *)
Create(p) ==
    /\ At(p, "create")
    /\ LET s == Statement(p) v == View(p)
       IN  Change(p, [v EXCEPT !.tables[s.table] = IF @ = NoTable THEN [cols |-> s.cols, rows |-> {}] ELSE @],
                  proc[p].tx)

(* ALTER TABLE ADD COLUMN, whose "duplicate column" is ignored.            *)
AddColumn(p) ==
    /\ At(p, "column")
    /\ LET s == Statement(p)
       IN  Change(p, [View(p) EXCEPT !.tables[s.table].cols = @ \cup s.cols], proc[p].tx)

(* Mutant: the table a crash has left is not dropped.                      *)
DropNewNever(p) ==
    /\ At(p, "dropNew")
    /\ Change(p, View(p), proc[p].tx)

(* A table is rebuilt: a new one, which may be left from before, ...       *)
DropNew(p) ==
    /\ At(p, "dropNew")
    /\ Change(p, [View(p) EXCEPT !.news[Statement(p).table] = NoTable], proc[p].tx)

(* Mutant: the new table is made as the old one is, with what it adds.     *)
CreateNewLike(p) ==
    /\ At(p, "createNew")
    /\ LET t == Statement(p).table old == View(p).tables[t]
       IN  Change(p, [View(p) EXCEPT !.news[t] = [cols |-> Statement(p).cols \cup
                                                            (IF old = NoTable THEN {} ELSE old.cols), rows |-> {}]],
                  proc[p].tx)

CreateNew(p) ==
    /\ At(p, "createNew")
    /\ Change(p, [View(p) EXCEPT !.news[Statement(p).table] = [cols |-> Statement(p).cols, rows |-> {}]],
              proc[p].tx)

(* Mutant: as executescript, which commits.                                *)
CopyCommits(p) ==
    /\ At(p, "copy")
    /\ LET t == Statement(p).table
       IN  Change(p, [View(p) EXCEPT !.news[t].rows = View(p).tables[t].rows], proc[p].tx)

(* ... gets the rows, by an INSERT, before which a transaction begins, ... *)
Copy(p) ==
    /\ At(p, "copy")
    /\ LET t == Statement(p).table
       IN  Change(p, [View(p) EXCEPT !.news[t].rows = View(p).tables[t].rows], TRUE)

(* ... the table is dropped, with foreign keys on also what refers to it,   *)
Drop(p) ==
    /\ At(p, "drop")
    /\ LET t == Statement(p).table
       IN  Change(p, [View(p) EXCEPT !.tables[t] = NoTable, !.children[t] = IF proc[p].keys THEN {} ELSE @],
                  proc[p].tx)

(* ... and the new one takes its name.                                     *)
Rename(p) ==
    /\ At(p, "rename")
    /\ LET t == Statement(p).table
       IN  Change(p, [View(p) EXCEPT !.tables[t] = View(p).news[t], !.news[t] = NoTable], proc[p].tx)

BeginTransaction(p) ==
    /\ At(p, "begin") /\ Advance(p, TRUE, proc[p].keys)
    /\ UNCHANGED <<db, pending, writer, beside, budget>>

CommitTransaction(p) ==
    /\ At(p, "commit") /\ Commit(p) /\ Advance(p, FALSE, proc[p].keys)
    /\ UNCHANGED <<pending, beside, budget>>

(* PRAGMA foreign_keys, without effect in a transaction.                   *)
ForeignKeys(p) ==
    /\ At(p, "off") \/ At(p, "on")
    /\ Advance(p, proc[p].tx, IF proc[p].tx THEN proc[p].keys ELSE Statement(p).op = "on")
    /\ UNCHANGED <<db, pending, writer, beside, budget>>

AtRecord(p) == Pending(p) /\ Migration(p) \notin Unavailable /\ proc[p].next > Len(Script[Migration(p)])

(* INSERT of the name, which another process may have inserted, and commit. *)
Record(p) ==
    /\ AtRecord(p) /\ Migration(p) \notin View(p).recorded
    /\ writer \in {p, Nobody} /\ writer' = Nobody
    /\ db' = [View(p) EXCEPT !.recorded = @ \cup {Migration(p)}] /\ pending' = db'
    /\ NextFile(p)
    /\ UNCHANGED <<beside, budget>>

Taken(p) ==
    \/ proc[p].pc = "split" /\ Old \in proc[p].applied /\ (Splits \ proc[p].applied) \cap db.recorded # {}
    \/ Pending(p) /\ Migration(p) \in Unavailable /\ Migration(p) \in db.recorded
    \/ AtRecord(p) /\ Migration(p) \in View(p).recorded

(* Mutant: a statement that fails is a warning, as in the repair.          *)
RaiseNever(p) ==
    /\ AtStatement(p) /\ Wrong(p)
    /\ Advance(p, proc[p].tx, proc[p].keys)
    /\ UNCHANGED <<db, pending, writer, beside, budget>>

(* A refused statement, a name that is taken, or a lock not got in time:   *)
(* what is not committed is rolled back, and the process ends.             *)
Raise(p) ==
    /\ \/ ((AtStatement(p) /\ Wrong(p)) \/ Taken(p)) /\ UNCHANGED budget
       \/ (AtStatement(p) \/ AtRecord(p)) /\ writer \notin {p, Nobody} /\ Adverse
    /\ Rollback(p)
    /\ proc' = [proc EXCEPT ![p].pc = "failed", ![p].tx = FALSE]
    /\ UNCHANGED <<db, beside>>

Finish(p) ==
    /\ proc[p].pc = "run" /\ proc[p].at > Len(Order)
    /\ proc' = [proc EXCEPT ![p].pc = "done", ![p].keys = TRUE]
    /\ UNCHANGED <<db, pending, writer, beside, budget>>

(* Mutant: the lock outlives the process.                                  *)
CrashLocked(p) ==
    /\ proc[p].pc \notin Ended /\ Adverse
    /\ proc' = [proc EXCEPT ![p].pc = "off", ![p].tx = FALSE]
    /\ UNCHANGED <<db, pending, writer, beside>>

Crash(p) ==
    /\ proc[p].pc \notin Ended /\ Adverse
    /\ Rollback(p)
    /\ proc' = [proc EXCEPT ![p].pc = "off", ![p].tx = FALSE]
    /\ UNCHANGED <<db, beside>>

-----------------------------------------------------------------------------
Step(p) ==
    \/ RecordSplit(p) \/ Repair(p) \/ RecordUnavailable(p)
    \/ Create(p) \/ AddColumn(p) \/ DropNew(p) \/ CreateNew(p) \/ Copy(p) \/ Drop(p) \/ Rename(p)
    \/ BeginTransaction(p) \/ CommitTransaction(p) \/ ForeignKeys(p)
    \/ Record(p) \/ Raise(p) \/ Finish(p)

Next ==
    \/ \E p \in Procs : Start(p) \/ Step(p) \/ Crash(p)
    \/ \E t \in Tables, r \in Rows : AddRow(t, r)

Spec == Init /\ [][Next]_vars

(* Some process goes on, and systemd starts the daemon again after a        *)
(* failure: the others end, so that the daemon has its turn.                *)
Fairness == WF_vars(Start(Daemon) \/ \E p \in Procs : Step(p))
FairSpec == Spec /\ Fairness

-----------------------------------------------------------------------------
(* Properties                                                               *)

Applied == {i \in 1..Len(Order) : Order[i] \in db.recorded \/ (Old \in db.recorded /\ Order[i] \in Splits)}

ColumnsIn(t) == IF db.tables[t] = NoTable THEN {} ELSE db.tables[t].cols

(* The migration a database with n recorded ones is at.                    *)
Upcoming(n) == IF n = Len(Order) THEN n ELSE n + 1

Given ==
    [n \in 0..Len(Order) |-> [t \in Tables |->
        UNION {ColumnsOf(Order[i], {"create", "column", "createNew"}, t) : i \in 1..n}]]

(* Whatever crashes, and however many processes migrate at once, some with *)
(* a list of what is applied that is no longer true: the recorded          *)
(* migrations are the first ones; a table has at least all columns of      *)
(* their schema, or all of the next one's; and it has at most what these   *)
(* and the next one ever gave it.  That includes columns they took away:   *)
(* see NothingLeftOver.                                                    *)
SchemaIsKnown ==
    \E n \in 0..Len(Order) :
        /\ Applied = 1..n
        /\ \A t \in Tables :
              /\ Schema[n][t] \subseteq ColumnsIn(t) \/ Schema[Upcoming(n)][t] \subseteq ColumnsIn(t)
              /\ ColumnsIn(t) \subseteq Given[Upcoming(n)][t]

(* What a migration takes away is gone when it is recorded, and does not   *)
(* come back: a table has no column but those of the schema of the         *)
(* recorded migrations and of the next one, wherever a process died.  This *)
(* is so until two processes migrate at a time: one with an old list can   *)
(* then put a column back under the other.                                 *)
NothingLeftOver ==
    \A n \in 0..Len(Order), t \in Tables :
        ~beside /\ Applied = 1..n => ColumnsIn(t) \subseteq Schema[n][t] \cup Schema[Upcoming(n)][t]

(* No row of a rebuilt table is lost, nor what refers to it, although rows *)
(* are written and processes die while it is rebuilt.                      *)
KeepsRows ==
    [][\A t \in Tables :
          /\ db.tables[t] # NoTable => db'.tables[t] # NoTable /\ db.tables[t].rows \subseteq db'.tables[t].rows
          /\ db.children[t] \subseteq db'.children[t]]_vars

(* A database is never stuck half-way: the daemon gets all migrations      *)
(* recorded in the end, whatever a crash or another process has left.      *)
SchemaIsReached == <>(Migrations \subseteq db.recorded)
=============================================================================
