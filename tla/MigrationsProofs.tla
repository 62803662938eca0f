--------------------------- MODULE MigrationsProofs ---------------------------
(***************************************************************************)
(* For any number of processes and any migrations written as those of the  *)
(* repository are (CreateShape, RebuildShape): no row of a table is lost,   *)
(* nor one that refers to it, whoever else writes or dies meanwhile.       *)
(*                                                                         *)
(*   - a process is in a file that has statements left, and outside of a   *)
(*     transaction before the first (Placed), so that the PRAGMA at the    *)
(*     head of a rebuild takes effect and keys stay off (KeysOff);         *)
(*   - where a process is about to drop a table, it has SQLite's lock and  *)
(*     the new one has the rows: the INSERT before took the lock, and no   *)
(*     row came since; where it is about to rename, the table is gone in   *)
(*     its transaction only (Rebuilding);                                  *)
(*   - in the transaction, all other rows are still those committed (Kept), *)
(*     so a COMMIT loses none.                                             *)
(*                                                                         *)
(* And the columns are those of the recorded migrations: a process that    *)
(* works from a list that is no longer true is at most at the first        *)
(* migration that is not recorded (Reader, Place), what it has executed    *)
(* still shows whatever others committed since (Obliged), and so a table   *)
(* has at least its columns of the schema and at most those ever given to  *)
(* it (Floor, Ceiling), in the writer's transaction too (Ahead).           *)
(*                                                                         *)
(* Until two processes migrate at a time, the list of the one that does is *)
(* true and it is at the first migration that is not recorded (Current); a *)
(* new table it has made is as it made it when it takes the name (Made); so *)
(* that nothing a rebuild took away is left, nor comes back (Between,       *)
(* AddedShape).                                                            *)
(***************************************************************************)
EXTENDS Migrations, WellFoundedInduction, TLAPS

-----------------------------------------------------------------------------
(* Induction and recursion over the numbers                                *)

NatOrder == {pair \in Nat \X Nat : pair[1] < pair[2]}

LEMMA NatWellFounded == IsWellFoundedOn(NatOrder, Nat)
BY NatLessThanWellFounded DEF OpToRel, NatOrder

(* A set of numbers has a least element.                                    *)
LEMMA LeastExists ==
    ASSUME NEW S \in SUBSET Nat, S # {}
    PROVE  \E n \in S : \A m \in S : n <= m
<1>1. PICK n \in S : \A m \in S : <<m, n>> \notin NatOrder
  BY NatWellFounded, WFMin
<1>2. ASSUME NEW m \in S PROVE n <= m
  <2>1. n \in Nat /\ m \in Nat
    OBVIOUS
  <2>2. ~(m < n)
    BY <1>1, <2>1 DEF NatOrder
  <2> QED
    BY <2>1, <2>2
<1> QED
  BY <1>2

LEMMA Induction ==
    ASSUME NEW T, 0 \in T, \A n \in Nat : n \in T => n + 1 \in T
    PROVE  Nat \subseteq T
<1> SUFFICES ASSUME Nat \ T # {} PROVE FALSE
  OBVIOUS
<1>1. PICK n \in Nat \ T : \A m \in Nat \ T : n <= m
  BY LeastExists
<1>2. n # 0 /\ n - 1 \in Nat /\ ~(n <= n - 1)
  BY <1>1
<1>3. n - 1 \in T
  BY <1>1, <1>2
<1> QED
  BY <1>1, <1>2, <1>3

(* A function that is defined by recursion on 0..n.                         *)
Iterates(V, c, step, n, f) == f \in [0..n -> V] /\ f[0] = c /\ \A i \in 1..n : f[i] = step[<<f[i - 1], i>>]

LEMMA Recursion ==
    ASSUME NEW V, NEW c \in V, NEW step \in [V \X Nat -> V], NEW n \in Nat
    PROVE  \E f : Iterates(V, c, step, n, f)
<1> DEFINE Is(f, m) == f[0] = c /\ \A i \in 1..m : f[i] = step[<<f[i - 1], i>>]
           T == {m \in Nat : \E f \in [0..m -> V] : Is(f, m)}
<1>1. 0 \in T
  <2>1. Is([i \in 0..0 |-> c], 0)
    OBVIOUS
  <2>2. [i \in 0..0 |-> c] \in [0..0 -> V]
    OBVIOUS
  <2> QED
    BY <2>1, <2>2
<1>2. ASSUME NEW m \in Nat, m \in T PROVE m + 1 \in T
  <2>1. PICK f \in [0..m -> V] : Is(f, m)
    BY <1>2
  <2> DEFINE h == [i \in 0..(m + 1) |-> IF i = m + 1 THEN step[<<f[m], m + 1>>] ELSE f[i]]
  <2>2. h \in [0..(m + 1) -> V]
    <3>1. f[m] \in V /\ <<f[m], m + 1>> \in V \X Nat
      BY <2>1
    <3> QED
      BY <2>1, <3>1
  <2>3. Is(h, m + 1)
    <3>1. h[0] = c
      BY <2>1
    <3>2. ASSUME NEW i \in 1..(m + 1) PROVE h[i] = step[<<h[i - 1], i>>]
      <4>1. h[i - 1] = f[i - 1]
        OBVIOUS
      <4>2. CASE i = m + 1
        <5>1. i - 1 = m /\ h[i] = step[<<f[m], m + 1>>]
          BY <4>2
        <5> QED
          BY <4>1, <4>2, <5>1
      <4>3. CASE i # m + 1
        <5>1. i \in 1..m /\ h[i] = f[i]
          BY <4>3
        <5> QED
          BY <2>1, <4>1, <5>1
      <4> QED
        BY <4>2, <4>3
    <3> QED
      BY <3>1, <3>2
  <2> HIDE DEF h
  <2> QED
    BY <2>2, <2>3
<1> HIDE DEF T
<1>3. Nat \subseteq T
  BY <1>1, <1>2, Induction
<1> QED
  BY <1>3 DEF T, Iterates

-----------------------------------------------------------------------------
(* The scripts and the schema they lead to                                 *)

Final == Len(Order)

LEMMA OrderFacts ==
    /\ Final \in Nat /\ DOMAIN Order = 1..Final
    /\ \A i \in 1..Final : Order[i] \in Migrations
    /\ \A m \in Migrations : \E i \in 1..Final : Order[i] = m
    /\ \A i, j \in 1..Final : Order[i] = Order[j] => i = j
<1>1. Final \in Nat /\ DOMAIN Order = 1..Final
  BY OrderType DEF Final
<1> QED
  BY <1>1, OrderType DEF Migrations, ToSet

EditOps == {"create", "column", "dropNew", "createNew", "copy", "drop", "rename"}

LEMMA ScriptFacts ==
    ASSUME NEW m \in Migrations
    PROVE  /\ Len(Script[m]) \in Nat /\ DOMAIN Script[m] = 1..Len(Script[m])
           /\ \A k \in DOMAIN Script[m] : Script[m][k] \in Statements
<1>1. Script[m] \in Seq(Statements)
  BY ScriptType
<1> QED
  BY <1>1

LEMMA StatementFacts ==
    ASSUME NEW s \in Statements
    PROVE  /\ s.op \in EditOps => s.table \in Tables /\ s.cols \subseteq Columns
           /\ s.op \in EditOps \/ s.op \in {"begin", "commit", "off", "on"}
BY DEF Statements, EditOps

LEMMA ColumnsOfFacts ==
    ASSUME NEW m \in Migrations, NEW ops \in SUBSET EditOps, NEW t \in Tables
    PROVE  /\ ColumnsOf(m, ops, t) \subseteq Columns
           /\ \A k \in DOMAIN Script[m] : Script[m][k].op \in ops /\ Script[m][k].table = t
                 => Script[m][k].cols \subseteq ColumnsOf(m, ops, t)
           /\ \A c \in ColumnsOf(m, ops, t) : \E k \in DOMAIN Script[m] :
                 Script[m][k].op \in ops /\ Script[m][k].table = t /\ c \in Script[m][k].cols
<1> DEFINE S == {s \in ToSet(Script[m]) : s.op \in ops /\ s.table = t}
<1>1. ColumnsOf(m, ops, t) = UNION {s.cols : s \in S}
  BY DEF ColumnsOf
<1>2. \A s \in S : \E k \in DOMAIN Script[m] : s = Script[m][k] /\ s.op \in ops /\ s.table = t
  BY DEF ToSet
<1>3. \A k \in DOMAIN Script[m] : Script[m][k].op \in ops /\ Script[m][k].table = t => Script[m][k] \in S
  BY DEF ToSet
<1>4. \A k \in DOMAIN Script[m] : Script[m][k].op \in ops => Script[m][k].cols \subseteq Columns
  BY ScriptFacts, StatementFacts
<1> HIDE DEF S
<1> QED
  BY <1>1, <1>2, <1>3, <1>4

(* The recursion of Schema.                                                 *)
Columned == [Tables -> SUBSET Columns]

LEMMA ColumnsAfterType ==
    ASSUME NEW m \in Migrations, NEW cols \in SUBSET Columns, NEW t \in Tables
    PROVE  ColumnsAfter(m, cols, t) \subseteq Columns
<1>1. \A op \in {"create", "column", "createNew"} : {op} \in SUBSET EditOps
  BY DEF EditOps
<1>2. \A op \in {"create", "column", "createNew"} : ColumnsOf(m, {op}, t) \subseteq Columns
  BY <1>1, ColumnsOfFacts
<1> QED
  BY <1>2 DEF ColumnsAfter

LEMMA SchemaFacts ==
    /\ \A n \in 0..Final : Schema[n] \in Columned
    /\ \A t \in Tables : Schema[0][t] = {}
    /\ \A n \in 1..Final, t \in Tables : Schema[n][t] = ColumnsAfter(Order[n], Schema[n - 1][t], t)
<1> DEFINE c == [t \in Tables |-> {}]
           After(s, n) == [t \in Tables |-> ColumnsAfter(Order[n], s[t], t)]
           step == [x \in Columned \X Nat |-> IF x[2] \in 1..Final THEN After(x[1], x[2]) ELSE x[1]]
           Def(f) == f = [n \in 0..Final |-> [t \in Tables |->
                             IF n = 0 THEN {} ELSE ColumnsAfter(Order[n], f[n - 1][t], t)]]
<1>0. Final \in Nat /\ c \in Columned
  BY OrderFacts DEF Columned
<1>1. \A s \in Columned : \A n \in 1..Final : After(s, n) \in Columned
  BY OrderFacts, ColumnsAfterType DEF Columned
<1>2. step \in [Columned \X Nat -> Columned] /\ \A s \in Columned : \A n \in 1..Final : step[<<s, n>>] = After(s, n)
  <2> HIDE DEF After
  <2>1. \A x \in Columned \X Nat : x[1] \in Columned /\ x[2] \in Nat
    OBVIOUS
  <2>2. \A s \in Columned : \A n \in 1..Final : <<s, n>> \in Columned \X Nat
    BY <1>0
  <2> QED
    BY <1>1, <2>1, <2>2
<1>3. PICK f : Iterates(Columned, c, step, Final, f)
  <2> HIDE DEF step, c
  <2> QED
    BY <1>0, <1>2, Recursion
<1>4. \A n \in 1..Final : f[n] = After(f[n - 1], n)
  <2> HIDE DEF step, After
  <2>1. \A n \in 1..Final : f[n - 1] \in Columned
    BY <1>0, <1>3 DEF Iterates
  <2> QED
    BY <1>2, <1>3, <2>1 DEF Iterates
<1>5. Def(f)
  <2>1. \A n \in 0..Final : f[n] = [t \in Tables |-> IF n = 0 THEN {} ELSE ColumnsAfter(Order[n], f[n - 1][t], t)]
    <3>1. ASSUME NEW n \in 0..Final
          PROVE  f[n] = [t \in Tables |-> IF n = 0 THEN {} ELSE ColumnsAfter(Order[n], f[n - 1][t], t)]
      <4>1. CASE n = 0
        BY <1>3, <4>1 DEF Iterates
      <4>2. CASE n # 0
        <5>1. n \in 1..Final
          BY <4>2, <1>0
        <5> QED
          BY <1>4, <4>2, <5>1
      <4> QED
        BY <4>1, <4>2
    <3> QED
      BY <3>1
  <2>2. DOMAIN f = 0..Final /\ f = [n \in 0..Final |-> f[n]]
    BY <1>3 DEF Iterates
  <2> QED
    BY <2>1, <2>2
<1> DEFINE h == CHOOSE h : Def(h)
<1>6. Def(h)
  BY <1>5
<1>7. Schema = h
  BY DEF Schema, Final
<1>8. (\A t \in Tables : h[0][t] = {})
      /\ \A n \in 1..Final, t \in Tables : h[n][t] = ColumnsAfter(Order[n], h[n - 1][t], t)
  <2> HIDE DEF h
  <2>1. \A n \in 0..Final : h[n] = [t \in Tables |-> IF n = 0 THEN {} ELSE ColumnsAfter(Order[n], h[n - 1][t], t)]
    BY <1>6
  <2>2. 0 \in 0..Final /\ \A n \in 1..Final : n \in 0..Final /\ n # 0
    BY <1>0
  <2>3. \A t \in Tables : h[0][t] = {}
    BY <2>1, <2>2
  <2>4. ASSUME NEW n \in 1..Final, NEW t \in Tables PROVE h[n][t] = ColumnsAfter(Order[n], h[n - 1][t], t)
    <3>1. h[n] = [u \in Tables |-> ColumnsAfter(Order[n], h[n - 1][u], u)]
      BY <2>1, <2>2
    <3> QED
      BY <3>1
  <2> QED
    BY <2>3, <2>4
<1>9. \A n \in 0..Final : h[n] \in Columned
  <2> DEFINE T == {n \in Nat : n \in 0..Final => h[n] \in Columned}
  <2> HIDE DEF h
  <2>0. \A n \in 0..Final : h[n] = [t \in Tables |-> IF n = 0 THEN {} ELSE ColumnsAfter(Order[n], h[n - 1][t], t)]
    BY <1>6
  <2>1. 0 \in T
    BY <1>0, <2>0 DEF Columned
  <2>2. ASSUME NEW n \in Nat, n \in T PROVE n + 1 \in T
    <3>1. CASE n + 1 \in 0..Final
      <4>1. h[n] \in Columned /\ n + 1 \in 1..Final /\ (n + 1) - 1 = n
        BY <1>0, <2>2, <3>1
      <4>2. h[n + 1] = After(h[n], n + 1)
        BY <2>0, <3>1, <4>1
      <4> QED
        BY <1>1, <4>1, <4>2
    <3> QED
      BY <3>1
  <2> HIDE DEF T
  <2>3. Nat \subseteq T
    BY <2>1, <2>2, Induction
  <2> QED
    BY <2>3, <1>0 DEF T
<1> QED
  <2> HIDE DEF h
  <2> QED
    BY <1>7, <1>8, <1>9

(* The file a process goes on with.                                         *)
LEMMA FirstFromFacts ==
    ASSUME NEW i \in 1..(Final + 1), NEW applied
    PROVE  /\ FirstFrom(i, applied) \in i..(Final + 1)
           /\ FirstFrom(i, applied) <= Final => Order[FirstFrom(i, applied)] \notin applied
           /\ \A j \in i..(FirstFrom(i, applied) - 1) : Order[j] \in applied
<1> DEFINE S == {j \in i..Final : Order[j] \notin applied} \cup {Final + 1}
           least == CHOOSE x \in S : \A y \in S : x <= y
<1>1. S \in SUBSET Nat /\ S # {} /\ \A j \in S : j \in i..(Final + 1)
  BY OrderFacts
<1>2. \E x \in S : \A y \in S : x <= y
  <2> HIDE DEF S
  <2> QED
    BY <1>1, LeastExists
<1>3. least \in S /\ \A y \in S : least <= y
  <2> HIDE DEF S
  <2> QED
    BY <1>2
<1>4. FirstFrom(i, applied) = least
  BY DEF FirstFrom, Min, Final
<1> HIDE DEF least
<1>5. least \in i..(Final + 1) /\ (least <= Final => Order[least] \notin applied)
  BY <1>1, <1>3, OrderFacts
<1>6. ASSUME NEW j \in i..(least - 1), Order[j] \notin applied PROVE FALSE
  <2>1. j \in i..Final
    BY <1>5, OrderFacts
  <2> QED
    BY <1>3, <1>5, <1>6, <2>1
<1> QED
  BY <1>4, <1>5, <1>6

-----------------------------------------------------------------------------
(* What the steps do                                                       *)

Phases  == Ended \cup {"split", "repair", "run"}
Process == [pc : Phases, applied : SUBSET (Migrations \cup {Old}), at : 1..(Final + 1), next : Nat,
            tx : BOOLEAN, keys : BOOLEAN]

LEMMA TypeFacts ==
    ASSUME DataOK
    PROVE  /\ db \in Database /\ pending \in Database /\ proc \in [Procs -> Process]
           /\ writer \in Procs \cup {Nobody} /\ budget \in 0..Budget
           /\ \A p \in Procs : proc[p] \in Process /\ View(p) \in Database
BY DEF DataOK, Process, Phases, Final, View

(* A step of p moves only p.                                                *)
Frame(p) == proc' \in [Procs -> Process] /\ \A q \in Procs : q # p => proc'[q] = proc[q]

LEMMA MoveFacts ==
    ASSUME proc \in [Procs -> Process], NEW p \in Procs, NEW r \in Process, proc' = [proc EXCEPT ![p] = r]
    PROVE  Frame(p) /\ proc'[p] = r
BY DEF Frame

LEMMA AdvanceFacts ==
    ASSUME DataOK, NEW p \in Procs, NEW tx \in BOOLEAN, NEW keys \in BOOLEAN, Advance(p, tx, keys)
    PROVE  /\ Frame(p)
           /\ proc'[p].pc = proc[p].pc /\ proc'[p].applied = proc[p].applied /\ proc'[p].at = proc[p].at
           /\ proc'[p].next = proc[p].next + 1 /\ proc'[p].tx = tx /\ proc'[p].keys = keys
<1> DEFINE r == [proc[p] EXCEPT !.next = @ + 1, !.tx = tx, !.keys = keys]
<1>1. proc[p] \in Process /\ proc \in [Procs -> Process]
  BY TypeFacts
<1>2. proc' = [proc EXCEPT ![p] = r]
  BY DEF Advance
<1>3. /\ r \in Process /\ r.pc = proc[p].pc /\ r.applied = proc[p].applied /\ r.at = proc[p].at
      /\ r.next = proc[p].next + 1 /\ r.tx = tx /\ r.keys = keys
  <2>1. proc[p].next + 1 \in Nat
    BY <1>1 DEF Process
  <2>2. r \in Process
    BY <1>1, <2>1 DEF Process
  <2> QED
    BY <1>1, <2>2 DEF Process
<1> HIDE DEF r
<1> QED
  BY <1>1, <1>2, <1>3, MoveFacts

LEMMA NextFileFacts ==
    ASSUME DataOK, NEW p \in Procs, NextFile(p), proc[p].at <= Final
    PROVE  /\ Frame(p)
           /\ proc'[p].pc = proc[p].pc /\ proc'[p].applied = proc[p].applied
           /\ proc'[p].at = FirstFrom(proc[p].at + 1, proc[p].applied) /\ proc'[p].at \in 1..(Final + 1)
           /\ proc'[p].next = 1 /\ proc'[p].tx = FALSE /\ proc'[p].keys = proc[p].keys
<1> DEFINE at == FirstFrom(proc[p].at + 1, proc[p].applied)
           r  == [proc[p] EXCEPT !.at = at, !.next = 1, !.tx = FALSE]
<1>1. proc[p] \in Process /\ proc \in [Procs -> Process]
  BY TypeFacts
<1>2. proc' = [proc EXCEPT ![p] = r]
  BY DEF NextFile
<1>3. at \in 1..(Final + 1)
  <2>1. proc[p].at + 1 \in 1..(Final + 1) /\ Final \in Nat
    BY <1>1, OrderFacts DEF Process
  <2>2. at \in (proc[p].at + 1)..(Final + 1)
    BY <2>1, FirstFromFacts
  <2> QED
    BY <2>1, <2>2
<1> HIDE DEF at
<1>4. /\ r \in Process /\ r.pc = proc[p].pc /\ r.applied = proc[p].applied /\ r.at = at
      /\ r.next = 1 /\ r.tx = FALSE /\ r.keys = proc[p].keys
  BY <1>1, <1>3 DEF Process
<1> HIDE DEF r
<1> QED
  BY <1>1, <1>2, <1>3, <1>4, MoveFacts DEF at

(* Databases                                                                *)
Slot == Table \cup {NoTable}

LEMMA SetTable ==
    ASSUME NEW v \in Database, NEW t \in Tables, NEW x \in Slot
    PROVE  LET w == [v EXCEPT !.tables[t] = x]
           IN  /\ w \in Database /\ w.recorded = v.recorded /\ w.news = v.news /\ w.children = v.children
               /\ w.tables[t] = x /\ \A u \in Tables : u # t => w.tables[u] = v.tables[u]
BY DEF Database, Slot

LEMMA SetNews ==
    ASSUME NEW v \in Database, NEW t \in Tables, NEW x \in Slot
    PROVE  LET w == [v EXCEPT !.news[t] = x]
           IN  /\ w \in Database /\ w.recorded = v.recorded /\ w.tables = v.tables /\ w.children = v.children
               /\ w.news[t] = x /\ \A u \in Tables : u # t => w.news[u] = v.news[u]
BY DEF Database, Slot

LEMMA SlotFacts ==
    ASSUME NEW v \in Database, NEW t \in Tables
    PROVE  /\ v.tables[t] \in Slot /\ v.news[t] \in Slot
           /\ v.tables[t] # NoTable => v.tables[t] \in Table
           /\ v.news[t] # NoTable => v.news[t] \in Table
           /\ v.children[t] \subseteq Rows /\ v.recorded \subseteq Migrations \cup {Old}
BY DEF Database, Slot

-----------------------------------------------------------------------------
(* The statements that change tables                                       *)

Edit(p) == Create(p) \/ AddColumn(p) \/ DropNew(p) \/ CreateNew(p) \/ Copy(p) \/ Drop(p) \/ Rename(p)

Applying(p) == Pending(p) /\ Migration(p) \notin Unavailable
Executed(p) == 1..(proc[p].next - 1)
Op(p, k)    == Script[Migration(p)][k].op

(* What a statement s makes of v, for its own table.                        *)
Effect(p, s, v, w) ==
    LET t == s.table
    IN  /\ s.op = "create" =>
              /\ w.news[t] = v.news[t] /\ w.children[t] = v.children[t]
              /\ w.tables[t] # NoTable
              /\ IF v.tables[t] = NoTable THEN w.tables[t].cols = s.cols ELSE w.tables[t] = v.tables[t]
        /\ s.op = "column" =>
              /\ w.news[t] = v.news[t] /\ w.children[t] = v.children[t]
              /\ v.tables[t] # NoTable /\ w.tables[t] # NoTable
              /\ w.tables[t].cols = v.tables[t].cols \cup s.cols /\ w.tables[t].rows = v.tables[t].rows
        /\ s.op = "dropNew" =>
              w.tables[t] = v.tables[t] /\ w.children[t] = v.children[t] /\ w.news[t] = NoTable
        /\ s.op = "createNew" =>
              /\ w.tables[t] = v.tables[t] /\ w.children[t] = v.children[t]
              /\ w.news[t].cols = s.cols
        /\ s.op = "copy" =>
              /\ w.tables[t] = v.tables[t] /\ w.children[t] = v.children[t]
              /\ v.tables[t] # NoTable /\ v.news[t] # NoTable /\ w.news[t] # NoTable
              /\ w.news[t].cols = v.news[t].cols /\ w.news[t].rows = v.tables[t].rows
              /\ Named(p) \subseteq w.news[t].cols
        /\ s.op = "drop" =>
              /\ w.tables[t] = NoTable /\ w.news[t] = v.news[t]
              /\ w.children[t] = IF proc[p].keys THEN {} ELSE v.children[t]
        /\ s.op = "rename" =>
              /\ v.tables[t] = NoTable /\ v.news[t] # NoTable
              /\ w.tables[t] = v.news[t] /\ w.news[t] = NoTable /\ w.children[t] = v.children[t]

Elsewhere(t, v, w) ==
    \A u \in Tables : u # t => w.tables[u] = v.tables[u] /\ w.news[u] = v.news[u] /\ w.children[u] = v.children[u]

(* An edit seen from the outside.                                           *)
Edits(p, s, v, w, tx) ==
    /\ AtStatement(p) /\ s.op \in EditOps /\ s.table \in Tables /\ s.cols \subseteq Columns
    /\ v \in Database /\ w \in Database /\ w.recorded = v.recorded
    /\ Effect(p, s, v, w) /\ Elsewhere(s.table, v, w)
    /\ tx \in BOOLEAN /\ (tx <=> proc[p].tx \/ s.op = "copy")
    /\ writer \in {p, Nobody} /\ pending' = w
    /\ IF tx THEN writer' = p /\ db' = db ELSE writer' = writer /\ db' = w
    /\ Frame(p) /\ budget' = budget
    /\ proc'[p].pc = proc[p].pc /\ proc'[p].applied = proc[p].applied /\ proc'[p].at = proc[p].at
    /\ proc'[p].next = proc[p].next + 1 /\ proc'[p].tx = tx /\ proc'[p].keys = proc[p].keys

LEMMA StatementOfFacts ==
    ASSUME DataOK, NEW p \in Procs, AtStatement(p), proc[p].next # 0
    PROVE  /\ Migration(p) \in Migrations /\ Applying(p)
           /\ proc[p].at \in 1..Final /\ Migration(p) = Order[proc[p].at]
           /\ proc[p].next \in DOMAIN Script[Migration(p)] /\ Statement(p) \in Statements
           /\ Statement(p) = Script[Migration(p)][proc[p].next]
<1>1. proc[p].at \in 1..Final
  BY TypeFacts, OrderFacts DEF AtStatement, Pending, Process, Final
<1>2. Migration(p) \in Migrations
  BY <1>1, OrderFacts DEF Migration
<1>3. proc[p].next \in DOMAIN Script[Migration(p)]
  BY <1>2, ScriptFacts, TypeFacts DEF AtStatement, Process
<1> QED
  BY <1>1, <1>2, <1>3, ScriptFacts DEF Applying, AtStatement, Statement, Migration

(* The common part of all edits.                                            *)
LEMMA ChangeFacts ==
    ASSUME DataOK, NEW p \in Procs, AtStatement(p), proc[p].next # 0,
           Statement(p).op \in EditOps, NEW w \in Database, NEW tx \in BOOLEAN,
           w.recorded = View(p).recorded, tx <=> proc[p].tx \/ Statement(p).op = "copy",
           Elsewhere(Statement(p).table, View(p), w), Effect(p, Statement(p), View(p), w),
           Change(p, w, tx)
    PROVE  Edits(p, Statement(p), View(p), w, tx) /\ pending' = w
<1>1. proc[p] \in Process /\ View(p) \in Database
  BY TypeFacts
<1>2. Advance(p, tx, proc[p].keys) /\ budget' = budget
  BY DEF Change
<1>3. proc[p].keys \in BOOLEAN
  BY <1>1 DEF Process
<1>4. /\ Frame(p)
      /\ proc'[p].pc = proc[p].pc /\ proc'[p].applied = proc[p].applied /\ proc'[p].at = proc[p].at
      /\ proc'[p].next = proc[p].next + 1 /\ proc'[p].tx = tx /\ proc'[p].keys = proc[p].keys
  BY <1>2, <1>3, AdvanceFacts
<1>5. writer \in {p, Nobody} /\ pending' = w
  BY DEF Change, Write
<1>6. IF tx THEN writer' = p /\ db' = db ELSE writer' = writer /\ db' = w
  BY DEF Change, Write
<1>7. Statement(p).table \in Tables /\ Statement(p).cols \subseteq Columns
  BY StatementOfFacts, StatementFacts
<1> QED
  BY <1>1, <1>2, <1>4, <1>5, <1>6, <1>7 DEF Edits

LEMMA EditFacts ==
    ASSUME DataOK, NEW p \in Procs, proc[p].next # 0, Edit(p)
    PROVE  Edits(p, Statement(p), View(p), pending', proc'[p].tx)
<1> DEFINE s == Statement(p)
           v == View(p)
           t == s.table
<1>1. AtStatement(p) /\ s.op \in EditOps
  BY DEF Edit, Create, AddColumn, DropNew, CreateNew, Copy, Drop, Rename, At, EditOps
<1>2. v \in Database /\ proc[p].tx \in BOOLEAN /\ t \in Tables /\ s.cols \subseteq Columns
  BY <1>1, TypeFacts, StatementOfFacts, StatementFacts DEF Process
<1>3. /\ v.tables[t] \in Slot /\ v.news[t] \in Slot
      /\ v.tables[t] # NoTable => v.tables[t] \in Table
      /\ v.news[t] # NoTable => v.news[t] \in Table
  BY <1>2, SlotFacts
<1>4. ASSUME NEW x \in Table PROVE x # NoTable /\ x \in Slot
  BY NoTableType DEF Slot
<1>5. ASSUME NEW w \in Database, NEW tx \in BOOLEAN, Change(p, w, tx),
             w.recorded = v.recorded, tx <=> proc[p].tx \/ s.op = "copy",
             Elsewhere(t, v, w), Effect(p, s, v, w)
      PROVE  Edits(p, s, v, pending', proc'[p].tx)
  <2>1. Edits(p, s, v, w, tx) /\ pending' = w
    BY <1>1, <1>5, ChangeFacts
  <2>2. proc'[p].tx = tx
    BY <2>1 DEF Edits
  <2> QED
    BY <2>1, <2>2
<1>w. ASSUME NEW w, NEW tx, Change(p, w, tx) PROVE ~Wrong(p)
  BY <1>w DEF Change
<1>6. CASE Create(p)
  <2> DEFINE x == IF v.tables[t] = NoTable THEN [cols |-> s.cols, rows |-> {}] ELSE v.tables[t]
             w == [v EXCEPT !.tables[t] = x]
  <2>1. Change(p, w, proc[p].tx) /\ s.op = "create"
    BY <1>6 DEF Create, At
  <2>2. x \in Table /\ (v.tables[t] = NoTable => x.cols = s.cols) /\ (v.tables[t] # NoTable => x = v.tables[t])
    BY <1>2, <1>3 DEF Table
  <2> HIDE DEF x
  <2>3. /\ w \in Database /\ w.recorded = v.recorded /\ w.news = v.news /\ w.children = v.children
        /\ w.tables[t] = x /\ \A u \in Tables : u # t => w.tables[u] = v.tables[u]
    BY <1>2, <1>4, <2>2, SetTable
  <2> HIDE DEF w, v, s, t
  <2>4. Elsewhere(t, v, w)
    BY <2>3 DEF Elsewhere
  <2>5. Effect(p, s, v, w)
    BY <1>4, <2>1, <2>2, <2>3 DEF Effect, t
  <2> QED
    BY <1>2, <1>5, <2>1, <2>3, <2>4, <2>5 DEF s, v, t
<1>7. CASE AddColumn(p)
  <2> DEFINE x == [v.tables[t] EXCEPT !.cols = @ \cup s.cols]
             w == [v EXCEPT !.tables[t] = x]
  <2>1. Change(p, w, proc[p].tx) /\ s.op = "column"
    BY <1>7 DEF AddColumn, At
  <2>2. v.tables[t] # NoTable /\ v.tables[t] \in Table
    BY <1>3, <1>w, <2>1 DEF Wrong
  <2>3. x \in Table /\ x.cols = v.tables[t].cols \cup s.cols /\ x.rows = v.tables[t].rows
    BY <1>2, <2>2 DEF Table
  <2> HIDE DEF x
  <2>4. /\ w \in Database /\ w.recorded = v.recorded /\ w.news = v.news /\ w.children = v.children
        /\ w.tables[t] = x /\ \A u \in Tables : u # t => w.tables[u] = v.tables[u]
    BY <1>2, <1>4, <2>3, SetTable
  <2> HIDE DEF w, v, s, t
  <2>5. Elsewhere(t, v, w)
    BY <2>4 DEF Elsewhere
  <2>6. Effect(p, s, v, w)
    BY <1>4, <2>1, <2>2, <2>3, <2>4 DEF Effect, t
  <2> QED
    BY <1>2, <1>5, <2>1, <2>4, <2>5, <2>6 DEF s, v, t
<1>8. CASE DropNew(p)
  <2> DEFINE w == [v EXCEPT !.news[t] = NoTable]
  <2>1. Change(p, w, proc[p].tx) /\ s.op = "dropNew"
    BY <1>8 DEF DropNew, At
  <2>2. /\ w \in Database /\ w.recorded = v.recorded /\ w.tables = v.tables /\ w.children = v.children
        /\ w.news[t] = NoTable /\ \A u \in Tables : u # t => w.news[u] = v.news[u]
    <3>1. NoTable \in Slot
      BY DEF Slot
    <3> QED
      BY <1>2, <3>1, SetNews
  <2> HIDE DEF w, v, s, t
  <2>3. Elsewhere(t, v, w)
    BY <2>2 DEF Elsewhere
  <2>4. Effect(p, s, v, w)
    BY <2>1, <2>2 DEF Effect, t
  <2> QED
    BY <1>2, <1>5, <2>1, <2>2, <2>3, <2>4 DEF s, v, t
<1>9. CASE CreateNew(p)
  <2> DEFINE x == [cols |-> s.cols, rows |-> {}]
             w == [v EXCEPT !.news[t] = x]
  <2>1. Change(p, w, proc[p].tx) /\ s.op = "createNew"
    BY <1>9 DEF CreateNew, At
  <2>2. x \in Table /\ x.cols = s.cols
    BY <1>2 DEF Table
  <2> HIDE DEF x
  <2>3. /\ w \in Database /\ w.recorded = v.recorded /\ w.tables = v.tables /\ w.children = v.children
        /\ w.news[t] = x /\ \A u \in Tables : u # t => w.news[u] = v.news[u]
    BY <1>2, <1>4, <2>2, SetNews
  <2> HIDE DEF w, v, s, t
  <2>4. Elsewhere(t, v, w)
    BY <2>3 DEF Elsewhere
  <2>5. Effect(p, s, v, w)
    BY <2>1, <2>2, <2>3 DEF Effect, t
  <2> QED
    BY <1>2, <1>5, <2>1, <2>3, <2>4, <2>5 DEF s, v, t
<1>10. CASE Copy(p)
  <2> DEFINE x == [v.news[t] EXCEPT !.rows = v.tables[t].rows]
             w == [v EXCEPT !.news[t] = x]
  <2>1. Change(p, w, TRUE) /\ s.op = "copy"
    BY <1>10 DEF Copy, At
  <2>2. /\ v.tables[t] # NoTable /\ v.tables[t] \in Table
        /\ v.news[t] # NoTable /\ v.news[t] \in Table /\ Named(p) \subseteq v.news[t].cols
    BY <1>3, <1>w, <2>1 DEF Wrong
  <2>3. x \in Table /\ x.cols = v.news[t].cols /\ x.rows = v.tables[t].rows
    BY <2>2 DEF Table
  <2> HIDE DEF x
  <2>4. /\ w \in Database /\ w.recorded = v.recorded /\ w.tables = v.tables /\ w.children = v.children
        /\ w.news[t] = x /\ \A u \in Tables : u # t => w.news[u] = v.news[u]
    BY <1>2, <1>4, <2>3, SetNews
  <2> HIDE DEF w, v, s, t
  <2>5. Elsewhere(t, v, w)
    BY <2>4 DEF Elsewhere
  <2>6. Effect(p, s, v, w)
    BY <1>4, <2>1, <2>2, <2>3, <2>4 DEF Effect, t
  <2> QED
    BY <1>5, <2>1, <2>4, <2>5, <2>6 DEF s, v, t
<1>11. CASE Drop(p)
  <2> DEFINE u == [v EXCEPT !.tables[t] = NoTable]
             w == [u EXCEPT !.children[t] = IF proc[p].keys THEN {} ELSE @]
  <2>1. Change(p, w, proc[p].tx) /\ s.op = "drop"
    BY <1>11 DEF Drop, At
  <2>2. /\ u \in Database /\ u.recorded = v.recorded /\ u.news = v.news /\ u.children = v.children
        /\ u.tables[t] = NoTable /\ \A y \in Tables : y # t => u.tables[y] = v.tables[y]
    <3>1. NoTable \in Slot
      BY DEF Slot
    <3> QED
      BY <1>2, <3>1, SetTable
  <2> HIDE DEF u
  <2>3. /\ w \in Database /\ w.recorded = u.recorded /\ w.news = u.news /\ w.tables = u.tables
        /\ w.children[t] = (IF proc[p].keys THEN {} ELSE u.children[t])
        /\ \A y \in Tables : y # t => w.children[y] = u.children[y]
    <3> HIDE DEF t
    <3> QED
      BY <1>2, <2>2 DEF Database
  <2> HIDE DEF w, v, s, t
  <2>4. Elsewhere(t, v, w)
    BY <2>2, <2>3 DEF Elsewhere
  <2>5. Effect(p, s, v, w)
    BY <2>1, <2>2, <2>3 DEF Effect, t
  <2> QED
    BY <1>2, <1>5, <2>1, <2>2, <2>3, <2>4, <2>5 DEF s, v, t
<1>12. CASE Rename(p)
  <2> DEFINE u == [v EXCEPT !.tables[t] = v.news[t]]
             w == [u EXCEPT !.news[t] = NoTable]
  <2>1. Change(p, w, proc[p].tx) /\ s.op = "rename"
    BY <1>12 DEF Rename, At
  <2>2. v.tables[t] = NoTable /\ v.news[t] # NoTable
    BY <1>w, <2>1 DEF Wrong
  <2>3. /\ u \in Database /\ u.recorded = v.recorded /\ u.news = v.news /\ u.children = v.children
        /\ u.tables[t] = v.news[t] /\ \A y \in Tables : y # t => u.tables[y] = v.tables[y]
    BY <1>2, <1>3, SetTable
  <2> HIDE DEF u
  <2>4. /\ w \in Database /\ w.recorded = u.recorded /\ w.tables = u.tables /\ w.children = u.children
        /\ w.news[t] = NoTable /\ \A y \in Tables : y # t => w.news[y] = u.news[y]
    <3>1. NoTable \in Slot
      BY DEF Slot
    <3> QED
      BY <1>2, <2>3, <3>1, SetNews
  <2> HIDE DEF w, v, s, t
  <2>5. Elsewhere(t, v, w)
    BY <2>3, <2>4 DEF Elsewhere
  <2>6. Effect(p, s, v, w)
    BY <2>1, <2>2, <2>3, <2>4 DEF Effect, t
  <2> QED
    BY <1>2, <1>5, <2>1, <2>3, <2>4, <2>5, <2>6 DEF s, v, t
<1> QED
  BY <1>6, <1>7, <1>8, <1>9, <1>10, <1>11, <1>12 DEF Edit

-----------------------------------------------------------------------------
(* The other steps                                                          *)

SameData == db' = db /\ pending' = pending /\ writer' = writer

(* The names X are recorded, outside of a transaction.                      *)
Marked(X) ==
    /\ writer = Nobody /\ writer' = Nobody
    /\ db' \in Database /\ pending' = db'
    /\ db'.tables = db.tables /\ db'.news = db.news /\ db'.children = db.children
    /\ db'.recorded = db.recorded \cup X

LEMMA MarkFacts ==
    ASSUME DataOK, NEW p \in Procs, writer # p, NEW X \in SUBSET Migrations,
           Write(p, [db EXCEPT !.recorded = @ \cup X], FALSE)
    PROVE  Marked(X)
<1> DEFINE w == [db EXCEPT !.recorded = @ \cup X]
<1>1. db \in Database
  BY TypeFacts
<1>2. /\ w \in Database /\ w.tables = db.tables /\ w.news = db.news /\ w.children = db.children
      /\ w.recorded = db.recorded \cup X
  BY <1>1 DEF Database
<1>3. writer = Nobody /\ writer' = Nobody /\ pending' = w /\ db' = w
  BY DEF Write
<1> HIDE DEF w
<1> QED
  BY <1>2, <1>3 DEF Marked

Starts(p) ==
    /\ proc[p].pc \in Ended /\ SameData /\ Frame(p) /\ budget' \in 0..Budget
    /\ proc'[p].pc = "split" /\ proc'[p].applied = db.recorded /\ proc'[p].at = 1
    /\ proc'[p].next = 1 /\ proc'[p].tx = FALSE /\ proc'[p].keys = TRUE

LEMMA AdverseFacts == ASSUME DataOK, Adverse PROVE budget' \in 0..Budget
BY BoundType, TypeFacts DEF Adverse

LEMMA StartFacts == ASSUME DataOK, NEW p \in Procs, Start(p) PROVE Starts(p)
<1> DEFINE r == [pc |-> "split", applied |-> db.recorded, at |-> 1, next |-> 1, tx |-> FALSE, keys |-> TRUE]
<1>1. proc \in [Procs -> Process] /\ db.recorded \subseteq Migrations \cup {Old} /\ 1 \in 1..(Final + 1)
  BY TypeFacts, OrderFacts DEF Database
<1>2. r \in Process /\ proc' = [proc EXCEPT ![p] = r]
  BY <1>1 DEF Start, Process, Phases
<1>3. /\ r.pc = "split" /\ r.applied = db.recorded /\ r.at = 1
      /\ r.next = 1 /\ r.tx = FALSE /\ r.keys = TRUE
  OBVIOUS
<1>4. budget' \in 0..Budget
  BY AdverseFacts, TypeFacts DEF Start
<1>5. proc[p].pc \in Ended /\ SameData
  BY DEF Start, SameData
<1> HIDE DEF r
<1> QED
  BY <1>1, <1>2, <1>3, <1>4, <1>5, MoveFacts DEF Starts

RecordsSplit(p) ==
    /\ proc[p].pc = "split" /\ Frame(p) /\ budget' = budget
    /\ proc'[p].pc = "repair" /\ proc'[p].at = proc[p].at
    /\ proc'[p].next = proc[p].next /\ proc'[p].tx = proc[p].tx /\ proc'[p].keys = proc[p].keys
    /\ \/ /\ SameData /\ proc'[p].applied = proc[p].applied
          /\ Old \in proc[p].applied => Splits \subseteq proc[p].applied
       \/ /\ Old \in proc[p].applied /\ proc'[p].applied = db'.recorded
          /\ \E X \in SUBSET Splits : Marked(X) /\ Splits \subseteq X \cup proc[p].applied

LEMMA RecordSplitFacts ==
    ASSUME DataOK, NEW p \in Procs, RecordSplit(p)
    PROVE  RecordsSplit(p)
<1> DEFINE missing == IF Old \in proc[p].applied THEN Splits \ proc[p].applied ELSE {}
           applied == IF missing = {} THEN proc[p].applied ELSE db'.recorded
           r       == [proc[p] EXCEPT !.pc = "repair", !.applied = applied]
<1>1. proc[p] \in Process /\ proc \in [Procs -> Process] /\ proc[p].pc = "split" /\ budget' = budget
  BY TypeFacts DEF RecordSplit
<1>2. writer # p
  BY <1>1 DEF DataOK
<1>3. missing # {} => Marked(missing)
  BY <1>2, NamesType, MarkFacts DEF RecordSplit
<1>4. missing = {} => SameData
  BY DEF RecordSplit, SameData
<1>5. applied \subseteq Migrations \cup {Old}
  BY <1>1, <1>3 DEF Process, Marked, Database
<1>6. proc' = [proc EXCEPT ![p] = r]
  BY DEF RecordSplit
<1> HIDE DEF applied
<1>7. /\ r \in Process /\ r.pc = "repair" /\ r.at = proc[p].at /\ r.applied = applied
      /\ r.next = proc[p].next /\ r.tx = proc[p].tx /\ r.keys = proc[p].keys
  <2>1. r \in Process
    BY <1>1, <1>5 DEF Process, Phases
  <2> QED
    BY <1>1, <2>1 DEF Process
<1> HIDE DEF r
<1>8. Frame(p) /\ proc'[p] = r
  BY <1>1, <1>6, <1>7, MoveFacts
<1>9. CASE missing = {}
  BY <1>1, <1>4, <1>7, <1>8, <1>9 DEF RecordsSplit, applied
<1>10. CASE missing # {}
  <2>1. Old \in proc[p].applied /\ missing \in SUBSET Splits /\ Splits \subseteq missing \cup proc[p].applied
    BY <1>10
  <2> HIDE DEF missing
  <2> QED
    BY <1>1, <1>3, <1>7, <1>8, <1>10, <2>1 DEF RecordsSplit, applied
<1> QED
  BY <1>9, <1>10

(* The repair, where it succeeds: the columns of applied migrations.        *)
Again(applied, t) ==
    UNION {s.cols : s \in {s \in UNION {ToSet(Script[m]) : m \in applied \ {Old}} : s.op = "column" /\ s.table = t}}

RepairedData(applied) ==
    /\ writer = Nobody /\ writer' = Nobody
    /\ db' \in Database /\ pending' = db'
    /\ db'.news = db.news /\ db'.children = db.children /\ db'.recorded = db.recorded
    /\ \A t \in Tables : IF db.tables[t] = NoTable THEN db'.tables[t] = NoTable
                         ELSE /\ db'.tables[t] # NoTable /\ db'.tables[t].rows = db.tables[t].rows
                              /\ db'.tables[t].cols = db.tables[t].cols \cup Again(applied, t)

LEMMA RepairedFacts ==
    ASSUME DataOK, NEW p \in Procs, writer # p, Write(p, Repaired(proc[p].applied), FALSE)
    PROVE  RepairedData(proc[p].applied)
<1> DEFINE applied == proc[p].applied
           new(t) == IF db.tables[t] = NoTable THEN NoTable
                     ELSE [db.tables[t] EXCEPT !.cols = @ \cup Again(applied, t)]
           w == [db EXCEPT !.tables = [t \in Tables |-> new(t)]]
<1>1. db \in Database /\ applied \subseteq Migrations \cup {Old}
  BY TypeFacts DEF Process
<1>2. Repaired(applied) = w
  BY DEF Repaired, Again
<1>3. writer = Nobody /\ writer' = Nobody /\ pending' = w /\ db' = w
  BY <1>2 DEF Write
<1>4. \A t \in Tables : Again(applied, t) \subseteq Columns
  <2> TAKE t \in Tables
  <2> DEFINE S == {s \in UNION {ToSet(Script[m]) : m \in applied \ {Old}} : s.op = "column" /\ s.table = t}
  <2>1. \A s \in S : s \in Statements /\ s.op \in EditOps
    <3>1. \A m \in applied \ {Old} : m \in Migrations
      BY <1>1
    <3>2. \A m \in Migrations : \A s \in ToSet(Script[m]) : s \in Statements
      BY ScriptFacts DEF ToSet
    <3> QED
      BY <3>1, <3>2 DEF EditOps
  <2>2. \A s \in S : s.cols \subseteq Columns
    BY <2>1, StatementFacts
  <2> QED
    BY <2>2 DEF Again
<1>5. ASSUME NEW t \in Tables
      PROVE  /\ new(t) \in Slot
             /\ db.tables[t] = NoTable => new(t) = NoTable
             /\ db.tables[t] # NoTable => /\ new(t) # NoTable /\ new(t).rows = db.tables[t].rows
                                          /\ new(t).cols = db.tables[t].cols \cup Again(applied, t)
  <2>1. CASE db.tables[t] = NoTable
    BY <2>1 DEF Slot
  <2>2. CASE db.tables[t] # NoTable
    <3> DEFINE x == [db.tables[t] EXCEPT !.cols = @ \cup Again(applied, t)]
    <3>1. db.tables[t] \in Table
      BY <1>1, <2>2, SlotFacts
    <3>2. x \in Table /\ x.rows = db.tables[t].rows /\ x.cols = db.tables[t].cols \cup Again(applied, t)
      BY <1>4, <3>1 DEF Table
    <3>3. new(t) = x
      BY <2>2
    <3> HIDE DEF x
    <3> QED
      BY <2>2, <3>2, <3>3, NoTableType DEF Slot
  <2> QED
    BY <2>1, <2>2
<1> HIDE DEF new
<1>6. /\ w \in Database /\ w.news = db.news /\ w.children = db.children /\ w.recorded = db.recorded
      /\ \A t \in Tables : w.tables[t] = new(t)
  BY <1>1, <1>5 DEF Database, Slot
<1> HIDE DEF w
<1> QED
  BY <1>3, <1>5, <1>6 DEF RepairedData

Repairs(p) ==
    /\ proc[p].pc = "repair" /\ Frame(p) /\ budget' \in 0..Budget
    /\ proc'[p].pc = "run" /\ proc'[p].applied = proc[p].applied
    /\ proc'[p].at = FirstFrom(1, proc[p].applied) /\ proc'[p].at \in 1..(Final + 1)
    /\ proc'[p].next = proc[p].next /\ proc'[p].tx = proc[p].tx /\ proc'[p].keys = proc[p].keys
    /\ SameData \/ RepairedData(proc[p].applied)

LEMMA RepairFacts == ASSUME DataOK, NEW p \in Procs, Repair(p) PROVE Repairs(p)
<1> DEFINE at == FirstFrom(1, proc[p].applied)
           r  == [proc[p] EXCEPT !.pc = "run", !.at = at]
<1>1. proc[p] \in Process /\ proc \in [Procs -> Process] /\ proc[p].pc = "repair"
  BY TypeFacts DEF Repair
<1>2. writer # p
  BY <1>1 DEF DataOK
<1>3. (SameData \/ RepairedData(proc[p].applied)) /\ budget' \in 0..Budget
  BY <1>2, RepairedFacts, AdverseFacts, TypeFacts DEF Repair, SameData
<1>4. at \in 1..(Final + 1)
  BY OrderFacts, FirstFromFacts
<1>5. proc' = [proc EXCEPT ![p] = r]
  BY DEF Repair
<1> HIDE DEF at
<1>6. /\ r \in Process /\ r.pc = "run" /\ r.at = at /\ r.applied = proc[p].applied
      /\ r.next = proc[p].next /\ r.tx = proc[p].tx /\ r.keys = proc[p].keys
  <2>1. r \in Process
    BY <1>1, <1>4 DEF Process, Phases
  <2> QED
    BY <1>1, <2>1 DEF Process
<1> HIDE DEF r
<1>7. Frame(p) /\ proc'[p] = r
  BY <1>1, <1>5, <1>6, MoveFacts
<1> QED
  BY <1>1, <1>3, <1>4, <1>6, <1>7 DEF Repairs, at

(* p goes to the next file.                                                 *)
Passes(p) ==
    /\ Pending(p) /\ proc[p].at \in 1..Final /\ Migration(p) \in Migrations /\ Frame(p) /\ budget' = budget
    /\ proc'[p].pc = "run" /\ proc'[p].applied = proc[p].applied
    /\ proc'[p].at = FirstFrom(proc[p].at + 1, proc[p].applied) /\ proc'[p].at \in 1..(Final + 1)
    /\ proc'[p].next = 1 /\ proc'[p].tx = FALSE /\ proc'[p].keys = proc[p].keys

LEMMA PassFacts ==
    ASSUME DataOK, NEW p \in Procs, Pending(p), NextFile(p), budget' = budget
    PROVE  Passes(p)
<1>1. proc[p].at \in 1..Final /\ proc[p].pc = "run"
  BY TypeFacts, OrderFacts DEF Pending, Process, Final
<1>2. Migration(p) \in Migrations
  BY <1>1, OrderFacts DEF Migration
<1>3. proc[p].at <= Final
  BY <1>1, OrderFacts
<1> QED
  BY <1>1, <1>2, <1>3, NextFileFacts DEF Passes

LEMMA RecordUnavailableFacts ==
    ASSUME DataOK, NEW p \in Procs, writer # p, RecordUnavailable(p)
    PROVE  /\ Passes(p) /\ Marked({Migration(p)})
           /\ Migration(p) \in Unavailable /\ Migration(p) \notin db.recorded
<1>1. Passes(p)
  BY PassFacts DEF RecordUnavailable
<1>2. {Migration(p)} \in SUBSET Migrations
  BY <1>1 DEF Passes
<1> QED
  BY <1>1, <1>2, MarkFacts DEF RecordUnavailable

(* The record of a migration, with what its transaction has changed.        *)
Records(p) ==
    /\ AtRecord(p) /\ Migration(p) \notin View(p).recorded
    /\ writer \in {p, Nobody} /\ writer' = Nobody
    /\ db' \in Database /\ pending' = db'
    /\ db'.tables = View(p).tables /\ db'.news = View(p).news /\ db'.children = View(p).children
    /\ db'.recorded = View(p).recorded \cup {Migration(p)}

LEMMA RecordFacts ==
    ASSUME DataOK, NEW p \in Procs, Record(p)
    PROVE  Passes(p) /\ Records(p)
<1> DEFINE w == [View(p) EXCEPT !.recorded = @ \cup {Migration(p)}]
<1>1. Passes(p)
  BY PassFacts DEF Record, AtRecord
<1>2. View(p) \in Database /\ Migration(p) \in Migrations
  BY <1>1, TypeFacts DEF Passes
<1>3. /\ w \in Database /\ w.tables = View(p).tables /\ w.news = View(p).news /\ w.children = View(p).children
      /\ w.recorded = View(p).recorded \cup {Migration(p)}
  BY <1>2 DEF Database
<1>4. db' = w /\ pending' = db' /\ writer \in {p, Nobody} /\ writer' = Nobody
  BY DEF Record
<1> HIDE DEF w
<1>5. AtRecord(p) /\ Migration(p) \notin View(p).recorded
  BY DEF Record
<1> QED
  BY <1>1, <1>3, <1>4, <1>5 DEF Records

(* A statement that changes no table.                                       *)
Advances(p) ==
    /\ AtStatement(p) /\ Frame(p) /\ budget' = budget
    /\ proc'[p].pc = proc[p].pc /\ proc'[p].applied = proc[p].applied /\ proc'[p].at = proc[p].at
    /\ proc'[p].next = proc[p].next + 1

Pragmas(p) ==
    /\ Advances(p) /\ SameData
    /\ Statement(p).op \in {"begin", "off", "on"}
    /\ proc[p].tx => proc'[p].tx
    /\ proc[p].tx => proc'[p].keys = proc[p].keys
    /\ ~proc[p].tx /\ Statement(p).op = "off" => ~proc'[p].keys
    /\ Statement(p).op = "begin" => proc'[p].keys = proc[p].keys
    /\ ~proc[p].keys /\ Statement(p).op # "on" => ~proc'[p].keys

LEMMA PragmaFacts ==
    ASSUME DataOK, NEW p \in Procs, BeginTransaction(p) \/ ForeignKeys(p)
    PROVE  Pragmas(p)
<1>1. proc[p].tx \in BOOLEAN /\ proc[p].keys \in BOOLEAN
  BY TypeFacts DEF Process
<1>2. CASE BeginTransaction(p)
  <2>1. Advance(p, TRUE, proc[p].keys) /\ AtStatement(p) /\ Statement(p).op = "begin" /\ SameData /\ budget' = budget
    BY <1>2 DEF BeginTransaction, At, SameData
  <2> QED
    BY <1>1, <2>1, AdvanceFacts DEF Pragmas, Advances
<1>3. CASE ForeignKeys(p)
  <2> DEFINE keys == IF proc[p].tx THEN proc[p].keys ELSE Statement(p).op = "on"
  <2>1. Advance(p, proc[p].tx, keys) /\ AtStatement(p) /\ Statement(p).op \in {"off", "on"} /\ SameData /\ budget' = budget
    BY <1>3 DEF ForeignKeys, At, SameData
  <2>2. keys \in BOOLEAN /\ (proc[p].tx => keys = proc[p].keys)
        /\ (~proc[p].tx /\ Statement(p).op = "off" => ~keys) /\ (~proc[p].keys /\ Statement(p).op # "on" => ~keys)
    BY <1>1
  <2> HIDE DEF keys
  <2> QED
    BY <1>1, <2>1, <2>2, AdvanceFacts DEF Pragmas, Advances
<1> QED
  BY <1>2, <1>3

Commits(p) ==
    /\ Advances(p) /\ Statement(p).op = "commit"
    /\ pending' = pending
    /\ IF writer = p THEN db' = pending /\ writer' = Nobody ELSE db' = db /\ writer' = writer
    /\ proc'[p].tx = FALSE /\ proc'[p].keys = proc[p].keys

LEMMA CommitFacts ==
    ASSUME DataOK, NEW p \in Procs, CommitTransaction(p)
    PROVE  Commits(p)
<1>1. proc[p].keys \in BOOLEAN
  BY TypeFacts DEF Process
<1> QED
  BY <1>1, AdvanceFacts DEF CommitTransaction, At, Commit, Commits, Advances

(* A process ends: what it has not committed is gone.                       *)
Ends(p) ==
    /\ db' = db
    /\ IF writer = p THEN pending' = db /\ writer' = Nobody ELSE pending' = pending /\ writer' = writer
    /\ Frame(p) /\ budget' \in 0..Budget
    /\ proc'[p].pc \in Ended /\ proc'[p].next = proc[p].next

LEMMA EndFacts ==
    ASSUME DataOK, NEW p \in Procs, Raise(p) \/ Crash(p) \/ Finish(p), Finish(p) => writer # p
    PROVE  Ends(p)
<1>1. proc[p] \in Process /\ proc \in [Procs -> Process] /\ budget \in 0..Budget
  BY TypeFacts
<1>2. CASE Raise(p) \/ Crash(p)
  <2> DEFINE to == IF Raise(p) THEN "failed" ELSE "off"
             r  == [proc[p] EXCEPT !.pc = to, !.tx = FALSE]
  <2>1. to \in Ended /\ to \in Phases
    BY DEF Ended, Phases
  <2>2. proc' = [proc EXCEPT ![p] = r]
    BY <1>2 DEF Raise, Crash
  <2>3. budget' \in 0..Budget
    BY <1>1, <1>2, AdverseFacts DEF Raise, Crash
  <2>4. Rollback(p) /\ db' = db
    BY <1>2 DEF Raise, Crash
  <2> HIDE DEF to
  <2>5. r \in Process /\ r.pc = to /\ r.next = proc[p].next
    BY <1>1, <2>1 DEF Process
  <2> HIDE DEF r
  <2>6. Frame(p) /\ proc'[p] = r
    BY <1>1, <2>2, <2>5, MoveFacts
  <2> QED
    BY <2>1, <2>3, <2>4, <2>5, <2>6 DEF Ends, Rollback
<1>3. CASE Finish(p)
  <2> DEFINE r == [proc[p] EXCEPT !.pc = "done", !.keys = TRUE]
  <2>1. proc' = [proc EXCEPT ![p] = r] /\ db' = db /\ pending' = pending /\ writer' = writer /\ budget' = budget
    BY <1>3 DEF Finish
  <2>2. r \in Process /\ r.pc = "done" /\ r.next = proc[p].next
    BY <1>1 DEF Process, Phases, Ended
  <2> HIDE DEF r
  <2>3. Frame(p) /\ proc'[p] = r
    BY <1>1, <2>1, <2>2, MoveFacts
  <2> QED
    BY <1>1, <1>3, <2>1, <2>2, <2>3 DEF Ends, Ended
<1> QED
  BY <1>2, <1>3

RowAdded ==
    /\ writer = Nobody /\ writer' = Nobody /\ proc' = proc /\ budget' = budget
    /\ db' \in Database /\ pending' = db'
    /\ db'.news = db.news /\ db'.recorded = db.recorded
    /\ \A t \in Tables :
          /\ db.children[t] \subseteq db'.children[t]
          /\ IF db.tables[t] = NoTable THEN db'.tables[t] = NoTable
             ELSE /\ db'.tables[t] # NoTable /\ db.tables[t].rows \subseteq db'.tables[t].rows
                  /\ db'.tables[t].cols = db.tables[t].cols

LEMMA AddRowFacts ==
    ASSUME DataOK, NEW t \in Tables, NEW r \in Rows, AddRow(t, r)
    PROVE  RowAdded
<1> DEFINE x == [db.tables[t] EXCEPT !.rows = @ \cup {r}]
           u == [db EXCEPT !.tables[t] = x]
           w == [u EXCEPT !.children[t] = @ \cup {r}]
<1>1. db \in Database /\ db.tables[t] # NoTable
  BY TypeFacts DEF AddRow
<1>2. db.tables[t] \in Table
  BY <1>1, SlotFacts
<1>3. x \in Table /\ x.cols = db.tables[t].cols /\ x.rows = db.tables[t].rows \cup {r}
  BY <1>2 DEF Table
<1>4. db' = w /\ pending' = db' /\ writer = Nobody /\ writer' = writer /\ proc' = proc /\ budget' = budget
  BY DEF AddRow
<1> HIDE DEF x
<1>5. x \in Slot /\ x # NoTable
  BY <1>3, NoTableType DEF Slot
<1>6. /\ u \in Database /\ u.recorded = db.recorded /\ u.news = db.news /\ u.children = db.children
      /\ u.tables[t] = x /\ \A y \in Tables : y # t => u.tables[y] = db.tables[y]
  BY <1>1, <1>5, SetTable
<1> HIDE DEF u
<1>7. /\ w \in Database /\ w.recorded = u.recorded /\ w.news = u.news /\ w.tables = u.tables
      /\ w.children[t] = u.children[t] \cup {r}
      /\ \A y \in Tables : y # t => w.children[y] = u.children[y]
  BY <1>6 DEF Database
<1> HIDE DEF w
<1>8. ASSUME NEW y \in Tables
      PROVE  /\ db.children[y] \subseteq w.children[y]
             /\ IF db.tables[y] = NoTable THEN w.tables[y] = NoTable
                ELSE /\ w.tables[y] # NoTable /\ db.tables[y].rows \subseteq w.tables[y].rows
                     /\ w.tables[y].cols = db.tables[y].cols
  <2>1. CASE y = t
    BY <1>1, <1>3, <1>5, <1>6, <1>7, <2>1
  <2>2. CASE y # t
    BY <1>6, <1>7, <2>2
  <2> QED
    BY <2>1, <2>2
<1> QED
  BY <1>4, <1>6, <1>7, <1>8 DEF RowAdded

-----------------------------------------------------------------------------
(* Rows                                                                     *)

(* Where a process is: a transaction begins in a file and ends with it.     *)
Placed(p) ==
    /\ proc[p].next # 0
    /\ proc[p].pc \in {"split", "repair"} => proc[p].next = 1
    /\ proc[p].pc \in {"split", "repair", "run"} /\ proc[p].next = 1 => ~proc[p].tx
    /\ writer = p => Applying(p)
    /\ Applying(p) => proc[p].next <= Len(Script[Migration(p)]) + 1

(* A script that turns foreign keys off has done so.                        *)
KeysOff(p) ==
    Applying(p) /\ Executed(p) # {} /\ Op(p, 1) = "off" /\ (\A k \in Executed(p) : Op(p, k) # "on")
       => ~proc[p].keys

(* Between the copy of a table and its new name p has SQLite's lock, and    *)
(* the new table all columns it is to have and all rows.                    *)
Rebuilding(p) ==
    At(p, "drop") \/ At(p, "rename") =>
        LET t == Statement(p).table
        IN  /\ writer = p /\ pending.news[t] # NoTable /\ Named(p) \subseteq pending.news[t].cols
            /\ At(p, "drop") => pending.tables[t] # NoTable /\ pending.news[t].rows = pending.tables[t].rows
            /\ At(p, "rename") /\ db.tables[t] # NoTable => db.tables[t].rows \subseteq pending.news[t].rows

(* What a transaction has made of the database it began with.               *)
KeptIn(d, t) ==
    db.tables[t] # NoTable => d.tables[t] # NoTable /\ db.tables[t].rows \subseteq d.tables[t].rows

Kept(p) ==
    writer = p => \A t \in Tables :
        /\ db.children[t] \subseteq pending.children[t]
        /\ KeptIn(pending, t) \/ (At(p, "rename") /\ Statement(p).table = t)

(* The lock is held from a rename to a commit.                              *)
Lock(p) ==
    Applying(p) /\ (\E k \in Executed(p) : Op(p, k) = "rename") /\ (\A k \in Executed(p) : Op(p, k) # "commit")
       => writer = p

Sound(p) == Placed(p) /\ KeysOff(p) /\ Rebuilding(p) /\ Kept(p) /\ Lock(p)

RInv == DataOK /\ \A p \in Procs : Sound(p)

LEMMA TypeKept ==
    ASSUME db' \in Database, pending' \in Database, writer' \in Procs \cup {Nobody}, budget' \in 0..Budget,
           proc' \in [Procs -> Process],
           \A p \in Procs : writer' = p => proc'[p].pc = "run" /\ proc'[p].tx,
           writer' = Nobody => pending' = db'
    PROVE  DataOK'
BY DEF DataOK, Process, Phases, Final

(* A step of another leaves a process sound that has the lock, or has not.  *)
Apart(q) ==
    /\ proc'[q] = proc[q]
    /\ writer' = q <=> writer = q
    /\ writer = q => db' = db /\ pending' = pending

LEMMA SameStatement ==
    ASSUME NEW q, proc'[q] = proc[q]
    PROVE  /\ Pending(q)' = Pending(q) /\ Applying(q)' = Applying(q) /\ Executed(q)' = Executed(q)
           /\ AtStatement(q)' = AtStatement(q) /\ Statement(q)' = Statement(q) /\ Migration(q)' = Migration(q)
           /\ Named(q)' = Named(q) /\ AtRecord(q)' = AtRecord(q)
           /\ \A op : At(q, op)' = At(q, op)
           /\ \A k : Op(q, k)' = Op(q, k)
BY DEF Pending, Applying, Executed, AtStatement, Statement, Migration, Named, At, Op, AtRecord

LEMMA ApartKeeps == ASSUME NEW q \in Procs, Sound(q), Apart(q) PROVE Sound(q)'
<1>1. proc'[q] = proc[q]
  BY DEF Apart
<1>2. /\ Applying(q)' = Applying(q) /\ Executed(q)' = Executed(q) /\ Statement(q)' = Statement(q)
      /\ Migration(q)' = Migration(q) /\ Named(q)' = Named(q)
      /\ \A op : At(q, op)' = At(q, op)
      /\ \A k : Op(q, k)' = Op(q, k)
  BY <1>1, SameStatement
<1>3. Placed(q)'
  BY <1>1, <1>2 DEF Sound, Placed, Apart
<1>4. KeysOff(q)'
  BY <1>1, <1>2 DEF Sound, KeysOff
<1>5. Rebuilding(q)'
  BY <1>1, <1>2 DEF Sound, Rebuilding, Apart
<1>6. Kept(q)'
  BY <1>1, <1>2 DEF Sound, Kept, KeptIn, Apart
<1>7. Lock(q)'
  BY <1>1, <1>2 DEF Sound, Lock, Apart
<1> QED
  BY <1>3, <1>4, <1>5, <1>6, <1>7 DEF Sound

(* A process that is at no file, or at the beginning of one.                *)
LEMMA ArrivesSound ==
    ASSUME NEW p \in Procs, proc' \in [Procs -> Process], writer' # p, proc'[p].next # 0,
           \/ proc'[p].pc \in Ended
           \/ proc'[p].next = 1 /\ ~proc'[p].tx
    PROVE  Sound(p)'
<1>1. proc'[p] \in Process
  OBVIOUS
<1>2. Executed(p)' = {} \/ ~Applying(p)'
  BY <1>1 DEF Executed, Applying, Pending, Ended
<1>3. Applying(p)' => /\ Migration(p)' \in Migrations /\ proc'[p].next = 1
                      /\ Len(Script[Migration(p)']) \in Nat
                      /\ DOMAIN Script[Migration(p)'] = 1..Len(Script[Migration(p)'])
  <2>1. ASSUME Applying(p)' PROVE proc'[p].at \in 1..Final /\ proc'[p].next = 1
    BY <1>1, <2>1, OrderFacts DEF Applying, Pending, Process, Final, Ended
  <2>2. Applying(p)' => Migration(p)' \in Migrations
    BY <2>1, OrderFacts DEF Migration
  <2> QED
    BY <2>1, <2>2, ScriptFacts
<1>4. Placed(p)'
  BY <1>1, <1>3 DEF Placed, Ended
<1>5. KeysOff(p)'
  BY <1>2 DEF KeysOff
<1>6. Rebuilding(p)'
  <2> SUFFICES ASSUME At(p, "drop")' \/ At(p, "rename")' PROVE FALSE
    BY DEF Rebuilding
  <2> DEFINE m == Migration(p)'
             s == Statement(p)'
  <2>1. Applying(p)' /\ 1 <= Len(Script[m])
    BY <1>3 DEF At, AtStatement, Applying
  <2>2. m \in Migrations /\ 1 \in DOMAIN Script[m] /\ s = Script[m][1]
    BY <1>3, <2>1 DEF Statement
  <2>3. s.op \in {"drop", "rename"} /\ s.op \in EditOps
    BY DEF At, EditOps
  <2>4. s.table \in Tables
    BY <2>2, <2>3, ScriptFacts, StatementFacts
  <2>5. s.op = "drop" => 1 \in Does(m, "drop", s.table)
    BY <2>2 DEF Does
  <2>6. s.op = "rename" => 1 \in Does(m, "rename", s.table)
    BY <2>2 DEF Does
  <2> HIDE DEF m, s
  <2>7. 0 \in Does(m, "copy", s.table) \/ 0 \in Does(m, "drop", s.table)
    BY <2>2, <2>3, <2>4, <2>5, <2>6, RebuildShape
  <2>8. 0 \in DOMAIN Script[m]
    BY <2>7 DEF Does
  <2> QED
    BY <2>2, <2>8, ScriptFacts
<1>7. Kept(p)'
  BY DEF Kept
<1>8. Lock(p)'
  BY <1>2 DEF Lock
<1> QED
  BY <1>4, <1>5, <1>6, <1>7, <1>8 DEF Sound

(* The next statement of the same file.                                     *)
LEMMA AdvancesFacts ==
    ASSUME DataOK, NEW p \in Procs, Sound(p), AtStatement(p), proc' \in [Procs -> Process],
           proc'[p].pc = proc[p].pc, proc'[p].at = proc[p].at, proc'[p].next = proc[p].next + 1
    PROVE  /\ Applying(p) /\ Applying(p)' /\ Migration(p)' = Migration(p) /\ Migration(p) \in Migrations
           /\ proc[p].next \in DOMAIN Script[Migration(p)] /\ proc[p].next \in Nat \ {0}
           /\ Statement(p) = Script[Migration(p)][proc[p].next] /\ Statement(p) = Script[Migration(p)'][proc[p].next]
           /\ Executed(p)' = Executed(p) \cup {proc[p].next}
           /\ \A k : Op(p, k)' = Op(p, k)
           /\ Op(p, proc[p].next) = Statement(p).op
           /\ proc'[p].next <= Len(Script[Migration(p)]) + 1
           /\ \A op : At(p, op)' => /\ proc'[p].next \in DOMAIN Script[Migration(p)]
                                    /\ Statement(p)' = Script[Migration(p)][proc'[p].next]
                                    /\ Statement(p)'.op = op
<1>1. proc[p] \in Process /\ proc'[p] \in Process /\ proc[p].next # 0
  BY TypeFacts DEF Sound, Placed
<1>2. /\ Migration(p) \in Migrations /\ Applying(p)
      /\ proc[p].next \in DOMAIN Script[Migration(p)]
      /\ Statement(p) = Script[Migration(p)][proc[p].next]
  BY <1>1, StatementOfFacts
<1>3. Migration(p)' = Migration(p)
  BY DEF Migration
<1>4. Applying(p)'
  BY <1>2, <1>3 DEF Applying, Pending
<1>5. proc[p].next \in Nat \ {0} /\ Executed(p)' = Executed(p) \cup {proc[p].next}
  BY <1>1 DEF Executed, Process
<1>6. proc'[p].next <= Len(Script[Migration(p)]) + 1
  BY <1>2, <1>5, ScriptFacts
<1>7. ASSUME NEW op, At(p, op)'
      PROVE  /\ proc'[p].next \in DOMAIN Script[Migration(p)]
             /\ Statement(p)' = Script[Migration(p)][proc'[p].next] /\ Statement(p)'.op = op
  BY <1>2, <1>3, <1>5, <1>7, ScriptFacts DEF At, AtStatement, Statement
<1> QED
  BY <1>2, <1>3, <1>4, <1>5, <1>6, <1>7 DEF Op

LEMMA EditSound ==
    ASSUME RInv, NEW p \in Procs, NEW s, NEW v, NEW w, NEW tx,
           s = Statement(p), v = View(p), Edits(p, s, v, w, tx)
    PROVE  Sound(p)'
<1> DEFINE m == Migration(p)
           k == proc[p].next
           t == s.table
<1>1. DataOK /\ Sound(p)
  BY DEF RInv
<1>2. /\ AtStatement(p) /\ s.op \in EditOps /\ t \in Tables /\ Effect(p, s, v, w) /\ Elsewhere(t, v, w)
      /\ writer \in {p, Nobody} /\ pending' = w /\ proc' \in [Procs -> Process]
      /\ (tx <=> proc[p].tx \/ s.op = "copy")
      /\ IF tx THEN writer' = p /\ db' = db ELSE writer' = writer /\ db' = w
      /\ proc'[p].pc = proc[p].pc /\ proc'[p].at = proc[p].at /\ proc'[p].next = k + 1
      /\ proc'[p].tx = tx /\ proc'[p].keys = proc[p].keys
  BY DEF Edits, Frame
<1>3. /\ Applying(p) /\ Applying(p)' /\ Migration(p)' = m /\ m \in Migrations
      /\ k \in DOMAIN Script[m] /\ k \in Nat \ {0} /\ s = Script[m][k]
      /\ Executed(p)' = Executed(p) \cup {k}
      /\ \A j : Op(p, j)' = Op(p, j)
      /\ Op(p, k) = s.op
      /\ proc'[p].next <= Len(Script[m]) + 1
      /\ \A op : At(p, op)' => /\ k + 1 \in DOMAIN Script[m] /\ Statement(p)' = Script[m][k + 1]
                               /\ Statement(p)'.op = op
  BY <1>1, <1>2, AdvancesFacts
<1>4. writer = p => tx
  BY <1>1, <1>2 DEF DataOK
<1>5. \A op : At(p, op) <=> s.op = op
  BY <1>2 DEF At
<1>6. s.op \in {"drop", "rename"} =>
        /\ writer = p /\ pending.news[t] # NoTable /\ Named(p) \subseteq pending.news[t].cols
        /\ s.op = "drop" => pending.tables[t] # NoTable /\ pending.news[t].rows = pending.tables[t].rows
        /\ s.op = "rename" => (db.tables[t] # NoTable => db.tables[t].rows \subseteq pending.news[t].rows)
  BY <1>1, <1>5 DEF Sound, Rebuilding
<1>7. writer = p => v = pending
  BY DEF View
<1>8. writer # p => v = db
  BY DEF View
<1>9. Executed(p) = 1..(k - 1)
  BY DEF Executed
<1> HIDE DEF m, k, t
<1>10. Placed(p)'
  <2>1. k + 1 # 1 /\ k + 1 # 0
    BY <1>3
  <2>2. proc'[p].pc = "run"
    BY <1>2, <1>3 DEF Applying, Pending
  <2> QED
    BY <1>2, <1>3, <2>1, <2>2 DEF Placed
<1>11. KeysOff(p)'
  <2> SUFFICES ASSUME Op(p, 1)' = "off", \A j \in Executed(p)' : Op(p, j)' # "on" PROVE ~proc'[p].keys
    BY DEF KeysOff
  <2>1. Op(p, 1) = "off" /\ \A j \in Executed(p) : Op(p, j) # "on"
    BY <1>3
  <2>2. k # 1
    BY <1>2, <1>3, <2>1 DEF EditOps
  <2>3. Executed(p) # {}
    BY <1>3, <1>9, <2>2
  <2> QED
    BY <1>1, <1>2, <1>3, <2>1, <2>3 DEF Sound, KeysOff
<1>12. Rebuilding(p)'
  <2> DEFINE s2 == Script[m][k + 1]
             u  == s2.table
  <2> SUFFICES ASSUME At(p, "drop")' \/ At(p, "rename")'
               PROVE  /\ writer' = p /\ w.news[u] # NoTable /\ ColumnsOf(m, {"createNew"}, u) \subseteq w.news[u].cols
                      /\ At(p, "drop")' => w.tables[u] # NoTable /\ w.news[u].rows = w.tables[u].rows
                      /\ At(p, "rename")' => (db'.tables[u] # NoTable => db'.tables[u].rows \subseteq w.news[u].rows)
    BY <1>2, <1>3 DEF Rebuilding, Named
  <2>1. k + 1 \in DOMAIN Script[m] /\ s2 = Statement(p)' /\ s2.op \in {"drop", "rename"} /\ s2.op \in EditOps
        /\ (At(p, "drop")' => s2.op = "drop") /\ (At(p, "rename")' => s2.op = "rename")
    BY <1>3 DEF EditOps
  <2>2. u \in Tables
    BY <1>3, <2>1, ScriptFacts, StatementFacts
  <2>3. k + 1 - 1 = k
    BY <1>3
  <2>4. s2.op = "drop" => k + 1 \in Does(m, "drop", u)
    BY <2>1 DEF Does
  <2>5. s2.op = "rename" => k + 1 \in Does(m, "rename", u)
    BY <2>1 DEF Does
  <2> HIDE DEF s2, u
  <2>6. s2.op = "drop" => k \in Does(m, "copy", u)
    BY <1>3, <2>2, <2>3, <2>4, RebuildShape
  <2>7. s2.op = "rename" => k \in Does(m, "drop", u)
    BY <1>3, <2>2, <2>3, <2>5, RebuildShape
  <2>8. s2.op = "drop" => s.op = "copy" /\ t = u
    BY <1>3, <2>6 DEF Does, t
  <2>9. s2.op = "rename" => s.op = "drop" /\ t = u
    BY <1>3, <2>7 DEF Does, t
  <2>10. Named(p) = ColumnsOf(m, {"createNew"}, t)
    BY DEF Named, m, t
  <2>11. CASE s2.op = "drop"
    <3>1. /\ w.tables[t] = v.tables[t] /\ v.tables[t] # NoTable /\ w.news[t] # NoTable
          /\ w.news[t].rows = v.tables[t].rows /\ Named(p) \subseteq w.news[t].cols
      BY <1>2, <2>8, <2>11 DEF Effect, t
    <3>2. writer' = p
      BY <1>2, <2>8, <2>11
    <3> QED
      BY <2>1, <2>8, <2>10, <2>11, <3>1, <3>2
  <2>12. CASE s2.op = "rename"
    <3>1. w.tables[t] = NoTable /\ w.news[t] = v.news[t]
      BY <1>2, <2>9, <2>12 DEF Effect, t
    <3>2. writer = p /\ writer' = p /\ db' = db /\ v = pending
      BY <1>2, <1>4, <1>6, <1>7, <2>9, <2>12
    <3>3. db.tables[t] # NoTable => pending.tables[t] # NoTable /\ db.tables[t].rows \subseteq pending.tables[t].rows
      <4>1. KeptIn(pending, t) \/ At(p, "rename")
        BY <1>1, <1>2, <3>2 DEF Sound, Kept
      <4>2. KeptIn(pending, t)
        BY <1>5, <2>9, <2>12, <4>1
      <4> QED
        BY <4>2 DEF KeptIn
    <3> QED
      BY <1>6, <2>1, <2>9, <2>10, <2>12, <3>1, <3>2, <3>3
  <2> QED
    BY <2>1, <2>11, <2>12
<1>13. Kept(p)'
  <2> SUFFICES ASSUME writer' = p, NEW u \in Tables
               PROVE  /\ db'.children[u] \subseteq w.children[u]
                      /\ KeptIn(pending, u)' \/ (At(p, "rename")' /\ Statement(p)'.table = u)
    BY <1>2 DEF Kept
  <2>1. tx /\ db' = db
    BY <1>2, <1>4
  <2>2. KeptIn(pending, u)' <=> KeptIn(w, u)
    BY <1>2, <2>1 DEF KeptIn
  <2>3. db.children[u] \subseteq v.children[u] /\ (KeptIn(v, u) \/ (s.op = "rename" /\ t = u))
    <3>1. CASE writer = p
      BY <1>1, <1>2, <1>5, <1>7, <3>1 DEF Sound, Kept, t
    <3>2. CASE writer # p
      BY <1>8, <3>2 DEF KeptIn
    <3> QED
      BY <3>1, <3>2
  <2>4. CASE u # t
    <3>1. w.tables[u] = v.tables[u] /\ w.children[u] = v.children[u]
      BY <1>2, <2>4 DEF Elsewhere
    <3> QED
      BY <2>1, <2>2, <2>3, <2>4, <3>1 DEF KeptIn
  <2>5. CASE u = t
    <3>1. CASE s.op \in {"create", "column", "dropNew", "createNew", "copy"}
      <4>1. w.children[t] = v.children[t]
        BY <1>2, <3>1 DEF Effect, t
      <4>2. v.tables[t] # NoTable => w.tables[t] # NoTable /\ w.tables[t].rows = v.tables[t].rows
        BY <1>2, <3>1 DEF Effect, t
      <4>3. KeptIn(v, t)
        BY <2>3, <2>5, <3>1
      <4> QED
        BY <2>1, <2>2, <2>3, <2>5, <4>1, <4>2, <4>3 DEF KeptIn
    <3>2. CASE s.op = "drop"
      <4>1. k \in Does(m, "drop", t)
        BY <1>3, <3>2 DEF Does, t
      <4>2. /\ k - 1 \in Does(m, "copy", t) /\ k + 1 \in Does(m, "rename", t)
            /\ Script[m][1].op = "off" /\ \A j \in 1..k : Script[m][j].op # "on"
        BY <1>2, <1>3, <4>1, RebuildShape
      <4>3. ~proc[p].keys
        <5>1. k - 1 \in DOMAIN Script[m] /\ DOMAIN Script[m] = 1..Len(Script[m]) /\ Len(Script[m]) \in Nat
          BY <1>3, <4>2, ScriptFacts DEF Does
        <5>2. Executed(p) # {} /\ \A j \in Executed(p) : j \in 1..k
          BY <1>3, <1>9, <5>1
        <5>3. \A j : Op(p, j) = Script[m][j].op
          BY DEF Op, m
        <5> QED
          BY <1>1, <1>3, <4>2, <5>2, <5>3 DEF Sound, KeysOff
      <4>4. w.children[t] = v.children[t]
        BY <1>2, <3>2, <4>3 DEF Effect, t
      <4>5. k + 1 \in DOMAIN Script[m] /\ Script[m][k + 1].op = "rename" /\ Script[m][k + 1].table = t
        BY <4>2 DEF Does
      <4>6. At(p, "rename")' /\ Statement(p)'.table = t
        <5>1. k + 1 <= Len(Script[m])
          BY <1>3, <4>5, ScriptFacts
        <5> QED
          BY <1>2, <1>3, <4>5, <5>1 DEF At, AtStatement, Applying, Statement, m
      <4> QED
        BY <2>1, <2>3, <2>5, <4>4, <4>6
    <3>3. CASE s.op = "rename"
      <4>1. w.tables[t] = v.news[t] /\ v.news[t] # NoTable /\ w.children[t] = v.children[t]
        BY <1>2, <3>3 DEF Effect, t
      <4>2. db.tables[t] # NoTable => db.tables[t].rows \subseteq v.news[t].rows
        BY <1>6, <1>7, <3>3
      <4> QED
        BY <2>1, <2>2, <2>3, <2>5, <4>1, <4>2 DEF KeptIn
    <3> QED
      BY <1>2, <3>1, <3>2, <3>3 DEF EditOps
  <2> QED
    BY <2>4, <2>5
<1>14. Lock(p)'
  <2> SUFFICES ASSUME NEW j \in Executed(p)', Op(p, j)' = "rename", \A i \in Executed(p)' : Op(p, i)' # "commit"
               PROVE  writer' = p
    BY DEF Lock
  <2>1. Op(p, j) = "rename" /\ \A i \in Executed(p) : Op(p, i) # "commit"
    BY <1>3
  <2>2. writer = p
    <3>1. CASE j \in Executed(p)
      BY <1>1, <1>3, <2>1, <3>1 DEF Sound, Lock
    <3>2. CASE j = k
      BY <1>3, <1>6, <2>1, <3>2
    <3> QED
      BY <1>3, <3>1, <3>2
  <2> QED
    BY <1>2, <1>4, <2>2
<1> QED
  BY <1>10, <1>11, <1>12, <1>13, <1>14 DEF Sound

(* Statements that change no table.                                         *)
LEMMA NotInRebuild ==
    ASSUME RInv, NEW p \in Procs, AtStatement(p), Statement(p).op \notin {"copy", "drop"},
           proc' \in [Procs -> Process],
           proc'[p].pc = proc[p].pc, proc'[p].at = proc[p].at, proc'[p].next = proc[p].next + 1
    PROVE  ~At(p, "drop")' /\ ~At(p, "rename")'
<1> SUFFICES ASSUME At(p, "drop")' \/ At(p, "rename")' PROVE FALSE
  OBVIOUS
<1> DEFINE m == Migration(p)
           k == proc[p].next
           s2 == Script[m][k + 1]
           u  == s2.table
<1>1. DataOK /\ Sound(p)
  BY DEF RInv
<1>2. /\ m \in Migrations /\ k \in Nat \ {0} /\ Op(p, k) = Statement(p).op
      /\ \A op : At(p, op)' => /\ k + 1 \in DOMAIN Script[m] /\ Statement(p)' = Script[m][k + 1]
                               /\ Statement(p)'.op = op
  BY <1>1, AdvancesFacts
<1>3. k + 1 \in DOMAIN Script[m] /\ s2.op \in {"drop", "rename"} /\ s2.op \in EditOps /\ k + 1 - 1 = k
  BY <1>2 DEF EditOps
<1>4. u \in Tables
  BY <1>2, <1>3, ScriptFacts, StatementFacts
<1>5. k + 1 \in Does(m, "drop", u) \/ k + 1 \in Does(m, "rename", u)
  BY <1>3 DEF Does
<1> HIDE DEF u, s2
<1>6. k \in Does(m, "copy", u) \/ k \in Does(m, "drop", u)
  <2> HIDE DEF m, k
  <2> QED
    BY <1>2, <1>3, <1>4, <1>5, RebuildShape
<1>7. Script[m][k].op \in {"copy", "drop"}
  BY <1>6 DEF Does
<1> QED
  BY <1>2, <1>7 DEF Op

LEMMA LaterThanFirst == \A k \in Nat \ {0} : k # 1 => 1 \in 1..(k - 1)
  OBVIOUS

LEMMA PragmaSound == ASSUME RInv, NEW p \in Procs, Pragmas(p) PROVE Sound(p)'
<1> DEFINE m == Migration(p)
           k == proc[p].next
           s == Statement(p)
<1>1. DataOK /\ Sound(p)
  BY DEF RInv
<1>2. /\ AtStatement(p) /\ proc' \in [Procs -> Process] /\ SameData /\ s.op \in {"begin", "off", "on"}
      /\ proc'[p].pc = proc[p].pc /\ proc'[p].at = proc[p].at /\ proc'[p].next = k + 1
      /\ (~proc[p].tx /\ s.op = "off" => ~proc'[p].keys)
      /\ (~proc[p].keys /\ s.op # "on" => ~proc'[p].keys)
  BY DEF Pragmas, Advances, Frame
<1>3. /\ Applying(p) /\ Applying(p)' /\ Migration(p)' = m
      /\ k \in Nat \ {0}
      /\ Executed(p)' = Executed(p) \cup {k}
      /\ \A j : Op(p, j)' = Op(p, j)
      /\ Op(p, k) = s.op
      /\ proc'[p].next <= Len(Script[m]) + 1
  BY <1>1, <1>2, AdvancesFacts
<1>4. Executed(p) = 1..(k - 1)
  BY DEF Executed
<1>5. proc[p].pc = "run"
  BY <1>3 DEF Applying, Pending
<1> HIDE DEF m, k, s
<1>6. Placed(p)'
  <2>1. k + 1 # 1 /\ k + 1 # 0
    BY <1>3
  <2> QED
    BY <1>2, <1>3, <1>5, <2>1 DEF Placed
<1>7. KeysOff(p)'
  <2> SUFFICES ASSUME Op(p, 1)' = "off", \A j \in Executed(p)' : Op(p, j)' # "on" PROVE ~proc'[p].keys
    BY DEF KeysOff
  <2>1. Op(p, 1) = "off" /\ s.op # "on" /\ \A j \in Executed(p) : Op(p, j) # "on"
    BY <1>3
  <2>2. CASE k = 1
    <3>1. ~proc[p].tx /\ s.op = "off"
      BY <1>1, <1>3, <1>5, <2>1, <2>2 DEF Sound, Placed, k
    <3> QED
      BY <1>2, <3>1
  <2>3. CASE k # 1
    <3>3. 1 \in 1..(k - 1)
      BY <1>3, <2>3, LaterThanFirst
    <3>1. Executed(p) # {}
      BY <1>4, <3>3
    <3>2. ~proc[p].keys
      BY <1>1, <1>3, <2>1, <3>1 DEF Sound, KeysOff
    <3> QED
      BY <1>2, <2>1, <3>2
  <2> QED
    BY <2>2, <2>3
<1>8. Rebuilding(p)'
  <2>1. ~At(p, "drop")' /\ ~At(p, "rename")'
    BY <1>2, NotInRebuild DEF s, k
  <2> QED
    BY <2>1 DEF Rebuilding
<1>9. Kept(p)'
  <2>1. ~At(p, "rename")
    BY <1>2 DEF At, s
  <2> QED
    BY <1>1, <1>2, <2>1 DEF Sound, Kept, KeptIn, SameData
<1>10. Lock(p)'
  BY <1>1, <1>2, <1>3 DEF Sound, Lock, SameData
<1> QED
  BY <1>6, <1>7, <1>8, <1>9, <1>10 DEF Sound

LEMMA CommitSound == ASSUME RInv, NEW p \in Procs, Commits(p) PROVE Sound(p)'
<1> DEFINE m == Migration(p)
           k == proc[p].next
           s == Statement(p)
<1>1. DataOK /\ Sound(p)
  BY DEF RInv
<1>2. /\ AtStatement(p) /\ proc' \in [Procs -> Process] /\ s.op = "commit" /\ writer' # p
      /\ proc'[p].pc = proc[p].pc /\ proc'[p].at = proc[p].at /\ proc'[p].next = k + 1
      /\ proc'[p].keys = proc[p].keys
  BY ProcsType DEF Commits, Advances, Frame
<1>3. /\ Applying(p) /\ Migration(p)' = m
      /\ k \in Nat \ {0}
      /\ Executed(p)' = Executed(p) \cup {k}
      /\ \A j : Op(p, j)' = Op(p, j)
      /\ Op(p, k) = s.op
      /\ proc'[p].next <= Len(Script[m]) + 1
  BY <1>1, <1>2, AdvancesFacts
<1>4. Executed(p) = 1..(k - 1)
  BY DEF Executed
<1> HIDE DEF m, k, s
<1>5. Placed(p)'
  <2>1. k + 1 # 1 /\ k + 1 # 0 /\ proc[p].pc = "run"
    BY <1>3 DEF Applying, Pending
  <2> QED
    BY <1>2, <1>3, <2>1 DEF Placed
<1>6. KeysOff(p)'
  <2> SUFFICES ASSUME Op(p, 1)' = "off", \A j \in Executed(p)' : Op(p, j)' # "on" PROVE ~proc'[p].keys
    BY DEF KeysOff
  <2>1. Op(p, 1) = "off" /\ \A j \in Executed(p) : Op(p, j) # "on"
    BY <1>3
  <2>2. k # 1
    BY <1>2, <1>3, <2>1
  <2>5. 1 \in 1..(k - 1)
    BY <1>3, <2>2, LaterThanFirst
  <2>3. Executed(p) # {}
    BY <1>4, <2>5
  <2>4. ~proc[p].keys
    BY <1>1, <1>3, <2>1, <2>3 DEF Sound, KeysOff
  <2> QED
    BY <1>2, <2>4
<1>7. Rebuilding(p)'
  <2>1. ~At(p, "drop")' /\ ~At(p, "rename")'
    BY <1>2, NotInRebuild DEF s, k
  <2> QED
    BY <2>1 DEF Rebuilding
<1>8. Kept(p)'
  BY <1>2 DEF Kept
<1>9. Lock(p)'
  BY <1>2, <1>3 DEF Lock
<1> QED
  BY <1>5, <1>6, <1>7, <1>8, <1>9 DEF Sound

(* What a step may not do to the rows.                                      *)
Keeps == \A t \in Tables : KeptIn(db', t) /\ db.children[t] \subseteq db'.children[t]

LEMMA Together ==
    ASSUME RInv, NEW p \in Procs, DataOK', Sound(p)', \A q \in Procs : q # p => Apart(q)
    PROVE  RInv'
BY ApartKeeps DEF RInv

LEMMA KeepsSame == ASSUME db' = db PROVE Keeps
BY DEF Keeps, KeptIn

(* In View(p), what p has not committed, nothing is lost but at a rename.   *)
LEMMA ViewKeeps ==
    ASSUME RInv, NEW p \in Procs, ~At(p, "rename"), NEW t \in Tables
    PROVE  db.children[t] \subseteq View(p).children[t] /\ KeptIn(View(p), t)
<1>1. CASE writer = p
  BY <1>1 DEF RInv, Sound, Kept, View
<1>2. CASE writer # p
  BY <1>2 DEF View, KeptIn
<1> QED
  BY <1>1, <1>2

LEMMA EditKeeps == ASSUME RInv, NEW p \in Procs, Edit(p) PROVE RInv' /\ Keeps
<1> DEFINE s == Statement(p)
           v == View(p)
           w == pending'
           tx == proc'[p].tx
           t == s.table
<1>1. DataOK /\ Sound(p) /\ proc[p].next # 0
  BY DEF RInv, Sound, Placed
<1>2. Edits(p, s, v, w, tx)
  BY <1>1, EditFacts
<1>3. /\ AtStatement(p) /\ s.op \in EditOps /\ t \in Tables /\ Effect(p, s, v, w) /\ Elsewhere(t, v, w)
      /\ w \in Database
      /\ writer \in {p, Nobody} /\ Frame(p) /\ budget' = budget
      /\ IF tx THEN writer' = p /\ db' = db ELSE writer' = writer /\ db' = w
      /\ (tx <=> proc[p].tx \/ s.op = "copy") /\ proc'[p].pc = proc[p].pc
  BY <1>2 DEF Edits
<1>4. proc[p].pc = "run"
  BY <1>3 DEF AtStatement, Pending
<1>5. writer = p => tx
  BY <1>1, <1>3 DEF DataOK
<1>6. db \in Database /\ budget \in 0..Budget /\ Nobody # p
  BY <1>1, TypeFacts, ProcsType
<1>7. tx \/ (writer = Nobody /\ writer' = Nobody /\ db' = w /\ v = db)
  BY <1>3, <1>5, <1>6 DEF View
<1>8. DataOK'
  <2>1. proc' \in [Procs -> Process]
    BY <1>3 DEF Frame
  <2>2. writer' \in Procs \cup {Nobody}
    BY <1>3
  <2>3. \A q \in Procs : writer' = q => proc'[q].pc = "run" /\ proc'[q].tx
    BY <1>3, <1>4, <1>6, <1>7, ProcsType
  <2>4. db' \in Database /\ (writer' = Nobody => w = db')
    BY <1>3, <1>6, <1>7
  <2> QED
    BY <1>3, <1>6, <2>1, <2>2, <2>3, <2>4, TypeKept
<1>9. Sound(p)'
  BY <1>2, EditSound
<1>10. ASSUME NEW q \in Procs, q # p PROVE Apart(q)
  BY <1>3, <1>7, <1>10, ProcsType DEF Apart, Frame
<1>11. Keeps
  <2>1. CASE tx
    BY <1>3, <2>1, KeepsSame
  <2>2. CASE ~tx
    <3>1. writer = Nobody /\ db' = w /\ v = db
      BY <1>7, <2>2
    <3>2. s.op \notin {"copy", "drop", "rename"}
      <4>1. s.op \in {"drop", "rename"} => writer = p
        BY <1>1, <1>3 DEF Sound, Rebuilding, At
      <4> QED
        BY <1>3, <1>6, <2>2, <3>1, <4>1
    <3> HIDE DEF s, v, w, t
    <3>3. w.children[t] = v.children[t]
          /\ (v.tables[t] # NoTable => w.tables[t] # NoTable /\ w.tables[t].rows = v.tables[t].rows)
      BY <1>3, <3>2 DEF Effect, EditOps, t
    <3>4. \A u \in Tables : u # t => w.tables[u] = v.tables[u] /\ w.children[u] = v.children[u]
      BY <1>3 DEF Elsewhere
    <3> QED
      BY <3>1, <3>3, <3>4 DEF Keeps, KeptIn
  <2> QED
    BY <2>1, <2>2
<1> QED
  BY <1>8, <1>9, <1>10, <1>11, Together

LEMMA PragmaKeeps == ASSUME RInv, NEW p \in Procs, Pragmas(p) PROVE RInv' /\ Keeps
<1>1. DataOK /\ Frame(p) /\ SameData /\ budget' = budget /\ proc'[p].pc = proc[p].pc /\ (proc[p].tx => proc'[p].tx)
  BY DEF RInv, Pragmas, Advances
<1>2. /\ db \in Database /\ pending \in Database /\ writer \in Procs \cup {Nobody} /\ budget \in 0..Budget
  BY <1>1, TypeFacts
<1>3. DataOK'
  <2>1. \A q \in Procs : writer' = q => proc'[q].pc = "run" /\ proc'[q].tx
    BY <1>1 DEF DataOK, Frame, SameData
  <2>2. writer' = Nobody => pending' = db'
    BY <1>1 DEF DataOK, SameData
  <2> QED
    BY <1>1, <1>2, <2>1, <2>2, TypeKept DEF Frame, SameData
<1>4. \A q \in Procs : q # p => Apart(q)
  BY <1>1 DEF Apart, Frame, SameData
<1> QED
  BY <1>1, <1>3, <1>4, PragmaSound, Together, KeepsSame DEF SameData

LEMMA CommitKeeps == ASSUME RInv, NEW p \in Procs, Commits(p) PROVE RInv' /\ Keeps
<1>1. /\ DataOK /\ Sound(p) /\ Frame(p) /\ budget' = budget /\ pending' = pending
      /\ IF writer = p THEN db' = pending /\ writer' = Nobody ELSE db' = db /\ writer' = writer
      /\ Statement(p).op = "commit"
  BY DEF RInv, Commits, Advances
<1>2. /\ db \in Database /\ pending \in Database /\ writer \in Procs \cup {Nobody} /\ budget \in 0..Budget
  BY <1>1, TypeFacts
<1>3. DataOK'
  <2>1. \A q \in Procs : writer' = q => proc'[q].pc = "run" /\ proc'[q].tx
    BY <1>1, ProcsType DEF DataOK, Frame
  <2>2. writer' = Nobody => pending' = db'
    BY <1>1 DEF DataOK
  <2> QED
    BY <1>1, <1>2, <2>1, <2>2, TypeKept DEF Frame
<1>4. \A q \in Procs : q # p => Apart(q)
  BY <1>1, ProcsType DEF Apart, Frame
<1>5. Keeps
  <2>1. CASE writer = p
    <3>1. ~At(p, "rename") /\ View(p) = pending
      BY <1>1, <2>1 DEF At, View
    <3> QED
      BY <1>1, <2>1, <3>1, ViewKeeps DEF Keeps
  <2>2. CASE writer # p
    BY <1>1, <2>2, KeepsSame
  <2> QED
    BY <2>1, <2>2
<1> QED
  BY <1>3, <1>4, <1>5, CommitSound, Together

(* A process that comes from or goes to a place where it has no lock.       *)
LEMMA MarkedKeeps ==
    ASSUME RInv, NEW p \in Procs, NEW X, Marked(X), Frame(p), budget' \in 0..Budget, Sound(p)'
    PROVE  RInv' /\ Keeps
<1>1. DataOK'
  BY ProcsType, TypeKept DEF Marked, Frame
<1>2. \A q \in Procs : q # p => Apart(q)
  BY ProcsType DEF Marked, Apart, Frame
<1>3. Keeps
  BY DEF Marked, Keeps, KeptIn
<1> QED
  BY <1>1, <1>2, <1>3, Together

LEMMA SameDataKeeps ==
    ASSUME RInv, NEW p \in Procs, SameData, writer # p, Frame(p), budget' \in 0..Budget, Sound(p)'
    PROVE  RInv' /\ Keeps
<1>1. DataOK
  BY DEF RInv
<1>2. DataOK'
  <2>1. /\ db' \in Database /\ pending' \in Database /\ writer' \in Procs \cup {Nobody}
    BY <1>1, TypeFacts DEF SameData
  <2>2. \A q \in Procs : writer' = q => proc'[q].pc = "run" /\ proc'[q].tx
    BY <1>1 DEF DataOK, Frame, SameData
  <2>3. writer' = Nobody => pending' = db'
    BY <1>1 DEF DataOK, SameData
  <2> QED
    BY <2>1, <2>2, <2>3, TypeKept DEF Frame
<1>3. \A q \in Procs : q # p => Apart(q)
  BY DEF SameData, Apart, Frame
<1> QED
  BY <1>2, <1>3, Together, KeepsSame DEF SameData

LEMMA OtherStepsKeep ==
    ASSUME RInv, NEW p \in Procs,
           Start(p) \/ RecordSplit(p) \/ Repair(p) \/ RecordUnavailable(p) \/ Record(p)
             \/ Raise(p) \/ Crash(p) \/ Finish(p)
    PROVE  RInv' /\ Keeps
<1>1. DataOK /\ Sound(p) /\ proc[p] \in Process /\ budget \in 0..Budget
  BY TypeFacts DEF RInv
<1>2. writer = p => Applying(p)
  BY <1>1 DEF Sound, Placed
<1>3. CASE Start(p)
  <2>1. Starts(p)
    BY <1>1, <1>3, StartFacts
  <2>2. writer # p
    BY <1>1, <2>1 DEF DataOK, Starts, Ended
  <2>3. Sound(p)'
    BY <2>1, <2>2, ArrivesSound DEF Starts, Frame, SameData
  <2> QED
    BY <2>1, <2>2, <2>3, SameDataKeeps DEF Starts
<1>4. CASE RecordSplit(p)
  <2>1. RecordsSplit(p)
    BY <1>1, <1>4, RecordSplitFacts
  <2>2. writer # p /\ writer' # p /\ proc[p].next = 1 /\ ~proc[p].tx
    BY <1>1, <2>1, ProcsType DEF DataOK, RecordsSplit, Sound, Placed, SameData, Marked
  <2>3. Sound(p)'
    BY <2>1, <2>2, ArrivesSound DEF RecordsSplit, Frame
  <2> QED
    BY <1>1, <2>1, <2>2, <2>3, SameDataKeeps, MarkedKeeps DEF RecordsSplit
<1>5. CASE Repair(p)
  <2>1. Repairs(p)
    BY <1>1, <1>5, RepairFacts
  <2>2. writer # p /\ writer' # p /\ proc[p].next = 1 /\ ~proc[p].tx
    BY <1>1, <2>1, ProcsType DEF DataOK, Repairs, Sound, Placed, SameData, RepairedData
  <2>3. Sound(p)'
    BY <2>1, <2>2, ArrivesSound DEF Repairs, Frame
  <2>4. CASE SameData
    BY <2>1, <2>2, <2>3, <2>4, SameDataKeeps DEF Repairs
  <2>5. CASE RepairedData(proc[p].applied)
    <3>1. DataOK'
      BY <2>1, <2>5, ProcsType, TypeKept DEF RepairedData, Repairs, Frame
    <3>2. \A q \in Procs : q # p => Apart(q)
      BY <2>1, <2>5, ProcsType DEF RepairedData, Repairs, Apart, Frame
    <3>3. Keeps
      BY <2>5 DEF RepairedData, Keeps, KeptIn
    <3> QED
      BY <2>3, <3>1, <3>2, <3>3, Together
  <2> QED
    BY <2>1, <2>4, <2>5 DEF Repairs
<1>6. CASE RecordUnavailable(p)
  <2>1. writer # p
    BY <1>2, <1>6 DEF RecordUnavailable, Applying
  <2>2. Passes(p) /\ Marked({Migration(p)})
    BY <1>1, <1>6, <2>1, RecordUnavailableFacts
  <2>3. Sound(p)'
    BY <2>2, ProcsType, ArrivesSound DEF Passes, Marked, Frame
  <2> QED
    BY <1>1, <2>2, <2>3, MarkedKeeps DEF Passes
<1>7. CASE Record(p)
  <2>1. Passes(p) /\ Records(p)
    BY <1>1, <1>7, RecordFacts
  <2>2. Sound(p)'
    BY <2>1, ProcsType, ArrivesSound DEF Passes, Records, Frame
  <2>3. DataOK'
    BY <1>1, <2>1, ProcsType, TypeKept DEF Records, Passes, Frame
  <2>4. \A q \in Procs : q # p => Apart(q)
    BY <2>1, ProcsType DEF Records, Passes, Apart, Frame
  <2>5. ~At(p, "rename")
    <3>1. Migration(p) \in Migrations /\ proc[p].next > Len(Script[Migration(p)])
      BY <2>1 DEF Passes, Records, AtRecord
    <3>2. ~(proc[p].next <= Len(Script[Migration(p)]))
      BY <1>1, <3>1, ScriptFacts DEF Process
    <3> QED
      BY <3>2 DEF At, AtStatement
  <2>6. Keeps
    BY <2>1, <2>5, ViewKeeps DEF Records, Keeps, KeptIn
  <2> QED
    BY <2>2, <2>3, <2>4, <2>6, Together
<1>8. CASE Raise(p) \/ Crash(p) \/ Finish(p)
  <2>1. Finish(p) => writer # p
    <3>1. Finish(p) => proc[p].at > Final /\ proc[p].at \in Nat /\ Final \in Nat
      BY <1>1, OrderFacts DEF Finish, Final, Process
    <3>2. writer = p => proc[p].at <= Final
      BY <1>2 DEF Applying, Pending, Final
    <3> QED
      BY <3>1, <3>2
  <2>2. Ends(p)
    BY <1>1, <1>8, <2>1, EndFacts
  <2>3. Sound(p)'
    BY <1>1, <2>2, ProcsType, ArrivesSound DEF Ends, Frame, Sound, Placed
  <2>4. DataOK'
    <3>1. /\ db' \in Database /\ pending' \in Database /\ writer' \in Procs \cup {Nobody}
      BY <1>1, <2>2, TypeFacts DEF Ends
    <3>2. \A q \in Procs : writer' = q => proc'[q].pc = "run" /\ proc'[q].tx
      BY <1>1, <2>2, ProcsType DEF DataOK, Frame, Ends
    <3>3. writer' = Nobody => pending' = db'
      BY <1>1, <2>2 DEF DataOK, Ends
    <3> QED
      BY <2>2, <3>1, <3>2, <3>3, TypeKept DEF Frame, Ends
  <2>5. \A q \in Procs : q # p => Apart(q)
    BY <2>2, ProcsType DEF Ends, Apart, Frame
  <2> QED
    BY <2>2, <2>3, <2>4, <2>5, Together, KeepsSame DEF Ends
<1> QED
  BY <1>3, <1>4, <1>5, <1>6, <1>7, <1>8

LEMMA RowAddedKeeps == ASSUME RInv, RowAdded PROVE RInv' /\ Keeps
<1>1. DataOK'
  BY TypeFacts, ProcsType, TypeKept DEF RInv, RowAdded
<1>2. \A q \in Procs : Apart(q)
  BY ProcsType DEF RowAdded, Apart
<1>3. Keeps
  BY DEF RowAdded, Keeps, KeptIn
<1> QED
  BY <1>1, <1>2, <1>3, ApartKeeps DEF RInv

LEMMA StepKeeps == ASSUME RInv, [Next]_vars PROVE RInv' /\ Keeps
<1>1. CASE UNCHANGED vars
  <2>1. db' = db /\ pending' = pending /\ writer' = writer /\ proc' = proc /\ budget' = budget
    BY <1>1 DEF vars
  <2>2. DataOK'
    BY <2>1 DEF RInv, DataOK
  <2>3. \A q \in Procs : Apart(q)
    BY <2>1 DEF Apart
  <2> QED
    BY <2>1, <2>2, <2>3, ApartKeeps, KeepsSame DEF RInv
<1>2. CASE \E t \in Tables, r \in Rows : AddRow(t, r)
  BY <1>2, AddRowFacts, RowAddedKeeps DEF RInv
<1>3. ASSUME NEW p \in Procs, Start(p) \/ Step(p) \/ Crash(p) PROVE RInv' /\ Keeps
  <2>1. DataOK
    BY DEF RInv
  <2>2. CASE BeginTransaction(p) \/ ForeignKeys(p)
    BY <2>1, <2>2, PragmaFacts, PragmaKeeps
  <2>3. CASE CommitTransaction(p)
    BY <2>1, <2>3, CommitFacts, CommitKeeps
  <2>4. CASE Edit(p)
    BY <2>4, EditKeeps
  <2>5. CASE Start(p) \/ RecordSplit(p) \/ Repair(p) \/ RecordUnavailable(p) \/ Record(p)
               \/ Raise(p) \/ Crash(p) \/ Finish(p)
    BY <2>5, OtherStepsKeep
  <2> QED
    BY <1>3, <2>2, <2>3, <2>4, <2>5 DEF Step, Edit
<1> QED
  BY <1>1, <1>2, <1>3 DEF Next

LEMMA WithFacts ==
    ASSUME NEW n \in 0..Final, NEW recorded \in SUBSET (Migrations \cup {Old})
    PROVE  /\ With(n, recorded) \in Database
           /\ With(n, recorded).recorded = recorded
           /\ \A t \in Tables : /\ With(n, recorded).news[t] = NoTable
                                /\ IF Schema[n][t] = {} THEN With(n, recorded).tables[t] = NoTable
                                   ELSE /\ With(n, recorded).tables[t] # NoTable
                                        /\ With(n, recorded).tables[t].cols = Schema[n][t]
<1> DEFINE x(t) == [cols |-> Schema[n][t], rows |-> {}]
           tab(t) == IF Schema[n][t] = {} THEN NoTable ELSE x(t)
<1>1. \A t \in Tables : x(t) \in Table /\ x(t).cols = Schema[n][t]
  BY SchemaFacts DEF Columned, Table
<1>2. \A t \in Tables : x(t) # NoTable
  BY <1>1, NoTableType
<1> HIDE DEF x
<1>3. \A t \in Tables : tab(t) \in Slot
  BY <1>1 DEF Slot
<1>4. With(n, recorded) = [tables |-> [t \in Tables |-> tab(t)], news |-> [t \in Tables |-> NoTable],
                           children |-> [t \in Tables |-> {}], recorded |-> recorded]
  BY DEF With, x
<1>5. With(n, recorded) \in Database
  <2> HIDE DEF tab
  <2>1. [t \in Tables |-> tab(t)] \in [Tables -> Slot] /\ [t \in Tables |-> NoTable] \in [Tables -> Slot]
    BY <1>3 DEF Slot
  <2>2. [t \in Tables |-> {}] \in [Tables -> SUBSET Rows]
    OBVIOUS
  <2> QED
    BY <1>4, <2>1, <2>2 DEF Database, Slot
<1>6. \A t \in Tables : With(n, recorded).news[t] = NoTable /\ With(n, recorded).tables[t] = tab(t)
  BY <1>4
<1> QED
  BY <1>1, <1>2, <1>4, <1>5, <1>6

LEMMA InitFacts ==
    ASSUME Init
    PROVE  \E n \in 0..Final, recorded \in SUBSET (Migrations \cup {Old}) : db = With(n, recorded)
<1>1. CASE db = With(0, {})
  BY <1>1, OrderFacts
<1>2. ASSUME NEW n \in 1..Final, db = With(n, ({Order[i] : i \in 1..n} \ Splits) \cup {Old})
      PROVE  \E k \in 0..Final, recorded \in SUBSET (Migrations \cup {Old}) : db = With(k, recorded)
  <2> DEFINE X == ({Order[i] : i \in 1..n} \ Splits) \cup {Old}
  <2>1. X \in SUBSET (Migrations \cup {Old}) /\ n \in 0..Final
    BY OrderFacts
  <2> HIDE DEF X
  <2> QED
    BY <1>2, <2>1 DEF X
<1> QED
  BY <1>1, <1>2 DEF Init, Final

LEMMA InitRInv == ASSUME Init PROVE RInv
<1> DEFINE r == [pc |-> "off", applied |-> {}, at |-> 1, next |-> 1, tx |-> FALSE, keys |-> TRUE]
<1>1. db \in Database /\ pending = db /\ writer = Nobody /\ proc = [p \in Procs |-> r] /\ budget = Budget
  <2>1. db \in Database
    BY InitFacts, WithFacts
  <2> QED
    BY <2>1 DEF Init
<1>2. r \in Process /\ r.pc = "off" /\ r.next = 1
  BY OrderFacts DEF Process, Phases, Ended
<1> HIDE DEF r
<1>3. DataOK
  <2>1. proc \in [Procs -> Process]
    BY <1>1, <1>2
  <2>2. \A p \in Procs : writer # p
    BY <1>1, ProcsType
  <2>3. budget \in 0..Budget
    BY <1>1, BoundType
  <2> QED
    BY <1>1, <2>1, <2>2, <2>3 DEF DataOK, Process, Phases, Final
<1>4. ASSUME NEW p \in Procs PROVE Sound(p)
  <2>1. writer # p /\ proc[p].pc = "off" /\ proc[p].next = 1
    BY <1>1, <1>2, ProcsType
  <2>2. ~Applying(p) /\ \A op : ~At(p, op)
    BY <2>1 DEF Applying, Pending, At, AtStatement
  <2> QED
    BY <2>1, <2>2 DEF Sound, Placed, KeysOff, Rebuilding, Kept, Lock
<1> QED
  BY <1>3, <1>4 DEF RInv

(* The history of whether two processes have migrated at a time.           *)
LEMMA BesideFacts ==
    ASSUME [Next]_vars
    PROVE  \/ beside' = beside
           \/ \E p \in Procs : Start(p) /\ beside' = (beside \/ \E q \in Procs : proc[q].pc \notin Ended)
<1>1. CASE UNCHANGED vars
  BY <1>1 DEF vars
<1>2. CASE \E t \in Tables, r \in Rows : AddRow(t, r)
  BY <1>2 DEF AddRow
<1>3. ASSUME NEW p \in Procs, Start(p) PROVE beside' = (beside \/ \E q \in Procs : proc[q].pc \notin Ended)
  BY <1>3 DEF Start
<1>4. ASSUME NEW p \in Procs, Step(p) \/ Crash(p) PROVE beside' = beside
  <2>1. CASE RecordSplit(p) \/ Repair(p) \/ RecordUnavailable(p) \/ Record(p) \/ Raise(p) \/ Finish(p) \/ Crash(p)
    BY <2>1 DEF RecordSplit, Repair, RecordUnavailable, Record, Raise, Finish, Crash
  <2>2. CASE BeginTransaction(p) \/ CommitTransaction(p) \/ ForeignKeys(p)
    BY <2>2 DEF BeginTransaction, CommitTransaction, ForeignKeys
  <2>3. CASE Edit(p)
    BY <2>3 DEF Edit, Create, AddColumn, DropNew, CreateNew, Copy, Drop, Rename, Change
  <2> QED
    BY <1>4, <2>1, <2>2, <2>3 DEF Step, Edit
<1> QED
  BY <1>1, <1>2, <1>3, <1>4 DEF Next

LEMMA RowsInductive == Spec => []RInv
<1>1. Init => RInv
  BY InitRInv
<1>2. RInv /\ [Next]_vars => RInv'
  BY StepKeeps
<1> QED
  BY <1>1, <1>2, PTL DEF Spec

(* Every reachable state is well-typed; whoever has SQLite's write lock is  *)
(* in a transaction of migrate, and without a writer all is committed.      *)
THEOREM TypeCorrect == Spec => []TypeOK
<1>1. Init => beside \in BOOLEAN
  BY DEF Init
<1>2. beside \in BOOLEAN /\ [Next]_vars => (beside \in BOOLEAN)'
  BY BesideFacts
<1>3. RInv /\ beside \in BOOLEAN => TypeOK
  BY DEF RInv, TypeOK
<1> QED
  BY <1>1, <1>2, <1>3, RowsInductive, PTL DEF Spec

(* No migration loses a row of a table it rebuilds, or a row that refers to *)
(* one, although it is written by others and processes die between its      *)
(* statements.                                                              *)
THEOREM RowsAreSafe == Spec => KeepsRows
<1>1. RInv /\ [Next]_vars =>
        [\A t \in Tables :
          /\ db.tables[t] # NoTable => db'.tables[t] # NoTable /\ db.tables[t].rows \subseteq db'.tables[t].rows
          /\ db.children[t] \subseteq db'.children[t]]_vars
  BY StepKeeps DEF Keeps, KeptIn
<1> QED
  BY <1>1, RowsInductive, PTL DEF Spec, KeepsRows

-----------------------------------------------------------------------------
(* The schema along the migrations                                          *)

Adds    == {"create", "column", "createNew"}
Then(n) == IF n = Final THEN n ELSE n + 1

LEMMA ThenFacts ==
    ASSUME NEW n \in 0..Final
    PROVE  /\ Then(n) \in 0..Final /\ n <= Then(n) /\ n \in Nat /\ Then(n) \in Nat
           /\ \A i \in 1..Final : i <= n + 1 => i <= Then(n)
BY OrderFacts DEF Then

LEMMA ColumnSource ==
    ASSUME NEW m \in Migrations, NEW op \in EditOps, NEW t \in Tables, NEW c \in ColumnsOf(m, {op}, t)
    PROVE  \E k \in Does(m, op, t) : c \in Script[m][k].cols
<1>1. PICK ops : ops = {op}
  OBVIOUS
<1>2. ops \in SUBSET EditOps /\ c \in ColumnsOf(m, ops, t)
  BY <1>1
<1>3. \A d \in ColumnsOf(m, ops, t) : \E k \in DOMAIN Script[m] :
         Script[m][k].op \in ops /\ Script[m][k].table = t /\ d \in Script[m][k].cols
  BY <1>2, ColumnsOfFacts
<1>4. PICK k \in DOMAIN Script[m] : Script[m][k].op \in ops /\ Script[m][k].table = t /\ c \in Script[m][k].cols
  BY <1>2, <1>3
<1>5. k \in Does(m, op, t)
  BY <1>1, <1>4 DEF Does
<1> QED
  BY <1>4, <1>5

LEMMA DoneWithin ==
    ASSUME NEW m \in Migrations, NEW op \in EditOps, NEW t \in Tables, NEW X,
           \A k \in Does(m, op, t) : Script[m][k].cols \subseteq X
    PROVE  ColumnsOf(m, {op}, t) \subseteq X
BY ColumnSource

LEMMA NothingDone ==
    ASSUME NEW m \in Migrations, NEW op \in EditOps, NEW t \in Tables, Does(m, op, t) = {}
    PROVE  ColumnsOf(m, {op}, t) = {}
BY ColumnSource

LEMMA DoneColumns ==
    ASSUME NEW m \in Migrations, NEW op \in EditOps, NEW t \in Tables, NEW k \in Does(m, op, t)
    PROVE  /\ Script[m][k].cols \subseteq ColumnsOf(m, {op}, t)
           /\ op = "create" => ColumnsOf(m, {op}, t) = Script[m][k].cols
           /\ op \in {"create", "createNew"} => Script[m][k].cols # {}
<1>1. k \in DOMAIN Script[m] /\ Script[m][k].op = op /\ Script[m][k].table = t
  BY DEF Does
<1>2. Script[m][k].cols \subseteq ColumnsOf(m, {op}, t)
  BY <1>1, ColumnsOfFacts
<1>3. op = "create" => ColumnsOf(m, {op}, t) \subseteq Script[m][k].cols
  <2>1. op = "create" => \A j \in Does(m, op, t) : j = k
    BY CreateShape
  <2> QED
    BY <2>1, DoneWithin
<1>4. op \in {"create", "createNew"} => Script[m][k].cols # {}
  BY CreateShape
<1> QED
  BY <1>2, <1>3, <1>4

(* One migration further.                                                   *)
LEMMA SchemaStep ==
    ASSUME NEW n \in 1..Final, NEW t \in Tables
    PROVE  LET m == Order[n]
           IN  /\ n - 1 \in 0..Final /\ m \in Migrations
               /\ m \in Unavailable => Schema[n][t] = Schema[n - 1][t]
               /\ m \notin Unavailable /\ Rebuilds(m, t) =>
                     Schema[n][t] = ColumnsOf(m, {"createNew"}, t) /\ Schema[n][t] # {}
               /\ m \notin Unavailable /\ ~Rebuilds(m, t) =>
                     Schema[n][t] = (IF Schema[n - 1][t] = {} THEN ColumnsOf(m, {"create"}, t) ELSE Schema[n - 1][t])
                                       \cup ColumnsOf(m, {"column"}, t)
<1> DEFINE m == Order[n]
<1>1. n - 1 \in 0..Final /\ m \in Migrations
  BY OrderFacts
<1>2. Schema[n][t] = ColumnsAfter(m, Schema[n - 1][t], t)
  BY SchemaFacts
<1>3. Rebuilds(m, t) => ColumnsOf(m, {"createNew"}, t) # {}
  <2> SUFFICES ASSUME NEW k \in Does(m, "createNew", t) PROVE ColumnsOf(m, {"createNew"}, t) # {}
    BY DEF Rebuilds
  <2>1. "createNew" \in EditOps
    BY DEF EditOps
  <2> QED
    BY <1>1, <2>1, DoneColumns
<1> HIDE DEF m
<1> QED
  BY <1>1, <1>2, <1>3 DEF ColumnsAfter, m

LEMMA SchemaStays ==
    ASSUME NEW n \in 0..Final, NEW k \in n..Final, NEW t \in Tables, Schema[n][t] # {}
    PROVE  Schema[k][t] # {}
<1> DEFINE T == {j \in Nat : n + j \in 0..Final => Schema[n + j][t] # {}}
<1>1. 0 \in T
  BY OrderFacts
<1>2. ASSUME NEW j \in Nat, j \in T PROVE j + 1 \in T
  <2> SUFFICES ASSUME n + (j + 1) \in 0..Final PROVE Schema[n + (j + 1)][t] # {}
    OBVIOUS
  <2> DEFINE i == n + (j + 1)
  <2>1. i \in 1..Final /\ i - 1 = n + j /\ n + j \in 0..Final
    BY OrderFacts
  <2>2. Schema[i - 1][t] # {}
    BY <1>2, <2>1
  <2> HIDE DEF i
  <2>3. Schema[i][t] # {}
    BY <2>1, <2>2, SchemaStep
  <2> QED
    BY <2>3 DEF i
<1>3. k - n \in Nat /\ n + (k - n) = k /\ k \in 0..Final
  BY OrderFacts
<1> HIDE DEF T
<1>4. k - n \in T
  BY <1>1, <1>2, <1>3, Induction
<1> QED
  BY <1>3, <1>4 DEF T

(* Nothing adds to a table after the migration that commits its rebuild.    *)
LEMMA SchemaFixed ==
    ASSUME NEW i \in 1..Final, NEW c \in DOMAIN Script[Order[i]], Script[Order[i]][c].op = "commit",
           NEW t \in Tables, Rebuilds(Order[i], t), NEW k \in i..Final
    PROVE  Schema[k][t] = Schema[i][t]
<1> DEFINE T == {j \in Nat : i + j \in 0..Final => Schema[i + j][t] = Schema[i][t]}
<1>1. 0 \in T
  BY OrderFacts
<1>2. ASSUME NEW j \in Nat, j \in T PROVE j + 1 \in T
  <2> SUFFICES ASSUME i + (j + 1) \in 0..Final PROVE Schema[i + (j + 1)][t] = Schema[i][t]
    OBVIOUS
  <2> DEFINE n == i + (j + 1)
  <2>1. n \in 1..Final /\ n - 1 = i + j /\ i + j \in 0..Final /\ n > i
    BY OrderFacts
  <2>2. Schema[n - 1][t] = Schema[i][t]
    BY <1>2, <2>1
  <2> HIDE DEF n
  <2>3. \A op \in Adds : Does(Order[n], op, t) = {}
    BY <2>1, OrderFacts, CommitShape DEF Adds
  <2>4. Order[n] \in Migrations /\ Adds \subseteq EditOps
    BY <2>1, OrderFacts DEF Adds, EditOps
  <2>5. ~Rebuilds(Order[n], t) /\ ColumnsOf(Order[n], {"create"}, t) = {} /\ ColumnsOf(Order[n], {"column"}, t) = {}
    BY <2>3, <2>4, NothingDone DEF Adds, Rebuilds
  <2>6. \/ Schema[n][t] = Schema[n - 1][t]
        \/ Schema[n][t] = (IF Schema[n - 1][t] = {} THEN ColumnsOf(Order[n], {"create"}, t) ELSE Schema[n - 1][t])
                             \cup ColumnsOf(Order[n], {"column"}, t)
    BY <2>1, <2>5, SchemaStep
  <2>7. Schema[n][t] = Schema[n - 1][t]
    BY <2>5, <2>6
  <2> QED
    BY <2>2, <2>7 DEF n
<1>3. k - i \in Nat /\ i + (k - i) = k /\ k \in 0..Final
  BY OrderFacts
<1> HIDE DEF T
<1>4. k - i \in T
  BY <1>1, <1>2, <1>3, Induction
<1> QED
  BY <1>3, <1>4 DEF T

(* All that a table was ever given.                                         *)
LEMMA GivenFacts ==
    ASSUME NEW n \in 0..Final, NEW t \in Tables
    PROVE  /\ \A i \in 1..n : \A op \in Adds : ColumnsOf(Order[i], {op}, t) \subseteq Given[n][t]
           /\ \A k \in n..Final : Given[n][t] \subseteq Given[k][t]
<1>1. \A k \in 0..Final : Given[k][t] = UNION {ColumnsOf(Order[i], Adds, t) : i \in 1..k}
  BY DEF Given, Adds, Final
<1>2. \A i \in 1..n : \A op \in Adds : ColumnsOf(Order[i], {op}, t) \subseteq ColumnsOf(Order[i], Adds, t)
  BY DEF ColumnsOf
<1>3. \A k \in n..Final : k \in 0..Final /\ \A i \in 1..n : i \in 1..k
  BY OrderFacts
<1>4. \A i \in 1..n : \A op \in Adds : ColumnsOf(Order[i], {op}, t) \subseteq Given[n][t]
  BY <1>1, <1>2
<1>5. ASSUME NEW k \in n..Final PROVE Given[n][t] \subseteq Given[k][t]
  BY <1>1, <1>3
<1> QED
  BY <1>4, <1>5

LEMMA GivenStatement ==
    ASSUME NEW n \in 0..Final, NEW i \in 1..n, NEW k \in DOMAIN Script[Order[i]], NEW t \in Tables,
           Script[Order[i]][k].op \in Adds, Script[Order[i]][k].table = t
    PROVE  Script[Order[i]][k].cols \subseteq Given[n][t]
<1> DEFINE m == Order[i]
           op == Script[m][k].op
<1>1. m \in Migrations /\ op \in EditOps
  BY OrderFacts DEF Adds, EditOps
<1>2. k \in Does(m, op, t)
  BY DEF Does
<1>3. Script[m][k].cols \subseteq ColumnsOf(m, {op}, t)
  <2> HIDE DEF m, op
  <2> QED
    BY <1>1, <1>2, DoneColumns
<1> QED
  BY <1>3, GivenFacts

LEMMA SchemaGiven ==
    ASSUME NEW n \in 0..Final, NEW t \in Tables
    PROVE  Schema[n][t] \subseteq Given[n][t]
<1> DEFINE T == {j \in Nat : j \in 0..Final => Schema[j][t] \subseteq Given[j][t]}
<1>1. 0 \in T
  BY SchemaFacts, OrderFacts
<1>2. ASSUME NEW j \in Nat, j \in T PROVE j + 1 \in T
  <2> SUFFICES ASSUME j + 1 \in 0..Final PROVE Schema[j + 1][t] \subseteq Given[j + 1][t]
    OBVIOUS
  <2> DEFINE i == j + 1
  <2>1. i \in 1..Final /\ i - 1 = j /\ j \in 0..Final /\ i \in 0..Final /\ i \in 1..i /\ i \in j..Final
    BY OrderFacts
  <2>2. Schema[j][t] \subseteq Given[j][t]
    BY <1>2, <2>1
  <2> HIDE DEF i
  <2>3. Given[j][t] \subseteq Given[i][t]
    BY <2>1, GivenFacts
  <2>4. \A op \in Adds : ColumnsOf(Order[i], {op}, t) \subseteq Given[i][t]
    BY <2>1, GivenFacts
  <2>5. Schema[i][t] \subseteq Given[i][t]
    BY <2>1, <2>2, <2>3, <2>4, SchemaStep DEF Adds
  <2> QED
    BY <2>5 DEF i
<1> HIDE DEF T
<1>3. Nat \subseteq T
  BY <1>1, <1>2, Induction
<1> QED
  BY <1>3, OrderFacts DEF T

-----------------------------------------------------------------------------
(* The recorded migrations                                                  *)

(* What a process read is still recorded, and it is at the first file that  *)
(* is not in its list.                                                      *)
Reader(p) ==
    /\ proc[p].pc \notin Ended =>
          proc[p].applied \subseteq db.recorded /\ (Old \in db.recorded => Old \in proc[p].applied)
    /\ proc[p].pc \in {"repair", "run"} /\ Old \in proc[p].applied => Splits \subseteq proc[p].applied
    /\ proc[p].pc = "run" => /\ \A j \in 1..(proc[p].at - 1) : Order[j] \in db.recorded
                             /\ proc[p].at <= Final => Migration(p) \notin proc[p].applied

LEMMA ReaderKept ==
    ASSUME NEW q, Reader(q), proc'[q] = proc[q],
           db.recorded \subseteq db'.recorded, Old \in db'.recorded => Old \in db.recorded
    PROVE  Reader(q)'
BY DEF Reader, Migration

(* A process is at most at the first migration that is not recorded.        *)
LEMMA Place ==
    ASSUME DataOK, NEW p \in Procs, Reader(p), Pending(p), NEW n \in 0..Final, Applied = 1..n
    PROVE  /\ proc[p].at \in 1..Final /\ proc[p].at <= n + 1 /\ proc[p].at \in 1..Then(n)
           /\ Migration(p) = Order[proc[p].at] /\ Migration(p) \in Migrations
           /\ Migration(p) \notin db.recorded <=> proc[p].at = n + 1
<1> DEFINE i == proc[p].at
<1>1. i \in 1..Final /\ proc[p].pc = "run" /\ i <= Final
  BY TypeFacts, OrderFacts DEF Pending, Process, Final
<1>2. Migration(p) = Order[i] /\ Migration(p) \in Migrations
  BY <1>1, OrderFacts DEF Migration
<1> HIDE DEF i
<1>3. \A j \in 1..Final : j \in 1..n <=> (Order[j] \in db.recorded \/ (Old \in db.recorded /\ Order[j] \in Splits))
  BY DEF Applied, Final
<1>4. i <= n + 1
  <2> SUFFICES ASSUME ~(i <= n + 1) PROVE FALSE
    OBVIOUS
  <2>1. n + 1 \in 1..(i - 1) /\ n + 1 \in 1..Final /\ n + 1 \notin 1..n
    BY <1>1, OrderFacts
  <2>2. Order[n + 1] \in db.recorded
    BY <1>1, <2>1 DEF Reader, i
  <2> QED
    BY <1>3, <2>1, <2>2
<1>5. ASSUME i \in 1..n PROVE Migration(p) \in db.recorded
  <2>1. CASE Old \in db.recorded /\ Order[i] \in Splits
    <3>1. Old \in proc[p].applied /\ Splits \subseteq proc[p].applied
      BY <1>1, <2>1 DEF Reader, Ended
    <3>2. proc[p].applied \subseteq db.recorded
      BY <1>1 DEF Reader, Ended
    <3> QED
      BY <1>2, <2>1, <3>1, <3>2
  <2> QED
    BY <1>1, <1>2, <1>3, <1>5, <2>1
<1>6. i = n + 1 => Migration(p) \notin db.recorded
  BY <1>1, <1>2, <1>3
<1>7. Migration(p) \notin db.recorded => i = n + 1
  BY <1>1, <1>4, <1>5
<1>8. i \in 1..Then(n)
  BY <1>1, <1>4, ThenFacts, OrderFacts
<1> QED
  BY <1>1, <1>2, <1>4, <1>6, <1>7, <1>8 DEF i

LEMMA NextApplied ==
    ASSUME NEW n \in 0..Final, Applied = 1..n, n + 1 \in 1..Final,
           db'.recorded = db.recorded \cup {Order[n + 1]}
    PROVE  Applied' = 1..(n + 1)
<1>1. \A j \in 1..Final : j \in 1..n <=> (Order[j] \in db.recorded \/ (Old \in db.recorded /\ Order[j] \in Splits))
  BY DEF Applied, Final
<1>2. Old # Order[n + 1]
  BY OrderFacts, NamesType
<1>3. \A j \in 1..Final : j \in Applied' <=>
         (Order[j] \in db'.recorded \/ (Old \in db'.recorded /\ Order[j] \in Splits))
  BY DEF Applied, Final
<1>4. \A j \in 1..Final : j \in Applied' <=> j \in 1..n \/ j = n + 1
  BY <1>1, <1>2, <1>3, OrderFacts
<1>5. \A j \in Applied' : j \in 1..Final
  BY DEF Applied, Final
<1>6. \A j \in 1..(n + 1) : j \in 1..Final /\ (j \in 1..n \/ j = n + 1)
  BY OrderFacts
<1>7. \A j \in 1..Final : (j \in 1..n \/ j = n + 1) => j \in 1..(n + 1)
  BY OrderFacts
<1> QED
  BY <1>4, <1>5, <1>6, <1>7

LEMMA SameApplied ==
    ASSUME NEW X \in SUBSET Splits, X # {} => Old \in db.recorded, db'.recorded = db.recorded \cup X
    PROVE  Applied' = Applied
<1>1. Old \in db'.recorded <=> Old \in db.recorded
  BY NamesType
<1>2. \A i \in 1..Len(Order) :
         (Order[i] \in db'.recorded \/ (Old \in db'.recorded /\ Order[i] \in Splits))
            <=> (Order[i] \in db.recorded \/ (Old \in db.recorded /\ Order[i] \in Splits))
  BY <1>1
<1> QED
  BY <1>2 DEF Applied

(* p goes to the next file, its migration recorded.                         *)
LEMMA PassReader ==
    ASSUME DataOK, NEW p \in Procs, Reader(p), Passes(p),
           db'.recorded = db.recorded \cup {Migration(p)}
    PROVE  Reader(p)'
<1> DEFINE i == proc[p].at
           to == proc'[p].at
           applied == proc[p].applied
<1>1. /\ i \in 1..Final /\ i + 1 \in 1..(Final + 1) /\ proc[p].pc = "run" /\ Migration(p) = Order[i]
      /\ proc'[p].pc = "run" /\ proc'[p].applied = applied
      /\ to = FirstFrom(i + 1, applied) /\ to \in 1..(Final + 1) /\ Migration(p) \in Migrations
  <2>1. i \in 1..Final
    BY DEF Passes
  <2>2. i + 1 \in 1..(Final + 1)
    BY <2>1, OrderFacts
  <2> QED
    BY <2>1, <2>2 DEF Passes, Pending, Migration
<1>2. /\ applied \subseteq db.recorded /\ (Old \in db.recorded => Old \in applied)
      /\ (Old \in applied => Splits \subseteq applied)
      /\ \A j \in 1..(i - 1) : Order[j] \in db.recorded
  BY <1>1 DEF Reader, Ended
<1> HIDE DEF i, applied, to
<1>3. /\ to <= Final => Order[to] \notin applied
      /\ \A j \in (i + 1)..(to - 1) : Order[j] \in applied
  BY <1>1, FirstFromFacts
<1>4. ASSUME NEW j \in 1..(to - 1) PROVE Order[j] \in db'.recorded
  <2>1. j \in 1..(i - 1) \/ j = i \/ j \in (i + 1)..(to - 1)
    BY <1>1
  <2> QED
    BY <1>1, <1>2, <1>3, <2>1
<1>5. Old \in db'.recorded => Old \in applied
  BY <1>1, <1>2, NamesType
<1>6. Migration(p)' = Order[to]
  BY DEF Migration, to
<1> QED
  BY <1>1, <1>2, <1>3, <1>4, <1>5, <1>6 DEF Reader, Ended, to, applied

LEMMA Ending ==
    ASSUME DataOK, NEW p \in Procs, Placed(p), Raise(p) \/ Crash(p) \/ Finish(p)
    PROVE  Ends(p)
<1>1. Finish(p) => proc[p].at > Final /\ proc[p].at \in Nat /\ Final \in Nat
  BY TypeFacts, OrderFacts DEF Finish, Final, Process
<1>2. writer = p => proc[p].at <= Final
  BY DEF Placed, Applying, Pending, Final
<1>3. Finish(p) => writer # p
  BY <1>1, <1>2
<1> QED
  BY <1>3, EndFacts

LEMMA ReadersKept ==
    ASSUME RInv, NEW p \in Procs, NEW q \in Procs, Reader(p), Reader(q),
           pending.recorded = db.recorded, Start(p) \/ Step(p) \/ Crash(p)
    PROVE  Reader(q)'
<1>1. DataOK /\ Placed(p)
  BY DEF RInv, Sound
<1>2. (writer = p => Applying(p)) /\ proc[p].next # 0
  BY <1>1 DEF Placed
<1>n. Old \notin Splits /\ \A m \in Migrations : Old # m
  BY NamesType
<1>3. ASSUME db.recorded \subseteq db'.recorded, Old \in db'.recorded => Old \in db.recorded, Frame(p),
             Reader(p)'
      PROVE  Reader(q)'
  <2>1. CASE q = p
    BY <1>3, <2>1
  <2>2. CASE q # p
    BY <1>3, <2>2, ReaderKept DEF Frame
  <2> QED
    BY <2>1, <2>2
<1>4. CASE Start(p)
  <2>1. Starts(p)
    BY <1>1, <1>4, StartFacts
  <2>2. Reader(p)'
    BY <2>1 DEF Starts, SameData, Reader
  <2> QED
    BY <1>3, <2>1, <2>2 DEF Starts, SameData
<1>5. CASE RecordSplit(p)
  <2>1. RecordsSplit(p) /\ proc[p].pc = "split"
    BY <1>1, <1>5, RecordSplitFacts DEF RecordsSplit
  <2>2. proc[p].applied \subseteq db.recorded /\ (Old \in db.recorded => Old \in proc[p].applied)
    BY <2>1 DEF Reader, Ended
  <2>3. CASE SameData /\ proc'[p].applied = proc[p].applied /\ (Old \in proc[p].applied => Splits \subseteq proc[p].applied)
    <3>1. Reader(p)'
      BY <2>1, <2>2, <2>3 DEF RecordsSplit, Reader, SameData
    <3> QED
      BY <1>3, <2>1, <2>3, <3>1 DEF RecordsSplit, SameData
  <2>4. ASSUME NEW X \in SUBSET Splits, Marked(X), Splits \subseteq X \cup proc[p].applied,
               proc'[p].applied = db'.recorded
        PROVE  Reader(q)'
    <3>1. db'.recorded = db.recorded \cup X /\ Old \notin X
      BY <1>n, <2>4 DEF Marked
    <3>2. Reader(p)'
      BY <2>1, <2>2, <2>4, <3>1 DEF RecordsSplit, Reader
    <3> QED
      BY <1>3, <2>1, <3>1, <3>2 DEF RecordsSplit
  <2> QED
    BY <2>1, <2>3, <2>4 DEF RecordsSplit
<1>6. CASE Repair(p)
  <2>1. Repairs(p) /\ proc[p].pc = "repair"
    BY <1>1, <1>6, RepairFacts DEF Repairs
  <2>2. /\ proc[p].applied \subseteq db.recorded /\ (Old \in db.recorded => Old \in proc[p].applied)
        /\ (Old \in proc[p].applied => Splits \subseteq proc[p].applied)
    BY <2>1 DEF Reader, Ended
  <2>3. db'.recorded = db.recorded
    BY <2>1 DEF Repairs, SameData, RepairedData
  <2> DEFINE to == proc'[p].at
             applied == proc[p].applied
  <2>4. to = FirstFrom(1, applied) /\ to \in 1..(Final + 1) /\ 1 \in 1..(Final + 1)
    BY <2>1, OrderFacts DEF Repairs
  <2>5. proc'[p].pc = "run" /\ proc'[p].applied = applied /\ Migration(p)' = Order[to] /\ Frame(p)
    BY <2>1 DEF Repairs, Migration
  <2> HIDE DEF to
  <2>6. (to <= Final => Order[to] \notin applied) /\ \A j \in 1..(to - 1) : Order[j] \in applied
    BY <2>4, FirstFromFacts
  <2>7. Reader(p)'
    BY <2>2, <2>3, <2>5, <2>6 DEF Reader, to
  <2> QED
    BY <1>3, <2>3, <2>5, <2>7
<1>7. CASE RecordUnavailable(p)
  <2>1. writer # p
    BY <1>2, <1>7 DEF RecordUnavailable, Applying
  <2>2. Passes(p) /\ Marked({Migration(p)})
    BY <1>1, <1>7, <2>1, RecordUnavailableFacts
  <2>3. db'.recorded = db.recorded \cup {Migration(p)} /\ Old # Migration(p) /\ Frame(p)
    BY <1>n, <2>2 DEF Passes, Marked
  <2> QED
    BY <1>1, <1>3, <2>2, <2>3, PassReader
<1>8. CASE Record(p)
  <2>1. Passes(p) /\ Records(p)
    BY <1>1, <1>8, RecordFacts
  <2>2. View(p).recorded = db.recorded
    BY <1>8 DEF View
  <2>3. db'.recorded = db.recorded \cup {Migration(p)} /\ Old # Migration(p) /\ Frame(p)
    BY <1>n, <2>1, <2>2 DEF Passes, Records
  <2> QED
    BY <1>1, <1>3, <2>1, <2>3, PassReader
<1>9. ASSUME Frame(p), proc'[p].pc = proc[p].pc, proc'[p].applied = proc[p].applied, proc'[p].at = proc[p].at,
             db'.recorded = db.recorded
      PROVE  Reader(q)'
  <2>1. Reader(p)'
    BY <1>9 DEF Reader, Migration
  <2> QED
    BY <1>3, <1>9, <2>1
<1>10. CASE Edit(p)
  <2>1. Edits(p, Statement(p), View(p), pending', proc'[p].tx)
    BY <1>1, <1>2, <1>10, EditFacts
  <2>2. /\ pending'.recorded = View(p).recorded /\ (db' = db \/ db' = pending') /\ Frame(p)
        /\ proc'[p].pc = proc[p].pc /\ proc'[p].applied = proc[p].applied /\ proc'[p].at = proc[p].at
    BY <2>1 DEF Edits
  <2>3. db'.recorded = db.recorded
    BY <2>2 DEF View
  <2> QED
    BY <1>9, <2>2, <2>3
<1>11. CASE BeginTransaction(p) \/ ForeignKeys(p)
  <2>1. Pragmas(p)
    BY <1>1, <1>11, PragmaFacts
  <2> QED
    BY <1>9, <2>1 DEF Pragmas, Advances, SameData
<1>12. CASE CommitTransaction(p)
  <2>1. Commits(p)
    BY <1>1, <1>12, CommitFacts
  <2> QED
    BY <1>9, <2>1 DEF Commits, Advances
<1>13. CASE Raise(p) \/ Crash(p) \/ Finish(p)
  <2>1. Ends(p)
    BY <1>1, <1>13, Ending
  <2>2. Reader(p)'
    BY <2>1 DEF Ends, Reader, Ended
  <2> QED
    BY <1>3, <2>1, <2>2 DEF Ends
<1> QED
  BY <1>4, <1>5, <1>6, <1>7, <1>8, <1>10, <1>11, <1>12, <1>13 DEF Step, Edit

-----------------------------------------------------------------------------
(* The columns of a table                                                   *)

More(x, y) == x # NoTable => y # NoTable /\ x.cols \subseteq y.cols

(* At least those of the schema, or of the next; a table that is to come    *)
(* has already all columns of its CREATE TABLE.                             *)
Floor(n, t, tab) ==
    /\ Schema[n][t] # {} =>
          tab # NoTable /\ (Schema[n][t] \subseteq tab.cols \/ Schema[Then(n)][t] \subseteq tab.cols)
    /\ Schema[n][t] = {} /\ tab # NoTable =>
          Schema[Then(n)][t] # {} /\ ColumnsOf(Order[Then(n)], {"create"}, t) \subseteq tab.cols

(* At most those that were ever given.                                      *)
Ceiling(n, t, tab) == tab # NoTable => tab.cols \subseteq Given[Then(n)][t]
Ceilings(n, t, d)  == Ceiling(n, t, d.tables[t]) /\ Ceiling(n, t, d.news[t])

LEMMA MoreFloor ==
    ASSUME NEW n, NEW t, NEW x, NEW y, More(x, y), Floor(n, t, x), x # NoTable \/ y = NoTable
    PROVE  Floor(n, t, y)
BY DEF More, Floor

(* The statements a process has executed still show: what the script has    *)
(* created is there, with the columns it has added.                         *)
Done(p, op, t) == Executed(p) \cap Does(Migration(p), op, t)

Has(p, t, tab) ==
    LET m == Migration(p)
    IN  /\ Done(p, "create", t) # {} => tab # NoTable
        /\ \A k \in Done(p, "column", t) :
              m \notin db.recorded => tab # NoTable /\ Script[m][k].cols \subseteq tab.cols
        /\ Done(p, "rename", t) # {} => tab # NoTable /\ ColumnsOf(m, {"createNew"}, t) \subseteq tab.cols

Obliged(p) == Applying(p) => \A t \in Tables : Has(p, t, View(p).tables[t])

LEMMA HasMore ==
    ASSUME NEW p, NEW t, NEW x, NEW y, Has(p, t, x), More(x, y), db.recorded \subseteq db'.recorded,
           proc'[p] = proc[p]
    PROVE  Has(p, t, y)'
<1>1. Migration(p)' = Migration(p) /\ \A op : Done(p, op, t)' = Done(p, op, t)
  BY SameStatement DEF Done
<1> QED
  BY <1>1 DEF Has, More

(* An edit from where it is looked at.                                      *)
Editing(p, s, v, w, tx) == RInv /\ s = Statement(p) /\ v = View(p) /\ Edits(p, s, v, w, tx)

LEMMA EditingFacts ==
    ASSUME NEW p \in Procs, NEW s, NEW v, NEW w, NEW tx, Editing(p, s, v, w, tx)
    PROVE  LET m == Migration(p) k == proc[p].next t == s.table
           IN  /\ DataOK /\ Sound(p) /\ Pending(p) /\ Applying(p) /\ m \in Migrations /\ m \notin Unavailable
               /\ k \in DOMAIN Script[m] /\ s = Script[m][k] /\ t \in Tables /\ s.op \in EditOps
               /\ k \in Does(m, s.op, t) /\ k \in Nat \ {0} /\ Executed(p) = 1..(k - 1)
               /\ Effect(p, s, v, w) /\ Elsewhere(t, v, w)
               /\ v \in Database /\ w \in Database
<1> DEFINE m == Migration(p)
           k == proc[p].next
<1>1. DataOK /\ Sound(p) /\ AtStatement(p) /\ k # 0
  BY DEF Editing, RInv, Edits, Sound, Placed
<1>2. /\ s.op \in EditOps /\ s.table \in Tables /\ Effect(p, s, v, w) /\ Elsewhere(s.table, v, w)
      /\ v \in Database /\ w \in Database /\ s = Statement(p)
  BY DEF Editing, Edits
<1>3. m \in Migrations /\ Applying(p) /\ k \in DOMAIN Script[m] /\ s = Script[m][k]
  BY <1>1, <1>2, StatementOfFacts
<1>4. k \in Does(m, s.op, s.table)
  BY <1>3 DEF Does
<1>5. k \in Nat \ {0}
  BY <1>3, ScriptFacts
<1> QED
  BY <1>1, <1>2, <1>3, <1>4, <1>5 DEF Applying, Executed

LEMMA EditGrows ==
    ASSUME NEW p \in Procs, NEW s, NEW v, NEW w, NEW tx, Editing(p, s, v, w, tx)
    PROVE  /\ s.op \in {"drop", "rename"} => writer = p /\ Rebuilds(Migration(p), s.table)
           /\ \A u \in Tables : s.op \notin {"drop", "rename"} \/ u # s.table \/ ~Rebuilds(Migration(p), u)
                 => More(v.tables[u], w.tables[u])
<1> DEFINE m == Migration(p)
           k == proc[p].next
           t == s.table
<1>1. /\ Sound(p) /\ m \in Migrations /\ k \in Does(m, s.op, t) /\ t \in Tables /\ s.op \in EditOps
      /\ Effect(p, s, v, w) /\ Elsewhere(t, v, w)
  BY EditingFacts
<1>2. s.op \in {"drop", "rename"} => writer = p
  BY <1>1 DEF Editing, Edits, Sound, Rebuilding, At
<1>3. s.op \in {"drop", "rename"} => Rebuilds(m, t)
  <2> HIDE DEF m, k, t
  <2>1. s.op = "drop" => k + 1 \in Does(m, "rename", t)
    BY <1>1, RebuildShape
  <2>2. \A j \in Does(m, "rename", t) : Rebuilds(m, t)
    BY <1>1, RebuildShape
  <2> QED
    BY <1>1, <2>1, <2>2
<1> HIDE DEF m, k
<1>4. ASSUME s.op \notin {"drop", "rename"} PROVE More(v.tables[t], w.tables[t])
  BY <1>1, <1>4 DEF Effect, More, EditOps
<1>5. ASSUME NEW u \in Tables, s.op \notin {"drop", "rename"} \/ u # t \/ ~Rebuilds(m, u)
      PROVE  More(v.tables[u], w.tables[u])
  <2>1. CASE u = t
    BY <1>3, <1>4, <1>5, <2>1
  <2>2. CASE u # t
    BY <1>1, <2>2 DEF Elsewhere, More
  <2> QED
    BY <2>1, <2>2
<1> QED
  BY <1>2, <1>3, <1>5 DEF m

LEMMA EditFloor ==
    ASSUME NEW p \in Procs, NEW s, NEW v, NEW w, NEW tx, Editing(p, s, v, w, tx), Reader(p),
           NEW n \in 0..Final, Applied = 1..n, NEW u \in Tables,
           s.op \notin {"drop", "rename"} \/ ~Rebuilds(Migration(p), u), Floor(n, u, v.tables[u])
    PROVE  Floor(n, u, w.tables[u])
<1> DEFINE m == Migration(p)
           k == proc[p].next
           t == s.table
           i == proc[p].at
<1>1. /\ m \in Migrations /\ k \in Does(m, s.op, t) /\ t \in Tables /\ s.op \in EditOps
      /\ Effect(p, s, v, w) /\ Elsewhere(t, v, w) /\ m \notin Unavailable /\ s = Script[m][k]
      /\ DataOK /\ Pending(p)
  BY EditingFacts
<1>2. More(v.tables[u], w.tables[u])
  BY EditGrows
<1>3. i \in 1..Final /\ i <= n + 1 /\ m = Order[i]
  BY <1>1, Place
<1> HIDE DEF m, k, i
<1>4. CASE v.tables[u] # NoTable \/ w.tables[u] = NoTable
  BY <1>2, <1>4, MoreFloor
<1>5. CASE v.tables[u] = NoTable /\ w.tables[u] # NoTable
  <2>1. u = t
    BY <1>1, <1>5 DEF Elsewhere
  <2>2. s.op = "create" \/ s.op = "rename"
    BY <1>1, <1>5, <2>1 DEF Effect, EditOps
  <2>3. s.op = "create"
    BY <2>1, <2>2, EditGrows DEF m
  <2>4. w.tables[t].cols = s.cols
    BY <1>1, <1>5, <2>1, <2>3 DEF Effect
  <2>5. ColumnsOf(m, {"create"}, t) = s.cols /\ s.cols # {}
    <3> HIDE DEF t
    <3> DEFINE op == s.op
    <3>1. m \in Migrations /\ t \in Tables /\ op \in EditOps /\ k \in Does(m, op, t)
      BY <1>1
    <3>2. op = "create"
      BY <2>3
    <3> HIDE DEF op
    <3>3. /\ op = "create" => ColumnsOf(m, {op}, t) = Script[m][k].cols
          /\ op \in {"create", "createNew"} => Script[m][k].cols # {}
      BY <3>1, DoneColumns
    <3> QED
      BY <1>1, <3>2, <3>3
  <2>6. ~Rebuilds(m, t)
    BY <1>1, <2>3, RebuildShape
  <2>7. Schema[n][t] = {}
    BY <1>5, <2>1 DEF Floor
  <2>8. Schema[i][t] # {}
    <3> HIDE DEF t
    <3>1. Schema[i][t] = (IF Schema[i - 1][t] = {} THEN ColumnsOf(m, {"create"}, t) ELSE Schema[i - 1][t])
                            \cup ColumnsOf(m, {"column"}, t)
      BY <1>1, <1>3, <2>6, SchemaStep
    <3> QED
      BY <2>5, <3>1
  <2>9. i = n + 1
    <3>1. i \in 0..Final /\ (i # n + 1 => n \in i..Final)
      BY <1>3, OrderFacts
    <3> QED
      BY <1>1, <2>7, <2>8, <3>1, SchemaStays
  <2>10. Then(n) = i
    BY <1>3, <2>9, OrderFacts DEF Then
  <2> QED
    BY <1>3, <1>5, <2>1, <2>4, <2>5, <2>7, <2>8, <2>10 DEF Floor
<1> QED
  BY <1>4, <1>5

LEMMA EditCeiling ==
    ASSUME NEW p \in Procs, NEW s, NEW v, NEW w, NEW tx, Editing(p, s, v, w, tx), Reader(p),
           NEW n \in 0..Final, Applied = 1..n, NEW u \in Tables, Ceilings(n, u, v)
    PROVE  Ceilings(n, u, w)
<1> DEFINE m == Migration(p)
           k == proc[p].next
           t == s.table
           i == proc[p].at
           G == Given[Then(n)][u]
<1>1. /\ t \in Tables /\ s.op \in EditOps /\ Effect(p, s, v, w) /\ Elsewhere(t, v, w) /\ s = Script[m][k]
      /\ k \in DOMAIN Script[m] /\ DataOK /\ Pending(p)
  BY EditingFacts
<1>2. i \in 1..Then(n) /\ m = Order[i] /\ Then(n) \in 0..Final
  BY <1>1, Place, ThenFacts
<1>3. CASE u # t
  BY <1>1, <1>3 DEF Elsewhere, Ceilings, Ceiling
<1>4. CASE u = t
  <2>1. s.op \in {"create", "column", "createNew"} => s.cols \subseteq G
    <3> HIDE DEF i, k, m
    <3> SUFFICES ASSUME s.op \in {"create", "column", "createNew"} PROVE s.cols \subseteq G
      OBVIOUS
    <3>1. Script[Order[i]][k].op \in Adds /\ Script[Order[i]][k].table = u /\ k \in DOMAIN Script[Order[i]]
      BY <1>1, <1>2, <1>4 DEF Adds
    <3> QED
      BY <1>1, <1>2, <3>1, GivenStatement
  <2>2. /\ v.tables[u] # NoTable => v.tables[u].cols \subseteq G
        /\ v.news[u] # NoTable => v.news[u].cols \subseteq G
    BY DEF Ceilings, Ceiling
  <2> HIDE DEF G, m, k, i
  <2>3. (w.tables[u] # NoTable => w.tables[u].cols \subseteq G) /\ (w.news[u] # NoTable => w.news[u].cols \subseteq G)
    BY <1>1, <1>4, <2>1, <2>2 DEF Effect, EditOps
  <2> QED
    BY <2>3 DEF Ceilings, Ceiling, G
<1> QED
  BY <1>3, <1>4

LEMMA OneDrop ==
    ASSUME NEW m \in Migrations, NEW t \in Tables, NEW j \in Does(m, "drop", t), NEW k \in Does(m, "drop", t)
    PROVE  j = k
BY RebuildShape

LEMMA EditHas ==
    ASSUME NEW p \in Procs, NEW s, NEW v, NEW w, NEW tx, Editing(p, s, v, w, tx),
           db.recorded \subseteq db'.recorded, NEW u \in Tables, Has(p, u, v.tables[u])
    PROVE  Has(p, u, w.tables[u])'
<1> DEFINE m == Migration(p)
           k == proc[p].next
           t == s.table
           x == v.tables[u]
           y == w.tables[u]
<1>1. /\ DataOK /\ Sound(p) /\ m \in Migrations /\ t \in Tables /\ s.op \in EditOps /\ s = Script[m][k]
      /\ k \in Nat \ {0} /\ Executed(p) = 1..(k - 1) /\ Effect(p, s, v, w)
      /\ k \in Does(m, s.op, t) /\ v = View(p) /\ s = Statement(p)
  BY EditingFacts DEF Editing
<1>2. Migration(p)' = m /\ Executed(p)' = Executed(p) \cup {k}
  BY <1>1, AdvancesFacts DEF Editing, Edits, Frame
<1>3. ASSUME NEW op, NEW j \in Done(p, op, u)'
      PROVE  j \in Does(m, op, u) /\ (j \in Done(p, op, u) \/ (j = k /\ s.op = op /\ t = u))
  BY <1>1, <1>2, <1>3 DEF Done, Does
<1>4. /\ Done(p, "create", u) # {} => x # NoTable
      /\ \A j \in Done(p, "column", u) : m \notin db.recorded => x # NoTable /\ Script[m][j].cols \subseteq x.cols
      /\ Done(p, "rename", u) # {} => x # NoTable /\ ColumnsOf(m, {"createNew"}, u) \subseteq x.cols
  BY DEF Has
<1>5. s.op \notin {"drop", "rename"} \/ u # t => More(x, y)
  BY EditGrows
<1>6. s.op \in {"drop", "rename"} => writer = p /\ Rebuilds(m, t)
  BY EditGrows
<1> HIDE DEF m, k
<1>7. Rebuilds(m, t) => Does(m, "create", t) = {} /\ Does(m, "column", t) = {}
  BY <1>1, RebuildShape
<1>8. ASSUME NEW j \in Done(p, "create", u)' PROVE y # NoTable
  <2>1. CASE j = k /\ s.op = "create" /\ t = u
    BY <1>1, <2>1 DEF Effect
  <2>2. CASE j \in Done(p, "create", u)
    <3>1. s.op \in {"drop", "rename"} => u # t
      BY <1>3, <1>6, <1>7, <1>8
    <3> QED
      BY <1>4, <1>5, <2>2, <3>1 DEF More
  <2> QED
    BY <1>3, <1>8, <2>1, <2>2
<1>9. ASSUME NEW j \in Done(p, "column", u)', m \notin db'.recorded
      PROVE  y # NoTable /\ Script[m][j].cols \subseteq y.cols
  <2>1. CASE j = k /\ s.op = "column" /\ t = u
    BY <1>1, <2>1 DEF Effect
  <2>2. CASE j \in Done(p, "column", u)
    <3>1. s.op \in {"drop", "rename"} => u # t
      BY <1>3, <1>6, <1>7, <1>9
    <3>2. x # NoTable /\ Script[m][j].cols \subseteq x.cols
      BY <1>4, <1>9, <2>2
    <3> QED
      BY <1>5, <3>1, <3>2 DEF More
  <2> QED
    BY <1>3, <1>9, <2>1, <2>2
<1>10. ASSUME NEW j \in Done(p, "rename", u)'
       PROVE  y # NoTable /\ ColumnsOf(m, {"createNew"}, u) \subseteq y.cols
  <2>1. j \in Does(m, "rename", u) /\ j - 1 \in Does(m, "drop", u)
    BY <1>1, <1>3, <1>10, RebuildShape
  <2>2. CASE j = k /\ s.op = "rename" /\ t = u
    <3>1. w.tables[t] = v.news[t] /\ v.news[t] # NoTable
      BY <1>1, <2>2 DEF Effect
    <3>2. Rebuilding(p) /\ At(p, "rename") /\ v = pending
      BY <1>1, <1>6, <2>2 DEF Editing, Edits, Sound, At, View
    <3>3. Named(p) \subseteq pending.news[t].cols
      BY <1>1, <3>2 DEF Rebuilding
    <3>4. Named(p) = ColumnsOf(m, {"createNew"}, t)
      BY <1>1 DEF Named, m
    <3> QED
      BY <2>2, <3>1, <3>2, <3>3, <3>4
  <2>3. CASE j \in Done(p, "rename", u)
    <3>1. j \in 1..(k - 1)
      BY <1>1, <2>3 DEF Done
    <3>2. s.op = "drop" => u # t
      <4> SUFFICES ASSUME s.op = "drop", u = t PROVE FALSE
        OBVIOUS
      <4>1. k \in Does(m, "drop", u)
        BY <1>1
      <4>2. j - 1 = k
        BY <1>1, <2>1, <4>1, OneDrop
      <4> QED
        BY <1>1, <3>1, <4>2
    <3>3. s.op = "rename" => u # t
      <4> SUFFICES ASSUME s.op = "rename", u = t PROVE FALSE
        OBVIOUS
      <4>1. k \in Does(m, "rename", u)
        BY <1>1
      <4>2. k - 1 \in Does(m, "drop", u)
        BY <1>1, <4>1, RebuildShape
      <4>3. j - 1 = k - 1
        BY <1>1, <2>1, <4>2, OneDrop
      <4> QED
        BY <1>1, <3>1, <4>3
    <3>4. More(x, y)
      BY <1>5, <3>2, <3>3
    <3>5. x # NoTable /\ ColumnsOf(m, {"createNew"}, u) \subseteq x.cols
      BY <1>4, <2>3
    <3> QED
      BY <3>4, <3>5 DEF More
  <2> QED
    BY <1>3, <1>10, <2>2, <2>3
<1> HIDE DEF y
<1>11. Has(p, u, y)' <=>
         /\ Done(p, "create", u)' # {} => y # NoTable
         /\ \A j \in Done(p, "column", u)' : m \notin db'.recorded => y # NoTable /\ Script[m][j].cols \subseteq y.cols
         /\ Done(p, "rename", u)' # {} => y # NoTable /\ ColumnsOf(m, {"createNew"}, u) \subseteq y.cols
  BY <1>2 DEF Has
<1> QED
  BY <1>8, <1>9, <1>10, <1>11 DEF y

-----------------------------------------------------------------------------
(* The schema is known                                                      *)

Ahead(n, t, p) ==
    writer = p /\ ~Rebuilds(Migration(p), t) =>
        Floor(n, t, pending.tables[t]) /\ More(db.tables[t], pending.tables[t])

Fits(n, t) ==
    /\ Floor(n, t, db.tables[t])
    /\ Ceilings(n, t, db) /\ Ceilings(n, t, pending)
    /\ \A p \in Procs : Ahead(n, t, p)

Stage(n) == Applied = 1..n /\ \A t \in Tables : Fits(n, t)

Known ==
    /\ pending.recorded = db.recorded
    /\ \A p \in Procs : Reader(p) /\ Obliged(p)
    /\ \E n \in 0..Final : Stage(n)

LEMMA ObligedKept ==
    ASSUME NEW q \in Procs, Obliged(q), proc'[q] = proc[q], db.recorded \subseteq db'.recorded,
           \A t \in Tables : More(View(q).tables[t], View(q)'.tables[t])
    PROVE  Obliged(q)'
<1>1. Applying(q)' = Applying(q)
  BY SameStatement
<1>2. Migration(q)' = Migration(q) /\ \A op, t : Done(q, op, t)' = Done(q, op, t)
  BY SameStatement DEF Done
<1>3. ASSUME Applying(q), NEW t \in Tables PROVE Has(q, t, View(q).tables[t])'
  <2>1. Has(q, t, View(q).tables[t]) /\ More(View(q).tables[t], View(q)'.tables[t])
    BY <1>3 DEF Obliged
  <2> QED
    BY <1>2, <2>1 DEF Has, More
<1> QED
  BY <1>1, <1>3 DEF Obliged

LEMMA EditStage ==
    ASSUME NEW p \in Procs, NEW s, NEW v, NEW w, NEW tx, Editing(p, s, v, w, tx), Reader(p),
           NEW n \in 0..Final, Stage(n), db'.recorded = db.recorded
    PROVE  Stage(n)'
<1> DEFINE m == Migration(p)
<1>1. /\ DataOK /\ writer \in {p, Nobody} /\ pending' = w /\ v = View(p)
      /\ IF tx THEN writer' = p /\ db' = db ELSE writer' = writer /\ db' = w
      /\ (tx <=> proc[p].tx \/ s.op = "copy") /\ Migration(p)' = m
  BY EditingFacts DEF Editing, Edits, Migration
<1>2. writer = p => tx
  BY <1>1 DEF DataOK
<1>3. Applied' = Applied
  BY DEF Applied
<1>4. writer # Nobody => v = pending
  BY <1>1 DEF View
<1>5. ~tx => v = db /\ writer' = Nobody
  BY <1>1, <1>2, ProcsType DEF View
<1>6. s.op \in {"drop", "rename"} => writer = p
  BY EditGrows
<1> HIDE DEF m
<1>7. ASSUME NEW u \in Tables PROVE Fits(n, u)'
  <2>1. Floor(n, u, db.tables[u]) /\ Ceilings(n, u, db) /\ Ceilings(n, u, pending) /\ Ahead(n, u, p)
    BY DEF Stage, Fits
  <2>2. Ceilings(n, u, v)
    BY <1>1, <2>1 DEF View
  <2>3. Ceilings(n, u, w)
    BY <2>2, EditCeiling DEF Stage
  <2>4. CASE ~tx
    <3>1. Floor(n, u, w.tables[u])
      BY <1>1, <1>2, <1>5, <1>6, <2>1, <2>4, EditFloor DEF Stage
    <3>2. db' = w /\ pending' = w /\ \A q \in Procs : writer' # q
      BY <1>1, <1>5, <2>4, ProcsType
    <3>3. \A q \in Procs : Ahead(n, u, q)'
      BY <3>2 DEF Ahead
    <3> QED
      BY <2>3, <3>1, <3>2, <3>3 DEF Fits
  <2>5. CASE tx
    <3>1. db' = db /\ pending' = w /\ writer' = p
      BY <1>1, <2>5
    <3>2. ASSUME ~Rebuilds(m, u) PROVE Floor(n, u, w.tables[u]) /\ More(db.tables[u], w.tables[u])
      <4>1. Floor(n, u, v.tables[u]) /\ More(db.tables[u], v.tables[u])
        <5>1. CASE writer = p
          BY <1>1, <2>1, <3>2, <5>1 DEF Ahead, View, m
        <5>2. CASE writer # p
          BY <1>1, <2>1, <5>2 DEF View, More
        <5> QED
          BY <5>1, <5>2
      <4>2. Floor(n, u, w.tables[u])
        BY <3>2, <4>1, EditFloor DEF Stage, m
      <4>3. More(v.tables[u], w.tables[u])
        BY <3>2, EditGrows DEF m
      <4> QED
        BY <4>1, <4>2, <4>3 DEF More
    <3>3. ASSUME NEW q \in Procs PROVE Ahead(n, u, q)'
      <4>1. q # p => writer' # q
        BY <3>1
      <4>2. Ahead(n, u, p)'
        BY <1>1, <3>1, <3>2 DEF Ahead
      <4> QED
        BY <4>1, <4>2 DEF Ahead
    <3> QED
      BY <2>1, <2>3, <3>1, <3>3 DEF Fits
  <2> QED
    BY <2>4, <2>5
<1> QED
  BY <1>3, <1>7 DEF Stage

Onward ==
    /\ pending'.recorded = db'.recorded
    /\ \A q \in Procs : Obliged(q)'
    /\ \E n \in 0..Final : Stage(n)'

LEMMA EditKnown == ASSUME RInv, Known, NEW p \in Procs, Edit(p) PROVE Onward
<1> DEFINE s == Statement(p)
           v == View(p)
           tx == proc'[p].tx
<1>0. PICK w : w = pending'
  OBVIOUS
<1>1. DataOK /\ proc[p].next # 0
  BY DEF RInv, Sound, Placed
<1>2. Edits(p, s, v, w, tx)
  BY <1>0, <1>1, EditFacts
<1>3. Editing(p, s, v, w, tx)
  BY <1>2 DEF Editing
<1>4. /\ writer \in {p, Nobody} /\ Frame(p) /\ w.recorded = v.recorded
      /\ IF tx THEN writer' = p /\ db' = db ELSE writer' = writer /\ db' = w
      /\ proc'[p].pc = proc[p].pc /\ proc'[p].at = proc[p].at /\ (proc[p].tx => tx)
  BY <1>2 DEF Edits
<1>5. w.recorded = db.recorded /\ db'.recorded = db.recorded
  BY <1>4 DEF Known, View
<1>6. writer = p => tx
  BY <1>1, <1>4 DEF DataOK
<1>7. ~tx => v = db /\ writer' = Nobody /\ writer = Nobody
  BY <1>4, <1>6 DEF View
<1>8. s.op \in {"drop", "rename"} => writer = p
  BY <1>3, EditGrows
<1>9. \A u \in Tables : More(db.tables[u], db'.tables[u])
  <2>1. CASE tx
    BY <1>4, <2>1 DEF More
  <2>2. CASE ~tx
    <3>1. v = db /\ db' = w /\ s.op \notin {"drop", "rename"}
      BY <1>4, <1>6, <1>7, <1>8, <2>2
    <3> HIDE DEF s, v, tx
    <3>2. \A u \in Tables : More(v.tables[u], w.tables[u])
      BY <1>3, <3>1, EditGrows
    <3> QED
      BY <3>1, <3>2
  <2> QED
    BY <2>1, <2>2
<1>10. ASSUME NEW q \in Procs, q # p PROVE Obliged(q)'
  <2>1. View(q) = db /\ View(q)' = db'
    BY <1>4, <1>7, <1>10, ProcsType DEF View
  <2>2. proc'[q] = proc[q] /\ Obliged(q)
    BY <1>4, <1>10 DEF Frame, Known
  <2> QED
    BY <1>5, <1>9, <2>1, <2>2, ObligedKept
<1>11. Obliged(p)'
  <2>1. Applying(p) /\ Migration(p)' = Migration(p)
    BY <1>3, <1>4, EditingFacts DEF Migration
  <2>2. View(p)' = w
    BY <1>0, <1>4, <1>7, ProcsType DEF View
  <2>3. ASSUME NEW u \in Tables PROVE Has(p, u, w.tables[u])'
    <3>1. Has(p, u, v.tables[u])
      BY <2>1 DEF Known, Obliged
    <3> HIDE DEF s, v, tx
    <3> QED
      BY <1>3, <1>5, <3>1, EditHas
  <2> QED
    BY <2>2, <2>3 DEF Obliged, Has
<1>12. ASSUME NEW n \in 0..Final, Stage(n) PROVE Stage(n)'
  <2>1. Reader(p)
    BY DEF Known
  <2> HIDE DEF s, v, tx
  <2> QED
    BY <1>3, <1>5, <1>12, <2>1, EditStage
<1> QED
  BY <1>0, <1>5, <1>10, <1>11, <1>12 DEF Known, Onward

(* The tables that a script rebuilds have their new columns.                *)
Rebuilt(p, d) ==
    \A t \in Tables : Rebuilds(Migration(p), t) =>
        d.tables[t] # NoTable /\ ColumnsOf(Migration(p), {"createNew"}, t) \subseteq d.tables[t].cols

LEMMA RebuiltFacts ==
    ASSUME NEW p \in Procs, Obliged(p), Applying(p), Migration(p) \in Migrations,
           \A t \in Tables : Rebuilds(Migration(p), t) => Does(Migration(p), "rename", t) \subseteq Executed(p)
    PROVE  Rebuilt(p, View(p))
<1> SUFFICES ASSUME NEW t \in Tables, Rebuilds(Migration(p), t)
             PROVE  /\ View(p).tables[t] # NoTable
                    /\ ColumnsOf(Migration(p), {"createNew"}, t) \subseteq View(p).tables[t].cols
  BY DEF Rebuilt
<1>1. Does(Migration(p), "rename", t) # {}
  BY RebuildShape
<1>2. Done(p, "rename", t) # {}
  BY <1>1 DEF Done
<1> QED
  BY <1>2 DEF Obliged, Has

(* What another has executed still shows when p commits.                    *)
LEMMA OthersObliged ==
    ASSUME RInv, Known, NEW p \in Procs, NEW q \in Procs, q # p, writer = p, writer' = Nobody, proc'[q] = proc[q],
           db'.tables = pending.tables, db.recorded \subseteq db'.recorded, Rebuilt(p, pending),
           \/ Migration(p) \notin db.recorded /\ Migration(p) \in db'.recorded
           \/ \E c \in DOMAIN Script[Migration(p)] : Script[Migration(p)][c].op = "commit"
    PROVE  Obliged(q)'
<1> DEFINE m == Migration(p)
           l == Migration(q)
           i == proc[p].at
           j == proc[q].at
<1>1. DataOK /\ Sound(p) /\ Sound(q) /\ Reader(p) /\ Reader(q) /\ Obliged(q)
  BY DEF RInv, Known
<1>2. Pending(p)
  BY <1>1 DEF Sound, Placed, Applying
<1>3. PICK n \in 0..Final : Stage(n)
  BY DEF Known
<1>4. /\ i \in 1..Final /\ i <= n + 1 /\ m = Order[i] /\ m \in Migrations /\ (m \notin db.recorded => i = n + 1)
  BY <1>1, <1>2, <1>3, Place DEF Stage
<1>5. View(q) = db /\ View(q)' = db' /\ Nobody # q
  BY ProcsType DEF View
<1>6. Applying(q)' = Applying(q) /\ l' = l /\ \A op, t : Done(q, op, t)' = Done(q, op, t)
  BY SameStatement DEF Done
<1> SUFFICES ASSUME Applying(q), NEW t \in Tables PROVE Has(q, t, View(q).tables[t])'
  BY <1>6 DEF Obliged
<1>7. /\ j \in 1..Final /\ j <= n + 1 /\ l = Order[j] /\ l \in Migrations /\ (l \notin db.recorded => j = n + 1)
  BY <1>1, <1>3, Place DEF Stage, Applying
<1>8. Has(q, t, db.tables[t])
  BY <1>1, <1>5 DEF Obliged
<1> DEFINE y == pending.tables[t]
<1>9. Has(q, t, View(q).tables[t])' <=>
        /\ Done(q, "create", t) # {} => y # NoTable
        /\ \A k \in Done(q, "column", t) : l \notin db'.recorded => y # NoTable /\ Script[l][k].cols \subseteq y.cols
        /\ Done(q, "rename", t) # {} => y # NoTable /\ ColumnsOf(l, {"createNew"}, t) \subseteq y.cols
  BY <1>5, <1>6 DEF Has
<1>10. Migration(p) \in db'.recorded \/ \E c \in DOMAIN Script[m] : Script[m][c].op = "commit"
  OBVIOUS
<1> HIDE DEF m, l, i, j, y
<1>11. CASE ~Rebuilds(m, t)
  <2>1. More(db.tables[t], y)
    BY <1>3, <1>11 DEF Stage, Fits, Ahead, y, m
  <2> QED
    BY <1>8, <1>9, <2>1 DEF Has, More, l
<1>12. CASE Rebuilds(m, t)
  <2>1. y # NoTable /\ ColumnsOf(m, {"createNew"}, t) \subseteq y.cols
    BY <1>12 DEF Rebuilt, y, m
  <2>2. \A c \in DOMAIN Script[m] : Script[m][c].op = "commit" /\ i < j =>
           Does(l, "column", t) = {} /\ Does(l, "createNew", t) = {}
    <3> SUFFICES ASSUME NEW c \in DOMAIN Script[m], Script[m][c].op = "commit", i < j
                 PROVE  Does(l, "column", t) = {} /\ Does(l, "createNew", t) = {}
      OBVIOUS
    <3>1. \A op \in {"create", "column", "createNew"} : j > i => Does(Order[j], op, t) = {}
      BY <1>4, <1>7, <1>12, OrderFacts, CommitShape
    <3> QED
      BY <1>4, <1>7, <3>1
  <2>3. ASSUME NEW k \in Done(q, "column", t), l \notin db'.recorded PROVE FALSE
    <3>1. k \in Does(l, "column", t) /\ j = n + 1
      BY <1>7, <2>3 DEF Done, l
    <3>2. l # m
      BY <1>12, <1>4, <3>1, RebuildShape
    <3>3. i < j
      BY <1>4, <1>7, <3>1, <3>2
    <3>4. ~(\E c \in DOMAIN Script[m] : Script[m][c].op = "commit")
      BY <2>2, <3>1, <3>3
    <3>5. m \notin db.recorded
      BY <3>4 DEF m
    <3> QED
      BY <1>4, <3>1, <3>3, <3>5
  <2>4. ASSUME NEW k \in Done(q, "rename", t) PROVE l = m
    <3>1. k \in Does(l, "rename", t) /\ k \in Executed(q) /\ Op(q, k) = "rename"
      BY <2>4 DEF Done, Does, Op, l
    <3>2. Rebuilds(l, t)
      BY <1>7, <3>1, RebuildShape
    <3>3. PICK c \in Executed(q) : Op(q, c) = "commit"
      BY <1>1, <3>1 DEF Sound, Lock
    <3>4. c \in DOMAIN Script[l] /\ Script[l][c].op = "commit"
      <4>1. proc[q].next <= Len(Script[l]) + 1 /\ proc[q].next \in Nat
        BY <1>1, TypeFacts DEF Sound, Placed, Process, l
      <4>2. Len(Script[l]) \in Nat /\ DOMAIN Script[l] = 1..Len(Script[l])
        BY <1>7, ScriptFacts
      <4>3. c \in 1..(proc[q].next - 1)
        BY DEF Executed
      <4> QED
        BY <3>3, <4>1, <4>2, <4>3 DEF Op, l
    <3>5. j < i => Does(m, "createNew", t) = {}
      <4>1. \A op \in {"create", "column", "createNew"} : i > j => Does(Order[i], op, t) = {}
        BY <1>4, <1>7, <3>2, <3>4, OrderFacts, CommitShape
      <4> QED
        BY <1>4, <1>7, <4>1
    <3>6. ~(j < i)
      BY <1>12, <3>5 DEF Rebuilds
    <3>7. ~(i < j)
      <4> SUFFICES ASSUME i < j PROVE FALSE
        OBVIOUS
      <4>1. ~(\E c2 \in DOMAIN Script[m] : Script[m][c2].op = "commit")
        BY <2>2, <3>2 DEF Rebuilds
      <4>2. m \notin db.recorded
        BY <4>1 DEF m
      <4> QED
        BY <1>4, <1>7, <4>2
    <3>8. i = j
      BY <1>4, <1>7, <3>6, <3>7
    <3> QED
      BY <1>4, <1>7, <3>8
  <2> QED
    BY <1>9, <2>1, <2>3, <2>4
<1> QED
  BY <1>11, <1>12

(* A statement that changes no table.                                       *)
LEMMA AdvanceObliged ==
    ASSUME RInv, NEW p \in Procs, Obliged(p), Advances(p), Statement(p).op \notin EditOps,
           View(p)'.tables = View(p).tables, db'.recorded = db.recorded
    PROVE  Obliged(p)'
<1>1. /\ Applying(p) /\ Migration(p)' = Migration(p) /\ Executed(p)' = Executed(p) \cup {proc[p].next}
      /\ Op(p, proc[p].next) = Statement(p).op
  BY AdvancesFacts DEF RInv, Advances, Frame
<1>2. ASSUME NEW op \in EditOps, NEW t PROVE Done(p, op, t)' = Done(p, op, t)
  BY <1>1 DEF Done, Does, Op
<1>3. "create" \in EditOps /\ "column" \in EditOps /\ "rename" \in EditOps
  BY DEF EditOps
<1>4. ASSUME NEW t \in Tables PROVE Has(p, t, View(p).tables[t])'
  <2>1. Has(p, t, View(p).tables[t])
    BY <1>1 DEF Obliged
  <2> QED
    BY <1>1, <1>2, <1>3, <2>1 DEF Has
<1> QED
  BY <1>4 DEF Obliged

LEMMA ArriveObliged ==
    ASSUME NEW p \in Procs, proc'[p].pc \in Ended \/ proc'[p].next = 1
    PROVE  Obliged(p)'
<1>1. CASE proc'[p].pc \in Ended
  BY <1>1 DEF Obliged, Applying, Pending, Ended
<1>2. CASE proc'[p].next = 1
  <2>1. Executed(p)' = {}
    BY <1>2 DEF Executed
  <2>2. \A op, t : Done(p, op, t)' = {}
    BY <2>1 DEF Done
  <2> QED
    BY <2>2 DEF Obliged, Has
<1> QED
  BY <1>1, <1>2

LEMMA StageSame ==
    ASSUME NEW n, Stage(n), SameData, \A q \in Procs : writer = q => Migration(q)' = Migration(q)
    PROVE  Stage(n)'
BY DEF Stage, Fits, Ahead, SameData, Applied

LEMMA StageFree ==
    ASSUME NEW n, writer' = Nobody, pending'.tables = db'.tables, pending'.news = db'.news, Applied' = 1..n,
           \A t \in Tables : Floor(n, t, db'.tables[t]) /\ Ceilings(n, t, db')
    PROVE  Stage(n)'
<1>1. \A t \in Tables, p \in Procs : Ahead(n, t, p)'
  BY ProcsType DEF Ahead
<1>2. \A t \in Tables : Ceilings(n, t, pending')
  BY DEF Ceilings
<1> QED
  BY <1>1, <1>2 DEF Stage, Fits

(* A rebuilt table has the columns of the schema once it is committed, ...  *)
LEMMA RebuiltFloor ==
    ASSUME NEW n \in 0..Final, NEW i \in 1..Final, i <= n + 1, NEW t \in Tables, Rebuilds(Order[i], t),
           Order[i] \notin Unavailable, NEW c \in DOMAIN Script[Order[i]], Script[Order[i]][c].op = "commit",
           NEW tab, tab # NoTable, ColumnsOf(Order[i], {"createNew"}, t) \subseteq tab.cols
    PROVE  Floor(n, t, tab)
<1>1. Schema[i][t] # {} /\ Schema[i][t] \subseteq tab.cols /\ Order[i] \in Migrations
  BY SchemaStep
<1>2. CASE i = n + 1
  <2>1. Then(n) = i
    BY <1>2, OrderFacts DEF Then
  <2>2. "create" \in EditOps /\ Does(Order[i], "create", t) = {}
    BY <1>1, RebuildShape DEF EditOps
  <2>3. ColumnsOf(Order[i], {"create"}, t) = {}
    BY <1>1, <2>2, NothingDone
  <2> QED
    BY <1>1, <2>1, <2>3 DEF Floor
<1>3. CASE i # n + 1
  <2>1. n \in i..Final
    BY <1>3, OrderFacts
  <2>2. Schema[n][t] = Schema[i][t]
    BY <2>1, SchemaFixed
  <2> QED
    BY <1>1, <2>2 DEF Floor
<1> QED
  BY <1>2, <1>3

LEMMA CommitKnown == ASSUME RInv, Known, NEW p \in Procs, Commits(p) PROVE Onward
<1> DEFINE m == Migration(p)
           c == proc[p].next
           i == proc[p].at
<1>1. DataOK /\ Sound(p) /\ Reader(p) /\ Obliged(p) /\ Advances(p) /\ Statement(p).op = "commit" /\ Frame(p)
  BY DEF RInv, Known, Commits, Advances
<1>2. /\ Applying(p) /\ Pending(p) /\ m \notin Unavailable /\ Migration(p)' = m /\ m \in Migrations
      /\ c \in DOMAIN Script[m] /\ c \in Nat /\ Statement(p) = Script[m][c]
  BY <1>1, AdvancesFacts DEF Advances, Frame, Applying
<1>3. PICK n \in 0..Final : Stage(n)
  BY DEF Known
<1>4. i \in 1..Final /\ i <= n + 1 /\ m = Order[i]
  BY <1>1, <1>2, <1>3, Place DEF Stage
<1>5. Statement(p).op \notin EditOps
  BY <1>1 DEF EditOps
<1> HIDE DEF m, c, i
<1>6. CASE writer # p
  <2>1. SameData
    BY <1>6 DEF Commits, SameData
  <2>2. \A q \in Procs : Migration(q)' = Migration(q)
    BY <1>1, <1>2 DEF Frame, Migration, m
  <2>3. \A q \in Procs : View(q)' = View(q)
    BY <2>1 DEF View, SameData
  <2>4. Obliged(p)'
    BY <1>1, <1>5, <2>1, <2>3, AdvanceObliged DEF SameData
  <2>5. ASSUME NEW q \in Procs, q # p PROVE Obliged(q)'
    <3>1. proc'[q] = proc[q] /\ Obliged(q) /\ db.recorded \subseteq db'.recorded
      BY <1>1, <2>1, <2>5 DEF Frame, Known, SameData
    <3>2. \A t \in Tables : More(View(q).tables[t], View(q)'.tables[t])
      BY <2>3 DEF More
    <3> QED
      BY <3>1, <3>2, ObligedKept
  <2>6. Stage(n)'
    BY <1>3, <2>1, <2>2, StageSame
  <2> QED
    BY <2>1, <2>4, <2>5, <2>6 DEF Onward, Known, SameData
<1>7. CASE writer = p
  <2>1. db' = pending /\ pending' = pending /\ writer' = Nobody /\ View(p) = pending /\ View(p)' = db'
    BY <1>7, ProcsType DEF Commits, View
  <2>2. db'.recorded = db.recorded
    BY <2>1 DEF Known
  <2>3. Rebuilt(p, pending)
    <3>1. ASSUME NEW t \in Tables, Rebuilds(m, t), NEW k \in Does(m, "rename", t) PROVE k \in Executed(p)
      <4>1. k < c
        BY <1>1, <1>2, <1>4, <3>1, OrderFacts, CommitShape
      <4>2. k \in Nat /\ 1 <= k
        BY <1>2, <3>1, ScriptFacts DEF Does
      <4> QED
        BY <1>2, <4>1, <4>2 DEF Executed, c
    <3> QED
      BY <1>1, <1>2, <2>1, <3>1, RebuiltFacts DEF m
  <2>4. ASSUME NEW t \in Tables PROVE Floor(n, t, db'.tables[t])
    <3>1. CASE Rebuilds(m, t)
      <4>1. db'.tables[t] # NoTable /\ ColumnsOf(m, {"createNew"}, t) \subseteq db'.tables[t].cols
        BY <2>1, <2>3, <3>1 DEF Rebuilt, m
      <4>2. Script[m][c].op = "commit"
        BY <1>1, <1>2
      <4> QED
        BY <1>2, <1>4, <3>1, <4>1, <4>2, RebuiltFloor
    <3>2. CASE ~Rebuilds(m, t)
      BY <1>3, <1>7, <2>1, <3>2 DEF Stage, Fits, Ahead, m
    <3> QED
      BY <3>1, <3>2
  <2>5. Stage(n)'
    <3>1. Applied' = 1..n
      BY <1>3, <2>2 DEF Stage, Applied
    <3>2. \A t \in Tables : Ceilings(n, t, db')
      BY <1>3, <2>1 DEF Stage, Fits
    <3> QED
      BY <2>1, <2>4, <3>1, <3>2, StageFree
  <2>6. Obliged(p)'
    BY <1>1, <1>5, <2>1, <2>2, AdvanceObliged
  <2>7. ASSUME NEW q \in Procs, q # p PROVE Obliged(q)'
    <3>1. proc'[q] = proc[q] /\ db'.tables = pending.tables /\ db.recorded \subseteq db'.recorded
      BY <1>1, <2>1, <2>2, <2>7 DEF Frame
    <3>2. \E k \in DOMAIN Script[Migration(p)] : Script[Migration(p)][k].op = "commit"
      BY <1>1, <1>2 DEF m
    <3> QED
      BY <1>7, <2>1, <2>3, <2>7, <3>1, <3>2, OthersObliged
  <2> QED
    BY <2>1, <2>5, <2>6, <2>7 DEF Onward
<1> QED
  BY <1>6, <1>7

LEMMA CeilingsGrow ==
    ASSUME NEW n \in 0..Final, n + 1 \in 1..Final, NEW t \in Tables, NEW d, NEW e, Ceilings(n, t, d),
           e.tables = d.tables, e.news = d.news
    PROVE  Ceilings(n + 1, t, e)
<1>1. Then(n) \in 0..Final /\ Then(n + 1) \in Then(n)..Final
  BY OrderFacts DEF Then
<1>2. Given[Then(n)][t] \subseteq Given[Then(n + 1)][t]
  BY <1>1, GivenFacts
<1> QED
  BY <1>2 DEF Ceilings, Ceiling

(* ... and the others when their migration is recorded.                     *)
LEMMA RecordFloor ==
    ASSUME NEW n \in 0..Final, n + 1 \in 1..Final, NEW m, m = Order[n + 1], m \notin Unavailable,
           NEW t \in Tables, ~Rebuilds(m, t), NEW x, Floor(n, t, x),
           Does(m, "create", t) # {} => x # NoTable,
           \A k \in Does(m, "column", t) : x # NoTable /\ Script[m][k].cols \subseteq x.cols
    PROVE  Floor(n + 1, t, x)
<1> DEFINE k == n + 1
           created == ColumnsOf(m, {"create"}, t)
           added   == ColumnsOf(m, {"column"}, t)
<1>1. k \in 1..Final /\ k - 1 = n /\ Then(n) = k /\ m \in Migrations /\ k \in Nat
  BY OrderFacts DEF Then
<1>2. "create" \in EditOps /\ "column" \in EditOps /\ {"column"} \in SUBSET EditOps
  BY DEF EditOps
<1>3. Schema[k][t] = (IF Schema[n][t] = {} THEN created ELSE Schema[n][t]) \cup added
  <2> HIDE DEF k
  <2> QED
    BY <1>1, SchemaStep
<1>4. CASE x = NoTable
  <2>1. Does(m, "create", t) = {} /\ Does(m, "column", t) = {} /\ Schema[n][t] = {}
    BY <1>4 DEF Floor
  <2>2. created = {} /\ added = {}
    BY <1>1, <1>2, <2>1, NothingDone
  <2> QED
    BY <1>3, <1>4, <2>1, <2>2 DEF Floor
<1>5. CASE x # NoTable
  <2>1. added \subseteq x.cols
    <3> DEFINE op == "column"
    <3>1. op \in EditOps /\ \A j \in Does(m, op, t) : Script[m][j].cols \subseteq x.cols
      BY <1>2
    <3> HIDE DEF op
    <3>2. ColumnsOf(m, {op}, t) \subseteq x.cols
      BY <1>1, <3>1, DoneWithin
    <3> QED
      BY <3>2 DEF op
  <2>2. Schema[n][t] = {} => Schema[k][t] # {} /\ created \subseteq x.cols
    BY <1>1, <1>5 DEF Floor
  <2>3. Schema[n][t] # {} => Schema[n][t] \subseteq x.cols \/ Schema[k][t] \subseteq x.cols
    BY <1>1, <1>5 DEF Floor
  <2> HIDE DEF created, added, k
  <2>4. Schema[k][t] \subseteq x.cols /\ Schema[k][t] # {}
    BY <1>3, <2>1, <2>2, <2>3
  <2> QED
    BY <1>5, <2>4 DEF Floor, k
<1> QED
  BY <1>4, <1>5

LEMMA UnavailableFloor ==
    ASSUME NEW n \in 0..Final, n + 1 \in 1..Final, Order[n + 1] \in Unavailable, NEW t \in Tables,
           NEW x, Floor(n, t, x)
    PROVE  Floor(n + 1, t, x)
<1> DEFINE k == n + 1
<1>1. k \in 1..Final /\ k - 1 = n /\ Then(n) = k
  BY OrderFacts DEF Then
<1> HIDE DEF k
<1>2. Schema[k][t] = Schema[n][t]
  BY <1>1, SchemaStep DEF k
<1>3. Floor(k, t, x)
  BY <1>1, <1>2 DEF Floor
<1> QED
  BY <1>3 DEF k

LEMMA RecordKnown == ASSUME RInv, Known, NEW p \in Procs, Passes(p), Records(p) PROVE Onward
<1> DEFINE m == Migration(p)
           d == View(p)
<1>1. DataOK /\ Sound(p) /\ Reader(p) /\ Obliged(p) /\ pending.recorded = db.recorded
  BY DEF RInv, Known
<1>2. /\ Pending(p) /\ m \in Migrations /\ Frame(p) /\ proc'[p].next = 1
      /\ Applying(p) /\ m \notin Unavailable /\ proc[p].next > Len(Script[m])
      /\ writer \in {p, Nobody} /\ writer' = Nobody /\ pending' = db'
      /\ db'.tables = d.tables /\ db'.news = d.news /\ db'.recorded = d.recorded \cup {m} /\ m \notin d.recorded
  BY DEF Passes, Records, AtRecord, Applying
<1>3. db'.recorded = db.recorded \cup {m} /\ m \notin db.recorded
  BY <1>1, <1>2 DEF View
<1>4. PICK n \in 0..Final : Stage(n)
  BY DEF Known
<1>5. n + 1 \in 1..Final /\ m = Order[n + 1]
  BY <1>1, <1>2, <1>3, <1>4, Place DEF Stage
<1> HIDE DEF m
<1>6. \A op, t : Does(m, op, t) \subseteq Executed(p)
  <2>1. proc[p].next \in Nat /\ Len(Script[m]) \in Nat /\ DOMAIN Script[m] = 1..Len(Script[m])
    BY <1>1, <1>2, TypeFacts, ScriptFacts DEF Process
  <2>2. DOMAIN Script[m] \subseteq Executed(p)
    BY <1>2, <2>1 DEF Executed
  <2> QED
    BY <2>2 DEF Does
<1>7. Rebuilt(p, d)
  BY <1>1, <1>2, <1>6, RebuiltFacts DEF m
<1>8. ASSUME NEW t \in Tables PROVE Floor(n + 1, t, db'.tables[t]) /\ Ceilings(n + 1, t, db')
  <2> DEFINE x == d.tables[t]
  <2>1. Ceilings(n, t, d)
    BY <1>4 DEF Stage, Fits, View
  <2>2. Ceilings(n + 1, t, db')
    <3> HIDE DEF d
    <3> QED
      BY <1>2, <1>5, <2>1, CeilingsGrow
  <2>3. CASE Rebuilds(m, t)
    <3>1. x # NoTable /\ ColumnsOf(m, {"createNew"}, t) \subseteq x.cols
      BY <1>7, <2>3 DEF Rebuilt, m
    <3> DEFINE k == n + 1
    <3> HIDE DEF k
    <3>2. k \in 1..Final /\ m = Order[k]
      BY <1>5 DEF k
    <3>3. Schema[k][t] # {} /\ Schema[k][t] \subseteq x.cols
      BY <1>2, <2>3, <3>1, <3>2, SchemaStep
    <3>4. Floor(k, t, x)
      BY <3>1, <3>3 DEF Floor
    <3> QED
      BY <1>2, <2>2, <3>4 DEF k
  <2>4. CASE ~Rebuilds(m, t)
    <3>1. Floor(n, t, x)
      <4>1. CASE writer = p
        BY <1>4, <2>4, <4>1 DEF Stage, Fits, Ahead, View, m
      <4>2. CASE writer # p
        BY <1>4, <4>2 DEF Stage, Fits, View
      <4> QED
        BY <4>1, <4>2
    <3>2. Has(p, t, x)
      BY <1>1, <1>2 DEF Obliged
    <3>3. \A op : Done(p, op, t) = Does(m, op, t)
      BY <1>6 DEF Done, m
    <3> HIDE DEF x
    <3>4. /\ Does(m, "create", t) # {} => x # NoTable
          /\ \A k \in Does(m, "column", t) : x # NoTable /\ Script[m][k].cols \subseteq x.cols
      BY <1>3, <3>2, <3>3 DEF Has, m
    <3>5. Floor(n + 1, t, x)
      BY <1>2, <1>5, <2>4, <3>1, <3>4, RecordFloor
    <3> QED
      BY <1>2, <2>2, <3>5 DEF x
  <2> QED
    BY <2>3, <2>4
<1>9. \E k \in 0..Final : Stage(k)'
  <2> DEFINE k == n + 1
  <2>1. Applied' = 1..k
    BY <1>3, <1>4, <1>5, NextApplied DEF Stage
  <2>2. k \in 0..Final
    BY <1>5
  <2>3. \A t \in Tables : Floor(k, t, db'.tables[t]) /\ Ceilings(k, t, db')
    BY <1>8
  <2> HIDE DEF k
  <2>4. Stage(k)'
    BY <1>2, <2>1, <2>3, StageFree
  <2> QED
    BY <2>2, <2>4
<1>10. Obliged(p)'
  BY <1>2, ArriveObliged
<1>11. ASSUME NEW q \in Procs, q # p PROVE Obliged(q)'
  <2>1. proc'[q] = proc[q] /\ db.recorded \subseteq db'.recorded /\ Obliged(q)
    BY <1>2, <1>3, <1>11 DEF Frame, Known
  <2>2. CASE writer = p
    BY <1>2, <1>3, <1>7, <1>11, <2>1, <2>2, OthersObliged DEF m, View
  <2>3. CASE writer # p
    <3>1. View(q) = db /\ View(q)' = db' /\ d = db
      BY <1>2, <2>3, ProcsType DEF View
    <3>2. \A t \in Tables : More(View(q).tables[t], View(q)'.tables[t])
      BY <1>2, <3>1 DEF More
    <3> QED
      BY <2>1, <3>2, ObligedKept
  <2> QED
    BY <2>2, <2>3
<1> QED
  BY <1>2, <1>9, <1>10, <1>11 DEF Onward

(* What is committed outside of a transaction.                              *)
LEMMA FreeKnown ==
    ASSUME Known, writer = Nobody, writer' = Nobody, pending' = db', db.recorded \subseteq db'.recorded,
           \A q \in Procs : Obliged(q)' \/ proc'[q] = proc[q],
           \A t \in Tables : More(db.tables[t], db'.tables[t]),
           NEW n \in 0..Final, Applied' = 1..n,
           \A t \in Tables : Floor(n, t, db'.tables[t]) /\ Ceilings(n, t, db')
    PROVE  Onward
<1>1. \A q \in Procs : View(q) = db /\ View(q)' = db'
  BY ProcsType DEF View
<1>2. ASSUME NEW q \in Procs PROVE Obliged(q)'
  <2>1. CASE proc'[q] = proc[q]
    <3>1. Obliged(q) /\ \A t \in Tables : More(View(q).tables[t], View(q)'.tables[t])
      BY <1>1 DEF Known
    <3> QED
      BY <2>1, <3>1, ObligedKept
  <2> QED
    BY <2>1
<1>3. Stage(n)'
  BY StageFree
<1> QED
  BY <1>2, <1>3 DEF Onward

LEMMA SameDataKnown ==
    ASSUME Known, NEW p \in Procs, SameData, Frame(p), Obliged(p)',
           writer = p => Migration(p)' = Migration(p)
    PROVE  Onward
<1>1. ASSUME NEW q \in Procs, q # p PROVE Obliged(q)'
  <2>1. proc'[q] = proc[q] /\ Obliged(q) /\ db.recorded \subseteq db'.recorded
    BY <1>1 DEF Frame, Known, SameData
  <2>2. \A t \in Tables : More(View(q).tables[t], View(q)'.tables[t])
    BY DEF More, View, SameData
  <2> QED
    BY <2>1, <2>2, ObligedKept
<1>2. \A q \in Procs : writer = q => Migration(q)' = Migration(q)
  BY DEF Frame, Migration
<1>3. \E n \in 0..Final : Stage(n)'
  BY <1>2, StageSame DEF Known
<1>4. pending'.recorded = db'.recorded
  BY DEF Known, SameData
<1> QED
  BY <1>1, <1>3, <1>4 DEF Onward

LEMMA RepairedKnown ==
    ASSUME RInv, Known, NEW p \in Procs, proc[p].pc = "repair", RepairedData(proc[p].applied),
           Frame(p), Obliged(p)'
    PROVE  Onward
<1> DEFINE applied == proc[p].applied
<1>1. Reader(p) /\ db \in Database
  BY TypeFacts DEF RInv, Known
<1>2. applied \subseteq db.recorded /\ db.recorded \subseteq Migrations \cup {Old}
  BY <1>1 DEF Reader, Ended, Database
<1>3. PICK n \in 0..Final : Stage(n)
  BY DEF Known
<1>4. ASSUME NEW t \in Tables PROVE Again(applied, t) \subseteq Given[Then(n)][t]
  <2> SUFFICES ASSUME NEW c \in Again(applied, t) PROVE c \in Given[Then(n)][t]
    OBVIOUS
  <2>0. PICK m \in applied \ {Old} :
           \E s \in ToSet(Script[m]) : s.op = "column" /\ s.table = t /\ c \in s.cols
    BY DEF Again
  <2>1. PICK s \in ToSet(Script[m]) : s.op = "column" /\ s.table = t /\ c \in s.cols
    BY <2>0
  <2>2. PICK i \in 1..Final : Order[i] = m
    BY <1>2, OrderFacts
  <2>3. i \in 1..n /\ i \in 1..Then(n) /\ Then(n) \in 0..Final
    <3>1. i \in Applied
      BY <1>2, <2>2 DEF Applied, Final
    <3> QED
      BY <1>3, <3>1, ThenFacts DEF Stage
  <2>4. PICK k \in DOMAIN Script[m] : s = Script[m][k]
    BY DEF ToSet
  <2>5. Script[Order[i]][k].op \in Adds /\ Script[Order[i]][k].table = t /\ k \in DOMAIN Script[Order[i]]
    BY <2>1, <2>2, <2>4 DEF Adds
  <2>6. Script[Order[i]][k].cols \subseteq Given[Then(n)][t]
    BY <2>3, <2>5, GivenStatement
  <2> QED
    BY <2>1, <2>2, <2>4, <2>6
<1> HIDE DEF applied
<1>5. ASSUME NEW t \in Tables
      PROVE  /\ More(db.tables[t], db'.tables[t])
             /\ Floor(n, t, db'.tables[t]) /\ Ceilings(n, t, db')
  <2>1. IF db.tables[t] = NoTable THEN db'.tables[t] = NoTable
        ELSE /\ db'.tables[t] # NoTable /\ db'.tables[t].cols = db.tables[t].cols \cup Again(applied, t)
    BY DEF RepairedData, applied
  <2>2. Floor(n, t, db.tables[t]) /\ Ceilings(n, t, db) /\ db'.news = db.news
    BY <1>3 DEF Stage, Fits, RepairedData
  <2>3. More(db.tables[t], db'.tables[t]) /\ (db.tables[t] # NoTable \/ db'.tables[t] = NoTable)
    BY <2>1 DEF More
  <2>4. Floor(n, t, db'.tables[t])
    BY <2>2, <2>3, MoreFloor
  <2>5. Ceilings(n, t, db')
    BY <1>4, <2>1, <2>2 DEF Ceilings, Ceiling
  <2> QED
    BY <2>3, <2>4, <2>5
<1>6. Applied' = 1..n
  BY <1>3 DEF Stage, Applied, RepairedData
<1>7. \A q \in Procs : Obliged(q)' \/ proc'[q] = proc[q]
  BY DEF Frame
<1>8. writer = Nobody /\ writer' = Nobody /\ pending' = db' /\ db.recorded \subseteq db'.recorded
  BY DEF RepairedData
<1> QED
  BY <1>5, <1>6, <1>7, <1>8, FreeKnown

LEMMA RowAddedKnown == ASSUME Known, RowAdded PROVE Onward
<1>1. PICK n \in 0..Final : Stage(n)
  BY DEF Known
<1>2. ASSUME NEW t \in Tables
      PROVE  /\ More(db.tables[t], db'.tables[t])
             /\ Floor(n, t, db'.tables[t]) /\ Ceilings(n, t, db')
  <2>1. IF db.tables[t] = NoTable THEN db'.tables[t] = NoTable
        ELSE db'.tables[t] # NoTable /\ db'.tables[t].cols = db.tables[t].cols
    BY DEF RowAdded
  <2>2. Floor(n, t, db.tables[t]) /\ Ceilings(n, t, db) /\ db'.news = db.news
    BY <1>1 DEF Stage, Fits, RowAdded
  <2>3. More(db.tables[t], db'.tables[t]) /\ (db.tables[t] # NoTable \/ db'.tables[t] = NoTable)
    BY <2>1 DEF More
  <2>4. Floor(n, t, db'.tables[t])
    BY <2>2, <2>3, MoreFloor
  <2>5. Ceilings(n, t, db')
    BY <2>1, <2>2 DEF Ceilings, Ceiling
  <2> QED
    BY <2>3, <2>4, <2>5
<1>3. Applied' = 1..n
  BY <1>1 DEF Stage, Applied, RowAdded
<1>4. /\ writer = Nobody /\ writer' = Nobody /\ pending' = db' /\ db.recorded \subseteq db'.recorded
      /\ \A q \in Procs : proc'[q] = proc[q]
  BY DEF RowAdded
<1> QED
  BY <1>2, <1>3, <1>4, FreeKnown

(* Names are recorded that do not, or do, make one migration more.          *)
LEMMA MarkedKnown ==
    ASSUME Known, NEW p \in Procs, NEW X, Marked(X), Frame(p), Obliged(p)', NEW n \in 0..Final, Applied' = 1..n,
           \A t \in Tables : Floor(n, t, db.tables[t]) /\ Ceilings(n, t, db)
    PROVE  Onward
<1>1. \A t \in Tables : Floor(n, t, db'.tables[t]) /\ Ceilings(n, t, db')
  BY DEF Ceilings, Marked
<1>2. \A t \in Tables : More(db.tables[t], db'.tables[t])
  BY DEF Marked, More
<1>3. /\ writer = Nobody /\ writer' = Nobody /\ pending' = db' /\ db.recorded \subseteq db'.recorded
      /\ \A q \in Procs : Obliged(q)' \/ proc'[q] = proc[q]
  BY DEF Marked, Frame
<1> QED
  BY <1>1, <1>2, <1>3, FreeKnown

LEMMA OtherStepsKnown ==
    ASSUME RInv, Known, NEW p \in Procs,
           Start(p) \/ RecordSplit(p) \/ Repair(p) \/ RecordUnavailable(p) \/ Record(p)
             \/ Raise(p) \/ Crash(p) \/ Finish(p) \/ BeginTransaction(p) \/ ForeignKeys(p)
    PROVE  Onward
<1>1. DataOK /\ Sound(p) /\ Placed(p) /\ Reader(p) /\ Obliged(p)
  BY DEF RInv, Sound, Known
<1>2. writer = p => Pending(p) /\ Migration(p) \notin Unavailable
  BY <1>1 DEF Placed, Applying
<1>3. PICK n \in 0..Final : Stage(n)
  BY DEF Known
<1>4. \A t \in Tables : Floor(n, t, db.tables[t]) /\ Ceilings(n, t, db)
  BY <1>3 DEF Stage, Fits
<1>5. CASE Start(p)
  <2>1. Starts(p)
    BY <1>1, <1>5, StartFacts
  <2>2. writer # p /\ Obliged(p)'
    BY <1>2, <2>1, ArriveObliged DEF Starts, Pending, Ended
  <2> QED
    BY <2>1, <2>2, SameDataKnown DEF Starts
<1>6. CASE RecordSplit(p)
  <2>1. RecordsSplit(p) /\ proc[p].pc = "split" /\ Frame(p)
    BY <1>1, <1>6, RecordSplitFacts DEF RecordsSplit
  <2>2. writer # p /\ Obliged(p)'
    BY <1>1, <1>2, <2>1, ArriveObliged DEF RecordsSplit, Pending, Placed
  <2>3. CASE SameData
    BY <2>1, <2>2, <2>3, SameDataKnown
  <2>4. ASSUME NEW X \in SUBSET Splits, Marked(X), Old \in proc[p].applied PROVE Onward
    <3>1. Old \in db.recorded
      BY <1>1, <2>1, <2>4 DEF Reader, Ended
    <3>2. db'.recorded = db.recorded \cup X
      BY <2>4 DEF Marked
    <3>3. Applied' = 1..n
      BY <1>3, <3>1, <3>2, SameApplied DEF Stage
    <3> QED
      BY <1>4, <2>1, <2>2, <2>4, <3>3, MarkedKnown
  <2> QED
    BY <2>1, <2>3, <2>4 DEF RecordsSplit
<1>7. CASE Repair(p)
  <2>1. Repairs(p) /\ proc[p].pc = "repair" /\ Frame(p)
    BY <1>1, <1>7, RepairFacts DEF Repairs
  <2>2. writer # p /\ Obliged(p)'
    BY <1>1, <1>2, <2>1, ArriveObliged DEF Repairs, Pending, Placed
  <2> QED
    BY <2>1, <2>2, SameDataKnown, RepairedKnown DEF Repairs
<1>8. CASE RecordUnavailable(p)
  <2>1. writer # p
    BY <1>2, <1>8 DEF RecordUnavailable
  <2>2. Passes(p) /\ Marked({Migration(p)}) /\ Migration(p) \in Unavailable /\ Migration(p) \notin db.recorded
    BY <1>1, <1>8, <2>1, RecordUnavailableFacts
  <2>3. Pending(p) /\ Frame(p) /\ Obliged(p)'
    BY <2>2, ArriveObliged DEF Passes
  <2>4. n + 1 \in 1..Final /\ Migration(p) = Order[n + 1]
    BY <1>1, <1>3, <2>2, <2>3, Place DEF Stage
  <2> DEFINE k == n + 1
  <2>5. Applied' = 1..k
    BY <1>3, <2>2, <2>4, NextApplied DEF Stage, Marked
  <2>6. \A t \in Tables : Floor(k, t, db.tables[t]) /\ Ceilings(k, t, db)
    BY <1>4, <2>2, <2>4, UnavailableFloor, CeilingsGrow
  <2>7. k \in 0..Final
    BY <2>4
  <2> HIDE DEF k
  <2> QED
    BY <2>2, <2>3, <2>5, <2>6, <2>7, MarkedKnown
<1>9. CASE Record(p)
  BY <1>1, <1>9, RecordFacts, RecordKnown
<1>10. CASE Raise(p) \/ Crash(p) \/ Finish(p)
  <2>1. Ends(p) /\ Obliged(p)' /\ Frame(p)
    BY <1>1, <1>10, Ending, ArriveObliged DEF Ends
  <2>2. CASE writer # p
    <3>1. SameData
      BY <2>1, <2>2 DEF Ends, SameData
    <3> QED
      BY <2>1, <2>2, <3>1, SameDataKnown
  <2>3. CASE writer = p
    <3>1. db' = db /\ pending' = db /\ writer' = Nobody
      BY <2>1, <2>3 DEF Ends
    <3>2. Applied' = 1..n
      BY <1>3, <3>1 DEF Stage, Applied
    <3>3. Stage(n)'
      BY <1>4, <3>1, <3>2, StageFree
    <3>4. ASSUME NEW q \in Procs, q # p PROVE Obliged(q)'
      <4>1. proc'[q] = proc[q] /\ Obliged(q) /\ db.recorded \subseteq db'.recorded
        BY <2>1, <3>1, <3>4 DEF Frame, Known
      <4>2. View(q) = db /\ View(q)' = db'
        BY <2>3, <3>1, <3>4, ProcsType DEF View
      <4>3. \A t \in Tables : More(View(q).tables[t], View(q)'.tables[t])
        BY <3>1, <4>2 DEF More
      <4> QED
        BY <4>1, <4>3, ObligedKept
    <3> QED
      BY <2>1, <3>1, <3>3, <3>4 DEF Onward
  <2> QED
    BY <2>2, <2>3
<1>11. CASE BeginTransaction(p) \/ ForeignKeys(p)
  <2>1. Pragmas(p)
    BY <1>1, <1>11, PragmaFacts
  <2>2. Advances(p) /\ SameData /\ Frame(p) /\ Statement(p).op \notin EditOps
    BY <2>1 DEF Pragmas, Advances, EditOps
  <2>3. Obliged(p)'
    BY <1>1, <2>2, AdvanceObliged DEF SameData, View
  <2>4. Migration(p)' = Migration(p)
    BY <2>2 DEF Advances, Migration
  <2> QED
    BY <2>2, <2>3, <2>4, SameDataKnown
<1> QED
  BY <1>5, <1>6, <1>7, <1>8, <1>9, <1>10, <1>11

LEMMA StepKnown == ASSUME RInv, Known, [Next]_vars PROVE Known'
<1>1. CASE UNCHANGED vars
  <2>1. db' = db /\ pending' = pending /\ writer' = writer /\ proc' = proc
    BY <1>1 DEF vars
  <2>2. \A p \in Procs : Reader(p)'
    BY <2>1, ReaderKept DEF Known
  <2>3. \A p \in Procs : Obliged(p)'
    <3> SUFFICES ASSUME NEW p \in Procs PROVE Obliged(p)'
      OBVIOUS
    <3>1. \A t \in Tables : More(View(p).tables[t], View(p)'.tables[t])
      BY <2>1 DEF More, View
    <3> QED
      BY <2>1, <3>1, ObligedKept DEF Known
  <2>4. \E n \in 0..Final : Stage(n)'
    BY <2>1, StageSame DEF Known, SameData, Migration
  <2> QED
    BY <2>1, <2>2, <2>3, <2>4 DEF Known
<1>2. CASE \E t \in Tables, r \in Rows : AddRow(t, r)
  <2>1. RowAdded
    BY <1>2, AddRowFacts DEF RInv
  <2>2. \A p \in Procs : Reader(p)'
    BY <2>1, ReaderKept DEF Known, RowAdded
  <2> QED
    BY <2>1, <2>2, RowAddedKnown DEF Known, Onward
<1>3. ASSUME NEW p \in Procs, Start(p) \/ Step(p) \/ Crash(p) PROVE Known'
  <2>1. \A q \in Procs : Reader(q)'
    BY <1>3, ReadersKept DEF Known
  <2>2. Onward
    <3>1. CASE CommitTransaction(p)
      BY <3>1, CommitFacts, CommitKnown DEF RInv
    <3>2. CASE Edit(p)
      BY <3>2, EditKnown
    <3> QED
      BY <1>3, <3>1, <3>2, OtherStepsKnown DEF Step, Edit
  <2> QED
    BY <2>1, <2>2 DEF Known, Onward
<1> QED
  BY <1>1, <1>2, <1>3 DEF Next

(* The migrations a database begins with.                                   *)
LEMMA InitAt ==
    ASSUME Init
    PROVE  \E n \in 0..Final, recorded \in SUBSET (Migrations \cup {Old}) : db = With(n, recorded) /\ Applied = 1..n
<1>1. CASE db = With(0, {})
  <2>1. db.recorded = {} /\ 0 \in 0..Final /\ {} \in SUBSET (Migrations \cup {Old})
    BY <1>1, WithFacts, OrderFacts
  <2>2. Applied = 1..0
    BY <2>1 DEF Applied
  <2> QED
    BY <1>1, <2>1, <2>2
<1>2. ASSUME NEW n \in 1..Final, \A i \in 1..Final : Order[i] \in Splits => i <= n,
             db = With(n, ({Order[i] : i \in 1..n} \ Splits) \cup {Old})
      PROVE  \E recorded \in SUBSET (Migrations \cup {Old}) : db = With(n, recorded) /\ Applied = 1..n
  <2> DEFINE recorded == ({Order[i] : i \in 1..n} \ Splits) \cup {Old}
  <2>1. recorded \in SUBSET (Migrations \cup {Old}) /\ n \in 0..Final
    BY OrderFacts
  <2>2. \A i \in 1..Final : (Order[i] \in recorded \/ Order[i] \in Splits) <=> i \in 1..n
    <3> SUFFICES ASSUME NEW i \in 1..Final
                 PROVE  (Order[i] \in recorded \/ Order[i] \in Splits) <=> i \in 1..n
      OBVIOUS
    <3>1. Order[i] # Old
      BY OrderFacts, NamesType
    <3>2. Order[i] \in {Order[j] : j \in 1..n} => i \in 1..n
      BY OrderFacts
    <3>3. Order[i] \in Splits => i \in 1..n
      BY <1>2, OrderFacts
    <3> QED
      BY <3>1, <3>2, <3>3
  <2>3. Old \in recorded
    OBVIOUS
  <2> HIDE DEF recorded
  <2>4. db = With(n, recorded)
    BY <1>2 DEF recorded
  <2>5. db.recorded = recorded
    BY <2>1, <2>4, WithFacts
  <2>6. Applied = 1..n
    <3>1. \A i \in 1..n : i \in 1..Final
      BY OrderFacts
    <3> QED
      BY <2>2, <2>3, <2>5, <3>1 DEF Applied, Final
  <2> QED
    BY <2>1, <2>4, <2>6
<1>3. \A n \in 1..Final : n \in 0..Final
  BY OrderFacts
<1> QED
  BY <1>1, <1>2, <1>3 DEF Init, Final

LEMMA InitKnown == ASSUME Init PROVE Known
<1>1. pending = db /\ writer = Nobody /\ \A p \in Procs : proc[p].pc = "off"
  BY DEF Init
<1>2. ASSUME NEW p \in Procs PROVE Reader(p) /\ Obliged(p)
  BY <1>1 DEF Reader, Obliged, Applying, Pending, Ended
<1>3. ASSUME NEW n \in 0..Final, NEW recorded \in SUBSET (Migrations \cup {Old}), db = With(n, recorded),
             Applied = 1..n
      PROVE  Stage(n)
  <2>1. ASSUME NEW t \in Tables PROVE Fits(n, t)
    <3>1. /\ db.news[t] = NoTable
          /\ IF Schema[n][t] = {} THEN db.tables[t] = NoTable
             ELSE db.tables[t] # NoTable /\ db.tables[t].cols = Schema[n][t]
      BY <1>3, WithFacts
    <3>2. Schema[n][t] \subseteq Given[Then(n)][t]
      <4>1. Then(n) \in n..Final
        BY ThenFacts, OrderFacts
      <4> QED
        BY <4>1, SchemaGiven, GivenFacts
    <3>3. Floor(n, t, db.tables[t])
      BY <3>1 DEF Floor
    <3>4. Ceilings(n, t, db)
      BY <3>1, <3>2 DEF Ceilings, Ceiling
    <3>5. \A p \in Procs : Ahead(n, t, p)
      BY <1>1, ProcsType DEF Ahead
    <3> QED
      BY <1>1, <3>3, <3>4, <3>5 DEF Fits
  <2> QED
    BY <1>3, <2>1 DEF Stage
<1>4. pending.recorded = db.recorded
  BY <1>1
<1> QED
  BY <1>2, <1>3, <1>4, InitAt DEF Known

(* Whatever crashes and however many processes migrate at once, some with a *)
(* list of what is applied that is no longer true: the recorded migrations  *)
(* are the first ones; a table has at least all columns of their schema, or *)
(* all of the next one's; and at most what these migrations and the next    *)
(* one ever gave it, those they took away included.                         *)
THEOREM SchemaHolds == Spec => []SchemaIsKnown
<1>1. Init => RInv /\ Known
  BY InitRInv, InitKnown
<1>2. (RInv /\ Known) /\ [Next]_vars => (RInv /\ Known)'
  BY StepKeeps, StepKnown
<1>3. ASSUME RInv, Known PROVE SchemaIsKnown
  <2>1. PICK n \in 0..Final : Stage(n)
    BY <1>3 DEF Known
  <2>2. ASSUME NEW t \in Tables
        PROVE  /\ Schema[n][t] \subseteq ColumnsIn(t) \/ Schema[Upcoming(n)][t] \subseteq ColumnsIn(t)
               /\ ColumnsIn(t) \subseteq Given[Upcoming(n)][t]
    <3>1. Floor(n, t, db.tables[t]) /\ Ceiling(n, t, db.tables[t])
      BY <2>1 DEF Stage, Fits, Ceilings
    <3>2. Then(n) = Upcoming(n)
      BY DEF Then, Final, Upcoming
    <3> QED
      BY <3>1, <3>2 DEF Floor, Ceiling, ColumnsIn
  <2> QED
    BY <2>1, <2>2 DEF SchemaIsKnown, Stage, Final
<1>4. (RInv /\ Known) => SchemaIsKnown
  BY <1>3
<1> QED
  BY <1>1, <1>2, <1>4, PTL DEF Spec

-----------------------------------------------------------------------------
(* One process at a time                                                    *)

(* Its list is what is recorded, and it is at the first migration that is   *)
(* not: n are.                                                              *)
Current(n, p) ==
    /\ proc[p].pc = "split" => proc[p].applied = db.recorded
    /\ proc[p].pc = "repair" => \A i \in 1..n : Order[i] \in proc[p].applied
    /\ proc[p].pc = "run" => proc[p].at = n + 1

(* A table, by the migrations n and k.                                      *)
Between(n, k, t, tab) == tab # NoTable => tab.cols \subseteq Schema[n][t] \cup Schema[k][t]

(* The new table it has created is its own, and has been given the name.    *)
Made(n, p) ==
    Applying(p) => \A t \in Tables :
        /\ Done(p, "createNew", t) # {} => Between(n + 1, n + 1, t, View(p).news[t])
        /\ Done(p, "rename", t) # {} => Between(n + 1, n + 1, t, View(p).tables[t])

Exactly(n) ==
    /\ Applied = 1..n
    /\ \A t \in Tables : Between(n, Then(n), t, db.tables[t]) /\ Between(n, Then(n), t, pending.tables[t])
    /\ \A p \in Procs : Current(n, p) /\ Made(n, p)

OneAtATime == \A p, q \in Procs : proc[p].pc \notin Ended /\ proc[q].pc \notin Ended => p = q

Exact == OneAtATime /\ \E n \in 0..Final : Exactly(n)

LEMMA RangesEqual ==
    ASSUME NEW i \in Nat, NEW j \in Nat, 1..i = 1..j
    PROVE  i = j
<1>1. CASE i < j
  <2>1. j \in 1..j /\ j \notin 1..i
    BY <1>1
  <2> QED
    BY <2>1
<1>2. CASE j < i
  <2>1. i \in 1..i /\ i \notin 1..j
    BY <1>2
  <2> QED
    BY <2>1
<1> QED
  BY <1>1, <1>2

(* What holds of a process that has ended, or is at the head of a file.     *)
LEMMA EndedExact ==
    ASSUME NEW n, NEW p, proc'[p].pc \in Ended
    PROVE  Current(n, p)' /\ Made(n, p)'
BY DEF Current, Made, Applying, Pending, Ended

LEMMA ArriveMade ==
    ASSUME NEW n, NEW p, proc'[p].pc # "run" \/ proc'[p].next = 1
    PROVE  Made(n, p)'
<1>1. CASE proc'[p].pc # "run"
  BY <1>1 DEF Made, Applying, Pending
<1>2. CASE proc'[p].next = 1
  <2>1. \A op, t : Done(p, op, t)' = {}
    BY <1>2 DEF Done, Executed
  <2> QED
    BY <2>1 DEF Made
<1> QED
  BY <1>1, <1>2

(* One that takes a step has not ended.                                     *)
LEMMA StepRuns ==
    ASSUME NEW p \in Procs, Step(p) \/ Crash(p)
    PROVE  proc[p].pc \notin Ended
BY DEF Step, Crash, RecordSplit, Repair, RecordUnavailable, Create, AddColumn, DropNew, CreateNew,
       Copy, Drop, Rename, BeginTransaction, CommitTransaction, ForeignKeys, Record, Raise, Finish,
       At, AtStatement, AtRecord, Taken, Pending, Ended

(* The others have ended, when one takes a step.                            *)
LEMMA OthersExact ==
    ASSUME OneAtATime, OneAtATime', NEW p \in Procs, Start(p) \/ Step(p) \/ Crash(p), DataOK, Frame(p),
           NEW q \in Procs, q # p, NEW n
    PROVE  Current(n, q)' /\ Made(n, q)'
<1>1. proc'[q] = proc[q]
  BY DEF Frame
<1>2. CASE Start(p)
  <2>1. Starts(p)
    BY <1>2, StartFacts
  <2>2. proc'[p].pc \notin Ended
    BY <2>1 DEF Starts, Ended
  <2>3. proc'[q].pc \in Ended
    BY <2>2 DEF OneAtATime
  <2> QED
    BY <2>3 DEF Current, Made, Applying, Pending, Ended
<1>3. CASE Step(p) \/ Crash(p)
  <2>1. proc[p].pc \notin Ended
    BY <1>3, StepRuns
  <2>2. proc'[q].pc \in Ended
    BY <1>1, <2>1 DEF OneAtATime
  <2> QED
    BY <2>2 DEF Current, Made, Applying, Pending, Ended
<1> QED
  BY <1>2, <1>3

(* A migration that does not rebuild a table takes nothing away.            *)
LEMMA SchemaGrows ==
    ASSUME NEW n \in 1..Final, NEW t \in Tables, Order[n] \in Unavailable \/ ~Rebuilds(Order[n], t)
    PROVE  Schema[n - 1][t] \subseteq Schema[n][t]
<1>1. CASE Order[n] \in Unavailable
  BY <1>1, SchemaStep
<1>2. CASE Order[n] \notin Unavailable
  <2>1. Schema[n][t] = (IF Schema[n - 1][t] = {} THEN ColumnsOf(Order[n], {"create"}, t) ELSE Schema[n - 1][t])
                          \cup ColumnsOf(Order[n], {"column"}, t)
    BY <1>2, SchemaStep
  <2> QED
    BY <2>1
<1> QED
  BY <1>1, <1>2

LEMMA BetweenOn ==
    ASSUME NEW n \in 0..Final, n + 1 \in 1..Final, NEW t, NEW tab, Between(n + 1, n + 1, t, tab)
    PROVE  Between(n, Then(n), t, tab) /\ Between(n + 1, Then(n + 1), t, tab)
<1>1. Then(n) = n + 1
  BY OrderFacts DEF Then
<1> QED
  BY <1>1 DEF Between

(* What an edit makes of a table, and of a new one.                         *)
LEMMA EditBetween ==
    ASSUME NEW p \in Procs, NEW s, NEW v, NEW w, NEW tx, Editing(p, s, v, w, tx), Known,
           NEW n \in 0..Final, Exactly(n), NEW u \in Tables
    PROVE  /\ n + 1 \in 1..Final /\ Migration(p) = Order[n + 1]
           /\ Between(n, Then(n), u, w.tables[u])
           /\ Done(p, "createNew", u) # {} \/ (s.op = "createNew" /\ s.table = u) =>
                 Between(n + 1, n + 1, u, w.news[u])
           /\ Done(p, "rename", u) # {} \/ (s.op = "rename" /\ s.table = u) =>
                 Between(n + 1, n + 1, u, w.tables[u])
<1> DEFINE m == Migration(p)
           k == proc[p].next
           t == s.table
<1>1. /\ DataOK /\ Applying(p) /\ Pending(p) /\ m \in Migrations /\ m \notin Unavailable /\ t \in Tables
      /\ s.op \in EditOps /\ s = Script[m][k] /\ k \in Does(m, s.op, t) /\ k \in Nat \ {0}
      /\ Executed(p) = 1..(k - 1) /\ Effect(p, s, v, w) /\ Elsewhere(t, v, w) /\ v = View(p)
  BY EditingFacts DEF Editing
<1>2. proc[p].pc = "run" /\ Current(n, p) /\ Made(n, p) /\ Applied = 1..n
  BY <1>1 DEF Pending, Exactly
<1>3. n + 1 \in 1..Final /\ m = Order[n + 1] /\ Then(n) = n + 1
  <2>1. proc[p].at = n + 1 /\ proc[p].at \in 1..Final
    BY <1>1, <1>2, OrderFacts DEF Current, Pending, Final
  <2> QED
    BY <2>1, OrderFacts DEF Migration, Then
<1> HIDE DEF k
<1> DEFINE i == n + 1
<1> HIDE DEF m
<1>4. /\ Rebuilds(m, t) => Schema[n + 1][t] = ColumnsOf(m, {"createNew"}, t)
      /\ ~Rebuilds(m, t) => Schema[n + 1][t] =
            (IF Schema[n][t] = {} THEN ColumnsOf(m, {"create"}, t) ELSE Schema[n][t]) \cup ColumnsOf(m, {"column"}, t)
  <2> HIDE DEF i
  <2>1. i \in 1..Final /\ i - 1 = n /\ m = Order[i] /\ Order[i] \notin Unavailable
    BY <1>1, <1>3 DEF i
  <2>2. /\ Rebuilds(m, t) => Schema[i][t] = ColumnsOf(m, {"createNew"}, t)
        /\ ~Rebuilds(m, t) => Schema[i][t] =
              (IF Schema[i - 1][t] = {} THEN ColumnsOf(m, {"create"}, t) ELSE Schema[i - 1][t])
                 \cup ColumnsOf(m, {"column"}, t)
    BY <1>1, <2>1, SchemaStep
  <2> QED
    BY <2>1, <2>2 DEF i
<1>5. s.cols \subseteq ColumnsOf(m, {s.op}, t)
  BY <1>1, DoneColumns
<1>6. /\ Between(n, n + 1, u, v.tables[u])
      /\ Done(p, "createNew", u) # {} => Between(n + 1, n + 1, u, v.news[u])
      /\ Done(p, "rename", u) # {} => Between(n + 1, n + 1, u, v.tables[u])
  BY <1>1, <1>2, <1>3 DEF Exactly, Made, View
<1>7. CASE u # t
  BY <1>3, <1>6, <1>7, <1>1 DEF Elsewhere, m
<1>8. CASE u = t /\ s.op \in {"create", "column"}
  <2>1. ~Rebuilds(m, t) /\ Does(m, "rename", t) = {} /\ w.news[t] = v.news[t]
    <3>1. ~Rebuilds(m, t)
      BY <1>1, <1>8, RebuildShape
    <3> QED
      BY <1>1, <1>8, <3>1, RebuildShape DEF Effect
  <2>2. CASE s.op = "create" /\ v.tables[t] = NoTable
    <3>1. w.tables[t].cols = s.cols
      BY <1>1, <2>2 DEF Effect
    <3>2. PICK j \in 0..Final : Stage(j)
      BY DEF Known
    <3>3. j = n
      BY <1>2, <3>2, RangesEqual DEF Stage
    <3>4. Floor(n, t, v.tables[t])
      <4>1. Fits(n, t)
        BY <1>1, <3>2, <3>3 DEF Stage
      <4>2. CASE writer = p
        BY <1>1, <2>1, <4>1, <4>2 DEF Fits, Ahead, View, m
      <4>3. CASE writer # p
        BY <1>1, <4>1, <4>3 DEF Fits, View
      <4> QED
        BY <4>2, <4>3
    <3>5. Schema[n][t] = {}
      BY <2>2, <3>4 DEF Floor
    <3>6. s.cols \subseteq Schema[n + 1][t]
      BY <1>4, <1>5, <2>1, <2>2, <3>5
    <3> QED
      BY <1>3, <1>6, <1>8, <2>1, <2>2, <3>1, <3>6 DEF Between, Done, m
  <2>3. CASE s.op = "create" /\ v.tables[t] # NoTable
    <3>1. w.tables[t] = v.tables[t]
      BY <1>1, <2>3 DEF Effect
    <3> QED
      BY <1>3, <1>6, <1>8, <2>1, <2>3, <3>1 DEF Done, m
  <2>4. CASE s.op = "column"
    <3>1. w.tables[t].cols = v.tables[t].cols \cup s.cols /\ v.tables[t] # NoTable
      BY <1>1, <2>4 DEF Effect
    <3>2. s.cols \subseteq Schema[n + 1][t]
      BY <1>4, <1>5, <2>1, <2>4
    <3> QED
      BY <1>3, <1>6, <1>8, <2>1, <2>4, <3>1, <3>2 DEF Between, Done, m
  <2> QED
    BY <1>8, <2>2, <2>3, <2>4
<1>9. CASE u = t /\ s.op = "dropNew"
  BY <1>1, <1>3, <1>6, <1>9 DEF Effect, Between, m
<1>10. CASE u = t /\ s.op = "createNew"
  <2>1. Rebuilds(m, t)
    BY <1>1, <1>10 DEF Rebuilds
  <2>2. w.tables[t] = v.tables[t] /\ w.news[t].cols \subseteq Schema[n + 1][t]
    BY <1>1, <1>4, <1>5, <1>10, <2>1 DEF Effect
  <2> QED
    BY <1>3, <1>6, <1>10, <2>2 DEF Between, m
<1>11. CASE u = t /\ s.op = "copy"
  <2>1. w.tables[t] = v.tables[t] /\ w.news[t].cols = v.news[t].cols /\ v.news[t] # NoTable
    BY <1>1, <1>11 DEF Effect
  <2> QED
    BY <1>3, <1>6, <1>11, <2>1 DEF Between, m
<1>12. CASE u = t /\ s.op = "drop"
  <2>1. w.tables[t] = NoTable /\ w.news[t] = v.news[t]
    BY <1>1, <1>12 DEF Effect
  <2> QED
    BY <1>3, <1>6, <1>12, <2>1 DEF Between, m
<1>13. CASE u = t /\ s.op = "rename"
  <2>1. w.tables[t] = v.news[t] /\ w.news[t] = NoTable
    BY <1>1, <1>13 DEF Effect
  <2>2. k - 1 \in Does(m, "drop", t) /\ Rebuilds(m, t)
    BY <1>1, <1>13, RebuildShape
  <2>3. k - 1 - 1 \in Does(m, "copy", t)
    BY <1>1, <2>2, RebuildShape
  <2>4. PICK j \in Does(m, "createNew", t) : j < k - 1 - 1
    <3>1. PICK j \in Does(m, "createNew", t) : TRUE
      BY <2>2 DEF Rebuilds
    <3>2. j < k - 1 - 1
      BY <1>1, <2>3, NewShape
    <3> QED
      BY <3>2
  <2>5. j \in Executed(p)
    <3>1. j \in 1..Len(Script[m])
      BY <1>1, ScriptFacts DEF Does
    <3> QED
      BY <1>1, <2>4, <3>1
  <2>6. Done(p, "createNew", t) # {}
    BY <2>4, <2>5 DEF Done, m
  <2> QED
    BY <1>3, <1>6, <1>13, <2>1, <2>6 DEF Between, m
<1> QED
  BY <1>1, <1>7, <1>8, <1>9, <1>10, <1>11, <1>12, <1>13 DEF EditOps

ExactOn == \E k \in 0..Final : Exactly(k)'

LEMMA EditExact ==
    ASSUME RInv, Known, NEW p \in Procs, Edit(p), NEW n \in 0..Final, Exactly(n),
           \A q \in Procs : q # p => Current(n, q)' /\ Made(n, q)'
    PROVE  ExactOn
<1> DEFINE s == Statement(p)
           v == View(p)
           w == pending'
           tx == proc'[p].tx
           k == proc[p].next
<1>1. DataOK /\ Placed(p) /\ proc[p].next # 0
  BY DEF RInv, Sound, Placed
<1>2. Edits(p, s, v, w, tx)
  BY <1>1, EditFacts
<1>3. Editing(p, s, v, w, tx)
  BY <1>2 DEF Editing
<1>4. /\ Applying(p) /\ Migration(p) \in Migrations /\ k \in Does(Migration(p), s.op, s.table) /\ k \in Nat \ {0}
      /\ Executed(p) = 1..(k - 1)
  BY <1>3, EditingFacts
<1>5. ASSUME NEW u \in Tables
      PROVE  /\ n + 1 \in 1..Final /\ Migration(p) = Order[n + 1]
             /\ Between(n, Then(n), u, w.tables[u])
             /\ Done(p, "createNew", u) # {} \/ (s.op = "createNew" /\ s.table = u) =>
                   Between(n + 1, n + 1, u, w.news[u])
             /\ Done(p, "rename", u) # {} \/ (s.op = "rename" /\ s.table = u) =>
                   Between(n + 1, n + 1, u, w.tables[u])
  <2> HIDE DEF s, v, w, tx
  <2> QED
    BY <1>3, EditBetween
<1>6. /\ proc'[p].pc = proc[p].pc /\ proc'[p].applied = proc[p].applied /\ proc'[p].at = proc[p].at
      /\ proc'[p].next = k + 1 /\ Frame(p) /\ w.recorded = v.recorded
      /\ IF tx THEN writer' = p /\ db' = db ELSE writer' = writer /\ db' = w
  BY <1>2 DEF Edits
<1>7. ~tx => writer' # p
  BY <1>2, <1>6 DEF Edits, DataOK, RInv
<1>8. View(p)' = w
  BY <1>6, <1>7 DEF View
<1>9. db'.recorded = db.recorded
  BY <1>6 DEF View, Known
<1>10. Migration(p)' = Migration(p) /\ Executed(p)' = Executed(p) \cup {k}
  <2>1. DataOK /\ Sound(p) /\ AtStatement(p) /\ proc' \in [Procs -> Process]
    BY <1>2 DEF RInv, Edits, Frame
  <2> QED
    BY <1>6, <2>1, AdvancesFacts
<1> HIDE DEF w, tx, v, s, k
<1>11. Made(n, p)'
  <2>1. ASSUME NEW op, NEW u, Done(p, op, u)' # {}
        PROVE  Done(p, op, u) # {} \/ (s.op = op /\ s.table = u)
    BY <1>4, <1>10, <2>1 DEF Done, Does
  <2>2. ASSUME NEW u \in Tables
        PROVE  /\ Done(p, "createNew", u)' # {} => Between(n + 1, n + 1, u, w.news[u])
               /\ Done(p, "rename", u)' # {} => Between(n + 1, n + 1, u, w.tables[u])
    BY <1>5, <2>1
  <2> QED
    BY <1>8, <2>2 DEF Made, Between
<1>12. Current(n, p)'
  BY <1>6, <1>9 DEF Exactly, Current
<1>13. Applied' = 1..n
  BY <1>9 DEF Exactly, Applied
<1>14. \A t \in Tables : Between(n, Then(n), t, db'.tables[t]) /\ Between(n, Then(n), t, pending'.tables[t])
  BY <1>5, <1>6 DEF Exactly, w
<1> QED
  BY <1>11, <1>12, <1>13, <1>14 DEF ExactOn, Exactly, Between

(* The files one after the other: n are recorded, and then n + 1.           *)
LEMMA RecordExact ==
    ASSUME RInv, Known, NEW p \in Procs, RecordUnavailable(p) \/ Record(p), NEW n \in 0..Final, Exactly(n),
           \A q \in Procs, k \in 0..Final : q # p => Current(k, q)' /\ Made(k, q)'
    PROVE  ExactOn
<1> DEFINE m == Migration(p)
           d == View(p)
           k == n + 1
<1>1. DataOK /\ Sound(p) /\ Reader(p) /\ pending.recorded = db.recorded /\ (writer = p => Applying(p))
  BY DEF RInv, Known, Sound, Placed
<1>2. /\ Passes(p) /\ writer' = Nobody /\ pending' = db'
      /\ db'.tables = d.tables /\ db'.recorded = db.recorded \cup {m}
      /\ m \in Unavailable \/ Records(p)
  <2>1. CASE RecordUnavailable(p)
    <3>1. writer # p
      BY <1>1, <2>1 DEF RecordUnavailable, Applying
    <3> QED
      BY <1>1, <2>1, <3>1, RecordUnavailableFacts DEF Marked, View
  <2>2. CASE Record(p)
    BY <1>1, <2>2, RecordFacts DEF Records, View
  <2> QED
    BY <2>1, <2>2
<1>3. k \in 1..Final /\ m = Order[k] /\ proc[p].at = k /\ m \in Migrations
  BY <1>2 DEF Passes, Pending, Exactly, Current, Migration
<1>4. Applied' = 1..k
  BY <1>2, <1>3, NextApplied DEF Exactly
<1>5. ASSUME NEW t \in Tables PROVE Between(k, k, t, d.tables[t])
  <2>1. Between(n, k, t, d.tables[t])
    <3>1. Then(n) = k
      BY <1>3, OrderFacts DEF Then
    <3> QED
      BY <3>1 DEF Exactly, View
  <2> HIDE DEF k, d
  <2>2. CASE m \in Unavailable \/ ~Rebuilds(m, t)
    <3>1. Schema[k - 1][t] \subseteq Schema[k][t] /\ k - 1 = n
      BY <1>3, <2>2, SchemaGrows DEF k
    <3> QED
      BY <2>1, <3>1 DEF Between
  <2>3. CASE m \notin Unavailable /\ Rebuilds(m, t)
    <3>1. AtRecord(p) /\ Applying(p)
      BY <1>2, <2>3 DEF Records, AtRecord, Applying
    <3>2. PICK j \in Does(m, "rename", t) : TRUE
      BY <1>3, <2>3, RebuildShape
    <3>3. j \in Executed(p)
      <4>1. proc[p].next \in Nat /\ Len(Script[m]) \in Nat /\ j \in 1..Len(Script[m]) /\ proc[p].next > Len(Script[m])
        BY <1>1, <1>3, <3>1, <3>2, TypeFacts, ScriptFacts DEF Process, AtRecord, Does
      <4> QED
        BY <4>1 DEF Executed
    <3>4. Done(p, "rename", t) # {}
      BY <3>2, <3>3 DEF Done
    <3> QED
      BY <3>1, <3>4 DEF Exactly, Made, k, d
  <2> QED
    BY <2>2, <2>3
<1>6. \A t \in Tables : Between(k, Then(k), t, db'.tables[t]) /\ Between(k, Then(k), t, pending'.tables[t])
  BY <1>2, <1>5 DEF Between
<1>7. Current(k, p)'
  <2> DEFINE applied == proc[p].applied
  <2>1. k + 1 \in 1..(Final + 1) /\ proc'[p].at = FirstFrom(k + 1, applied) /\ proc'[p].pc = "run"
    BY <1>2, <1>3, OrderFacts DEF Passes
  <2>2. /\ FirstFrom(k + 1, applied) \in (k + 1)..(Final + 1)
        /\ \A j \in (k + 1)..(FirstFrom(k + 1, applied) - 1) : Order[j] \in applied
    BY <2>1, FirstFromFacts
  <2>3. ASSUME FirstFrom(k + 1, applied) # k + 1 PROVE FALSE
    <3>1. k + 1 \in (k + 1)..(FirstFrom(k + 1, applied) - 1) /\ k + 1 \in 1..Final
      BY <2>1, <2>2, <2>3, OrderFacts
    <3>2. Order[k + 1] \in db.recorded
      BY <1>1, <1>2, <2>2, <3>1 DEF Reader, Passes, Pending, Ended
    <3>3. k + 1 \in 1..n
      BY <3>1, <3>2 DEF Exactly, Applied, Final
    <3> QED
      BY <3>3
  <2> QED
    BY <2>1, <2>3 DEF Current
<1>8. Made(k, p)'
  <2> HIDE DEF k
  <2> QED
    BY <1>2, ArriveMade DEF Passes
<1>9. k \in 0..Final
  BY <1>3
<1> HIDE DEF k
<1> QED
  BY <1>4, <1>6, <1>7, <1>8, <1>9 DEF ExactOn, Exactly, Between

(* What the repair adds is in the schema: no migration takes it away.       *)
LEMMA RepairExact ==
    ASSUME RInv, Known, NEW p \in Procs, Repair(p), NEW n \in 0..Final, Exactly(n),
           \A q \in Procs : q # p => Current(n, q)' /\ Made(n, q)'
    PROVE  ExactOn
<1> DEFINE applied == proc[p].applied
<1>1. DataOK /\ Reader(p) /\ Repairs(p) /\ proc[p].pc = "repair"
  BY RepairFacts DEF RInv, Known, Repair
<1>2. applied \subseteq db.recorded /\ db.recorded \subseteq Migrations \cup {Old} /\ \A i \in 1..n : Order[i] \in applied
  BY <1>1, TypeFacts DEF Reader, Ended, Database, Exactly, Current
<1>3. ASSUME NEW t \in Tables PROVE Again(applied, t) \subseteq Schema[n][t]
  <2> SUFFICES ASSUME NEW c \in Again(applied, t) PROVE c \in Schema[n][t]
    OBVIOUS
  <2>1. PICK m \in applied \ {Old} : \E s \in ToSet(Script[m]) : s.op = "column" /\ s.table = t /\ c \in s.cols
    BY DEF Again
  <2>2. PICK i \in 1..Final : Order[i] = m
    BY <1>2, OrderFacts
  <2>3. i \in 1..n
    BY <1>2, <2>1, <2>2 DEF Exactly, Applied, Final
  <2>4. c \in ColumnsOf(m, {"column"}, t)
    BY <2>1 DEF ColumnsOf
  <2>5. ColumnsOf(Order[i], {"column"}, t) \subseteq Schema[n][t]
    BY <2>3, AddedShape DEF Final
  <2> QED
    BY <2>2, <2>4, <2>5
<1>4. db'.recorded = db.recorded /\ Frame(p) /\ proc'[p].pc = "run" /\ proc'[p].at = FirstFrom(1, applied)
      /\ proc'[p].next = 1
  BY <1>1 DEF Repairs, SameData, RepairedData, RInv, Sound, Placed
<1>5. Applied' = 1..n
  BY <1>4 DEF Exactly, Applied
<1>6. ASSUME NEW t \in Tables
      PROVE  Between(n, Then(n), t, db'.tables[t]) /\ Between(n, Then(n), t, pending'.tables[t])
  <2>1. Between(n, Then(n), t, db.tables[t]) /\ Between(n, Then(n), t, pending.tables[t])
    BY DEF Exactly
  <2>2. CASE SameData
    BY <2>1, <2>2 DEF SameData
  <2>3. CASE RepairedData(applied)
    <3>1. pending' = db' /\ (db'.tables[t] # NoTable =>
             db.tables[t] # NoTable /\ db'.tables[t].cols = db.tables[t].cols \cup Again(applied, t))
      BY <2>3 DEF RepairedData
    <3> QED
      BY <1>3, <2>1, <3>1 DEF Between
  <2> QED
    BY <1>1, <2>2, <2>3 DEF Repairs
<1>7. Current(n, p)'
  <2>1. 1 \in 1..(Final + 1) /\ n \in Nat /\ Final \in Nat /\ n <= Final
    BY OrderFacts
  <2>2. /\ FirstFrom(1, applied) \in 1..(Final + 1)
        /\ FirstFrom(1, applied) <= Final => Order[FirstFrom(1, applied)] \notin applied
        /\ \A j \in 1..(FirstFrom(1, applied) - 1) : Order[j] \in applied
    BY <2>1, FirstFromFacts
  <2>3. FirstFrom(1, applied) > n
    BY <1>2, <2>1, <2>2
  <2>4. ASSUME FirstFrom(1, applied) > n + 1 PROVE FALSE
    <3>1. n + 1 \in 1..(FirstFrom(1, applied) - 1) /\ n + 1 \in 1..Final
      BY <2>1, <2>2, <2>4
    <3>2. n + 1 \in 1..n
      BY <1>2, <2>2, <3>1 DEF Exactly, Applied, Final
    <3> QED
      BY <3>2
  <2> QED
    BY <1>4, <2>1, <2>2, <2>3, <2>4 DEF Current
<1>8. Made(n, p)'
  BY <1>4, ArriveMade
<1> QED
  BY <1>4, <1>5, <1>6, <1>7, <1>8 DEF ExactOn, Exactly, Between

(* The other steps.                                                         *)
LEMMA SameExact ==
    ASSUME NEW n \in 0..Final, Exactly(n), Applied' = Applied, NEW p \in Procs,
           db'.tables \in {db.tables, pending.tables}, pending'.tables \in {db.tables, pending.tables},
           Current(n, p)' /\ Made(n, p)', \A q \in Procs : q # p => Current(n, q)' /\ Made(n, q)'
    PROVE  ExactOn
BY DEF ExactOn, Exactly, Between

LEMMA OtherStepsExact ==
    ASSUME RInv, Known, NEW p \in Procs, NEW n \in 0..Final, Exactly(n),
           Start(p) \/ RecordSplit(p) \/ BeginTransaction(p) \/ ForeignKeys(p) \/ CommitTransaction(p)
             \/ Raise(p) \/ Crash(p) \/ Finish(p),
           \A q \in Procs : q # p => Current(n, q)' /\ Made(n, q)'
    PROVE  ExactOn
<1>1. DataOK /\ Placed(p) /\ Reader(p) /\ Current(n, p) /\ Made(n, p)
  BY DEF RInv, Sound, Known, Exactly
<1>2. ASSUME db'.recorded = db.recorded PROVE Applied' = Applied
  BY <1>2 DEF Applied
<1>3. CASE Start(p)
  <2>1. Starts(p)
    BY <1>1, <1>3, StartFacts
  <2>2. Current(n, p)' /\ Made(n, p)'
    BY <2>1, ArriveMade DEF Starts, SameData, Current
  <2> QED
    BY <1>2, <2>1, <2>2, SameExact DEF Starts, SameData
<1>4. CASE RecordSplit(p)
  <2>1. RecordsSplit(p) /\ proc[p].pc = "split" /\ proc[p].applied = db.recorded
    BY <1>1, <1>4, RecordSplitFacts DEF RecordsSplit, Current
  <2>2. \A i \in 1..n : Order[i] \in db.recorded \/ (Old \in db.recorded /\ Order[i] \in Splits)
    BY DEF Exactly, Applied
  <2>3. proc'[p].pc = "repair" /\ Made(n, p)'
    BY <2>1, ArriveMade DEF RecordsSplit
  <2>4. CASE SameData /\ proc'[p].applied = proc[p].applied /\ (Old \in proc[p].applied => Splits \subseteq proc[p].applied)
    <3>1. Current(n, p)'
      BY <2>1, <2>2, <2>3, <2>4 DEF Current, SameData
    <3> QED
      BY <1>2, <2>3, <2>4, <3>1, SameExact DEF SameData
  <2>5. ASSUME NEW X \in SUBSET Splits, Marked(X), Splits \subseteq X \cup proc[p].applied,
               Old \in proc[p].applied, proc'[p].applied = db'.recorded
        PROVE  ExactOn
    <3>1. db'.recorded = db.recorded \cup X /\ Old \in db.recorded /\ pending' = db' /\ db'.tables = db.tables
      BY <2>1, <2>5 DEF Marked
    <3>2. Applied' = Applied
      BY <3>1, SameApplied
    <3>3. Current(n, p)'
      BY <2>1, <2>2, <2>3, <2>5, <3>1 DEF Current
    <3> QED
      BY <2>3, <3>1, <3>2, <3>3, SameExact
  <2> QED
    BY <2>1, <2>4, <2>5 DEF RecordsSplit
<1>5. CASE BeginTransaction(p) \/ ForeignKeys(p) \/ CommitTransaction(p)
  <2>1. Advances(p) /\ Statement(p).op \in {"begin", "off", "on", "commit"} /\ View(p)' = View(p)
        /\ db'.tables \in {db.tables, pending.tables} /\ pending' = pending /\ db'.recorded = db.recorded
    <3>1. CASE BeginTransaction(p) \/ ForeignKeys(p)
      <4>1. Pragmas(p)
        BY <1>1, <3>1, PragmaFacts
      <4> QED
        BY <4>1 DEF Pragmas, SameData, View
    <3>2. CASE CommitTransaction(p)
      <4>1. Commits(p)
        BY <1>1, <3>2, CommitFacts
      <4>2. Nobody # p /\ pending.recorded = db.recorded
        BY ProcsType DEF Known
      <4> QED
        BY <4>1, <4>2 DEF Commits, View
    <3> QED
      BY <1>5, <3>1, <3>2
  <2>2. /\ Applying(p) /\ Migration(p)' = Migration(p) /\ Executed(p)' = Executed(p) \cup {proc[p].next}
        /\ Op(p, proc[p].next) = Statement(p).op
    BY <1>1, <2>1, AdvancesFacts DEF RInv, Advances, Frame
  <2>3. \A t : Done(p, "createNew", t)' = Done(p, "createNew", t) /\ Done(p, "rename", t)' = Done(p, "rename", t)
    BY <2>1, <2>2 DEF Done, Does, Op
  <2>4. Made(n, p)'
    BY <1>1, <2>1, <2>2, <2>3 DEF Made, Between
  <2>5. Current(n, p)'
    BY <1>1, <2>1 DEF Current, Advances
  <2> QED
    BY <1>2, <2>1, <2>4, <2>5, SameExact
<1>6. CASE Raise(p) \/ Crash(p) \/ Finish(p)
  <2>1. Ends(p)
    BY <1>1, <1>6, Ending
  <2>2. Current(n, p)' /\ Made(n, p)'
    BY <2>1, EndedExact DEF Ends
  <2> QED
    BY <1>2, <2>1, <2>2, SameExact DEF Ends
<1> QED
  BY <1>3, <1>4, <1>5, <1>6

LEMMA RowAddedExact ==
    ASSUME RInv, RowAdded, NEW n \in 0..Final, Exactly(n)
    PROVE  ExactOn
<1>1. /\ writer = Nobody /\ writer' = Nobody /\ proc' = proc /\ pending' = db'
      /\ db'.news = db.news /\ db'.recorded = db.recorded
      /\ \A t \in Tables : db'.tables[t] # NoTable => db.tables[t] # NoTable /\ db'.tables[t].cols = db.tables[t].cols
  BY DEF RowAdded
<1>2. \A p \in Procs : View(p) = db /\ View(p)' = db'
  BY <1>1, ProcsType DEF View
<1>3. ASSUME NEW p \in Procs PROVE Current(n, p)' /\ Made(n, p)'
  <2>1. Current(n, p) /\ Made(n, p)
    BY DEF Exactly
  <2>2. Applying(p)' = Applying(p) /\ \A op, t : Done(p, op, t)' = Done(p, op, t)
    BY <1>1, SameStatement DEF Done
  <2>3. Made(n, p)'
    BY <1>1, <1>2, <2>1, <2>2 DEF Made, Between
  <2> QED
    BY <1>1, <2>1, <2>3 DEF Current
<1>4. Applied' = 1..n
  BY <1>1 DEF Exactly, Applied
<1>5. \A t \in Tables : Between(n, Then(n), t, db'.tables[t]) /\ Between(n, Then(n), t, pending'.tables[t])
  BY <1>1 DEF Exactly, Between
<1> QED
  BY <1>3, <1>4, <1>5 DEF ExactOn, Exactly, Between

LEMMA StepFrame == ASSUME RInv, NEW p \in Procs, Start(p) \/ Step(p) \/ Crash(p) PROVE Frame(p)
<1>1. DataOK /\ Placed(p) /\ proc[p].next # 0
  BY DEF RInv, Sound, Placed
<1>2. CASE Start(p) \/ RecordSplit(p) \/ Repair(p)
  BY <1>1, <1>2, StartFacts, RecordSplitFacts, RepairFacts DEF Starts, RecordsSplit, Repairs
<1>3. CASE RecordUnavailable(p)
  <2>1. writer # p
    BY <1>1, <1>3 DEF Placed, Applying, RecordUnavailable
  <2> QED
    BY <1>1, <1>3, <2>1, RecordUnavailableFacts DEF Passes
<1>4. CASE Record(p)
  BY <1>1, <1>4, RecordFacts DEF Passes
<1>5. CASE Edit(p)
  BY <1>1, <1>5, EditFacts DEF Edits
<1>6. CASE BeginTransaction(p) \/ ForeignKeys(p)
  BY <1>1, <1>6, PragmaFacts DEF Pragmas, Advances
<1>7. CASE CommitTransaction(p)
  BY <1>1, <1>7, CommitFacts DEF Commits, Advances
<1>8. CASE Raise(p) \/ Crash(p) \/ Finish(p)
  BY <1>1, <1>8, Ending DEF Ends
<1> QED
  BY <1>2, <1>3, <1>4, <1>5, <1>6, <1>7, <1>8 DEF Step, Edit

LEMMA AloneStays ==
    ASSUME RInv, OneAtATime, [Next]_vars, ~beside'
    PROVE  OneAtATime'
<1>1. CASE UNCHANGED vars \/ \E t \in Tables, r \in Rows : AddRow(t, r)
  <2>1. proc' = proc
    BY <1>1 DEF vars, AddRow
  <2> QED
    BY <2>1 DEF OneAtATime
<1>2. ASSUME NEW p \in Procs, Start(p) PROVE OneAtATime'
  <2>1. Frame(p)
    BY <1>2, StepFrame DEF RInv
  <2>2. \A q \in Procs : proc[q].pc \in Ended
    BY <1>2 DEF Start
  <2> QED
    BY <2>1, <2>2 DEF Frame, OneAtATime
<1>3. ASSUME NEW p \in Procs, Step(p) \/ Crash(p) PROVE OneAtATime'
  <2>1. Frame(p) /\ proc[p].pc \notin Ended
    BY <1>3, StepFrame, StepRuns DEF RInv
  <2> QED
    BY <2>1 DEF Frame, OneAtATime
<1> QED
  BY <1>1, <1>2, <1>3 DEF Next

LEMMA StepExact ==
    ASSUME RInv, Known, Exact, [Next]_vars, OneAtATime'
    PROVE  Exact'
<1>1. PICK n \in 0..Final : Exactly(n)
  BY DEF Exact
<1>2. CASE UNCHANGED vars
  <2>1. db' = db /\ pending' = pending /\ writer' = writer /\ proc' = proc
    BY <1>2 DEF vars
  <2>2. OneAtATime'
    BY <2>1 DEF Exact, OneAtATime
  <2>3. ASSUME NEW p \in Procs PROVE Current(n, p)' /\ Made(n, p)'
    <3>1. Current(n, p) /\ Made(n, p)
      BY <1>1 DEF Exactly
    <3>2. Applying(p)' = Applying(p) /\ View(p)' = View(p) /\ \A op, t : Done(p, op, t)' = Done(p, op, t)
      BY <2>1, SameStatement DEF Done, View
    <3> QED
      BY <2>1, <3>1, <3>2 DEF Current, Made, Between
  <2>4. Exactly(n)'
    BY <1>1, <2>1, <2>3 DEF Exactly, Applied, Between
  <2> QED
    BY <2>2, <2>4 DEF Exact
<1>3. CASE \E t \in Tables, r \in Rows : AddRow(t, r)
  <2>1. RowAdded
    BY <1>3, AddRowFacts DEF RInv
  <2>2. OneAtATime'
    BY <2>1 DEF Exact, OneAtATime, RowAdded
  <2> QED
    BY <1>1, <2>1, <2>2, RowAddedExact DEF Exact, ExactOn
<1>4. ASSUME NEW p \in Procs, Start(p) \/ Step(p) \/ Crash(p), OneAtATime' PROVE Exact'
  <2>1. Frame(p)
    BY <1>4, StepFrame
  <2>2. \A q \in Procs, k \in 0..Final : q # p => Current(k, q)' /\ Made(k, q)'
    BY <1>4, <2>1, OthersExact DEF Exact, RInv
  <2>3. ExactOn
    <3>1. CASE Edit(p)
      BY <1>1, <2>2, <3>1, EditExact
    <3>2. CASE RecordUnavailable(p) \/ Record(p)
      BY <1>1, <2>2, <3>2, RecordExact
    <3>3. CASE Repair(p)
      BY <1>1, <2>2, <3>3, RepairExact
    <3>4. CASE Start(p) \/ RecordSplit(p) \/ BeginTransaction(p) \/ ForeignKeys(p) \/ CommitTransaction(p)
                 \/ Raise(p) \/ Crash(p) \/ Finish(p)
      BY <1>1, <2>2, <3>4, OtherStepsExact
    <3> QED
      BY <1>4, <3>1, <3>2, <3>3, <3>4 DEF Step, Edit
  <2> QED
    BY <1>4, <2>3 DEF Exact, ExactOn
<1> QED
  BY <1>2, <1>3, <1>4 DEF Next

LEMMA InitExact == ASSUME Init PROVE Exact
<1>1. pending = db /\ \A p \in Procs : proc[p].pc \in Ended
  BY DEF Init, Ended
<1>2. PICK n \in 0..Final, recorded \in SUBSET (Migrations \cup {Old}) : db = With(n, recorded) /\ Applied = 1..n
  BY InitAt
<1>3. ASSUME NEW t \in Tables PROVE Between(n, Then(n), t, db.tables[t])
  BY <1>2, WithFacts DEF Between
<1>4. ASSUME NEW p \in Procs PROVE Current(n, p) /\ Made(n, p)
  BY <1>1 DEF Current, Made, Applying, Pending, Ended
<1>5. OneAtATime
  BY <1>1 DEF OneAtATime
<1> QED
  BY <1>1, <1>2, <1>3, <1>4, <1>5 DEF Exact, Exactly

(* Until two processes migrate at a time, whichever does and wherever it    *)
(* dies, a table has no column but those of the schema of the recorded      *)
(* migrations and of the next one: what one takes away does not come back,  *)
(* not by the repair either.                                               *)
THEOREM NothingIsLeftOver == Spec => []NothingLeftOver
<1>1. Init => RInv /\ Known /\ (~beside => Exact)
  BY InitRInv, InitKnown, InitExact
<1>2. RInv /\ Known /\ (~beside => Exact) /\ [Next]_vars => (RInv /\ Known /\ (~beside => Exact))'
  <2> SUFFICES ASSUME RInv, Known, ~beside => Exact, [Next]_vars
               PROVE  RInv' /\ Known' /\ (~beside' => Exact')
    OBVIOUS
  <2>1. ASSUME ~beside' PROVE Exact'
    <3>1. ~beside
      BY <2>1, BesideFacts
    <3>2. Exact /\ OneAtATime'
      BY <2>1, <3>1, AloneStays DEF Exact
    <3> QED
      BY <3>2, StepExact
  <2> QED
    BY <2>1, StepKeeps, StepKnown
<1>3. ASSUME Exact PROVE NothingLeftOver
  <2>1. PICK n \in 0..Final : Exactly(n)
    BY <1>3 DEF Exact
  <2>2. ASSUME NEW k \in 0..Len(Order), NEW t \in Tables, Applied = 1..k
        PROVE  ColumnsIn(t) \subseteq Schema[k][t] \cup Schema[Upcoming(k)][t]
    <3>1. k = n
      <4>1. k \in Nat /\ n \in Nat /\ 1..k = 1..n
        BY <2>1, <2>2, OrderFacts DEF Exactly, Final
      <4> QED
        BY <4>1, RangesEqual
    <3>2. Between(n, Then(n), t, db.tables[t]) /\ Then(n) = Upcoming(n)
      BY <2>1 DEF Exactly, Then, Upcoming, Final
    <3> QED
      BY <3>1, <3>2 DEF Between, ColumnsIn
  <2> QED
    BY <2>2 DEF NothingLeftOver
<1>4. (~beside => Exact) => NothingLeftOver
  BY <1>3 DEF NothingLeftOver
<1> QED
  BY <1>1, <1>2, <1>4, PTL DEF Spec
=============================================================================
