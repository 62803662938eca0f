----------------------------- MODULE LedgerProofs -----------------------------
(***************************************************************************)
(* Theorems of the module Ledger, for any commits, platforms, epics and    *)
(* bounds.                                                                 *)
(*                                                                         *)
(* One lemma carries them: RowsAlways says of any step what it may do to a *)
(* row that exists (Kept) and where a new row comes from (NewRow).         *)
(***************************************************************************)
EXTENDS Ledger, FiniteSetTheorems, TLAPS

USE DEF ingests

-----------------------------------------------------------------------------
(* The operators on the table                                               *)

Tables == [Keys -> Row \cup {NoRow}]

LEMMA RowOrNot ==
    ASSUME NEW r \in Row \cup {NoRow}
    PROVE  /\ r = NoRow <=> r.platform = NoPlatform
           /\ r \in Row <=> r.platform \in Platforms
           /\ r \in Row <=> r # NoRow
BY PlatformsType DEF Row, NoRow

LEMMA MarkedTable ==
    ASSUME NEW table \in Tables, NEW ks, \A k \in ks \cap Keys : table[k] \in Row
    PROVE  /\ Marked(table, ks) \in Tables
           /\ \A k \in Keys :
                /\ Marked(table, ks)[k] \in {table[k], [table[k] EXCEPT !.reconciled = TRUE]}
                /\ Marked(table, ks)[k].platform = table[k].platform
                /\ Marked(table, ks)[k].epic = table[k].epic
                /\ Marked(table, ks)[k].source = table[k].source
                /\ table[k] = NoRow => Marked(table, ks)[k] = NoRow
                /\ k \in ks => Marked(table, ks)[k].reconciled
                /\ k \notin ks => Marked(table, ks)[k] = table[k]
<1> DEFINE mark(k) == [table[k] EXCEPT !.reconciled = TRUE]
<1>1. ASSUME NEW k \in Keys, k \in ks
      PROVE  /\ mark(k) \in Row /\ mark(k).platform = table[k].platform
             /\ mark(k).epic = table[k].epic /\ mark(k).source = table[k].source
             /\ mark(k).reconciled /\ table[k] # NoRow
  <2>1. table[k] \in Row
    BY <1>1
  <2> QED
    BY <2>1, RowOrNot DEF Row
<1> QED
  BY <1>1 DEF Marked, Tables

LEMMA InsertedTable ==
    ASSUME NEW new, rows \in Tables, \A k \in DOMAIN new \cap Keys : new[k] \in Row
    PROVE  /\ Inserted(new) \in Tables
           /\ \A k \in Keys :
                /\ rows[k] # NoRow => Inserted(new)[k] = rows[k]
                /\ rows[k] = NoRow /\ Inserted(new)[k] # NoRow
                     => k \in DOMAIN new /\ Inserted(new)[k] = new[k]
BY DEF Inserted, Tables

LEMMA PendingRows ==
    ASSUME TypeOK, NEW p \in Platforms
    PROVE  /\ Pending(p) \subseteq Keys
           /\ \A k \in Pending(p) : rows[k] \in Row /\ rows[k].platform = p
BY RowOrNot DEF TypeOK, Pending, RowsOf

LEMMA HookRow ==
    ASSUME TypeOK, hook # NoCommit, NEW k \in DOMAIN HookRows(hook)
    PROVE  /\ k \in Keys /\ k[1] = hook
           /\ HookRows(hook)[k] \in Row
           /\ HookRows(hook)[k].source = "hook"
           /\ ~HookRows(hook)[k].reconciled
           /\ k[2] \in {Raw, HookRows(hook)[k].platform}
<1> DEFINE ps == HookPlatforms(hook)
           key(p) == IF Cardinality(ps) > 1 THEN <<hook, p>> ELSE <<hook, Raw>>
           who == CHOOSE p \in ps : key(p) = k
<1>1. hook \in Commits /\ hosted \subseteq Commits
  BY DEF TypeOK
<1>2. via[hook] \in Epics \cup {NoEpic} /\ change[hook] \in Changes \cup {NoChange}
  BY <1>1 DEF TypeOK
<1>3. ps \subseteq Platforms
  BY <1>2, EpicsType, CheckoutType, ChangesType DEF HookPlatforms, NoChange
<1>4. LocalEpic(hook, via[hook]) \in EpicIds
  BY <1>2 DEF LocalEpic, EpicIds
<1>5. HookRows(hook) = [l \in {key(p) : p \in ps} |->
           [platform |-> CHOOSE p \in ps : key(p) = l, epic |-> LocalEpic(hook, via[hook]),
            source |-> "hook", reconciled |-> FALSE]]
  BY DEF HookRows
<1>6. k \in {key(p) : p \in ps}
  BY <1>5
<1>7. who \in ps /\ key(who) = k
  BY <1>6
<1>8. HookRows(hook)[k] = [platform |-> who, epic |-> LocalEpic(hook, via[hook]),
                           source |-> "hook", reconciled |-> FALSE]
  BY <1>5, <1>6
<1>9. k = <<hook, who>> \/ k = <<hook, Raw>>
  BY <1>7
<1>10. who \in Platforms
  BY <1>3, <1>7
<1> HIDE DEF who
<1>11. HookRows(hook)[k] \in Row
  BY <1>4, <1>8, <1>10 DEF Row, Sources
<1>12. HookRows(hook)[k].platform = who
  BY <1>8
<1> QED
  BY <1>1, <1>8, <1>9, <1>10, <1>11, <1>12 DEF Keys

LEMMA OpenIngest ==
    ASSUME TypeOK, NEW i \in Ingesters, Open(i)
    PROVE  ingest[i] \in Reads /\ ingest[i].platform \in Platforms
BY DEF TypeOK, Open, Reads

LEMMA IngestRowType ==
    ASSUME TypeOK, NEW i \in Ingesters, Open(i), NEW c \in Commits
    PROVE  /\ IngestRow(i, c) \in Row
           /\ IngestRow(i, c).platform = ingest[i].platform
           /\ IngestRow(i, c).source = "external-fetch"
           /\ IngestRow(i, c).epic \notin Numbers
           /\ IngestRow(i, c).reconciled => IngestRow(i, c).epic \in ingest[i].approved
<1> DEFINE p == ingest[i].platform
           own(es) == {e \in es : Owner[e] = p /\ e = change[c].tag}
           numbered(es) == {e \in es : Owner[e] = p /\ Number[e] = change[c].tag}
           only(es) == IF Cardinality(es) = 1 THEN CHOOSE e \in es : TRUE ELSE NoEpic
           approved == ingest[i].approved
           slug == Normalized(change[c].tag, approved, p)
           epic == ResolvedEpic(p, c, approved)
<1>1. approved \subseteq Epics /\ p \in Platforms
  BY OpenIngest DEF Reads
<1>2. ASSUME NEW es, es \subseteq Epics
      PROVE  only(es) \in Epics \cup {NoEpic}
  BY <1>2, FS_EmptySet
<1>3. own(Epics) \subseteq Epics /\ numbered(Epics) \subseteq Epics /\ numbered(approved) \subseteq Epics
  BY <1>1
<1>4. slug \in {only(own(Epics)), only(numbered(approved)), only(numbered(Epics))}
  BY DEF Normalized
<1>5. slug \in Epics \cup {NoEpic}
  <2> HIDE DEF own, numbered, only, slug
  <2> QED
    BY <1>2, <1>3, <1>4
<1>6. MergedFor(p, c) \in Epics \cup {NoEpic}
  BY DEF MergedFor, TypeOK
<1>7. epic \in Epics \cup {NoEpic}
  <2>1. epic \in {slug, MergedFor(p, c)}
    BY DEF ResolvedEpic
  <2> HIDE DEF slug, epic
  <2> QED
    BY <1>5, <1>6, <2>1
<1>8. IngestRow(i, c) = [platform |-> p, epic |-> epic, source |-> "external-fetch",
                         reconciled |-> epic \in approved]
  BY DEF IngestRow
<1>9. epic \notin Numbers /\ epic \in EpicIds
  <2> HIDE DEF epic
  <2> QED
    BY <1>7, EpicsType DEF EpicIds
<1> HIDE DEF epic, p
<1>10. IngestRow(i, c) \in Row
  BY <1>1, <1>8, <1>9 DEF Row, Sources
<1>11. IngestRow(i, c).platform = p /\ IngestRow(i, c).source = "external-fetch"
  BY <1>8
<1>12. IngestRow(i, c).epic = epic
  BY <1>8
<1>13. IngestRow(i, c).reconciled = (epic \in approved)
  BY <1>8
<1> QED
  BY <1>9, <1>10, <1>11, <1>12, <1>13 DEF p

LEMMA FreshKey ==
    ASSUME TypeOK, NEW i \in Ingesters, Open(i), NEW k \in FreshKeys(i)
    PROVE  /\ k \in Keys /\ k[1] \in Fresh(i) /\ k[2] \in {ingest[i].platform, Raw}
           /\ k = StoredKey(i, k[1])
<1>1. PICK c \in Fresh(i) : k = StoredKey(i, c)
  BY DEF FreshKeys
<1>2. c \in Commits
  BY DEF Fresh, TypeOK, Reads
<1> QED
  BY <1>1, <1>2, OpenIngest DEF StoredKey, Keys

(* What the writes of an ingest make of the table.                          *)
LEMMA WrittenTable ==
    ASSUME TypeOK, NEW i \in Ingesters, Open(i), ~Conflict(i)
    PROVE  LET table == Upgraded(i, Ingested(i))
               p     == ingest[i].platform IN
           /\ table \in Tables
           /\ \A k \in Keys :
                /\ rows[k] # NoRow => table[k] \in {rows[k], [rows[k] EXCEPT !.reconciled = TRUE]}
                /\ rows[k] = NoRow /\ table[k] # NoRow => k \in FreshKeys(i)
                /\ k \in FreshKeys(i) =>
                     /\ rows[k] = NoRow
                     /\ table[k].platform = p
                     /\ table[k].source = "external-fetch"
                     /\ table[k].epic \notin Numbers
                     /\ table[k].reconciled => table[k].epic \in ingest[i].approved
                /\ table[k].platform = p /\ table[k].epic \in ingest[i].approved => table[k].reconciled
                /\ rows[k] # NoRow /\ table[k] # rows[k]
                     => /\ rows[k].platform = p
                        /\ k[1] \notin ingest[i].remote \/ rows[k].epic \in ingest[i].approved
<1> DEFINE p     == ingest[i].platform
           swept == Marked(rows, Orphans(i))
           due   == {k \in Keys : Ingested(i)[k].platform = p /\ Ingested(i)[k].epic \in ingest[i].approved}
<1>1. rows \in Tables /\ p \in Platforms
  BY OpenIngest DEF TypeOK, Tables
<1>2. /\ Orphans(i) \subseteq Keys
      /\ \A k \in Orphans(i) : rows[k] \in Row /\ rows[k].platform = p /\ k[1] \notin ingest[i].remote
  BY <1>1, PendingRows DEF Orphans
<1>3. \A k \in FreshKeys(i) : /\ k \in Keys /\ rows[k] = NoRow
                              /\ IngestRow(i, k[1]) \in Row
                              /\ IngestRow(i, k[1]).platform = p
                              /\ IngestRow(i, k[1]).source = "external-fetch"
                              /\ IngestRow(i, k[1]).epic \notin Numbers
                              /\ IngestRow(i, k[1]).reconciled
                                   => IngestRow(i, k[1]).epic \in ingest[i].approved
  <2>1. \A k \in FreshKeys(i) : k \in Keys /\ k[1] \in Commits
    BY FreshKey DEF Keys
  <2> QED
    BY <2>1, IngestRowType DEF Conflict
<1>4. Ingested(i) = [k \in Keys |-> IF k \in FreshKeys(i) THEN IngestRow(i, k[1]) ELSE swept[k]]
  BY DEF Ingested
<1>5. Upgraded(i, Ingested(i)) = Marked(Ingested(i), due)
  BY DEF Upgraded
<1> HIDE DEF swept
<1>6. swept \in Tables
  BY <1>1, <1>2, MarkedTable DEF swept
<1>7. Ingested(i) \in Tables
  BY <1>3, <1>4, <1>6 DEF Tables
<1>8. ASSUME NEW k \in due PROVE Ingested(i)[k] \in Row
  <2>1. k \in Keys /\ Ingested(i)[k].platform \in Platforms
    BY <1>1
  <2>2. Ingested(i)[k] \in Row \cup {NoRow}
    BY <1>7, <2>1 DEF Tables
  <2> QED
    BY <2>1, <2>2, RowOrNot
<1> HIDE DEF due
<1> DEFINE table == Marked(Ingested(i), due)
<1>9. table \in Tables
  BY <1>7, <1>8, MarkedTable
<1>10. ASSUME NEW k \in Keys
       PROVE  /\ table[k] \in {Ingested(i)[k], [Ingested(i)[k] EXCEPT !.reconciled = TRUE]}
              /\ table[k].platform = Ingested(i)[k].platform
              /\ table[k].epic = Ingested(i)[k].epic
              /\ table[k].source = Ingested(i)[k].source
              /\ Ingested(i)[k] = NoRow => table[k] = NoRow
              /\ k \in due => table[k].reconciled
              /\ k \notin due => table[k] = Ingested(i)[k]
  BY <1>7, <1>8, MarkedTable
<1>11. ASSUME NEW k \in Keys
       PROVE  /\ swept[k] \in {rows[k], [rows[k] EXCEPT !.reconciled = TRUE]}
              /\ swept[k].platform = rows[k].platform
              /\ swept[k].epic = rows[k].epic
              /\ rows[k] = NoRow => swept[k] = NoRow
              /\ k \notin Orphans(i) => swept[k] = rows[k]
  BY <1>1, <1>2, MarkedTable DEF swept
<1> HIDE DEF table
<1>12. ASSUME NEW k \in Keys, k \in FreshKeys(i)
       PROVE  /\ table[k].platform = p
              /\ table[k].source = "external-fetch"
              /\ table[k].epic \notin Numbers
              /\ table[k].reconciled => table[k].epic \in ingest[i].approved
  <2>1. Ingested(i)[k] = IngestRow(i, k[1])
    BY <1>4, <1>12
  <2> QED
    BY <2>1, <1>3, <1>10, <1>12 DEF due
<1>13. ASSUME NEW k \in Keys, rows[k] # NoRow
       PROVE  /\ table[k] \in {rows[k], [rows[k] EXCEPT !.reconciled = TRUE]}
              /\ table[k] # rows[k]
                   => /\ rows[k].platform = p
                      /\ k[1] \notin ingest[i].remote \/ rows[k].epic \in ingest[i].approved
  <2>1. Ingested(i)[k] = swept[k]
    BY <1>3, <1>4, <1>13
  <2>2. rows[k] \in Row
    BY <1>1, <1>13 DEF Tables
  <2>3. table[k] \in {rows[k], [rows[k] EXCEPT !.reconciled = TRUE]}
    BY <2>1, <2>2, <1>10, <1>11 DEF Row
  <2>4. table[k] # rows[k] => k \in due \/ k \in Orphans(i)
    BY <2>1, <1>10, <1>11
  <2>5. k \in due => rows[k].platform = p /\ rows[k].epic \in ingest[i].approved
    BY <2>1, <1>11 DEF due
  <2> QED
    BY <2>3, <2>4, <2>5, <1>2
<1>14. ASSUME NEW k \in Keys
       PROVE  /\ rows[k] = NoRow /\ table[k] # NoRow => k \in FreshKeys(i)
              /\ table[k].platform = p /\ table[k].epic \in ingest[i].approved => table[k].reconciled
  BY <1>4, <1>10, <1>11 DEF due
<1>15. Upgraded(i, Ingested(i)) = table
  BY <1>5 DEF table
<1> QED
  BY <1>3, <1>9, <1>12, <1>13, <1>14, <1>15

-----------------------------------------------------------------------------
(* What a step does to the table                                            *)

Kept(k) == rows[k] # NoRow => rows'[k] \in {rows[k], [rows[k] EXCEPT !.reconciled = TRUE]}

ByHook(k) == /\ hook # NoCommit /\ hook' = NoCommit
             /\ k \in DOMAIN HookRows(hook) /\ k[1] = hook
             /\ rows'[k].source = "hook" /\ k[2] \in {Raw, rows'[k].platform}
             /\ ~rows'[k].reconciled

ByRecovery(k) == /\ k[1] \in hosted /\ k[2] = Raw
                 /\ rows'[k].source \in {"reseed", "backfill"}
                 /\ ~rows'[k].reconciled

ByIngest(k, i) == /\ Open(i) /\ ~Open(i)'
                  /\ k \in FreshKeys(i) /\ rows'[k].platform = ingest[i].platform
                  /\ rows'[k].source = "external-fetch"
                  /\ rows'[k].epic \notin Numbers
                  /\ rows'[k].reconciled => rows'[k].epic \in ingest[i].approved

NewRow(k) == rows[k] = NoRow /\ rows'[k] # NoRow
                => ByHook(k) \/ ByRecovery(k) \/ \E i \in Ingesters : ByIngest(k, i)

RowsStep == rows' \in Tables /\ \A k \in Keys : Kept(k) /\ NewRow(k)

LEMMA MarkingStep ==
    ASSUME TypeOK, NEW p \in Platforms, NEW ks, ks \subseteq Pending(p), rows' = Marked(rows, ks)
    PROVE  RowsStep
<1>1. rows \in Tables /\ \A k \in ks \cap Keys : rows[k] \in Row
  BY PendingRows DEF TypeOK, Tables
<1> QED
  BY <1>1, MarkedTable DEF RowsStep, Kept, NewRow

LEMMA InsertingStep ==
    ASSUME TypeOK, NEW new, rows' = Inserted(new),
           \A k \in DOMAIN new \cap Keys : new[k] \in Row,
           \A k \in DOMAIN new \cap Keys : rows'[k] = new[k] => ByHook(k) \/ ByRecovery(k)
    PROVE  RowsStep
<1>1. rows \in Tables
  BY DEF TypeOK, Tables
<1> QED
  BY <1>1, InsertedTable DEF RowsStep, Kept, NewRow

LEMMA RowsAlways == TypeOK /\ [Next]_vars => RowsStep
<1> SUFFICES ASSUME TypeOK, [Next]_vars PROVE RowsStep
  OBVIOUS
<1> USE DEF git
<1>1. CASE UNCHANGED rows
  BY <1>1 DEF RowsStep, Kept, NewRow, TypeOK, Tables
<1>2. CASE Hook
  <2>1. \A k \in DOMAIN HookRows(hook) \cap Keys :
          /\ HookRows(hook)[k] \in Row
          /\ rows'[k] = HookRows(hook)[k] => ByHook(k)
    BY <1>2, HookRow DEF Hook, ByHook
  <2> QED
    BY <1>2, <2>1, InsertingStep DEF Hook
<1>3. ASSUME NEW p \in Platforms, NEW branch \in Epics \cup {NoEpic}, Reseed(p, branch)
      PROVE  RowsStep
  <2> DEFINE new == [k \in {<<newest, Raw>>} |-> ReseedRow(p, newest, branch)]
  <2>1. newest \in hosted /\ newest \in Commits /\ change[newest] \in Changes \cup {NoChange}
    BY <1>3 DEF Reseed, TypeOK
  <2>2. ReseedRow(p, newest, branch) \in Row /\ ReseedRow(p, newest, branch).source = "reseed"
        /\ ~ReseedRow(p, newest, branch).reconciled
    BY <2>1 DEF ReseedRow, LocalEpic, EpicIds, Row, Sources
  <2>3. \A k \in DOMAIN new \cap Keys : new[k] \in Row /\ (rows'[k] = new[k] => ByRecovery(k))
    BY <2>1, <2>2 DEF ByRecovery
  <2>4. rows' = Inserted(new)
    BY <1>3 DEF Reseed
  <2> HIDE DEF new
  <2> QED
    BY <2>3, <2>4, InsertingStep
<1>4. CASE Backfill
  <2> DEFINE new == [k \in main \X {Raw} |-> BackfillRow(k[1])]
  <2>1. ASSUME NEW k \in main \X {Raw}
        PROVE  /\ k[1] \in hosted /\ k[2] = Raw
               /\ BackfillRow(k[1]) \in Row /\ BackfillRow(k[1]).source = "backfill"
               /\ ~BackfillRow(k[1]).reconciled
    <3>1. k[1] \in hosted /\ k[1] \in Commits /\ k[2] = Raw
      BY DEF TypeOK
    <3>2. change[k[1]] \in Changes \cup {NoChange} /\ via[k[1]] \in Epics \cup {NoEpic}
      BY <3>1 DEF TypeOK
    <3>3. change[k[1]].first \in Platforms /\ Fallback \in Platforms
      BY <3>2, ChangesType, CheckoutType DEF NoChange
    <3> QED
      BY <3>1, <3>2, <3>3 DEF BackfillRow, EpicIds, Row, Sources
  <2>2. \A k \in DOMAIN new \cap Keys : new[k] \in Row /\ (rows'[k] = new[k] => ByRecovery(k))
    BY <2>1 DEF ByRecovery
  <2>3. rows' = Inserted(new)
    BY <1>4 DEF Backfill
  <2> HIDE DEF new
  <2> QED
    BY <2>2, <2>3, InsertingStep
<1>5. ASSUME NEW i \in Ingesters, WriteIngest(i) PROVE RowsStep
  <2> DEFINE table == Upgraded(i, Ingested(i))
  <2>1. rows' = table /\ ~Conflict(i) /\ Open(i) /\ ~Open(i)'
    BY <1>5 DEF WriteIngest, Closes, Open, TypeOK, NoIngest
  <2>2. /\ table \in Tables
        /\ \A k \in Keys :
             /\ rows[k] # NoRow => table[k] \in {rows[k], [rows[k] EXCEPT !.reconciled = TRUE]}
             /\ rows[k] = NoRow /\ table[k] # NoRow => k \in FreshKeys(i)
             /\ k \in FreshKeys(i) => /\ table[k].platform = ingest[i].platform
                                      /\ table[k].source = "external-fetch"
                                      /\ table[k].epic \notin Numbers
                                      /\ table[k].reconciled => table[k].epic \in ingest[i].approved
    BY <2>1, WrittenTable
  <2> HIDE DEF table
  <2> QED
    BY <2>1, <2>2 DEF RowsStep, Kept, NewRow, ByIngest
<1>6. ASSUME NEW p \in Platforms, NEW backlog, AssumeReconciled(p, backlog) PROVE RowsStep
  BY <1>6, MarkingStep DEF AssumeReconciled
<1>7. ASSUME NEW e \in Epics, MarkEpic(e) PROVE RowsStep
  <2>1. Owner[e] \in Platforms
    BY EpicsType
  <2> QED
    BY <1>7, <2>1, MarkingStep DEF MarkEpic
<1>8. ASSUME NEW p \in Platforms, NEW ks, MarkShas(p, ks) PROVE RowsStep
  BY <1>8, MarkingStep DEF MarkShas
<1>9. ASSUME NEW p \in Platforms, NEW part, MarkAuto(p, part) PROVE RowsStep
  BY <1>8, <1>9 DEF MarkAuto
<1>10. ASSUME NEW p \in Platforms, MarkPatched(p) PROVE RowsStep
  BY <1>8, <1>10 DEF MarkPatched
<1>11. CASE Repositories
  BY <1>1, <1>11 DEF Repositories, HostCommit, MergeEpic, Push, BoundCommit
<1>12. CASE Capture
  BY <1>1, <1>2, <1>3, <1>4, <1>12 DEF Capture, HookFails
<1>13. ASSUME NEW i \in Ingesters, Ingests(i) PROVE RowsStep
  BY <1>1, <1>5, <1>13 DEF Ingests, BeginIngest, IngestFails
<1>14. ASSUME NEW p \in Platforms, Reconciles(p) PROVE RowsStep
  BY <1>1, <1>6, <1>9, <1>10, <1>14 DEF Reconciles, Triage, Aggregate, EndSession, ApplyPatches
<1>15. ASSUME NEW e \in Epics, ApproveEpic(e) \/ MarkEpic(e) PROVE RowsStep
  BY <1>1, <1>7, <1>15 DEF ApproveEpic
<1>16. CASE UNCHANGED vars
  BY <1>1, <1>16 DEF vars
<1> QED
  BY <1>11, <1>12, <1>13, <1>14, <1>15, <1>16 DEF Next

-----------------------------------------------------------------------------
(* Types                                                                    *)

LEMMA TypeInit == Init => TypeOK
<1> SUFFICES ASSUME Init PROVE TypeOK
  OBVIOUS
<1>2. NoIngest \in Reads /\ NoSession \in Work
  BY DEF NoIngest, Reads, NoSession, Work
<1>3. NoRow.source # "external-fetch"
  BY DEF NoRow
<1> QED
  BY <1>2, <1>3, BoundsType DEF Init, TypeOK

LEMMA TypeStep == TypeOK /\ [Next]_vars => TypeOK'
<1> SUFFICES ASSUME TypeOK, [Next]_vars PROVE TypeOK'
  OBVIOUS
<1>1. /\ rows' \in [Keys -> Row \cup {NoRow}]
      /\ \A k \in Keys : rows'[k].source = "external-fetch" => rows'[k].epic \notin Numbers
  <2>1. RowsStep
    BY RowsAlways
  <2>2. ASSUME NEW k \in Keys, rows'[k].source = "external-fetch"
        PROVE  rows'[k].epic \notin Numbers
    <3>1. CASE rows[k] = NoRow
      <4>1. rows'[k] # NoRow
        BY <2>2 DEF NoRow
      <4> QED
        BY <2>1, <2>2, <3>1, <4>1 DEF RowsStep, NewRow, ByHook, ByRecovery, ByIngest
    <3>2. CASE rows[k] # NoRow
      <4>1. rows[k] \in Row
        BY <3>2 DEF TypeOK
      <4>2. rows'[k].source = rows[k].source /\ rows'[k].epic = rows[k].epic
        BY <2>1, <3>2, <4>1 DEF RowsStep, Kept, Row
      <4> QED
        BY <2>2, <4>2 DEF TypeOK
    <3> QED
      BY <3>1, <3>2
  <2> QED
    BY <2>1, <2>2 DEF RowsStep, Tables
<1>2. NoIngest \in Reads /\ NoSession \in Work
  BY DEF NoIngest, Reads, NoSession, Work
<1> USE DEF git
<1>3. CASE Repositories
  <2>1. ASSUME NEW c \in Commits, NEW ch \in Changes, NEW e \in Epics \cup {NoEpic}, HostCommit(c, ch, e)
        PROVE  TypeOK'
    BY <1>1, <2>1 DEF HostCommit, TypeOK
  <2>2. ASSUME NEW e \in Epics, MergeEpic(e) PROVE TypeOK'
    BY <1>1, <2>2 DEF MergeEpic, TypeOK
  <2>3. CASE Push
    BY <1>1, <2>3 DEF Push, TypeOK
  <2>4. ASSUME NEW p \in Platforms, NEW c \in Commits, NEW ch \in Changes, NEW e \in Epics \cup {NoEpic},
               BoundCommit(p, c, ch, e)
        PROVE  TypeOK'
    BY <1>1, <2>4 DEF BoundCommit, TypeOK
  <2> QED
    BY <1>3, <2>1, <2>2, <2>3, <2>4 DEF Repositories
<1>4. budget.tasks \in Nat /\ budget.recoveries \in Nat
  BY BoundsType DEF TypeOK
<1>5. Recovers => budget' \in [tasks : 0..Tasks, recoveries : 0..Recoveries]
  BY <1>4, BoundsType DEF Recovers, TypeOK
<1>6. Begins => budget' \in [tasks : 0..Tasks, recoveries : 0..Recoveries]
  BY <1>4, BoundsType DEF Begins, TypeOK
<1>7. CASE Capture
  <2>1. CASE Hook \/ HookFails
    BY <1>1, <2>1 DEF Hook, HookFails, TypeOK
  <2>2. ASSUME NEW p \in Platforms, NEW branch \in Epics \cup {NoEpic}, Reseed(p, branch)
        PROVE  TypeOK'
    BY <1>1, <1>5, <2>2 DEF Reseed, TypeOK
  <2>3. CASE Backfill
    BY <1>1, <1>5, <2>3 DEF Backfill, TypeOK
  <2> QED
    BY <1>7, <2>1, <2>2, <2>3 DEF Capture
<1>8. ASSUME NEW e \in Epics, ApproveEpic(e) \/ MarkEpic(e) PROVE TypeOK'
  BY <1>1, <1>8 DEF ApproveEpic, MarkEpic, TypeOK
<1>9. ASSUME NEW i \in Ingesters, Ingests(i) PROVE TypeOK'
  <2>1. ASSUME NEW p \in Platforms, BeginIngest(i, p) PROVE TypeOK'
    <3>1. PICK old \in (IF Since THEN SUBSET base[p] ELSE {{}}) :
            ingest' = [ingest EXCEPT ![i] =
              [platform |-> p, existing |-> Existing(p), tracked |-> Tracked,
               remote |-> base[p] \ old, approved |-> {e \in reports : Owner[e] = p}]]
      BY <2>1 DEF BeginIngest
    <3>2. Existing(p) \subseteq Commits /\ Tracked \subseteq Commits
      BY DEF Existing, Tracked, RowsOf, Keys
    <3>3. base[p] \ old \subseteq Commits /\ {e \in reports : Owner[e] = p} \subseteq Epics
      BY DEF TypeOK
    <3>4. ingest' \in [Ingesters -> Reads]
      BY <3>1, <3>2, <3>3 DEF Reads, TypeOK
    <3>5. overlapped' \subseteq Platforms
      BY <2>1 DEF BeginIngest, TypeOK
    <3> QED
      BY <1>1, <1>6, <2>1, <3>4, <3>5 DEF BeginIngest, TypeOK
  <2>2. CASE WriteIngest(i)
    BY <1>1, <1>2, <2>2 DEF WriteIngest, Closes, TypeOK
  <2>3. CASE IngestFails(i)
    BY <1>1, <1>2, <2>3 DEF IngestFails, Closes, TypeOK
  <2> QED
    BY <1>9, <2>1, <2>2, <2>3 DEF Ingests
<1>10. ASSUME NEW p \in Platforms, Reconciles(p) PROVE TypeOK'
  <2>1. session[p] \in Work
    BY DEF TypeOK
  <2>8. ASSUME NEW backlog \in SUBSET base[p], AssumeReconciled(p, backlog) PROVE TypeOK'
    BY <1>1, <1>6, <2>8 DEF AssumeReconciled, TypeOK
  <2>2. CASE Triage(p)
    <3>1. OfKind(Pending(p), {"auto"}) \subseteq Keys /\ OfKind(Pending(p), {"owned", "code"}) \subseteq Keys
      BY DEF OfKind, Pending, RowsOf
    <3>2. session' \in [Platforms -> Work]
      BY <2>2, <3>1 DEF Triage, Work, TypeOK
    <3> QED
      BY <1>1, <1>6, <2>2, <3>2 DEF Triage, TypeOK
  <2>3. ASSUME NEW readable, Aggregate(p, readable) PROVE TypeOK'
    <3>1. OfKind(session[p].code, {"owned"}) \subseteq Keys /\ OfKind(session[p].code, {"code"}) \subseteq Keys
      BY <2>1 DEF OfKind, Work
    <3>2. session' \in [Platforms -> Work]
      BY <2>1, <2>3, <3>1 DEF Aggregate, Work, TypeOK
    <3> QED
      BY <1>1, <2>3, <3>2 DEF Aggregate, TypeOK
  <2>4. CASE EndSession(p)
    BY <1>1, <1>2, <2>4 DEF EndSession, TypeOK
  <2>5. ASSUME NEW part \in SUBSET session[p].auto, MarkAuto(p, part) PROVE TypeOK'
    <3>1. session' \in [Platforms -> Work]
      BY <2>1, <2>5 DEF MarkAuto, Work, TypeOK
    <3> QED
      BY <1>1, <2>5, <3>1 DEF MarkAuto, TypeOK
  <2>6. CASE ApplyPatches(p)
    <3>1. PICK done \in SUBSET session[p].code :
            /\ session' = [session EXCEPT ![p].stage = "patched", ![p].code = done]
            /\ settled' = settled \cup {<<k[1], p>> : k \in done}
      BY <2>6 DEF ApplyPatches
    <3>2. session' \in [Platforms -> Work]
      BY <2>1, <3>1 DEF Work, TypeOK
    <3>3. settled' \subseteq Commits \X Platforms
      BY <2>1, <3>1 DEF Work, Keys, TypeOK
    <3> QED
      BY <1>1, <2>6, <3>2, <3>3 DEF ApplyPatches, TypeOK
  <2>7. CASE MarkPatched(p)
    BY <1>1, <1>2, <2>7 DEF MarkPatched, TypeOK
  <2> QED
    BY <1>10, <2>2, <2>3, <2>4, <2>5, <2>6, <2>7, <2>8 DEF Reconciles
<1>11. CASE UNCHANGED vars
  BY <1>11 DEF vars, TypeOK, git
<1> QED
  BY <1>3, <1>7, <1>8, <1>9, <1>10, <1>11 DEF Next

(* Every reachable state has the types declared; above all, a row exists    *)
(* with all its columns or not at all, and what an ingest stores is never   *)
(* just the digits of an epic.                                              *)
THEOREM TypeCorrect == Spec => []TypeOK
BY TypeInit, TypeStep, PTL DEF Spec

(* The code's INSERT OR IGNORE, checked INSERTs and UPDATEs of one column   *)
(* never rewrite a row, remove it or make it pending again.                 *)
THEOREM RowsKeptAlways == Spec => RowsAreKept
<1>1. TypeOK /\ [Next]_vars =>
        [\A k \in Keys : rows[k] # NoRow =>
            rows'[k] \in {rows[k], [rows[k] EXCEPT !.reconciled = TRUE]}]_rows
  BY RowsAlways DEF RowsStep, Kept
<1> QED
  BY <1>1, TypeCorrect, PTL DEF Spec, RowsAreKept

-----------------------------------------------------------------------------
(* The ingest: a composite key names the platform of its row, and what an   *)
(* ingest has seen of its platform, or of any, stays there until it writes. *)

CompositeOwn ==
    \A c \in Commits, p \in Platforms :
        rows[<<c, p>>] # NoRow => rows[<<c, p>>].platform = p

HasRow(table, c, p) == \E s \in {p, Raw} : table[<<c, s>>].platform = p

ReadsStay ==
    \A i \in Ingesters : Open(i) =>
        \A c \in ingest[i].existing : HasRow(rows, c, ingest[i].platform)

TrackedStay ==
    \A i \in Ingesters : Open(i) =>
        \A c \in ingest[i].tracked : \E s \in Platforms \cup {Raw} : rows[<<c, s>>] # NoRow

IngestInv == TypeOK /\ CompositeOwn /\ ReadsStay /\ TrackedStay

LEMMA KeptPlatform ==
    ASSUME TypeOK, RowsStep, NEW k \in Keys, rows[k] # NoRow
    PROVE  rows'[k].platform = rows[k].platform /\ rows'[k] # NoRow
<1>1. rows[k] \in Row
  BY DEF TypeOK
<1>2. rows'[k] \in Row /\ rows'[k].platform = rows[k].platform
  BY <1>1 DEF RowsStep, Kept, Row
<1> QED
  BY <1>2, RowOrNot

LEMMA ExistingHasRow ==
    ASSUME TypeOK, CompositeOwn, NEW p \in Platforms, NEW c \in Existing(p)
    PROVE  HasRow(rows, c, p)
<1>1. PICK k \in RowsOf(p) : k[1] = c
  BY DEF Existing
<1>2. k \in Keys /\ rows[k].platform = p /\ rows[k] # NoRow
  BY PlatformsType DEF RowsOf, NoRow
<1>3. PICK s \in Platforms \cup {Raw} : k = <<c, s>> /\ c \in Commits
  BY <1>1, <1>2 DEF Keys
<1>4. s \in {p, Raw}
  BY <1>2, <1>3 DEF CompositeOwn
<1> QED
  BY <1>2, <1>3, <1>4 DEF HasRow

(* Which step opens an ingest, and which closes it.                         *)
LEMMA IngestChange ==
    ASSUME TypeOK, [Next]_vars, NEW i \in Ingesters, ingest'[i] # ingest[i]
    PROVE  (\E p \in Platforms : BeginIngest(i, p)) \/ WriteIngest(i) \/ IngestFails(i)
<1> USE DEF git
<1>1. ASSUME NEW j \in Ingesters, Ingests(j)
      PROVE  (\E p \in Platforms : BeginIngest(i, p)) \/ WriteIngest(i) \/ IngestFails(i)
  <2>1. j = i
    BY <1>1 DEF Ingests, BeginIngest, WriteIngest, IngestFails, Closes, TypeOK
  <2> QED
    BY <1>1, <2>1 DEF Ingests
<1>2. ASSUME NEW q \in Platforms, Reconciles(q) PROVE FALSE
  BY <1>2 DEF Reconciles, AssumeReconciled, Triage, Aggregate, EndSession, MarkAuto, ApplyPatches, MarkPatched
<1>3. ~Repositories
  BY DEF Repositories, HostCommit, MergeEpic, Push, BoundCommit
<1>4. ~Capture
  BY DEF Capture, Hook, HookFails, Reseed, Backfill
<1>5. ASSUME NEW e \in Epics, ApproveEpic(e) \/ MarkEpic(e) PROVE FALSE
  BY <1>5 DEF ApproveEpic, MarkEpic
<1>6. ~UNCHANGED vars
  BY DEF vars
<1> QED
  BY <1>1, <1>2, <1>3, <1>4, <1>5, <1>6 DEF Next

LEMMA Begun ==
    ASSUME TypeOK, NEW i \in Ingesters, NEW p \in Platforms, BeginIngest(i, p)
    PROVE  /\ ~Open(i) /\ Open(i)' /\ ingest'[i].platform = p
           /\ ingest'[i].existing = Existing(p) /\ ingest'[i].tracked = Tracked
           /\ ingest'[i].remote \subseteq base[p] /\ ingest'[i].approved \subseteq reports
           /\ ~Since => ingest'[i].remote = base[p]
           /\ \A j \in Ingesters : j # i => ingest'[j] = ingest[j]
           /\ overlapped \subseteq overlapped'
           /\ \A j \in Ingesters : ingest[j].platform = p => p \in overlapped'
           /\ rows' = rows
<1>1. PICK old \in (IF Since THEN SUBSET base[p] ELSE {{}}) :
        ingest' = [ingest EXCEPT ![i] =
          [platform |-> p, existing |-> Existing(p), tracked |-> Tracked,
           remote |-> base[p] \ old, approved |-> {e \in reports : Owner[e] = p}]]
  BY DEF BeginIngest
<1>2. ingest'[i] = [platform |-> p, existing |-> Existing(p), tracked |-> Tracked,
                    remote |-> base[p] \ old, approved |-> {e \in reports : Owner[e] = p}]
  BY <1>1 DEF TypeOK
<1>3. ~Open(i) /\ rows' = rows /\ overlapped \subseteq overlapped'
      /\ \A j \in Ingesters : ingest[j].platform = p => p \in overlapped'
  BY DEF BeginIngest
<1>4. Since \/ old = {}
  OBVIOUS
<1>5. base[p] \ old \subseteq base[p] /\ {e \in reports : Owner[e] = p} \subseteq reports
  OBVIOUS
<1>6. Open(i)'
  BY <1>2, PlatformsType DEF Open
<1>7. \A j \in Ingesters : j # i => ingest'[j] = ingest[j]
  BY <1>1 DEF TypeOK
<1> QED
  BY <1>2, <1>3, <1>4, <1>5, <1>6, <1>7

LEMMA Closed ==
    ASSUME TypeOK, NEW i \in Ingesters, WriteIngest(i) \/ IngestFails(i)
    PROVE  /\ Open(i) /\ ~Open(i)' /\ ingest'[i] = NoIngest
           /\ \A j \in Ingesters : j # i => ingest'[j] = ingest[j]
<1>1. Open(i) /\ ingest' = [ingest EXCEPT ![i] = NoIngest]
  BY DEF WriteIngest, IngestFails, Closes
<1>2. ingest'[i] = NoIngest /\ \A j \in Ingesters : j # i => ingest'[j] = ingest[j]
  BY <1>1 DEF TypeOK
<1>3. ~Open(i)'
  BY <1>2 DEF Open, NoIngest
<1> QED
  BY <1>1, <1>2, <1>3

(* An ingest that is open after a step has just begun or was open before.   *)
LEMMA StaysOpen ==
    ASSUME TypeOK, [Next]_vars, NEW i \in Ingesters, Open(i)'
    PROVE  \/ Open(i) /\ ingest'[i] = ingest[i]
           \/ \E p \in Platforms : BeginIngest(i, p)
<1>1. CASE ingest'[i] = ingest[i]
  BY <1>1 DEF Open
<1>2. CASE ingest'[i] # ingest[i]
  BY <1>2, IngestChange, Closed
<1> QED
  BY <1>1, <1>2

LEMMA IngestStep == IngestInv /\ [Next]_vars => IngestInv'
<1> SUFFICES ASSUME IngestInv, [Next]_vars PROVE IngestInv'
  OBVIOUS
<1>1. TypeOK /\ TypeOK' /\ RowsStep
  BY TypeStep, RowsAlways DEF IngestInv
<1>2. CompositeOwn'
  <2> SUFFICES ASSUME NEW c \in Commits, NEW p \in Platforms, rows'[<<c, p>>] # NoRow
               PROVE  rows'[<<c, p>>].platform = p
    BY DEF CompositeOwn
  <2>1. <<c, p>> \in Keys
    BY DEF Keys
  <2>2. CASE rows[<<c, p>>] # NoRow
    BY <1>1, <2>1, <2>2, KeptPlatform DEF IngestInv, CompositeOwn
  <2>3. CASE rows[<<c, p>>] = NoRow
    <3>1. ByHook(<<c, p>>) \/ ByRecovery(<<c, p>>) \/ \E j \in Ingesters : ByIngest(<<c, p>>, j)
      BY <1>1, <2>1, <2>3 DEF RowsStep, NewRow
    <3>2. p # Raw
      BY PlatformsType
    <3>3. ASSUME NEW j \in Ingesters, ByIngest(<<c, p>>, j) PROVE rows'[<<c, p>>].platform = p
      BY <1>1, <3>2, <3>3, FreshKey DEF ByIngest
    <3> QED
      BY <3>1, <3>2, <3>3 DEF ByHook, ByRecovery
  <2> QED
    BY <2>2, <2>3
<1>3. ReadsStay'
  <2> SUFFICES ASSUME NEW i \in Ingesters, Open(i)', NEW c \in ingest'[i].existing
               PROVE  HasRow(rows', c, ingest'[i].platform)
    BY DEF ReadsStay, HasRow
  <2>1. CASE Open(i) /\ ingest'[i] = ingest[i]
    <3> DEFINE p == ingest[i].platform
    <3>1. PICK s \in {p, Raw} : rows[<<c, s>>].platform = p
      BY <2>1 DEF IngestInv, ReadsStay, HasRow
    <3>2. c \in Commits /\ p \in Platforms
      BY <1>1, <2>1, OpenIngest DEF Reads
    <3>3. <<c, s>> \in Keys /\ rows[<<c, s>>] # NoRow
      BY <3>1, <3>2, PlatformsType DEF Keys, NoRow
    <3> QED
      BY <1>1, <2>1, <3>1, <3>3, KeptPlatform DEF HasRow
  <2>2. ASSUME NEW p \in Platforms, BeginIngest(i, p)
        PROVE  HasRow(rows', c, ingest'[i].platform)
    BY <1>1, <2>2, Begun, ExistingHasRow DEF IngestInv
  <2> QED
    BY <1>1, <2>1, <2>2, StaysOpen
<1>4. TrackedStay'
  <2> SUFFICES ASSUME NEW i \in Ingesters, Open(i)', NEW c \in ingest'[i].tracked
               PROVE  \E s \in Platforms \cup {Raw} : rows'[<<c, s>>] # NoRow
    BY DEF TrackedStay
  <2>1. CASE Open(i) /\ ingest'[i] = ingest[i]
    <3>1. PICK s \in Platforms \cup {Raw} : rows[<<c, s>>] # NoRow
      BY <2>1 DEF IngestInv, TrackedStay
    <3>2. <<c, s>> \in Keys
      BY <1>1, <2>1, OpenIngest DEF Reads, Keys
    <3> QED
      BY <1>1, <3>1, <3>2, KeptPlatform
  <2>2. ASSUME NEW p \in Platforms, BeginIngest(i, p)
        PROVE  \E s \in Platforms \cup {Raw} : rows'[<<c, s>>] # NoRow
    <3>1. c \in Tracked /\ rows' = rows
      BY <1>1, <2>2, Begun
    <3>2. PICK k \in Keys : k[1] = c /\ rows[k] # NoRow
      BY <3>1 DEF Tracked
    <3> QED
      BY <3>1, <3>2 DEF Keys
  <2> QED
    BY <1>1, <2>1, <2>2, StaysOpen
<1> QED
  BY <1>1, <1>2, <1>3, <1>4 DEF IngestInv

LEMMA IngestInit == Init => IngestInv
<1> SUFFICES ASSUME Init PROVE IngestInv
  OBVIOUS
<1>1. \A i \in Ingesters : ~Open(i)
  BY DEF Init, Open, NoIngest
<1>2. CompositeOwn
  BY DEF Init, CompositeOwn, Keys
<1> QED
  BY <1>1, <1>2, TypeInit DEF IngestInv, ReadsStay, TrackedStay

LEMMA IngestAlways == Spec => []IngestInv
BY IngestInit, IngestStep, PTL DEF Spec

(* Whatever reseeds, backfills, hooks and other ingests have written, an    *)
(* ingest never computes a key that is taken when it reads.                 *)
THEOREM IngestStartsCleanAlways == Spec => IngestStartsClean
<1>1. IngestInv /\ [Next]_vars =>
        [\A i \in Ingesters : ~Open(i) /\ Open(i)' => ~Conflict(i)']_ingest
  <2> SUFFICES ASSUME IngestInv, [Next]_vars, NEW i \in Ingesters,
                      ~Open(i), Open(i)', Conflict(i)'
               PROVE  FALSE
    OBVIOUS
  <2>1. PICK p \in Platforms : BeginIngest(i, p)
    BY StaysOpen DEF IngestInv
  <2>2. /\ ingest'[i].platform = p
        /\ ingest'[i].existing = Existing(p) /\ ingest'[i].tracked = Tracked
        /\ ingest'[i].remote \subseteq base[p] /\ rows' = rows
    BY <2>1, Begun DEF IngestInv
  <2>3. PICK c \in base[p] \ Existing(p) :
          rows[IF c \in Tracked THEN <<c, p>> ELSE <<c, Raw>>] # NoRow
    BY <2>2 DEF Conflict, FreshKeys, Fresh, StoredKey
  <2>4. c \in Commits /\ <<c, p>> \in Keys /\ <<c, Raw>> \in Keys
    BY DEF IngestInv, TypeOK, Keys
  <2>5. c \in Tracked
    BY <2>3, <2>4 DEF Tracked
  <2>6. <<c, p>> \in RowsOf(p)
    BY <2>3, <2>4, <2>5 DEF IngestInv, CompositeOwn, RowsOf
  <2> QED
    BY <2>3, <2>6 DEF Existing
<1> QED
  BY <1>1, IngestAlways, PTL DEF Spec, IngestStartsClean

(* What an ingest that finds no conflict does is what WriteIngest does.     *)
LEMMA Completed ==
    ASSUME TypeOK, [Next]_vars, NEW i \in Ingesters, Completes(i)
    PROVE  Open(i) /\ ~Conflict(i) /\ rows' = Upgraded(i, Ingested(i))
<1>1. Open(i) /\ ~Open(i)' /\ ~Conflict(i)
  BY DEF Completes
<1>2. ingest'[i] # ingest[i]
  BY <1>1 DEF Open
<1>3. WriteIngest(i)
  BY <1>1, <1>2, IngestChange, Begun DEF IngestFails
<1> QED
  BY <1>1, <1>3 DEF WriteIngest

(* No commit the ingest found is lost, although it skips those it had seen  *)
(* a row of, and others may write between its reads and its writes.         *)
THEOREM IngestIsCompleteAlways == Spec => IngestIsComplete
<1>1. IngestInv /\ [Next]_vars =>
        [\A i \in Ingesters : Completes(i) =>
           \A c \in ingest[i].remote : LET p == ingest[i].platform
                                       IN  \E s \in {p, Raw} : rows'[<<c, s>>].platform = p]_ingest
  <2> SUFFICES ASSUME IngestInv, [Next]_vars, NEW i \in Ingesters, Completes(i), NEW c \in ingest[i].remote
               PROVE  \E s \in {ingest[i].platform, Raw} : rows'[<<c, s>>].platform = ingest[i].platform
    OBVIOUS
  <2> DEFINE p == ingest[i].platform
  <2>1. Open(i) /\ ~Conflict(i) /\ rows' = Upgraded(i, Ingested(i)) /\ TypeOK /\ RowsStep
    BY Completed, RowsAlways DEF IngestInv
  <2>2. c \in Commits /\ p \in Platforms
    BY <2>1, OpenIngest DEF Reads
  <2>3. CASE c \in ingest[i].existing
    <3>1. PICK s \in {p, Raw} : rows[<<c, s>>].platform = p
      BY <2>1, <2>3 DEF IngestInv, ReadsStay, HasRow
    <3>2. <<c, s>> \in Keys /\ rows[<<c, s>>] # NoRow
      BY <2>2, <3>1, PlatformsType DEF Keys, NoRow
    <3> QED
      BY <2>1, <3>1, <3>2, KeptPlatform
  <2>4. CASE c \notin ingest[i].existing
    <3>1. StoredKey(i, c) \in FreshKeys(i)
      BY <2>4 DEF FreshKeys, Fresh
    <3>2. StoredKey(i, c) \in Keys
      BY <2>1, <3>1, FreshKey
    <3>3. rows'[StoredKey(i, c)].platform = p
      BY <2>1, <3>1, <3>2, WrittenTable
    <3> QED
      BY <3>3 DEF StoredKey
  <2> QED
    BY <2>3, <2>4
<1> QED
  BY <1>1, IngestAlways, PTL DEF Spec, IngestIsComplete

(* An ingest also settles the rows of approved epics that were written      *)
(* while it read, by whomever.                                              *)
THEOREM ApprovedAreSettledAlways == Spec => ApprovedAreSettled
<1>1. TypeOK /\ [Next]_vars =>
        [\A i \in Ingesters : Completes(i) =>
           \A k \in Keys : rows'[k].platform = ingest[i].platform
                              /\ rows'[k].epic \in ingest[i].approved => rows'[k].reconciled]_ingest
  BY Completed, WrittenTable
<1> QED
  BY <1>1, TypeCorrect, PTL DEF Spec, ApprovedAreSettled

(* Both together: after an ingest no commit it found is missing from the    *)
(* table and no row of an epic with a report is pending.                    *)
THEOREM IngestDoesItsWorkAlways == Spec => IngestDoesItsWork
  BY IngestIsCompleteAlways, ApprovedAreSettledAlways DEF IngestDoesItsWork

-----------------------------------------------------------------------------
(* The repositories                                                         *)

(* A commit is made in one repository, and rows are of commits that exist.  *)
Repos ==
    /\ hosted \subseteq Made
    /\ \A p \in Platforms : base[p] \subseteq Made
    /\ \A i \in Ingesters : ingest[i].remote \subseteq Made
    /\ \A p \in Platforms \ Checkout : base[p] \cap hosted = {}
    /\ \A k \in Keys : rows[k] # NoRow => k[1] \in Made

LEMMA ChangeMade ==
    ASSUME NEW ch \in Changes
    PROVE  ch # NoChange
BY ChangesType DEF NoChange, Kinds

LEMMA GitStep ==
    ASSUME TypeOK, [Next]_vars
    PROVE  \/ UNCHANGED git
           \/ Repositories /\ UNCHANGED <<reports, rows, ingests, session, settled>>
<1>1. CASE Repositories
  BY <1>1 DEF Repositories, HostCommit, MergeEpic, Push, BoundCommit
<1>2. CASE Capture
  BY <1>2 DEF Capture, Hook, HookFails, Reseed, Backfill
<1>3. ASSUME NEW e \in Epics, ApproveEpic(e) \/ MarkEpic(e) PROVE UNCHANGED git
  BY <1>3 DEF ApproveEpic, MarkEpic
<1>4. ASSUME NEW i \in Ingesters, Ingests(i) PROVE UNCHANGED git
  BY <1>4 DEF Ingests, BeginIngest, WriteIngest, IngestFails
<1>5. ASSUME NEW p \in Platforms, Reconciles(p) PROVE UNCHANGED git
  BY <1>5 DEF Reconciles, AssumeReconciled, Triage, Aggregate, EndSession, MarkAuto, ApplyPatches, MarkPatched
<1>6. CASE UNCHANGED vars
  BY <1>6 DEF vars, git
<1> QED
  BY <1>1, <1>2, <1>3, <1>4, <1>5, <1>6 DEF Next

LEMMA ReposStep == IngestInv /\ Repos /\ [Next]_vars => Repos'
<1> SUFFICES ASSUME IngestInv, Repos, [Next]_vars PROVE Repos'
  OBVIOUS
<1>1. TypeOK /\ TypeOK' /\ RowsStep
  BY TypeStep, RowsAlways DEF IngestInv
<1>2. ASSUME NEW c \in Commits \ Made, NEW ch \in Changes, change' = [change EXCEPT ![c] = ch]
      PROVE  Made' = Made \cup {c}
  BY <1>1, <1>2, ChangeMade DEF Made, TypeOK
<1>3. ASSUME Repositories, UNCHANGED <<rows, ingest>> PROVE Repos'
  <2>1. ASSUME NEW c \in Commits, NEW ch \in Changes, NEW e \in Epics \cup {NoEpic}, HostCommit(c, ch, e)
        PROVE  Repos'
    BY <1>2, <1>3, <2>1 DEF HostCommit, Repos
  <2>2. ASSUME NEW e \in Epics, MergeEpic(e) PROVE Repos'
    BY <1>3, <2>2 DEF MergeEpic, Repos, Made
  <2>3. CASE Push
    <3>1. UNCHANGED hosted /\ Made' = Made
      BY <2>3 DEF Push, Made
    <3>2. \A p \in Platforms : base'[p] \in {base[p], main} /\ (p \notin Checkout => base'[p] = base[p])
      BY <2>3 DEF Push
    <3>3. main \subseteq Made
      BY <1>1 DEF TypeOK, Repos
    <3> QED
      BY <1>3, <3>1, <3>2, <3>3 DEF Repos
  <2>4. ASSUME NEW p \in Platforms, NEW c \in Commits, NEW ch \in Changes, NEW e \in Epics \cup {NoEpic},
               BoundCommit(p, c, ch, e)
        PROVE  Repos'
    <3>1. \A q \in Platforms : base'[q] \subseteq base[q] \cup {c}
      BY <1>1, <2>4 DEF BoundCommit, TypeOK
    <3>2. Made' = Made \cup {c} /\ c \notin hosted /\ hosted' = hosted
      BY <1>2, <2>4 DEF BoundCommit, Repos
    <3>3. /\ \A q \in Platforms : base'[q] \subseteq Made'
          /\ \A j \in Ingesters : ingest'[j].remote \subseteq Made'
          /\ \A k \in Keys : rows'[k] # NoRow => k[1] \in Made'
      BY <1>3, <3>1, <3>2 DEF Repos
    <3>4. \A q \in Platforms \ Checkout : base'[q] \cap hosted' = {}
      BY <3>1, <3>2 DEF Repos
    <3> QED
      BY <3>2, <3>3, <3>4 DEF Repos
  <2> QED
    BY <1>3, <2>1, <2>2, <2>3, <2>4 DEF Repositories
<1>4. CASE UNCHANGED git
  <2> USE DEF git
  <2>1. Made' = Made
    BY <1>4 DEF Made
  <2>2. ASSUME NEW i \in Ingesters PROVE ingest'[i].remote \subseteq Made
    <3>1. CASE ingest'[i] = ingest[i]
      BY <3>1 DEF Repos
    <3>2. ASSUME NEW p \in Platforms, BeginIngest(i, p) PROVE ingest'[i].remote \subseteq Made
      BY <1>1, <3>2, Begun DEF Repos
    <3>3. CASE WriteIngest(i) \/ IngestFails(i)
      BY <1>1, <3>3, Closed DEF NoIngest
    <3> QED
      BY <1>1, <3>1, <3>2, <3>3, IngestChange
  <2>3. ASSUME NEW k \in Keys, rows'[k] # NoRow PROVE k[1] \in Made
    <3>1. ASSUME NEW i \in Ingesters, ByIngest(k, i) PROVE k[1] \in Made
      BY <1>1, <3>1, FreshKey DEF ByIngest, Fresh, Repos
    <3>2. ByHook(k) \/ ByRecovery(k) => k[1] \in Made
      BY <1>1 DEF ByHook, ByRecovery, TypeOK, Repos
    <3> QED
      BY <1>1, <2>3, <3>1, <3>2 DEF RowsStep, NewRow, Repos
  <2> QED
    BY <1>4, <2>1, <2>2, <2>3 DEF Repos
<1> QED
  BY <1>1, <1>3, <1>4, GitStep

-----------------------------------------------------------------------------
(* No drift goes unreviewed                                                 *)

(* Two ingests of one platform at a time are remembered.                    *)
Alone ==
    \A i, j \in Ingesters :
        i # j /\ Open(i) /\ ingest[j].platform = ingest[i].platform
            => ingest[i].platform \in overlapped

(* Nothing but an ingest of the platform writes a row of a commit of its    *)
(* own repository, so one that is alone has not missed one it would sweep.  *)
NoneMissed ==
    \A i \in Ingesters : Open(i) =>
        LET p == ingest[i].platform
        IN  p \notin Checkout \cup overlapped =>
              \A k \in Keys : rows[k].platform = p /\ k[1] \in base[p] => k[1] \in ingest[i].remote

ReasonsStand ==
    /\ \A i \in Ingesters : ingest[i].approved \subseteq reports
    /\ \A p \in Platforms :
        /\ \A l \in session[p].auto : change[l[1]].kind \in {"auto", "owned"}
        /\ session[p].stage = "patched" => \A l \in session[p].code : <<l[1], p>> \in settled

DriftInv == IngestInv /\ Repos /\ Alone /\ NoneMissed /\ ReasonsStand /\ DriftIsReviewed

(* A new commit disturbs nothing: no row, session or ingest knows of it.    *)
LEMMA NewCommit ==
    ASSUME DriftInv, TypeOK', Repos', NEW c \in Commits \ Made, NEW ch \in Changes,
           change' = [change EXCEPT ![c] = ch],
           UNCHANGED <<reports, rows, ingest, overlapped, session, settled>>,
           hosted' \subseteq hosted \cup {c},
           \A p \in Platforms : base'[p] \subseteq base[p] \cup {c},
           hosted' = hosted \/ base' = base
    PROVE  DriftInv'
<1>1. Made' = Made \cup {c}
  BY ChangeMade DEF Made, DriftInv, IngestInv, TypeOK
<1>2. \A d \in Commits : d # c => change'[d] = change[d]
  BY DEF DriftInv, IngestInv, TypeOK
<1>3. change[c] = NoChange
  BY DEF Made
<1>4. \A k \in Keys : k[1] = c => rows[k] = NoRow
  BY DEF DriftInv, Repos
<1>5. IngestInv'
  BY DEF DriftInv, IngestInv, CompositeOwn, ReadsStay, TrackedStay, HasRow, Open
<1>6. Alone'
  BY DEF DriftInv, Alone, Open
<1>7. \A k \in Keys : rows[k].platform \in Platforms => k[1] # c
  BY <1>4, PlatformsType DEF NoRow
<1>8. NoneMissed'
  <2> SUFFICES ASSUME NEW i \in Ingesters, Open(i), ingest[i].platform \notin Checkout \cup overlapped,
                      NEW k \in Keys, rows[k].platform = ingest[i].platform,
                      k[1] \in base'[ingest[i].platform]
               PROVE  k[1] \in ingest[i].remote
    BY DEF NoneMissed, Open
  <2>1. ingest[i].platform \in Platforms
    BY OpenIngest DEF DriftInv, IngestInv
  <2>2. k[1] \in base[ingest[i].platform]
    BY <1>7, <2>1
  <2> QED
    BY <2>2 DEF DriftInv, NoneMissed
<1>9. ReasonsStand'
  <2> SUFFICES ASSUME NEW p \in Platforms, NEW l \in session[p].auto
               PROVE  change'[l[1]].kind \in {"auto", "owned"}
    BY DEF DriftInv, ReasonsStand
  <2>1. l[1] \in Commits
    BY DEF DriftInv, IngestInv, TypeOK, Work, Keys
  <2>2. change[l[1]].kind \in {"auto", "owned"}
    BY DEF DriftInv, ReasonsStand
  <2>3. l[1] # c
    BY <2>2, <1>3 DEF NoChange
  <2> QED
    BY <2>1, <2>2, <2>3, <1>2
<1>10. DriftIsReviewed'
  <2> SUFFICES ASSUME NEW p \in Platforms \ (Checkout \cup overlapped),
                      NEW k \in Keys, rows[k].platform = p, rows[k].reconciled, k[1] \in base'[p]
               PROVE  Excused(k[1], p, rows[k].epic)'
    BY DEF DriftIsReviewed, Reviews, RowsOf, Excused
  <2>1. k \in RowsOf(p) /\ k[1] \in Commits
    BY DEF RowsOf, Keys
  <2>2. k[1] # c /\ k[1] \in base[p]
    BY <1>7
  <2>3. Excused(k[1], p, rows[k].epic)
    BY <2>1, <2>2 DEF DriftInv, DriftIsReviewed, Reviews
  <2> QED
    BY <2>1, <2>2, <2>3, <1>2 DEF Excused
<1> QED
  BY <1>5, <1>6, <1>8, <1>9, <1>10 DEF DriftInv

(* Whoever marks a row of a commit that is on the base branch has a reason. *)
LEMMA MarkedForAReason ==
    ASSUME DriftInv, [Next]_vars, UNCHANGED git, NEW k \in Keys,
           NEW p \in Platforms \ (Checkout \cup overlapped), NEW epic,
           rows'[k].platform = p, rows'[k].epic = epic, rows'[k].reconciled, ~rows[k].reconciled, k[1] \in base[p]
    PROVE  Excused(k[1], p, epic)'
<1> USE DEF git
<1> DEFINE excused == Excused(k[1], p, epic)'
<1>0. TypeOK /\ rows' # rows /\ RowsStep
  BY RowsAlways DEF DriftInv, IngestInv
<1>1. ASSUME NEW q \in Platforms, NEW ks, ks \subseteq Pending(q), rows' = Marked(rows, ks)
      PROVE  k \in ks /\ q = p /\ rows'[k].epic = rows[k].epic
  <2>1. rows \in Tables /\ \A l \in ks \cap Keys : rows[l] \in Row
    BY <1>1, PendingRows DEF DriftInv, IngestInv, TypeOK, Tables
  <2>2. k \in ks /\ rows'[k].platform = rows[k].platform /\ rows'[k].epic = rows[k].epic
    BY <1>1, <2>1, MarkedTable
  <2> QED
    BY <1>1, <2>2 DEF Pending, RowsOf
<1>2. ASSUME NEW l \in Keys, k \in Forms(p, l)
      PROVE  k[1] = l[1]
  BY <1>2 DEF Forms
<1>3. ASSUME NEW q \in Platforms, Reconciles(q) PROVE excused
  <2>1. ASSUME NEW part \in SUBSET session[q].auto, MarkAuto(q, part) PROVE excused
    <3>1. q = p /\ k \in {m \in Pending(q) : \E l \in part : m \in Forms(q, l)}
      BY <1>1, <2>1 DEF MarkAuto, MarkShas
    <3>2. PICK l \in part : k \in Forms(p, l)
      BY <3>1
    <3>3. l \in Keys /\ change[l[1]].kind \in {"auto", "owned"}
      BY <1>0, <3>1 DEF DriftInv, ReasonsStand, TypeOK, Work
    <3> QED
      BY <1>2, <3>2, <3>3 DEF Excused
  <2>2. CASE MarkPatched(q)
    <3>1. q = p /\ k \in {m \in Pending(q) : \E l \in session[q].code : m \in Forms(q, l)}
      BY <1>1, <2>2 DEF MarkPatched, MarkShas
    <3>2. PICK l \in session[p].code : k \in Forms(p, l)
      BY <3>1
    <3>3. l \in Keys /\ <<l[1], p>> \in settled
      BY <1>0, <2>2, <3>1 DEF MarkPatched, DriftInv, ReasonsStand, TypeOK, Work
    <3>4. settled' = settled
      BY <2>2 DEF MarkPatched
    <3> QED
      BY <1>2, <3>2, <3>3, <3>4 DEF Excused
  <2>3. ASSUME NEW backlog \in SUBSET base[q], AssumeReconciled(q, backlog) PROVE excused
    <3>1. q = p /\ k \in Pending(q) \cap (backlog \X {Raw})
      BY <1>1, <2>3 DEF AssumeReconciled
    <3> QED
      BY <2>3, <3>1 DEF AssumeReconciled, Excused
  <2> QED
    BY <1>0, <1>3, <2>1, <2>2, <2>3 DEF Reconciles, Triage, Aggregate, EndSession, ApplyPatches
<1>4. ASSUME NEW j \in Ingesters, Ingests(j) PROVE excused
  <2>1. CASE WriteIngest(j)
    <3> DEFINE table == Upgraded(j, Ingested(j))
    <3>1. rows' = table /\ ~Conflict(j) /\ Open(j) /\ reports' = reports
      BY <2>1 DEF WriteIngest, Closes
    <3>2. ingest[j].approved \subseteq reports
      BY DEF DriftInv, ReasonsStand
    <3>3. CASE rows[k] = NoRow
      <4>1. rows'[k] # NoRow
        BY <3>3, <1>0 DEF NoRow
      <4>2. rows'[k].epic \in ingest[j].approved
        BY <1>0, <3>1, <3>3, <4>1, WrittenTable
      <4> QED
        BY <3>1, <3>2, <4>2 DEF Excused
    <3>4. CASE rows[k] # NoRow
      <4>1. rows[k] \in Row
        BY <1>0, <3>4 DEF TypeOK
      <4>2. rows'[k].platform = rows[k].platform /\ rows'[k].epic = rows[k].epic
        BY <1>0, <3>4, <4>1 DEF RowsStep, Kept, Row
      <4>3. ingest[j].platform = p /\ (k[1] \notin ingest[j].remote \/ rows[k].epic \in ingest[j].approved)
        BY <1>0, <3>1, <3>4, <4>2, WrittenTable
      <4>4. k[1] \in ingest[j].remote
        BY <3>1, <4>2, <4>3 DEF DriftInv, NoneMissed
      <4> QED
        BY <3>1, <3>2, <4>2, <4>3, <4>4 DEF Excused
    <3> QED
      BY <3>3, <3>4
  <2> QED
    BY <1>0, <1>4, <2>1 DEF Ingests, BeginIngest, IngestFails
<1>5. ASSUME NEW e \in Epics, MarkEpic(e) PROVE excused
  <2>1. Owner[e] \in Platforms
    BY EpicsType
  <2>2. k \in {l \in Pending(Owner[e]) : rows[l].epic = e} /\ rows'[k].epic = rows[k].epic
    BY <1>1, <1>5, <2>1 DEF MarkEpic
  <2> QED
    BY <1>5, <2>2 DEF MarkEpic, Excused
<1>6. CASE Capture
  <2>1. rows[k] # NoRow => rows'[k] = rows[k]
    <3>1. rows \in Tables
      BY <1>0 DEF TypeOK, Tables
    <3> QED
      BY <1>0, <1>6, <3>1 DEF Capture, Hook, HookFails, Reseed, Backfill, Inserted
  <2>2. rows[k] = NoRow
    BY <2>1
  <2>3. rows'[k] # NoRow
    BY DEF NoRow
  <2>4. ingest' = ingest
    BY <1>6 DEF Capture, Hook, HookFails, Reseed, Backfill
  <2>5. ByHook(k) \/ ByRecovery(k)
    BY <1>0, <2>2, <2>3, <2>4 DEF RowsStep, NewRow, ByIngest, Open
  <2> QED
    BY <2>5 DEF ByHook, ByRecovery
<1> QED
  BY <1>0, <1>3, <1>4, <1>5, <1>6 DEF Next, Repositories, HostCommit, MergeEpic, Push, BoundCommit,
     ApproveEpic, vars

(* What the steps leave alone, or only add to.                              *)
LEMMA ReasonsGrow ==
    ASSUME TypeOK, [Next]_vars
    PROVE  reports \subseteq reports' /\ settled \subseteq settled' /\ overlapped \subseteq overlapped'
<1> DEFINE grow == reports \subseteq reports' /\ settled \subseteq settled' /\ overlapped \subseteq overlapped'
<1>1. CASE UNCHANGED git
  <2>1. ASSUME NEW p \in Platforms, Reconciles(p) PROVE grow
    BY <2>1 DEF Reconciles, AssumeReconciled, Triage, Aggregate, EndSession, MarkAuto, ApplyPatches,
       MarkPatched
  <2>5. ASSUME NEW i \in Ingesters, Ingests(i) PROVE grow
    BY <2>5 DEF Ingests, BeginIngest, WriteIngest, IngestFails, Closes
  <2>2. CASE Capture
    BY <2>2 DEF Capture, Hook, HookFails, Reseed, Backfill
  <2>3. ASSUME NEW e \in Epics, ApproveEpic(e) \/ MarkEpic(e)
        PROVE  grow
    BY <2>3 DEF ApproveEpic, MarkEpic
  <2>4. CASE Repositories
    BY <2>4 DEF Repositories, HostCommit, MergeEpic, Push, BoundCommit
  <2> QED
    BY <2>1, <2>2, <2>3, <2>4, <2>5 DEF Next, vars
<1> QED
  BY <1>1, GitStep

(* A session lists as noise what is noise, and as patched what is settled.  *)
LEMMA SessionStep ==
    ASSUME DriftInv, [Next]_vars, UNCHANGED git, NEW p \in Platforms
    PROVE  /\ \A l \in session'[p].auto : change[l[1]].kind \in {"auto", "owned"}
           /\ session'[p].stage = "patched" => \A l \in session'[p].code : <<l[1], p>> \in settled'
<1> DEFINE stands ==
      /\ \A l \in session'[p].auto : change[l[1]].kind \in {"auto", "owned"}
      /\ session'[p].stage = "patched" => \A l \in session'[p].code : <<l[1], p>> \in settled'
<1>1. TypeOK /\ session[p] \in Work
  BY DEF DriftInv, IngestInv, TypeOK
<1>2. /\ \A l \in session[p].auto : change[l[1]].kind \in {"auto", "owned"}
      /\ session[p].stage = "patched" => \A l \in session[p].code : <<l[1], p>> \in settled
  BY DEF DriftInv, ReasonsStand
<1>3. CASE session'[p] = session[p]
  BY <1>1, <1>2, <1>3, ReasonsGrow
<1>4. ASSUME session'[p] # session[p], NEW q \in Platforms, Reconciles(q) PROVE stands
  <2>1. CASE Triage(q)
    <3>1. session'[p] = [stage |-> "triaged", auto |-> OfKind(Pending(p), {"auto"}),
                         code |-> OfKind(Pending(p), {"owned", "code"})]
      BY <1>1, <1>4, <2>1 DEF Triage, TypeOK
    <3> QED
      BY <3>1 DEF OfKind
  <2>2. ASSUME NEW readable, Aggregate(q, readable) PROVE stands
    <3>1. /\ session'[p].stage = "listed"
          /\ session'[p].auto = session[p].auto \cup OfKind(session[p].code, {"owned"})
      BY <1>1, <1>4, <2>2 DEF Aggregate, TypeOK, Work
    <3> QED
      BY <1>2, <3>1 DEF OfKind
  <2>3. CASE EndSession(q)
    BY <1>1, <1>4, <2>3 DEF EndSession, TypeOK, NoSession
  <2>4. ASSUME NEW part \in SUBSET session[q].auto, MarkAuto(q, part) PROVE stands
    <3>1. /\ session'[p].stage = "listed"
          /\ session'[p].auto = session[p].auto \ part
      BY <1>1, <1>4, <2>4 DEF MarkAuto, TypeOK, Work
    <3> QED
      BY <1>2, <3>1
  <2>5. CASE ApplyPatches(q)
    <3>1. PICK done \in SUBSET session[q].code :
            /\ session' = [session EXCEPT ![q].stage = "patched", ![q].code = done]
            /\ settled' = settled \cup {<<k[1], q>> : k \in done}
      BY <2>5 DEF ApplyPatches
    <3>2. q = p /\ session'[p].code = done /\ session'[p].auto = session[p].auto
      BY <1>1, <1>4, <3>1 DEF TypeOK, Work
    <3> QED
      BY <1>2, <3>1, <3>2
  <2>6. CASE MarkPatched(q)
    BY <1>1, <1>4, <2>6 DEF MarkPatched, TypeOK, NoSession
  <2>7. ASSUME NEW backlog, AssumeReconciled(q, backlog) PROVE FALSE
    BY <1>4, <2>7 DEF AssumeReconciled
  <2> QED
    BY <1>4, <2>1, <2>2, <2>3, <2>4, <2>5, <2>6, <2>7 DEF Reconciles
<1>5. ASSUME session'[p] # session[p] PROVE \E q \in Platforms : Reconciles(q)
  <2>1. ASSUME NEW i \in Ingesters, Ingests(i) PROVE FALSE
    BY <1>5, <2>1 DEF Ingests, BeginIngest, WriteIngest, IngestFails
  <2>2. ~Capture
    BY <1>5 DEF Capture, Hook, HookFails, Reseed, Backfill
  <2>3. ASSUME NEW e \in Epics, ApproveEpic(e) \/ MarkEpic(e) PROVE FALSE
    BY <1>5, <2>3 DEF ApproveEpic, MarkEpic
  <2>4. ~Repositories
    BY <1>5 DEF Repositories, HostCommit, MergeEpic, Push, BoundCommit
  <2> QED
    BY <1>5, <2>1, <2>2, <2>3, <2>4 DEF Next, vars
<1> QED
  BY <1>3, <1>4, <1>5

LEMMA DriftStep ==
    ASSUME ~Since
    PROVE  DriftInv /\ [Next]_vars => DriftInv'
<1> SUFFICES ASSUME DriftInv, [Next]_vars PROVE DriftInv'
  OBVIOUS
<1>1. TypeOK /\ TypeOK' /\ RowsStep /\ IngestInv' /\ Repos'
  BY TypeStep, RowsAlways, IngestStep, ReposStep DEF DriftInv, IngestInv
<1>2. ASSUME Repositories, UNCHANGED <<reports, rows, ingest, overlapped, session, settled>>
      PROVE  DriftInv'
  <2>1. ASSUME NEW c \in Commits, NEW ch \in Changes, NEW e \in Epics \cup {NoEpic}, HostCommit(c, ch, e)
        PROVE  DriftInv'
    BY <1>1, <1>2, <2>1, NewCommit DEF HostCommit
  <2>2. ASSUME NEW e \in Epics, MergeEpic(e) PROVE DriftInv'
    BY <1>1, <1>2, <2>2 DEF MergeEpic, DriftInv, Repos, Made, Alone, NoneMissed, RowsOf, ReasonsStand,
       DriftIsReviewed, Reviews, Excused, Open
  <2>3. CASE Push
    <3>1. UNCHANGED <<change, hosted>> /\ Made' = Made
      BY <2>3 DEF Push, Made
    <3>2. \A p \in Platforms : base'[p] \in {base[p], main} /\ (p \notin Checkout => base'[p] = base[p])
      BY <2>3 DEF Push
    <3>3. NoneMissed'
      <4>1. \A i \in Ingesters : Open(i) => ingest[i].platform \in Platforms
        BY <1>1, OpenIngest
      <4> QED
        BY <1>2, <3>1, <3>2, <4>1 DEF DriftInv, NoneMissed, Open
    <3>4. Alone' /\ ReasonsStand' /\ DriftIsReviewed'
      BY <1>2, <3>1, <3>2 DEF DriftInv, Alone, Open, RowsOf, ReasonsStand, DriftIsReviewed, Reviews, Excused
    <3> QED
      BY <1>1, <3>3, <3>4 DEF DriftInv
  <2>4. ASSUME NEW p \in Platforms, NEW c \in Commits, NEW ch \in Changes, NEW e \in Epics \cup {NoEpic},
               BoundCommit(p, c, ch, e)
        PROVE  DriftInv'
    <3>1. \A q \in Platforms : base'[q] \subseteq base[q] \cup {c}
      BY <1>1, <2>4 DEF BoundCommit, TypeOK
    <3> QED
      BY <1>1, <1>2, <2>4, <3>1, NewCommit DEF BoundCommit
  <2> QED
    BY <1>2, <2>1, <2>2, <2>3, <2>4 DEF Repositories
<1>3. CASE UNCHANGED git
  <2> USE DEF git
  <2>1. /\ overlapped \subseteq overlapped'
        /\ \A i \in Ingesters : Open(i)' => \/ Open(i) /\ ingest'[i] = ingest[i]
                                            \/ \E p \in Platforms : BeginIngest(i, p)
    BY <1>1, ReasonsGrow, StaysOpen
  <2>2. \A k \in Keys : rows[k] = NoRow /\ rows'[k] # NoRow =>
          k[1] \in hosted \/ \E j \in Ingesters : ByIngest(k, j)
    BY <1>1 DEF RowsStep, NewRow, ByHook, ByRecovery, TypeOK
  <2>3. Alone'
    <3> SUFFICES ASSUME NEW i \in Ingesters, NEW j \in Ingesters, i # j, Open(i)',
                        ingest'[j].platform = ingest'[i].platform
                 PROVE  ingest'[i].platform \in overlapped'
      BY DEF Alone
    <3>1. Open(j)'
      BY DEF Open
    <3>2. ASSUME NEW p \in Platforms, BeginIngest(i, p) PROVE p \in overlapped'
      BY <1>1, <3>2, Begun
    <3>3. ASSUME NEW p \in Platforms, BeginIngest(j, p) PROVE p \in overlapped'
      BY <1>1, <3>3, Begun
    <3>4. CASE ingest'[i] = ingest[i] /\ ingest'[j] = ingest[j]
      BY <2>1, <3>4 DEF DriftInv, Alone, Open
    <3> QED
      BY <1>1, <2>1, <3>1, <3>2, <3>3, <3>4, Begun
  <2>4. NoneMissed'
    <3> SUFFICES ASSUME NEW i \in Ingesters, Open(i)',
                        ingest'[i].platform \notin Checkout \cup overlapped',
                        NEW k \in Keys, rows'[k].platform = ingest'[i].platform,
                        k[1] \in base[ingest'[i].platform]
                 PROVE  k[1] \in ingest'[i].remote
      BY <1>3 DEF NoneMissed
    <3>1. ASSUME NEW p \in Platforms, BeginIngest(i, p) PROVE k[1] \in ingest'[i].remote
      BY <1>1, <3>1, Begun
    <3>2. CASE Open(i) /\ ingest'[i] = ingest[i]
      <4> DEFINE p == ingest[i].platform
      <4>1. p \in Platforms /\ p \notin Checkout \cup overlapped /\ rows'[k] # NoRow
        BY <1>1, <2>1, <3>2, OpenIngest, PlatformsType DEF NoRow
      <4>2. CASE rows[k] # NoRow
        <5>1. rows[k].platform = p
          BY <1>1, <3>2, <4>2, KeptPlatform
        <5> QED
          BY <3>2, <4>1, <5>1 DEF DriftInv, NoneMissed
      <4>3. CASE rows[k] = NoRow
        <5>1. ASSUME NEW j \in Ingesters, ByIngest(k, j) PROVE FALSE
          <6>1. Open(j) /\ ~Open(j)' /\ ingest[j].platform = p
            BY <3>2, <5>1 DEF ByIngest
          <6>2. j # i
            BY <6>1
          <6> QED
            BY <3>2, <4>1, <6>1, <6>2 DEF DriftInv, Alone
        <5>2. k[1] \notin hosted
          BY <3>2, <4>1 DEF DriftInv, Repos
        <5> QED
          BY <2>2, <4>1, <4>3, <5>1, <5>2
      <4> QED
        BY <4>2, <4>3
    <3> QED
      BY <2>1, <3>1, <3>2
  <2>5. ReasonsStand'
    <3>1. ASSUME NEW i \in Ingesters PROVE ingest'[i].approved \subseteq reports'
      <4>1. ingest[i].approved \subseteq reports /\ reports \subseteq reports'
        BY <1>1, ReasonsGrow DEF DriftInv, ReasonsStand
      <4>2. ASSUME NEW p \in Platforms, BeginIngest(i, p) PROVE ingest'[i].approved \subseteq reports
        BY <1>1, <4>2, Begun
      <4>3. CASE WriteIngest(i) \/ IngestFails(i)
        BY <1>1, <4>3, Closed DEF NoIngest
      <4> QED
        BY <1>1, <4>1, <4>2, <4>3, IngestChange
    <3> QED
      BY <1>3, <3>1, SessionStep DEF ReasonsStand
  <2>6. DriftIsReviewed'
    <3> SUFFICES ASSUME NEW p \in Platforms \ (Checkout \cup overlapped'), NEW k \in Keys, NEW epic,
                        rows'[k].platform = p, rows'[k].epic = epic, rows'[k].reconciled,
                        k[1] \in base[p]
                 PROVE  Excused(k[1], p, epic)'
      BY <1>3 DEF DriftIsReviewed, Reviews, RowsOf, Excused
    <3>1. p \in Platforms \ (Checkout \cup overlapped)
      BY <2>1
    <3>2. CASE ~rows[k].reconciled
      BY <1>3, <3>1, <3>2, MarkedForAReason
    <3>3. CASE rows[k].reconciled
      <4>1. rows[k] # NoRow
        BY <3>3 DEF NoRow
      <4>2. rows[k].platform = p /\ rows[k].epic = epic
        BY <1>1, <4>1 DEF RowsStep, Kept, TypeOK, Row
      <4>3. Excused(k[1], p, epic)
        BY <3>1, <3>3, <4>2 DEF DriftInv, DriftIsReviewed, Reviews, RowsOf
      <4> QED
        BY <1>1, <1>3, <4>3, ReasonsGrow DEF Excused
    <3> QED
      BY <3>2, <3>3
  <2> QED
    BY <1>1, <2>3, <2>4, <2>5, <2>6 DEF DriftInv
<1> QED
  BY <1>1, <1>2, <1>3, GitStep

LEMMA DriftInit == Init => DriftInv
<1> SUFFICES ASSUME Init PROVE DriftInv
  OBVIOUS
<1>1. \A i \in Ingesters : ~Open(i)
  BY DEF Init, Open, NoIngest
<1>2. Repos
  BY DEF Init, Repos, NoIngest
<1>3. Alone /\ NoneMissed
  BY <1>1 DEF Alone, NoneMissed
<1>4. ReasonsStand /\ DriftIsReviewed
  BY DEF Init, ReasonsStand, DriftIsReviewed, Reviews, RowsOf, NoIngest, NoSession, NoRow
<1> QED
  BY <1>2, <1>3, <1>4, IngestInit DEF DriftInv

(* If no ingest is limited to recent commits, drift on the base branch of a *)
(* platform with a repository of its own, no two ingests of which have      *)
(* overlapped, never leaves the pending commits without a reason.  The runs *)
(* of LedgerSince and LedgerOverlap show that both conditions are needed.   *)
THEOREM DriftIsReviewedAlways ==
    ASSUME ~Since
    PROVE  Spec => []DriftIsReviewed
<1>1. DriftInv /\ [Next]_vars => DriftInv'
  BY DriftStep
<1>2. DriftInv => DriftIsReviewed
  BY DEF DriftInv
<1> QED
  BY <1>1, <1>2, DriftInit, PTL DEF Spec

-----------------------------------------------------------------------------
(* No commit is counted twice                                               *)

Recovered(k) == rows[k].source \in {"reseed", "backfill"}

(* The hook runs before its commit can be pushed: of a commit whose hook is *)
(* still to run only a recovery has written, and no ingest knows it.        *)
Unpushed ==
    hook # NoCommit =>
        /\ \A p \in Platforms : hook \notin base[p]
        /\ \A i \in Ingesters : hook \notin ingest[i].remote
        /\ \A k \in Keys : k[1] = hook /\ rows[k] # NoRow => Recovered(k)

(* Of a commit an ingest found on the base branch and did not find tracked, *)
(* the raw sha is stored before any composite; one it found tracked, but    *)
(* not for its platform, has since got a raw row of it by a recovery only.  *)
Seen ==
    \A i \in Ingesters : Open(i) =>
        \A c \in ingest[i].remote :
            /\ \A s \in Platforms : rows[<<c, s>>] # NoRow =>
                 c \in ingest[i].tracked \/ rows[<<c, Raw>>] # NoRow
            /\ rows[<<c, Raw>>].platform = ingest[i].platform /\ c \in ingest[i].tracked =>
                 c \in ingest[i].existing \/ Recovered(<<c, Raw>>)

TwiceInv == IngestInv /\ Repos /\ Unpushed /\ Seen /\ TwiceOnlyByRecovery

(* What a step may do to the two keys of a commit for a platform.           *)
LEMMA KeptRecovered ==
    ASSUME TypeOK, RowsStep, NEW k \in Keys, rows[k] # NoRow
    PROVE  Recovered(k)' = Recovered(k) /\ rows'[k] # NoRow
<1>1. rows[k] \in Row /\ rows[k] # NoRow
  BY DEF TypeOK
<1>2. rows'[k] \in Row /\ rows'[k].source = rows[k].source
  BY <1>1 DEF RowsStep, Kept, Row
<1> QED
  BY <1>1, <1>2, RowOrNot DEF Recovered

LEMMA HookKeys ==
    ASSUME TypeOK, hook # NoCommit,
           NEW k \in DOMAIN HookRows(hook), NEW l \in DOMAIN HookRows(hook)
    PROVE  ~(k[2] = Raw /\ l[2] \in Platforms)
<1> DEFINE ps == HookPlatforms(hook)
           key(p) == IF Cardinality(ps) > 1 THEN <<hook, p>> ELSE <<hook, Raw>>
<1>1. DOMAIN HookRows(hook) = {key(p) : p \in ps}
  BY DEF HookRows
<1>2. via[hook] \in Epics \cup {NoEpic} /\ change[hook] \in Changes \cup {NoChange}
  BY DEF TypeOK
<1>3. ps \subseteq Platforms
  BY <1>2, EpicsType, CheckoutType, ChangesType DEF HookPlatforms, NoChange
<1> HIDE DEF ps
<1>4. CASE Cardinality(ps) > 1
  BY <1>1, <1>3, <1>4, PlatformsType
<1>5. CASE ~(Cardinality(ps) > 1)
  BY <1>1, <1>5, PlatformsType
<1> QED
  BY <1>4, <1>5

LEMMA HookChange ==
    ASSUME [Next]_vars, hook' # hook, hook' # NoCommit
    PROVE  \E c \in Commits, ch \in Changes, e \in Epics \cup {NoEpic} : HostCommit(c, ch, e)
<1>1. /\ ~ \E i \in Ingesters : Ingests(i)
      /\ ~ \E p \in Platforms : Reconciles(p)
  BY DEF Ingests, BeginIngest, WriteIngest, IngestFails, Reconciles, AssumeReconciled, Triage,
     Aggregate, EndSession, MarkAuto, ApplyPatches, MarkPatched
<1>2. ~Capture
  BY DEF Capture, Hook, HookFails, Reseed, Backfill
<1>3. ASSUME NEW e \in Epics, ApproveEpic(e) \/ MarkEpic(e) PROVE FALSE
  BY <1>3 DEF ApproveEpic, MarkEpic
<1>4. ~UNCHANGED vars
  BY DEF vars
<1>5. Repositories
  BY <1>1, <1>2, <1>3, <1>4 DEF Next
<1> QED
  BY <1>5 DEF Repositories, MergeEpic, Push, BoundCommit

LEMMA TwiceStep == TwiceInv /\ [Next]_vars => TwiceInv'
<1> SUFFICES ASSUME TwiceInv, [Next]_vars PROVE TwiceInv'
  OBVIOUS
<1>1. TypeOK /\ TypeOK' /\ RowsStep /\ IngestInv' /\ Repos'
  BY TypeStep, RowsAlways, IngestStep, ReposStep DEF TwiceInv, IngestInv
<1>2. ASSUME NEW k \in Keys, rows[k] = NoRow, rows'[k] # NoRow
      PROVE  \/ ByHook(k)
             \/ k[2] = Raw /\ Recovered(k)'
             \/ \E i \in Ingesters : ByIngest(k, i)
  BY <1>1, <1>2 DEF RowsStep, NewRow, ByRecovery, Recovered
<1>3. ASSUME NEW k \in Keys, ByHook(k) PROVE hook \in Commits /\ k[1] = hook
  BY <1>1, <1>3 DEF ByHook, TypeOK
<1>4. ASSUME NEW k \in Keys, NEW i \in Ingesters, ByIngest(k, i)
      PROVE  /\ Open(i) /\ ~Open(i)'
             /\ k[1] \in ingest[i].remote /\ k[1] \notin ingest[i].existing
             /\ k = IF k[1] \in ingest[i].tracked THEN <<k[1], ingest[i].platform>> ELSE <<k[1], Raw>>
             /\ ingest[i].platform \in Platforms
  BY <1>1, <1>4, FreshKey, OpenIngest DEF ByIngest, Fresh, StoredKey
(* Which ingest writes a new row of a commit that another has found.        *)
<1>5. ASSUME NEW c \in Commits, NEW i \in Ingesters, Open(i), c \in ingest[i].remote,
             NEW j \in Ingesters, rows[<<c, Raw>>] = NoRow, c \in ingest[j].tracked, Open(j)
      PROVE  c \in ingest[i].tracked
  <2>1. PICK s \in Platforms \cup {Raw} : rows[<<c, s>>] # NoRow
    BY <1>5 DEF TwiceInv, IngestInv, TrackedStay
  <2> QED
    BY <1>5, <2>1 DEF TwiceInv, Seen
<1>6. \A c \in Commits, s \in Platforms \cup {Raw} : <<c, s>> \in Keys
  BY DEF Keys
<1>7. Unpushed'
  <2> SUFFICES ASSUME hook' # NoCommit
               PROVE  /\ \A p \in Platforms : hook' \notin base'[p]
                      /\ \A i \in Ingesters : hook' \notin ingest'[i].remote
                      /\ \A k \in Keys : k[1] = hook' /\ rows'[k] # NoRow => Recovered(k)'
    BY DEF Unpushed
  <2>1. CASE hook' # hook
    <3>1. PICK c \in Commits, ch \in Changes, e \in Epics \cup {NoEpic} : HostCommit(c, ch, e)
      BY <2>1, HookChange
    <3> QED
      BY <3>1 DEF HostCommit, TwiceInv, Repos
  <2>2. CASE hook' = hook
    <3>1. hook \in Made /\ hook \in Commits
      BY <1>1, <2>2 DEF TypeOK, TwiceInv, Repos
    <3>2. ASSUME NEW p \in Platforms PROVE hook \notin base'[p]
      <4>1. hook \notin base[p]
        BY <2>2 DEF TwiceInv, Unpushed
      <4>2. CASE UNCHANGED git
        BY <4>1, <4>2 DEF git
      <4>3. CASE Repositories
        <5>1. PICK q \in Platforms, c \in Commits, ch \in Changes, e \in Epics \cup {NoEpic} :
                BoundCommit(q, c, ch, e)
          BY <2>2, <4>3 DEF Repositories, HostCommit, MergeEpic, Push
        <5>2. base'[p] \subseteq base[p] \cup {c} /\ c # hook
          BY <1>1, <3>1, <5>1 DEF BoundCommit, TypeOK
        <5> QED
          BY <4>1, <5>2
      <4> QED
        BY <1>1, <4>2, <4>3, GitStep
    <3>3. ASSUME NEW i \in Ingesters PROVE hook \notin ingest'[i].remote
      <4>1. ASSUME NEW p \in Platforms, BeginIngest(i, p) PROVE hook \notin ingest'[i].remote
        BY <1>1, <2>2, <4>1, Begun DEF TwiceInv, Unpushed
      <4>2. CASE WriteIngest(i) \/ IngestFails(i)
        BY <1>1, <4>2, Closed DEF NoIngest
      <4>3. CASE ingest'[i] = ingest[i]
        BY <2>2, <4>3 DEF TwiceInv, Unpushed
      <4> QED
        BY <1>1, <4>1, <4>2, <4>3, IngestChange
    <3>4. ASSUME NEW k \in Keys, k[1] = hook, rows'[k] # NoRow PROVE Recovered(k)'
      <4>1. CASE rows[k] # NoRow
        BY <1>1, <2>2, <3>4, <4>1, KeptRecovered DEF TwiceInv, Unpushed
      <4>2. CASE rows[k] = NoRow
        <5>1. ~ByHook(k)
          BY <2>2 DEF ByHook
        <5>2. ASSUME NEW i \in Ingesters PROVE ~ByIngest(k, i)
          BY <1>4, <2>2, <3>4 DEF TwiceInv, Unpushed
        <5> QED
          BY <1>2, <3>4, <4>2, <5>1, <5>2
      <4> QED
        BY <4>1, <4>2
    <3> QED
      BY <2>2, <3>2, <3>3, <3>4
  <2> QED
    BY <2>1, <2>2
<1>8. Seen'
  <2> SUFFICES ASSUME NEW i \in Ingesters, Open(i)', NEW c \in ingest'[i].remote
               PROVE  /\ \A s \in Platforms : rows'[<<c, s>>] # NoRow =>
                           c \in ingest'[i].tracked \/ rows'[<<c, Raw>>] # NoRow
                      /\ rows'[<<c, Raw>>].platform = ingest'[i].platform /\ c \in ingest'[i].tracked =>
                           c \in ingest'[i].existing \/ Recovered(<<c, Raw>>)'
    BY DEF Seen
  <2>1. c \in Commits
    BY <1>1 DEF TypeOK, Reads
  <2>2. <<c, Raw>> \in Keys /\ \A s \in Platforms : <<c, s>> \in Keys
    BY <1>6, <2>1
  <2>3. ASSUME NEW p \in Platforms, BeginIngest(i, p)
        PROVE  /\ \A s \in Platforms : rows'[<<c, s>>] # NoRow => c \in ingest'[i].tracked
               /\ rows'[<<c, Raw>>].platform = ingest'[i].platform => c \in ingest'[i].existing
    <3>1. /\ ingest'[i].tracked = Tracked /\ ingest'[i].existing = Existing(p)
          /\ ingest'[i].platform = p /\ rows' = rows
      BY <1>1, <2>3, Begun
    <3> QED
      BY <2>2, <3>1 DEF Tracked, Existing, RowsOf
  <2>4. CASE Open(i) /\ ingest'[i] = ingest[i]
    <3> DEFINE p == ingest[i].platform
    <3>1. /\ \A s \in Platforms : rows[<<c, s>>] # NoRow => c \in ingest[i].tracked \/ rows[<<c, Raw>>] # NoRow
          /\ rows[<<c, Raw>>].platform = p /\ c \in ingest[i].tracked
               => c \in ingest[i].existing \/ Recovered(<<c, Raw>>)
      BY <2>4 DEF TwiceInv, Seen
    <3>2. ASSUME NEW k \in Keys, k[1] = c PROVE ~ByHook(k)
      <4>1. c \in ingest[i].remote
        BY <2>4
      <4> QED
        BY <3>2, <4>1 DEF ByHook, TwiceInv, Unpushed
    <3>3. rows[<<c, Raw>>] # NoRow => rows'[<<c, Raw>>] # NoRow
      BY <1>1, <2>2, KeptPlatform
    <3>4. ASSUME NEW s \in Platforms, rows'[<<c, s>>] # NoRow
          PROVE  c \in ingest[i].tracked \/ rows'[<<c, Raw>>] # NoRow
      <4>1. CASE rows[<<c, s>>] # NoRow
        BY <3>1, <3>3, <4>1
      <4>2. CASE rows[<<c, s>>] = NoRow
        <5>1. PICK j \in Ingesters : ByIngest(<<c, s>>, j)
          BY <1>2, <2>2, <3>2, <3>4, <4>2, PlatformsType
        <5>2. Open(j) /\ c \in ingest[j].tracked
          BY <1>4, <2>2, <5>1, PlatformsType
        <5> QED
          BY <1>5, <2>1, <2>4, <3>3, <5>2
      <4> QED
        BY <4>1, <4>2
    <3>5. ASSUME rows'[<<c, Raw>>].platform = p, c \in ingest[i].tracked
          PROVE  c \in ingest[i].existing \/ Recovered(<<c, Raw>>)'
      <4>1. rows'[<<c, Raw>>] # NoRow
        BY <1>1, <2>4, <3>5, OpenIngest, PlatformsType DEF NoRow
      <4>2. CASE rows[<<c, Raw>>] # NoRow
        BY <1>1, <2>2, <3>1, <3>5, <4>2, KeptPlatform, KeptRecovered
      <4>3. CASE rows[<<c, Raw>>] = NoRow
        <5>1. ASSUME NEW j \in Ingesters, ByIngest(<<c, Raw>>, j) PROVE FALSE
          <6>1. Open(j) /\ c \in ingest[j].remote /\ c \notin ingest[j].tracked
            BY <1>4, <2>2, <5>1, PlatformsType
          <6> QED
            BY <1>5, <2>1, <2>4, <3>5, <4>3, <6>1
        <5> QED
          BY <1>2, <2>2, <3>2, <4>1, <4>3, <5>1
      <4> QED
        BY <4>2, <4>3
    <3> QED
      BY <2>4, <3>4, <3>5
  <2> QED
    BY <1>1, <2>3, <2>4, StaysOpen
<1>9. TwiceOnlyByRecovery'
  <2> SUFFICES ASSUME NEW c \in Commits, NEW p \in Platforms,
                      rows'[<<c, Raw>>].platform = p, rows'[<<c, p>>] # NoRow,
                      ~Recovered(<<c, Raw>>)', ~Recovered(<<c, p>>)'
               PROVE  FALSE
    BY DEF TwiceOnlyByRecovery, Recovered
  <2> DEFINE raw == <<c, Raw>>
             own == <<c, p>>
  <2>1. raw \in Keys /\ own \in Keys /\ p # Raw
    BY <1>6, PlatformsType
  <2>2. rows'[raw] # NoRow /\ rows'[own].platform = p
    <3>1. NoRow.platform \notin Platforms
      BY PlatformsType DEF NoRow
    <3>2. CompositeOwn'
      BY <1>1 DEF IngestInv
    <3> QED
      BY <3>1, <3>2 DEF CompositeOwn
  <2>3. rows[raw] # NoRow => rows[raw].platform = p /\ ~Recovered(raw)
    BY <1>1, <2>1, KeptPlatform, KeptRecovered
  <2>4. rows[own] # NoRow => ~Recovered(own)
    BY <1>1, <2>1, KeptRecovered
  <2>5. rows[raw] = NoRow => ByHook(raw) \/ \E j \in Ingesters : ByIngest(raw, j)
    BY <1>2, <2>1, <2>2
  <2>6. rows[own] = NoRow => ByHook(own) \/ \E i \in Ingesters : ByIngest(own, i)
    BY <1>2, <2>1, <2>2
  <2>7. ASSUME NEW k \in Keys, k[1] = c, ByHook(k) PROVE c = hook /\ hook # NoCommit
    BY <2>7 DEF ByHook
  <2>8. ASSUME NEW k \in Keys, k[1] = c, ByHook(k), NEW l \in Keys, l[1] = c, rows[l] # NoRow
        PROVE  Recovered(l)
    BY <2>7, <2>8 DEF TwiceInv, Unpushed
  <2>9. ASSUME NEW k \in Keys, k[1] = c, ByHook(k), NEW l \in Keys, l[1] = c, NEW i \in Ingesters
        PROVE  ~ByIngest(l, i)
    BY <1>4, <2>7, <2>9 DEF TwiceInv, Unpushed
  <2>10. ~(ByHook(raw) /\ ByHook(own))
    BY <1>1, <2>1, HookKeys DEF ByHook
  <2>11. ASSUME NEW j \in Ingesters, ByIngest(raw, j)
         PROVE  Open(j) /\ c \in ingest[j].remote /\ c \notin ingest[j].tracked
    BY <1>4, <2>1, <2>11, PlatformsType
  <2>12. ASSUME NEW i \in Ingesters, ByIngest(own, i)
         PROVE  /\ Open(i) /\ c \in ingest[i].remote /\ ingest[i].platform = p
                /\ c \in ingest[i].tracked /\ c \notin ingest[i].existing
    BY <1>4, <2>1, <2>12
  <2>13. CASE rows[raw] # NoRow /\ rows[own] # NoRow
    BY <2>3, <2>4, <2>13 DEF TwiceInv, TwiceOnlyByRecovery, Recovered
  <2>14. CASE rows[raw] # NoRow /\ rows[own] = NoRow
    BY <2>1, <2>3, <2>6, <2>8, <2>12, <2>14 DEF TwiceInv, Seen
  <2>15. CASE rows[raw] = NoRow /\ rows[own] # NoRow
    BY <2>1, <2>4, <2>5, <2>8, <2>11, <2>15 DEF TwiceInv, Seen
  <2>16. CASE rows[raw] = NoRow /\ rows[own] = NoRow
    <3>1. ASSUME NEW i \in Ingesters, ByIngest(own, i), NEW j \in Ingesters, ByIngest(raw, j) PROVE FALSE
      BY <1>5, <2>11, <2>12, <2>16, <3>1
    <3> QED
      BY <2>1, <2>5, <2>6, <2>9, <2>10, <2>16, <3>1
  <2> QED
    BY <2>13, <2>14, <2>15, <2>16
<1> QED
  BY <1>1, <1>7, <1>8, <1>9 DEF TwiceInv

(* The hook and the ingest look for both forms of a sha and write different *)
(* ones; only a reseed or the backfill counts a commit twice.               *)
THEOREM TwiceOnlyByRecoveryAlways == Spec => []TwiceOnlyByRecovery
<1>1. Init => TwiceInv
  <2> SUFFICES ASSUME Init PROVE TwiceInv
    OBVIOUS
  <2>1. Repos /\ Unpushed
    BY DEF Init, Repos, Unpushed, NoIngest
  <2>2. Seen
    BY DEF Init, Seen, Open, NoIngest
  <2>3. TwiceOnlyByRecovery
    BY DEF Init, TwiceOnlyByRecovery, Keys
  <2> QED
    BY <2>1, <2>2, <2>3, IngestInit DEF TwiceInv
<1>2. TwiceInv => TwiceOnlyByRecovery
  BY DEF TwiceInv
<1> QED
  BY <1>1, <1>2, TwiceStep, PTL DEF Spec
=============================================================================
