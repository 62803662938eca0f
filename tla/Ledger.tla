-------------------------------- MODULE Ledger --------------------------------
(***************************************************************************)
(* The ledger of commits: the table `commits`, which says of every commit  *)
(* whose work it is, for which epic, and whether the documentation has     *)
(* caught up with it.  It is written by the post-commit hook, the sync of  *)
(* a reseed, the backfill, the ingest of a platform's own repository, the  *)
(* forward reconcile of an epic and the session of a reverse reconcile;    *)
(* none of them takes a lock for longer than its last transaction.         *)
(*                                                                         *)
(* A row is keyed by what is stored as its sha: the commit alone, or the   *)
(* composite "<sha>:<platform>".  Merge commits have no row of their own   *)
(* here, and every commit is later than the cutoff of the backfill.        *)
(***************************************************************************)
EXTENDS FiniteSets, Naturals

CONSTANTS Commits, NoCommit,
          Platforms, NoPlatform,
          Checkout,          \* the platforms whose repository is the checkout itself
          Fallback,          \* the platform of a commit that touches none
          Epics, NoEpic, Owner,
          Numbers, Number,   \* the three digits an epic's slug starts with
          Raw,               \* stands for the platform of a key that is not composite
          Changes,           \* what a commit may be about
          Ingesters,         \* bound: the ingests that run at a time, each a process
          Reviewed,          \* bound: the platforms with sessions of reverse reconcile
          Since,             \* whether an ingest may be limited to recent commits
          Tasks,             \* bound: ingests, cuts and sessions begun
          Recoveries         \* bound: reseeds and backfills

Kinds == {"auto", "owned", "code"}

ASSUME PlatformsType == NoPlatform \notin Platforms /\ Raw \notin Platforms
ASSUME CheckoutType  == Checkout \cup Reviewed \subseteq Platforms /\ Fallback \in Checkout
ASSUME EpicsType     == NoEpic \notin Epics \cup Numbers /\ Epics \cap Numbers = {}
                        /\ Owner \in [Epics -> Platforms] /\ Number \in [Epics -> Numbers]
ASSUME CommitsType   == NoCommit \notin Commits
ASSUME ChangesType   ==
    Changes \subseteq [touches : SUBSET Platforms,  \* the directories platforms/<name>/ with a file of it
                       first   : Platforms,         \* the platform of the first such file
                       kind    : Kinds,             \* what the triage and the aggregation make of its files
                       tag     : Epics \cup Numbers \cup {NoEpic}]
ASSUME BoundsType    == Since \in BOOLEAN /\ {Tasks, Recoveries} \subseteq Nat

VARIABLES change,   \* what a commit is about, for the commits made
          via,      \* the epic branch it was made on, NoEpic on the base branch
          hosted,   \* the commits made in the checkout
          main,     \* those of them that the checkout's main has
          newest,   \* the first commit `git log --all` lists in the checkout
          base,     \* what origin's base branch has, for each platform's repository
          hook,     \* the commit whose post-commit hook runs
          reports,  \* the epics with a reconcile-report.md
          rows,     \* the table
          ingest,   \* each ingest between its reads and its writes
          overlapped, \* history: the platforms that two ingests had open at a time
          session,  \* the reverse reconcile of a platform
          settled,  \* <<commit, platform>>: its docs were patched, or it was cut off as backlog
          budget

vars == <<change, via, hosted, main, newest, base, hook, reports, rows,
          ingest, overlapped, session, settled, budget>>
ingests == <<ingest, overlapped>>
git  == <<change, via, hosted, main, newest, base>>

NoChange == [touches |-> {}, first |-> Fallback, kind |-> "none", tag |-> NoEpic]
Sources  == {"hook", "reseed", "backfill", "external-fetch"}
EpicIds  == Epics \cup Numbers \cup {NoEpic}
Keys     == Commits \X (Platforms \cup {Raw})

Row   == [platform : Platforms, epic : EpicIds, source : Sources, reconciled : BOOLEAN]
NoRow == [platform |-> NoPlatform, epic |-> NoEpic, source |-> "none", reconciled |-> FALSE]

Reads    == [platform : Platforms \cup {NoPlatform}, existing : SUBSET Commits,
             tracked : SUBSET Commits, remote : SUBSET Commits, approved : SUBSET Epics]
NoIngest == [platform |-> NoPlatform, existing |-> {}, tracked |-> {}, remote |-> {}, approved |-> {}]

Work      == [stage : {"none", "triaged", "listed", "patched"},
              auto : SUBSET Keys, code : SUBSET Keys]
NoSession == [stage |-> "none", auto |-> {}, code |-> {}]

Made == {c \in Commits : change[c] # NoChange}

TypeOK ==
    /\ change \in [Commits -> Changes \cup {NoChange}]
    /\ via \in [Commits -> Epics \cup {NoEpic}]
    /\ hosted \subseteq Commits /\ main \subseteq hosted
    /\ newest \in hosted \cup {NoCommit}
    /\ base \in [Platforms -> SUBSET Commits]
    /\ hook \in hosted \cup {NoCommit}
    /\ reports \subseteq Epics
    /\ rows \in [Keys -> Row \cup {NoRow}]
    /\ \A k \in Keys : rows[k].source = "external-fetch" => rows[k].epic \notin Numbers
    /\ ingest \in [Ingesters -> Reads] /\ overlapped \subseteq Platforms
    /\ session \in [Platforms -> Work]
    /\ settled \subseteq Commits \X Platforms
    /\ budget \in [tasks : 0..Tasks, recoveries : 0..Recoveries]

Init ==
    /\ change = [c \in Commits |-> NoChange] /\ via = [c \in Commits |-> NoEpic]
    /\ hosted = {} /\ main = {} /\ newest = NoCommit
    /\ base = [p \in Platforms |-> {}]
    /\ hook = NoCommit /\ reports = {}
    /\ rows = [k \in Keys |-> NoRow]
    /\ ingest = [i \in Ingesters |-> NoIngest] /\ overlapped = {}
    /\ session = [p \in Platforms |-> NoSession]
    /\ settled = {}
    /\ budget = [tasks |-> Tasks, recoveries |-> Recoveries]

-----------------------------------------------------------------------------
(* The table                                                                *)

RowsOf(p)  == {k \in Keys : rows[k].platform = p}
Pending(p) == {k \in RowsOf(p) : ~rows[k].reconciled}

(* INSERT OR IGNORE: the rows of `new`, a function on keys, whose key is    *)
(* free.                                                                    *)
Inserted(new) ==
    [k \in Keys |-> IF k \in DOMAIN new /\ rows[k] = NoRow THEN new[k] ELSE rows[k]]

(* UPDATE commits SET reconciled_at of the rows of `ks`.                    *)
Marked(table, ks) ==
    [k \in Keys |-> IF k \in ks THEN [table[k] EXCEPT !.reconciled = TRUE] ELSE table[k]]

(* A sha as the triage lists it also stands for its composite form.         *)
Forms(p, k) == {k} \cup (IF k[2] = Raw THEN {<<k[1], p>>} ELSE {})

MarkShas(p, ks) ==
    rows' = Marked(rows, {k \in Pending(p) : \E l \in ks : k \in Forms(p, l)})

-----------------------------------------------------------------------------
(* The repositories                                                         *)

(* git commit in the checkout, up to the start of its post-commit hook.     *)
HostCommit(c, ch, e) ==
    /\ hook = NoCommit /\ c \notin Made
    /\ change' = [change EXCEPT ![c] = ch] /\ via' = [via EXCEPT ![c] = e]
    /\ hosted' = hosted \cup {c} /\ newest' = c /\ hook' = c
    /\ main' = IF e = NoEpic THEN main \cup {c} ELSE main
    /\ UNCHANGED <<base, reports, rows, ingests, session, settled, budget>>

(* A merge of an epic's branch into main makes a merge commit.              *)
MergeEpic(e) ==
    LET merged == {c \in hosted : via[c] = e}
    IN  /\ hook = NoCommit /\ ~(merged \subseteq main)
        /\ main' = main \cup merged /\ newest' = NoCommit
        /\ UNCHANGED <<change, via, hosted, base, hook, reports, rows,
                       ingests, session, settled, budget>>

Push ==
    /\ hook = NoCommit /\ \E p \in Checkout : base[p] # main
    /\ base' = [p \in Platforms |-> IF p \in Checkout THEN main ELSE base[p]]
    /\ UNCHANGED <<change, via, hosted, main, newest, hook, reports, rows,
                   ingests, session, settled, budget>>

(* A commit reaches the base branch of a platform with a repository of its  *)
(* own, directly, squashed, or with the merge of an epic's branch.          *)
BoundCommit(p, c, ch, e) ==
    /\ p \notin Checkout /\ c \notin Made
    /\ e # NoEpic => Owner[e] = p
    /\ change' = [change EXCEPT ![c] = ch] /\ via' = [via EXCEPT ![c] = e]
    /\ base' = [base EXCEPT ![p] = @ \cup {c}]
    /\ UNCHANGED <<hosted, main, newest, hook, reports, rows, ingests,
                   session, settled, budget>>

-----------------------------------------------------------------------------
(* The post-commit hook, the sync of a reseed and the backfill              *)

(* The tag the hook knows is [epic:NNN]; it stands before the branch.       *)
LocalEpic(c, branch) == IF change[c].tag \in Numbers THEN change[c].tag ELSE branch

HookPlatforms(c) ==
    IF via[c] # NoEpic THEN {Owner[via[c]]}
    ELSE IF change[c].touches # {} THEN change[c].touches ELSE {Fallback}

HookRows(c) ==
    LET ps == HookPlatforms(c)
        key(p) == IF Cardinality(ps) > 1 THEN <<c, p>> ELSE <<c, Raw>>
    IN  [k \in {key(p) : p \in ps} |->
           [platform |-> CHOOSE p \in ps : key(p) = k, epic |-> LocalEpic(c, via[c]),
            source |-> "hook", reconciled |-> FALSE]]

Hook ==
    /\ hook # NoCommit /\ hook' = NoCommit
    /\ rows' = Inserted(HookRows(hook))
    /\ UNCHANGED <<git, reports, ingests, session, settled, budget>>

(* The hook is best-effort: whatever stops it, the commit stands.           *)
HookFails ==
    /\ hook # NoCommit /\ hook' = NoCommit
    /\ UNCHANGED <<git, reports, rows, ingests, session, settled, budget>>

Recovers == budget.recoveries > 0 /\ budget' = [budget EXCEPT !.recoveries = @ - 1]

(* The log is split at blank lines it does not have: what is inserted of it *)
(* is its first commit, for the platform reseeded and the branch that is    *)
(* checked out.                                                             *)
ReseedRow(p, c, branch) ==
    [platform |-> p, epic |-> LocalEpic(c, branch), source |-> "reseed", reconciled |-> FALSE]

Reseed(p, branch) ==
    /\ Recovers /\ newest # NoCommit
    /\ rows' = Inserted([k \in {<<newest, Raw>>} |-> ReseedRow(p, newest, branch)])
    /\ UNCHANGED <<git, hook, reports, ingests, session, settled>>

(* Every commit of main, the epic from the merge and the platform from the  *)
(* files.                                                                   *)
BackfillRow(c) == [platform |-> IF change[c].touches = {} THEN Fallback ELSE change[c].first,
                   epic |-> via[c], source |-> "backfill", reconciled |-> FALSE]

Backfill ==
    /\ Recovers
    /\ rows' = Inserted([k \in main \X {Raw} |-> BackfillRow(k[1])])
    /\ UNCHANGED <<git, hook, reports, ingests, session, settled>>

-----------------------------------------------------------------------------
(* The ingest of a platform's repository                                    *)

(* Mutant: only composite shas are looked at.                               *)
ExistingComposite(p) == {k[1] : k \in {l \in RowsOf(p) : l[2] # Raw}}

Existing(p) == {k[1] : k \in RowsOf(p)}
Tracked     == {k[1] : k \in {l \in Keys : rows[l] # NoRow}}

(* Mutant: a tag that names no epic of the platform is taken as it is.      *)
NormalizedOrTag(tag, approved, p) ==
    IF \E e \in Epics : Owner[e] = p /\ tag \in {e, Number[e]}
    THEN CHOOSE e \in Epics : Owner[e] = p /\ tag \in {e, Number[e]}
    ELSE tag

(* An epic with the digits of the tag: one whose report exists before one   *)
(* that only has a directory.                                               *)
Normalized(tag, approved, p) ==
    LET own(es) == {e \in es : Owner[e] = p /\ e = tag}
        numbered(es) == {e \in es : Owner[e] = p /\ Number[e] = tag}
        only(es) == IF Cardinality(es) = 1 THEN CHOOSE e \in es : TRUE ELSE NoEpic
    IN  IF tag \notin Numbers THEN only(own(Epics))
        ELSE IF only(numbered(approved)) # NoEpic THEN only(numbered(approved))
        ELSE only(numbered(Epics))

MergedFor(p, c) == IF via[c] # NoEpic /\ Owner[via[c]] = p THEN via[c] ELSE NoEpic

ResolvedEpic(p, c, approved) ==
    LET slug == Normalized(change[c].tag, approved, p)
    IN  IF slug # NoEpic THEN slug ELSE MergedFor(p, c)

Begins == budget.tasks > 0 /\ budget' = [budget EXCEPT !.tasks = @ - 1]

Open(i) == ingest[i].platform # NoPlatform

(* The reads are one step: what is pushed or written after it is missed by  *)
(* all of them.  Nothing keeps a second ingest of the platform from it.     *)
BeginIngest(i, p) ==
    /\ ~Open(i) /\ Begins
    /\ \E old \in (IF Since THEN SUBSET base[p] ELSE {{}}) :
         ingest' = [ingest EXCEPT ![i] =
            [platform |-> p, existing |-> Existing(p), tracked |-> Tracked,
             remote |-> base[p] \ old, approved |-> {e \in reports : Owner[e] = p}]]
    /\ overlapped' = overlapped \cup {q \in {p} : \E j \in Ingesters : ingest[j].platform = q}
    /\ UNCHANGED <<git, hook, reports, rows, session, settled>>

(* Mutant: what any platform has is skipped.                                *)
FreshUntracked(i) == ingest[i].remote \ ingest[i].tracked

Fresh(i) == ingest[i].remote \ ingest[i].existing
StoredKey(i, c) == IF c \in ingest[i].tracked THEN <<c, ingest[i].platform>> ELSE <<c, Raw>>
FreshKeys(i) == {StoredKey(i, c) : c \in Fresh(i)}

IngestRow(i, c) ==
    LET epic == ResolvedEpic(ingest[i].platform, c, ingest[i].approved)
    IN  [platform |-> ingest[i].platform, epic |-> epic, source |-> "external-fetch",
         reconciled |-> epic \in ingest[i].approved]

(* Mutant: the sweep compares with the commits to insert.                   *)
OrphansOfFresh(i) == {k \in Pending(ingest[i].platform) : k[1] \notin Fresh(i)}

Orphans(i) == {k \in Pending(ingest[i].platform) : k[1] \notin ingest[i].remote}

Ingested(i) == [k \in Keys |-> IF k \in FreshKeys(i) THEN IngestRow(i, k[1])
                                ELSE Marked(rows, Orphans(i))[k]]

(* Mutant: only new rows are marked.                                        *)
NotUpgraded(i, table) == table

(* The rows whose epic has its report by now.                               *)
Upgraded(i, table) ==
    Marked(table, {k \in Keys : /\ table[k].platform = ingest[i].platform
                                /\ table[k].epic \in ingest[i].approved})

Conflict(i) == \E k \in FreshKeys(i) : rows[k] # NoRow

Closes(i) == Open(i) /\ ingest' = [ingest EXCEPT ![i] = NoIngest] /\ UNCHANGED overlapped

WriteIngest(i) ==
    /\ Closes(i) /\ ~Conflict(i)
    /\ rows' = Upgraded(i, Ingested(i))
    /\ UNCHANGED <<git, hook, reports, session, settled, budget>>

(* A plain INSERT of a key that is taken raises, and all of it is undone.   *)
IngestFails(i) ==
    /\ Closes(i) /\ Conflict(i)
    /\ UNCHANGED <<git, hook, reports, rows, session, settled, budget>>

(* The backlog cutter compares shas with what rev-list prints: composite    *)
(* keys are not among them.                                                 *)
AssumeReconciled(p, backlog) ==
    /\ backlog # {} /\ Begins
    /\ rows' = Marked(rows, Pending(p) \cap (backlog \X {Raw}))
    /\ settled' = settled \cup (backlog \X {p})
    /\ UNCHANGED <<git, hook, reports, ingests, session>>

-----------------------------------------------------------------------------
(* The forward reconcile of an epic, and the reverse reconcile              *)

ApproveEpic(e) ==
    /\ e \notin reports /\ reports' = reports \cup {e}
    /\ UNCHANGED <<git, hook, rows, ingests, session, settled, budget>>

MarkEpic(e) ==
    /\ e \in reports
    /\ rows' = Marked(rows, {k \in Pending(Owner[e]) : rows[k].epic = e})
    /\ UNCHANGED <<git, hook, reports, ingests, session, settled, budget>>

OfKind(ks, kinds) == {k \in ks : change[k[1]].kind \in kinds}

Triage(p) ==
    /\ p \in Reviewed /\ session[p].stage = "none" /\ Begins
    /\ session' = [session EXCEPT ![p] =
         [stage |-> "triaged", auto |-> OfKind(Pending(p), {"auto"}),
          code |-> OfKind(Pending(p), {"owned", "code"})]]
    /\ UNCHANGED <<git, hook, reports, rows, ingests, settled>>

Listed(p) == session[p].auto \cup session[p].code

Leaked(p) == \E l \in Listed(p) : \E k \in Forms(p, l) \cap Keys :
                rows[k].platform = p /\ rows[k].reconciled

(* Commits that touch nothing but a platform's own files join those that    *)
(* are marked without a patch.  The assertion that nothing has leaked is    *)
(* skipped when the database cannot be read.                                *)
Aggregate(p, readable) ==
    /\ session[p].stage = "triaged" /\ (readable => ~Leaked(p))
    /\ session' = [session EXCEPT ![p].stage = "listed",
                                  ![p].auto = @ \cup OfKind(session[p].code, {"owned"}),
                                  ![p].code = OfKind(@, {"code"})]
    /\ UNCHANGED <<git, hook, reports, rows, ingests, settled, budget>>

(* The assertion on its input fails, or the person stops.                   *)
EndSession(p) ==
    /\ session[p].stage # "none"
    /\ session' = [session EXCEPT ![p] = NoSession]
    /\ UNCHANGED <<git, hook, reports, rows, ingests, settled, budget>>

(* The noise and the documents' own edits are marked by two calls.          *)
MarkAuto(p, part) ==
    /\ session[p].stage = "listed" /\ part # {}
    /\ MarkShas(p, part)
    /\ session' = [session EXCEPT ![p].auto = @ \ part]
    /\ UNCHANGED <<git, hook, reports, ingests, settled, budget>>

(* Patches are applied one by one and some may fail: `done` are the commits *)
(* of those that did not.                                                   *)
ApplyPatches(p) ==
    /\ session[p].stage = "listed"
    /\ \E done \in SUBSET session[p].code :
         /\ session' = [session EXCEPT ![p].stage = "patched", ![p].code = done]
         /\ settled' = settled \cup {<<k[1], p>> : k \in done}
    /\ UNCHANGED <<git, hook, reports, rows, ingests, budget>>

MarkPatched(p) ==
    /\ session[p].stage = "patched"
    /\ MarkShas(p, session[p].code)
    /\ session' = [session EXCEPT ![p] = NoSession]
    /\ UNCHANGED <<git, hook, reports, ingests, settled, budget>>

-----------------------------------------------------------------------------
Repositories ==
    \/ \E c \in Commits, ch \in Changes, e \in Epics \cup {NoEpic} : HostCommit(c, ch, e)
    \/ \E e \in Epics : MergeEpic(e)
    \/ Push
    \/ \E p \in Platforms, c \in Commits, ch \in Changes, e \in Epics \cup {NoEpic} :
         BoundCommit(p, c, ch, e)

Capture ==
    \/ Hook
    \/ HookFails
    \/ \E p \in Platforms, branch \in Epics \cup {NoEpic} : Reseed(p, branch)
    \/ Backfill

Ingests(i) ==
    \/ \E p \in Platforms : BeginIngest(i, p)
    \/ WriteIngest(i)
    \/ IngestFails(i)

Reconciles(p) ==
    \/ \E backlog \in SUBSET base[p] : AssumeReconciled(p, backlog)
    \/ Triage(p)
    \/ \E readable \in BOOLEAN : Aggregate(p, readable)
    \/ EndSession(p)
    \/ \E part \in SUBSET session[p].auto : MarkAuto(p, part)
    \/ ApplyPatches(p)
    \/ MarkPatched(p)

Next ==
    \/ Repositories
    \/ Capture
    \/ \E e \in Epics : ApproveEpic(e) \/ MarkEpic(e)
    \/ \E i \in Ingesters : Ingests(i)
    \/ \E p \in Platforms : Reconciles(p)

Spec == Init /\ [][Next]_vars

-----------------------------------------------------------------------------
(* Properties                                                               *)

(* In a platform with a repository of its own, a commit of the base branch  *)
(* leaves the reverse reconcile only for a reason: its epic was reconciled, *)
(* its files need no documentation, its patches were applied, or a person   *)
(* cut it off.  The sweep of _reconcile_orphans is for rows whose commit    *)
(* the platform's repository never gets.                                    *)
Excused(c, p, epic) == \/ epic \in reports
                       \/ change[c].kind \in {"auto", "owned"}
                       \/ <<c, p>> \in settled

Reviews(p) ==
    \A k \in RowsOf(p) : rows[k].reconciled /\ k[1] \in base[p] => Excused(k[1], p, rows[k].epic)

(* That holds of every platform no two ingests of which have overlapped.   *)
(* It is false of the others: the sweep of an ingest that read the log     *)
(* before a commit was pushed takes the row that another, which began      *)
(* after the push, has just inserted.                                      *)
DriftIsReviewed == \A p \in Platforms \ (Checkout \cup overlapped) : Reviews(p)

(* A commit has two rows of one platform only if a reseed or the backfill,  *)
(* which look at the raw sha alone, wrote one: the hook and the ingest      *)
(* never count a commit twice.                                              *)
TwiceOnlyByRecovery ==
    \A c \in Commits, p \in Platforms :
        rows[<<c, Raw>>].platform = p /\ rows[<<c, p>>] # NoRow
            => \E s \in {p, Raw} : rows[<<c, s>>].source \in {"reseed", "backfill"}

(* The first writer of a key wins and a mark stays: no later capture, sync  *)
(* or ingest rewrites a row, removes it or makes it pending again.          *)
RowsAreKept ==
    [][\A k \in Keys : rows[k] # NoRow =>
          rows'[k] \in {rows[k], [rows[k] EXCEPT !.reconciled = TRUE]}]_rows

(* An ingest that no one interferes with succeeds: what it has read never   *)
(* makes it insert a sha that is taken.  Without the composite keys, or the *)
(* look for them, every ingest of the platform would fail from then on.     *)
IngestStartsClean ==
    [][\A i \in Ingesters : ~Open(i) /\ Open(i)' => ~Conflict(i)']_ingest

Completes(i) == Open(i) /\ ~Open(i)' /\ ~Conflict(i)

(* After an ingest every commit it found on the base branch has a row of    *)
(* the platform, whoever wrote it.                                          *)
IngestIsComplete ==
    [][\A i \in Ingesters : Completes(i) =>
          \A c \in ingest[i].remote : LET p == ingest[i].platform
                                      IN  \E s \in {p, Raw} : rows'[<<c, s>>].platform = p]_ingest

(* After an ingest no row of an epic whose report it had seen is pending,   *)
(* also a row the hook wrote while the ingest read the log.                 *)
ApprovedAreSettled ==
    [][\A i \in Ingesters : Completes(i) =>
          \A k \in Keys : rows'[k].platform = ingest[i].platform
                             /\ rows'[k].epic \in ingest[i].approved => rows'[k].reconciled]_ingest

(* What an ingest leaves behind: nothing it found is missing, and nothing   *)
(* of an epic that has its report is left to review.                        *)
IngestDoesItsWork == IngestIsComplete /\ ApprovedAreSettled
=============================================================================
