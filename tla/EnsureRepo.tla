------------------------------ MODULE EnsureRepo ------------------------------
(***************************************************************************)
(* The clone of a platform's code repository: ensure_repo, which processes  *)
(* call at any time (the daemon's pipeline, an ingest, an aggregation, the  *)
(* command line), and get_repo_work_dir with the commits of the pipeline,   *)
(* which only the daemon does, one epic at a time.                         *)
(*                                                                         *)
(* A process is at a line of ensure_repo between two system calls or git   *)
(* commands.  `dir` is what is on disk at the path of the clone; the lock  *)
(* is a file with an inode, since the path is unlinked after each use.     *)
(***************************************************************************)
EXTENDS Naturals, FiniteSets, Sequences, SequencesExt

CONSTANTS Procs,      \* the processes
          Daemon,     \* the one that dispatches epics
          Epics,
          Base,       \* the name of the base branch
          Inodes,     \* the inodes a lock file may get
          MaxCalls,   \* bound: calls of ensure_repo in a behaviour
          Budget,     \* bound: adverse events in a behaviour
          Nobody

ASSUME ProcsType  == Daemon \in Procs /\ Nobody \notin Procs
ASSUME InodesType == Inodes \subseteq Nat /\ Nobody \notin Inodes
ASSUME BaseType   == Base \notin Epics
ASSUME BoundType  == MaxCalls \in Nat /\ Budget \in Nat

VARIABLES dir,        \* the clone: its state, and who is making it
          lockFile,   \* the inode of <repo>.lock
          holder,     \* who has the flock of each inode
          pc, fd, via, got,
          epic,       \* the epic the daemon prepares or works on
          head,       \* the branch checked out
          dirty,      \* the epics with uncommitted work in the tree
          branches,   \* the work each local branch has
          recent,     \* the epic branches, the latest commit first
          merged,     \* the work on the base branch of the remote
          known,      \* ... at the last fetch
          inherited,  \* history: the work a branch was created with
          disturbed,  \* history: a clone failed, was killed or removed
          calls, budget

lock == <<lockFile, holder, fd>>
work == <<head, dirty, branches, recent, inherited>>
vars == <<dir, lock, pc, via, got, epic, work, merged, known, disturbed, calls, budget>>

States == {"absent", "made", "cloning", "ready"}
Steps  == {"idle", "look", "partial", "fetch", "open", "lock", "check", "clone", "cloning",
           "release", "unlink", "status", "branch", "create", "work"}
Locked == {"check", "clone", "cloning", "release"}

TypeOK ==
    /\ dir \in [state : States, by : Procs \cup {Nobody}]
    /\ lockFile \in Inodes \cup {Nobody}
    /\ holder \in [Inodes -> Procs \cup {Nobody}]
    /\ pc \in [Procs -> Steps]
    /\ fd \in [Procs -> Inodes \cup {Nobody}]
    /\ via \in [Procs -> {"ssh", "https"}]
    /\ got \in [Procs -> {"path", "error"}]
    /\ epic \in Epics \cup {Nobody}
    /\ head \in DOMAIN branches \cup {Base}
    /\ dirty \subseteq Epics
    /\ DOMAIN branches \subseteq Epics /\ branches \in [DOMAIN branches -> SUBSET Epics]
    /\ recent \in Seq(Epics) /\ ToSet(recent) = DOMAIN branches
    /\ \A i, j \in DOMAIN recent : recent[i] = recent[j] => i = j
    /\ merged \subseteq Epics /\ known \subseteq Epics
    /\ DOMAIN inherited = DOMAIN branches /\ inherited \in [DOMAIN inherited -> SUBSET Epics]
    /\ disturbed \in BOOLEAN
    /\ \A p \in Procs : fd[p] # Nobody <=> pc[p] \in {"lock"} \cup Locked
    /\ \A p \in Procs, i \in Inodes : holder[i] = p <=> (fd[p] = i /\ pc[p] \in Locked)
    /\ calls \in 0..MaxCalls /\ budget \in 0..Budget

Absent == [state |-> "absent", by |-> Nobody]
Empty  == [e \in {} |-> {}]

Init ==
    /\ dir = Absent
    /\ lockFile = Nobody /\ holder = [i \in Inodes |-> Nobody]
    /\ pc = [p \in Procs |-> "idle"] /\ fd = [p \in Procs |-> Nobody]
    /\ via = [p \in Procs |-> "ssh"] /\ got = [p \in Procs |-> "path"]
    /\ epic = Nobody
    /\ head = Base /\ dirty = {} /\ branches = Empty /\ recent = << >> /\ inherited = Empty
    /\ merged = {} /\ known = {}
    /\ disturbed = FALSE /\ calls = 0 /\ budget = Budget

Goto(p, here, there) == pc[p] = here /\ pc' = [pc EXCEPT ![p] = there]
Adverse == budget > 0 /\ budget' = budget - 1

(* What a new or removed clone has: the base branch and no work.           *)
Forget ==
    /\ head' = Base /\ dirty' = {} /\ branches' = Empty /\ recent' = << >> /\ inherited' = Empty

Cloning(p) == pc[p] \in {"clone", "cloning"}
HasGit == dir.state \in {"cloning", "ready"}

-----------------------------------------------------------------------------
(* ensure_repo                                                              *)

(* A reader calls ensure_repo; the daemon does for an epic.                *)
Call(p) ==
    /\ Goto(p, "idle", "look")
    /\ calls < MaxCalls /\ calls' = calls + 1
    /\ IF p = Daemon THEN epic' \in Epics ELSE UNCHANGED epic
    /\ UNCHANGED <<dir, lock, via, got, work, merged, known, disturbed, budget>>

(* The next call tries SSH first again.                                    *)
Fresh(p) == via' = [via EXCEPT ![p] = "ssh"] /\ got' = [got EXCEPT ![p] = "path"]

(* The first look, before the lock.                                        *)
Look(p) ==
    /\ pc[p] = "look"
    /\ pc' = [pc EXCEPT ![p] = IF HasGit THEN "fetch" ELSE "partial"]
    /\ UNCHANGED <<dir, lock, via, got, epic, work, merged, known, disturbed, calls, budget>>

(* What a call goes on with once it has the path, or an exception.         *)
After(p, result) ==
    IF p = Daemon /\ result = "path" THEN "status" ELSE "idle"

(* git fetch --all of what has a .git: it may complete a clone that was    *)
(* killed, when its remote was already configured, and knows the remote.   *)
Fetch(p) ==
    /\ Goto(p, "fetch", After(p, "path"))
    /\ \/ dir.state = "cloning" /\ dir.by = Nobody /\ dir' = [dir EXCEPT !.state = "ready"]
       \/ UNCHANGED dir
    /\ known' = IF dir'.state = "ready" THEN merged ELSE known
    /\ UNCHANGED <<lock, via, got, epic, work, merged, disturbed, calls, budget>>

FetchRaises(p) ==
    /\ Goto(p, "fetch", After(p, "error"))
    /\ Adverse \/ (dir.state # "ready" /\ UNCHANGED budget)
    /\ UNCHANGED <<dir, lock, via, got, epic, work, merged, known, disturbed, calls>>

(* Without a .git when looked at: whatever is there now is removed.        *)
RemovePartial(p) ==
    /\ Goto(p, "partial", "open")
    /\ dir' = Absent /\ disturbed' = (disturbed \/ dir.state # "absent")
    /\ IF dir.state = "absent" THEN UNCHANGED work ELSE Forget
    /\ UNCHANGED <<lock, via, got, epic, merged, known, calls, budget>>

(* open(path, "w") of the lock file, which it may create: a new file has   *)
(* the first inode that no process holds open.                             *)
Free      == {i \in Inodes : \A q \in Procs : fd[q] # i}
Unused(i) == i \in Free /\ \A j \in Free : i <= j
Open(p) ==
    /\ Goto(p, "open", "lock")
    /\ \E i \in Inodes :
          /\ IF lockFile = Nobody THEN Unused(i) ELSE i = lockFile
          /\ lockFile' = i /\ fd' = [fd EXCEPT ![p] = i]
    /\ UNCHANGED <<dir, holder, via, got, epic, work, merged, known, disturbed, calls, budget>>

Lock(p) ==
    /\ Goto(p, "lock", "check") /\ holder[fd[p]] = Nobody
    /\ holder' = [holder EXCEPT ![fd[p]] = p]
    /\ UNCHANGED <<dir, lockFile, fd, via, got, epic, work, merged, known, disturbed, calls, budget>>

(* Mutant: no second look under the lock.                                  *)
CheckNothing(p) ==
    /\ Goto(p, "check", "clone")
    /\ UNCHANGED <<dir, lock, via, got, epic, work, merged, known, disturbed, calls, budget>>

(* The second look: another process may have cloned.                       *)
Check(p) ==
    /\ pc[p] = "check"
    /\ pc' = [pc EXCEPT ![p] = IF HasGit THEN "release" ELSE "clone"]
    /\ UNCHANGED <<dir, lock, via, got, epic, work, merged, known, disturbed, calls, budget>>

(* git clone makes the directory, then .git, then the rest.                *)
CloneBegins(p) ==
    /\ Goto(p, "clone", "cloning") /\ dir.state = "absent"
    /\ dir' = [state |-> "made", by |-> p]
    /\ UNCHANGED <<lock, via, got, epic, work, merged, known, disturbed, calls, budget>>

CloneGoesOn(p) ==
    /\ pc[p] = "cloning" /\ dir = [state |-> "made", by |-> p]
    /\ dir' = [dir EXCEPT !.state = "cloning"]
    /\ UNCHANGED <<lock, pc, via, got, epic, work, merged, known, disturbed, calls, budget>>

CloneEnds(p) ==
    /\ Goto(p, "cloning", "release") /\ dir = [state |-> "cloning", by |-> p]
    /\ dir' = [state |-> "ready", by |-> Nobody]
    /\ known' = merged
    /\ UNCHANGED <<lock, via, got, epic, work, merged, disturbed, calls, budget>>

(* Mutant: what failed is tried again.                                     *)
CloneRetries(p) ==
    /\ \/ pc[p] = "clone" /\ dir.state # "absent" /\ UNCHANGED budget
       \/ pc[p] = "cloning" /\ dir.by # p /\ UNCHANGED budget
       \/ Cloning(p) /\ Adverse
    /\ dir' = IF dir.by = p THEN Absent ELSE dir
    /\ pc' = [pc EXCEPT ![p] = "clone"] /\ disturbed' = TRUE
    /\ UNCHANGED <<lock, via, got, epic, work, merged, known, calls>>

(* It refuses a directory that is there, and loses one that is removed; it *)
(* removes what it made.  After SSH comes HTTPS, and then an exception.    *)
CloneFails(p) ==
    /\ \/ pc[p] = "clone" /\ dir.state # "absent" /\ UNCHANGED budget
       \/ pc[p] = "cloning" /\ dir.by # p /\ UNCHANGED budget
       \/ Cloning(p) /\ Adverse
    /\ dir' = IF dir.by = p THEN Absent ELSE dir
    /\ pc' = [pc EXCEPT ![p] = IF via[p] = "ssh" THEN "clone" ELSE "release"]
    /\ via' = [via EXCEPT ![p] = "https"]
    /\ got' = [got EXCEPT ![p] = IF via[p] = "ssh" THEN @ ELSE "error"]
    /\ disturbed' = TRUE
    /\ UNCHANGED <<lock, epic, work, merged, known, calls>>

(* finally: LOCK_UN and close ...                                          *)
Release(p) ==
    /\ Goto(p, "release", "unlink")
    /\ holder' = [holder EXCEPT ![fd[p]] = Nobody] /\ fd' = [fd EXCEPT ![p] = Nobody]
    /\ UNCHANGED <<dir, lockFile, via, got, epic, work, merged, known, disturbed, calls, budget>>

(* ... then whatever lock file is at the path is unlinked.                 *)
Unlink(p) ==
    /\ Goto(p, "unlink", After(p, got[p]))
    /\ lockFile' = Nobody /\ Fresh(p)
    /\ UNCHANGED <<dir, holder, fd, epic, work, merged, known, disturbed, calls, budget>>

-----------------------------------------------------------------------------
(* get_repo_work_dir and the walk of the daemon's pipeline                  *)

(* git in a directory that is gone, or not yet a repository, fails.        *)
GitFails ==
    /\ pc[Daemon] \in {"status", "branch", "create"} /\ pc' = [pc EXCEPT ![Daemon] = "idle"]
    /\ Adverse \/ (dir.state # "ready" /\ UNCHANGED budget)
    /\ UNCHANGED <<dir, lock, via, got, epic, work, merged, known, disturbed, calls>>

(* Mutant: a dirty tree is not looked for.                                 *)
StatusUnread ==
    /\ dir.state = "ready" /\ Goto(Daemon, "status", "branch")
    /\ UNCHANGED <<dir, lock, via, got, epic, work, merged, known, disturbed, calls, budget>>

(* git status --porcelain: DirtyTreeError if the tree is not clean.        *)
Status ==
    /\ dir.state = "ready" /\ pc[Daemon] = "status"
    /\ pc' = [pc EXCEPT ![Daemon] = IF dirty # {} THEN "idle" ELSE "branch"]
    /\ UNCHANGED <<dir, lock, via, got, epic, work, merged, known, disturbed, calls, budget>>

(* An epic with a local branch gets it checked out.                        *)
CheckOut ==
    /\ dir.state = "ready" /\ Goto(Daemon, "branch", "work") /\ epic \in DOMAIN branches
    /\ head' = epic
    /\ UNCHANGED <<dir, lock, via, got, epic, dirty, branches, recent, inherited, merged, known,
                   disturbed, calls, budget>>

FetchBase ==
    /\ dir.state = "ready" /\ Goto(Daemon, "branch", "create") /\ epic \notin DOMAIN branches
    /\ known' = merged
    /\ UNCHANGED <<dir, lock, via, got, epic, work, merged, disturbed, calls, budget>>

(* _get_cascade_base: the latest epic branch ahead of the base branch, or  *)
(* else the base branch as last fetched.                                   *)
Ahead == {i \in DOMAIN recent : ~(branches[recent[i]] \subseteq known)}
CascadeBase == IF Ahead = {} THEN known ELSE branches[recent[Min(Ahead)]]

(* git checkout -b, with the commit date of what it starts from.           *)
CreateBranch ==
    /\ dir.state = "ready" /\ Goto(Daemon, "create", "work")
    /\ branches' = [e \in DOMAIN branches \cup {epic} |->
                        IF e = epic THEN CascadeBase ELSE branches[e]]
    /\ inherited' = [e \in DOMAIN branches \cup {epic} |->
                        IF e = epic THEN CascadeBase ELSE inherited[e]]
    /\ recent' = IF Ahead = {} THEN Append(recent, epic) ELSE <<epic>> \o recent
    /\ head' = epic
    /\ UNCHANGED <<dir, lock, via, got, epic, dirty, merged, known, disturbed, calls, budget>>

(* claude writes code of the epic in the clone.                            *)
ClaudeWrites ==
    /\ pc[Daemon] = "work" /\ dir.state = "ready"
    /\ dirty' = dirty \cup {epic}
    /\ UNCHANGED <<dir, lock, pc, via, got, epic, head, branches, recent, inherited, merged, known,
                   disturbed, calls, budget>>

(* x, which is somewhere in the sequence, comes to its front.              *)
ToFront(seq, x) ==
    LET at == CHOOSE i \in DOMAIN seq : seq[i] = x
    IN  [i \in DOMAIN seq |-> IF i = 1 THEN x ELSE IF i <= at THEN seq[i - 1] ELSE seq[i]]

(* A commit on the checked out branch; the local base branch is never used. *)
Committed(who) ==
    IF head = Base THEN UNCHANGED <<branches, recent>>
    ELSE /\ branches' = [branches EXCEPT ![head] = @ \cup who]
         /\ recent' = ToFront(recent, head)

(* _auto_commit_epic: on whatever branch is checked out.  A commit that    *)
(* fails is only logged; files with a sensitive name stay uncommitted.     *)
AutoCommit ==
    /\ pc[Daemon] = "work" /\ dir.state = "ready" /\ dirty # {} /\ Committed(dirty)
    /\ \/ dirty' = {} /\ UNCHANGED budget
       \/ Adverse /\ UNCHANGED dirty
    /\ UNCHANGED <<dir, lock, pc, via, got, epic, head, inherited, merged, known, disturbed, calls>>

(* The pipeline ends, at a gate, with a failure or done.                   *)
EndWork ==
    /\ Goto(Daemon, "work", "idle")
    /\ UNCHANGED <<dir, lock, via, got, epic, work, merged, known, disturbed, calls, budget>>

-----------------------------------------------------------------------------
(* The environment                                                          *)

(* The operator commits what DirtyTreeError tells him about, or stashes it. *)
CleanUp ==
    /\ pc[Daemon] = "idle" /\ dir.state = "ready" /\ dirty # {} /\ Adverse
    /\ dirty' = {}
    /\ \/ Committed(dirty)
       \/ UNCHANGED <<branches, recent>>
    /\ UNCHANGED <<dir, lock, pc, via, got, epic, head, inherited, merged, known, disturbed, calls>>

(* The branch of an epic is merged on the remote.                          *)
Merge(e) ==
    /\ e \in DOMAIN branches /\ ~(branches[e] \subseteq merged)
    /\ merged' = merged \cup branches[e]
    /\ UNCHANGED <<dir, lock, pc, via, got, epic, work, known, disturbed, calls, budget>>

(* Mutant: a lock that its owner has to take off.                          *)
CrashKeepsLock(p) ==
    /\ pc[p] # "idle" /\ Adverse
    /\ pc' = [pc EXCEPT ![p] = "idle"] /\ fd' = [fd EXCEPT ![p] = Nobody]
    /\ dir' = IF dir.by = p THEN [dir EXCEPT !.by = Nobody] ELSE dir
    /\ disturbed' = (disturbed \/ dir.by = p) /\ Fresh(p)
    /\ UNCHANGED <<lockFile, holder, epic, work, merged, known, calls>>

(* A process is killed: its flock goes, what it was cloning stays.         *)
Crash(p) ==
    /\ pc[p] # "idle" /\ Adverse
    /\ pc' = [pc EXCEPT ![p] = "idle"]
    /\ holder' = [i \in Inodes |-> IF holder[i] = p THEN Nobody ELSE holder[i]]
    /\ fd' = [fd EXCEPT ![p] = Nobody]
    /\ dir' = IF dir.by = p THEN [dir EXCEPT !.by = Nobody] ELSE dir
    /\ disturbed' = (disturbed \/ dir.by = p) /\ Fresh(p)
    /\ UNCHANGED <<lockFile, epic, work, merged, known, calls>>

-----------------------------------------------------------------------------
Ensure(p) ==
    \/ Look(p) \/ Fetch(p) \/ FetchRaises(p) \/ RemovePartial(p) \/ Open(p) \/ Lock(p) \/ Check(p)
    \/ CloneBegins(p) \/ CloneGoesOn(p) \/ CloneEnds(p) \/ CloneFails(p) \/ Release(p) \/ Unlink(p)

Prepare == GitFails \/ Status \/ CheckOut \/ FetchBase \/ CreateBranch

Next ==
    \/ \E p \in Procs : Call(p) \/ Ensure(p) \/ Crash(p)
    \/ Prepare \/ ClaudeWrites \/ AutoCommit \/ EndWork
    \/ CleanUp \/ \E e \in Epics : Merge(e)

Spec == Init /\ [][Next]_vars

(* A process keeps running, git and claude end.                            *)
Fairness == (\A p \in Procs : WF_vars(Ensure(p))) /\ WF_vars(Prepare) /\ WF_vars(EndWork)
FairSpec == Spec /\ Fairness

-----------------------------------------------------------------------------
(* Properties                                                               *)

(* Although the lock file is unlinked while others wait for it or create   *)
(* another, calls clone one at a time, and whoever came through the lock   *)
(* has a complete clone - as long as no clone failed, was killed or was    *)
(* removed by a call that had looked before it had a .git.                 *)
Serialized ==
    ~disturbed =>
        /\ \A p, q \in Procs : Cloning(p) /\ Cloning(q) => p = q
        /\ \A p \in Procs : pc[p] \in {"release", "unlink"} => dir.state = "ready"

(* A branch has the work it was created with and that of its own epic: what *)
(* an interrupted epic left in the tree is never committed for another.    *)
OwnWorkOnly == \A e \in DOMAIN branches : branches[e] \subseteq inherited[e] \cup {e}

(* Every call ends: no process waits for ever for the lock, whoever died   *)
(* with it and whichever file it was on.                                   *)
CallsEnd == \A p \in Procs : pc[p] # "idle" ~> pc[p] = "idle"

=============================================================================
