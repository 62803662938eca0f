--------------------------- MODULE EnsureRepoProofs ---------------------------
(***************************************************************************)
(* For any number of processes, epics and inodes: calls of ensure_repo     *)
(* clone one at a time although the lock file is unlinked after each use,  *)
(* and the work of one epic is never committed on the branch of another.   *)
(*                                                                         *)
(* flock excludes only those that hold the same inode, and after the first *)
(* unlink there may be several.  Serial says why that is enough: as long   *)
(* as nothing was disturbed, either the clone is complete, and whoever has *)
(* a lock only looks, or no call has come as far as its unlink, and every  *)
(* open lock file is the one at the path.                                  *)
(*                                                                         *)
(* The type invariant needs why the daemon is where it is (Purpose): it    *)
(* has an epic, and creates a branch only where there is none.             *)
(***************************************************************************)
EXTENDS EnsureRepo, WellFoundedInduction, TLAPS

(* The part of TypeOK the arguments use.                                    *)
Shape ==
    /\ dir \in [state : States, by : Procs \cup {Nobody}]
    /\ holder \in [Inodes -> Procs \cup {Nobody}]
    /\ pc \in [Procs -> Steps]
    /\ fd \in [Procs -> Inodes \cup {Nobody}]
    /\ \A p \in Procs : fd[p] # Nobody <=> pc[p] \in {"lock"} \cup Locked
    /\ \A p \in Procs, i \in Inodes : holder[i] = p <=> (fd[p] = i /\ pc[p] \in Locked)

Complete == dir.state = "ready" /\ \A p \in Procs : ~Cloning(p)

FirstUse ==
    /\ dir.state # "ready"
    /\ \A p \in Procs : pc[p] \notin {"release", "unlink"} /\ (fd[p] # Nobody => fd[p] = lockFile)
    /\ dir.state \in {"made", "cloning"} => dir.by \in Procs /\ pc[dir.by] = "cloning"

Serial == ~disturbed => Complete \/ FirstUse

(* What is uncommitted belongs to the branch that is checked out.           *)
Work ==
    /\ OwnWorkOnly
    /\ DOMAIN inherited = DOMAIN branches
    /\ dirty \subseteq {head} \/ head = Base
    /\ pc[Daemon] \in {"branch", "create"} => dirty = {}
    /\ pc[Daemon] = "work" => head \in {epic, Base}

IInv == Shape /\ Serial /\ Work

-----------------------------------------------------------------------------
LEMMA InitIInv == Init => IInv
<1> SUFFICES ASSUME Init PROVE IInv
  OBVIOUS
<1>1. Shape
  BY ProcsType DEF Init, Shape, Absent, States, Steps, Locked
<1>2. Serial
  BY <1>1 DEF Init, Serial, FirstUse, Absent, Shape
<1>3. Work
  BY ProcsType DEF Init, Work, OwnWorkOnly, Empty
<1> QED
  BY <1>1, <1>2, <1>3 DEF IInv

(* Two processes under the lock of one file are one.                        *)
LEMMA OneHolder ==
    ASSUME Shape, FirstUse, NEW p \in Procs, NEW q \in Procs, pc[p] \in Locked, pc[q] \in Locked
    PROVE  p = q
<1>1. fd[p] # Nobody /\ fd[q] # Nobody /\ fd[p] = lockFile /\ fd[q] = lockFile /\ lockFile \in Inodes
  BY DEF Shape, FirstUse
<1>2. holder[lockFile] = p /\ holder[lockFile] = q
  BY <1>1 DEF Shape
<1> QED
  BY <1>2

-----------------------------------------------------------------------------
(* Steps that only move a process, outside of the lock or within it.        *)
Moves(p, steps) ==
    /\ \E there \in steps : pc' = [pc EXCEPT ![p] = there]
    /\ UNCHANGED lock

Outside == {"idle", "look", "partial", "fetch", "open", "unlink", "status", "branch", "create", "work"}

LEMMA MovesShape ==
    ASSUME Shape, NEW p \in Procs,
           \/ pc[p] \in Outside /\ Moves(p, Outside)
           \/ pc[p] \in Locked /\ Moves(p, Locked),
           dir' \in [state : States, by : Procs \cup {Nobody}]
    PROVE  Shape'
<1> USE DEF Shape, Moves, lock, Outside, Locked, Steps
<1>1. /\ holder' = holder /\ fd' = fd /\ pc' \in [Procs -> Steps]
      /\ \A q \in Procs : (pc'[q] \in Locked <=> pc[q] \in Locked) /\ (pc'[q] = "lock" <=> pc[q] = "lock")
  OBVIOUS
<1> QED
  BY <1>1

LEMMA StepsShape == ASSUME Shape, Next PROVE Shape'
<1> USE DEF Goto, After
<1>0. dir.state \in States /\ dir.by \in Procs \cup {Nobody}
  BY DEF Shape
<1>1. ASSUME NEW p \in Procs, Call(p) \/ Look(p) \/ FetchRaises(p)
      PROVE  Shape'
  BY <1>1, MovesShape DEF Call, Look, FetchRaises, Moves, Outside, Shape
<1>2. ASSUME NEW p \in Procs, Fetch(p) \/ RemovePartial(p) PROVE Shape'
  <2>1. dir' \in [state : States, by : Procs \cup {Nobody}]
    BY <1>2, <1>0 DEF Fetch, RemovePartial, Absent, States, Shape
  <2> QED
    BY <1>2, <2>1, MovesShape DEF Fetch, RemovePartial, Moves, Outside
<1>3. ASSUME NEW p \in Procs, Open(p) PROVE Shape'
  <2>1. PICK i \in Inodes : fd' = [fd EXCEPT ![p] = i]
    BY <1>3 DEF Open
  <2> QED
    BY <1>3, <2>1, InodesType DEF Open, Shape, Locked, Steps
<1>4. ASSUME NEW p \in Procs, Lock(p) PROVE Shape'
  <2>1. fd[p] \in Inodes /\ holder[fd[p]] = Nobody
    BY <1>4, InodesType DEF Lock, Shape
  <2>2. \A q \in Procs, i \in Inodes : holder'[i] = q <=> (fd[q] = i /\ pc'[q] \in Locked)
    BY <1>4, <2>1, ProcsType DEF Lock, Shape, Locked
  <2> QED
    BY <1>4, <2>1, <2>2 DEF Lock, Shape, Locked, Steps
<1>5. ASSUME NEW p \in Procs, Check(p) \/ CloneBegins(p) \/ CloneEnds(p) \/ CloneGoesOn(p) \/ CloneFails(p)
      PROVE  Shape'
  <2>1. dir' \in [state : States, by : Procs \cup {Nobody}]
    BY <1>5, <1>0 DEF Check, CloneBegins, CloneEnds, CloneGoesOn, CloneFails, Absent, States, Shape
  <2>2. pc[p] \in Locked /\ Moves(p, Locked)
    BY <1>5 DEF Check, CloneBegins, CloneEnds, CloneGoesOn, CloneFails, Cloning, Moves, Locked, Shape
  <2> QED
    BY <2>1, <2>2, MovesShape
<1>6. ASSUME NEW p \in Procs, Release(p) PROVE Shape'
  <2>1. fd[p] \in Inodes
    BY <1>6, InodesType DEF Release, Shape, Locked
  <2>2. \A q \in Procs, i \in Inodes : holder'[i] = q <=> (fd'[q] = i /\ pc'[q] \in Locked)
    BY <1>6, <2>1, ProcsType, InodesType DEF Release, Shape, Locked
  <2> QED
    BY <1>6, <2>1, <2>2 DEF Release, Shape, Locked, Steps
<1>7. ASSUME NEW p \in Procs, Unlink(p) PROVE Shape'
  BY <1>7 DEF Unlink, Shape, Locked, Steps
<1>8. ASSUME NEW p \in Procs, Crash(p) PROVE Shape'
  <2>1. dir' \in [state : States, by : Procs \cup {Nobody}]
    BY <1>8, <1>0 DEF Crash, Shape
  <2>2. \A q \in Procs, i \in Inodes : holder'[i] = q <=> (fd'[q] = i /\ pc'[q] \in Locked)
    BY <1>8, ProcsType, InodesType DEF Crash, Shape, Locked
  <2> QED
    BY <1>8, <2>1, <2>2 DEF Crash, Shape, Locked, Steps
<1>9. CASE Prepare \/ EndWork
  BY <1>9, MovesShape, ProcsType
     DEF Prepare, GitFails, Status, CheckOut, FetchBase, CreateBranch, EndWork, Moves, Outside, Shape
<1>10. CASE ClaudeWrites \/ AutoCommit \/ CleanUp \/ \E e \in Epics : Merge(e)
  BY <1>10 DEF ClaudeWrites, AutoCommit, CleanUp, Merge, Shape, lock
<1> QED
  BY <1>1, <1>2, <1>3, <1>4, <1>5, <1>6, <1>7, <1>8, <1>9, <1>10 DEF Next, Ensure

LEMMA StepsSerial == ASSUME Shape, Shape', Serial, Next PROVE Serial'
<1> SUFFICES ASSUME ~disturbed' PROVE (Complete \/ FirstUse)'
  BY DEF Serial
<1> USE DEF Goto, After, lock
<1>0. dir.state \in States /\ dir.by \in Procs \cup {Nobody} /\ Nobody \notin Procs
  BY ProcsType DEF Shape
<1>1. ASSUME NEW p \in Procs, Call(p) \/ Look(p) \/ FetchRaises(p) \/ Fetch(p) PROVE (Complete \/ FirstUse)'
  <2>1. UNCHANGED <<disturbed, lockFile, fd>> /\ \E s \in Outside : pc' = [pc EXCEPT ![p] = s] /\ s # "unlink"
    BY <1>1 DEF Call, Look, FetchRaises, Fetch, Outside
  <2>2. pc[p] # "cloning" /\ (dir' = dir \/ (dir.by = Nobody /\ dir.state = "cloning"))
    <3>1. CASE Call(p) \/ Look(p) \/ FetchRaises(p)
      BY <3>1 DEF Call, Look, FetchRaises
    <3>2. CASE Fetch(p)
      BY <3>2 DEF Fetch
    <3> QED
      BY <1>1, <3>1, <3>2
  <2>3. \A q \in Procs : pc'[q] = pc[q] \/ (q = p /\ pc'[q] \in Outside \ {"unlink"})
    BY <2>1 DEF Shape
  <2> QED
    BY <1>0, <2>1, <2>2, <2>3 DEF Serial, Complete, FirstUse, Cloning, Outside, Shape
<1>2. ASSUME NEW p \in Procs, RemovePartial(p) PROVE (Complete \/ FirstUse)'
  <2>1. ~disturbed /\ dir.state = "absent" /\ dir'.state = "absent" /\ pc[p] = "partial"
        /\ pc' = [pc EXCEPT ![p] = "open"] /\ UNCHANGED <<lockFile, fd>>
    BY <1>2 DEF RemovePartial, Absent
  <2> QED
    BY <2>1 DEF Serial, Complete, FirstUse, Shape
<1>3. ASSUME NEW p \in Procs, Open(p) PROVE (Complete \/ FirstUse)'
  <2>1. /\ UNCHANGED <<dir, disturbed>> /\ pc[p] = "open" /\ pc' = [pc EXCEPT ![p] = "lock"]
        /\ lockFile # Nobody => lockFile' = lockFile
        /\ fd' = [fd EXCEPT ![p] = lockFile']
    BY <1>3 DEF Open
  <2> QED
    BY <1>0, <2>1 DEF Serial, Complete, FirstUse, Cloning, Shape
<1>4. ASSUME NEW p \in Procs, Lock(p) PROVE (Complete \/ FirstUse)'
  BY <1>4, <1>0 DEF Lock, Serial, Complete, FirstUse, Cloning, Shape
<1>5. ASSUME NEW p \in Procs, Check(p) PROVE (Complete \/ FirstUse)'
  <2>1. UNCHANGED <<dir, disturbed, lockFile, fd>> /\ pc[p] = "check"
        /\ pc' = [pc EXCEPT ![p] = IF HasGit THEN "release" ELSE "clone"]
    BY <1>5 DEF Check
  <2>2. CASE Complete
    BY <2>1, <2>2 DEF Complete, Cloning, HasGit, Shape
  <2>3. CASE FirstUse
    <3>1. ~HasGit
      BY <2>1, <2>3, <1>0, OneHolder DEF FirstUse, HasGit, Locked
    <3> QED
      BY <2>1, <2>3, <3>1, <1>0 DEF FirstUse, Shape
  <2> QED
    BY <2>1, <2>2, <2>3 DEF Serial
<1>6. ASSUME NEW p \in Procs, CloneBegins(p) \/ CloneGoesOn(p) PROVE (Complete \/ FirstUse)'
  BY <1>6, <1>0 DEF CloneBegins, CloneGoesOn, Serial, Complete, FirstUse, Cloning, Shape
<1>7. ASSUME NEW p \in Procs, CloneEnds(p) PROVE (Complete \/ FirstUse)'
  <2>1. FirstUse /\ pc[p] = "cloning" /\ dir'.state = "ready" /\ pc' = [pc EXCEPT ![p] = "release"]
    BY <1>7 DEF CloneEnds, Serial, Complete
  <2>2. \A q \in Procs : Cloning(q) => q = p
    BY <2>1, OneHolder DEF Cloning, Locked
  <2> QED
    BY <2>1, <2>2 DEF Complete, Cloning, Shape
<1>8. ASSUME NEW p \in Procs, Release(p) \/ Unlink(p) PROVE (Complete \/ FirstUse)'
  <2>1. Complete
    BY <1>8 DEF Release, Unlink, Serial, FirstUse
  <2> QED
    BY <1>8, <2>1 DEF Release, Unlink, Complete, Cloning, Shape
<1>9. ASSUME NEW p \in Procs, Crash(p) PROVE (Complete \/ FirstUse)'
  <2>1. /\ ~disturbed /\ dir' = dir /\ dir.by # p /\ lockFile' = lockFile
        /\ pc' = [pc EXCEPT ![p] = "idle"] /\ fd' = [fd EXCEPT ![p] = Nobody]
    BY <1>9 DEF Crash
  <2> QED
    BY <2>1, <1>0 DEF Serial, Complete, FirstUse, Cloning, Shape
<1>10. CASE Prepare \/ EndWork
  <2>1. /\ UNCHANGED <<dir, disturbed, lockFile, fd>>
        /\ pc[Daemon] \in Outside /\ \E s \in Outside \ {"unlink"} : pc' = [pc EXCEPT ![Daemon] = s]
    BY <1>10 DEF Prepare, GitFails, Status, CheckOut, FetchBase, CreateBranch, EndWork, Outside
  <2> QED
    BY <2>1, <1>0 DEF Serial, Complete, FirstUse, Cloning, Outside, Shape
<1>11. CASE ClaudeWrites \/ AutoCommit \/ CleanUp \/ \E e \in Epics : Merge(e)
  BY <1>11 DEF ClaudeWrites, AutoCommit, CleanUp, Merge, Serial, Complete, FirstUse, Cloning
<1>12. ASSUME NEW p \in Procs, CloneFails(p) PROVE FALSE
  BY <1>12 DEF CloneFails
<1> QED
  BY <1>1, <1>2, <1>3, <1>4, <1>5, <1>6, <1>7, <1>8, <1>9, <1>10, <1>11, <1>12 DEF Next, Ensure

(* What is committed is the checked out epic's own.                         *)
LEMMA CommittedOwn ==
    ASSUME Work, Committed(dirty)
    PROVE  /\ DOMAIN branches' = DOMAIN branches
           /\ \A e \in DOMAIN branches : branches'[e] \subseteq inherited[e] \cup {e}
<1>1. /\ branches' = branches \/ branches' = [branches EXCEPT ![head] = branches[head] \cup dirty]
      /\ head = Base => branches' = branches
  BY DEF Committed
<1>2. dirty \subseteq {head} \/ branches' = branches
  BY <1>1 DEF Work
<1> QED
  BY <1>1, <1>2 DEF Work, OwnWorkOnly

LEMMA StepsWork == ASSUME Shape, Work, Next PROVE Work'
<1> USE DEF Goto, After, work, ProcsType
<1>0. Daemon \in Procs
  BY ProcsType
<1>1. ASSUME NEW p \in Procs, p # Daemon, Call(p) \/ Ensure(p) \/ Crash(p), ~RemovePartial(p) PROVE Work'
  <2>1. pc'[Daemon] = pc[Daemon] /\ epic' = epic /\ UNCHANGED work
    BY <1>1, <1>0 DEF Call, Ensure, Look, Fetch, FetchRaises, Open, Lock, Check, CloneBegins, CloneGoesOn,
       CloneEnds, CloneFails, Release, Unlink, Crash, Shape
  <2> QED
    BY <2>1 DEF Work, OwnWorkOnly
<1>2. ASSUME Call(Daemon) \/ Ensure(Daemon) \/ Crash(Daemon), ~RemovePartial(Daemon) PROVE Work'
  <2>1. pc'[Daemon] \notin {"branch", "create", "work"} /\ UNCHANGED work
    BY <1>2, <1>0 DEF Call, Ensure, Look, Fetch, FetchRaises, Open, Lock, Check, CloneBegins, CloneGoesOn,
       CloneEnds, CloneFails, Release, Unlink, Crash, Shape, Cloning
  <2> QED
    BY <2>1 DEF Work, OwnWorkOnly
<1>3. ASSUME NEW p \in Procs, RemovePartial(p) PROVE Work'
  <2>1. /\ UNCHANGED work \/ Forget
        /\ epic' = epic /\ (pc'[Daemon] = pc[Daemon] \/ pc'[Daemon] = "open")
    BY <1>3, <1>0 DEF RemovePartial, Shape
  <2> QED
    BY <2>1 DEF Work, OwnWorkOnly, Forget, Empty
<1>4. CASE GitFails \/ Status \/ FetchBase \/ EndWork
  <2>1. /\ UNCHANGED <<work, epic>>
        /\ \/ pc'[Daemon] = "idle"
           \/ pc'[Daemon] \in {"branch", "create"} /\ (dirty = {} \/ pc[Daemon] = "branch")
    BY <1>4, <1>0 DEF GitFails, Status, FetchBase, EndWork, Shape
  <2> QED
    BY <2>1 DEF Work, OwnWorkOnly
<1>5. CASE CheckOut
  <2>1. /\ UNCHANGED <<dirty, branches, inherited, epic>> /\ head' = epic
        /\ pc[Daemon] = "branch" /\ pc'[Daemon] = "work"
    BY <1>5, <1>0 DEF CheckOut, Shape
  <2> QED
    BY <2>1 DEF Work, OwnWorkOnly
<1>6. CASE CreateBranch
  <2>1. /\ UNCHANGED <<dirty, epic>> /\ head' = epic
        /\ pc[Daemon] = "create" /\ pc'[Daemon] = "work"
        /\ branches' = [e \in DOMAIN branches \cup {epic} |-> IF e = epic THEN CascadeBase ELSE branches[e]]
        /\ inherited' = [e \in DOMAIN branches \cup {epic} |-> IF e = epic THEN CascadeBase ELSE inherited[e]]
    BY <1>6, <1>0 DEF CreateBranch, Shape
  <2> QED
    BY <2>1 DEF Work, OwnWorkOnly
<1>7. CASE ClaudeWrites
  <2>1. /\ UNCHANGED <<pc, epic, head, branches, inherited>> /\ pc[Daemon] = "work" /\ dirty' = dirty \cup {epic}
    BY <1>7 DEF ClaudeWrites
  <2> QED
    BY <2>1 DEF Work, OwnWorkOnly
<1>8. CASE AutoCommit \/ CleanUp
  <2>1. /\ UNCHANGED <<pc, epic, head, inherited>> /\ dirty' \subseteq dirty
        /\ pc[Daemon] \in {"work", "idle"}
        /\ Committed(dirty) \/ branches' = branches
    BY <1>8 DEF AutoCommit, CleanUp
  <2> QED
    BY <2>1, CommittedOwn DEF Work, OwnWorkOnly
<1>9. CASE \E e \in Epics : Merge(e)
  BY <1>9 DEF Merge, Work, OwnWorkOnly
<1> QED
  BY <1>1, <1>2, <1>3, <1>4, <1>5, <1>6, <1>7, <1>8, <1>9 DEF Next, Ensure, Prepare

LEMMA Inductive == Spec => []IInv
<1>1. IInv /\ [Next]_vars => IInv'
  <2>1. ASSUME IInv, UNCHANGED vars PROVE IInv'
    BY <2>1 DEF IInv, Shape, Serial, Complete, FirstUse, Cloning, Work, OwnWorkOnly, vars, lock, work
  <2> QED
    BY <2>1, StepsShape, StepsSerial, StepsWork DEF IInv
<1> QED
  BY InitIInv, <1>1, PTL DEF Spec

(* Calls of ensure_repo clone one at a time, and leave with a complete      *)
(* clone, whoever waits on a lock file that is no longer at its path, until *)
(* a clone fails or dies or is removed (ensure_repo, _clone_with_lock).     *)
THEOREM ClonesAreSerialized == Spec => []Serialized
<1>1. IInv => Serialized
  <2>1. ASSUME IInv, ~disturbed, NEW p \in Procs, NEW q \in Procs, Cloning(p), Cloning(q) PROVE p = q
    BY <2>1, OneHolder DEF IInv, Serial, Complete, Cloning, Locked
  <2>2. ASSUME IInv, ~disturbed, NEW p \in Procs, pc[p] \in {"release", "unlink"} PROVE dir.state = "ready"
    BY <2>2 DEF IInv, Serial, Complete, FirstUse
  <2> QED
    BY <2>1, <2>2 DEF Serialized
<1> QED
  BY Inductive, <1>1, PTL

(* No branch gets the work of another epic but by being created from it,    *)
(* although the clone may vanish and come back under the daemon             *)
(* (get_repo_work_dir, _auto_commit_epic).                                  *)
THEOREM BranchesKeepApart == Spec => []OwnWorkOnly
<1>1. IInv => OwnWorkOnly
  BY DEF IInv, Work
<1> QED
  BY Inductive, <1>1, PTL

-----------------------------------------------------------------------------
(* The type invariant                                                       *)

(* The branches, and the order of their last commits; a daemon that is not *)
(* idle has an epic, and creates no branch that is there.                  *)
Distinct(s) == \A i, j \in DOMAIN s : s[i] = s[j] => i = j

BranchType ==
    /\ head \in DOMAIN branches \cup {Base}
    /\ dirty \subseteq Epics
    /\ DOMAIN branches \subseteq Epics /\ branches \in [DOMAIN branches -> SUBSET Epics]
    /\ recent \in Seq(Epics) /\ ToSet(recent) = DOMAIN branches /\ Distinct(recent)
    /\ DOMAIN inherited = DOMAIN branches /\ inherited \in [DOMAIN inherited -> SUBSET Epics]

RestType ==
    /\ lockFile \in Inodes \cup {Nobody}
    /\ via \in [Procs -> {"ssh", "https"}] /\ got \in [Procs -> {"path", "error"}]
    /\ epic \in Epics \cup {Nobody}
    /\ merged \subseteq Epics /\ known \subseteq Epics
    /\ disturbed \in BOOLEAN /\ calls \in 0..MaxCalls /\ budget \in 0..Budget

Purpose ==
    /\ pc[Daemon] # "idle" => epic \in Epics
    /\ pc[Daemon] = "create" => epic \notin DOMAIN branches

TInv == Shape /\ BranchType /\ RestType /\ Purpose

(* A set of naturals has a least element.                                  *)
LEMMA LeastIsIn == ASSUME NEW S \in SUBSET Nat, S # {} PROVE Min(S) \in S
<1> DEFINE Less == {pair \in Nat \X Nat : pair[1] < pair[2]}
<1>1. IsWellFoundedOn(Less, Nat)
  BY NatLessThanWellFounded DEF OpToRel
<1>2. PICK x \in S : \A y \in S : <<y, x>> \notin Less
  BY <1>1, WFMin
<1>3. \A y \in S : x <= y
  <2> SUFFICES ASSUME NEW y \in S, ~(x <= y) PROVE FALSE
    OBVIOUS
  <2>1. y < x /\ y \in Nat /\ x \in Nat
    OBVIOUS
  <2>2. <<y, x>> \in Less
    BY <2>1
  <2> HIDE DEF Less
  <2> QED
    BY <1>2, <2>2
<1> QED
  BY <1>3 DEF Min

LEMMA ToFrontFacts ==
    ASSUME NEW s \in Seq(Epics), NEW x \in ToSet(s), Distinct(s)
    PROVE  ToFront(s, x) \in Seq(Epics) /\ ToSet(ToFront(s, x)) = ToSet(s) /\ Distinct(ToFront(s, x))
<1> DEFINE at == CHOOSE i \in DOMAIN s : s[i] = x
           t == ToFront(s, x)
           N == Len(s)
<1>1. DOMAIN s = 1..N /\ N \in Nat /\ \A i \in 1..N : s[i] \in Epics
  OBVIOUS
<1>2. \E i \in DOMAIN s : s[i] = x
  BY DEF ToSet
<1>3. at \in 1..N /\ s[at] = x
  BY <1>1, <1>2
<1>4. t = [i \in 1..N |-> IF i = 1 THEN x ELSE IF i <= at THEN s[i - 1] ELSE s[i]]
  BY <1>1 DEF ToFront
<1> HIDE DEF at, t
<1>5. t[1] = x /\ \A i \in 1..N : /\ i # 1 /\ i <= at => t[i] = s[i - 1] /\ i - 1 \in 1..N
                                  /\ i # 1 /\ ~(i <= at) => t[i] = s[i]
  BY <1>1, <1>3, <1>4
<1>6. \A i \in 1..N : t[i] \in Epics
  BY <1>1, <1>3, <1>5
<1>7. t \in Seq(Epics) /\ DOMAIN t = 1..N
  <2>1. t \in [1..N -> Epics]
    BY <1>4, <1>6
  <2> QED
    BY <1>1, <2>1
<1>8. \A i \in 1..N : \E j \in 1..N : t[i] = s[j]
  BY <1>1, <1>3, <1>5
<1>9. \A j \in 1..N : \E i \in 1..N : t[i] = s[j]
  <2> SUFFICES ASSUME NEW j \in 1..N PROVE \E i \in 1..N : t[i] = s[j]
    OBVIOUS
  <2>1. CASE j = at
    BY <1>1, <1>3, <1>5, <2>1
  <2>2. CASE j < at
    <3>1. j + 1 \in 1..N /\ j + 1 # 1 /\ j + 1 <= at /\ j + 1 - 1 = j
      BY <1>1, <1>3, <2>2
    <3>2. t[j + 1] = s[j + 1 - 1]
      BY <1>5, <3>1
    <3> QED
      BY <3>1, <3>2
  <2>3. CASE at < j
    <3>1. j # 1 /\ ~(j <= at)
      BY <1>1, <1>3, <2>3
    <3> QED
      BY <1>5, <3>1
  <2> QED
    BY <1>1, <1>3, <2>1, <2>2, <2>3
<1>10. ToSet(t) = ToSet(s)
  <2>1. \A y : y \in ToSet(s) <=> \E i \in 1..N : y = s[i]
    BY <1>1 DEF ToSet
  <2>2. \A y : y \in ToSet(t) <=> \E i \in 1..N : y = t[i]
    BY <1>7 DEF ToSet
  <2> HIDE DEF N
  <2>3. ToSet(t) \subseteq ToSet(s)
    BY <1>8, <2>1, <2>2
  <2>4. ToSet(s) \subseteq ToSet(t)
    BY <1>9, <2>1, <2>2
  <2> QED
    BY <2>3, <2>4
<1>11. Distinct(t)
  <2> SUFFICES ASSUME NEW i \in 1..N, NEW j \in 1..N, t[i] = t[j], i < j PROVE FALSE
    BY <1>1, <1>7 DEF Distinct
  <2>1. /\ \A k \in 1..N : s[k] = x => k = at
        /\ \A k, l \in 1..N : s[k] = s[l] => k = l
    BY <1>1, <1>3 DEF Distinct
  <2>2. CASE i = 1
    <3>1. j # 1 /\ t[j] = x
      BY <1>5, <2>2
    <3> QED
      BY <1>1, <1>3, <1>5, <2>1, <3>1
  <2>3. CASE i # 1
    <3>1. j # 1
      BY <2>3
    <3> QED
      BY <1>1, <1>3, <1>5, <2>1, <2>3, <3>1
  <2> QED
    BY <2>2, <2>3
<1> QED
  BY <1>7, <1>10, <1>11 DEF t

LEMMA AddedLast ==
    ASSUME NEW s \in Seq(Epics), NEW x \in Epics, Distinct(s), x \notin ToSet(s)
    PROVE  LET t == Append(s, x) IN t \in Seq(Epics) /\ ToSet(t) = ToSet(s) \cup {x} /\ Distinct(t)
<1> DEFINE t == Append(s, x)
           N == Len(s)
<1>1. /\ t \in Seq(Epics) /\ N \in Nat /\ DOMAIN s = 1..N /\ DOMAIN t = 1..(N + 1)
      /\ t[N + 1] = x /\ \A i \in 1..N : t[i] = s[i]
  OBVIOUS
<1> HIDE DEF t, N
<1>2. ToSet(t) = ToSet(s) \cup {x}
  BY <1>1 DEF ToSet
<1>3. Distinct(t)
  BY <1>1 DEF ToSet, Distinct
<1> QED
  BY <1>1, <1>2, <1>3 DEF t

LEMMA AddedFirst ==
    ASSUME NEW s \in Seq(Epics), NEW x \in Epics, Distinct(s), x \notin ToSet(s)
    PROVE  LET t == <<x>> \o s IN t \in Seq(Epics) /\ ToSet(t) = ToSet(s) \cup {x} /\ Distinct(t)
<1> DEFINE t == <<x>> \o s
           N == Len(s)
<1>1. /\ t \in Seq(Epics) /\ N \in Nat /\ DOMAIN s = 1..N /\ DOMAIN t = 1..(N + 1)
      /\ t[1] = x /\ \A i \in 2..(N + 1) : t[i] = s[i - 1]
  OBVIOUS
<1> HIDE DEF t, N
<1>2. \A i \in 1..(N + 1) : i = 1 \/ (i - 1 \in 1..N /\ t[i] = s[i - 1])
  BY <1>1
<1>3. \A i \in 1..N : i + 1 \in 1..(N + 1) /\ t[i + 1] = s[i]
  BY <1>1
<1>4. ToSet(t) = ToSet(s) \cup {x}
  <2>1. ToSet(t) \subseteq ToSet(s) \cup {x}
    <3> SUFFICES ASSUME NEW i \in 1..(N + 1) PROVE t[i] \in ToSet(s) \cup {x}
      BY <1>1 DEF ToSet
    <3> QED
      BY <1>1, <1>2 DEF ToSet
  <2>2. ToSet(s) \subseteq ToSet(t)
    <3> SUFFICES ASSUME NEW i \in 1..N PROVE s[i] \in ToSet(t)
      BY <1>1 DEF ToSet
    <3> QED
      BY <1>1, <1>3 DEF ToSet
  <2>3. 1 \in DOMAIN t
    BY <1>1
  <2>4. x \in ToSet(t)
    BY <1>1, <2>3 DEF ToSet
  <2> QED
    BY <2>1, <2>2, <2>4
<1>5. Distinct(t)
  <2> SUFFICES ASSUME NEW i \in 1..(N + 1), NEW j \in 1..(N + 1), t[i] = t[j] PROVE i = j
    BY <1>1 DEF Distinct
  <2>1. CASE i = 1 /\ j # 1
    <3>1. s[j - 1] = x /\ j - 1 \in DOMAIN s
      BY <1>1, <1>2, <2>1
    <3> QED
      BY <3>1 DEF ToSet
  <2>2. CASE i # 1 /\ j = 1
    <3>1. s[i - 1] = x /\ i - 1 \in DOMAIN s
      BY <1>1, <1>2, <2>2
    <3> QED
      BY <3>1 DEF ToSet
  <2>3. CASE i # 1 /\ j # 1
    <3>1. s[i - 1] = s[j - 1] /\ i - 1 \in 1..N /\ j - 1 \in 1..N
      BY <1>2, <2>3
    <3>2. i - 1 = j - 1
      BY <1>1, <3>1 DEF Distinct
    <3> QED
      BY <1>1, <3>2
  <2> QED
    BY <2>1, <2>2, <2>3
<1> QED
  BY <1>1, <1>4, <1>5 DEF t

(* A commit moves the branch to the front and adds work of known epics.     *)
LEMMA CommittedType ==
    ASSUME BranchType, Committed(dirty)
    PROVE  /\ DOMAIN branches' = DOMAIN branches /\ branches' \in [DOMAIN branches -> SUBSET Epics]
           /\ recent' \in Seq(Epics) /\ ToSet(recent') = DOMAIN branches /\ Distinct(recent')
<1>1. CASE head = Base
  BY <1>1 DEF BranchType, Committed
<1>2. CASE head # Base
  <2>1. head \in ToSet(recent) /\ recent \in Seq(Epics) /\ Distinct(recent) /\ ToSet(recent) = DOMAIN branches
    BY <1>2 DEF BranchType
  <2>2. recent' \in Seq(Epics) /\ ToSet(recent') = DOMAIN branches /\ Distinct(recent')
    <3>1. recent' = ToFront(recent, head)
      BY <1>2 DEF Committed
    <3> QED
      BY <2>1, <3>1, ToFrontFacts
  <2>3. branches' = [branches EXCEPT ![head] = @ \cup dirty]
    BY <1>2 DEF Committed
  <2> QED
    BY <2>1, <2>2, <2>3 DEF BranchType
<1> QED
  BY <1>1, <1>2

LEMMA CascadeBaseType == ASSUME BranchType, RestType PROVE CascadeBase \in SUBSET Epics
<1>1. Ahead \in SUBSET Nat /\ \A i \in Ahead : recent[i] \in DOMAIN branches
  BY DEF Ahead, BranchType, ToSet
<1>2. CASE Ahead = {}
  BY <1>2 DEF CascadeBase, RestType
<1>3. CASE Ahead # {}
  <2>1. Min(Ahead) \in Ahead
    BY <1>1, <1>3, LeastIsIn
  <2> QED
    BY <1>1, <1>3, <2>1 DEF CascadeBase, BranchType
<1> QED
  BY <1>2, <1>3

LEMMA NoBranches ==
    /\ DOMAIN Empty = {} /\ Empty \in [DOMAIN Empty -> SUBSET Epics]
    /\ << >> \in Seq(Epics) /\ ToSet(<< >>) = {} /\ Distinct(<< >>)
<1>1. DOMAIN Empty = {} /\ Empty \in [{} -> SUBSET Epics]
  BY DEF Empty
<1>2. << >> \in Seq(Epics) /\ ToSet(<< >>) = {} /\ Distinct(<< >>)
  BY DEF ToSet, Distinct
<1> QED
  BY <1>1, <1>2

LEMMA InitTInv == Init => TInv
<1> SUFFICES ASSUME Init PROVE TInv
  OBVIOUS
<1>1. Shape
  BY InitIInv DEF IInv
<1>2. BranchType
  <2>1. head = Base /\ dirty = {} /\ branches = Empty /\ recent = << >> /\ inherited = Empty
    BY DEF Init
  <2>2. recent \in Seq(Epics) /\ ToSet(recent) = DOMAIN branches /\ Distinct(recent)
    BY <2>1, NoBranches
  <2>3. /\ DOMAIN branches \subseteq Epics /\ branches \in [DOMAIN branches -> SUBSET Epics]
        /\ DOMAIN inherited = DOMAIN branches /\ inherited \in [DOMAIN inherited -> SUBSET Epics]
    BY <2>1, NoBranches
  <2> QED
    BY <2>1, <2>2, <2>3 DEF BranchType
<1>3. RestType
  <2>1. via \in [Procs -> {"ssh", "https"}] /\ got \in [Procs -> {"path", "error"}]
    BY DEF Init
  <2>2. 0 \in 0..MaxCalls /\ Budget \in 0..Budget
    BY BoundType
  <2> QED
    BY <2>1, <2>2 DEF Init, RestType
<1>4. Purpose
  BY ProcsType DEF Init, Purpose
<1> QED
  BY <1>1, <1>2, <1>3, <1>4 DEF TInv

LEMMA StepsRest == ASSUME Shape, BranchType, RestType, Next PROVE RestType'
<1> USE DEF RestType, Goto, Fresh
<1>0. /\ MaxCalls \in Nat /\ Budget \in Nat /\ (Adverse => budget' \in 0..Budget)
      /\ \A e \in DOMAIN branches : branches[e] \subseteq Epics
  BY BoundType DEF Adverse, BranchType
<1>1. ASSUME NEW p \in Procs, Call(p) PROVE RestType'
  BY <1>0, <1>1 DEF Call, lock
<1>2. ASSUME NEW p \in Procs, Look(p) \/ Fetch(p) \/ FetchRaises(p) \/ RemovePartial(p) PROVE RestType'
  BY <1>0, <1>2 DEF Look, Fetch, FetchRaises, RemovePartial, lock
<1>3. ASSUME NEW p \in Procs, Open(p) PROVE RestType'
  BY <1>3 DEF Open
<1>4. ASSUME NEW p \in Procs, Lock(p) \/ Check(p) \/ CloneBegins(p) \/ CloneGoesOn(p) \/ CloneEnds(p) PROVE RestType'
  BY <1>4 DEF Lock, Check, CloneBegins, CloneGoesOn, CloneEnds, lock
<1>5. ASSUME NEW p \in Procs, CloneFails(p) PROVE RestType'
  BY <1>0, <1>5 DEF CloneFails, lock
<1>6. ASSUME NEW p \in Procs, Release(p) \/ Unlink(p) PROVE RestType'
  BY <1>6 DEF Release, Unlink
<1>7. ASSUME NEW p \in Procs, Crash(p) PROVE RestType'
  <2>1. disturbed' \in BOOLEAN
    BY <1>7 DEF Crash
  <2> QED
    BY <1>0, <1>7, <2>1 DEF Crash
<1>8. CASE Prepare \/ ClaudeWrites \/ AutoCommit \/ EndWork \/ CleanUp
  BY <1>0, <1>8 DEF Prepare, GitFails, Status, CheckOut, FetchBase, CreateBranch, ClaudeWrites, AutoCommit,
     EndWork, CleanUp, lock
<1>9. ASSUME NEW e \in Epics, Merge(e) PROVE RestType'
  BY <1>0, <1>9 DEF Merge, lock
<1> QED
  BY <1>1, <1>2, <1>3, <1>4, <1>5, <1>6, <1>7, <1>8, <1>9 DEF Next, Ensure

LEMMA StepsPurpose == ASSUME Shape, Purpose, Next PROVE Purpose'
<1> USE DEF Goto, After, work
<1>0. Daemon \in Procs
  BY ProcsType
<1>1. ASSUME NEW p \in Procs, p # Daemon, Call(p) \/ Ensure(p) \/ Crash(p), ~RemovePartial(p) PROVE Purpose'
  <2>1. pc'[Daemon] = pc[Daemon] /\ epic' = epic /\ UNCHANGED branches
    BY <1>1, <1>0 DEF Call, Ensure, Look, Fetch, FetchRaises, Open, Lock, Check, CloneBegins, CloneGoesOn,
       CloneEnds, CloneFails, Release, Unlink, Crash, Shape
  <2> QED
    BY <2>1 DEF Purpose
<1>2. ASSUME Call(Daemon) PROVE Purpose'
  BY <1>0, <1>2 DEF Call, Purpose, Shape
<1>3. ASSUME Ensure(Daemon) \/ Crash(Daemon), ~RemovePartial(Daemon) PROVE Purpose'
  <2>1. /\ pc'[Daemon] # "create" /\ epic' = epic
        /\ pc'[Daemon] = "idle" \/ pc[Daemon] # "idle"
    BY <1>3, <1>0 DEF Ensure, Look, Fetch, FetchRaises, Open, Lock, Check, CloneBegins, CloneGoesOn,
       CloneEnds, CloneFails, Release, Unlink, Crash, Shape, Cloning
  <2> QED
    BY <2>1 DEF Purpose
<1>4. ASSUME NEW p \in Procs, RemovePartial(p) PROVE Purpose'
  <2>1. /\ UNCHANGED branches \/ DOMAIN branches' = {}
        /\ epic' = epic
        /\ pc'[Daemon] = pc[Daemon] \/ (pc'[Daemon] = "open" /\ pc[Daemon] # "idle")
    BY <1>4, <1>0 DEF RemovePartial, Shape, Forget, Empty
  <2> QED
    BY <2>1 DEF Purpose
<1>5. CASE GitFails \/ Status \/ EndWork \/ CheckOut \/ CreateBranch
  <2>1. epic' = epic /\ pc'[Daemon] \in {"idle", "branch", "work"} /\ pc[Daemon] # "idle"
    BY <1>5, <1>0 DEF GitFails, Status, EndWork, CheckOut, CreateBranch, Shape
  <2> QED
    BY <2>1 DEF Purpose
<1>6. CASE FetchBase
  <2>1. /\ UNCHANGED <<epic, branches>> /\ epic \notin DOMAIN branches
        /\ pc[Daemon] = "branch" /\ pc'[Daemon] = "create"
    BY <1>6, <1>0 DEF FetchBase, Shape
  <2> QED
    BY <2>1 DEF Purpose
<1>7. CASE ClaudeWrites \/ AutoCommit \/ CleanUp \/ \E e \in Epics : Merge(e)
  <2>1. UNCHANGED <<pc, epic>> /\ (pc[Daemon] = "create" => UNCHANGED branches)
    BY <1>7 DEF ClaudeWrites, AutoCommit, CleanUp, Merge
  <2> QED
    BY <2>1 DEF Purpose
<1> QED
  BY <1>1, <1>2, <1>3, <1>4, <1>5, <1>6, <1>7 DEF Next, Ensure, Prepare

LEMMA StepsBranch == ASSUME TInv, Next PROVE BranchType'
<1> USE DEF TInv, Goto, work
<1>1. ASSUME NEW p \in Procs, RemovePartial(p) PROVE BranchType'
  <2>1. UNCHANGED work \/ Forget
    BY <1>1 DEF RemovePartial
  <2> QED
    BY <2>1, NoBranches DEF BranchType, Forget
<1>2. ASSUME NEW p \in Procs, Call(p) \/ (Ensure(p) /\ ~RemovePartial(p)) \/ Crash(p) PROVE BranchType'
  <2>1. UNCHANGED work
    BY <1>2 DEF Call, Ensure, Look, Fetch, FetchRaises, Open, Lock, Check, CloneBegins, CloneGoesOn,
       CloneEnds, CloneFails, Release, Unlink, Crash
  <2> QED
    BY <2>1 DEF BranchType
<1>3. CASE GitFails \/ Status \/ FetchBase \/ EndWork \/ \E e \in Epics : Merge(e)
  <2>1. UNCHANGED work
    BY <1>3 DEF GitFails, Status, FetchBase, EndWork, Merge
  <2> QED
    BY <2>1 DEF BranchType
<1>4. CASE CheckOut
  BY <1>4 DEF CheckOut, BranchType
<1>5. CASE ClaudeWrites
  BY <1>5 DEF ClaudeWrites, BranchType, Purpose
<1>6. CASE AutoCommit \/ CleanUp
  <2>1. /\ UNCHANGED <<head, inherited>> /\ dirty' \subseteq dirty
        /\ Committed(dirty) \/ UNCHANGED <<branches, recent>>
    BY <1>6 DEF AutoCommit, CleanUp
  <2>2. CASE Committed(dirty)
    BY <2>1, <2>2, CommittedType DEF BranchType
  <2> QED
    BY <2>1, <2>2 DEF BranchType
<1>7. CASE CreateBranch
  <2> DEFINE base == CascadeBase
             D == DOMAIN branches \cup {epic}
  <2>1. epic \in Epics /\ epic \notin DOMAIN branches /\ base \in SUBSET Epics
    BY <1>7, CascadeBaseType DEF CreateBranch, Purpose
  <2>2. /\ UNCHANGED dirty /\ head' = epic
        /\ branches' = [e \in D |-> IF e = epic THEN base ELSE branches[e]]
        /\ inherited' = [e \in D |-> IF e = epic THEN base ELSE inherited[e]]
        /\ recent' = Append(recent, epic) \/ recent' = <<epic>> \o recent
    BY <1>7 DEF CreateBranch
  <2> HIDE DEF base
  <2>3. /\ DOMAIN branches' = D /\ branches' \in [D -> SUBSET Epics]
        /\ DOMAIN inherited' = D /\ inherited' \in [D -> SUBSET Epics] /\ D \subseteq Epics
    BY <2>1, <2>2 DEF BranchType
  <2>4. recent' \in Seq(Epics) /\ ToSet(recent') = D /\ Distinct(recent')
    <3>1. recent \in Seq(Epics) /\ ToSet(recent) = DOMAIN branches /\ Distinct(recent) /\ epic \notin ToSet(recent)
      BY <2>1 DEF BranchType
    <3>2. CASE recent' = Append(recent, epic)
      BY <2>1, <3>1, <3>2, AddedLast
    <3>3. CASE recent' = <<epic>> \o recent
      BY <2>1, <3>1, <3>3, AddedFirst
    <3> QED
      BY <2>2, <3>2, <3>3
  <2> QED
    BY <2>2, <2>3, <2>4 DEF BranchType
<1> QED
  BY <1>1, <1>2, <1>3, <1>4, <1>5, <1>6, <1>7 DEF Next, Prepare

(* The clone, its lock, its branches and the processes are what they       *)
(* should be: each process holds the flock of the file it has open exactly *)
(* while it is past the flock, and each local branch is in the order of    *)
(* the last commits once, whatever dies and whatever is removed.           *)
THEOREM TypeCorrect == Spec => []TypeOK
<1>1. TInv /\ [Next]_vars => TInv'
  <2>1. ASSUME TInv, UNCHANGED vars PROVE TInv'
    BY <2>1 DEF TInv, Shape, BranchType, RestType, Purpose, vars, lock, work
  <2> QED
    BY <2>1, StepsShape, StepsBranch, StepsRest, StepsPurpose DEF TInv
<1>2. TInv => TypeOK
  BY DEF TInv, Shape, BranchType, RestType, TypeOK, Distinct
<1> QED
  BY InitTInv, <1>1, <1>2, PTL DEF Spec
=============================================================================
