----------------------------- MODULE InstanceLock -----------------------------
(***************************************************************************)
(* The single-instance lock that lifespan takes when easter starts and     *)
(* gives back when it stops.  flock belongs to the file a process opened,  *)
(* not to its path, and the path may come to name another file.            *)
(*                                                                         *)
(* A process of the model starts once; systemd's restart is another one.   *)
(* The port, which uvicorn binds once the lifespan has started, excludes   *)
(* nobody: the service and `python easter.py` have different ones.         *)
(***************************************************************************)
EXTENDS Naturals, Sequences

CONSTANTS Procs,
          Nobody     \* no process: an empty file, a free lock

VARIABLES files,     \* every file there was: the PID in it, who has its flock
          path,      \* the file lock_path names, 0 for none
          pc,        \* how far a process is in lifespan
          fd,        \* the file it opened
          oldPid     \* the PID it read

vars == <<files, path, pc, fd, oldPid>>

Init ==
    /\ files = << >> /\ path = 0
    /\ pc = [p \in Procs |-> "new"] /\ fd = [p \in Procs |-> 0]
    /\ oldPid = [p \in Procs |-> Nobody]

Alive(p) == pc[p] \notin {"new", "gone"}
Goto(p, point) == pc' = [pc EXCEPT ![p] = point]

(* open(lock_path, "w") empties the file, or creates one.                  *)
OpenForWriting(p) ==
    /\ UNCHANGED oldPid
    /\ IF path = 0
       THEN /\ files' = Append(files, [pid |-> Nobody, owner |-> Nobody])
            /\ path' = Len(files')
       ELSE files' = [files EXCEPT ![path].pid = Nobody] /\ UNCHANGED path
    /\ fd' = [fd EXCEPT ![p] = path']

Open(p) == pc[p] = "new" /\ OpenForWriting(p) /\ Goto(p, "lock")

(* flock(LOCK_EX | LOCK_NB), or the point to go to when it is refused.     *)
TryLock(p, refused) ==
    /\ IF files[fd[p]].owner = Nobody
       THEN files' = [files EXCEPT ![fd[p]].owner = p] /\ Goto(p, "write")
       ELSE UNCHANGED files /\ Goto(p, refused)
    /\ UNCHANGED <<path, fd, oldPid>>

Lock(p) == pc[p] = "lock" /\ TryLock(p, "read")

WritePid(p) ==
    /\ pc[p] = "write" /\ Goto(p, "running")
    /\ files' = [files EXCEPT ![fd[p]].pid = p]
    /\ UNCHANGED <<path, fd, oldPid>>

(* No file: FileNotFoundError, which nothing catches.  An empty file:      *)
(* ValueError of int(""), taken for a stale lock.                          *)
ReadPid(p) ==
    /\ pc[p] = "read"
    /\ \/ path = 0 /\ Goto(p, "gone") /\ UNCHANGED oldPid
       \/ path # 0 /\ files[path].pid = Nobody /\ Goto(p, "unlink") /\ UNCHANGED oldPid
       \/ /\ path # 0 /\ files[path].pid # Nobody /\ Goto(p, "kill")
          /\ oldPid' = [oldPid EXCEPT ![p] = files[path].pid]
    /\ UNCHANGED <<files, path, fd>>

(* os.kill(old_pid, 0): sys.exit(1) when that process lives.               *)
Kill(p) ==
    /\ pc[p] = "kill"
    /\ Goto(p, IF Alive(oldPid[p]) THEN "gone" ELSE "unlink")
    /\ UNCHANGED <<files, path, fd, oldPid>>

Unlink(p) ==
    /\ pc[p] = "unlink" /\ Goto(p, "reopen")
    /\ path' = 0
    /\ UNCHANGED <<files, fd, oldPid>>

Reopen(p) == pc[p] = "reopen" /\ OpenForWriting(p) /\ Goto(p, "relock")

(* Refused, BlockingIOError ends the process.                              *)
Relock(p) == pc[p] = "relock" /\ TryLock(p, "gone")

Release(p) == files' = [f \in DOMAIN files |->
                           IF files[f].owner = p THEN [files[f] EXCEPT !.owner = Nobody] ELSE files[f]]

(* The end of lifespan: the file is closed, then the path unlinked.        *)
Close(p) ==
    /\ pc[p] = "running" /\ Goto(p, "closed")
    /\ Release(p)
    /\ UNCHANGED <<path, fd, oldPid>>

Remove(p) ==
    /\ pc[p] = "closed" /\ Goto(p, "gone")
    /\ path' = 0
    /\ UNCHANGED <<files, fd, oldPid>>

(* SIGKILL: the kernel releases the lock, the file stays.                  *)
Crash(p) ==
    /\ Alive(p) /\ Goto(p, "gone")
    /\ Release(p)
    /\ UNCHANGED <<path, fd, oldPid>>

Next ==
    \E p \in Procs :
        \/ Open(p) \/ Lock(p) \/ WritePid(p) \/ ReadPid(p) \/ Kill(p)
        \/ Unlink(p) \/ Reopen(p) \/ Relock(p)
        \/ Close(p) \/ Remove(p) \/ Crash(p)

Spec == Init /\ [][Next]_vars

-----------------------------------------------------------------------------
(* "Single-instance lock - prevent multiple easters from running           *)
(* concurrently" (easter.py:594): no two processes are past the lock.      *)
OneInstance ==
    \A p, q \in Procs : pc[p] = "running" /\ pc[q] = "running" => p = q
=============================================================================
