---------------------------- MODULE ImplementPhases ----------------------------
(***************************************************************************)
(* The implement node of one epic: run_implement_tasks sends the tasks of  *)
(* tasks.md to claude unit by unit, a unit being a phase or, without       *)
(* MADRUGA_PHASE_DISPATCH or headers of phases, a single task.  Each goes  *)
(* through dispatch_with_retry_async and a CircuitBreaker that every pass  *)
(* seeds from the rows of pipeline_runs.  The daemon starts a pass, counts *)
(* its failures and blocks the epic; it may crash; an operator may cancel  *)
(* the epic while claude works, and re-enable a blocked one.               *)
(*                                                                         *)
(* `done` and `deferred` are tasks.md, which claude itself marks while it  *)
(* runs; a task it marks DEFERRED counts as unchecked.  `rows` are the     *)
(* rows of the epic's units; their error is a class of messages,           *)
(* "noop" standing for 'phase_completed_no_op', "breaker" for 'circuit     *)
(* breaker OPEN', "aborted" for 'epic_status_changed'.  Time is abstracted *)
(* to whether CB_RECOVERY_SECONDS have passed since the breaker's          *)
(* last_failure_at, which a seed sets to the time of the seed.             *)
(***************************************************************************)
EXTENDS Naturals, Sequences, FiniteSets

CONSTANTS Tasks,         \* the tasks of tasks.md
          Order,         \* their order in it
          Phases,        \* group_tasks_by_phase: the tasks of each phase, in order
          Errors,        \* error messages of a failing claude
          Deterministic, \* those matching DETERMINISTIC_ERROR_PATTERNS
          Transient,     \* those matching TRANSIENT_ERROR_PATTERNS
          RateLimited,   \* those matching _RATE_LIMIT_PATTERNS
          Retries,       \* Len(RETRY_BACKOFFS)
          CBMax,         \* CB_MAX_FAILURES
          MaxPhaseFails, \* IMPLEMENT_MAX_CONSECUTIVE_FAILURES
          MaxEpicFails,  \* MAX_EPIC_DISPATCH_FAILURES
          Budget         \* bound: how many adverse events a behaviour has

Sentinels == {"none", "partial", "noop", "breaker", "aborted"}

ASSUME OrderType == /\ Order \in Seq(Tasks)
                    /\ \A t \in Tasks : \E i \in DOMAIN Order : t = Order[i]
                    /\ \A i, j \in DOMAIN Order : Order[i] = Order[j] => i = j
ASSUME PhasesType == /\ Phases \in Seq(SUBSET Tasks) /\ IsFiniteSet(Tasks)
                     /\ \A t \in Tasks : \E i \in DOMAIN Phases : t \in Phases[i]
                     /\ \A i, j \in DOMAIN Phases : Phases[i] \cap Phases[j] # {} => i = j
ASSUME ErrorsType == /\ Errors \cap Sentinels = {}
                     /\ Deterministic \cup Transient \cup RateLimited \subseteq Errors
                     /\ Deterministic \cap Transient = {}
ASSUME LimitsType == /\ {Retries, Budget} \subseteq Nat
                     /\ {CBMax, MaxPhaseFails, MaxEpicFails} \subseteq Nat \ {0}

VARIABLES done, deferred, rows, status, \* tasks.md and the database
          mode,                         \* what a unit is: "phases" or "tasks"
          pc, idx, total, failures,     \* one pass over the units
          pending, attempt, lastError, sameCount, success, error,   \* one dispatch
          breaker, elapsed,  \* CircuitBreaker
          streak,       \* _epic_fail_counts of the epic
          late,         \* claude runs this dispatch started after the epic was cancelled
          budget        \* adverse events left

persistent == <<done, deferred, rows, status, mode>>
pass       == <<idx, total, failures>>
dispatch   == <<pending, attempt, lastError, sameCount, success, error, late>>
vars       == <<persistent, pc, pass, dispatch, breaker, elapsed, streak, budget>>

PCs == {"down", "idle", "phase", "check", "attempt", "backoff", "sleep", "verify", "end", "finished"}

(* What one claude is asked to do.                                         *)
Units == IF mode = "phases" THEN Phases ELSE [i \in DOMAIN Order |-> {Order[i]}]

TypeOK ==
    /\ done \subseteq Tasks /\ deferred \subseteq Tasks \ done /\ mode \in {"phases", "tasks"}
    /\ rows \in Seq([phase: DOMAIN Units,
                     status: {"running", "completed", "failed", "cancelled"},
                     error: Errors \cup Sentinels])
    /\ status \in {"in_progress", "blocked", "cancelled"}
    /\ pc \in PCs
    /\ idx \in 1..(Len(Units) + 1) /\ total \in 0..Cardinality(Tasks) /\ failures \in 0..MaxPhaseFails
    /\ pending \subseteq Tasks /\ attempt \in 0..(Retries + 1) /\ sameCount \in 0..(Retries + 1)
    /\ lastError \in Errors \cup {"none"} /\ error \in Errors \cup Sentinels /\ success \in BOOLEAN
    /\ breaker \in [state: {"closed", "open", "half-open"}, count: Nat]
    /\ elapsed \in BOOLEAN
    /\ streak \in 0..(MaxEpicFails - 1) /\ late \in 0..(Retries + 1)
    /\ budget \in 0..Budget

Fresh == [state |-> "closed", count |-> 0]

Init ==
    /\ done \in SUBSET Tasks /\ deferred = {} /\ rows = << >> /\ status = "in_progress"
    /\ mode \in {"phases", "tasks"}
    /\ pc = "idle" /\ idx = 1 /\ total = 0 /\ failures = 0
    /\ pending = {} /\ attempt = 0 /\ lastError = "none" /\ sameCount = 0
    /\ success = FALSE /\ error = "none" /\ late = 0
    /\ breaker = Fresh /\ elapsed = FALSE
    /\ streak = 0 /\ budget = Budget

Goto(here, there) == pc = here /\ pc' = there
Adverse == budget > 0 /\ budget' = budget - 1

-----------------------------------------------------------------------------
(* The breaker                                                              *)

(* The rows the seed looks at, and the last CBMax of them.                 *)
Counted(rs) == {i \in DOMAIN rs : rs[i].error # "breaker"}
Latest(rs)  == {i \in Counted(rs) : Cardinality({j \in Counted(rs) : j > i}) < CBMax}

(* How many of those failed without another in between.                    *)
Consecutive(rs) ==
    Cardinality({i \in Latest(rs) : \A j \in Counted(rs) : j >= i => rs[j].status = "failed"})

(* Mutant: a restarted daemon forgets the failures.                        *)
SeededFresh(rs) == Fresh

(* A breaker seeded open takes the time of the seed for last_failure_at.   *)
Seeded(rs) ==
    [state |-> IF Consecutive(rs) >= CBMax THEN "open" ELSE "closed",
     count |-> Consecutive(rs)]

RecordSuccess == breaker' = Fresh /\ UNCHANGED elapsed

RecordFailure ==
    /\ breaker' = [state |-> IF breaker.state = "half-open" \/ breaker.count + 1 >= CBMax
                             THEN "open" ELSE breaker.state,
                   count |-> breaker.count + 1]
    /\ elapsed' = FALSE

-----------------------------------------------------------------------------
(* A pass over the phases                                                   *)

(* The rows a crash left running, closed when the pipeline resumes.        *)
Cleaned == [r \in DOMAIN rows |->
              IF rows[r].status = "running" THEN [rows[r] EXCEPT !.status = "cancelled"] ELSE rows[r]]

(* Mutant: an epic that failed once is not dispatched again.               *)
DispatchableOnce == status = "in_progress" /\ streak = 0

(* poll_active_epics: only an epic in progress is dispatched.              *)
Dispatchable == status = "in_progress"

(* run_pipeline_async reaches the implement node; run_implement_tasks      *)
(* returns at once when every task is already checked.                     *)
StartPass ==
    /\ pc = "idle" /\ Dispatchable
    /\ rows' = Cleaned
    /\ IF done = Tasks
       THEN pc' = "finished" /\ streak' = 0 /\ UNCHANGED <<breaker, elapsed, pass>>
       ELSE /\ pc' = "phase" /\ idx' = 1 /\ total' = 0 /\ failures' = 0
            /\ breaker' = Seeded(Cleaned) /\ elapsed' = FALSE
            /\ UNCHANGED streak
    /\ UNCHANGED <<done, deferred, mode, status, dispatch, budget>>

(* What tasks.md leaves to do of the unit.                                 *)
Pending == Units[idx] \ done

SkipPhase ==
    /\ pc = "phase" /\ idx <= Len(Units) /\ Pending = {}
    /\ total' = total + Cardinality(Units[idx]) /\ idx' = idx + 1
    /\ UNCHANGED <<persistent, pc, failures, dispatch, breaker, elapsed, streak, budget>>

(* Mutant: the streak of identical errors survives the dispatch.           *)
DispatchPhaseKeepsStreak ==
    /\ pc = "phase" /\ idx <= Len(Units) /\ Pending # {}
    /\ pc' = "check"
    /\ pending' = Pending
    /\ rows' = Append(rows, [phase |-> idx, status |-> "running", error |-> "none"])
    /\ attempt' = 1 /\ success' = FALSE /\ error' = "none" /\ late' = 0
    /\ UNCHANGED <<done, deferred, mode, status, pass, lastError, sameCount, breaker, elapsed, streak, budget>>

DispatchPhase ==
    /\ pc = "phase" /\ idx <= Len(Units) /\ Pending # {}
    /\ pc' = "check"
    /\ pending' = Pending
    /\ rows' = Append(rows, [phase |-> idx, status |-> "running", error |-> "none"])
    /\ attempt' = 1 /\ lastError' = "none" /\ sameCount' = 0
    /\ success' = FALSE /\ error' = "none" /\ late' = 0
    /\ UNCHANGED <<done, deferred, mode, status, pass, breaker, elapsed, streak, budget>>

EndPhases ==
    /\ Goto("phase", "end") /\ idx > Len(Units)
    /\ UNCHANGED <<persistent, pass, dispatch, breaker, elapsed, streak, budget>>

-----------------------------------------------------------------------------
(* dispatch_with_retry_async                                                *)

CountLate == late' = IF status = "in_progress" THEN late ELSE late + 1

BreakerRefuses ==
    /\ Goto("check", "verify") /\ breaker.state = "open" /\ ~elapsed
    /\ error' = "breaker"
    /\ UNCHANGED <<persistent, pass, pending, attempt, lastError, sameCount, success, late,
                   breaker, elapsed, streak, budget>>

BreakerAllows ==
    /\ Goto("check", "attempt") /\ (breaker.state # "open" \/ elapsed)
    /\ breaker' = [breaker EXCEPT !.state = IF @ = "open" THEN "half-open" ELSE @]
    /\ CountLate
    /\ UNCHANGED <<persistent, pass, pending, attempt, lastError, sameCount, success, error,
                   elapsed, streak, budget>>

(* claude marks a task [X] while it runs.                                  *)
ClaudeMarks(t) ==
    /\ pc = "attempt" /\ t \in pending \ done
    /\ done' = done \cup {t} /\ deferred' = deferred \ {t}
    /\ UNCHANGED <<rows, status, mode, pc, pass, dispatch, breaker, elapsed, streak, budget>>

(* claude marks a task [X] and DEFERRED.                                   *)
ClaudeDefers(t) ==
    /\ pc = "attempt" /\ t \in pending \ (done \cup deferred) /\ Adverse
    /\ deferred' = deferred \cup {t}
    /\ UNCHANGED <<done, rows, status, mode, pc, pass, dispatch, breaker, elapsed, streak>>

(* claude exits with 0, whatever it has marked.                            *)
ClaudeSucceeds ==
    /\ Goto("attempt", "verify")
    /\ IF mode = "tasks" \/ pending \subseteq done THEN UNCHANGED budget ELSE Adverse
    /\ success' = TRUE
    /\ RecordSuccess
    /\ UNCHANGED <<persistent, pass, pending, attempt, lastError, sameCount, error, late, streak>>

(* Identical errors in a row a dispatch tolerates, by _classify_error.     *)
Threshold(e) ==
    IF e \in Deterministic THEN 2 ELSE IF e \in Transient THEN Retries + 1 ELSE 3

(* claude fails or times out; only the first failure of a dispatch counts  *)
(* against the bound.                                                      *)
ClaudeFails(e) ==
    LET same == IF e = lastError THEN sameCount + 1 ELSE 1
        giveUp == same >= Threshold(e) \/ attempt = Retries + 1 IN
    /\ pc = "attempt"
    /\ IF attempt = 1 THEN Adverse ELSE UNCHANGED budget
    /\ sameCount' = same
    /\ IF giveUp
       THEN /\ pc' = "verify" /\ error' = e
            /\ RecordFailure
            /\ UNCHANGED <<attempt, lastError>>
       ELSE /\ pc' = "backoff" /\ attempt' = attempt + 1 /\ lastError' = e
            /\ UNCHANGED <<error, breaker, elapsed>>
    /\ UNCHANGED <<persistent, pass, pending, success, late, streak>>

(* Mutant: the abort check is lost.                                        *)
AbortedNever == FALSE

(* _make_abort_check: the epic was cancelled or blocked.                   *)
Aborted == status \in {"cancelled", "blocked"}

(* The success_check, which only a phase has.                              *)
CheckedDone == mode = "phases" /\ pending \subseteq done

(* Before a retry: success_check, then abort_check, then the sleep.        *)
FoundDone ==
    /\ Goto("backoff", "verify") /\ CheckedDone
    /\ success' = TRUE
    /\ RecordSuccess
    /\ UNCHANGED <<persistent, pass, pending, attempt, lastError, sameCount, error, late, streak, budget>>

AbortRetries ==
    /\ Goto("backoff", "verify") /\ ~CheckedDone /\ Aborted
    /\ error' = "aborted"
    /\ UNCHANGED <<persistent, pass, pending, attempt, lastError, sameCount, success, late,
                   breaker, elapsed, streak, budget>>

Backoff ==
    /\ Goto("backoff", "sleep") /\ ~CheckedDone /\ ~Aborted
    /\ UNCHANGED <<persistent, pass, dispatch, breaker, elapsed, streak, budget>>

Retry ==
    /\ Goto("sleep", "attempt")
    /\ CountLate
    /\ UNCHANGED <<persistent, pass, pending, attempt, lastError, sameCount, success, error,
                   breaker, elapsed, streak, budget>>

-----------------------------------------------------------------------------
(* After a dispatch                                                         *)

(* Mutant: claude's exit code is trusted.                                  *)
CompletedTrusted == IF success THEN pending ELSE pending \cap done

(* _verify_phase_completion: tasks.md, and not claude's exit code, decides *)
(* what the phase was.                                                     *)
Completed == pending \cap done

Outcome ==
    IF Completed = pending THEN [status |-> "completed", error |-> "none"]
    ELSE IF Completed # {} THEN [status |-> "completed", error |-> "partial"]
    ELSE [status |-> "failed", error |-> IF success THEN "noop" ELSE error]

Stuck(outcome) == outcome.error \in RateLimited \/ failures + 1 >= MaxPhaseFails

(* complete_run, the count of failures in a row, and the next unit unless  *)
(* the pass is given up.                                                   *)
CloseRow(outcome, giveUp) ==
    /\ rows' = [rows EXCEPT ![Len(rows)] = [@ EXCEPT !.status = outcome.status, !.error = outcome.error]]
    /\ failures' = IF outcome.status = "failed" THEN failures + 1 ELSE 0
    /\ IF outcome.status = "failed" /\ giveUp
       THEN pc' = "end" /\ UNCHANGED idx
       ELSE pc' = "phase" /\ idx' = idx + 1

VerifyPhase ==
    /\ pc = "verify" /\ mode = "phases"
    /\ total' = total + Cardinality(Completed)
    /\ CloseRow(Outcome, Stuck(Outcome))
    /\ UNCHANGED <<done, deferred, status, mode, dispatch, breaker, elapsed, streak, budget>>

(* A task is done when claude exits with 0: mark_task_done checks it,      *)
(* although a task that is deferred still counts as unchecked.             *)
TaskOutcome ==
    IF success THEN [status |-> "completed", error |-> "none"] ELSE [status |-> "failed", error |-> error]

VerifyTask ==
    /\ pc = "verify" /\ mode = "tasks"
    /\ done' = IF success THEN done \cup (pending \ deferred) ELSE done
    /\ total' = IF success THEN total + 1 ELSE total
    /\ CloseRow(TaskOutcome, failures + 1 >= MaxPhaseFails)
    /\ UNCHANGED <<deferred, status, mode, dispatch, breaker, elapsed, streak, budget>>

(* The pass succeeds when it has counted every task: sent task by task,    *)
(* when none failed.                                                       *)
AllCounted == total >= Cardinality(Tasks)

PassSucceeds ==
    /\ Goto("end", "finished") /\ AllCounted
    /\ streak' = 0
    /\ UNCHANGED <<persistent, pass, dispatch, breaker, elapsed, budget>>

(* dag_scheduler counts the failure, and blocks the epic at the last.      *)
PassFails ==
    /\ Goto("end", "idle") /\ ~AllCounted
    /\ streak' = (streak + 1) % MaxEpicFails
    /\ status' = IF streak + 1 = MaxEpicFails THEN "blocked" ELSE status
    /\ UNCHANGED <<done, deferred, mode, rows, pass, dispatch, breaker, elapsed, budget>>

-----------------------------------------------------------------------------
(* Time, the operator, and crashes                                          *)

(* CB_RECOVERY_SECONDS after the breaker's last_failure_at.                *)
Recover ==
    /\ breaker.state = "open" /\ ~elapsed /\ elapsed' = TRUE
    /\ UNCHANGED <<persistent, pc, pass, dispatch, breaker, streak, budget>>

CancelEpic ==
    /\ status = "in_progress" /\ pc # "finished" /\ Adverse
    /\ status' = "cancelled"
    /\ UNCHANGED <<done, deferred, mode, rows, pc, pass, dispatch, breaker, elapsed, streak>>

ReenableEpic ==
    /\ status = "blocked" /\ Adverse
    /\ status' = "in_progress"
    /\ UNCHANGED <<done, deferred, mode, rows, pc, pass, dispatch, breaker, elapsed, streak>>

Crash ==
    /\ pc \notin {"down", "finished"} /\ Adverse
    /\ pc' = "down" /\ streak' = 0
    /\ UNCHANGED <<persistent, pass, dispatch, breaker, elapsed>>

Restart ==
    /\ Goto("down", "idle")
    /\ UNCHANGED <<persistent, pass, dispatch, breaker, elapsed, streak, budget>>

-----------------------------------------------------------------------------
Claude == (\E t \in Tasks : ClaudeMarks(t) \/ ClaudeDefers(t)) \/ ClaudeSucceeds \/ \E e \in Errors : ClaudeFails(e)

Daemon ==
    \/ StartPass \/ SkipPhase \/ DispatchPhase \/ EndPhases
    \/ BreakerRefuses \/ BreakerAllows \/ FoundDone \/ AbortRetries \/ Backoff \/ Retry
    \/ VerifyPhase \/ VerifyTask \/ PassSucceeds \/ PassFails \/ Restart

Next == Daemon \/ Claude \/ Recover \/ CancelEpic \/ ReenableEpic \/ Crash

Spec == Init /\ [][Next]_vars

(* The event loop runs the daemon, systemd restarts it, and every claude   *)
(* either exits or is killed at its timeout.                               *)
FairSpec == Spec /\ WF_vars(Daemon) /\ WF_vars(Claude)

-----------------------------------------------------------------------------
(* Properties                                                               *)

(* The node is saved as done only when every task is checked in tasks.md,  *)
(* whatever claude's exit codes said; sent task by task, they are trusted, *)
(* and a task that claude deferred is all that may be left.  A row that is *)
(* 'completed' without an error stands for tasks that are checked.         *)
SuccessMeansDone ==
    LET trusted == IF mode = "tasks" THEN deferred ELSE {} IN
    /\ pc = "finished" => Tasks \ done \subseteq trusted
    /\ \A r \in DOMAIN rows :
          rows[r].status = "completed" /\ rows[r].error = "none"
             => Units[rows[r].phase] \ done \subseteq trusted

(* Rows whose failure the breaker in memory never counted.                 *)
Uncounted == {"noop", "aborted"}

(* After CBMax failed rows in a row claude is not started again, not even  *)
(* by a later pass or after a crash, but for one half-open attempt: except *)
(* where a failed row had left the breaker of its own pass closed.         *)
StartsClaude == pc # "attempt" /\ pc' = "attempt"

NoStorm ==
    [][LET past == SubSeq(rows, 1, Len(rows) - 1) IN
       StartsClaude /\ Consecutive(past) = CBMax
          => \/ breaker'.state = "half-open"
             \/ \E i \in Latest(past) : past[i].error \in Uncounted]_vars

(* Of one dispatch at most one claude is started after the epic was        *)
(* cancelled: the one that was already past its abort check.               *)
CancelStopsRetries == late <= 1

(* Every pass ends and passes are not repeated for ever: the node is done, *)
(* or the epic blocked or cancelled.                                       *)
Settles == <>[](pc = "finished" \/ status # "in_progress")
=============================================================================
