------------------------- MODULE ImplementPhasesProofs -------------------------
(***************************************************************************)
(* Safety of ImplementPhases for every tasks.md, every classification of   *)
(* errors and every limit.                                                 *)
(*                                                                         *)
(* The inductive invariant says, beside the types, that a pass runs only   *)
(* for an epic that was in progress when it began (Running), how far the   *)
(* retries of the current dispatch have come (Retrying), what the current  *)
(* row stands for (Dispatched), and that the counter of the pass never     *)
(* exceeds the tasks that are done in the units behind it (CountedIsDone), *)
(* which is what makes the comparison at the end of a pass mean anything.  *)
(*                                                                         *)
(* A second one (Guarded) ties the breaker in memory to the rows: while it *)
(* is closed it has counted every failure behind it, from wherever a seed  *)
(* of another pass or daemon took them, unless it is a failure it cannot   *)
(* count; and its count is below the limit.                                *)
(***************************************************************************)
EXTENDS ImplementPhases, FiniteSetTheorems, SequenceTheorems, WellFoundedInduction, TLAPS

Dispatching == {"check", "attempt", "backoff", "sleep", "verify"}
Walking     == Dispatching \cup {"phase"}

(* Besides what is checked, what claude's exit code is trusted for.         *)
Trusted == IF mode = "tasks" THEN deferred ELSE {}
Behind  == UNION {Units[j] : j \in 1..(idx - 1)}

(* A cancelled epic is not re-enabled, and only PassFails blocks one.       *)
Running ==
    /\ pc \in Walking \cup {"end"} => status # "blocked"
    /\ pc \in Walking => failures < MaxPhaseFails

(* At most one claude is started late; then the epic is cancelled for good. *)
Retrying ==
    /\ late <= 1
    /\ pc = "check" => late = 0 /\ sameCount = 0 /\ attempt = 1
    /\ pc \in {"attempt", "backoff", "sleep"} => sameCount < attempt
    /\ pc = "sleep" => late = 0
    /\ pc \in {"attempt", "backoff"} /\ late = 1 => status = "cancelled"

Dispatched ==
    pc \in Dispatching =>
        /\ idx <= Len(Units) /\ pending \subseteq Units[idx] /\ Units[idx] \ done \subseteq pending
        /\ Len(rows) > 0 /\ rows[Len(rows)].phase = idx

CountedIsDone ==
    pc \in Walking \cup {"end"} => total <= Cardinality(Behind \cap (done \cup Trusted))

IInv == TypeOK /\ Running /\ Retrying /\ Dispatched /\ CountedIsDone /\ SuccessMeansDone

-----------------------------------------------------------------------------
(* The units of a pass                                                      *)

LEMMA UnitsPartition ==
    ASSUME mode \in {"phases", "tasks"}
    PROVE  /\ Units \in Seq(SUBSET Tasks)
           /\ \A i, j \in DOMAIN Units : i # j => Units[i] \cap Units[j] = {}
BY OrderType, PhasesType DEF Units

LEMMA UnitsFixed == ASSUME mode' = mode PROVE Units' = Units
BY DEF Units

(* Sets of tasks are finite.                                                *)
LEMMA TaskSets ==
    ASSUME NEW A \in SUBSET Tasks
    PROVE  IsFiniteSet(A) /\ Cardinality(A) \in Nat /\ Cardinality(A) <= Cardinality(Tasks)
BY PhasesType, FS_Subset, FS_CardinalityType

LEMMA TasksFinite == IsFiniteSet(Tasks) /\ Cardinality(Tasks) \in Nat
BY PhasesType, FS_CardinalityType

(* More tasks are done, the counter is the same.                            *)
LEMMA CountKept ==
    ASSUME NEW A \in SUBSET Tasks, NEW B \in SUBSET Tasks, A \subseteq B,
           NEW n \in Nat, n <= Cardinality(A)
    PROVE  n <= Cardinality(B)
BY TaskSets, FS_Subset

(* What is counted for a unit is done and not yet counted.                  *)
LEMMA CountAdded ==
    ASSUME NEW A \in SUBSET Tasks, NEW B \in SUBSET Tasks, NEW C \in SUBSET Tasks,
           A \cap B = {}, A \cup B \subseteq C,
           NEW n \in Nat, n <= Cardinality(A)
    PROVE  n + Cardinality(B) \in Nat /\ n + Cardinality(B) <= Cardinality(C)
<1>1. IsFiniteSet(A) /\ IsFiniteSet(B)
  BY TaskSets
<1>2. Cardinality(A \cup B) = Cardinality(A) + Cardinality(B) - Cardinality(A \cap B)
  BY <1>1, FS_Union
<1>3. Cardinality(A \cap B) = 0
  BY FS_EmptySet
<1>4. Cardinality(A \cup B) <= Cardinality(C)
  BY TaskSets, FS_Subset
<1> QED
  BY <1>2, <1>3, <1>4, TaskSets

-----------------------------------------------------------------------------
(* The breaker is a breaker                                                 *)

LEMMA ConsecutiveNat ==
    ASSUME NEW rs, DOMAIN rs = 1..Len(rs), Len(rs) \in Nat
    PROVE  Consecutive(rs) \in Nat
<1>1. IsFiniteSet(DOMAIN rs)
  BY FS_Interval
<1>2. Latest(rs) \subseteq DOMAIN rs
  BY DEF Latest, Counted
<1>3. IsFiniteSet({i \in Latest(rs) : \A j \in Counted(rs) : j >= i => rs[j].status = "failed"})
  BY <1>1, <1>2, FS_Subset
<1> QED
  BY <1>3, FS_CardinalityType DEF Consecutive

-----------------------------------------------------------------------------
(* The breaker and the rows                                                 *)

(* The closed rows of the epic: all but that of the current dispatch.       *)
Past == IF pc \in Dispatching THEN Len(rows) - 1 ELSE Len(rows)

(* The rows up to n that failed, none but failures the breaker counts, or   *)
(* its own refusals, behind them.                                           *)
Failing(rs, n) ==
    {i \in 1..n : /\ rs[i].error # "breaker"
                  /\ \A j \in i..n : rs[j].error # "breaker" =>
                        rs[j].status = "failed" /\ rs[j].error \notin Uncounted}

(* A closed breaker has counted every one of them.                          *)
Guarded ==
    /\ pc \in Walking /\ breaker.state = "closed" =>
          /\ breaker.count < CBMax
          /\ IF pc = "verify"
             THEN success \/ error = "aborted" \/ Cardinality(Failing(rows, Past)) < breaker.count
             ELSE Cardinality(Failing(rows, Past)) <= breaker.count
    /\ pc \in {"attempt", "backoff", "sleep"} => breaker.state # "open"

LEMMA FailingFinite ==
    ASSUME NEW rs, NEW n \in Int
    PROVE  IsFiniteSet(Failing(rs, n)) /\ Cardinality(Failing(rs, n)) \in Nat
<1>1. IsFiniteSet(1..n)
  BY FS_Interval
<1>2. Failing(rs, n) \subseteq 1..n
  BY DEF Failing
<1>3. IsFiniteSet(Failing(rs, n))
  BY <1>1, <1>2, FS_Subset
<1> QED
  BY <1>3, FS_CardinalityType

(* What one more row makes of them: of those before it, nothing.            *)
LEMMA FailingSame ==
    ASSUME NEW rs, NEW ss, NEW n \in Nat, \A i \in 1..n : rs[i] = ss[i]
    PROVE  Failing(ss, n) = Failing(rs, n)
<1>1. ASSUME NEW i \in 1..n PROVE \A j \in i..n : j \in 1..n
  OBVIOUS
<1> QED
  BY <1>1 DEF Failing

LEMMA FailingGrows ==
    ASSUME NEW rs, NEW ss, NEW n \in Nat, \A i \in 1..n : rs[i] = ss[i]
    PROVE  /\ Failing(ss, n + 1) \subseteq Failing(rs, n) \cup {n + 1}
           /\ ss[n + 1].error # "breaker"
              /\ (ss[n + 1].status # "failed" \/ ss[n + 1].error \in Uncounted)
                 => Failing(ss, n + 1) = {}
<1>1. Failing(ss, n) = Failing(rs, n)
  BY FailingSame
<1>2. ASSUME NEW i \in Failing(ss, n + 1), i # n + 1 PROVE i \in Failing(ss, n)
  <2>1. i \in 1..n /\ \A j \in i..n : j \in i..(n + 1)
    BY <1>2 DEF Failing
  <2> QED
    BY <2>1 DEF Failing
<1>3. ASSUME ss[n + 1].error # "breaker", ss[n + 1].status # "failed" \/ ss[n + 1].error \in Uncounted
      PROVE  Failing(ss, n + 1) = {}
  <2>1. \A i \in 1..(n + 1) : n + 1 \in i..(n + 1)
    OBVIOUS
  <2> QED
    BY <1>3, <2>1 DEF Failing
<1> QED
  BY <1>1, <1>2, <1>3

(* The last of a set of rows.                                               *)
LEMMA LastOf ==
    ASSUME NEW n \in Nat, NEW S \in SUBSET (1..n), S # {}
    PROVE  \E m \in S : \A i \in S : i <= m
<1> DEFINE T == {k \in Nat : n - k \in S}
           R == {p \in Nat \X Nat : p[1] < p[2]}
<1>1. \A i \in S : i \in 1..n /\ n - i \in T
  <2>1. ASSUME NEW i \in S PROVE i \in 1..n /\ n - i \in Nat /\ n - (n - i) = i
    OBVIOUS
  <2> QED
    BY <2>1
<1>2. IsWellFoundedOn(R, Nat)
  BY NatLessThanWellFounded DEF OpToRel
<1>3. PICK d \in T : \A e \in T : <<e, d>> \notin R
  <2>1. T \subseteq Nat /\ T # {}
    BY <1>1
  <2> HIDE DEF R, T
  <2> QED
    BY <1>2, <2>1, WFMin
<1>4. ASSUME NEW e \in T PROVE d <= e
  <2>1. d \in Nat /\ e \in Nat /\ (e < d => <<e, d>> \in R)
    OBVIOUS
  <2>2. ~(e < d)
    BY <1>3, <2>1
  <2> QED
    BY <2>1, <2>2
<1>5. n - d \in S /\ d \in Nat
  OBVIOUS
<1>6. ASSUME NEW i \in S PROVE i <= n - d
  <2>1. i \in 1..n /\ d <= n - i
    BY <1>1, <1>4
  <2> QED
    BY <2>1, <1>5
<1> QED
  BY <1>5, <1>6

(* A breaker seeded closed has counted all of them: those beyond the rows   *)
(* the seed looks at would mean that all of these failed.                   *)
LEMMA SeedCounts ==
    ASSUME NEW rs, DOMAIN rs = 1..Len(rs), Len(rs) \in Nat, Consecutive(rs) < CBMax
    PROVE  Cardinality(Failing(rs, Len(rs))) <= Consecutive(rs)
<1> DEFINE n == Len(rs)
           F == Failing(rs, n)
           C == {i \in Latest(rs) : \A j \in Counted(rs) : j >= i => rs[j].status = "failed"}
           Beyond == F \ Latest(rs)
<1>0. CBMax \in Nat /\ IsFiniteSet(1..n)
  BY LimitsType, FS_Interval
<1>1. F \subseteq Counted(rs) /\ Counted(rs) \subseteq 1..n /\ Latest(rs) \subseteq Counted(rs)
  BY DEF Failing, Counted, Latest
<1>2. \A i \in F, j \in Counted(rs) : j >= i => j \in F /\ rs[j].status = "failed"
  <2>1. ASSUME NEW i \in F, NEW j \in Counted(rs), j >= i
        PROVE  j \in i..n /\ \A k \in j..n : k \in i..n
    BY <1>1, <2>1
  <2> QED
    BY <2>1, <1>1 DEF Failing, Counted
<1>3. IsFiniteSet(C) /\ Consecutive(rs) = Cardinality(C)
  <2>1. C \subseteq 1..n
    BY <1>1
  <2> QED
    BY <2>1, <1>0, FS_Subset DEF Consecutive
<1>4. Beyond = {}
  <2> SUFFICES ASSUME Beyond # {} PROVE FALSE
    OBVIOUS
  <2>1. Beyond \in SUBSET (1..n)
    BY <1>1
  <2>2. PICK m \in Beyond : \A i \in Beyond : i <= m
    <3> HIDE DEF Beyond
    <3> QED
      BY <2>1, LastOf
  <2> DEFINE D == {j \in Counted(rs) : j > m}
  <2>3. m \in F /\ m \in Counted(rs) /\ m \notin Latest(rs) /\ m \in 1..n
    BY <1>1, <2>2
  <2>4. ~(Cardinality(D) < CBMax)
    BY <2>3 DEF Latest
  <2>5. D \subseteq C
    <3>1. ASSUME NEW j \in D PROVE j \in F /\ j \in Latest(rs)
      BY <1>1, <1>2, <2>2, <2>3
    <3> QED
      BY <1>2, <3>1
  <2>6. Cardinality(D) <= Cardinality(C) /\ Cardinality(D) \in Nat /\ Cardinality(C) \in Nat
    BY <1>3, <2>5, FS_Subset, FS_CardinalityType
  <2> QED
    BY <1>0, <1>3, <2>4, <2>6
<1>5. F \subseteq C
  BY <1>1, <1>2, <1>4
<1> QED
  BY <1>3, <1>5, FS_Subset

(* Where CBMax rows failed and each was counted, so many are counted.       *)
LEMMA StormCounts ==
    ASSUME NEW rs, NEW ss, NEW n \in Nat, DOMAIN ss = 1..n, \A i \in 1..n : rs[i] = ss[i],
           Consecutive(ss) = CBMax, \A i \in Latest(ss) : ss[i].error \notin Uncounted
    PROVE  CBMax <= Cardinality(Failing(rs, n))
<1> DEFINE C == {i \in Latest(ss) : \A j \in Counted(ss) : j >= i => ss[j].status = "failed"}
<1>1. ASSUME NEW i \in Latest(ss), NEW j \in Counted(ss), j >= i PROVE j \in Latest(ss)
  <2> DEFINE I == {k \in Counted(ss) : k > i}
             J == {k \in Counted(ss) : k > j}
  <2>1. Counted(ss) \subseteq 1..n /\ i \in 1..n /\ Cardinality(I) < CBMax /\ CBMax \in Nat
    BY LimitsType DEF Latest, Counted
  <2>2. J \subseteq I /\ I \subseteq 1..n
    BY <2>1, <1>1
  <2>3. IsFiniteSet(I)
    BY <2>2, FS_Interval, FS_Subset
  <2>4. Cardinality(J) <= Cardinality(I) /\ Cardinality(J) \in Nat /\ Cardinality(I) \in Nat
    BY <2>2, <2>3, FS_Subset, FS_CardinalityType
  <2>5. Cardinality(J) < CBMax
    BY <2>1, <2>4
  <2> QED
    BY <2>5 DEF Latest
<1>2. C \subseteq Failing(rs, n)
  <2>1. ASSUME NEW i \in C PROVE i \in Failing(rs, n)
    <3>1. i \in Latest(ss) /\ i \in Counted(ss) /\ i \in 1..n /\ rs[i].error # "breaker"
      BY DEF Latest, Counted
    <3>2. ASSUME NEW j \in i..n, rs[j].error # "breaker"
          PROVE  rs[j].status = "failed" /\ rs[j].error \notin Uncounted
      <4>1. j \in 1..n /\ rs[j] = ss[j] /\ j >= i
        BY <3>1
      <4>2. j \in Counted(ss)
        BY <3>2, <4>1 DEF Counted
      <4> QED
        BY <1>1, <3>1, <4>1, <4>2
    <3> QED
      BY <3>1, <3>2 DEF Failing
  <2> QED
    BY <2>1
<1> QED
  BY <1>2, FailingFinite, FS_Subset DEF Consecutive

-----------------------------------------------------------------------------
LEMMA InitInv == Init => IInv
<1> SUFFICES ASSUME Init PROVE IInv
  OBVIOUS
<1>1. Units \in Seq(SUBSET Tasks) /\ Len(Units) \in Nat
  BY UnitsPartition DEF Init
<1>2. TypeOK
  <2>1. /\ done \subseteq Tasks /\ deferred \subseteq Tasks \ done /\ mode \in {"phases", "tasks"}
        /\ rows \in Seq([phase: DOMAIN Units,
                         status: {"running", "completed", "failed", "cancelled"},
                         error: Errors \cup Sentinels])
        /\ pc \in PCs
    BY DEF Init, PCs
  <2>2. /\ idx \in 1..(Len(Units) + 1) /\ total \in 0..Cardinality(Tasks)
    BY <1>1, TasksFinite DEF Init
  <2>3. /\ failures \in 0..MaxPhaseFails /\ attempt \in 0..(Retries + 1) /\ sameCount \in 0..(Retries + 1)
        /\ streak \in 0..(MaxEpicFails - 1) /\ late \in 0..(Retries + 1) /\ budget \in 0..Budget
    BY LimitsType DEF Init
  <2>4. breaker \in [state: {"closed", "open", "half-open"}, count: Nat]
    BY DEF Init, Fresh
  <2> QED
    BY <2>1, <2>2, <2>3, <2>4 DEF Init, TypeOK, Sentinels
<1>3. SuccessMeansDone
  BY DEF Init, SuccessMeansDone
<1> QED
  BY <1>2, <1>3 DEF Init, IInv, Running, Retrying, Dispatched, CountedIsDone, Walking, Dispatching

-----------------------------------------------------------------------------
(* What the steps do to the counter                                         *)

LEMMA BehindTasks ==
    ASSUME TypeOK PROVE Behind \in SUBSET Tasks /\ Behind \cap (done \cup Trusted) \in SUBSET Tasks
<1>1. Units \in Seq(SUBSET Tasks)
  BY UnitsPartition DEF TypeOK
<1>2. \A j \in 1..(idx - 1) : Units[j] \subseteq Tasks
  BY <1>1 DEF TypeOK
<1> QED
  BY <1>2 DEF Behind

(* The unit at hand is none of those behind.                                *)
LEMMA UnitAtHand ==
    ASSUME TypeOK, idx <= Len(Units)
    PROVE  /\ idx \in DOMAIN Units /\ Units[idx] \in SUBSET Tasks
           /\ Behind \cap Units[idx] = {}
           /\ \A n : n = idx + 1 => UNION {Units[j] : j \in 1..(n - 1)} = Behind \cup Units[idx]
<1>1. Units \in Seq(SUBSET Tasks) /\ \A i, j \in DOMAIN Units : i # j => Units[i] \cap Units[j] = {}
  BY UnitsPartition DEF TypeOK
<1>2. idx \in DOMAIN Units /\ idx \in Nat /\ Units[idx] \in SUBSET Tasks
  <2>1. idx \in 1..(Len(Units) + 1)
    BY DEF TypeOK
  <2>2. Len(Units) \in Nat /\ DOMAIN Units = 1..Len(Units)
    BY <1>1
  <2>3. idx \in DOMAIN Units /\ idx \in Nat
    BY <2>1, <2>2
  <2> QED
    BY <1>1, <2>3
<1>3. \A j \in 1..(idx - 1) : j \in DOMAIN Units /\ j # idx
  <2>1. Len(Units) \in Nat /\ DOMAIN Units = 1..Len(Units)
    BY <1>1
  <2> QED
    BY <1>2, <2>1
<1>4. Behind \cap Units[idx] = {}
  BY <1>1, <1>2, <1>3 DEF Behind
<1>5. ASSUME NEW n, n = idx + 1 PROVE 1..(n - 1) = 1..(idx - 1) \cup {idx}
  <2>1. idx \in Nat \ {0} /\ n - 1 = idx
    BY <1>1, <1>2, <1>5
  <2> QED
    BY <2>1
<1> QED
  BY <1>2, <1>4, <1>5 DEF Behind

LEMMA Counts ==
    ASSUME TypeOK, CountedIsDone, Dispatched, SkipPhase \/ VerifyPhase \/ VerifyTask
    PROVE  /\ total' \in Nat /\ total' <= Cardinality(Tasks)
           /\ idx' \in {idx, idx + 1} /\ idx <= Len(Units)
           /\ total' <= Cardinality(Behind' \cap (done' \cup Trusted'))
<1> DEFINE A == Behind \cap (done \cup Trusted)
           C == Behind' \cap (done' \cup Trusted')
<1>1. A \in SUBSET Tasks /\ total \in Nat /\ total <= Cardinality(A)
  BY BehindTasks, TasksFinite DEF TypeOK, CountedIsDone, SkipPhase, VerifyPhase, VerifyTask, Walking, Dispatching
<1>2. mode' = mode /\ deferred' = deferred /\ Units' = Units /\ Trusted' = Trusted
  BY UnitsFixed DEF SkipPhase, VerifyPhase, VerifyTask, persistent, Trusted
<1>3. idx <= Len(Units)
  BY DEF SkipPhase, VerifyPhase, VerifyTask, Dispatched, Dispatching
<1>4. /\ idx \in DOMAIN Units /\ Units[idx] \in SUBSET Tasks
      /\ Behind \cap Units[idx] = {}
      /\ idx' = idx + 1 => Behind' = Behind \cup Units[idx]
      /\ idx' = idx => Behind' = Behind
  BY <1>2, <1>3, UnitAtHand DEF Behind
<1>5. \E B \in SUBSET Units[idx] :
         /\ total' = total + Cardinality(B) /\ idx' \in {idx, idx + 1}
         /\ done \subseteq done' /\ done' \subseteq Tasks
         /\ idx' = idx + 1 => B \subseteq done' \cup Trusted
         /\ idx' = idx => B = {}
  <2>0. done \subseteq Tasks /\ idx \in Nat /\ idx # idx + 1
    BY <1>4 DEF TypeOK
  <2>1. CASE SkipPhase
    <3>1. Units[idx] \subseteq done /\ total' = total + Cardinality(Units[idx]) /\ idx' = idx + 1 /\ done' = done
      BY <2>1 DEF SkipPhase, Pending, persistent
    <3> QED
      BY <3>1, <2>0
  <2>2. CASE VerifyPhase
    <3>1. /\ Completed \subseteq done /\ Completed \subseteq Units[idx] /\ done' = done
          /\ total' = total + Cardinality(Completed)
          /\ idx' = idx + 1 \/ (idx' = idx /\ Outcome.status = "failed")
      BY <2>2 DEF VerifyPhase, Completed, CloseRow, Dispatched, Dispatching
    <3>2. Outcome.status = "failed" => Completed = {}
      BY DEF Outcome
    <3> QED
      BY <3>1, <3>2, <2>0
  <2>3. CASE VerifyTask /\ success
    <3>1. /\ idx' = idx + 1 /\ total' = total + 1 /\ mode = "tasks"
          /\ done' = done \cup (pending \ deferred) /\ Units[idx] \ done \subseteq pending
          /\ pending \subseteq Units[idx]
      BY <2>3 DEF VerifyTask, CloseRow, TaskOutcome, Dispatched, Dispatching
    <3>2. PICK t : Units[idx] = {t}
      BY <3>1, <1>4 DEF Units
    <3>3. Cardinality(Units[idx]) = 1
      BY <3>2, FS_Singleton
    <3>4. Units[idx] \subseteq done' \cup Trusted /\ done' \subseteq Tasks /\ done \subseteq done'
      BY <3>1, <1>4, <2>0 DEF Trusted
    <3> QED
      BY <3>1, <3>3, <3>4, <2>0
  <2>4. CASE VerifyTask /\ ~success
    <3>1. idx' \in {idx, idx + 1} /\ total' = total /\ done' = done
      BY <2>4 DEF VerifyTask, CloseRow
    <3>2. Cardinality({}) = 0
      BY FS_EmptySet
    <3> QED
      BY <3>1, <3>2, <1>1, <2>0
  <2> QED
    BY <2>1, <2>2, <2>3, <2>4
<1>. PICK B \in SUBSET Units[idx] :
         /\ total' = total + Cardinality(B) /\ idx' \in {idx, idx + 1}
         /\ done \subseteq done' /\ done' \subseteq Tasks
         /\ idx' = idx + 1 => B \subseteq done' \cup Trusted
         /\ idx' = idx => B = {}
  BY <1>5
<1>6. A \cap B = {} /\ A \cup B \subseteq C /\ B \in SUBSET Tasks
  BY <1>2, <1>4, <1>5
<1>7. C \in SUBSET Tasks
  BY <1>1, <1>4, <1>5, BehindTasks
<1>8. total + Cardinality(B) \in Nat /\ total + Cardinality(B) <= Cardinality(C)
  <2> HIDE DEF A, C
  <2> QED
    BY <1>1, <1>6, <1>7, CountAdded
<1>9. Cardinality(C) \in Nat /\ Cardinality(C) <= Cardinality(Tasks) /\ Cardinality(Tasks) \in Nat
  <2> HIDE DEF C
  <2> QED
    BY <1>7, TaskSets, TasksFinite
<1> QED
  BY <1>3, <1>8, <1>9

-----------------------------------------------------------------------------
(* Each part of the invariant is kept                                       *)

(* The steps by what they are: of the pass, of the dispatch, or of others.  *)
PassStep == StartPass \/ SkipPhase \/ DispatchPhase \/ EndPhases \/ VerifyPhase \/ VerifyTask
            \/ PassSucceeds \/ PassFails
DispatchStep == BreakerRefuses \/ BreakerAllows \/ FoundDone \/ AbortRetries \/ Backoff \/ Retry
                \/ ClaudeSucceeds \/ \E e \in Errors : ClaudeFails(e)
Marking   == \E t \in Tasks : ClaudeMarks(t) \/ ClaudeDefers(t)
OtherStep == Recover \/ CancelEpic \/ ReenableEpic \/ Crash \/ Restart

LEMMA StepCases ==
    ASSUME [Next]_vars
    PROVE  PassStep \/ DispatchStep \/ Marking \/ OtherStep \/ UNCHANGED vars
BY DEF Next, Daemon, Claude, PassStep, DispatchStep, Marking, OtherStep

LEMMA UnitsKept == ASSUME [Next]_vars PROVE mode' = mode /\ Units' = Units
<1>1. ASSUME PassStep PROVE mode' = mode
  BY <1>1 DEF PassStep, StartPass, SkipPhase, DispatchPhase, EndPhases, VerifyPhase, VerifyTask,
              PassSucceeds, PassFails, persistent
<1>2. ASSUME DispatchStep PROVE mode' = mode
  BY <1>2 DEF DispatchStep, BreakerRefuses, BreakerAllows, FoundDone, AbortRetries, Backoff, Retry,
              ClaudeSucceeds, ClaudeFails, persistent
<1>3. ASSUME Marking \/ OtherStep \/ UNCHANGED vars PROVE mode' = mode
  BY <1>3 DEF Marking, ClaudeMarks, ClaudeDefers, OtherStep, Recover, CancelEpic, ReenableEpic,
              Crash, Restart, persistent, vars
<1> QED
  BY <1>1, <1>2, <1>3, StepCases, UnitsFixed

LEMMA RunningKept == ASSUME TypeOK, Running, [Next]_vars PROVE Running'
<1>0. failures \in Nat /\ MaxPhaseFails \in Nat \ {0} /\ status \in {"in_progress", "blocked", "cancelled"}
  BY LimitsType DEF TypeOK
<1>1. CASE PassStep
  <2>1. CASE StartPass
    BY <2>1, <1>0 DEF StartPass, Dispatchable, Running, Walking, Dispatching, pass
  <2>2. CASE SkipPhase \/ DispatchPhase \/ EndPhases
    BY <2>2, <1>0 DEF SkipPhase, DispatchPhase, EndPhases, Goto, pass, persistent, Running, Walking, Dispatching
  <2>3. CASE VerifyPhase
    BY <2>3, <1>0 DEF VerifyPhase, CloseRow, Stuck, Running, Walking, Dispatching
  <2>4. CASE VerifyTask
    BY <2>4, <1>0 DEF VerifyTask, CloseRow, Running, Walking, Dispatching
  <2>5. CASE PassSucceeds \/ PassFails
    BY <2>5 DEF PassSucceeds, PassFails, Goto, Running, Walking, Dispatching
  <2> QED
    BY <1>1, <2>1, <2>2, <2>3, <2>4, <2>5 DEF PassStep
<1>2. CASE DispatchStep
  BY <1>2 DEF DispatchStep, BreakerRefuses, BreakerAllows, FoundDone, AbortRetries, Backoff, Retry,
              ClaudeSucceeds, ClaudeFails, Goto, persistent, pass, Running, Walking, Dispatching
<1>3. CASE Marking \/ OtherStep \/ UNCHANGED vars
  BY <1>3 DEF Marking, ClaudeMarks, ClaudeDefers, OtherStep, Recover, CancelEpic, ReenableEpic, Crash,
              Restart, Goto, persistent, pass, vars, Running, Walking, Dispatching
<1> QED
  BY <1>1, <1>2, <1>3, StepCases

LEMMA RetryingKept == ASSUME TypeOK, Running, Retrying, [Next]_vars PROVE Retrying'
<1>0. /\ late \in Nat /\ attempt \in Nat /\ sameCount \in Nat
      /\ status \in {"in_progress", "blocked", "cancelled"}
  BY LimitsType DEF TypeOK
<1>1. CASE PassStep
  BY <1>1, <1>0 DEF PassStep, StartPass, SkipPhase, DispatchPhase, EndPhases, VerifyPhase, VerifyTask,
              CloseRow, PassSucceeds, PassFails, Goto, dispatch, persistent, Retrying
<1>2. CASE DispatchStep
  <2>1. CASE BreakerRefuses \/ FoundDone \/ AbortRetries \/ ClaudeSucceeds
    BY <2>1 DEF BreakerRefuses, FoundDone, AbortRetries, ClaudeSucceeds, Goto, persistent, Retrying
  <2>2. CASE BreakerAllows \/ Retry
    BY <2>2, <1>0 DEF BreakerAllows, Retry, CountLate, Goto, persistent, Retrying, Running, Walking, Dispatching
  <2>3. CASE Backoff
    BY <2>3, <1>0 DEF Backoff, Aborted, Goto, persistent, dispatch, Retrying
  <2>4. ASSUME NEW e \in Errors, ClaudeFails(e) PROVE Retrying'
    BY <2>4, <1>0 DEF ClaudeFails, persistent, Retrying
  <2> QED
    BY <1>2, <2>1, <2>2, <2>3, <2>4 DEF DispatchStep
<1>3. CASE Marking \/ OtherStep \/ UNCHANGED vars
  BY <1>3, <1>0 DEF Marking, ClaudeMarks, ClaudeDefers, OtherStep, Recover, CancelEpic, ReenableEpic, Crash,
              Restart, Goto, persistent, dispatch, vars, Retrying
<1> QED
  BY <1>1, <1>2, <1>3, StepCases

LEMMA DispatchedKept == ASSUME TypeOK, Dispatched, [Next]_vars PROVE Dispatched'
<1>0. Units' = Units /\ (idx <= Len(Units) => Units[idx] \in SUBSET Tasks)
  BY UnitsKept, UnitAtHand
<1>1. CASE PassStep
  <2>1. CASE DispatchPhase
    <3>1. rows \in Seq([phase: DOMAIN Units, status: {"running", "completed", "failed", "cancelled"},
                        error: Errors \cup Sentinels])
      BY DEF TypeOK
    <3>2. Len(rows') = Len(rows) + 1 /\ Len(rows) \in Nat /\ rows'[Len(rows')].phase = idx
      BY <2>1, <3>1 DEF DispatchPhase
    <3> QED
      BY <2>1, <3>2, <1>0 DEF DispatchPhase, pass, Pending, Dispatched
  <2>2. CASE SkipPhase \/ StartPass \/ EndPhases \/ VerifyPhase \/ VerifyTask \/ PassSucceeds \/ PassFails
    BY <2>2 DEF SkipPhase, StartPass, EndPhases, VerifyPhase, VerifyTask, CloseRow, PassSucceeds,
                PassFails, Goto, pass, persistent, Dispatched, Dispatching
  <2> QED
    BY <1>1, <2>1, <2>2 DEF PassStep
<1>2. CASE DispatchStep
  <2>1. /\ pc \in Dispatching
        /\ UNCHANGED <<pending, done, rows, idx>>
    BY <1>2 DEF DispatchStep, BreakerRefuses, BreakerAllows, FoundDone, AbortRetries, Backoff, Retry,
              ClaudeSucceeds, ClaudeFails, Goto, persistent, pass, dispatch, Dispatching
  <2> QED
    BY <2>1, <1>0 DEF Dispatched
<1>3. CASE Marking \/ OtherStep \/ UNCHANGED vars
  <2>1. /\ pc' = pc \/ pc' \notin Dispatching
        /\ UNCHANGED <<pending, rows, idx>> /\ done \subseteq done'
    BY <1>3 DEF Marking, ClaudeMarks, ClaudeDefers, OtherStep, Recover, CancelEpic, ReenableEpic, Crash,
              Restart, Goto, persistent, pass, dispatch, vars, Dispatching
  <2> QED
    BY <2>1, <1>0 DEF Dispatched
<1> QED
  BY <1>1, <1>2, <1>3, StepCases

(* What is done or deferred stays so: the sets a count is taken of grow.    *)
LEMMA DoneGrows == ASSUME TypeOK, [Next]_vars PROVE done \cup Trusted \subseteq done' \cup Trusted'
<1>1. CASE PassStep
  BY <1>1, UnitsKept DEF PassStep, StartPass, SkipPhase, DispatchPhase, EndPhases, VerifyPhase, VerifyTask,
              PassSucceeds, PassFails, persistent, Trusted
<1>2. CASE DispatchStep
  BY <1>2, UnitsKept DEF DispatchStep, BreakerRefuses, BreakerAllows, FoundDone, AbortRetries, Backoff, Retry,
              ClaudeSucceeds, ClaudeFails, persistent, Trusted
<1>3. CASE Marking \/ OtherStep \/ UNCHANGED vars
  BY <1>3, UnitsKept DEF Marking, ClaudeMarks, ClaudeDefers, OtherStep, Recover, CancelEpic, ReenableEpic,
              Crash, Restart, persistent, vars, Trusted
<1> QED
  BY <1>1, <1>2, <1>3, StepCases

LEMMA CountedKept ==
    ASSUME TypeOK, TypeOK', Dispatched, CountedIsDone, [Next]_vars PROVE CountedIsDone'
<1> DEFINE A == Behind \cap (done \cup Trusted)
           C == Behind' \cap (done' \cup Trusted')
<1>1. CASE SkipPhase \/ VerifyPhase \/ VerifyTask
  BY <1>1, Counts DEF CountedIsDone
<1>2. CASE StartPass
  <2>1. pc' \in Walking \cup {"end"} => total' = 0
    BY <1>2 DEF StartPass, Walking, Dispatching
  <2>2. C \in SUBSET Tasks
    BY DEF Behind, Trusted, TypeOK
  <2> QED
    BY <2>1, <2>2, TaskSets DEF CountedIsDone
<1>3. CASE ~(SkipPhase \/ VerifyPhase \/ VerifyTask \/ StartPass)
  <2>1. /\ UNCHANGED <<total, idx>>
        /\ pc' \in Walking \cup {"end"} => pc \in Walking \cup {"end"}
    <3>1. CASE PassStep
      BY <1>3, <3>1 DEF PassStep, DispatchPhase, EndPhases, PassSucceeds, PassFails, Goto, pass,
                  Walking, Dispatching
    <3>2. CASE DispatchStep
      BY <3>2 DEF DispatchStep, BreakerRefuses, BreakerAllows, FoundDone, AbortRetries, Backoff, Retry,
                  ClaudeSucceeds, ClaudeFails, Goto, pass, Walking, Dispatching
    <3>3. CASE Marking \/ OtherStep \/ UNCHANGED vars
      BY <3>3 DEF Marking, ClaudeMarks, ClaudeDefers, OtherStep, Recover, CancelEpic, ReenableEpic, Crash,
                  Restart, Goto, pass, vars, Walking, Dispatching
    <3> QED
      BY <3>1, <3>2, <3>3, StepCases
  <2>2. A \subseteq C /\ A \in SUBSET Tasks
    BY <2>1, DoneGrows, UnitsKept, BehindTasks DEF Behind
  <2>3. C \in SUBSET Tasks
    BY BehindTasks, <2>1, UnitsKept DEF Behind, Trusted, TypeOK
  <2>4. total \in Nat
    BY TasksFinite DEF TypeOK
  <2>5. total <= Cardinality(A) => total <= Cardinality(C)
    <3> HIDE DEF A, C
    <3> QED
      BY <2>2, <2>3, <2>4, CountKept
  <2> QED
    BY <2>1, <2>5 DEF CountedIsDone
<1> QED
  BY <1>1, <1>2, <1>3

(* A counter that has reached every task stands for every task.             *)
LEMMA CountedAll ==
    ASSUME TypeOK, CountedIsDone, pc = "end", AllCounted PROVE Tasks \subseteq done \cup Trusted
<1> DEFINE A == Behind \cap (done \cup Trusted)
<1>1. A \in SUBSET Tasks
  BY BehindTasks
<1>2. total <= Cardinality(A) /\ total >= Cardinality(Tasks) /\ total \in Nat
  BY TasksFinite DEF TypeOK, CountedIsDone, AllCounted, Walking, Dispatching
<1>3. A = Tasks
  <2> HIDE DEF A
  <2>1. Cardinality(A) = Cardinality(Tasks)
    BY <1>1, <1>2, TaskSets, TasksFinite
  <2> QED
    BY <1>1, <2>1, PhasesType, FS_Subset
<1> QED
  BY <1>3

Row == [phase: DOMAIN Units, status: {"running", "completed", "failed", "cancelled"},
        error: Errors \cup Sentinels]

(* A row that counts as done.                                               *)
Earned(r) == r.status = "completed" /\ r.error = "none" => Units[r.phase] \ done \subseteq Trusted

LEMMA EarnedIsSuccess ==
    SuccessMeansDone <=> /\ pc = "finished" => Tasks \ done \subseteq Trusted
                         /\ \A r \in DOMAIN rows : Earned(rows[r])
BY DEF SuccessMeansDone, Earned, Trusted

LEMMA RowsGrow ==
    ASSUME TypeOK, [Next]_vars,
           NEW r, Earned(r) PROVE Units'[r.phase] \ done' \subseteq Trusted'
                                  \/ ~(r.status = "completed" /\ r.error = "none")
BY DoneGrows, UnitsKept DEF Earned

LEMMA RowsUnchanged ==
    ASSUME [Next]_vars, ~(StartPass \/ DispatchPhase \/ VerifyPhase \/ VerifyTask) PROVE rows' = rows
<1>1. CASE PassStep
  BY <1>1 DEF PassStep, SkipPhase, EndPhases, PassSucceeds, PassFails, persistent
<1>2. CASE DispatchStep
  BY <1>2 DEF DispatchStep, BreakerRefuses, BreakerAllows, FoundDone, AbortRetries, Backoff,
                    Retry, ClaudeSucceeds, ClaudeFails, persistent
<1>3. CASE Marking \/ OtherStep \/ UNCHANGED vars
  BY <1>3 DEF Marking, ClaudeMarks, ClaudeDefers, OtherStep, Recover, CancelEpic,
                    ReenableEpic, Crash, Restart, persistent, vars
<1> QED
  BY <1>1, <1>2, <1>3, StepCases

LEMMA SuccessKept ==
    ASSUME TypeOK, Dispatched, CountedIsDone, SuccessMeansDone, [Next]_vars PROVE SuccessMeansDone'
<1>0. rows \in Seq(Row) /\ \A r \in DOMAIN rows : Earned(rows[r])
  BY EarnedIsSuccess DEF TypeOK, Row
<1>1. pc' = "finished" => Tasks \ done' \subseteq Trusted'
  <2>1. CASE pc = "finished"
    BY <2>1, DoneGrows, EarnedIsSuccess
  <2>2. CASE pc # "finished" /\ pc' = "finished"
    <3>1. StartPass \/ PassSucceeds
      <4>1. CASE PassStep
        BY <2>2, <4>1 DEF PassStep, SkipPhase, DispatchPhase, EndPhases, VerifyPhase, VerifyTask,
                    CloseRow, PassFails, Goto
      <4>2. CASE DispatchStep
        BY <2>2, <4>2 DEF DispatchStep, BreakerRefuses, BreakerAllows, FoundDone, AbortRetries, Backoff,
                    Retry, ClaudeSucceeds, ClaudeFails, Goto
      <4>3. CASE Marking \/ OtherStep \/ UNCHANGED vars
        BY <2>2, <4>3 DEF Marking, ClaudeMarks, ClaudeDefers, OtherStep, Recover, CancelEpic,
                    ReenableEpic, Crash, Restart, Goto, vars
      <4> QED
        BY <4>1, <4>2, <4>3, StepCases
    <3>2. CASE StartPass
      BY <2>2, <3>2 DEF StartPass
    <3>3. CASE PassSucceeds
      <4>1. Tasks \subseteq done \cup Trusted
        BY <3>3, CountedAll DEF PassSucceeds, Goto
      <4> QED
        BY <4>1, DoneGrows
    <3> QED
      BY <3>1, <3>2, <3>3
  <2> QED
    BY <2>1, <2>2
<1>2. ASSUME NEW r \in DOMAIN rows' PROVE Earned(rows[r])'
  <2>1. CASE StartPass
    <3>1. DOMAIN rows' = DOMAIN rows
      BY <2>1 DEF StartPass, Cleaned
    <3>2. rows'[r] = rows[r] \/ rows'[r].status = "cancelled"
      BY <2>1, <3>1, <1>0 DEF StartPass, Cleaned, Row
    <3> QED
      BY <3>1, <3>2, <1>0, RowsGrow DEF Earned
  <2>2. CASE DispatchPhase
    <3>1. (r \in DOMAIN rows /\ rows'[r] = rows[r]) \/ rows'[r].status = "running"
      BY <2>2, <1>0 DEF DispatchPhase
    <3> QED
      BY <3>1, <1>0, RowsGrow DEF Earned
  <2>3. CASE VerifyPhase \/ VerifyTask
    <3>1. /\ DOMAIN rows' = DOMAIN rows
          /\ r # Len(rows) => rows'[r] = rows[r]
          /\ VerifyPhase /\ r = Len(rows) => rows'[r] = [rows[r] EXCEPT !.status = Outcome.status, !.error = Outcome.error]
          /\ VerifyTask /\ r = Len(rows) => rows'[r] = [rows[r] EXCEPT !.status = TaskOutcome.status, !.error = TaskOutcome.error]
      BY <2>3, <1>0 DEF VerifyPhase, VerifyTask, CloseRow
    <3>2. /\ pending \subseteq Units[idx] /\ Units[idx] \ done \subseteq pending /\ rows[Len(rows)].phase = idx
      BY <2>3 DEF VerifyPhase, VerifyTask, Dispatched, Dispatching
    <3>3. CASE r # Len(rows)
      BY <3>1, <3>3, <1>0, RowsGrow DEF Earned
    <3>4. CASE r = Len(rows) /\ VerifyPhase
      <4>0. rows[r] \in Row
        BY <1>0, <3>1
      <4>1. rows'[r].phase = idx /\ rows'[r].status = Outcome.status /\ rows'[r].error = Outcome.error
        <5> DEFINE new == Outcome
        <5>1. rows'[r] = [rows[r] EXCEPT !.status = new.status, !.error = new.error] /\ rows[r].phase = idx
          BY <3>1, <3>2, <3>4
        <5> HIDE DEF new
        <5>2. rows'[r].phase = idx /\ rows'[r].status = new.status /\ rows'[r].error = new.error
          BY <4>0, <5>1 DEF Row
        <5> QED
          BY <5>2 DEF new
      <4>2. CASE Completed = pending
        <5>1. Units'[idx] \subseteq done'
          BY <3>2, <3>4, <4>2, UnitsKept DEF Completed, VerifyPhase
        <5> QED
          BY <4>1, <5>1 DEF Earned
      <4>3. CASE Completed # pending
        <5>1. ~(Outcome.status = "completed" /\ Outcome.error = "none")
          BY <4>3 DEF Outcome
        <5> QED
          BY <4>1, <5>1 DEF Earned
      <4> QED
        BY <4>2, <4>3
    <3>5. CASE r = Len(rows) /\ VerifyTask
      <4>0. rows[r] \in Row
        BY <1>0, <3>1
      <4>1. rows'[r].phase = idx /\ rows'[r].status = TaskOutcome.status
        <5> DEFINE new == TaskOutcome
        <5>1. rows'[r] = [rows[r] EXCEPT !.status = new.status, !.error = new.error] /\ rows[r].phase = idx
          BY <3>1, <3>2, <3>5
        <5> HIDE DEF new
        <5>2. rows'[r].phase = idx /\ rows'[r].status = new.status /\ rows'[r].error = new.error
          BY <4>0, <5>1 DEF Row
        <5> QED
          BY <5>2 DEF new
      <4>2. CASE success
        <5>1. Units'[idx] \ done' \subseteq Trusted'
          BY <3>2, <3>5, <4>2, UnitsKept DEF VerifyTask, Trusted
        <5> QED
          BY <4>1, <5>1 DEF Earned
      <4>3. CASE ~success
        BY <4>1, <4>3 DEF TaskOutcome, Earned
      <4> QED
        BY <4>2, <4>3
    <3> QED
      BY <2>3, <3>3, <3>4, <3>5
  <2>4. CASE ~(StartPass \/ DispatchPhase \/ VerifyPhase \/ VerifyTask)
    <3>1. rows' = rows
      BY <2>4, RowsUnchanged
    <3> QED
      BY <3>1, <1>0, RowsGrow DEF Earned
  <2> QED
    BY <2>1, <2>2, <2>3, <2>4
<1> QED
  BY <1>1, <1>2 DEF SuccessMeansDone, Earned, Trusted

-----------------------------------------------------------------------------
(* Types                                                                    *)

LEMMA TasksTypeKept ==
    ASSUME TypeOK, Dispatched, [Next]_vars
    PROVE  (/\ done \subseteq Tasks /\ deferred \subseteq Tasks \ done /\ mode \in {"phases", "tasks"}
            /\ pending \subseteq Tasks)'
<1>0. /\ done \subseteq Tasks /\ deferred \subseteq Tasks \ done /\ mode \in {"phases", "tasks"}
      /\ pending \subseteq Tasks /\ mode' = mode
  BY UnitsKept DEF TypeOK
<1>1. CASE PassStep
  <2>1. CASE DispatchPhase
    BY <2>1, <1>0, UnitAtHand DEF DispatchPhase, Pending
  <2>2. CASE StartPass \/ SkipPhase \/ EndPhases \/ VerifyPhase \/ VerifyTask \/ PassSucceeds \/ PassFails
    BY <2>2, <1>0 DEF StartPass, SkipPhase, EndPhases, VerifyPhase, VerifyTask, PassSucceeds, PassFails,
                persistent, dispatch
  <2> QED
    BY <1>1, <2>1, <2>2 DEF PassStep
<1>2. CASE DispatchStep
  BY <1>2, <1>0 DEF DispatchStep, BreakerRefuses, BreakerAllows, FoundDone, AbortRetries, Backoff, Retry,
              ClaudeSucceeds, ClaudeFails, persistent, dispatch
<1>3. CASE Marking
  BY <1>3, <1>0 DEF Marking, ClaudeMarks, ClaudeDefers, dispatch
<1>4. CASE OtherStep \/ UNCHANGED vars
  BY <1>4, <1>0 DEF OtherStep, Recover, CancelEpic, ReenableEpic, Crash, Restart, persistent, dispatch, vars
<1> QED
  BY <1>1, <1>2, <1>3, <1>4, StepCases

LEMMA RowsTypeKept == ASSUME TypeOK, Dispatched, [Next]_vars PROVE (rows \in Seq(Row))'
<1>0. rows \in Seq(Row) /\ Row' = Row /\ error \in Errors \cup Sentinels
  BY UnitsKept DEF TypeOK, Row
<1>1. CASE StartPass
  <2>1. ASSUME NEW r \in DOMAIN rows PROVE Cleaned[r] \in Row
    <3>1. rows[r] \in Row /\ (Cleaned[r] = rows[r] \/ Cleaned[r] = [rows[r] EXCEPT !.status = "cancelled"])
      BY <1>0 DEF Cleaned
    <3> QED
      BY <3>1 DEF Row
  <2>2. Cleaned \in Seq(Row)
    <3>1. DOMAIN rows = 1..Len(rows) /\ Len(rows) \in Nat
      BY <1>0
    <3>2. Cleaned = [r \in 1..Len(rows) |-> Cleaned[r]]
      BY <3>1 DEF Cleaned
    <3>3. Cleaned \in [1..Len(rows) -> Row]
      BY <2>1, <3>1, <3>2 DEF Cleaned
    <3> HIDE DEF Row
    <3> QED
      BY <3>1, <3>3, IsASeq
  <2> QED
    BY <1>0, <1>1, <2>2 DEF StartPass
<1>2. CASE DispatchPhase
  <2>1. [phase |-> idx, status |-> "running", error |-> "none"] \in Row
    BY <1>2, UnitAtHand DEF DispatchPhase, Row, Sentinels
  <2> HIDE DEF Row
  <2> QED
    BY <1>0, <1>2, <2>1 DEF DispatchPhase
<1>3. CASE VerifyPhase \/ VerifyTask
  <2>1. PICK new : /\ new \in {Outcome, TaskOutcome}
                   /\ rows' = [rows EXCEPT ![Len(rows)] = [@ EXCEPT !.status = new.status, !.error = new.error]]
    BY <1>3 DEF VerifyPhase, VerifyTask, CloseRow
  <2>2. new.status \in {"completed", "failed"} /\ new.error \in Errors \cup Sentinels
    BY <2>1, <1>0 DEF Outcome, TaskOutcome, Sentinels
  <2>3. Len(rows) \in DOMAIN rows
    BY <1>0, <1>3 DEF VerifyPhase, VerifyTask, Dispatched, Dispatching
  <2>4. rows[Len(rows)] \in Row
    BY <1>0, <2>3
  <2>5. [rows[Len(rows)] EXCEPT !.status = new.status, !.error = new.error] \in Row
    BY <2>2, <2>4 DEF Row
  <2> HIDE DEF Row
  <2> QED
    BY <1>0, <2>1, <2>3, <2>5
<1>4. CASE ~(StartPass \/ DispatchPhase \/ VerifyPhase \/ VerifyTask)
  BY <1>0, <1>4, RowsUnchanged
<1> QED
  BY <1>1, <1>2, <1>3, <1>4

LEMMA PassTypeKept ==
    ASSUME TypeOK, Running, Dispatched, CountedIsDone, [Next]_vars
    PROVE  (/\ idx \in 1..(Len(Units) + 1) /\ total \in 0..Cardinality(Tasks)
            /\ failures \in 0..MaxPhaseFails)'
<1>0. /\ idx \in 1..(Len(Units) + 1) /\ total \in 0..Cardinality(Tasks) /\ failures \in 0..MaxPhaseFails
      /\ Len(Units) \in Nat /\ Units' = Units /\ MaxPhaseFails \in Nat /\ Cardinality(Tasks) \in Nat
  BY UnitsKept, UnitsPartition, TasksFinite, LimitsType DEF TypeOK
<1>1. CASE StartPass
  BY <1>0, <1>1 DEF StartPass, pass
<1>2. CASE SkipPhase \/ VerifyPhase \/ VerifyTask
  <2>1. failures' \in 0..MaxPhaseFails
    BY <1>0, <1>2 DEF SkipPhase, VerifyPhase, VerifyTask, CloseRow, Running, Walking, Dispatching
  <2> QED
    BY <1>0, <1>2, <2>1, Counts
<1>3. CASE ~(StartPass \/ SkipPhase \/ VerifyPhase \/ VerifyTask)
  <2>1. UNCHANGED pass
    BY <1>3, StepCases DEF PassStep, DispatchPhase, EndPhases, PassSucceeds, PassFails,
       DispatchStep, BreakerRefuses, BreakerAllows, FoundDone, AbortRetries, Backoff, Retry,
       ClaudeSucceeds, ClaudeFails, Marking, ClaudeMarks, ClaudeDefers, OtherStep, Recover, CancelEpic,
       ReenableEpic, Crash, Restart, vars
  <2> QED
    BY <1>0, <2>1 DEF pass
<1> QED
  BY <1>1, <1>2, <1>3

LEMMA DispatchTypeKept ==
    ASSUME TypeOK, Running, Retrying, [Next]_vars
    PROVE  (/\ attempt \in 0..(Retries + 1) /\ sameCount \in 0..(Retries + 1)
            /\ lastError \in Errors \cup {"none"} /\ error \in Errors \cup Sentinels
            /\ success \in BOOLEAN /\ late \in 0..(Retries + 1))'
<1> USE DEF Sentinels
<1>0. /\ attempt \in 0..(Retries + 1) /\ sameCount \in 0..(Retries + 1) /\ late \in 0..(Retries + 1)
      /\ lastError \in Errors \cup {"none"} /\ error \in Errors \cup Sentinels /\ success \in BOOLEAN
      /\ Retries \in Nat
  BY LimitsType DEF TypeOK
<1>1. CASE PassStep
  <2>1. CASE DispatchPhase
    <3>1. attempt' = 1 /\ lastError' = "none" /\ sameCount' = 0 /\ success' = FALSE /\ error' = "none" /\ late' = 0
      BY <2>1 DEF DispatchPhase
    <3>2. 0 \in 0..(Retries + 1) /\ 1 \in 0..(Retries + 1)
      BY <1>0
    <3> QED
      BY <3>1, <3>2
  <2>2. CASE ~DispatchPhase
    BY <1>0, <1>1, <2>2 DEF PassStep, StartPass, SkipPhase, EndPhases, VerifyPhase, VerifyTask,
                PassSucceeds, PassFails, dispatch
  <2> QED
    BY <2>1, <2>2
<1>2. CASE DispatchStep
  <2>1. CASE BreakerRefuses \/ FoundDone \/ AbortRetries \/ ClaudeSucceeds \/ Backoff
    BY <1>0, <2>1 DEF BreakerRefuses, FoundDone, AbortRetries, ClaudeSucceeds, Backoff, dispatch
  <2>2. CASE BreakerAllows \/ Retry
    <3>1. late' \in 0..(Retries + 1)
      BY <1>0, <2>2 DEF BreakerAllows, Retry, CountLate, Goto, Retrying
    <3> QED
      BY <1>0, <2>2, <3>1 DEF BreakerAllows, Retry
  <2>3. ASSUME NEW e \in Errors, ClaudeFails(e)
        PROVE  /\ attempt' \in 0..(Retries + 1) /\ sameCount' \in 0..(Retries + 1)
               /\ lastError' \in Errors \cup {"none"} /\ error' \in Errors \cup Sentinels
               /\ success' = success /\ late' = late
    BY <1>0, <2>3 DEF ClaudeFails, Retrying
  <2> QED
    BY <1>0, <1>2, <2>1, <2>2, <2>3 DEF DispatchStep
<1>3. CASE Marking \/ OtherStep \/ UNCHANGED vars
  BY <1>0, <1>3 DEF Marking, ClaudeMarks, ClaudeDefers, OtherStep, Recover, CancelEpic, ReenableEpic, Crash,
              Restart, dispatch, vars
<1> QED
  BY <1>1, <1>2, <1>3, StepCases

LEMMA BreakerTypeKept ==
    ASSUME TypeOK, [Next]_vars
    PROVE  (breaker \in [state: {"closed", "open", "half-open"}, count: Nat] /\ elapsed \in BOOLEAN)'
<1>0. breaker \in [state: {"closed", "open", "half-open"}, count: Nat] /\ elapsed \in BOOLEAN
  BY DEF TypeOK
<1>1. CASE StartPass
  <2>1. Consecutive(Cleaned) \in Nat
    <3>1. DOMAIN Cleaned = DOMAIN rows /\ DOMAIN rows = 1..Len(rows) /\ Len(rows) \in Nat
      BY DEF TypeOK, Cleaned
    <3>2. Len(Cleaned) = Len(rows)
      BY <3>1, LenProperties
    <3> QED
      BY <3>1, <3>2, ConsecutiveNat
  <2>2. Seeded(Cleaned) \in [state: {"closed", "open", "half-open"}, count: Nat]
    BY <2>1 DEF Seeded
  <2> QED
    BY <1>0, <1>1, <2>2 DEF StartPass
<1>2. CASE PassStep /\ ~StartPass
  BY <1>0, <1>2 DEF PassStep, SkipPhase, DispatchPhase, EndPhases, VerifyPhase, VerifyTask,
              PassSucceeds, PassFails
<1>3. CASE DispatchStep
  <2>1. CASE BreakerAllows
    <3>1. breaker' = [breaker EXCEPT !.state = "half-open"] \/ breaker' = breaker
      BY <1>0, <2>1 DEF BreakerAllows
    <3> QED
      BY <1>0, <2>1, <3>1 DEF BreakerAllows
  <2>2. CASE RecordFailure
    <3>1. PICK s \in {breaker.state, "open"} :
            breaker' = [state |-> s, count |-> breaker.count + 1] /\ elapsed' = FALSE
      BY <2>2 DEF RecordFailure
    <3>2. s \in {"closed", "open", "half-open"} /\ breaker.count + 1 \in Nat
      BY <1>0
    <3> QED
      BY <3>1, <3>2
  <2>3. CASE RecordSuccess
    BY <1>0, <2>3 DEF RecordSuccess, Fresh
  <2>4. \/ BreakerAllows \/ RecordFailure \/ RecordSuccess \/ UNCHANGED <<breaker, elapsed>>
    BY <1>3 DEF DispatchStep, BreakerRefuses, FoundDone, AbortRetries, Backoff, Retry, ClaudeSucceeds, ClaudeFails
  <2> QED
    BY <1>0, <2>1, <2>2, <2>3, <2>4
<1>4. CASE Marking \/ OtherStep \/ UNCHANGED vars
  BY <1>0, <1>4 DEF Marking, ClaudeMarks, ClaudeDefers, OtherStep, Recover, CancelEpic, ReenableEpic, Crash,
              Restart, vars
<1> QED
  BY <1>1, <1>2, <1>3, <1>4, StepCases

LEMMA DaemonTypeKept ==
    ASSUME TypeOK, [Next]_vars
    PROVE  (/\ status \in {"in_progress", "blocked", "cancelled"} /\ pc \in PCs
            /\ streak \in 0..(MaxEpicFails - 1) /\ budget \in 0..Budget)'
<1>0. /\ status \in {"in_progress", "blocked", "cancelled"} /\ pc \in PCs
      /\ streak \in 0..(MaxEpicFails - 1) /\ budget \in 0..Budget
      /\ MaxEpicFails \in Nat \ {0} /\ Budget \in Nat
  BY LimitsType DEF TypeOK
<1>1. Adverse => budget' \in 0..Budget
  BY <1>0 DEF Adverse
<1>2. CASE PassStep
  <2>1. (streak + 1) % MaxEpicFails \in 0..(MaxEpicFails - 1)
    BY <1>0
  <2> QED
    BY <1>0, <1>2, <2>1 DEF PassStep, StartPass, SkipPhase, DispatchPhase, EndPhases, VerifyPhase, VerifyTask,
              CloseRow, PassSucceeds, PassFails, Goto, PCs, persistent
<1>3. CASE DispatchStep
  BY <1>0, <1>1, <1>3 DEF DispatchStep, BreakerRefuses, BreakerAllows, FoundDone, AbortRetries, Backoff, Retry,
              ClaudeSucceeds, ClaudeFails, Goto, PCs, persistent
<1>4. CASE Marking \/ OtherStep \/ UNCHANGED vars
  BY <1>0, <1>1, <1>4 DEF Marking, ClaudeMarks, ClaudeDefers, OtherStep, Recover, CancelEpic, ReenableEpic, Crash,
              Restart, Goto, PCs, persistent, vars
<1> QED
  BY <1>2, <1>3, <1>4, StepCases

LEMMA TypeKept ==
    ASSUME TypeOK, Running, Retrying, Dispatched, CountedIsDone, [Next]_vars PROVE TypeOK'
BY TasksTypeKept, RowsTypeKept, PassTypeKept, DispatchTypeKept, BreakerTypeKept, DaemonTypeKept
   DEF TypeOK, Row

-----------------------------------------------------------------------------
(* The breaker keeps up with the rows                                       *)

(* The steps that close no row and open none.                               *)
LEMMA GuardedInPlace ==
    ASSUME TypeOK, Guarded, rows' = rows, [Next]_vars,
           ~(StartPass \/ DispatchPhase \/ VerifyPhase \/ VerifyTask)
    PROVE  Guarded'
<1> DEFINE size == Cardinality(Failing(rows, Past))
<1>0. /\ breaker \in [state: {"closed", "open", "half-open"}, count: Nat]
      /\ CBMax \in Nat \ {0} /\ Len(rows) \in Nat /\ size \in Nat
  <2>1. breaker \in [state: {"closed", "open", "half-open"}, count: Nat] /\ Len(rows) \in Nat
    BY DEF TypeOK
  <2>2. Past \in Int
    BY <2>1 DEF Past
  <2> QED
    BY <2>1, <2>2, FailingFinite, LimitsType
<1>1. (pc \in Dispatching <=> pc' \in Dispatching) => Failing(rows', Past') = Failing(rows, Past)
  BY DEF Past
<1> HIDE DEF size
<1>2. CASE DispatchStep
  <2>1. pc \in Dispatching /\ pc' \in Dispatching
    BY <1>2 DEF DispatchStep, BreakerRefuses, BreakerAllows, FoundDone, AbortRetries, Backoff, Retry,
                ClaudeSucceeds, ClaudeFails, Goto, Dispatching
  <2>2. Cardinality(Failing(rows', Past')) = size
    BY <1>1, <2>1 DEF size
  <2>3. Guarded <=> /\ breaker.state = "closed" =>
                         /\ breaker.count < CBMax
                         /\ IF pc = "verify" THEN success \/ error = "aborted" \/ size < breaker.count
                            ELSE size <= breaker.count
                    /\ pc \in {"attempt", "backoff", "sleep"} => breaker.state # "open"
    BY <2>1 DEF Guarded, Walking, size
  <2>4. Guarded' <=> /\ breaker'.state = "closed" =>
                          /\ breaker'.count < CBMax
                          /\ IF pc' = "verify" THEN success' \/ error' = "aborted" \/ size < breaker'.count
                             ELSE size <= breaker'.count
                     /\ pc' \in {"attempt", "backoff", "sleep"} => breaker'.state # "open"
    BY <2>1, <2>2 DEF Guarded, Walking
  <2>5. CASE BreakerRefuses
    BY <2>4, <2>5 DEF BreakerRefuses, Goto
  <2>6. CASE BreakerAllows
    <3>1. /\ pc = "check" /\ pc' = "attempt" /\ breaker'.count = breaker.count
          /\ breaker'.state = IF breaker.state = "open" THEN "half-open" ELSE breaker.state
      BY <1>0, <2>6 DEF BreakerAllows, Goto
    <3> QED
      BY <2>3, <2>4, <3>1
  <2>7. CASE FoundDone \/ ClaudeSucceeds
    <3>1. pc' = "verify" /\ success' = TRUE /\ breaker'.state = "closed" /\ breaker'.count = 0
      BY <2>7 DEF FoundDone, ClaudeSucceeds, Goto, RecordSuccess, Fresh
    <3> QED
      BY <1>0, <2>4, <3>1
  <2>8. CASE AbortRetries
    <3>1. pc = "backoff" /\ pc' = "verify" /\ error' = "aborted" /\ breaker' = breaker
      BY <2>8 DEF AbortRetries, Goto
    <3> QED
      BY <2>3, <2>4, <3>1
  <2>9. CASE Backoff \/ Retry
    <3>1. pc \in {"backoff", "sleep"} /\ pc' \in {"sleep", "attempt"} /\ breaker' = breaker
      BY <2>9 DEF Backoff, Retry, Goto
    <3> QED
      BY <2>3, <2>4, <3>1
  <2>10. ASSUME NEW e \in Errors, ClaudeFails(e) PROVE Guarded'
    <3>1. pc = "attempt" /\ breaker.state # "open"
      BY <2>3, <2>10 DEF ClaudeFails
    <3>2. CASE pc' = "backoff" /\ breaker' = breaker
      BY <2>3, <2>4, <3>1, <3>2
    <3>3. CASE pc' = "verify" /\ RecordFailure
      <4>1. /\ breaker'.state = IF breaker.state = "half-open" \/ breaker.count + 1 >= CBMax
                                THEN "open" ELSE breaker.state
            /\ breaker'.count = breaker.count + 1
        BY <3>3 DEF RecordFailure
      <4>2. breaker'.state = "closed" => breaker.state = "closed" /\ breaker.count + 1 < CBMax
        BY <1>0, <4>1
      <4>3. breaker'.state = "closed" => breaker'.count < CBMax /\ size < breaker'.count
        BY <1>0, <2>3, <3>1, <4>1, <4>2
      <4> QED
        BY <2>4, <3>3, <4>3
    <3> QED
      BY <2>10, <3>2, <3>3 DEF ClaudeFails
  <2> QED
    BY <1>2, <2>5, <2>6, <2>7, <2>8, <2>9, <2>10 DEF DispatchStep
<1>3. CASE ~DispatchStep
  <2>1. /\ UNCHANGED <<breaker, success, error>>
        /\ pc' = pc \/ pc' \notin Walking
    <3>1. CASE PassStep
      BY <3>1 DEF PassStep, SkipPhase, EndPhases, PassSucceeds, PassFails, Goto, dispatch, Walking, Dispatching
    <3>2. CASE Marking \/ OtherStep \/ UNCHANGED vars
      BY <3>2 DEF Marking, ClaudeMarks, ClaudeDefers, OtherStep, Recover, CancelEpic, ReenableEpic, Crash,
                  Restart, Goto, dispatch, vars, Walking, Dispatching
    <3> QED
      BY <1>3, <3>1, <3>2, StepCases
  <2>2. CASE pc' = pc
    <3>1. Failing(rows', Past') = Failing(rows, Past)
      BY <1>1, <2>2
    <3> QED
      BY <2>1, <2>2, <3>1 DEF Guarded
  <2>3. CASE pc' \notin Walking
    BY <2>3 DEF Guarded, Walking, Dispatching
  <2> QED
    BY <2>1, <2>2, <2>3
<1> QED
  BY <1>2, <1>3

(* The row of a dispatch is closed.                                         *)
LEMMA GuardedByClosing ==
    ASSUME TypeOK, Dispatched, Guarded, VerifyPhase \/ VerifyTask PROVE Guarded'
<1> DEFINE n == Len(rows) - 1
           old == Failing(rows, n)
           now == Failing(rows', n + 1)
<1>0. /\ pc = "verify" /\ pc' \in {"phase", "end"} /\ UNCHANGED <<breaker, success, error>>
      /\ Len(rows) \in Nat \ {0} /\ n \in Nat /\ n + 1 = Len(rows)
      /\ breaker.count \in Nat
  <2>1. pc = "verify" /\ pc' \in {"phase", "end"} /\ UNCHANGED <<breaker, success, error>>
    BY DEF VerifyPhase, VerifyTask, CloseRow, dispatch
  <2>2. Len(rows) \in Nat \ {0}
    BY <2>1 DEF TypeOK, Dispatched, Dispatching
  <2> QED
    BY <2>1, <2>2 DEF TypeOK
<1>1. PICK new \in {Outcome, TaskOutcome} :
             rows' = [rows EXCEPT ![Len(rows)] = [@ EXCEPT !.status = new.status, !.error = new.error]]
  BY DEF VerifyPhase, VerifyTask, CloseRow
<1>2. ASSUME success \/ error = "aborted"
      PROVE  new.error # "breaker" /\ (new.status # "failed" \/ new.error \in Uncounted)
  <2>1. CASE new = Outcome
    BY <1>2, <2>1 DEF Outcome, Uncounted
  <2>2. CASE new = TaskOutcome
    BY <1>2, <2>2 DEF TaskOutcome, Uncounted
  <2> QED
    BY <1>1, <2>1, <2>2
<1>3. /\ Len(rows') = Len(rows) /\ \A i \in 1..n : rows[i] = rows'[i]
      /\ rows'[n + 1].status = new.status /\ rows'[n + 1].error = new.error
  <2> HIDE DEF n
  <2>1. rows \in Seq(Row) /\ DOMAIN rows = 1..Len(rows)
    BY DEF TypeOK, Row
  <2>2. n + 1 \in DOMAIN rows /\ \A i \in 1..n : i \in DOMAIN rows /\ i # n + 1
    BY <1>0, <2>1
  <2>3. rows[n + 1] \in Row
    BY <2>1, <2>2, ElementOfSeq
  <2>4. rows'[n + 1] = [rows[n + 1] EXCEPT !.status = new.status, !.error = new.error]
    BY <1>0, <1>1, <2>2
  <2>5. rows'[n + 1].status = new.status /\ rows'[n + 1].error = new.error
    BY <2>3, <2>4 DEF Row
  <2>6. DOMAIN rows' = DOMAIN rows
    BY <1>1
  <2>7. Len(rows') = Len(rows)
    BY <1>0, <2>1, <2>6, LenProperties
  <2>8. \A i \in 1..n : rows[i] = rows'[i]
    BY <1>0, <1>1, <2>2
  <2> QED
    BY <2>5, <2>7, <2>8
<1>4. Past = n /\ Past' = n + 1
  BY <1>0, <1>3 DEF Past, Dispatching
<1>5. /\ now \subseteq old \cup {n + 1} /\ IsFiniteSet(old)
      /\ Cardinality(old) \in Nat
      /\ success \/ error = "aborted" => now = {}
  <2> HIDE DEF n
  <2>1. /\ now \subseteq old \cup {n + 1}
        /\ new.error # "breaker" /\ (new.status # "failed" \/ new.error \in Uncounted) => now = {}
    BY <1>0, <1>3, FailingGrows
  <2>2. IsFiniteSet(old) /\ Cardinality(old) \in Nat
    BY <1>0, FailingFinite
  <2> QED
    BY <1>2, <2>1, <2>2
<1>6. Cardinality(now) \in Nat /\ Cardinality(now) <= Cardinality(old) + 1
  <2> HIDE DEF now, old
  <2> HIDE DEF n
  <2> DEFINE more == old \cup {n + 1}
  <2>1. IsFiniteSet(more) /\ Cardinality(more) \in {Cardinality(old), Cardinality(old) + 1}
    BY <1>5, FS_AddElement
  <2>2. now \subseteq more
    BY <1>5
  <2> HIDE DEF more
  <2>3. Cardinality(now) <= Cardinality(more) /\ Cardinality(now) \in Nat /\ Cardinality(more) \in Nat
    BY <2>1, <2>2, FS_Subset, FS_CardinalityType
  <2> QED
    BY <1>5, <2>1, <2>3
<1>7. CASE breaker.state = "closed"
  <2>1. /\ breaker.count < CBMax
        /\ success \/ error = "aborted" \/ Cardinality(old) < breaker.count
    BY <1>0, <1>4, <1>7 DEF Guarded, Walking, Dispatching
  <2>2. Cardinality(now) <= breaker.count
    <3>1. now = {} => Cardinality(now) = 0
      BY FS_EmptySet
    <3> HIDE DEF now, old
    <3> QED
      BY <1>0, <1>5, <1>6, <2>1, <3>1
  <2>3. Cardinality(Failing(rows', Past')) <= breaker'.count
    BY <1>0, <1>4, <2>2
  <2> QED
    BY <1>0, <2>1, <2>3 DEF Guarded
<1>8. CASE breaker.state # "closed"
  BY <1>0, <1>8 DEF Guarded
<1> QED
  BY <1>7, <1>8

LEMMA GuardedKept == ASSUME TypeOK, Dispatched, Guarded, [Next]_vars PROVE Guarded'
<1>0. /\ rows \in Seq([phase: DOMAIN Units, status: {"running", "completed", "failed", "cancelled"},
                        error: Errors \cup Sentinels])
      /\ DOMAIN rows = 1..Len(rows) /\ Len(rows) \in Nat /\ CBMax \in Nat
  BY LimitsType DEF TypeOK
<1>1. CASE StartPass
  <2>1. CASE pc' = "finished"
    BY <2>1 DEF Guarded, Walking, Dispatching
  <2>2. CASE pc' = "phase" /\ rows' = Cleaned /\ breaker' = Seeded(Cleaned)
    <3>1. DOMAIN Cleaned = 1..Len(rows)
      BY <1>0 DEF Cleaned
    <3>2. Len(Cleaned) = Len(rows)
      BY <1>0, <3>1, LenProperties
    <3>3. Consecutive(Cleaned) < CBMax => Cardinality(Failing(Cleaned, Len(Cleaned))) <= Consecutive(Cleaned)
      BY <1>0, <3>1, <3>2, SeedCounts
    <3>4. Past' = Len(Cleaned) /\ Consecutive(Cleaned) \in Nat
      BY <1>0, <2>2, <3>1, <3>2, ConsecutiveNat DEF Past, Dispatching
    <3>5. breaker'.state = "closed" => Consecutive(Cleaned) < CBMax /\ breaker'.count = Consecutive(Cleaned)
      BY <1>0, <2>2, <3>4 DEF Seeded
    <3>6. breaker'.state = "closed" =>
             breaker'.count < CBMax /\ Cardinality(Failing(rows', Past')) <= breaker'.count
      BY <2>2, <3>3, <3>4, <3>5
    <3> QED
      BY <2>2, <3>6 DEF Guarded
  <2> QED
    BY <1>1, <2>1, <2>2 DEF StartPass
<1>2. CASE DispatchPhase
  <2>1. pc = "phase" /\ pc' = "check" /\ breaker' = breaker
    BY <1>2 DEF DispatchPhase
  <2>2. Len(rows') = Len(rows) + 1 /\ \A i \in 1..Len(rows) : rows[i] = rows'[i]
    <3>1. [phase |-> idx, status |-> "running", error |-> "none"]
             \in [phase: DOMAIN Units, status: {"running", "completed", "failed", "cancelled"},
                  error: Errors \cup Sentinels]
      BY <1>2, UnitAtHand DEF DispatchPhase, Sentinels
    <3> QED
      BY <1>0, <1>2, <3>1, AppendProperties DEF DispatchPhase
  <2>3. Past = Len(rows) /\ Past' = Len(rows)
    BY <1>0, <2>1, <2>2 DEF Past, Dispatching
  <2>4. Failing(rows', Past') = Failing(rows, Past)
    <3> DEFINE n == Len(rows)
    <3>1. n \in Nat /\ \A i \in 1..n : rows[i] = rows'[i]
      BY <1>0, <2>2
    <3> HIDE DEF n
    <3>2. Failing(rows', n) = Failing(rows, n)
      BY <3>1, FailingSame
    <3> QED
      BY <2>3, <3>2 DEF n
  <2> QED
    BY <2>1, <2>4 DEF Guarded, Walking, Dispatching
<1>3. CASE VerifyPhase \/ VerifyTask
  BY <1>3, GuardedByClosing
<1>4. CASE ~(StartPass \/ DispatchPhase \/ VerifyPhase \/ VerifyTask)
  BY <1>4, RowsUnchanged, GuardedInPlace
<1> QED
  BY <1>1, <1>2, <1>3, <1>4

LEMMA InitGuarded == Init => Guarded
BY DEF Init, Guarded, Walking, Dispatching

-----------------------------------------------------------------------------
LEMMA Inductive == Spec => []IInv
<1>1. IInv /\ [Next]_vars => IInv'
  BY TypeKept, RunningKept, RetryingKept, DispatchedKept, CountedKept, SuccessKept DEF IInv
<1> QED
  BY InitInv, <1>1, PTL DEF Spec

LEMMA GuardedAlways == Spec => []Guarded
<1>1. IInv /\ Guarded /\ [Next]_vars => Guarded'
  BY GuardedKept DEF IInv
<1> QED
  BY InitGuarded, Inductive, <1>1, PTL DEF Spec

(* Every variable stays within its type: a pass never counts more tasks    *)
(* than tasks.md has, a dispatch never makes more than Retries + 1         *)
(* attempts, a row always belongs to a unit (run_implement_tasks,          *)
(* dispatch_with_retry_async).                                             *)
THEOREM TypeCorrect == Spec => []TypeOK
BY Inductive, PTL DEF IInv

(* The node is done, and a row is completed without an error, only when    *)
(* tasks.md says so, however often claude lied, the daemon crashed or the  *)
(* epic was dispatched again (run_implement_tasks and                      *)
(* _verify_phase_completion); task by task, but for what claude deferred.  *)
THEOREM SuccessIsReal == Spec => []SuccessMeansDone
BY Inductive, PTL DEF IInv

(* At most one claude of a dispatch starts after the epic is cancelled     *)
(* (_make_abort_check in dispatch_with_retry_async).                       *)
THEOREM RetriesStop == Spec => []CancelStopsRetries
<1>1. IInv => CancelStopsRetries
  BY DEF IInv, Retrying, CancelStopsRetries
<1> QED
  BY Inductive, <1>1, PTL

(* Who starts a claude: the first attempt the breaker allows, and retries.  *)
LEMMA WhoStarts ==
    ASSUME [Next]_vars, StartsClaude
    PROVE  BreakerAllows \/ Retry
<1>1. CASE PassStep
  BY <1>1 DEF PassStep, StartPass, SkipPhase, DispatchPhase, EndPhases, VerifyPhase, VerifyTask, CloseRow,
              PassSucceeds, PassFails, Goto, persistent, StartsClaude
<1>2. CASE DispatchStep
  BY <1>2 DEF DispatchStep, BreakerRefuses, FoundDone, AbortRetries, Backoff, ClaudeSucceeds, ClaudeFails,
              Goto, StartsClaude
<1>3. CASE Marking \/ OtherStep \/ UNCHANGED vars
  BY <1>3 DEF Marking, ClaudeMarks, ClaudeDefers, OtherStep, Recover, CancelEpic, ReenableEpic, Crash,
              Restart, Goto, vars, StartsClaude
<1> QED
  BY <1>1, <1>2, <1>3, StepCases

(* After CBMax failures in a row no claude is started but for a half-open  *)
(* attempt, whatever crashes and passes came between: a breaker that is    *)
(* closed has counted every failure behind it, those it was seeded with    *)
(* included (CircuitBreaker, _seed_breaker_from_db, run_implement_tasks).  *)
THEOREM StormsStop == Spec => NoStorm
<1> DEFINE past == SubSeq(rows, 1, Len(rows) - 1)
<1>1. ASSUME IInv, Guarded, [Next]_vars, StartsClaude, Consecutive(past) = CBMax
      PROVE  \/ breaker'.state = "half-open"
             \/ \E i \in Latest(past) : past[i].error \in Uncounted
  <2> SUFFICES ASSUME breaker'.state # "half-open",
                      \A i \in Latest(past) : past[i].error \notin Uncounted
               PROVE  FALSE
    BY <1>1
  <2> DEFINE n == Len(rows) - 1
  <2>1. /\ pc \in {"check", "sleep"} /\ breaker.state = "closed"
        /\ breaker \in [state: {"closed", "open", "half-open"}, count: Nat]
    <3>1. breaker \in [state: {"closed", "open", "half-open"}, count: Nat]
      BY <1>1 DEF IInv, TypeOK
    <3>2. CASE BreakerAllows
      BY <3>1, <3>2 DEF BreakerAllows, Goto
    <3>3. CASE Retry
      BY <1>1, <3>1, <3>3 DEF Retry, Goto, Guarded
    <3> QED
      BY <1>1, <3>1, <3>2, <3>3, WhoStarts
  <2>2. /\ n \in Nat /\ Past = n
        /\ rows \in Seq([phase: DOMAIN Units, status: {"running", "completed", "failed", "cancelled"},
                          error: Errors \cup Sentinels])
    BY <1>1, <2>1 DEF IInv, TypeOK, Dispatched, Dispatching, Past
  <2>3. DOMAIN past = 1..n /\ \A i \in 1..n : rows[i] = past[i]
    <3>1. \A i \in 1..n : i \in DOMAIN rows
      BY <2>2
    <3> QED
      BY <2>2, <3>1
  <2>4. CBMax <= Cardinality(Failing(rows, n))
    <3> HIDE DEF past, n
    <3> QED
      BY <1>1, <2>2, <2>3, StormCounts
  <2>5. Cardinality(Failing(rows, n)) <= breaker.count /\ breaker.count < CBMax
    BY <1>1, <2>1, <2>2 DEF Guarded, Walking, Dispatching
  <2>6. Cardinality(Failing(rows, n)) \in Nat /\ CBMax \in Nat /\ breaker.count \in Nat
    BY <2>1, <2>2, FailingFinite, LimitsType
  <2> QED
    BY <2>4, <2>5, <2>6
<1>2. ASSUME IInv, Guarded, [Next]_vars PROVE [StartsClaude /\ Consecutive(past) = CBMax
         => \/ breaker'.state = "half-open"
            \/ \E i \in Latest(past) : past[i].error \in Uncounted]_vars
  BY <1>1, <1>2
<1> QED
  BY <1>2, Inductive, GuardedAlways, PTL DEF Spec, NoStorm
=============================================================================
