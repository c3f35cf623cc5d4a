---------------------------- MODULE AttemptProofs ----------------------------
(***************************************************************************)
(* Proofs about AttemptLoop, for any cameras and any number of attempts,   *)
(* and about the application of a scheduler profile in an attempt's probe  *)
(* (ProfileApplication), for any profile, any workers and any order in     *)
(* which they come and go.                                                 *)
(***************************************************************************)
EXTENDS AttemptLoop, ProfileApplication, FiniteSetTheorems, SequenceTheorems, TLAPS

(***************************************************************************)
(* The attempt loop.                                                       *)
(***************************************************************************)

\* A summary has one failure phase, and "none" exactly if it is a success.
LEMMA PhaseFacts ==
    ASSUME NEW s \in Summaries
    PROVE  /\ s.success \in BOOLEAN /\ s.measured \in BOOLEAN
           /\ failure_phase(s) \in Phases
           /\ s.success => failure_phase(s) = "none"
<1>1. CASE s = Success
  BY Zenon, <1>1 DEF Success, failure_phase, Phases
<1>2. CASE \E p \in ErrorPrefixes : s = Failure(p, FALSE)
  BY <1>2 DEF Failure, failure_phase, Phases
<1>3. CASE \E m \in BOOLEAN : s = Failure("other", m)
  BY <1>3 DEF Failure, failure_phase, Phases, ErrorPrefixes
<1> QED BY Zenon, <1>1, <1>2, <1>3 DEF Summaries

LEMMA InitInvariant == Init => IInv
<1> SUFFICES ASSUME Init PROVE IInv BY Zenon
<1>1. TypeOK
  <2>1. fresh \in BOOLEAN BY Zenon DEF Init
  <2>2. summary \in Summaries BY Zenon DEF Init, Summaries
  <2> QED BY <2>1, <2>2, RunAssumption DEF Init, TypeOK
<1>2. Len(attempts) = 0 BY Zenon DEF Init
<1> QED BY <1>1, <1>2 DEF Init, IInv, Running, FreshStart

\* The end of an iteration, whichever way it is reached.
LEMMA RecordStep ==
    ASSUME IInv, NEW r \in {"none", "ok", "failed"}, Record(r),
           pc \in {"classify", "recover"},
           UNCHANGED <<summary, fresh, clean, recovery>>,
           todo' \subseteq Cameras, unreset' \subseteq Cameras,
           r # "none" => RecoverOnFailure,
           RecoverOnFailure /\ failure_phase(summary) \in retryable_phases =>
             r = "failed" \/ (r = "ok" /\ clean = Cameras)
    PROVE  IInv'
<1> DEFINE rec == [success |-> summary.success,
                   phase |-> failure_phase(summary),
                   measured |-> summary.measured, fresh |-> fresh,
                   recovered |-> r]
           n == Len(attempts)
<1>1. TypeOK /\ n = attempt - 1 /\ n \in Nat /\ attempt \in 1..MaxAttempts
  BY DEF IInv, TypeOK, Running
<1>2. rec \in Records
  BY Zenon, <1>1, PhaseFacts DEF TypeOK, Records
<1>3. attempts' = Append(attempts, rec) BY Zenon DEF Record
<1>4. /\ attempts' \in Seq(Records) /\ Len(attempts') = attempt
      /\ attempts'[attempt] = rec
      /\ \A i \in 1..n : attempts'[i] = attempts[i]
  <2> HIDE DEF rec
  <2> QED BY <1>1, <1>2, <1>3 DEF TypeOK
<1>5. \/ /\ rec.phase \in retryable_phases /\ attempt < MaxAttempts
         /\ pc' = "begin" /\ attempt' = attempt + 1
      \/ /\ ~(rec.phase \in retryable_phases /\ attempt < MaxAttempts)
         /\ pc' = "finish" /\ attempt' = attempt
  BY Zenon DEF Record
<1>6. TypeOK'
  <2>1. attempt' \in 1..MaxAttempts BY <1>1, <1>5, RunAssumption
  <2> QED BY Zenon, <1>1, <1>4, <1>5, <2>1 DEF TypeOK
<1>7. rec.success => rec.phase = "none" BY Zenon, <1>1, PhaseFacts DEF TypeOK
<1>8. \A i \in 1..Len(attempts') :
        /\ i < attempt' => attempts'[i].phase \in retryable_phases
        /\ attempts'[i].success => attempts'[i].phase = "none"
        /\ RecoverOnFailure /\ attempts'[i].phase \in retryable_phases =>
             attempts'[i].recovered # "none"
        /\ attempts'[i].recovered # "none" => RecoverOnFailure
        /\ RecoverOnFailure /\ i > 1 =>
             attempts'[i].fresh \/ attempts'[i - 1].recovered = "failed"
  <2> TAKE i \in 1..Len(attempts')
  <2>1. CASE i = attempt
    <3>1. RecoverOnFailure /\ attempt > 1 =>
            fresh \/ attempts'[attempt - 1].recovered = "failed"
      BY <1>1, <1>4 DEF IInv, LastRecord
    <3>2. attempts'[i] = rec BY Zenon, <1>4, <2>1
    <3>3. attempt < attempt' => rec.phase \in retryable_phases BY <1>1, <1>5
    <3> QED BY <1>7, <2>1, <3>1, <3>2, <3>3
  <2>2. CASE i # attempt
    <3>1. i \in 1..n /\ attempts'[i] = attempts[i] /\ i < attempt
      BY <1>1, <1>4, <2>2
    <3>2. i > 1 => attempts'[i - 1] = attempts[i - 1] BY <1>1, <1>4, <3>1
    <3> QED BY Zenon, <3>1, <3>2 DEF IInv
  <2> QED BY Zenon, <2>1, <2>2
<1>9. LastRecord' = rec BY Zenon, <1>4 DEF LastRecord
<1>10. RecoverOnFailure /\ rec.phase \in retryable_phases => CleanOrFailed'
  BY Zenon, <1>9 DEF CleanOrFailed
<1>11. /\ pc' = "begin" => (attempt' > 1 /\ RecoverOnFailure => CleanOrFailed')
       /\ pc' = "finish" =>
            /\ \/ attempt' = MaxAttempts
               \/ LastRecord'.phase \notin retryable_phases
            /\ RecoverOnFailure /\ LastRecord'.phase \in retryable_phases =>
                 CleanOrFailed'
       /\ Len(attempts') = IF pc' \in Running THEN attempt' - 1 ELSE attempt'
  BY <1>1, <1>4, <1>5, <1>9, <1>10, RunAssumption DEF Running
<1> HIDE DEF rec, n
<1> QED BY Zenon, <1>5, <1>6, <1>8, <1>11 DEF IInv, FreshStart

LEMMA InvariantStep == IInv /\ [Next]_vars => IInv'
<1> SUFFICES ASSUME IInv, [Next]_vars PROVE IInv' BY Zenon
<1>1. /\ TypeOK /\ clean \subseteq Cameras /\ todo \subseteq Cameras
      /\ unreset \subseteq Cameras /\ attempt \in Nat
  BY RunAssumption DEF IInv, TypeOK
<1>2. CASE run_attempt
  <2>1. UNCHANGED <<attempt, summary, fresh, clean, attempts, recovery>>
    BY Zenon, <1>2 DEF run_attempt
  <2>2. /\ pc = "begin" /\ pc' \in {"prereset", "run", "raised"}
        /\ todo' \subseteq Cameras /\ unreset' \subseteq Cameras
        /\ pc' = "prereset" => attempt = 1 /\ todo' = Cameras
        /\ pc' = "run" => ~(ResetBeforeRun /\ attempt = 1)
    BY Zenon, <1>1, <1>2 DEF run_attempt, BeginReset
  <2>3. TypeOK' BY Zenon, <1>1, <2>1, <2>2 DEF TypeOK
  <2>4. FreshStart'
    BY <1>1, <2>1, <2>2 DEF IInv, FreshStart, CleanOrFailed, LastRecord, TypeOK
  <2> QED
    BY Zenon, <2>1, <2>2, <2>3, <2>4 DEF IInv, Running, LastRecord
<1>3. CASE \E c \in Cameras : recover_camera(c)
  <2>1. UNCHANGED <<pc, attempt, summary, fresh, attempts, recovery>>
    BY Zenon, <1>3 DEF recover_camera
  <2>2. /\ pc \in {"prereset", "recover"}
        /\ todo' \subseteq Cameras /\ unreset' \subseteq Cameras
        /\ clean' \subseteq Cameras
        /\ Cameras \ (todo' \cup unreset') \subseteq clean'
    BY Zenon, <1>1, <1>3 DEF recover_camera, IInv
  <2>3. TypeOK' BY Zenon, <1>1, <2>1, <2>2 DEF TypeOK
  <2> QED
    BY Zenon, <2>1, <2>2, <2>3 DEF IInv, Running, LastRecord, FreshStart
<1>4. CASE \E c \in Cameras : recover_raises(c)
  <2>1. UNCHANGED <<attempt, unreset, attempts, recovery>>
    BY Zenon, <1>4 DEF recover_raises
  <2>2. /\ todo' \subseteq Cameras /\ clean' \subseteq Cameras
        /\ pc \in {"prereset", "recover"} /\ pc' \in {"classify", "raised"}
        /\ pc' = "classify" => attempt = 1
    BY Zenon, <1>1, <1>4 DEF recover_raises, record_pre_run_reset_failure, IInv
  <2>3. TypeOK'
    <3>1. summary' \in Summaries /\ fresh' \in BOOLEAN
      BY Zenon, <1>1, <1>4
      DEF recover_raises, record_pre_run_reset_failure, TypeOK, Summaries
    <3> QED BY Zenon, <1>1, <2>1, <2>2, <3>1 DEF TypeOK
  <2> QED
    BY <1>1, <2>1, <2>2, <2>3
    DEF IInv, Running, LastRecord, FreshStart
<1>5. CASE reset_before_run
  <2>1. UNCHANGED <<attempt, clean, todo, unreset, attempts, recovery>>
    BY Zenon, <1>5 DEF reset_before_run
  <2>2. /\ pc = "prereset" /\ todo = {}
        /\ pc' \in {"run", "classify"} /\ attempt = 1
        /\ pc' = "run" => unreset = {}
    BY Zenon, <1>5 DEF reset_before_run, record_pre_run_reset_failure, IInv
  <2>3. TypeOK'
    <3>1. summary' \in Summaries /\ fresh' \in BOOLEAN
      BY Zenon, <1>1, <1>5
      DEF reset_before_run, record_pre_run_reset_failure, TypeOK, Summaries
    <3> QED BY Zenon, <1>1, <2>1, <2>2, <3>1 DEF TypeOK
  <2>4. pc' = "run" => clean = Cameras BY Zenon, <1>1, <2>2 DEF IInv
  <2> QED
    BY <1>1, <2>1, <2>2, <2>3, <2>4
    DEF IInv, Running, LastRecord, FreshStart
<1>6. CASE RunProbe
  <2>1. UNCHANGED <<attempt, todo, unreset, attempts, recovery>>
    BY Zenon, <1>6 DEF RunProbe
  <2>2. /\ pc = "run" /\ clean' = {} /\ fresh' = (clean = Cameras)
        /\ pc' \in {"classify", "raised"} /\ summary' \in Summaries
    BY Zenon, <1>1, <1>6 DEF RunProbe, TypeOK
  <2>3. fresh' \in BOOLEAN BY Zenon, <2>2
  <2>4. TypeOK' BY Zenon, <1>1, <2>1, <2>2, <2>3 DEF TypeOK
  <2>5. fresh' <=> clean = Cameras BY Zenon, <2>2
  <2>6. attempt > 1 /\ RecoverOnFailure =>
          fresh' \/ LastRecord.recovered = "failed"
    BY <1>1, <2>2, <2>5 DEF IInv, FreshStart
  <2> QED
    BY Zenon, <2>1, <2>2, <2>4, <2>6 DEF IInv, Running, LastRecord, FreshStart
<1>7. CASE classify_attempt
  <2>1. UNCHANGED <<summary, fresh, clean, recovery>> /\ pc = "classify"
    BY Zenon, <1>7 DEF classify_attempt
  <2>2. CASE failure_phase(summary) \in retryable_phases /\ RecoverOnFailure
    <3>1. /\ pc' = "recover" /\ todo' = Cameras /\ unreset' = {}
          /\ UNCHANGED <<attempt, attempts>>
      BY Zenon, <1>7, <2>2 DEF classify_attempt, BeginReset
    <3>2. TypeOK' BY Zenon, <1>1, <2>1, <3>1 DEF TypeOK
    <3> QED
      BY Zenon, <2>1, <2>2, <3>1, <3>2 DEF IInv, Running, LastRecord, FreshStart
  <2>3. CASE ~(failure_phase(summary) \in retryable_phases /\ RecoverOnFailure)
    <3>1. Record("none") /\ UNCHANGED <<todo, unreset>>
      BY Zenon, <1>7, <2>3 DEF classify_attempt
    <3> QED BY Zenon, <1>1, <2>1, <2>3, <3>1, RecordStep
  <2> QED BY Zenon, <2>2, <2>3
<1>8. CASE recover_attempt
  <2>1. /\ UNCHANGED <<summary, fresh, clean, todo, unreset, recovery>>
        /\ pc = "recover" /\ todo = {}
    BY Zenon, <1>8 DEF recover_attempt
  <2>2. RecoverOnFailure /\ (unreset = {} => clean = Cameras)
    BY Zenon, <1>1, <2>1 DEF IInv
  <2> DEFINE r == IF unreset = {} THEN "ok" ELSE "failed"
  <2>3. /\ r \in {"none", "ok", "failed"} /\ r # "none"
        /\ r = "failed" \/ (r = "ok" /\ clean = Cameras)
    BY Zenon, <2>2
  <2>4. Record(r) BY Zenon, <1>8 DEF recover_attempt
  <2>5. todo' \subseteq Cameras /\ unreset' \subseteq Cameras BY Zenon, <1>1, <2>1
  <2> HIDE DEF r
  <2> QED BY Zenon, <2>1, <2>2, <2>3, <2>4, <2>5, RecordStep
<1>9. CASE Finish
  <2>1. /\ pc = "finish" /\ pc' = "done" /\ recovery' = aggregate_recoveries
        /\ UNCHANGED <<attempt, summary, fresh, clean, todo, unreset, attempts>>
    BY Zenon, <1>9 DEF Finish
  <2>2. aggregate_recoveries \in {"none", "ok", "failed"}
        /\ aggregate_recoveries' = aggregate_recoveries
    BY Zenon, <2>1 DEF aggregate_recoveries, Recoveries
  <2>3. TypeOK' BY Zenon, <1>1, <2>1, <2>2 DEF TypeOK
  <2> QED
    BY Zenon, <2>1, <2>2, <2>3
    DEF IInv, Running, LastRecord, FreshStart, CleanOrFailed
<1>10. CASE UNCHANGED vars
  BY <1>1, <1>10
  DEF vars, IInv, TypeOK, LastRecord, FreshStart, CleanOrFailed,
      aggregate_recoveries, Recoveries
<1> QED
  BY Zenon, <1>2, <1>3, <1>4, <1>5, <1>6, <1>7, <1>8, <1>9, <1>10
  DEF Next, Terminated

\* The loop keeps its invariant through failed resets, exceptions and retries.
THEOREM Invariance == Spec => []IInv
BY InitInvariant, InvariantStep, PTL DEF Spec

\* No attempt starts on a camera nobody reset, unless the record says so.
THEOREM FreshStartHolds == Spec => []FreshStart
<1>1. IInv => FreshStart BY Zenon DEF IInv
<1> QED BY <1>1, Invariance, PTL

\* The record of a finished run tells which attempts were made, why the run
\* ended and whether its resets worked.
THEOREM HonestRecordHolds == Spec => []HonestRecord
<1>1. IInv => HonestRecord
  <2> SUFFICES ASSUME IInv, pc = "done" PROVE HonestRecord
    BY Zenon DEF HonestRecord
  <2>1. /\ attempt \in 1..MaxAttempts /\ MaxAttempts \in Nat
        /\ Len(attempts) = attempt /\ attempts \in Seq(Records)
    BY Zenon, RunAssumption DEF IInv, TypeOK, Running
  <2>2. ASSUME recovery = "ok", NEW i \in 2..attempt PROVE attempts[i].fresh
    <3>1. aggregate_recoveries = "ok" BY Zenon, <2>2 DEF IInv
    <3>2. /\ Recoveries # {}
          /\ \A j \in Recoveries : attempts[j].recovered = "ok"
      BY Zenon, <3>1 DEF aggregate_recoveries
    <3>3. DOMAIN attempts = 1..attempt BY <2>1
    <3>4. RecoverOnFailure BY Zenon, <2>1, <3>2, <3>3 DEF IInv, Recoveries
    <3>5. i - 1 \in 1..attempt /\ i - 1 < attempt /\ i \in 1..attempt /\ i > 1
      BY <2>1, <2>2
    <3>6. attempts[i - 1].recovered # "none" BY Zenon, <2>1, <3>4, <3>5 DEF IInv
    <3>7. attempts[i - 1].recovered = "ok"
      BY Zenon, <3>2, <3>3, <3>5, <3>6 DEF Recoveries
    <3> QED BY Zenon, <2>1, <3>4, <3>5, <3>7 DEF IInv
  <2> QED BY <2>1, <2>2 DEF IInv, HonestRecord
<1> QED BY <1>1, Invariance, PTL

\* The cameras are reset after a last failed attempt too.
THEOREM CamerasLeftCleanHolds == Spec => []CamerasLeftClean
<1>1. IInv => CamerasLeftClean BY Zenon DEF IInv, CamerasLeftClean, CleanOrFailed
<1> QED BY <1>1, Invariance, PTL

(***************************************************************************)
(* The application of a profile.                                           *)
(***************************************************************************)

LEMMA IdleNumbers == 0 \in Int /\ 0 \in Nat /\ 1 \in Nat
OBVIOUS

LEMMA ApplicationTypeInit == ApplicationInit => ApplicationTypeOK
<1> SUFFICES ASSUME ApplicationInit PROVE ApplicationTypeOK
  BY Zenon
<1>1. tasks \in Seq(Task) BY Zenon, EmptySeq DEF ApplicationInit
<1>2. <<>> \in Seq([tid : Nat, to : Parameter]) BY Zenon, EmptySeq
<1> QED BY <1>1, <1>2 DEF ApplicationInit, ApplicationTypeOK, Idle

\* A function on 1..n is a sequence.
LEMMA Tabulated ==
    ASSUME NEW S, NEW n \in Nat, NEW f \in [1..n -> S]
    PROVE  f \in Seq(S) /\ Len(f) = n
<1>1. f \in Seq(S) BY Zenon, SeqDef
<1> QED BY <1>1, LenProperties

LEMMA WorkerIsTask ==
    ASSUME NEW role \in Roles
    PROVE  Worker(role) \in Task
BY DEF Worker, Task, SchedPolicies

LEMMA WithIsTask ==
    ASSUME NEW task \in Task, NEW to \in Parameter
    PROVE  /\ With(task, to) \in Task
           /\ With(task, to).signature = task.signature
           /\ With(task, to).alive = task.alive
           /\ With(task, to).policy = to.policy
           /\ With(task, to).period = to.period
           /\ With(task, to).priority = to.priority
BY Zenon DEF With, Task, Parameter

LEMMA OtherIsParameter == Other \in Parameter /\ Other.policy = "other"
BY DEF Other, Parameter, SchedPolicies

LEMMA AliveIsFinite ==
    ASSUME tasks \in Seq(Task)
    PROVE  /\ IsFiniteSet(Alive) /\ Cardinality(Alive) \in Nat
           /\ Alive \subseteq Nat /\ Alive \subseteq DOMAIN tasks
<1>1. DOMAIN tasks = 1..Len(tasks) /\ Len(tasks) \in Nat
  BY Zenon, LenProperties
<1>2. IsFiniteSet(1..Len(tasks)) BY <1>1, FS_Interval
<1>3. Alive \in SUBSET (1..Len(tasks)) BY Zenon, <1>1 DEF Alive
<1>4. IsFiniteSet(Alive) BY Zenon, <1>2, <1>3, FS_Subset
<1> QED BY <1>1, <1>3, <1>4, FS_CardinalityType

LEMMA PeriodsAreFinite ==
    ASSUME rows \in Seq(Row)
    PROVE  /\ Periods \subseteq Nat
           /\ \A n \in Nat : /\ IsFiniteSet({p \in Periods : p < n})
                             /\ Cardinality({p \in Periods : p < n}) \in Nat
<1>1. Periods \subseteq Nat
  <2>1. \A i \in DOMAIN rows : rows[i] \in Row BY Zenon, LenProperties
  <2>2. \A i \in DOMAIN rows : rows[i].period \in Nat BY Zenon, <2>1 DEF Row
  <2> QED BY Zenon, <2>2 DEF Periods
<1>2. ASSUME NEW n \in Nat
      PROVE  /\ IsFiniteSet({p \in Periods : p < n})
             /\ Cardinality({p \in Periods : p < n}) \in Nat
  <2>1. {p \in Periods : p < n} \in SUBSET (0..n)
    <3>1. \A p \in Nat : p < n => p \in 0..n OBVIOUS
    <3> QED BY Zenon, <1>1, <3>1
  <2>2. IsFiniteSet(0..n) BY FS_Interval
  <2>3. IsFiniteSet({p \in Periods : p < n}) BY Zenon, <2>1, <2>2, FS_Subset
  <2> QED BY Zenon, <2>3, FS_CardinalityType
<1> QED BY Zenon, <1>1, <1>2

\* Shorter periods have higher priorities.
LEMMA RateMonotonic ==
    ASSUME rows \in Seq(Row), application.top \in Int,
           NEW i \in DOMAIN rows, NEW j \in DOMAIN rows
    PROVE  /\ Priority(rows[i]) \in Int
           /\ rows[i].period \in Nat
           /\ rows[i].period < rows[j].period
                <=> Priority(rows[i]) > Priority(rows[j])
<1> DEFINE B(n) == {p \in Periods : p < n}
<1>1. rows[i].period \in Nat /\ rows[j].period \in Nat
  <2>1. rows[i] \in Row /\ rows[j] \in Row BY Zenon, LenProperties
  <2> QED BY Zenon, <2>1 DEF Row
<1>2. rows[i].period \in Periods /\ rows[j].period \in Periods
  BY Zenon DEF Periods
<1>3. \A n \in Nat : IsFiniteSet(B(n)) /\ Cardinality(B(n)) \in Nat
  BY Zenon, PeriodsAreFinite
<1>4. Periods \subseteq Nat BY Zenon, PeriodsAreFinite
<1>5. ASSUME NEW m \in Nat, NEW n \in Nat, m <= n
      PROVE  Cardinality(B(m)) <= Cardinality(B(n))
  <2>1. \A p \in Nat : p < m => p < n BY <1>5
  <2>2. B(m) \in SUBSET B(n) BY Zenon, <1>4, <2>1
  <2> QED BY Zenon, <1>3, <2>2, FS_Subset
<1>6. ASSUME NEW m \in Nat, NEW n \in Nat, m < n, m \in Periods
      PROVE  Cardinality(B(m)) < Cardinality(B(n))
  <2>1. B(m) \in SUBSET B(n) /\ m \in B(n) /\ m \notin B(m)
    <3>1. \A p \in Nat : p < m => p < n BY <1>6
    <3>2. ~(m < m) OBVIOUS
    <3> QED BY Zenon, <1>4, <1>6, <3>1, <3>2
  <2>2. /\ Cardinality(B(m)) <= Cardinality(B(n))
        /\ Cardinality(B(n)) = Cardinality(B(m)) => B(n) = B(m)
    BY Zenon, <1>3, <2>1, FS_Subset
  <2>3. B(n) # B(m) BY Zenon, <2>1
  <2> HIDE DEF B
  <2> QED BY <1>3, <2>2, <2>3
<1>7. /\ Priority(rows[i]) = application.top - Cardinality(B(rows[i].period))
      /\ Priority(rows[j]) = application.top - Cardinality(B(rows[j].period))
  BY DEF Priority
<1> HIDE DEF B
<1> DEFINE m == rows[i].period
           n == rows[j].period
<1>8. /\ m \in Nat /\ n \in Nat
      /\ Cardinality(B(m)) \in Nat /\ Cardinality(B(n)) \in Nat
      /\ m < n => Cardinality(B(m)) < Cardinality(B(n))
      /\ n <= m => Cardinality(B(n)) <= Cardinality(B(m))
  BY Zenon, <1>1, <1>2, <1>3, <1>5, <1>6
<1> HIDE DEF m, n
<1>9. /\ Priority(rows[i]) = application.top - Cardinality(B(m))
      /\ Priority(rows[j]) = application.top - Cardinality(B(n))
  BY Zenon, <1>7 DEF m, n
<1>10. Priority(rows[i]) \in Int /\ (m < n <=> Priority(rows[i]) > Priority(rows[j]))
  BY <1>8, <1>9
<1> QED BY Zenon, <1>8, <1>10 DEF m, n

\* A row that has a match is given to a live worker of its role.
LEMMA AssignmentIsSound ==
    ASSUME ApplicationTypeOK, WellFormed, Fits, NEW i \in DOMAIN rows
    PROVE  /\ Assignment(rows[i]) \in [tid : Nat, to : Parameter]
           /\ Assignment(rows[i]).tid \in Alive
           /\ LiveKey(Assignment(rows[i]).tid) = Key(rows[i])
           /\ Assignment(rows[i]).to.policy = application.mode
           /\ Assignment(rows[i]).to.period = rows[i].period
           /\ application.mode = "fixed" =>
                Assignment(rows[i]).to.priority = Priority(rows[i])
<1>1. rows \in Seq(Row) BY Zenon DEF WellFormed
<1>2. rows[i].runtime \in Nat /\ rows[i].period \in Nat
  <2>1. rows[i] \in Row BY Zenon, <1>1, LenProperties
  <2> QED BY Zenon, <2>1 DEF Row
<1>3. Priority(rows[i]) \in Int
  <2>1. application.top \in Int BY Zenon DEF ApplicationTypeOK
  <2> QED BY Zenon, <1>1, <2>1, RateMonotonic
<1>4. application.mode \in {"deadline", "fixed"} BY Zenon DEF ApplicationTypeOK
<1> DEFINE tid == CHOOSE tid \in Matches(rows[i]) : TRUE
           to == IF application.mode = "deadline"
                 THEN [policy |-> "deadline", runtime |-> rows[i].runtime,
                       period |-> rows[i].period, priority |-> 0]
                 ELSE [policy |-> "fixed", runtime |-> 0,
                       period |-> rows[i].period, priority |-> Priority(rows[i])]
<1>5. tid \in Matches(rows[i]) BY Zenon DEF Fits
<1>6. tid \in Alive /\ LiveKey(tid) = Key(rows[i]) BY Zenon, <1>5 DEF Matches
<1>7. tid \in Nat
  BY Zenon, <1>6, AliveIsFinite DEF ApplicationTypeOK
<1>8. /\ to \in Parameter /\ to.policy = application.mode
      /\ to.period = rows[i].period
      /\ application.mode = "fixed" => to.priority = Priority(rows[i])
  BY <1>2, <1>3, <1>4 DEF Parameter, SchedPolicies
<1>9. Assignment(rows[i]) = [tid |-> tid, to |-> to] BY Zenon DEF Assignment
<1> HIDE DEF tid, to
<1> QED BY <1>6, <1>7, <1>8, <1>9

\* The worker of the next assignment.
LEMMA NextAssignee ==
    ASSUME ApplicationTypeOK, ApplicationInv, stage = "assign",
           application.next <= Len(application.assigned)
    PROVE  /\ application.next \in DOMAIN rows
           /\ application.next \in 1..Len(application.assigned)
           /\ application.assigned[application.next].tid \in DOMAIN tasks
           /\ application.assigned[application.next].to \in Parameter
           /\ tasks[application.assigned[application.next].tid] \in Task
<1>1. WellFormed /\ Planned /\ Progress BY Zenon DEF ApplicationInv
<1>2. /\ application.assigned \in Seq([tid : Nat, to : Parameter])
      /\ tasks \in Seq(Task)
  BY Zenon DEF ApplicationTypeOK
<1>3. DOMAIN rows = 1..Len(rows) /\ Len(rows) \in Nat
  BY Zenon, <1>1, LenProperties DEF WellFormed
<1>4. Len(application.assigned) = Len(rows) BY Zenon, <1>1 DEF Planned
<1>5. application.next \in 1..Len(rows) BY <1>1, <1>3, <1>4 DEF Progress
<1>6. application.assigned[application.next] \in [tid : Nat, to : Parameter]
  BY Zenon, <1>2, <1>4, <1>5, ElementOfSeq
<1>7. application.assigned[application.next].tid \in DOMAIN tasks
  BY Zenon, <1>1, <1>3, <1>5 DEF Planned
<1>8. \A tid \in DOMAIN tasks : tasks[tid] \in Task BY Zenon, <1>2, LenProperties
<1> QED BY Zenon, <1>3, <1>4, <1>5, <1>6, <1>7, <1>8

\* What the assignment loop leaves of the tasks.
LEMMA AssignKeepsTasks ==
    ASSUME ApplicationTypeOK, ApplicationInv, Assign
    PROVE  /\ tasks' \in Seq(Task) /\ DOMAIN tasks' = DOMAIN tasks
           /\ \A tid \in DOMAIN tasks :
                /\ tasks'[tid].signature = tasks[tid].signature
                /\ tasks'[tid].alive = tasks[tid].alive
<1> DEFINE a == application.assigned[application.next]
<1>1. /\ stage = "assign" /\ application.next <= Len(application.assigned)
      /\ \/ tasks' = [tasks EXCEPT ![a.tid] = With(@, a.to)]
         \/ tasks' = Restored
  BY Zenon DEF Assign
<1>2. /\ tasks \in Seq(Task) /\ DOMAIN tasks = 1..Len(tasks) /\ Len(tasks) \in Nat
      /\ \A tid \in DOMAIN tasks : tasks[tid] \in Task
  BY LenProperties DEF ApplicationTypeOK
<1>3. a.tid \in DOMAIN tasks /\ a.to \in Parameter BY Zenon, <1>1, NextAssignee
<1> HIDE DEF a
<1>4. CASE tasks' = [tasks EXCEPT ![a.tid] = With(@, a.to)]
  <2>1. /\ With(tasks[a.tid], a.to) \in Task
        /\ With(tasks[a.tid], a.to).signature = tasks[a.tid].signature
        /\ With(tasks[a.tid], a.to).alive = tasks[a.tid].alive
    BY Zenon, <1>2, <1>3, WithIsTask
  <2>2. tasks' = [tasks EXCEPT ![a.tid] = With(tasks[a.tid], a.to)]
    BY Zenon, <1>4
  <2>3. /\ tasks' \in Seq(Task) /\ Len(tasks') = Len(tasks)
        /\ \A j \in 1..Len(tasks) :
             tasks'[j] = IF j = a.tid THEN With(tasks[a.tid], a.to) ELSE tasks[j]
    BY <1>2, <1>3, <2>1, <2>2, ExceptSeq
  <2>4. DOMAIN tasks' = DOMAIN tasks BY Zenon, <1>2, <2>3, LenProperties
  <2> QED BY Zenon, <1>2, <2>1, <2>3, <2>4
<1>5. CASE tasks' = Restored
  <2>1. \A tid \in DOMAIN tasks :
          /\ With(tasks[tid], Other) \in Task
          /\ With(tasks[tid], Other).signature = tasks[tid].signature
          /\ With(tasks[tid], Other).alive = tasks[tid].alive
    BY Zenon, <1>2, WithIsTask, OtherIsParameter
  <2>2. /\ tasks' \in [1..Len(tasks) -> Task] /\ DOMAIN tasks' = DOMAIN tasks
        /\ \A tid \in DOMAIN tasks :
             tasks'[tid] = tasks[tid] \/ tasks'[tid] = With(tasks[tid], Other)
    BY Zenon, <1>2, <1>5, <2>1 DEF Restored
  <2> QED BY Zenon, <1>2, <2>1, <2>2, Tabulated
<1> QED BY Zenon, <1>1, <1>4, <1>5 DEF a

LEMMA ApplicationTypeStep ==
    ASSUME ApplicationTypeOK, ApplicationInv, [ApplicationNext]_applicationVars
    PROVE  ApplicationTypeOK'
<1>1. tasks \in Seq(Task) BY Zenon DEF ApplicationTypeOK
<1>2. CASE Prepare \/ load_profile \/ Return \/ UNCHANGED applicationVars
  BY Zenon, <1>2 DEF Prepare, load_profile, Return, applicationVars,
     ApplicationTypeOK
<1>3. CASE Launch
  <2>1. tasks' \in Seq(Task)
    <3>1. PICK crew \in Crews :
            tasks' = [i \in DOMAIN crew |-> Worker(crew[i])]
      BY Zenon, <1>3 DEF Launch
    <3>2. /\ Len(crew) \in Nat /\ DOMAIN crew = 1..Len(crew)
          /\ \A i \in 1..Len(crew) : crew[i] \in Roles
      BY Zenon, CrewsAssumption, LenProperties
    <3>3. tasks' \in [1..Len(crew) -> Task]
      BY Zenon, <3>1, <3>2, WorkerIsTask
    <3> QED BY Zenon, <3>2, <3>3, Tabulated
  <2>2. <<>> \in Seq([tid : Nat, to : Parameter]) BY Zenon, EmptySeq
  <2>3. CASE \E strict \in BOOLEAN :
               application' = [Idle EXCEPT !.mode = "deadline", !.strict = strict]
    <3>1. PICK strict \in BOOLEAN :
            application' = [Idle EXCEPT !.mode = "deadline", !.strict = strict]
      BY Zenon, <2>3
    <3> QED BY Zenon, <2>1, <2>2, <3>1, IdleNumbers DEF ApplicationTypeOK, Idle
  <2>4. CASE \E top \in TopPriorities :
               application' = [Idle EXCEPT !.mode = "fixed", !.top = top]
    <3>1. PICK top \in TopPriorities :
            application' = [Idle EXCEPT !.mode = "fixed", !.top = top]
      BY Zenon, <2>4
    <3> QED BY Zenon, <2>1, <2>2, <3>1, PrioritiesAssumption, IdleNumbers
            DEF ApplicationTypeOK, Idle
  <2> QED BY Zenon, <1>3, <2>3, <2>4 DEF Launch
<1>4. CASE Comes
  <2>1. PICK role \in Roles : tasks' = Append(tasks, Worker(role))
    BY Zenon, <1>4 DEF Comes
  <2>2. tasks' \in Seq(Task) BY Zenon, <1>1, <2>1, WorkerIsTask, AppendProperties
  <2> QED BY Zenon, <1>4, <2>2 DEF Comes, ApplicationTypeOK
<1>5. CASE Goes
  <2>1. PICK tid \in Alive : tasks' = [tasks EXCEPT ![tid].alive = FALSE]
    BY Zenon, <1>5 DEF Goes
  <2>2. tid \in 1..Len(tasks) /\ tasks[tid] \in Task
    BY Zenon, <1>1, LenProperties DEF Alive
  <2>3. [tasks[tid] EXCEPT !.alive = FALSE] \in Task BY Zenon, <2>2 DEF Task
  <2>4. tasks' \in Seq(Task) BY Zenon, <1>1, <2>1, <2>2, <2>3, ExceptSeq
  <2> QED BY Zenon, <1>5, <2>4 DEF Goes, ApplicationTypeOK
<1>6. CASE Count
  <2>1. Cardinality(Alive) \in Int BY <1>1, AliveIsFinite
  <2> QED BY Zenon, <1>6, <2>1 DEF Count, ApplicationTypeOK
<1>7. CASE Match
  <2>1. CASE UNCHANGED <<tasks, application>>
    BY Zenon, <2>1 DEF ApplicationTypeOK
  <2>2. CASE /\ Fits /\ UNCHANGED tasks
             /\ application' = [application EXCEPT !.seen = Alive, !.assigned =
                                   [i \in DOMAIN rows |-> Assignment(rows[i])]]
    <3>1. stage = "snapshot" /\ WellFormed BY Zenon, <1>7 DEF Match, ApplicationInv
    <3>2. \A i \in DOMAIN rows : Assignment(rows[i]) \in [tid : Nat, to : Parameter]
      BY Zenon, <1>1, <2>2, <3>1, AssignmentIsSound
    <3>3. Len(rows) \in Nat /\ DOMAIN rows = 1..Len(rows)
      BY Zenon, <3>1, LenProperties DEF WellFormed
    <3>4. [i \in DOMAIN rows |-> Assignment(rows[i])]
             \in Seq([tid : Nat, to : Parameter])
      BY Zenon, <3>2, <3>3, Tabulated
    <3>5. Alive \in SUBSET Nat BY Zenon, <1>1, AliveIsFinite
    <3> QED BY Zenon, <2>2, <3>4, <3>5 DEF ApplicationTypeOK
  <2> QED BY Zenon, <1>7, <2>1, <2>2 DEF Match
<1>8. CASE Assign
  <2>1. tasks' \in Seq(Task)
    BY Zenon, <1>8, AssignKeepsTasks
  <2>2. application' = application
          \/ application' = [application EXCEPT !.next = @ + 1]
    BY Zenon, <1>8 DEF Assign
  <2>3. application.next + 1 \in Nat BY DEF ApplicationTypeOK
  <2> QED BY Zenon, <2>1, <2>2, <2>3 DEF ApplicationTypeOK
<1> QED BY Zenon, <1>2, <1>3, <1>4, <1>5, <1>6, <1>7, <1>8 DEF ApplicationNext

LEMMA AssignStage ==
    /\ "assign" \notin {"load", "count", "snapshot"}
    /\ "assign" # "applied" /\ "assign" # "thrown"
BY Zenon

\* Threads that come and go disturb neither the plan nor its progress.
LEMMA TasksKept ==
    ASSUME ApplicationTypeOK, ApplicationInv, Applying,
           UNCHANGED <<stage, rows, application>>,
           DOMAIN tasks \subseteq DOMAIN tasks',
           \A tid \in DOMAIN tasks :
               /\ tasks'[tid].signature = tasks[tid].signature
               /\ tasks'[tid].policy = tasks[tid].policy
               /\ tasks'[tid].period = tasks[tid].period
               /\ tasks'[tid].priority = tasks[tid].priority,
           \A tid \in DOMAIN tasks' \ DOMAIN tasks : tasks'[tid].policy = "other"
    PROVE  ApplicationInv'
<1>1. WellFormed' BY Zenon DEF Applying, ApplicationInv, WellFormed, Key
<1>2. stage \notin {"load", "applied", "thrown"} BY Zenon DEF Applying
<1>3. CASE stage \in {"count", "snapshot"}
  <2>1. \A tid \in DOMAIN tasks' : tasks'[tid].policy = "other"
    BY Zenon, <1>3 DEF ApplicationInv
  <2>2. application.next = 1 BY Zenon, <1>3 DEF ApplicationInv
  <2>3. stage' \notin {"assign", "applied", "thrown"} BY Zenon, <1>3
  <2> QED BY Zenon, <1>1, <1>2, <2>1, <2>2, <2>3 DEF ApplicationInv
<1>4. CASE stage = "assign"
  <2>1. Planned /\ Progress BY Zenon, <1>4 DEF ApplicationInv
  <2>2. \A i \in DOMAIN rows : application.assigned[i].tid \in DOMAIN tasks
    BY Zenon, <2>1 DEF Planned
  <2>3. Planned'
    <3>1. \A i \in DOMAIN rows : Priority(rows[i])' = Priority(rows[i])
      BY Zenon DEF Priority, Periods
    <3>2. \A i \in DOMAIN rows :
            LET a == application.assigned[i]
            IN  /\ a.tid \in DOMAIN tasks' /\ a.tid \in application.seen
                /\ tasks'[a.tid].signature = rows[i].signature
                /\ a.to.policy = application.mode /\ a.to.period = rows[i].period
                /\ application.mode = "fixed" => a.to.priority = Priority(rows[i])
      BY Zenon, <2>1, <2>2 DEF Planned
    <3> QED BY Zenon, <2>1, <3>1, <3>2 DEF Planned
  <2>4. \A i \in 1..(application.next - 1) : i \in DOMAIN rows
    <3>1. DOMAIN rows = 1..Len(rows) /\ Len(rows) \in Nat
      BY Zenon, <1>4, LenProperties DEF ApplicationInv, WellFormed
    <3> QED BY <2>1, <3>1 DEF Progress
  <2>5. Progress'
    <3>1. \A i \in 1..(application.next - 1) :
            LET a == application.assigned[i]
            IN  /\ tasks'[a.tid].policy = a.to.policy
                /\ tasks'[a.tid].period = a.to.period
                /\ tasks'[a.tid].priority = a.to.priority
      BY Zenon, <2>1, <2>2, <2>4 DEF Progress
    <3>2. \A tid \in DOMAIN tasks' : tasks'[tid].policy # "other" => Changed(tid)
      BY Zenon, <2>1 DEF Progress
    <3>3. \A tid : Changed(tid)' <=> Changed(tid) BY Zenon DEF Changed
    <3> QED BY Zenon, <2>1, <3>1, <3>2, <3>3 DEF Progress
  <2>6. stage' = "assign" BY Zenon, <1>4
  <2> QED BY Zenon, <1>1, <2>3, <2>5, <2>6, AssignStage DEF ApplicationInv
<1> QED BY Zenon, <1>3, <1>4 DEF Applying

\* Rows with different identities are given to different workers.
LEMMA MatchPlans ==
    ASSUME ApplicationTypeOK, ApplicationInv, Match, stage' = "assign"
    PROVE  Planned' /\ Progress'
<1>1. /\ stage = "snapshot" /\ Fits /\ UNCHANGED <<rows, tasks>>
      /\ application' = [application EXCEPT !.seen = Alive, !.assigned =
                            [i \in DOMAIN rows |-> Assignment(rows[i])]]
  BY Zenon, AssignStage DEF Match
<1>2. /\ WellFormed /\ application.next = 1
      /\ \A tid \in DOMAIN tasks : tasks[tid].policy = "other"
  BY Zenon, <1>1 DEF ApplicationInv
<1>3. /\ application'.seen = Alive
      /\ application'.assigned = [i \in DOMAIN rows |-> Assignment(rows[i])]
      /\ application'.mode = application.mode /\ application'.top = application.top
      /\ application'.strict = application.strict /\ application'.next = 1
  BY Zenon, <1>1, <1>2 DEF ApplicationTypeOK
<1>4. /\ DOMAIN rows = 1..Len(rows) /\ Len(rows) \in Nat
  BY Zenon, <1>2, LenProperties DEF WellFormed
<1>5. tasks \in Seq(Task) BY Zenon DEF ApplicationTypeOK
<1>6. Len(application'.assigned) = Len(rows)
  <2>1. application'.assigned \in [1..Len(rows) -> [tid : Nat, to : Parameter]]
    <3>1. \A i \in DOMAIN rows : Assignment(rows[i]) \in [tid : Nat, to : Parameter]
      BY Zenon, <1>1, <1>2, AssignmentIsSound
    <3> QED BY Zenon, <1>3, <1>4, <3>1
  <2> QED BY Zenon, <1>4, <2>1, Tabulated
<1>7. ASSUME NEW i \in DOMAIN rows
      PROVE  /\ application'.assigned[i].tid \in Alive
             /\ LiveKey(application'.assigned[i].tid) = Key(rows[i])
             /\ application'.assigned[i].to.policy = application.mode
             /\ application'.assigned[i].to.period = rows[i].period
             /\ application.mode = "fixed" =>
                  application'.assigned[i].to.priority = Priority(rows[i])
  <2>1. application'.assigned[i] = Assignment(rows[i]) BY Zenon, <1>3
  <2> QED BY Zenon, <1>1, <1>2, <2>1, AssignmentIsSound
<1>8. \A i \in DOMAIN rows :
        tasks[application'.assigned[i].tid].signature = rows[i].signature
  BY Zenon, <1>7 DEF LiveKey, Key
<1>9. \A i, j \in DOMAIN rows :
        application'.assigned[i].tid = application'.assigned[j].tid => i = j
  <2>1. \A i \in DOMAIN rows :
          LiveKey(application'.assigned[i].tid) = Key(rows[i])
    BY Zenon, <1>7
  <2>2. ASSUME NEW i \in DOMAIN rows, NEW j \in DOMAIN rows,
               application'.assigned[i].tid = application'.assigned[j].tid
        PROVE  Key(rows[i]) = Key(rows[j])
    <3>1. LiveKey(application'.assigned[i].tid) = LiveKey(application'.assigned[j].tid)
      BY Zenon, <2>2
    <3> QED BY Zenon, <2>1, <3>1
  <2> QED BY Zenon, <1>2, <2>2 DEF WellFormed
<1>10. IsFiniteSet(Alive) /\ Alive \subseteq DOMAIN tasks
  BY Zenon, <1>5, AliveIsFinite
<1>11. \A i \in DOMAIN rows : Priority(rows[i])' = Priority(rows[i])
  BY <1>1, <1>3 DEF Priority, Periods
<1>12. application.strict => Cardinality(Alive) = Len(rows)
  BY Zenon, <1>1 DEF Fits
<1>13. Planned'
  BY ZenonT(30), <1>1, <1>3, <1>6, <1>7, <1>8, <1>9, <1>10, <1>11, <1>12
  DEF Planned
<1>14. application'.next \in 1..(Len(rows) + 1) /\ 1..(application'.next - 1) = {}
  BY <1>3, <1>4
<1>15. Progress' BY Zenon, <1>1, <1>2, <1>14 DEF Progress
<1> QED BY Zenon, <1>13, <1>15

LEMMA ThrownStage ==
    "thrown" \notin {"load", "count", "snapshot", "assign", "applied"}
BY Zenon

\* One more worker changed, or all of them put back.
LEMMA AssignStep ==
    ASSUME ApplicationTypeOK, ApplicationInv, Assign
    PROVE  ApplicationInv'
<1> DEFINE n == application.next
           a == application.assigned[n]
<1>1. stage = "assign" /\ n <= Len(application.assigned) /\ UNCHANGED rows
  BY Zenon DEF Assign
<1>2. WellFormed /\ Planned /\ Progress BY Zenon, <1>1 DEF ApplicationInv
<1>3. /\ n \in DOMAIN rows /\ a.tid \in DOMAIN tasks /\ a.to \in Parameter
      /\ tasks[a.tid] \in Task
  BY Zenon, <1>1, NextAssignee
<1>4. DOMAIN rows = 1..Len(rows) /\ Len(rows) \in Nat /\ n \in Nat
  BY <1>2, <1>3, LenProperties DEF WellFormed
<1>5. /\ DOMAIN tasks' = DOMAIN tasks
      /\ \A tid \in DOMAIN tasks : /\ tasks'[tid].signature = tasks[tid].signature
                                   /\ tasks'[tid].alive = tasks[tid].alive
  BY Zenon, AssignKeepsTasks
<1>6. WellFormed' BY Zenon, <1>1, <1>2 DEF WellFormed, Key
<1>7. ASSUME tasks' = [tasks EXCEPT ![a.tid] = With(@, a.to)],
             application' = [application EXCEPT !.next = @ + 1], UNCHANGED stage
      PROVE  ApplicationInv'
  <2>1. /\ application'.assigned = application.assigned
        /\ application'.seen = application.seen /\ application'.next = n + 1
        /\ application'.mode = application.mode /\ application'.top = application.top
        /\ application'.strict = application.strict
    BY Zenon, <1>7 DEF ApplicationTypeOK
  <2>2. /\ \A tid \in DOMAIN tasks \ {a.tid} : tasks'[tid] = tasks[tid]
        /\ tasks'[a.tid] = With(tasks[a.tid], a.to)
    BY Zenon, <1>3, <1>7
  <2>3. /\ tasks'[a.tid].policy = a.to.policy
        /\ tasks'[a.tid].period = a.to.period
        /\ tasks'[a.tid].priority = a.to.priority
    <3> HIDE DEF n, a
    <3> QED BY <1>3, <2>2, WithIsTask
  <2>4. Planned'
    <3>1. \A i \in DOMAIN rows : Priority(rows[i])' = Priority(rows[i])
      BY Zenon, <1>1, <2>1 DEF Priority, Periods
    <3>2. \A i \in DOMAIN rows :
            LET b == application.assigned[i]
            IN  /\ b.tid \in DOMAIN tasks' /\ b.tid \in application.seen
                /\ tasks'[b.tid].signature = rows[i].signature
                /\ b.to.policy = application.mode /\ b.to.period = rows[i].period
                /\ application.mode = "fixed" => b.to.priority = Priority(rows[i])
      BY Zenon, <1>2, <1>5 DEF Planned
    <3> HIDE DEF n, a
    <3> QED BY <1>1, <1>2, <2>1, <3>1, <3>2 DEF Planned
  <2>5. Progress'
    <3>1. ASSUME NEW i \in 1..n
          PROVE  LET b == application.assigned[i]
                 IN  /\ tasks'[b.tid].policy = b.to.policy
                     /\ tasks'[b.tid].period = b.to.period
                     /\ tasks'[b.tid].priority = b.to.priority
      <4>1. CASE i = n BY Zenon, <2>3, <4>1
      <4>2. CASE i # n
        <5>1. i \in 1..(n - 1) /\ i \in DOMAIN rows BY <1>3, <1>4, <4>2
        <5>2. application.assigned[i].tid # a.tid
          BY Zenon, <1>2, <1>3, <4>2, <5>1 DEF Planned
        <5>3. application.assigned[i].tid \in DOMAIN tasks
          BY Zenon, <1>2, <5>1 DEF Planned
        <5> QED BY Zenon, <1>2, <2>2, <5>1, <5>2, <5>3 DEF Progress
      <4> QED BY Zenon, <4>1, <4>2
    <3>2. n + 1 - 1 = n /\ n + 1 \in 1..(Len(rows) + 1) /\ n \in 1..n
          /\ 1..(n - 1) \subseteq 1..n
      BY <1>3, <1>4
    <3>3. ASSUME NEW tid \in DOMAIN tasks, tasks'[tid].policy # "other"
          PROVE  \E i \in 1..n : application.assigned[i].tid = tid
      <4>1. CASE tid = a.tid BY Zenon, <3>2, <4>1
      <4>2. CASE tid # a.tid
        <5>1. Changed(tid) BY Zenon, <1>2, <2>2, <3>3, <4>2 DEF Progress
        <5> QED BY Zenon, <3>2, <5>1 DEF Changed
      <4> QED BY Zenon, <4>1, <4>2
    <3>4. application'.next - 1 = n BY <2>1, <3>2
    <3> HIDE DEF n, a
    <3>5. \A tid \in DOMAIN tasks' : tasks'[tid].policy # "other" =>
            \E i \in 1..(application'.next - 1) : application'.assigned[i].tid = tid
      BY Zenon, <1>5, <2>1, <3>3, <3>4
    <3>6. application'.next \in 1..(Len(rows') + 1) BY Zenon, <1>1, <2>1, <3>2
    <3>7. \A i \in 1..(application'.next - 1) :
            LET b == application'.assigned[i]
            IN  /\ tasks'[b.tid].policy = b.to.policy
                /\ tasks'[b.tid].period = b.to.period
                /\ tasks'[b.tid].priority = b.to.priority
      BY Zenon, <2>1, <3>1, <3>4
    <3> QED BY Zenon, <3>5, <3>6, <3>7 DEF Progress, Changed
  <2> QED BY Zenon, <1>1, <1>6, <1>7, <2>4, <2>5, AssignStage DEF ApplicationInv
<1>8. ASSUME tasks' = Restored, stage' = "thrown"
      PROVE  ApplicationInv'
  <2>1. \A tid \in DOMAIN tasks :
          tasks[tid].alive => tasks'[tid].policy = "other"
    <3>1. \A tid \in DOMAIN tasks : With(tasks[tid], Other).policy = "other"
      <4>1. \A tid \in DOMAIN tasks : tasks[tid] \in Task
        BY LenProperties DEF ApplicationTypeOK
      <4> QED BY Zenon, <4>1, WithIsTask, OtherIsParameter
    <3> QED BY Zenon, <1>2, <1>8, <3>1 DEF Restored, Progress
  <2>2. \A tid \in Alive' : tasks'[tid].policy = "other"
    BY Zenon, <1>5, <2>1 DEF Alive
  <2> QED BY Zenon, <1>8, <2>2, ThrownStage DEF ApplicationInv
<1> QED BY Zenon, <1>7, <1>8 DEF Assign

LEMMA NothingChanged ==
    ASSUME UNCHANGED <<rows, tasks, application>>
    PROVE  /\ WellFormed => WellFormed'
           /\ Planned => Planned'
           /\ Progress => Progress'
           /\ Alive' = Alive
<1>1. Alive' = Alive BY Zenon DEF Alive
<1>2. WellFormed => WellFormed' BY Zenon DEF WellFormed, Key
<1>3. Planned => Planned'
  <2>1. \A i \in DOMAIN rows : Priority(rows[i])' = Priority(rows[i])
    BY Zenon DEF Priority, Periods
  <2> QED BY Zenon, <2>1 DEF Planned
<1>4. Progress => Progress' BY Zenon DEF Progress, Changed
<1> QED BY Zenon, <1>1, <1>2, <1>3, <1>4

LEMMA ApplicationStep ==
    ASSUME ApplicationTypeOK, ApplicationInv, [ApplicationNext]_applicationVars
    PROVE  ApplicationInv'
<1>1. CASE Prepare
  <2>1. stage' \in {"tracing", "profile", "refused"} BY Zenon, <1>1 DEF Prepare
  <2> QED BY Zenon, <2>1 DEF ApplicationInv
<1>2. CASE Launch
  <2>1. stage' = "load" BY Zenon, <1>2 DEF Launch
  <2>2. \A tid \in DOMAIN tasks' : tasks'[tid].policy = "other"
    <3>1. PICK crew \in Crews :
            tasks' = [i \in DOMAIN crew |-> Worker(crew[i])]
      BY Zenon, <1>2 DEF Launch
    <3> QED BY Zenon, <3>1 DEF Worker
  <2>3. application'.next = 1 BY Zenon, <1>2 DEF Launch, Idle
  <2> QED BY Zenon, <2>1, <2>2, <2>3 DEF ApplicationInv
<1>3. CASE load_profile
  <2>1. /\ stage = "load" /\ UNCHANGED <<rows, tasks, application>>
        /\ \/ stage' = "count" /\ WellFormed
           \/ stage' = "thrown"
    BY Zenon, <1>3 DEF load_profile
  <2>2. /\ \A tid \in DOMAIN tasks : tasks[tid].policy = "other"
        /\ application.next = 1
    BY Zenon, <2>1 DEF ApplicationInv
  <2>3. CASE stage' = "count" /\ WellFormed
    <3>1. WellFormed' BY Zenon, <2>1, <2>3 DEF WellFormed, Key
    <3> QED BY Zenon, <2>1, <2>2, <2>3, <3>1 DEF ApplicationInv
  <2>4. CASE stage' = "thrown"
    <3>1. \A tid \in Alive' : tasks'[tid].policy = "other"
      BY Zenon, <2>1, <2>2 DEF Alive
    <3> QED BY Zenon, <2>4, <3>1, ThrownStage DEF ApplicationInv
  <2> QED BY Zenon, <2>1, <2>3, <2>4
<1>4. CASE Comes
  <2>1. PICK role \in Roles : tasks' = Append(tasks, Worker(role))
    BY Zenon, <1>4 DEF Comes
  <2>2. tasks \in Seq(Task) BY Zenon DEF ApplicationTypeOK
  <2>3. /\ Len(tasks) \in Nat /\ DOMAIN tasks = 1..Len(tasks)
        /\ DOMAIN tasks' = 1..(Len(tasks) + 1)
        /\ \A i \in 1..Len(tasks) : tasks'[i] = tasks[i]
        /\ tasks'[Len(tasks) + 1] = Worker(role)
    BY <2>1, <2>2, WorkerIsTask, AppendProperties, LenProperties
  <2>4. Worker(role).policy = "other" BY Zenon DEF Worker
  <2>5. \A tid \in DOMAIN tasks' \ DOMAIN tasks : tid = Len(tasks) + 1
    BY <2>3
  <2>6. DOMAIN tasks \subseteq DOMAIN tasks' BY <2>3
  <2>7. Applying /\ UNCHANGED <<stage, rows, application>> BY Zenon, <1>4 DEF Comes
  <2> QED BY Zenon, <2>3, <2>4, <2>5, <2>6, <2>7, TasksKept
<1>5. CASE Goes
  <2>1. PICK tid \in Alive : tasks' = [tasks EXCEPT ![tid].alive = FALSE]
    BY Zenon, <1>5 DEF Goes
  <2>2. \A t \in DOMAIN tasks : tasks[t] \in Task
    BY LenProperties DEF ApplicationTypeOK
  <2>3. tid \in DOMAIN tasks /\ DOMAIN tasks' = DOMAIN tasks
        /\ tasks'[tid] = [tasks[tid] EXCEPT !.alive = FALSE]
        /\ \A t \in DOMAIN tasks \ {tid} : tasks'[t] = tasks[t]
    BY Zenon, <2>1 DEF Alive
  <2>4. /\ tasks'[tid].signature = tasks[tid].signature
        /\ tasks'[tid].policy = tasks[tid].policy
        /\ tasks'[tid].period = tasks[tid].period
        /\ tasks'[tid].priority = tasks[tid].priority
    BY Zenon, <2>2, <2>3 DEF Task
  <2>5. Applying /\ UNCHANGED <<stage, rows, application>> BY Zenon, <1>5 DEF Goes
  <2> QED BY Zenon, <2>3, <2>4, <2>5, TasksKept
<1>6. CASE Count
  <2>1. /\ stage = "count" /\ stage' = "snapshot" /\ UNCHANGED <<rows, tasks>>
        /\ application'.next = application.next
    BY Zenon, <1>6 DEF Count, ApplicationTypeOK
  <2>2. /\ WellFormed /\ application.next = 1
        /\ \A tid \in DOMAIN tasks : tasks[tid].policy = "other"
    BY Zenon, <2>1 DEF ApplicationInv
  <2>3. WellFormed' BY Zenon, <2>1, <2>2 DEF WellFormed, Key
  <2> QED BY Zenon, <2>1, <2>2, <2>3 DEF ApplicationInv
<1>7. CASE Match
  <2>1. stage = "snapshot" /\ UNCHANGED <<rows, tasks>> BY Zenon, <1>7 DEF Match
  <2>2. WellFormed /\ \A tid \in DOMAIN tasks : tasks[tid].policy = "other"
    BY Zenon, <2>1 DEF ApplicationInv
  <2>3. CASE stage' = "assign"
    <3>1. WellFormed' BY Zenon, <2>1, <2>2 DEF WellFormed, Key
    <3>2. Planned' /\ Progress' BY Zenon, <1>7, <2>3, MatchPlans
    <3> QED BY Zenon, <2>3, <3>1, <3>2, AssignStage DEF ApplicationInv
  <2>4. CASE stage' = "thrown"
    <3>1. \A tid \in Alive' : tasks'[tid].policy = "other"
      BY Zenon, <2>1, <2>2 DEF Alive
    <3> QED BY Zenon, <2>4, <3>1, ThrownStage DEF ApplicationInv
  <2> QED BY Zenon, <1>7, <2>3, <2>4 DEF Match
<1>8. CASE Assign BY Zenon, <1>8, AssignStep
<1>9. CASE Return
  <2>1. /\ stage = "assign" /\ stage' = "applied"
        /\ application.next > Len(application.assigned)
        /\ UNCHANGED <<rows, tasks, application>>
    BY Zenon, <1>9 DEF Return
  <2>2. WellFormed /\ Planned /\ Progress BY Zenon, <2>1 DEF ApplicationInv
  <2>3. application.next = Len(rows) + 1
    <3>1. Len(rows) \in Nat BY Zenon, <2>2, LenProperties DEF WellFormed
    <3>2. Len(application.assigned) = Len(rows) BY Zenon, <2>2 DEF Planned
    <3>3. application.next \in 1..(Len(rows) + 1) BY Zenon, <2>2 DEF Progress
    <3> QED BY <2>1, <3>1, <3>2, <3>3
  <2>4. WellFormed' /\ Planned' /\ Progress'
    BY Zenon, <2>1, <2>2, NothingChanged
  <2> QED BY Zenon, <2>1, <2>3, <2>4 DEF ApplicationInv
<1>10. CASE UNCHANGED applicationVars
  <2>1. UNCHANGED <<stage, rows, tasks, application>>
    BY Zenon, <1>10 DEF applicationVars
  <2>2. /\ WellFormed => WellFormed'
        /\ Planned => Planned'
        /\ Progress => Progress'
        /\ Alive' = Alive
    BY Zenon, <2>1, NothingChanged
  <2> QED BY Zenon, <2>1, <2>2 DEF ApplicationInv
<1> QED
  BY Zenon, <1>1, <1>2, <1>3, <1>4, <1>5, <1>6, <1>7, <1>8, <1>9, <1>10
  DEF ApplicationNext

\* The invariant of the application, whatever traces the profile was generated
\* from or whoever wrote it, for every crew and every number of threads that
\* come and go: what was planned when the threads were matched, and how much
\* of it has been applied (apply_deadline_profile,
\* apply_rate_monotonic_profile).
THEOREM ApplicationInvariance ==
    ApplicationSpec => [](ApplicationTypeOK /\ ApplicationInv)
<1>1. ApplicationInit => ApplicationInv BY Zenon DEF ApplicationInit, ApplicationInv
<1>2. ApplicationTypeOK /\ ApplicationInv /\ [ApplicationNext]_applicationVars
        => ApplicationTypeOK' /\ ApplicationInv'
  BY Zenon, ApplicationTypeStep, ApplicationStep
<1> QED BY <1>1, <1>2, ApplicationTypeInit, PTL DEF ApplicationSpec

LEMMA DistinctAssignees ==
    ASSUME WellFormed, Planned
    PROVE  /\ Cardinality(Assignees) = Len(rows)
           /\ application.strict => Assignees = application.seen
<1> DEFINE f == [i \in DOMAIN rows |-> application.assigned[i].tid]
<1>1. DOMAIN rows = 1..Len(rows) /\ Len(rows) \in Nat
  BY Zenon, LenProperties DEF WellFormed
<1>2. IsFiniteSet(DOMAIN rows) /\ Cardinality(DOMAIN rows) = Len(rows)
  <2>1. /\ IsFiniteSet(1..Len(rows))
        /\ Cardinality(1..Len(rows)) =
             IF 1 > Len(rows) THEN 0 ELSE Len(rows) - 1 + 1
    BY <1>1, FS_Interval
  <2> QED BY <1>1, <2>1
<1>3. f \in Surjection(DOMAIN rows, Assignees)
  BY Zenon DEF Surjection, Assignees
<1>4. f \in Injection(DOMAIN rows, Assignees)
  BY Zenon DEF Injection, IsInjective, Assignees, Planned
<1> HIDE DEF f
<1>5. Cardinality(Assignees) = Len(rows)
  BY Zenon, <1>2, <1>3, <1>4, FS_Surjection
<1>6. Assignees \in SUBSET application.seen BY Zenon DEF Assignees, Planned
<1>7. application.strict => Assignees = application.seen
  BY Zenon, <1>5, <1>6, FS_Subset DEF Planned
<1> QED BY Zenon, <1>5, <1>7

\* Whatever the profile, the live threads and the kernel's answers, applying
\* a profile changes all the workers it names or none.
THEOREM AllOrNothingHolds == ApplicationSpec => []AllOrNothing
<1>1. ApplicationTypeOK /\ ApplicationInv => AllOrNothing
  <2> SUFFICES ASSUME ApplicationTypeOK, ApplicationInv PROVE AllOrNothing
    BY Zenon
  <2>1. stage = "thrown" => \A tid \in Alive : tasks[tid].policy = "other"
    BY Zenon DEF ApplicationInv
  <2>2. ASSUME stage = "applied"
        PROVE  /\ WellFormed /\ Planned /\ Progress
               /\ application.next - 1 = Len(rows)
               /\ DOMAIN rows = 1..Len(rows)
    <3>1. WellFormed /\ Planned /\ Progress /\ application.next = Len(rows) + 1
      BY Zenon, <2>2 DEF ApplicationInv
    <3>2. Len(rows) \in Nat /\ DOMAIN rows = 1..Len(rows)
      BY Zenon, <3>1, LenProperties DEF WellFormed
    <3> QED BY <3>1, <3>2
  <2>3. stage = "applied" =>
          \A i \in DOMAIN rows :
             LET tid == application.assigned[i].tid
             IN  /\ tasks[tid].signature = rows[i].signature
                 /\ tasks[tid].alive => tasks[tid].policy = application.mode
    BY Zenon, <2>2 DEF Planned, Progress
  <2>4. ASSUME stage = "applied", application.mode = "fixed",
               NEW t \in Alive, NEW u \in Alive,
               tasks[t].policy = "fixed", tasks[u].policy = "fixed"
        PROVE  tasks[t].period < tasks[u].period
                 <=> tasks[t].priority > tasks[u].priority
    <3>1. t \in DOMAIN tasks /\ u \in DOMAIN tasks BY Zenon DEF Alive
    <3>2. "fixed" # "other" BY Zenon
    <3>3. PICK i \in DOMAIN rows : application.assigned[i].tid = t
      BY Zenon, <2>2, <2>4, <3>1, <3>2 DEF Progress, Changed
    <3>4. PICK j \in DOMAIN rows : application.assigned[j].tid = u
      BY Zenon, <2>2, <2>4, <3>1, <3>2 DEF Progress, Changed
    <3>5. /\ tasks[t].period = rows[i].period /\ tasks[u].period = rows[j].period
          /\ tasks[t].priority = Priority(rows[i])
          /\ tasks[u].priority = Priority(rows[j])
      BY Zenon, <2>2, <2>4, <3>3, <3>4 DEF Planned, Progress
    <3>6. rows \in Seq(Row) BY Zenon, <2>2, <2>4 DEF WellFormed
    <3>7. application.top \in Int BY Zenon DEF ApplicationTypeOK
    <3>8. rows[i].period < rows[j].period
            <=> Priority(rows[i]) > Priority(rows[j])
      BY Zenon, <3>6, <3>7, RateMonotonic
    <3> QED BY Zenon, <3>5, <3>8
  <2> QED BY Zenon, <2>1, <2>2, <2>3, <2>4, DistinctAssignees DEF AllOrNothing
<1> QED BY <1>1, ApplicationInvariance, PTL
==============================================================================
