---------------------------- MODULE AttemptLoop ----------------------------
(***************************************************************************)
(* One logical run of the steady benchmark: run_attempt_loop of            *)
(* realsense_bench_common/attempts.py with the callbacks that              *)
(* steady_attempts.py and steady_benchmark.py give it, and the full reset  *)
(* of realsense_bench_common/recovery.py.                                  *)
(*                                                                         *)
(* A camera is clean from the moment both of its resets have succeeded     *)
(* until an attempt uses it.  A summary is what _classify_attempt reads of *)
(* it: success, the prefix of its error, and whether the measurement had   *)
(* started.  One attempt is one step here; its inside is NoiseTransition   *)
(* and SteadyProbe.                                                        *)
(***************************************************************************)
EXTENDS Integers, Sequences, FiniteSets

CONSTANTS
    Cameras,
    MaxAttempts,      \* --max-attempts-per-run
    RecoverOnFailure, \* --recover-on-failure is full-reset
    ResetBeforeRun,   \* --reset-before-run
    Rsusb             \* the RSUSB backend: prepare_rsusb_access may fail

ASSUME RunAssumption ==
    /\ IsFiniteSet(Cameras) /\ Cameras # {}
    /\ MaxAttempts \in Nat \ {0}
    /\ {RecoverOnFailure, ResetBeforeRun, Rsusb} \subseteq BOOLEAN

VARIABLES
    pc,
    attempt,   \* the loop variable
    summary,   \* of the attempt just made
    fresh,     \* history: that attempt began with every camera clean
    clean,     \* the cameras that are reset and unused since
    todo,      \* cameras the reset in progress has still to deal with
    unreset,   \* cameras it could not reset
    attempts,  \* the records of the attempts made
    recovery   \* aggregate_recoveries, once the loop is over

vars == <<pc, attempt, summary, fresh, clean, todo, unreset, attempts,
          recovery>>

\* What the error of a summary begins with.
ErrorPrefixes == {"scheduler_setup", "noise_setup", "noise_transition"}
Failure(prefix, measured) ==
    [success |-> FALSE, prefix |-> prefix, measured |-> measured]
Success == [success |-> TRUE, prefix |-> "none", measured |-> TRUE]
Summaries ==
    {Success} \cup {Failure(p, FALSE) : p \in ErrorPrefixes}
              \cup {Failure("other", m) : m \in BOOLEAN}

Phases == {"none", "startup", "measurement"} \cup ErrorPrefixes

\* _classify_attempt: the failure_phase, and the phases that are retried and
\* recovered from.
failure_phase(s) ==
    CASE s.success -> "none"
      [] ~s.success /\ s.prefix \in ErrorPrefixes -> s.prefix
      [] ~s.success /\ s.prefix \notin ErrorPrefixes ->
           IF s.measured THEN "measurement" ELSE "startup"
retryable_phases == {"startup", "noise_transition", "measurement"}

Records ==
    [success : BOOLEAN, phase : Phases, measured : BOOLEAN, fresh : BOOLEAN,
     recovered : {"none", "ok", "failed"}]

Init ==
    /\ pc = "begin" /\ attempt = 1
    /\ summary = Success /\ fresh = FALSE
    /\ clean \in SUBSET Cameras
    /\ todo = {} /\ unreset = {} /\ attempts = <<>> /\ recovery = "none"

BeginReset(where) == pc' = where /\ todo' = Cameras /\ unreset' = {}

\* The callback run_attempt: before attempt 1 the cameras are reset.
\* prepare_rsusb_access may raise, which ends the run.
run_attempt ==
    /\ pc = "begin"
    /\ IF ResetBeforeRun /\ attempt = 1
         THEN \/ BeginReset("prereset")
              \/ Rsusb /\ pc' = "raised" /\ UNCHANGED <<todo, unreset>>
         ELSE pc' = "run" /\ UNCHANGED <<todo, unreset>>
    /\ UNCHANGED <<attempt, summary, fresh, clean, attempts, recovery>>

\* _recover_camera: firmware reset, then reset of the composite USB device.
\* Both must succeed; a failure is noted and the next camera follows.
recover_camera(c) ==
    /\ pc \in {"prereset", "recover"} /\ c \in todo
    /\ todo' = todo \ {c}
    /\ \/ clean' = clean \cup {c} /\ UNCHANGED unreset
       \/ clean' = clean \ {c} /\ unreset' = unreset \cup {c}
    /\ UNCHANGED <<pc, attempt, summary, fresh, attempts, recovery>>

\* record_pre_run_reset_failure: the attempt counts as one that failed at
\* startup, and the probe is not run.
record_pre_run_reset_failure ==
    pc' = "classify" /\ summary' = Failure("other", FALSE) /\ fresh' = FALSE

\* Between usbreset and the wait for the serial, prepare_rsusb_access may
\* raise what _usb_reset does not catch: the cameras that remain are skipped.
\* Before the run the exception is taken for a failed reset, later it leaves
\* the loop.
recover_raises(c) ==
    /\ Rsusb /\ c \in todo
    /\ \/ pc = "prereset" /\ record_pre_run_reset_failure
       \/ pc = "recover" /\ pc' = "raised" /\ UNCHANGED <<summary, fresh>>
    /\ clean' = clean \ {c} /\ todo' = {}
    /\ UNCHANGED <<attempt, unreset, attempts, recovery>>

\* Faulty variant: a failed reset before the run is only logged.
ResetAnyway ==
    /\ pc = "prereset" /\ todo = {}
    /\ pc' = "run"
    /\ UNCHANGED <<attempt, summary, fresh, clean, todo, unreset, attempts,
                   recovery>>

\* reset_before_run raises unless every camera was reset.
reset_before_run ==
    /\ pc = "prereset" /\ todo = {}
    /\ IF unreset = {} THEN pc' = "run" /\ UNCHANGED <<summary, fresh>>
                       ELSE record_pre_run_reset_failure
    /\ UNCHANGED <<attempt, clean, todo, unreset, attempts, recovery>>

\* _run_attempt: the probe uses every camera and leaves a summary, or one is
\* made up for it; an exception of the preparation, the clean-up or the
\* analysis of a successful attempt ends the run.
RunProbe ==
    /\ pc = "run"
    /\ clean' = {} /\ fresh' = (clean = Cameras)
    /\ \/ pc' = "classify" /\ summary' \in Summaries
       \/ pc' = "raised" /\ UNCHANGED summary
    /\ UNCHANGED <<attempt, todo, unreset, attempts, recovery>>

\* The end of an iteration: the attempt is recorded, and repeated if its
\* failure is retryable and attempts are left.
Record(recovered) ==
    LET phase == failure_phase(summary) IN
    /\ attempts' = Append(attempts,
         [success |-> summary.success, phase |-> phase,
          measured |-> summary.measured, fresh |-> fresh,
          recovered |-> recovered])
    /\ IF phase \in retryable_phases /\ attempt < MaxAttempts
         THEN pc' = "begin" /\ attempt' = attempt + 1
         ELSE pc' = "finish" /\ UNCHANGED attempt

\* Faulty variant: the cameras are reset only when another attempt follows.
ClassifyAndResetForRetry ==
    /\ pc = "classify"
    /\ IF /\ failure_phase(summary) \in retryable_phases /\ RecoverOnFailure
          /\ attempt < MaxAttempts
         THEN BeginReset("recover") /\ UNCHANGED <<attempt, attempts>>
         ELSE Record("none") /\ UNCHANGED <<todo, unreset>>
    /\ UNCHANGED <<summary, fresh, clean, recovery>>

\* classify_attempt and the decision to recover.
classify_attempt ==
    /\ pc = "classify"
    /\ IF failure_phase(summary) \in retryable_phases /\ RecoverOnFailure
         THEN BeginReset("recover") /\ UNCHANGED <<attempt, attempts>>
         ELSE Record("none") /\ UNCHANGED <<todo, unreset>>
    /\ UNCHANGED <<summary, fresh, clean, recovery>>

\* recover_attempt returns; its failure does not prevent the retry.
recover_attempt ==
    /\ pc = "recover" /\ todo = {}
    /\ Record(IF unreset = {} THEN "ok" ELSE "failed")
    /\ UNCHANGED <<summary, fresh, clean, todo, unreset, recovery>>

\* The recoveries that were made, as indexes of attempts.
Recoveries == {i \in DOMAIN attempts : attempts[i].recovered # "none"}

\* Faulty variant: one successful recovery is enough.
AnyRecovered ==
    IF Recoveries = {} THEN "none"
    ELSE IF \E i \in Recoveries : attempts[i].recovered = "ok" THEN "ok"
    ELSE "failed"

aggregate_recoveries ==
    IF Recoveries = {} THEN "none"
    ELSE IF \A i \in Recoveries : attempts[i].recovered = "ok" THEN "ok"
    ELSE "failed"

\* run_steady_attempts writes the run's files from the last attempt.
Finish ==
    /\ pc = "finish"
    /\ pc' = "done" /\ recovery' = aggregate_recoveries
    /\ UNCHANGED <<attempt, summary, fresh, clean, todo, unreset, attempts>>

Terminated == pc \in {"done", "raised"} /\ UNCHANGED vars

Next ==
    \/ run_attempt \/ reset_before_run \/ RunProbe
    \/ \E c \in Cameras : recover_camera(c) \/ recover_raises(c)
    \/ classify_attempt \/ recover_attempt \/ Finish \/ Terminated

Spec == Init /\ [][Next]_vars

-----------------------------------------------------------------------------
TypeOK ==
    /\ pc \in {"begin", "prereset", "run", "classify", "recover", "finish",
               "done", "raised"}
    /\ attempt \in 1..MaxAttempts /\ summary \in Summaries
    /\ fresh \in BOOLEAN /\ recovery \in {"none", "ok", "failed"}
    /\ {clean, todo, unreset} \subseteq SUBSET Cameras
    /\ attempts \in Seq(Records)

LastRecord == attempts[Len(attempts)]

\* An attempt starts the probe on cameras that are all freshly reset, unless
\* the options ask for no reset there, or the reset before it is on record as
\* failed.
FreshStart ==
    pc = "run" =>
      \/ clean = Cameras
      \/ attempt = 1 /\ ~ResetBeforeRun
      \/ attempt > 1 /\ LastRecord.recovered = "failed"
      \/ attempt > 1 /\ ~RecoverOnFailure

\* The record of a finished run hides nothing: every attempt but the last
\* failed in a retryable phase; a run that gave up had used its attempts or
\* met a failure that is not retried; and a recovery reported as successful
\* means that every repetition started on freshly reset cameras.
HonestRecord ==
    pc = "done" =>
      /\ Len(attempts) = attempt
      /\ \A i \in 1..(attempt - 1) : attempts[i].phase \in retryable_phases
      /\ \/ LastRecord.success \/ attempt = MaxAttempts
         \/ LastRecord.phase \notin retryable_phases
      /\ recovery = "ok" => \A i \in 2..attempt : attempts[i].fresh

\* "The runner resets all cameras to protect the following campaign point":
\* after a last attempt that failed in a phase that is recovered from, the
\* cameras are reset or the record says that this failed.
CamerasLeftClean ==
    (/\ pc = "done" /\ RecoverOnFailure
     /\ LastRecord.phase \in retryable_phases)
      => clean = Cameras \/ LastRecord.recovered = "failed"

\* The inductive invariant.  CleanOrFailed: what a reset that is over
\* guarantees the attempt that follows it.
Running == {"begin", "prereset", "run", "classify", "recover", "raised"}
CleanOrFailed == clean = Cameras \/ LastRecord.recovered = "failed"
IInv ==
    /\ TypeOK
    /\ Len(attempts) = IF pc \in Running THEN attempt - 1 ELSE attempt
    /\ \A i \in 1..Len(attempts) :
         /\ i < attempt => attempts[i].phase \in retryable_phases
         /\ attempts[i].success => attempts[i].phase = "none"
         /\ RecoverOnFailure /\ attempts[i].phase \in retryable_phases =>
              attempts[i].recovered # "none"
         /\ attempts[i].recovered # "none" => RecoverOnFailure
         /\ RecoverOnFailure /\ i > 1 =>
              attempts[i].fresh \/ attempts[i - 1].recovered = "failed"
    /\ pc = "begin" => (attempt > 1 /\ RecoverOnFailure => CleanOrFailed)
    /\ pc = "prereset" => attempt = 1
    /\ pc \in {"prereset", "recover"} =>
         Cameras \ (todo \cup unreset) \subseteq clean
    /\ FreshStart
    /\ pc \in {"classify", "recover"} =>
         (attempt > 1 /\ RecoverOnFailure =>
            fresh \/ LastRecord.recovered = "failed")
    /\ pc = "recover" =>
         RecoverOnFailure /\ failure_phase(summary) \in retryable_phases
    /\ pc \in {"finish", "done"} =>
         /\ attempt = MaxAttempts \/ LastRecord.phase \notin retryable_phases
         /\ RecoverOnFailure /\ LastRecord.phase \in retryable_phases =>
              CleanOrFailed
    /\ pc = "done" => recovery = aggregate_recoveries

=============================================================================
