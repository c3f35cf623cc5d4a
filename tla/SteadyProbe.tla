---------------------------- MODULE SteadyProbe ----------------------------
(***************************************************************************)
(* The steady-state probe, src/src/realsense_steady_probe.cpp.             *)
(*                                                                         *)
(* One main thread starts a pipeline per camera, passes the scheduler,     *)
(* warm-up and noise-gate barriers, runs one measurement and reports.      *)
(* Each camera has a thread of its own: wait_loop in "wait" delivery, the  *)
(* library's callback thread in "callback" delivery.  They share           *)
(* shared_control.  A critical section of control.mutex or metrics.mutex   *)
(* is one step; every load or store of an atomic is a step of its own      *)
(* unless no other thread can tell it from its neighbour.                  *)
(*                                                                         *)
(* Frames, timestamps and messages are abstracted: a delivery is healthy   *)
(* or not and storable or not, a timestamp is before, during or after the  *)
(* measured interval, an error is the kind its prefix tells apart.         *)
(***************************************************************************)
EXTENDS Integers, Sequences, FiniteSets

CONSTANTS
    Cameras,        \* the selected serials, as a set
    Serials,        \* the same, in the order of the command line
    Master, Slaves, \* hardware-sync roles: one serial, a sequence of serials
    NoSerial,       \* "no master": hardware synchronisation is off
    Callback,       \* delivery == "callback" (otherwise "wait")
    Modeled,        \* a SCHED_DEADLINE or rate-monotonic profile is given
    Gated,          \* warmup_ready_file and measurement_start_gate are given
    FixedDuration,  \* measurement_duration_ms > 0
    Frames,         \* measured deliveries per camera (when not FixedDuration)
    WarmupFrames,
    HealthWindow,   \* warmup_health_window_frames, or max(2, fps) when zero
    ApplyAfter,     \* scheduler_apply_threshold(opts)
    MaxWarmups, MaxDeliveries, MaxTimeouts  \* bounds on what the cameras do

(***************************************************************************)
(* What parse_args and select_serials leave of the options.                *)
(***************************************************************************)
ASSUME OptionsAssumption ==
    /\ IsFiniteSet(Cameras) /\ Cameras # {} /\ NoSerial \notin Cameras
    /\ Serials \in Seq(Cameras) /\ Slaves \in Seq(Cameras)
    /\ \/ Master = NoSerial
       \/ /\ Cameras = {Slaves[i] : i \in 1..Len(Slaves)} \cup {Master}
          /\ \A i \in 1..Len(Slaves) : Slaves[i] # Master
    /\ {Callback, Modeled, Gated, FixedDuration} \subseteq BOOLEAN
    /\ Frames \in Nat \ {0}
    /\ {WarmupFrames, ApplyAfter} \subseteq Nat /\ HealthWindow \in Nat \ {0}
    /\ {MaxWarmups, MaxDeliveries, MaxTimeouts} \subseteq Nat
    /\ Modeled => ApplyAfter < WarmupFrames

VARIABLES
    mainPc,     \* where the main thread is
    started,    \* cameras whose pipe.start returned
    stopped,    \* cameras whose pipe.stop returned
    summary,    \* the "success" field of the report, once written
    \* shared_control
    enabled, transition, stop, failed, error,
    readyCount, warmedCount, completedCount,
    \* camera threads
    pc, saw, began, stamp, pending, message,
    \* camera_metrics
    ready, warmed, completed, warmups, deliveries, preTimeouts, lateTimeouts,
    \* the environment: the clock, and the runner's two transition files
    clock, gate

mainVars    == <<mainPc, started, stopped, summary>>
flagVars    == <<enabled, transition>>
failureVars == <<stop, failed, error>>
countVars   == <<readyCount, warmedCount, completedCount>>
threadVars  == <<pc, saw, began, stamp, pending, message>>
metricVars  == <<ready, warmed, completed, warmups, deliveries,
                 preTimeouts, lateTimeouts>>
envVars     == <<clock, gate>>
vars == <<mainVars, flagVars, failureVars, countVars, threadVars,
          metricVars, envVars>>

-----------------------------------------------------------------------------
(* Vocabulary.                                                             *)

\* The kinds of control.error, as far as a reader of the summary can tell.
FrameErrors == {"frame", "transition"}
ErrorKinds ==
    FrameErrors \cup {"health", "storage", "scheduler_timeout",
        "scheduler_setup", "warm_timeout", "noise_setup", "measure_timeout",
        "stop", "restore"}

Terminal == {"exited", "unwound", "aborted"}
AfterWarm ==
    {"publish", "transition", "gate", "gateHalt", "leave", "begin", "enable",
     "measure", "measureHalt", "disable"}
Closing == {"stop", "stopping", "join", "restore", "report"}
MainPcs ==
    {"configure", "start", "spawn", "ready", "apply", "warm"}
        \cup AfterWarm \cup Closing \cup Terminal
ThreadPcs ==
    {"off", "top", "load", "wait", "timedout", "record", "publish", "fail",
     "halt", "done"}

\* Faulty variant: the master starts where the command line puts it.
StartInCommandLineOrder == Serials

pipeline_start_order ==
    IF Master = NoSerial THEN Serials ELSE Append(Slaves, Master)

\* c comes before d in start_order.
Precedes(c, d) ==
    \E i, j \in 1..Len(pipeline_start_order) :
        i < j /\ pipeline_start_order[i] = c /\ pipeline_start_order[j] = d

\* The first warm-up delivery that counts for the freshness check, and
\* whether the check can pass at the n-th one: every stream must be seen twice.
HealthStart ==
    WarmupFrames - (IF HealthWindow < WarmupFrames
                    THEN HealthWindow ELSE WarmupFrames) + 1
HealthErrors(n) ==
    IF n < HealthStart THEN {FALSE}
    ELSE IF n >= WarmupFrames /\ n <= HealthStart THEN {TRUE}
    ELSE BOOLEAN

\* Where a camera thread goes on once record_delivery has returned: a callback
\* returns to the library, wait_loop breaks when the camera is complete.
AfterDelivery(isComplete) ==
    IF Callback THEN "wait" ELSE IF isComplete THEN "done" ELSE "top"

\* Faulty variant: a barrier passes with the first camera.
SomeReported(count) == count > 0

\* The predicate of main's three barriers, on their counters.
AllReported(count) == count = Cardinality(Cameras)

\* Faulty variant: deliveries are counted until measurement_enabled is cleared.
NeverPastDeadline(c) == FALSE

\* A delivery that record_delivery finds past measurement_deadline_ns.
PastDeadline(c) == FixedDuration /\ stamp[c] = "after"

\* The control.mutex section of set_failure, called by the main thread.
FailMain(kind) ==
    /\ failed' = TRUE
    /\ error' = IF failed THEN error ELSE kind

Alive == mainPc \notin Terminal

TypeOK ==
    /\ mainPc \in MainPcs
    /\ started \subseteq Cameras /\ stopped \subseteq Cameras
    /\ summary \in {"none", "success", "failure"}
    /\ enabled \in BOOLEAN /\ transition \in BOOLEAN
    /\ stop \in BOOLEAN /\ failed \in BOOLEAN
    /\ error \in ErrorKinds \cup {"none"}
    /\ readyCount \in Nat /\ warmedCount \in Nat /\ completedCount \in Nat
    /\ pc \in [Cameras -> ThreadPcs]
    /\ saw \in [Cameras -> BOOLEAN]
    /\ began \in [Cameras -> {"before", "during", "after"}]
    /\ stamp \in [Cameras -> {"before", "during", "after"}]
    /\ pending \in [Cameras -> SUBSET {"ready", "warm", "complete"}]
    /\ message \in [Cameras -> ErrorKinds \cup {"none"}]
    /\ ready \in [Cameras -> BOOLEAN]
    /\ warmed \in [Cameras -> BOOLEAN]
    /\ completed \in [Cameras -> BOOLEAN]
    /\ warmups \in [Cameras -> Nat]
    /\ deliveries \in [Cameras -> Nat]
    /\ preTimeouts \in [Cameras -> Nat]
    /\ lateTimeouts \in [Cameras -> Nat]
    /\ clock \in {"before", "during", "after"}
    /\ gate \in {"closed", "open", "error"}

Init ==
    /\ mainPc = "configure" /\ started = {} /\ stopped = {}
    /\ summary = "none"
    /\ enabled = FALSE /\ transition = FALSE
    /\ stop = FALSE /\ failed = FALSE /\ error = "none"
    /\ readyCount = 0 /\ warmedCount = 0 /\ completedCount = 0
    /\ pc = [c \in Cameras |-> "off"]
    /\ saw = [c \in Cameras |-> FALSE]
    /\ began = [c \in Cameras |-> "before"]
    /\ stamp = [c \in Cameras |-> "before"]
    /\ pending = [c \in Cameras |-> {}]
    /\ message = [c \in Cameras |-> "none"]
    /\ ready = [c \in Cameras |-> FALSE]
    /\ warmed = [c \in Cameras |-> FALSE]
    /\ completed = [c \in Cameras |-> FALSE]
    /\ warmups = [c \in Cameras |-> 0]
    /\ deliveries = [c \in Cameras |-> 0]
    /\ preTimeouts = [c \in Cameras |-> 0]
    /\ lateTimeouts = [c \in Cameras |-> 0]
    /\ clock = "before" /\ gate = "closed"

-----------------------------------------------------------------------------
(* The main thread: session set-up and pipeline start.                     *)

\* The hardware_sync_session constructor; it throws before any pipeline runs.
ConfigureSync ==
    /\ mainPc = "configure"
    /\ \/ mainPc' = "start"
       \/ Master # NoSerial /\ mainPc' = "unwound"
    /\ UNCHANGED <<started, stopped, summary, flagVars, failureVars,
                   countVars, threadVars, metricVars, envVars>>

\* pipe.start in start_order; callbacks may arrive as soon as it returns, and
\* an rs2::error unwinds main.
StartPipeline(c) ==
    /\ mainPc = "start"
    /\ c \notin started /\ \A d \in Cameras : Precedes(d, c) => d \in started
    /\ \/ /\ started' = started \cup {c}
          /\ pc' = [pc EXCEPT ![c] = IF Callback THEN "wait" ELSE "off"]
          /\ mainPc' = IF started' # Cameras THEN "start"
                       ELSE IF ~Callback THEN "spawn"
                       ELSE IF Modeled THEN "ready" ELSE "warm"
       \/ mainPc' = "unwound" /\ UNCHANGED <<started, pc>>
    /\ UNCHANGED <<stopped, summary, flagVars, failureVars, countVars, saw,
                   began, stamp, pending, message, metricVars, envVars>>

\* In "wait" delivery one wait_loop thread is created per camera, in turn.
SpawnWaitLoop(c) ==
    /\ mainPc = "spawn" /\ pc[c] = "off"
    /\ pc' = [pc EXCEPT ![c] = "top"]
    /\ mainPc' = IF \E d \in Cameras \ {c} : pc[d] = "off" THEN "spawn"
                 ELSE IF Modeled THEN "ready" ELSE "warm"
    /\ UNCHANGED <<started, stopped, summary, flagVars, failureVars,
                   countVars, saw, began, stamp, pending, message, metricVars,
                   envVars>>

-----------------------------------------------------------------------------
(* The main thread: the barriers.                                          *)

\* The modeled-scheduler barrier: cv.wait_for, with its time-out.
AwaitSchedulerReady ==
    /\ mainPc = "ready"
    /\ \/ /\ failed \/ AllReported(readyCount)
          /\ mainPc' = "apply" /\ UNCHANGED failureVars
       \/ /\ ~failed /\ ~AllReported(readyCount)
          /\ FailMain("scheduler_timeout") /\ UNCHANGED stop
          /\ mainPc' = "stop"
    /\ UNCHANGED <<started, stopped, summary, flagVars, countVars, threadVars,
                   metricVars, envVars>>

\* apply_deadline_profile or apply_rate_monotonic_profile; they throw.
ApplyProfile ==
    /\ mainPc = "apply"
    /\ \/ failed /\ mainPc' = "stop" /\ UNCHANGED failureVars
       \/ ~failed /\ mainPc' = "warm" /\ UNCHANGED failureVars
       \/ /\ ~failed /\ mainPc' = "stop"
          /\ FailMain("scheduler_setup") /\ UNCHANGED stop
    /\ UNCHANGED <<started, stopped, summary, flagVars, countVars, threadVars,
                   metricVars, envVars>>

\* The global warm-up barrier.
AwaitWarm ==
    /\ mainPc = "warm"
    /\ \/ failed /\ mainPc' = "stop" /\ UNCHANGED failureVars
       \/ /\ ~failed /\ AllReported(warmedCount)
          /\ mainPc' = "publish" /\ UNCHANGED failureVars
       \/ /\ ~failed /\ ~AllReported(warmedCount)
          /\ FailMain("warm_timeout") /\ UNCHANGED stop
          /\ mainPc' = "stop"
    /\ UNCHANGED <<started, stopped, summary, flagVars, countVars, threadVars,
                   metricVars, envVars>>

\* write_atomic_timestamp(warmup_ready_file); it throws, which unwinds main or,
\* when there are wait threads to be joined, terminates the process.
PublishWarmupReady ==
    /\ mainPc = "publish"
    /\ \/ failed /\ mainPc' = "stop"
       \/ ~failed /\ ~Gated /\ mainPc' = "begin"
       \/ ~failed /\ Gated /\ mainPc' = "transition"
       \/ /\ ~failed /\ Gated
          /\ mainPc' = IF Callback THEN "unwound" ELSE "aborted"
    /\ UNCHANGED <<started, stopped, summary, flagVars, failureVars,
                   countVars, threadVars, metricVars, envVars>>

EnterTransition ==
    /\ mainPc = "transition"
    /\ mainPc' = "gate" /\ transition' = TRUE
    /\ UNCHANGED <<started, stopped, summary, enabled, failureVars, countVars,
                   threadVars, metricVars, envVars>>

\* Faulty variant: the gate is awaited without a time-out.
GateWithoutTimeout ==
    /\ mainPc = "gate"
    /\ \/ /\ failed \/ gate = "open"
          /\ mainPc' = "leave" /\ UNCHANGED failureVars
       \/ /\ ~failed /\ gate = "error" /\ mainPc' = "gateHalt"
          /\ FailMain("noise_setup") /\ UNCHANGED stop
    /\ UNCHANGED <<started, stopped, summary, flagVars, countVars, threadVars,
                   metricVars, envVars>>

\* One round of wait_for_measurement_gate: a failure elsewhere, the runner's
\* error file, the gate, or the gate time-out, in that order.
wait_for_measurement_gate ==
    /\ mainPc = "gate"
    /\ \/ failed /\ mainPc' = "leave" /\ UNCHANGED failureVars
       \/ ~failed /\ gate = "open" /\ mainPc' = "leave" /\ UNCHANGED failureVars
       \/ /\ ~failed /\ gate # "open" /\ mainPc' = "gateHalt"
          /\ FailMain("noise_setup") /\ UNCHANGED stop
    /\ UNCHANGED <<started, stopped, summary, flagVars, countVars, threadVars,
                   metricVars, envVars>>

LeaveTransition ==
    /\ mainPc = "leave"
    /\ mainPc' = "begin" /\ transition' = FALSE
    /\ UNCHANGED <<started, stopped, summary, enabled, failureVars, countVars,
                   threadVars, metricVars, envVars>>

\* The store of control.stop that ends main's own calls of set_failure.
HaltMain ==
    /\ mainPc \in {"gateHalt", "measureHalt"}
    /\ stop' = TRUE
    /\ mainPc' = IF mainPc = "gateHalt" THEN "leave" ELSE "disable"
    /\ UNCHANGED <<started, stopped, summary, flagVars, failed, error,
                   countVars, threadVars, metricVars, envVars>>

-----------------------------------------------------------------------------
(* The main thread: the measurement.                                       *)

\* measurement_start_ns, the deadline and steady_state_begin.
BeginMeasurement ==
    /\ mainPc = "begin"
    /\ \/ failed /\ mainPc' = "stop" /\ UNCHANGED clock
       \/ ~failed /\ mainPc' = "enable" /\ clock' = "during"
    /\ UNCHANGED <<started, stopped, summary, flagVars, failureVars,
                   countVars, threadVars, metricVars, gate>>

EnableMeasurement ==
    /\ mainPc = "enable"
    /\ mainPc' = "measure" /\ enabled' = TRUE
    /\ UNCHANGED <<started, stopped, summary, transition, failureVars,
                   countVars, threadVars, metricVars, envVars>>

\* cv.wait_for over the whole duration, or until every camera is complete.
AwaitMeasurement ==
    /\ mainPc = "measure"
    /\ \/ /\ \/ failed
             \/ FixedDuration /\ clock = "after"
             \/ ~FixedDuration /\ AllReported(completedCount)
          /\ mainPc' = "disable" /\ UNCHANGED failureVars
       \/ /\ ~FixedDuration /\ ~failed
          /\ ~AllReported(completedCount)
          /\ FailMain("measure_timeout") /\ UNCHANGED stop
          /\ mainPc' = "measureHalt"
    /\ UNCHANGED <<started, stopped, summary, flagVars, countVars, threadVars,
                   metricVars, envVars>>

DisableMeasurement ==
    /\ mainPc = "disable"
    /\ mainPc' = "stop" /\ enabled' = FALSE
    /\ UNCHANGED <<started, stopped, summary, transition, failureVars,
                   countVars, threadVars, metricVars, envVars>>

-----------------------------------------------------------------------------
(* The main thread: shutdown and report.                                   *)

RequestStop ==
    /\ mainPc = "stop"
    /\ mainPc' = "stopping" /\ stop' = TRUE
    /\ UNCHANGED <<started, stopped, summary, flagVars, failed, error,
                   countVars, threadVars, metricVars, envVars>>

\* Main is in pipe.stop of camera c: stop_order is start_order, reversed when
\* the cameras are synchronised.
Stopping(c) ==
    /\ mainPc = "stopping"
    /\ c \notin stopped
    /\ \A d \in Cameras :
          (IF Master = NoSerial THEN Precedes(d, c) ELSE Precedes(c, d))
              => d \in stopped

\* pipe.stop lets no new callback start and returns once a running one has.
StopPipeline(c) ==
    /\ Stopping(c)
    /\ Callback => pc[c] = "wait"
    /\ pc' = [pc EXCEPT ![c] = IF Callback THEN "done" ELSE @]
    /\ stopped' = stopped \cup {c}
    /\ mainPc' = IF stopped' = Cameras THEN "join" ELSE "stopping"
    /\ \/ UNCHANGED failureVars
       \/ ~failed /\ FailMain("stop") /\ stop' = TRUE
    /\ UNCHANGED <<started, summary, flagVars, countVars, saw, began, stamp,
                   pending, message, metricVars, envVars>>

JoinWaitLoops ==
    /\ mainPc = "join"
    /\ \A c \in Cameras : pc[c] = "done"
    /\ mainPc' = "restore"
    /\ UNCHANGED <<started, stopped, summary, flagVars, failureVars,
                   countVars, threadVars, metricVars, envVars>>

RestoreSync ==
    /\ mainPc = "restore"
    /\ mainPc' = "report"
    /\ \/ UNCHANGED failureVars
       \/ /\ Master # NoSerial /\ ~failed
          /\ FailMain("restore") /\ stop' = TRUE
    /\ UNCHANGED <<started, stopped, summary, flagVars, countVars, threadVars,
                   metricVars, envVars>>

\* write_events and write_summary, which throw when their file cannot be
\* written, RS_STEADY_RESULT and the exit code.
WriteReport ==
    /\ mainPc = "report"
    /\ \/ /\ mainPc' = "exited"
          /\ summary' = IF failed THEN "failure" ELSE "success"
       \/ mainPc' = "unwound" /\ UNCHANGED summary
    /\ UNCHANGED <<started, stopped, flagVars, failureVars, countVars,
                   threadVars, metricVars, envVars>>

-----------------------------------------------------------------------------
(* Camera threads: wait_loop.                                              *)

\* while (!control.stop.load())
LoopHead(c) ==
    /\ Alive /\ pc[c] = "top"
    /\ pc' = [pc EXCEPT ![c] = IF stop THEN "done" ELSE "load"]
    /\ UNCHANGED <<mainVars, flagVars, failureVars, countVars, saw, began,
                   stamp, pending, message, metricVars, envVars>>

\* measurement_was_enabled and begin_ns, read before the wait and used after it.
LoadEnabled(c) ==
    /\ Alive /\ pc[c] = "load"
    /\ pc' = [pc EXCEPT ![c] = "wait"]
    /\ saw' = [saw EXCEPT ![c] = enabled]
    /\ began' = [began EXCEPT ![c] = clock]
    /\ UNCHANGED <<mainVars, flagVars, failureVars, countVars, stamp, pending,
                   message, metricVars, envVars>>

\* A frame is handed over and its host timestamp is taken.
FrameArrives(c) ==
    /\ Alive /\ pc[c] = "wait" /\ c \in started \ stopped
    /\ Callback => ~Stopping(c)
    /\ warmed[c] \/ warmups[c] < MaxWarmups
    /\ deliveries[c] < MaxDeliveries
    /\ pc' = [pc EXCEPT ![c] = "record"]
    /\ stamp' = [stamp EXCEPT ![c] = clock]
    /\ UNCHANGED <<mainVars, flagVars, failureVars, countVars, saw, began,
                   pending, message, metricVars, envVars>>

\* wait_for_pipeline_frame returns an error: no frame within the time-out, or
\* the pipeline was stopped.  The time-out counters follow the earlier read.
WaitFails(c) ==
    /\ Alive /\ ~Callback /\ pc[c] = "wait"
    /\ lateTimeouts[c] < MaxTimeouts \/ c \in stopped
    /\ pc' = [pc EXCEPT ![c] = "timedout"]
    /\ stamp' = [stamp EXCEPT ![c] = clock]
    /\ IF saw[c]
       THEN /\ lateTimeouts' = [lateTimeouts EXCEPT ![c] = @ + 1]
            /\ UNCHANGED preTimeouts
       ELSE /\ preTimeouts' = [preTimeouts EXCEPT ![c] = @ + 1]
            /\ UNCHANGED lateTimeouts
    /\ UNCHANGED <<mainVars, flagVars, failureVars, countVars, saw, began,
                   pending, message, ready, warmed, completed, warmups,
                   deliveries, envVars>>

\* What wait_loop makes of the error.
HandleTimeout(c) ==
    /\ Alive /\ pc[c] = "timedout"
    /\ \/ /\ saw[c] /\ UNCHANGED message
          /\ pc' = [pc EXCEPT ![c] = IF ~enabled \/ stop THEN "done" ELSE "top"]
       \/ /\ ~saw[c] /\ stop /\ failed /\ UNCHANGED message
          /\ pc' = [pc EXCEPT ![c] = "done"]
       \/ /\ ~saw[c] /\ ~(stop /\ failed)
          /\ pc' = [pc EXCEPT ![c] = "fail"]
          /\ message' = [message EXCEPT
                           ![c] = IF transition THEN "transition" ELSE "frame"]
    /\ UNCHANGED <<mainVars, flagVars, failureVars, countVars, saw, began,
                   stamp, pending, metricVars, envVars>>

\* set_failure: the first message wins, under control.mutex ...
SetFailure(c) ==
    /\ Alive /\ pc[c] = "fail"
    /\ failed' = TRUE
    /\ error' = IF failed THEN error ELSE message[c]
    /\ pc' = [pc EXCEPT ![c] = "halt"]
    /\ UNCHANGED <<mainVars, flagVars, stop, countVars, saw, began, stamp,
                   pending, message, metricVars, envVars>>

\* ... then control.stop is stored outside it.  wait_loop breaks after a frame
\* error and goes on after a failed record_delivery.
Halt(c) ==
    /\ Alive /\ pc[c] = "halt"
    /\ stop' = TRUE
    /\ pc' = [pc EXCEPT ![c] = IF message[c] \in FrameErrors THEN "done"
                               ELSE AfterDelivery(completed[c])]
    /\ UNCHANGED <<mainVars, flagVars, failed, error, countVars, saw, began,
                   stamp, pending, message, metricVars, envVars>>

-----------------------------------------------------------------------------
(* Camera threads: record_delivery.                                        *)

\* The metrics.mutex section of a warm-up delivery.  An error returns before
\* the readiness and the warmth it may have recorded are published.
RecordWarmup(c) ==
    /\ Alive /\ pc[c] = "record" /\ ~completed[c] /\ ~warmed[c]
    /\ LET n == warmups[c] + 1
           isReady == Modeled /\ ~ready[c] /\ n >= ApplyAfter
       IN \E unhealthy \in HealthErrors(n) :
            LET isWarm == n >= WarmupFrames /\ ~unhealthy
                news == {x \in {"ready", "warm"} :
                            (x = "ready" /\ isReady) \/ (x = "warm" /\ isWarm)}
            IN /\ warmups' = [warmups EXCEPT ![c] = n]
               /\ ready' = [ready EXCEPT ![c] = @ \/ isReady]
               /\ warmed' = [warmed EXCEPT ![c] = isWarm]
               /\ pending' = [pending EXCEPT
                                ![c] = IF unhealthy THEN {} ELSE news]
               /\ message' = [message EXCEPT
                                ![c] = IF unhealthy THEN "health" ELSE @]
               /\ pc' = [pc EXCEPT
                           ![c] = IF unhealthy THEN "fail"
                                  ELSE IF news # {} THEN "publish"
                                  ELSE AfterDelivery(FALSE)]
    /\ UNCHANGED <<mainVars, flagVars, failureVars, countVars, saw, began,
                   stamp, completed, deliveries, preTimeouts, lateTimeouts,
                   envVars>>

\* The metrics.mutex section of a measured delivery: the deadline is compared
\* with the timestamp, and completion is recorded even if storing it failed.
RecordMeasured(c) ==
    /\ Alive /\ pc[c] = "record" /\ ~completed[c] /\ warmed[c] /\ enabled
    /\ ~PastDeadline(c)
    /\ LET n == deliveries[c] + 1
           isComplete == ~FixedDuration /\ n >= Frames
       IN \E stored \in BOOLEAN :
            /\ deliveries' = [deliveries EXCEPT ![c] = n]
            /\ completed' = [completed EXCEPT ![c] = isComplete]
            /\ pending' = [pending EXCEPT
                             ![c] = IF stored /\ isComplete
                                    THEN {"complete"} ELSE {}]
            /\ message' = [message EXCEPT
                             ![c] = IF stored THEN @ ELSE "storage"]
            /\ pc' = [pc EXCEPT
                        ![c] = IF ~stored THEN "fail"
                               ELSE IF isComplete THEN "publish"
                               ELSE AfterDelivery(FALSE)]
    /\ UNCHANGED <<mainVars, flagVars, failureVars, countVars, saw, began,
                   stamp, ready, warmed, warmups, preTimeouts, lateTimeouts,
                   envVars>>

\* A delivery that record_delivery drops: the camera is complete, or warm
\* while no measurement is enabled, or the deadline has passed.
DropDelivery(c) ==
    /\ Alive /\ pc[c] = "record"
    /\ \/ completed[c]
       \/ warmed[c] /\ ~enabled
       \/ warmed[c] /\ PastDeadline(c)
    /\ pc' = [pc EXCEPT ![c] = AfterDelivery(completed[c])]
    /\ UNCHANGED <<mainVars, flagVars, failureVars, countVars, saw, began,
                   stamp, pending, message, metricVars, envVars>>

\* The three control.mutex sections that end record_delivery, in their order.
Publish(c) ==
    /\ Alive /\ pc[c] = "publish"
    /\ \E news \in pending[c] :
         /\ news = "warm" => "ready" \notin pending[c]
         /\ news = "complete" => pending[c] = {"complete"}
         /\ readyCount' = readyCount + IF news = "ready" THEN 1 ELSE 0
         /\ warmedCount' = warmedCount + IF news = "warm" THEN 1 ELSE 0
         /\ completedCount' =
                completedCount + IF news = "complete" THEN 1 ELSE 0
         /\ pending' = [pending EXCEPT ![c] = @ \ {news}]
         /\ pc' = [pc EXCEPT ![c] = IF pending[c] = {news}
                                    THEN AfterDelivery(completed[c]) ELSE @]
    /\ UNCHANGED <<mainVars, flagVars, failureVars, saw, began, stamp,
                   message, metricVars, envVars>>

-----------------------------------------------------------------------------
(* The environment.                                                        *)

\* The boot clock passes measurement_deadline_ns.
DeadlinePasses ==
    /\ Alive /\ FixedDuration /\ clock = "during"
    /\ clock' = "after"
    /\ UNCHANGED <<mainVars, flagVars, failureVars, countVars, threadVars,
                   metricVars, gate>>

\* The runner answers camera_warmup_ready: the start gate, or its error file.
RunnerAnswers ==
    /\ mainPc \in {"transition", "gate"} /\ gate = "closed"
    /\ gate' \in {"open", "error"}
    /\ UNCHANGED <<mainVars, flagVars, failureVars, countVars, threadVars,
                   metricVars, clock>>

-----------------------------------------------------------------------------
Main ==
    \/ ConfigureSync \/ AwaitSchedulerReady \/ ApplyProfile \/ AwaitWarm
    \/ PublishWarmupReady \/ EnterTransition \/ wait_for_measurement_gate
    \/ LeaveTransition \/ HaltMain \/ BeginMeasurement \/ EnableMeasurement
    \/ AwaitMeasurement \/ DisableMeasurement \/ RequestStop
    \/ JoinWaitLoops \/ RestoreSync \/ WriteReport
    \/ \E c \in Cameras :
          StartPipeline(c) \/ SpawnWaitLoop(c) \/ StopPipeline(c)

wait_loop(c) ==
    LoopHead(c) \/ LoadEnabled(c) \/ WaitFails(c) \/ HandleTimeout(c)

set_failure(c) == SetFailure(c) \/ Halt(c)

record_delivery(c) ==
    RecordWarmup(c) \/ RecordMeasured(c) \/ DropDelivery(c) \/ Publish(c)

Terminated == mainPc \in Terminal /\ UNCHANGED vars

Next ==
    \/ Main
    \/ \E c \in Cameras :
          \/ wait_loop(c) \/ FrameArrives(c)
          \/ set_failure(c) \/ record_delivery(c)
    \/ DeadlinePasses \/ RunnerAnswers
    \/ Terminated

\* Main and the camera threads are scheduled; wait_for_frames returns within
\* its time-out; the clock advances.  No frame and no answer is promised.
Fairness ==
    /\ WF_vars(Main)
    /\ \A c \in Cameras :
          WF_vars(wait_loop(c) \/ (~Callback /\ FrameArrives(c))
                      \/ set_failure(c) \/ record_delivery(c))
    /\ WF_vars(DeadlinePasses)

Spec == Init /\ [][Next]_vars /\ Fairness

-----------------------------------------------------------------------------
(* The inductive invariant behind the safety properties.                   *)

\* Cameras that have set a flag of their metrics and told main about it.
Announced(flag, news) == {c \in Cameras : flag[c] /\ news \notin pending[c]}

\* Main's counters never run ahead of the flags they count, although a camera
\* sets its flag under metrics.mutex and increments the counter later.
CountersFollowFlags ==
    /\ readyCount <= Cardinality(Announced(ready, "ready"))
    /\ warmedCount <= Cardinality(Announced(warmed, "warm"))
    /\ completedCount <= Cardinality(Announced(completed, "complete"))

NewsIsTrue ==
    \A c \in Cameras :
        /\ pending[c] # {} => pc[c] = "publish"
        /\ "ready" \in pending[c] => ready[c]
        /\ "warm" \in pending[c] => warmed[c]
        /\ "complete" \in pending[c] => completed[c]
        /\ mainPc \in {"configure", "start"} /\ c \notin started =>
              pc[c] = "off"

\* What main knows from the barriers it has passed.
BarriersPassed ==
    /\ mainPc = "apply" /\ ~failed => \A c \in Cameras : ready[c]
    /\ mainPc \in AfterWarm => \A c \in Cameras : warmed[c]
    /\ mainPc = "measureHalt" => failed
    /\ enabled => mainPc \in {"measure", "measureHalt", "disable"}
    /\ mainPc \in Closing \cup {"disable", "exited"} /\ ~failed =>
          \A c \in Cameras : warmed[c] /\ (~FixedDuration => completed[c])
    /\ summary = "success" => mainPc = "exited" /\ ~failed

QuotaKept ==
    \A c \in Cameras :
        /\ ~FixedDuration => deliveries[c] <= Frames
        /\ ~FixedDuration => (completed[c] <=> deliveries[c] = Frames)
        /\ completed[c] => warmed[c]

\* A failed wait that is not tolerated is on its way to set_failure.
TimeoutsExplained ==
    /\ \A c \in Cameras :
          preTimeouts[c] > 0 =>
              failed \/ pc[c] = "fail" \/ (pc[c] = "timedout" /\ ~saw[c])
    /\ mainPc \in {"restore", "report", "exited"} =>
          \A c \in Cameras : pc[c] = "done"

IInv ==
    /\ CountersFollowFlags /\ NewsIsTrue /\ BarriersPassed /\ QuotaKept
    /\ TimeoutsExplained

\* The pulse source is the last to start and the first to stop.
SourceIsOutermost ==
    Master # NoSerial =>
        /\ mainPc \in {"configure", "start"} => stopped = {}
        /\ Master \in started => started = Cameras
        /\ stopped # {} => Master \in stopped

-----------------------------------------------------------------------------
(* Safety.                                                                 *)

\* The global warm-up barrier of main: measurement is enabled only once every
\* camera has passed its own warm-up, although the cameras report it through a
\* counter they increment after they have left metrics.mutex.
WarmupBarrier ==
    enabled => \A c \in Cameras : warmed[c]

\* A run that reports success measured the same number of deliveries from every
\* camera, opts.frames, when it is not bounded by a duration.
EqualDeliveries ==
    summary = "success" /\ ~FixedDuration =>
        \A c \in Cameras : deliveries[c] = Frames

\* A wait that failed before its camera's thread had seen the measurement
\* enabled never goes unreported: a successful summary shows
\* pre_measurement_timeouts = 0 for every camera.
NoSilentTimeout ==
    summary = "success" => \A c \in Cameras : preTimeouts[c] = 0

\* Hardware synchronisation: the pulse source streams only while every receiver
\* streams, through start-up, shutdown and every failure between them.
PulseSourceInside ==
    Master \in started \ stopped => Cameras = started \ stopped

\* The modeled-scheduler barrier: a profile is applied, or refused, only after
\* every camera has reached scheduler_apply_threshold.
ApplyAfterReady ==
    [][mainPc = "apply" /\ ~failed => \A c \in Cameras : ready[c]]_vars

\* set_failure keeps the first failure: later ones, of main or of any camera
\* thread, never replace the reported error, and a failure is never undone.
FirstFailureWins ==
    [][failed => failed' /\ error' = error]_vars

\* No delivery whose timestamp is past measurement_deadline_ns is counted, even
\* when its thread is delayed between taking the timestamp and counting it.
DeadlineRespected ==
    [][\A c \in Cameras :
          deliveries'[c] # deliveries[c] =>
              enabled /\ ~(FixedDuration /\ stamp[c] = "after")]_vars

\* Once main has joined the wait threads and stopped the callbacks, nothing
\* changes the metrics that write_events and write_summary read.
ReportIsStable ==
    [][(mainPc \in {"restore", "report", "exited"}) =>
          UNCHANGED metricVars]_vars

-----------------------------------------------------------------------------
(* What the documentation says and the code does not do.                   *)

-----------------------------------------------------------------------------
(* Liveness.                                                               *)

\* The process ends: every barrier has a time-out, a failure anywhere stops
\* every wait loop, and main never joins a thread that waits for ever.
Termination == <>(mainPc \in Terminal)

-----------------------------------------------------------------------------
(* The promise the probe makes to its caller, and how it keeps it.         *)

phase ==
    IF mainPc \in Terminal THEN "over"
    ELSE IF mainPc \in Closing THEN "closing"
    ELSE IF mainPc \in {"enable", "measure", "measureHalt", "disable"}
         THEN "measuring"
    ELSE "warmup"

result ==
    IF mainPc \in {"unwound", "aborted"} THEN "abandoned"
    ELSE IF mainPc = "exited" /\ summary = "success" THEN "succeeded"
    ELSE IF failed THEN "failed"
    ELSE "pending"

Lifecycle ==
    INSTANCE ProbeLifecycle WITH
        Quota <- Frames, Counted <- ~FixedDuration,
        warm <- {c \in Cameras : warmed[c]}, taken <- deliveries

\* The probe's threads, barriers and flags implement the one-shot lifecycle of
\* ProbeLifecycle.
ImplementsLifecycle == Lifecycle!Spec

\* tools/realsense_steady_bench/README.md:370: a time-out of a fixed-duration
\* measurement "remains visible as a performance failure without changing the
\* duration or replacing the measured run with a later retry".  A wait that
\* begins after measurement_enabled is cleared and before stop is set is broken
\* by main's own pipe.stop, and fails the run it has already measured.
MeasuredRunIsKept ==
    \A c \in Cameras :
        FixedDuration /\ pc[c] = "fail" /\ message[c] \in FrameErrors =>
            c \notin stopped \/ began[c] # "after" \/ failed

=============================================================================
