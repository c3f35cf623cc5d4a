------------------------------ MODULE Timerlat ------------------------------
(***************************************************************************)
(* The Timerlat campaign (timerlat_benchmark.py, timerlat_workload.py,     *)
(* timerlat_parser.py, run_timerlat_campaign.py): each attempt starts the  *)
(* CPU noise, starts the camera probe and waits for its steady-state       *)
(* marker, samples with rtla while the load runs, waits for the probe,     *)
(* parses the histogram, and in its finally clause stops what still runs.  *)
(* The operator may press Ctrl-C anywhere; the campaign then cleans up.    *)
(*                                                                         *)
(* Time passes in ticks while rtla runs; all other waits either end or     *)
(* time out.  rtla's output is a histogram per CPU: the samples per bucket *)
(* and those over the last one.                                            *)
(***************************************************************************)
EXTENDS Integers, Sequences, FiniteSets, FiniteSetsExt

CONSTANTS
    Warmup, Duration,   \* rtla --warm-up and -d, in ticks
    Guard,              \* CAMPAIGN_CAMERA_GUARD_SECONDS, in ticks
    StartDelays,        \* how many ticks rtla may take to start
    AttemptLimit,        \* --max-attempts-per-run
    NbRuns,             \* the runs of the campaign
    CPUs,               \* the columns of the histogram
    LastBucket,         \* the last row of the histogram
    Histograms,         \* what a column may hold: [count, over] records
    MaxInterrupts,      \* bound: Ctrl-C
    Null                \* None

Cases == [camera : BOOLEAN, noise : BOOLEAN]
Columns == [count : [0..LastBucket -> Nat], over : Nat]

ASSUME TimerlatAssumption ==
    /\ {Warmup, Duration, Guard, AttemptLimit, NbRuns} \subseteq Nat \ {0}
    /\ StartDelays \subseteq Nat /\ MaxInterrupts \in Nat
    /\ LastBucket \in Nat
    /\ Histograms \subseteq Columns

VARIABLES
    pc,        \* where the runner is
    case,      \* the load case of this run
    attempt, run,
    cam,       \* the probe: [st, left, marker]
    active,    \* self._active_camera is set
    noise,     \* the noise process: "off", "on" or "died"
    rtla,      \* rtla: [st, left]
    out,       \* what the attempt collected: [ready, rc, parse, valid]
    row,       \* the result of the last run
    gap,       \* a sample of this attempt was taken without its load
    stuck,     \* processes that outlived SIGKILL in the cleanup
    ctrlc      \* interrupts so far

timerlatVars == <<pc, case, attempt, run, cam, active, noise, rtla, out, row,
                  gap, stuck, ctrlc>>

NoCamera == [st |-> "none", left |-> 0, marker |-> FALSE]
NoRtla == [st |-> "off", left |-> 0]
NoOutput == [ready |-> FALSE, rc |-> 1, parse |-> Null, valid |-> TRUE]
NoRow == [success |-> FALSE, phase |-> "none", tail |-> Null, hist |-> Null]
Streams == cam.st \in {"starting", "streaming"}

-----------------------------------------------------------------------------
(* parse_timerlat_histogram.                                               *)

\* The count of the loop, after each bucket.
cumulative(h) ==
    LET upto[b \in 0..LastBucket] ==
          h.count[b] + (IF b = 0 THEN 0 ELSE upto[b - 1])
    IN  upto

\* _nearest_rank: the first bucket at which the running count reaches the
\* target (num/den of all samples, rounded up); None when the target is among
\* the samples over the last bucket.
_nearest_rank(h, total, num, den) ==
    LET target == Max({1, (num * total + den - 1) \div den})
        reached == {b \in 0..LastBucket : cumulative(h)[b] >= target}
    IN  IF total <= 0 \/ reached = {} THEN Null ELSE Min(reached)

\* Faulty variant: the CPUs without a quantile are left out.
MaximumOfKnown(values) ==
    IF values \ {Null} = {} THEN 0 ELSE Max(values \ {Null})

\* _maximum_known: unknown as soon as one CPU is.
_maximum_known(values) ==
    IF values = {} THEN 0 ELSE IF Null \in values THEN Null ELSE Max(values)

Total(h) == h.over + cumulative(h)[LastBucket]

\* The worst p99.9 of the CPUs.
p999_us_max_cpu(hist) ==
    _maximum_known({_nearest_rank(hist[c], Total(hist[c]), 999, 1000) :
                      c \in CPUs})

-----------------------------------------------------------------------------
(* An attempt.                                                             *)

TimerlatInit ==
    /\ pc = "build" /\ case \in Cases /\ attempt = 0 /\ run = 1
    /\ cam = NoCamera /\ active = FALSE /\ noise = "off" /\ rtla = NoRtla
    /\ out = NoOutput /\ row = NoRow /\ gap = FALSE
    /\ stuck = {} /\ ctrlc = 0

Stay(v) == UNCHANGED <<case, run, row, stuck, ctrlc, v>>

\* prebuild_bench: without rtla, the tracer, the privileges or a build there is
\* no campaign.
prebuild_timerlat ==
    /\ pc = "build" /\ pc' \in {"run", "cleanup"}
    /\ Stay(<<attempt, cam, active, noise, rtla, out, gap>>)

\* single_run and _prepare_attempt; either may raise.
prepare ==
    /\ pc \in {"run", "attempt"} /\ attempt < AttemptLimit
    /\ attempt' = attempt + 1 /\ out' = NoOutput /\ gap' = FALSE
    /\ cam' = NoCamera /\ rtla' = NoRtla
    /\ pc' \in {"noise", "cleanup"}
    /\ Stay(<<active, noise>>)

\* CpuBusyLoopNoise.start: the process is ready, or it failed or was stopped
\* and start raises.
start_noise ==
    /\ pc = "noise"
    /\ \/ ~case.noise /\ pc' = "camera" /\ UNCHANGED noise
       \/ case.noise /\ pc' = "camera" /\ noise' = "on"
       \/ case.noise /\ pc' = "finally_raise" /\ UNCHANGED noise
    /\ Stay(<<attempt, cam, active, rtla, out, gap>>)

\* _start_camera without a camera.
no_camera ==
    /\ pc = "camera" /\ ~case.camera
    /\ out' = [out EXCEPT !.ready = TRUE] /\ pc' = "timerlat"
    /\ Stay(<<attempt, cam, active, noise, rtla, gap>>)

\* The load is known to the cleanup before it is started.
register_camera ==
    /\ pc = "camera" /\ case.camera
    /\ active' = TRUE /\ pc' = "popen"
    /\ Stay(<<attempt, cam, noise, rtla, out, gap>>)

\* Faulty variant: the probe streams for the sampling time only.
PopenWithoutGuard ==
    /\ pc = "popen"
    /\ cam' = [NoCamera EXCEPT !.st = "starting", !.left = Warmup + Duration]
    /\ pc' = "barrier"
    /\ Stay(<<attempt, active, noise, rtla, out, gap>>)

\* ManagedCameraLoad.start: the probe streams for the warm-up, the sampling
\* time and the guard.
start_camera ==
    /\ pc = "popen"
    /\ cam' = [NoCamera EXCEPT !.st = "starting",
                               !.left = Warmup + Duration + Guard]
    /\ pc' = "barrier"
    /\ Stay(<<attempt, active, noise, rtla, out, gap>>)

\* wait_until_steady: the marker counts before the exit code; without either
\* the wait times out.
wait_until_steady ==
    /\ pc = "barrier"
    /\ \/ /\ cam.marker /\ pc' = "timerlat"
          /\ out' = [out EXCEPT !.ready = TRUE]
       \/ ~cam.marker /\ pc' = "stop_camera" /\ UNCHANGED out
    /\ Stay(<<attempt, cam, active, noise, rtla, gap>>)

\* _run_timerlat.
start_rtla ==
    /\ pc = "timerlat" /\ pc' = "sampling"
    /\ \E d \in StartDelays :
         rtla' = [st |-> "run", left |-> d + Warmup + Duration]
    /\ Stay(<<attempt, cam, active, noise, out, gap>>)

\* A tick of the warm-up or of the sampling: the probe streams on, and ends by
\* itself when it has streamed enough.
tick ==
    /\ pc = "sampling" /\ rtla.left > 0
    /\ rtla' = [rtla EXCEPT !.left = @ - 1]
    /\ cam' = IF cam.st # "streaming" THEN cam
              ELSE [cam EXCEPT !.left = @ - 1,
                               !.st = IF cam.left = 1 THEN "done" ELSE @]
    /\ gap' = (gap \/ (/\ rtla.left <= Duration
                       /\ \/ case.camera /\ cam.st # "streaming"
                          \/ case.noise /\ noise # "on"))
    /\ UNCHANGED pc /\ Stay(<<attempt, active, noise, out>>)

\* rtla ends with its histogram, fails, or is killed at the time-out.  The text
\* it left may be one that parse_timerlat_histogram refuses.
rtla_ends ==
    /\ pc = "sampling"
    /\ \/ /\ rtla.left = 0
          /\ \E h \in [CPUs -> Histograms] \cup {Null} :
               out' = [out EXCEPT !.rc = 0, !.parse = h]
       \/ out' = [out EXCEPT !.rc = 124, !.parse = Null]
    /\ rtla' = NoRtla /\ pc' = IF case.camera THEN "finish" ELSE "finally"
    /\ Stay(<<attempt, cam, active, noise, gap>>)

\* ManagedCameraLoad.finish and stop: wait for the probe, then SIGTERM, then
\* SIGKILL; a probe that outlives SIGKILL raises, and the load stays active.
\* What is waited for is gone in "done" and "failed".
Reaped(cs, next) ==
    /\ cam' \in cs /\ active' = FALSE /\ pc' = next
Ended == {[cam EXCEPT !.st = s] : s \in {"done", "failed"}}
Killed == {[cam EXCEPT !.st = "failed"]}

finish ==
    /\ pc = "finish"
    /\ \/ ~Streams /\ Reaped({cam}, "finally")
       \/ Streams /\ Reaped(Ended, "finally")
       \/ Streams /\ pc' = "finally_raise" /\ UNCHANGED <<cam, active>>
    /\ Stay(<<attempt, noise, rtla, out, gap>>)

stop_camera ==
    /\ pc = "stop_camera"
    /\ \/ ~Streams /\ Reaped({cam}, "finally")
       \/ Streams /\ Reaped(Killed, "finally")
       \/ Streams /\ pc' = "finally_raise" /\ UNCHANGED <<cam, active>>
    /\ Stay(<<attempt, noise, rtla, out, gap>>)

-----------------------------------------------------------------------------
(* The finally clause, the verdict and the loop.                           *)

\* The probe is stopped if it is still active, and then the noise; when the
\* first raises the second is left to the cleanup.
finally ==
    /\ pc \in {"finally", "finally_raise"}
    /\ LET then == IF pc = "finally" THEN "verdict" ELSE "cleanup" IN
       \/ /\ cam' = IF active /\ Streams THEN [cam EXCEPT !.st = "failed"] ELSE cam
          /\ active' = FALSE /\ noise' = "off" /\ pc' = then
       \/ active /\ Streams /\ pc' = "cleanup" /\ UNCHANGED <<cam, active, noise>>
    /\ out' = [out EXCEPT !.valid = case.noise => noise = "on"]
    /\ Stay(<<attempt, rtla, gap>>)

\* The first of the reasons counts.
failure_phase ==
    CASE ~out.ready -> "startup"
      [] out.rc # 0 -> "measurement"
      [] out.parse = Null -> "measurement"
      [] case.camera /\ cam.st # "done" -> "measurement"
      [] OTHER -> "none"

\* classify: only a failure before the barrier is tried again.
retry == failure_phase = "startup"

\* classify, recover and run_attempt_loop; the last attempt becomes the row,
\* which parse_output_to_results fails when the noise was not valid to the end.
verdict ==
    /\ pc = "verdict"
    /\ LET again == retry /\ case.camera /\ attempt < AttemptLimit IN
       /\ row' = IF again THEN row ELSE
            [success |-> failure_phase = "none" /\ out.valid,
             phase |-> failure_phase,
             hist |-> out.parse,
             tail |-> IF out.parse = Null THEN Null
                      ELSE p999_us_max_cpu(out.parse)]
       /\ pc' = IF again THEN "attempt" ELSE "row"
    /\ UNCHANGED <<case, attempt, run, cam, active, noise, rtla, out,
                   gap, stuck, ctrlc>>

\* The next run of the campaign, or its end.
next_run ==
    /\ pc = "row"
    /\ \/ /\ run < NbRuns /\ run' = run + 1 /\ attempt' = 0
          /\ case' \in Cases /\ pc' = "run" /\ row' = NoRow /\ gap' = FALSE
          /\ out' = NoOutput
       \/ /\ run = NbRuns /\ pc' = "cleanup"
          /\ UNCHANGED <<run, attempt, case, row, gap, out>>
    /\ UNCHANGED <<cam, active, noise, rtla, stuck, ctrlc>>

\* Faulty variant: the campaign leaves the camera to the attempts.
CleanupOfNoise ==
    /\ pc = "cleanup" /\ pc' = "over"
    /\ noise' = "off" /\ UNCHANGED <<cam, active, stuck>>
    /\ UNCHANGED <<case, attempt, run, rtla, out, row, gap, ctrlc>>

\* run_with_cleanup and cleanup.
cleanup ==
    /\ pc = "cleanup" /\ pc' = "over"
    /\ \/ /\ cam' = IF active /\ Streams THEN [cam EXCEPT !.st = "failed"] ELSE cam
          /\ UNCHANGED stuck
       \/ active /\ Streams /\ stuck' = {"camera"} /\ UNCHANGED cam
    /\ active' = FALSE /\ noise' = "off"
    /\ UNCHANGED <<case, attempt, run, rtla, out, row, gap, ctrlc>>

-----------------------------------------------------------------------------
(* The probe, the noise and the operator.                                  *)

Environment(c, n) ==
    /\ cam' = c /\ noise' = n
    /\ UNCHANGED <<pc, case, attempt, run, active, rtla, out, row,
                   gap, stuck, ctrlc>>

probe_steady ==
    cam.st = "starting" /\
    Environment([cam EXCEPT !.st = "streaming", !.marker = TRUE], noise)
probe_fails == Streams /\ Environment([cam EXCEPT !.st = "failed"], noise)
noise_dies == noise = "on" /\ pc # "over" /\ Environment(cam, "died")

\* KeyboardInterrupt: through the finally clause where there is one.
interrupt ==
    /\ ctrlc < MaxInterrupts /\ pc \notin {"cleanup", "over"}
    /\ ctrlc' = ctrlc + 1
    /\ pc' = IF pc \in {"noise", "camera", "popen", "barrier", "timerlat",
                        "sampling", "finish", "stop_camera"}
               THEN "finally_raise" ELSE "cleanup"
    /\ rtla' = NoRtla
    /\ UNCHANGED <<case, attempt, run, cam, active, noise, out, row,
                   gap, stuck>>

Runner ==
    \/ prebuild_timerlat \/ prepare \/ start_noise \/ no_camera
    \/ register_camera \/ start_camera
    \/ wait_until_steady \/ start_rtla \/ tick \/ rtla_ends \/ finish
    \/ stop_camera \/ finally \/ verdict \/ next_run \/ cleanup

TimerlatNext ==
    Runner \/ probe_steady \/ probe_fails \/ noise_dies \/ interrupt

TimerlatSpec == TimerlatInit /\ [][TimerlatNext]_timerlatVars

-----------------------------------------------------------------------------
(* Properties.                                                             *)

\* A successful row was sampled under its load from the first sample to the
\* last, when rtla starts within the guard the probe has (_build_command).
SampledUnderLoad == row.success => ~gap

\* The worst p99.9 is exact: at most one sample in a thousand of any CPU is
\* above it, and a CPU for which the histogram cannot tell leaves it unknown
\* (_nearest_rank, _maximum_known).
TailIsHonest ==
    LET Above(h, t) == Total(h) - cumulative(h)[t]
    IN  row.success /\ row.tail # Null =>
          \A c \in CPUs :
            1000 * Above(row.hist[c], row.tail) <= Total(row.hist[c])

\* When the campaign is over nothing of it runs, except a probe that outlived
\* SIGKILL in the cleanup (finally, cleanup).
TimerlatLeavesNothing ==
    pc = "over" => /\ noise = "off"
                   /\ Streams => "camera" \in stuck

\* What the first and the third rest on.
ProbeStates == {"none", "starting", "streaming", "done", "failed"}
Probes == [st : ProbeStates, left : Int, marker : BOOLEAN]
AttemptOutputs == [ready : BOOLEAN, rc : {0, 1, 124}, valid : BOOLEAN,
              parse : [CPUs -> Histograms] \cup {Null}]

TimerlatTypeOK ==
    /\ pc \in {"build", "run", "attempt", "noise", "camera", "popen", "barrier",
               "timerlat", "sampling", "finish", "stop_camera", "finally",
               "finally_raise", "verdict", "row", "cleanup", "over"}
    /\ case \in Cases
    /\ cam \in Probes
    /\ active \in BOOLEAN /\ noise \in {"off", "on", "died"}
    /\ rtla \in [st : {"off", "run"}, left : Nat]
    /\ out \in AttemptOutputs
    /\ gap \in BOOLEAN

\* A probe that streams is known to whoever has to stop it.
StoppableProbe ==
    /\ pc = "popen" => active
    /\ pc # "over" /\ Streams => active
    /\ TimerlatLeavesNothing

\* rtla is never ahead of the probe by more than the probe has left, so a probe
\* that ended by itself has seen the last sample; and a sample without its load
\* leaves a failed probe or a noise that is not valid.
Outlasts ==
    /\ cam.marker => cam.st \in {"streaming", "done", "failed"}
    /\ pc \in {"noise", "camera", "popen", "barrier", "timerlat"} =>
         cam.st # "done" /\ ~gap
    /\ pc = "stop_camera" => ~gap
    /\ pc = "barrier" \/ (pc = "timerlat" /\ case.camera) =>
         cam.left = Warmup + Duration + Guard
    /\ pc = "timerlat" /\ case.camera => cam.marker
    /\ pc = "sampling" /\ case.camera =>
         \/ cam.st = "failed"
         \/ (cam.st = "done" /\ rtla.left = 0)
         \/ (cam.st = "streaming" /\ rtla.left <= cam.left)

GapShows ==
    /\ pc \in {"sampling", "finish", "finally", "finally_raise"} /\ gap =>
         (case.camera /\ cam.st = "failed") \/ (case.noise /\ noise # "on")
    /\ pc = "verdict" /\ gap => (case.camera /\ cam.st = "failed") \/ ~out.valid
    /\ pc \notin {"row", "cleanup", "over"} => ~row.success
    /\ SampledUnderLoad

\* The tail of a row is computed from its histogram.
RowIsComputed ==
    /\ row.tail # Null => /\ row.hist \in [CPUs -> Histograms]
                          /\ row.tail = p999_us_max_cpu(row.hist)

TimerlatInv == TimerlatTypeOK /\ StoppableProbe /\ RowIsComputed
LoadInv == TimerlatTypeOK /\ Outlasts /\ GapShows

=============================================================================
