-------------------------- MODULE NoiseTransition --------------------------
(***************************************************************************)
(* The noise side of an attempt: NoiseTransition (noise_transition.py),    *)
(* NoiseSuite and ManagedNoiseProcess (noise_workloads.py), and the part   *)
(* of _run_attempt and cleanup (steady_benchmark.py) that drives them.     *)
(*                                                                         *)
(* Three actors: the runner's main thread, the thread "rs-noise-           *)
(* transition", called the helper, and the probe, seen through the files   *)
(* it shares with the helper.  Signals are those run_with_cleanup turns    *)
(* into a KeyboardInterrupt of the main thread.                            *)
(***************************************************************************)
EXTENDS Integers, Sequences

CONSTANTS
    Workloads,   \* the enabled workloads, in the order of _by_key
    MaxAttempts, \* bound: attempts of the campaign that are modelled
    MaxFaults,   \* bound: calls of stop() that raise
    MaxSignals   \* bound: SIGTERM or SIGHUP received

Count == Len(Workloads)
Noises == {Workloads[i] : i \in 1..Count}

ASSUME CampaignAssumption ==
    /\ Workloads \in Seq(Noises) /\ Count > 0
    /\ \A i, j \in 1..Count : Workloads[i] = Workloads[j] => i = j
    /\ MaxAttempts \in Nat \ {0} /\ {MaxFaults, MaxSignals} \subseteq Nat

VARIABLES
    pc, at,        \* the runner, and its place in stop_all
    attempt, faults, signals,
    probe_done,    \* NoiseTransition._probe_done
    helper, k,     \* the helper, and its place in start_all or stop_all
    late,          \* the ready time-out of the workload being started is over
    handle,        \* workloads whose _process is not None
    proc,          \* the processes themselves
    readyFile,     \* workloads whose ready.json says ready
    probe,
    warmFile, gateFile, errorFile

runnerVars == <<pc, at, attempt, signals, probe_done>>
helperVars == <<helper, k, late>>
suiteVars == <<handle, proc, readyFile, faults>>
probeVars == <<probe, warmFile>>
answerVars == <<gateFile, errorFile>>
vars == <<runnerVars, helperVars, suiteVars, probeVars, answerVars>>

Running == {"warming", "ready"}
Alive == {w \in Noises : proc[w] \in Running}

Init ==
    /\ pc = "start" /\ at = 0 /\ attempt = 1 /\ faults = 0 /\ signals = 0
    /\ probe_done = FALSE /\ helper = "off" /\ k = 1 /\ late = FALSE
    /\ handle = {} /\ proc = [w \in Noises |-> "none"] /\ readyFile = {}
    /\ probe = "none"
    /\ warmFile = FALSE /\ gateFile = FALSE /\ errorFile = FALSE

-----------------------------------------------------------------------------
(* ManagedNoiseProcess.stop: the handle is dropped first, the process is   *)
(* terminated, or killed.  It raises when a killed process is not reaped   *)
(* in time or, with a record directory, when its record cannot be written. *)

StopReturns(w) ==
    /\ handle' = handle \ {w}
    /\ proc' = [proc EXCEPT ![w] = IF w \in handle /\ @ \in Running
                                   THEN "dead" ELSE @]
    /\ UNCHANGED <<readyFile, faults>>

StopRaises(w, recorded) ==
    /\ w \in handle /\ faults < MaxFaults /\ faults' = faults + 1
    /\ handle' = handle \ {w}
    /\ \/ proc[w] \in Running /\ proc' = [proc EXCEPT ![w] = "killed"]
       \/ /\ recorded
          /\ proc' = [proc EXCEPT ![w] = IF @ \in Running THEN "dead" ELSE @]
    /\ UNCHANGED readyFile

\* An exception out of the middle of stop, before or after terminate.
StopInterrupted(w) ==
    /\ handle' = handle \ {w}
    /\ \/ UNCHANGED proc
       \/ w \in handle /\ proc[w] \in Running
          /\ proc' = [proc EXCEPT ![w] = "killed"]
    /\ UNCHANGED <<readyFile, faults>>

-----------------------------------------------------------------------------
(* The helper.  It ends with the interpreter when main is over.            *)

Ends == {"over", "reported"}

HelperAt(h) == helper = h /\ pc \notin Ends

\* Faulty variant: only the file ends the wait.
WaitForFileOnly ==
    /\ HelperAt("waiting") /\ warmFile
    /\ helper' = "spawn" /\ k' = 1
    /\ UNCHANGED <<late, runnerVars, suiteVars, probeVars, answerVars>>

\* _wait_for_camera_warmup: until the file is there or the probe is done.
wait_for_camera_warmup ==
    /\ HelperAt("waiting")
    /\ \/ probe_done /\ helper' = "ended" /\ UNCHANGED k
       \/ warmFile /\ helper' = "spawn" /\ k' = 1
    /\ UNCHANGED <<late, runnerVars, suiteVars, probeVars, answerVars>>

\* The except clause of start_all: stop_all, from the last workload on.
Abort == helper' = "abort" /\ k' = Count

\* start, as far as Popen.  What fails before the process exists raises.
SpawnNoise ==
    /\ HelperAt("spawn")
    /\ LET w == Workloads[k] IN
         \/ /\ w \notin handle
            /\ handle' = handle \cup {w} /\ late' = FALSE
            /\ proc' = [proc EXCEPT ![w] = "warming"]
            /\ helper' = "poll" /\ UNCHANGED <<k, readyFile, faults>>
         \/ Abort /\ UNCHANGED <<late, suiteVars>>
    /\ UNCHANGED <<runnerVars, probeVars, answerVars>>

\* The head of start's loop: the assertion, poll and an early exit.
PollNoise ==
    /\ HelperAt("poll") /\ ~late
    /\ LET w == Workloads[k] IN
         \/ w \notin handle /\ Abort /\ UNCHANGED handle
         \/ /\ w \in handle /\ proc[w] \notin Running
            /\ Abort /\ handle' = handle \ {w}
         \/ /\ w \in handle /\ proc[w] \in Running
            /\ helper' = "look" /\ UNCHANGED <<k, handle>>
    /\ UNCHANGED <<late, proc, readyFile, faults, runnerVars, probeVars,
                   answerVars>>

\* Faulty variant: the first workload that is ready opens the gate.
LookForOne ==
    /\ HelperAt("look")
    /\ \/ Workloads[k] \notin readyFile /\ helper' = "poll" /\ UNCHANGED k
       \/ Workloads[k] \in readyFile /\ helper' = "check" /\ UNCHANGED k
    /\ UNCHANGED <<late, runnerVars, suiteVars, probeVars, answerVars>>

\* Its tail: the ready file.  Writing the configuration may raise.
LookForReady ==
    /\ HelperAt("look")
    /\ \/ /\ Workloads[k] \notin readyFile /\ helper' = "poll" /\ UNCHANGED k
       \/ /\ Workloads[k] \in readyFile
          /\ IF k < Count THEN helper' = "spawn" /\ k' = k + 1
                          ELSE helper' = "check" /\ UNCHANGED k
       \/ Workloads[k] \in readyFile /\ Abort
    /\ UNCHANGED <<late, runnerVars, suiteVars, probeVars, answerVars>>

\* The ready time-out: stop, then raise.
ReadyTimeout ==
    /\ HelperAt("poll") /\ late
    /\ StopReturns(Workloads[k]) \/ StopRaises(Workloads[k], TRUE)
    /\ Abort
    /\ UNCHANGED <<late, runnerVars, probeVars, answerVars>>

\* stop_all in start_all's except clause.
AbortNoise ==
    /\ HelperAt("abort")
    /\ \/ /\ StopReturns(Workloads[k])
          /\ IF k > 1 THEN helper' = "abort" /\ k' = k - 1
                      ELSE helper' = "error" /\ UNCHANGED k
       \/ StopRaises(Workloads[k], TRUE) /\ helper' = "error" /\ UNCHANGED k
    /\ UNCHANGED <<late, runnerVars, probeVars, answerVars>>

CheckProbe ==
    /\ HelperAt("check")
    /\ helper' = IF probe_done THEN "ended" ELSE "publish"
    /\ UNCHANGED <<k, late, runnerVars, suiteVars, probeVars, answerVars>>

\* The gate is written, then the state; either write may raise.
PublishGate ==
    /\ HelperAt("publish")
    /\ \/ gateFile' = TRUE /\ helper' \in {"ended", "error"}
       \/ UNCHANGED gateFile /\ helper' = "error"
    /\ UNCHANGED <<k, late, errorFile, runnerVars, suiteVars, probeVars>>

\* _publish_error; when the file cannot be written the thread dies.
publish_error ==
    /\ HelperAt("error")
    /\ helper' = "ended" /\ errorFile' \in {TRUE, errorFile}
    /\ UNCHANGED <<k, late, gateFile, runnerVars, suiteVars, probeVars>>

-----------------------------------------------------------------------------
(* The runner.                                                             *)

\* _run_attempt prepares the attempt, which may raise, and starts the helper
\* and the probe.
StartAttempt ==
    /\ pc = "start"
    /\ \/ pc' = "probing" /\ helper' = "waiting" /\ probe' = "warming"
       \/ pc' = "raised" /\ UNCHANGED <<helper, probe>>
    /\ UNCHANGED <<at, attempt, signals, probe_done, k, late, suiteVars,
                   warmFile, answerVars>>

\* run_bench_command returns or raises: the finally clause.
CommandReturns ==
    /\ pc = "probing" /\ probe = "ended"
    /\ pc' = "finish"
    /\ UNCHANGED <<at, attempt, signals, probe_done, helperVars, suiteVars,
                   probeVars, answerVars>>

\* finish: the event, then the join.
SetProbeDone ==
    /\ pc = "finish"
    /\ pc' = "join" /\ probe_done' = TRUE
    /\ UNCHANGED <<at, attempt, signals, helperVars, suiteVars, probeVars,
                   answerVars>>

\* Faulty variant: finish does not wait for the helper.
DetachHelper ==
    /\ pc = "join"
    /\ pc' = "stopping" /\ at' = Count
    /\ UNCHANGED <<attempt, signals, probe_done, helperVars, suiteVars,
                   probeVars, answerVars>>

\* The helper has ended; writing the state may raise, past stop_all.
JoinHelper ==
    /\ pc = "join" /\ helper = "ended"
    /\ \/ pc' = "stopping" /\ at' = Count
       \/ pc' = "raised" /\ UNCHANGED at
    /\ UNCHANGED <<attempt, signals, probe_done, helperVars, suiteVars,
                   probeVars, answerVars>>

\* stop_all after the attempt.  What follows it in the finally clause, and
\* the analysis of the attempt, may raise too.
StopNoise ==
    /\ pc = "stopping"
    /\ \/ /\ StopReturns(Workloads[at])
          /\ IF at > 1 THEN pc' = pc /\ at' = at - 1
                       ELSE pc' \in {"returned", "raised"} /\ UNCHANGED at
       \/ StopRaises(Workloads[at], TRUE) /\ pc' = "raised" /\ UNCHANGED at
    /\ UNCHANGED <<attempt, signals, probe_done, helperVars, probeVars,
                   answerVars>>

\* The next attempt has a directory of its own.
NextAttempt ==
    /\ pc = "returned" /\ attempt < MaxAttempts
    /\ pc' = "start" /\ attempt' = attempt + 1
    /\ probe_done' = FALSE /\ helper' = "off" /\ k' = 1 /\ late' = FALSE
    /\ readyFile' = {} /\ probe' = "none"
    /\ warmFile' = FALSE /\ gateFile' = FALSE /\ errorFile' = FALSE
    /\ UNCHANGED <<at, signals, handle, proc, faults>>

\* run_with_cleanup: the campaign is over or an exception ends it.
Cleanup ==
    /\ pc \in {"returned", "raised"}
    /\ pc' = "cleaning" /\ at' = Count
    /\ UNCHANGED <<attempt, signals, probe_done, helperVars, suiteVars,
                   probeVars, answerVars>>

\* stop_all of cleanup, without a record directory.  A stop that raises is
\* reported as "Campaign cleanup failed".
CleanNoise ==
    /\ pc = "cleaning"
    /\ \/ /\ StopReturns(Workloads[at])
          /\ IF at > 1 THEN pc' = pc /\ at' = at - 1
                       ELSE pc' = "over" /\ UNCHANGED at
       \/ StopRaises(Workloads[at], FALSE) /\ pc' = "reported" /\ UNCHANGED at
    /\ UNCHANGED <<attempt, signals, probe_done, helperVars, probeVars,
                   answerVars>>

\* stop_campaign: a KeyboardInterrupt in the main thread.  It ends the
\* command, or leaves whatever clause the thread is in.
Signal ==
    /\ signals < MaxSignals /\ signals' = signals + 1
    /\ \/ /\ pc = "probing" /\ pc' = "finish" /\ probe' = "ended"
          /\ UNCHANGED suiteVars
       \/ /\ pc \in {"start", "finish", "join", "stopping", "returned"}
          /\ pc' = "raised" /\ UNCHANGED <<probe, suiteVars>>
       \/ pc = "cleaning" /\ pc' = "reported" /\ UNCHANGED <<probe, suiteVars>>
       \/ /\ \/ pc = "stopping" /\ pc' = "raised"
             \/ pc = "cleaning" /\ pc' = "reported"
          /\ StopInterrupted(Workloads[at]) /\ UNCHANGED probe
    /\ UNCHANGED <<at, attempt, probe_done, helperVars, warmFile, answerVars>>

-----------------------------------------------------------------------------
(* The probe's end of the two barriers, the processes and the clock.       *)

PublishWarmupReady ==
    /\ probe = "warming" /\ probe' = "gating" /\ warmFile' = TRUE
    /\ UNCHANGED <<runnerVars, helperVars, suiteVars, answerVars>>

wait_for_measurement_gate ==
    /\ probe = "gating"
    /\ \/ errorFile /\ probe' = "ended"
       \/ ~errorFile /\ gateFile /\ probe' = "measuring"
    /\ UNCHANGED <<warmFile, runnerVars, helperVars, suiteVars, answerVars>>

\* A frame failure, a time-out, a crash or the end of the measurement.
ProbeEnds ==
    /\ probe \in {"warming", "gating", "measuring"} /\ probe' = "ended"
    /\ UNCHANGED <<warmFile, runnerVars, helperVars, suiteVars, answerVars>>

NoiseWarms(w) ==
    /\ proc[w] = "warming"
    /\ proc' = [proc EXCEPT ![w] = "ready"] /\ readyFile' = readyFile \cup {w}
    /\ UNCHANGED <<handle, faults, runnerVars, helperVars, probeVars,
                   answerVars>>

NoiseExits(w) ==
    /\ proc[w] \in Running /\ proc' = [proc EXCEPT ![w] = "dead"]
    /\ UNCHANGED <<handle, readyFile, faults, runnerVars, helperVars,
                   probeVars, answerVars>>

TimePasses ==
    /\ helper \in {"poll", "look"} /\ ~late /\ late' = TRUE
    /\ UNCHANGED <<helper, k, runnerVars, suiteVars, probeVars, answerVars>>

-----------------------------------------------------------------------------
Helper ==
    \/ wait_for_camera_warmup \/ SpawnNoise \/ PollNoise \/ LookForReady
    \/ ReadyTimeout \/ AbortNoise \/ CheckProbe \/ PublishGate
    \/ publish_error

Runner ==
    \/ StartAttempt \/ CommandReturns \/ SetProbeDone \/ JoinHelper
    \/ StopNoise \/ NextAttempt \/ Cleanup \/ CleanNoise

Probe == PublishWarmupReady \/ wait_for_measurement_gate \/ ProbeEnds

Next ==
    \/ Helper \/ Runner \/ Probe \/ Signal \/ TimePasses
    \/ \E w \in Noises : NoiseWarms(w) \/ NoiseExits(w)

\* Threads are scheduled, the command has a time-out, and time passes.
Fairness ==
    WF_vars(Helper) /\ WF_vars(Runner) /\ WF_vars(ProbeEnds)
        /\ WF_vars(TimePasses)

Spec == Init /\ [][Next]_vars /\ Fairness

-----------------------------------------------------------------------------
TypeOK ==
    /\ pc \in {"start", "probing", "finish", "join", "stopping", "returned",
               "raised", "cleaning"} \cup Ends
    /\ at \in 0..Count /\ (pc \in {"stopping", "cleaning"} => at > 0)
    /\ attempt \in 1..MaxAttempts
    /\ faults \in 0..MaxFaults /\ signals \in 0..MaxSignals
    /\ helper \in {"off", "waiting", "spawn", "poll", "look", "abort", "check",
                   "publish", "error", "ended"}
    /\ k \in 1..Count
    /\ probe_done \in BOOLEAN /\ late \in BOOLEAN
    /\ warmFile \in BOOLEAN /\ gateFile \in BOOLEAN /\ errorFile \in BOOLEAN
    /\ handle \subseteq Noises /\ readyFile \subseteq Noises
    /\ proc \in [Noises -> {"none", "warming", "ready", "dead", "killed"}]
    /\ probe \in {"none", "warming", "gating", "measuring", "ended"}

\* "The probe first starts and warms every camera with no noise process
\* running" (README.md of the steady benchmark): whatever became of the
\* attempts before, no noise runs while the probe of an attempt warms up.
NoNoiseWhileWarming == probe = "warming" => Alive = {}

\* The probe measures only under the noise that was asked for: every workload
\* has reported ready and the runner has not stopped it.
MeasuredUnderNoise ==
    probe = "measuring" => Noises = readyFile /\ Noises = handle

\* A campaign that no signal interrupted and whose clean-up reports no error
\* has stopped every workload, whatever failed before the clean-up, in the
\* helper's stop_all or in the runner's.
NoNoiseLeft == pc = "over" /\ signals = 0 => Alive = {}

\* What the three invariants rest on: which places of the runner, the helper and
\* the probe go together, how far start_all has come while the command runs, and
\* how far a stop_all has come that nobody works against.
PlacesAgree ==
    /\ pc = "start" => /\ helper = "off" /\ probe = "none"
                       /\ ~warmFile /\ ~gateFile /\ ~probe_done
    /\ pc = "probing" => ~probe_done
    /\ pc \notin {"start", "probing"} => probe \in {"none", "ended"}
    /\ pc \in {"stopping", "returned"} => helper = "ended"
    /\ pc \in {"raised", "cleaning", "over"} /\ signals = 0 =>
         helper \in {"off", "ended"}
    /\ probe = "warming" => ~warmFile /\ helper = "waiting"
    /\ probe = "measuring" => gateFile

Started(i) == Workloads[i] \in handle /\ Workloads[i] \in readyFile

StartedInOrder ==
    pc = "probing" =>
      /\ helper \in {"spawn", "poll", "look"} => \A i \in 1..(k - 1) : Started(i)
      /\ helper \in {"poll", "look"} => Workloads[k] \in handle
      /\ helper \in {"check", "publish"} \/ gateFile =>
           \A i \in 1..Count : Started(i)
      /\ gateFile => helper \in {"ended", "error"}

StoppedFromTheEnd ==
    /\ pc \notin {"raised", "cleaning"} \cup Ends \/ signals = 0 =>
         Alive \subseteq handle
    /\ pc = "stopping" \/ (pc = "cleaning" /\ signals = 0) =>
         \A i \in (at + 1)..Count : Workloads[i] \notin Alive
    /\ pc \in {"start", "returned"} => Alive = {}

IInv ==
    /\ TypeOK /\ PlacesAgree /\ StartedInOrder /\ StoppedFromTheEnd
    /\ NoNoiseWhileWarming /\ NoNoiseLeft

\* An attempt never hangs in finish: the campaign comes to its end.
Termination == <>(pc \in Ends)

\* "Stop any surviving workloads" (docstring of cleanup): no workload survives
\* a clean-up that reports no error.
NoNoiseSurvives == pc = "over" => Alive = {}

=============================================================================
