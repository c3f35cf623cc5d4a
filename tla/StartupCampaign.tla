--------------------------- MODULE StartupCampaign ---------------------------
(***************************************************************************)
(* run_startup_campaign.py: logical runs of the traced probe, each with    *)
(* its reset, attempts, recoveries and result row, and the cleanup of the  *)
(* campaign; and the part of parse_startup_trace.py that makes a summary   *)
(* of the phase markers, the printed lines and the kernel log (its thread  *)
(* analysis is ThreadTrace).  The attempt loop is that of attempts.py with *)
(* the callbacks of this campaign.                                         *)
(***************************************************************************)
EXTENDS StartupProbe

CONSTANTS
    Methods,      \* values of --recover-on-failure
    MaxAttempts,  \* --max-attempts-per-run
    Runs          \* --nb-runs times the policies

ASSUME CampaignAssumptions == MaxAttempts \in Nat \ {0} /\ Runs \in Nat \ {0}

VARIABLES
    cpc,
    config,    \* the options, and the settings of the probe
    turn,      \* the logical run
    summary,   \* of the attempt just made
    attempts,  \* attempt_records of the run
    truth,     \* history: how those attempts really went
    final,     \* the last row of the campaign's results
    locked,    \* the CPU frequency is locked
    cleanups   \* how the two cleanup actions ended

campaign_vars ==
    <<cpc, config, turn, summary, attempts, truth, final, locked, cleanups>>

NoResult == [attempt_count |-> 0]

CampaignInit ==
    /\ cpc = "idle" /\ config = <<>> /\ turn = 0 /\ summary = <<>>
    /\ attempts = <<>> /\ truth = <<>> /\ final = NoResult
    /\ locked = FALSE /\ cleanups = <<>>

\* main: more than one attempt requires a recovery method.
Configure(settings) ==
    /\ cpc = "idle" /\ cpc' = "build" /\ turn' = 1
    /\ \E method \in Methods, reset \in BOOLEAN :
         config' = [settings |-> settings, method |-> method,
                    reset_before_run |-> reset,
                    max |-> IF method = "none" THEN 1 ELSE MaxAttempts]
    /\ UNCHANGED <<summary, attempts, truth, final, locked, cleanups>>

\* prebuild_bench: tools, caches and controls are validated, and the probe and
\* the tracer built; any of it may raise.
prebuild_bench ==
    /\ cpc = "build"
    /\ \/ cpc' = "prepare" /\ UNCHANGED upsets
       \/ Upset /\ cpc' = "raised"
    /\ UNCHANGED <<probe, camera, uvc, config, turn, summary, attempts, truth, final,
                   locked, cleanups>>

\* single_run up to the reset: prepare_campaign locks the frequency for the
\* first run, and verifies it for the others; it may raise.
prepare_campaign ==
    /\ cpc = "prepare"
    /\ \/ locked' = TRUE /\ UNCHANGED upsets
          /\ cpc' = IF config.reset_before_run THEN "reset" ELSE "attempt"
       \/ Upset /\ cpc' = "raised" /\ locked' \in {locked, TRUE}
    /\ attempts' = <<>> /\ truth' = <<>> /\ final' = NoResult
    /\ UNCHANGED <<probe, camera, uvc, config, turn, summary, cleanups>>

\* MultiCameraFullReset.reset_before_run, which raises when a part fails.
reset_before_run ==
    /\ cpc = "reset"
    /\ \/ camera' = "fresh" /\ cpc' = "attempt" /\ UNCHANGED upsets
       \/ Upset /\ cpc' = "raised" /\ UNCHANGED camera
    /\ UNCHANGED <<probe, uvc, config, turn, summary, attempts, truth, final, locked,
                   cleanups>>

\* _run_attempt starts the traced probe.
run_attempt ==
    /\ cpc = "attempt" /\ cpc' = "running"
    /\ Launch(config.settings, TRUE, camera)
    /\ UNCHANGED <<upsets, config, turn, summary, attempts, truth, final, locked,
                   cleanups>>

-----------------------------------------------------------------------------
(* parse_startup_trace *)

\* phase_data: when each cycle that began did so, and when it ended; one
\* without an end lasts to the next beginning, or past the last record.
phase_data(markers) ==
    LET At(c, name) == {markers[i].at : i \in {j \in DOMAIN markers :
                          markers[j].cycle = c /\ markers[j].name = name}}
        began == {c \in 1..Cycles : At(c, "begin") # {}}
        trace_end == Max({markers[i].at : i \in DOMAIN markers})
    IN [c \in began |->
          [from |-> Max(At(c, "begin")),
           to |-> CASE At(c, "end") # {} -> Max(At(c, "end"))
                    [] At(c, "end") = {} /\ c + 1 \in began ->
                         Max(At(c + 1, "begin"))
                    [] OTHER -> trace_end + 1]]

\* cycle_at: the first cycle whose bounds hold the time, or 0.
cycle_at(time, bounds) ==
    LET within == {c \in DOMAIN bounds : bounds[c].from <= time
                                           /\ time <= bounds[c].to}
    IN IF within = {} THEN 0 ELSE Min(within)

\* A line of the kernel log belongs to the last marker not after its stamp.
\* A faulty form: a marker of the same time is not before it.
StrictlyBefore(markers, stamp) == {i \in DOMAIN markers : markers[i].at < stamp}
preceding(markers, stamp) == {i \in DOMAIN markers : markers[i].at <= stamp}

uvc_event(markers, stamp) ==
    LET before == preceding(markers, stamp) IN
    [cycle |-> cycle_at(stamp, phase_data(markers)),
     class |-> IF before = {} THEN "other"
               ELSE classify_uvc_phase(Latest(markers, before).name)]

\* The result line, or what the markers say when there is none.
cycles_completed_by_phase(markers) ==
    Cardinality(MarkersOf(markers, "end"))

final_result(markers, lines) ==
    LET results == prefixed_json(lines, "result") IN
    IF results # {}
      THEN [success |-> Latest(lines, results).success,
            completed |-> Latest(lines, results).completed]
      ELSE [success |-> FALSE, completed |-> cycles_completed_by_phase(markers)]

parse_startup_trace(markers, lines, log) ==
    LET result == final_result(markers, lines)
        errors == prefixed_json(lines, "error")
    IN [success |-> result.success, completed |-> result.completed,
        device |-> prefixed_json(lines, "device") # {},
        error |-> IF errors = {} THEN "none" ELSE Latest(lines, errors).error,
        process_error |-> MarkersOf(markers, "process_error") # {},
        successful_cycles |->
          Cardinality(SuccessfulCycles(lines)),
        uvc |-> [i \in DOMAIN log |-> uvc_event(markers, log[i].stamp)]]
-----------------------------------------------------------------------------

\* _run_attempt after the process: the kernel log may not have been captured.
\* A time-out has killed the process, and adds an error line, and process_error
\* to the summary.
\* A faulty form: the output is believed.
BelieveOutput(parsed) == parsed
timed_out(parsed) == [parsed EXCEPT !.process_error = TRUE]

Summarized(lines, timeout) ==
    /\ \E log \in {uvc, <<>>} :
         LET parsed == parse_startup_trace(probe.markers, lines, log)
         IN summary' = IF timeout THEN timed_out(parsed) ELSE parsed
    /\ truth' = Append(truth, [clean |-> ~timeout /\ probe.rc = 0,
                               completed |-> probe.completed,
                               killed |-> timeout, fresh |-> probe.fresh])
    /\ cpc' = "classify" /\ probe' = [probe EXCEPT !.pc = IF timeout THEN "killed" ELSE @]
    /\ UNCHANGED <<camera, uvc, config, turn, attempts, final, locked, cleanups>>

AttemptEnds ==
    /\ cpc = "running" /\ probe.pc = "exited"
    /\ Summarized(probe.lines, FALSE) /\ UNCHANGED upsets

\* subprocess.TimeoutExpired: the probe or LiME is killed, at any point.
AttemptTimesOut ==
    /\ cpc = "running" /\ probe.pc \notin {"off", "crashed"} /\ Upset
    /\ \E n \in 0..Len(probe.lines) :
         Summarized(Append(SubSeq(probe.lines, 1, n),
                           [kind |-> "error", error |-> "outer-timeout"]), TRUE)

\* An exit status other than 0 to 3 raises out of the campaign.
AttemptCrashes ==
    /\ cpc = "running" /\ probe.pc = "crashed"
    /\ cpc' = "raised" /\ probe' = Off
    /\ UNCHANGED <<camera, upsets, uvc, config, turn, summary, attempts, truth, final,
                   locked, cleanups>>

\* classify_attempt.
Succeeded(s) == s.success /\ ~s.process_error

Record(recovered) ==
    attempts' = Append(attempts,
                  [success |-> Succeeded(summary), completed |-> summary.completed,
                   error |-> summary.error, recovered |-> recovered])

\* The loop goes on after a failure while attempts remain.
Continue ==
    cpc' = IF ~Succeeded(summary) /\ Len(attempts) + 1 < config.max
             THEN "attempt" ELSE "finish"

classify_attempt ==
    /\ cpc = "classify" /\ probe' = Off
    /\ \/ /\ ~Succeeded(summary) /\ config.method # "none"
          /\ cpc' = "recover" /\ UNCHANGED attempts
       \/ /\ Succeeded(summary) \/ config.method = "none"
          /\ Record("none") /\ Continue
    /\ UNCHANGED <<camera, upsets, uvc, config, turn, summary, truth, final, locked,
                   cleanups>>

\* recover_attempt.  _recover_usb_device and _recover_depth_prime find the
\* camera by the device line of the attempt, _recover_full_reset by its
\* serial.  A USB reset may leave the camera as it was; priming succeeds when
\* the camera delivers frames.
Recovered(outcome, after) ==
    /\ camera' = after
    /\ Record(outcome) /\ Continue
    /\ UNCHANGED <<probe, uvc, config, turn, summary, truth, final, locked, cleanups>>

recover_usb_device ==
    /\ cpc = "recover" /\ config.method = "usb"
    /\ \/ /\ summary.device /\ UNCHANGED upsets
          /\ \E after \in {camera, "fresh"} : Recovered("ok", after)
       \/ ~summary.device /\ UNCHANGED upsets /\ Recovered("failed", camera)
       \/ summary.device /\ Upset /\ Recovered("failed", camera)

recover_depth_prime ==
    /\ cpc = "recover" /\ config.method = "depth-prime"
    /\ \/ summary.device /\ UNCHANGED upsets /\ Recovered("ok", "used")
       \/ ~summary.device /\ UNCHANGED upsets /\ Recovered("failed", camera)
       \/ summary.device /\ Upset /\ Recovered("failed", camera)

recover_full_reset ==
    /\ cpc = "recover" /\ config.method = "full-reset"
    /\ \/ UNCHANGED upsets /\ Recovered("ok", "fresh")
       \/ Upset /\ Recovered("failed", camera)

\* The end of run_attempt_loop and of single_run, and parse_output_to_results.
finish_run ==
    /\ cpc = "finish"
    /\ final' = [attempt_count |-> Len(attempts),
               failed |-> Cardinality({i \in DOMAIN attempts : ~attempts[i].success}),
               initial_attempt_success |-> attempts[1].success,
               eventual_success |-> Succeeded(summary),
               workload_success |-> summary.success,
               process_error |-> summary.process_error,
               cycles_completed |-> summary.completed,
               cycles_successful |-> summary.successful_cycles]
    /\ \/ turn < Runs /\ turn' = turn + 1 /\ cpc' = "prepare"
       \/ turn = Runs /\ cpc' = "ended" /\ UNCHANGED turn
    /\ UNCHANGED <<probe_vars, config, summary, attempts, truth, locked, cleanups>>

\* _run_campaign_with_cleanup: the V4L2 binding, then the frequency; the
\* failure of one does not keep the other from being tried.
clean_up ==
    /\ cpc \in {"ended", "raised"} /\ Len(cleanups) < 2
    /\ \/ /\ cleanups' = Append(cleanups, "ok") /\ UNCHANGED upsets
          /\ locked' = IF Len(cleanups) = 1 THEN FALSE ELSE locked
       \/ Upset /\ cleanups' = Append(cleanups, "failed") /\ UNCHANGED locked
    /\ UNCHANGED <<probe, camera, uvc, cpc, config, turn, summary, attempts, truth,
                   final>>

CampaignNext ==
    \/ prebuild_bench \/ prepare_campaign \/ reset_before_run \/ run_attempt
    \/ AttemptEnds \/ AttemptTimesOut \/ AttemptCrashes
    \/ classify_attempt \/ recover_usb_device \/ recover_depth_prime
    \/ recover_full_reset \/ finish_run \/ clean_up

-----------------------------------------------------------------------------
\* What the campaign records is what happened.  An attempt is recorded as
\* successful exactly when its process ended by itself, in time, with every
\* cycle done; it is credited with the cycles it really completed, whatever
\* part of its output a time-out lost; and the row of the run hides neither a
\* first attempt that failed nor a last one that was killed (README: eventual
\* success "must not be treated as a failure-free camera run").  An attempt
\* after a full reset that is recorded as successful found a camera just
\* reset, and so did the first attempt when the run resets its camera.
RecordsAreHonest ==
    /\ \A i \in DOMAIN attempts :
         /\ attempts[i].success <=> truth[i].clean
         /\ attempts[i].completed = truth[i].completed
         /\ truth[i].killed => attempts[i].error = "outer-timeout"
    /\ \A i \in DOMAIN truth :
         \/ truth[i].fresh
         \/ i = 1 /\ ~config.reset_before_run
         \/ i > 1 /\ (config.method # "full-reset"
                        \/ attempts[i - 1].recovered = "failed")
    /\ final # NoResult =>
         /\ final.attempt_count = Len(truth)
         /\ final.failed = Cardinality({i \in DOMAIN truth : ~truth[i].clean})
         /\ final.initial_attempt_success <=> truth[1].clean
         /\ final.eventual_success <=> truth[Len(truth)].clean
         /\ final.eventual_success =>
              /\ final.workload_success /\ ~final.process_error
              /\ final.cycles_completed = Cycles /\ final.cycles_successful = Cycles
    /\ (cpc \in {"ended", "raised"} /\ Len(cleanups) = 2) =>
         (locked => "failed" \in Range(cleanups))

\* A line of the kernel log is counted under the phase the probe was really
\* in, and in the cycle it was in, unless it came so close to a marker that
\* its rounded stamp is earlier than the marker, or while an exception was
\* destroying the pipeline, which no marker shows.
NearMarker(line) ==
    \E m \in Range(probe.markers) : line.stamp < m.at /\ m.at <= line.at
UvcAttributed ==
    cpc = "classify" =>
      \A i \in DOMAIN summary.uvc :
        (~NearMarker(uvc[i]) /\ uvc[i].pc # "unwind") =>
          /\ summary.uvc[i].class = uvc[i].doing
          /\ (~truth[Len(truth)].killed /\ uvc[i].pc \notin {"delay", "result"}) =>
               summary.uvc[i].cycle = uvc[i].cycle

-----------------------------------------------------------------------------
(* What makes the records honest, as an inductive invariant. *)

Configs == [settings : Settings, method : Methods, reset_before_run : BOOLEAN,
            max : Nat]

ErrorKinds == {"none", "librealsense", "application", "outer-timeout"}

AttemptRecords ==
    [success : BOOLEAN, completed : Nat, error : ErrorKinds,
     recovered : {"none", "ok", "failed"}]

Truths == [clean : BOOLEAN, completed : Nat, killed : BOOLEAN, fresh : BOOLEAN]

CampaignPCs == {"idle", "build", "prepare", "reset", "attempt", "running",
                "classify", "recover", "finish", "ended", "raised"}

CampaignTypeOK ==
    /\ cpc \in CampaignPCs /\ (cpc # "idle" => config \in Configs)
    /\ turn \in Nat /\ attempts \in Seq(AttemptRecords) /\ truth \in Seq(Truths)
    /\ locked \in BOOLEAN /\ cleanups \in Seq({"ok", "failed"})

\* The summary of an attempt agrees with how the attempt went.
Agrees(s, t) ==
    /\ s.success \in BOOLEAN /\ s.process_error \in BOOLEAN
    /\ s.completed \in Nat /\ s.error \in ErrorKinds
    /\ Succeeded(s) <=> t.clean
    /\ s.completed = t.completed
    /\ t.killed => s.error = "outer-timeout"
    /\ t.clean => s.completed = Cycles /\ s.successful_cycles = Cycles

\* Whether the next attempt, or the one in progress, has to find the camera
\* fresh from a reset.
FreshDue ==
    IF attempts = <<>> THEN config.reset_before_run
    ELSE config.method = "full-reset" /\ attempts[Len(attempts)].recovered # "failed"

CampaignInv ==
    /\ cpc \notin {"idle", "running", "classify"} => probe.pc = "off"
    /\ Len(truth) = Len(attempts) + (IF cpc \in {"classify", "recover"} THEN 1 ELSE 0)
    /\ cpc \in {"classify", "recover", "finish"} =>
         truth # <<>> /\ Agrees(summary, truth[Len(truth)])
    /\ cpc \in {"idle", "build", "reset"} => attempts = <<>>
    /\ cpc = "attempt" => (FreshDue => camera = "fresh")
    /\ cpc = "running" => (FreshDue => probe.fresh)
    /\ cpc \notin {"prepare", "ended"} => final = NoResult
    /\ cpc \notin {"ended", "raised"} => cleanups = <<>>
    /\ Len(cleanups) = 2 => (locked => "failed" \in Range(cleanups))

\* The probe and the kernel log agree, and an attempt that is judged is over.
TraceInv ==
    /\ probe.pc # "off" =>
         /\ MarksInv(probe)
         /\ (Alive /\ probe.pc # "unwind") =>
              /\ probe.markers # <<>>
              /\ classify_uvc_phase(probe.markers[Len(probe.markers)].name) = Doing
         /\ \A i \in DOMAIN uvc : LineInv(probe, uvc[i])
    /\ cpc = "classify" =>
         /\ probe.pc \in {"exited", "killed"}
         /\ truth # <<>> /\ (truth[Len(truth)].killed <=> probe.pc = "killed")
=============================================================================
