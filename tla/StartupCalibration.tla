------------------------- MODULE StartupCalibration -------------------------
(***************************************************************************)
(* calibrate_startup_timings.py: five stages of trials, each a full reset  *)
(* of the camera and a run of the probe, from which the shortest wait after *)
(* a recovery, frame time-out, join time-out and delay between cycles are  *)
(* selected.  A stage that selects nothing leaves a safe value for the     *)
(* stages after it.                                                        *)
(***************************************************************************)
EXTENDS StartupProbe

CONSTANTS
    Candidates,       \* by stage: the sorted list of its candidates
    Trials,           \* --trials
    ValidationTrials, \* --validation-trials
    ResetTimes,       \* how long a firmware reset or an enumeration may take
    UsualReset

Tuned == {"settle", "frame", "join", "delay"}

ASSUME CalibrationAssumptions ==
    /\ Candidates \in [Tuned -> Seq(Nat)] /\ \A st \in Tuned : Candidates[st] # <<>>
    /\ Trials \in Nat \ {0} /\ ValidationTrials \in Nat \ {0}
    /\ ResetTimes \subseteq Nat

VARIABLES
    stage,    \* "idle", the stage in progress, or "done"
    place,    \* the candidate (its number) and the trial of it in hand
    settle,   \* the wait of the current reset
    rows,     \* result_rows
    resets,   \* reset_records: what the resets took
    selected, \* by stage: the candidate selected, or None
    applied,  \* effective_validation_settings
    advice,   \* recommendation
    good,     \* history: trials that went well on a camera just reset
    slowest   \* history: the slowest first frame and exit of those

calibration_vars ==
    <<stage, place, settle, rows, resets, selected, applied, advice, good,
      slowest>>

None == -1
Stages == <<"settle", "frame", "join", "delay", "validation">>
Untested == [st \in Tuned |-> None]
NoAdvice == [validated |-> FALSE]

\* --safety-factor 1.5, and the greatest member of a set of times.
Scaled(ms) == Ceil(3 * ms, 2)
Greatest(times) == Max({0} \cup times)

\* metric (max) over the lines of the cycles.
metric(lines, field) ==
    Greatest({lines[i][field] : i \in prefixed_json(lines, "cycle")})

\* parse_probe_output.
parse_probe_output(lines, rc) ==
    LET cycles  == prefixed_json(lines, "cycle")
        results == prefixed_json(lines, "result")
        completed == IF results = {} THEN Cardinality(cycles)
                     ELSE Latest(lines, results).completed
    IN [success |-> /\ rc = 0
                    /\ results # {} /\ Latest(lines, results).success
                    /\ completed = Cycles /\ Cardinality(cycles) = Cycles
                    /\ \A i \in cycles : lines[i].success,
        completed |-> completed,
        first |-> metric(lines, "first"), join |-> metric(lines, "join")]

\* What execute_stage records of a trial whose reset failed.
Unreset == [success |-> FALSE, completed |-> 0, first |-> 0, join |-> 0]

\* summarize_candidates: the candidates of a stage all of whose trials and
\* cycles succeeded, with headroom over the waits of the rows source; the
\* smallest of them is selected.
headroom_required(st, source) ==
    CASE st = "frame" -> Scaled(Greatest({r.first : r \in source}))
      [] st = "join"  -> Ceil(3 * Greatest({r.join : r \in source}) + 2 * poll, 2)
      [] OTHER        -> 0

observed_success(st, candidate, all, trials) ==
    LET chosen == {r \in all : r.stage = st /\ r.candidate = candidate} IN
    /\ Cardinality(chosen) = trials
    /\ \A r \in chosen : r.success
    /\ FoldSet(LAMBDA r, n : r.completed + n, 0, chosen) = trials * Cycles

\* A faulty form: headroom only over the stage's own trials.
OwnStageOnly(st, all, trials, everywhere) ==
    LET qualified ==
          {c \in Range(Candidates[st]) :
             /\ observed_success(st, c, all, trials)
             /\ c >= headroom_required(st, {r \in all : r.stage = st})}
    IN IF qualified = {} THEN None ELSE Min(qualified)

summarize_candidates(st, all, trials, everywhere) ==
    LET qualified ==
          {c \in Range(Candidates[st]) :
             /\ observed_success(st, c, all, trials)
             /\ c >= headroom_required(st,
                       IF everywhere THEN all
                       ELSE {r \in all : r.stage = st /\ r.candidate = c})}
    IN IF qualified = {} THEN None ELSE Min(qualified)

\* The value in force when a stage selected nothing: safe_settings.
safe(st) ==
    LET most == Max(Range(Candidates[st])) IN
    CASE st = "frame" -> Max({3000, most})
      [] st = "join"  -> Max({100, most})
      [] OTHER        -> most

effective(st, choice) == IF choice[st] = None THEN safe(st) ELSE choice[st]

\* The settings of the stage, before its candidate is put in their place.
settings(st) ==
    CASE st \in {"settle", "frame"} ->
           [frame |-> safe("frame"), join |-> safe("join"), delay |-> safe("delay")]
      [] st = "join" ->
           [frame |-> effective("frame", selected), join |-> safe("join"),
            delay |-> safe("delay")]
      [] st = "delay" ->
           [frame |-> effective("frame", selected),
            join |-> effective("join", selected), delay |-> safe("delay")]
      [] st = "validation" ->
           [frame |-> applied.frame, join |-> applied.join, delay |-> applied.delay]

current(st, candidate) ==
    IF st \in {"frame", "join", "delay"}
      THEN [settings(st) EXCEPT ![st] = candidate] ELSE settings(st)

\* The candidates of a stage, and the trials of each; validation has the one
\* candidate 0.
CandidatesOf(st) == IF st = "validation" THEN <<0>> ELSE Candidates[st]
TrialsOf(st) == IF st = "validation" THEN ValidationTrials ELSE Trials

\* The loops of execute_stage: every trial of a candidate, then the next one.
FirstTrial == [candidate |-> 1, trial |-> 1]
NextTrial ==
    IF place.trial < TrialsOf(stage)
      THEN [place EXCEPT !.trial = @ + 1]
      ELSE [candidate |-> place.candidate + 1, trial |-> 1]
StageOver == place.candidate > Len(CandidatesOf(stage))
candidate == CandidatesOf(stage)[place.candidate]

CalibrationInit ==
    /\ stage = "idle" /\ place = FirstTrial /\ settle = 0
    /\ rows = {} /\ resets = {} /\ selected = Untested /\ applied = Untested
    /\ advice = NoAdvice /\ good = {} /\ slowest = [first |-> 0, exit |-> 0]

\* main up to the first stage: it ends when an option is invalid, a tool is
\* missing, the probe cannot be built or the camera does not answer
\* query_device.
Preflight ==
    /\ stage = "idle"
    /\ \/ stage' = "settle" /\ UNCHANGED upsets
       \/ Upset /\ stage' = "refused"
    /\ UNCHANGED <<probe, camera, uvc, place, settle, rows, resets, selected, applied, advice,
                   good, slowest>>

Row(outcome) ==
    [stage |-> stage, candidate |-> candidate, trial |-> place.trial,
     success |-> outcome.success, completed |-> outcome.completed,
     first |-> outcome.first, join |-> outcome.join]

InTrial == stage \in Range(Stages)

\* full_reset, whose three parts are all tried; the probe runs only when all
\* of them succeeded, and otherwise the trial has failed.
reset_success(hardware, usb, enumerated) == hardware /\ usb /\ enumerated

full_reset ==
    /\ InTrial /\ ~StageOver /\ probe.pc = "off"
    /\ \E hardware, usb, enumerated \in BOOLEAN, took \in ResetTimes :
         LET ok == reset_success(hardware, usb, enumerated)
             usual == hardware /\ usb /\ enumerated /\ took = UsualReset
         IN
         /\ IF usual THEN UNCHANGED upsets ELSE Upset
         /\ settle' = IF stage = "settle" THEN candidate
                      ELSE effective("settle", selected)
         /\ resets' = resets \cup {took}
         /\ LET found == IF hardware /\ usb THEN "fresh" ELSE camera IN
            IF ok
              THEN /\ Launch(current(stage, candidate), FALSE, found)
                   /\ UNCHANGED <<rows, place>>
              ELSE /\ camera' = found
                   /\ rows' = rows \cup {Row(Unreset)} /\ place' = NextTrial
                   /\ UNCHANGED <<probe, uvc>>
    /\ UNCHANGED <<stage, selected, applied, advice, good, slowest>>

\* run_probe returns: the process has ended, or the outer time-out has killed
\* it and left a prefix of its lines.
Collected(lines, rc) ==
    LET parsed == parse_probe_output(lines, rc)
        went_well == rc = 0 /\ probe.completed = Cycles /\ probe.fresh
    IN
    /\ rows' = rows \cup {Row(parsed)}
    /\ place' = NextTrial
    /\ good' = IF went_well THEN good \cup {<<stage, candidate, place.trial>>}
               ELSE good
    /\ slowest' = IF went_well
                    THEN [first |-> Max({slowest.first, metric(probe.lines, "first")}),
                          exit |-> Max({slowest.exit, metric(probe.lines, "join")})]
                    ELSE slowest
    /\ probe' = Off
    /\ UNCHANGED <<camera, uvc, stage, settle, resets, selected, applied, advice>>

run_probe ==
    InTrial /\ probe.pc \in {"exited", "crashed"}
      /\ Collected(probe.lines, probe.rc) /\ UNCHANGED upsets

run_probe_timeout ==
    /\ InTrial /\ probe.pc # "off" /\ probe.pc # "crashed" /\ Upset
    /\ \E n \in 0..Len(probe.lines) :
         Collected(SubSeq(probe.lines, 1, n), 124)

\* The end of a stage.  After the fourth, the frame and join time-outs are
\* selected again with headroom over the waits of every stage.
reselect(choice) ==
    [choice EXCEPT
       !["frame"] = summarize_candidates("frame", rows, Trials, TRUE),
       !["join"]  = summarize_candidates("join", rows, Trials, TRUE)]

NextStage ==
    /\ InTrial /\ stage # "validation" /\ StageOver /\ probe.pc = "off"
    /\ LET next == Stages[1 + CHOOSE i \in DOMAIN Stages : Stages[i] = stage]
           own  == [selected EXCEPT
                      ![stage] = summarize_candidates(stage, rows, Trials, FALSE)]
           choice == IF next = "validation" THEN reselect(own) ELSE own
       IN
       /\ selected' = choice
       /\ stage' = next /\ place' = FirstTrial
       /\ applied' = IF next = "validation"
                       THEN [st \in DOMAIN choice |-> effective(st, choice)]
                       ELSE applied
    /\ UNCHANGED <<probe_vars, settle, rows, resets, advice, good, slowest>>

\* rounded_timeout.
rounded_timeout(ms, floor) == Ceil(Max({floor, Scaled(ms) + 1000}), 100) * 100

\* The recommendation: the time-outs are selected once more, with headroom
\* over the validation too.
Recommend ==
    /\ stage = "validation" /\ StageOver /\ probe.pc = "off"
    /\ LET choice == reselect(selected)
           validation_rows == {r \in rows : r.stage = "validation"}
       IN
       /\ selected' = choice
       /\ advice' =
            [validated |-> /\ Cardinality(validation_rows) = ValidationTrials
                           /\ \A r \in validation_rows : r.success
                           /\ \A st \in DOMAIN choice : choice[st] # None,
             selection |-> choice,
             reset_timeout |-> rounded_timeout(Greatest(resets), 5000)]
    /\ stage' = "done"
    /\ UNCHANGED <<probe_vars, place, settle, rows, resets, applied, good,
                   slowest>>

CalibrationNext ==
    \/ Preflight \/ full_reset \/ run_probe \/ run_probe_timeout
    \/ NextStage \/ Recommend

-----------------------------------------------------------------------------
\* A validated recommendation rests on trials that really went well, on a
\* camera that was reset just before: every trial of each selected candidate,
\* and the validation (README: "so a persistent failure from one candidate
\* cannot contaminate the next candidate").  It bears every startup of the
\* calibration slowed down by the safety factor, in whichever stage it was
\* seen, and it waits at least as long as the settings that were validated,
\* though the time-outs are selected again after the validation.
RecommendationIsSafe ==
    (stage = "done" /\ advice.validated) =>
      LET choice == advice.selection IN
      /\ \A st \in DOMAIN choice, t \in 1..Trials : <<st, choice[st], t>> \in good
      /\ \A t \in 1..ValidationTrials : <<"validation", 0, t>> \in good
      /\ 2 * choice.frame >= 3 * slowest.first
      /\ 2 * LastLook(choice.join) >= 3 * slowest.exit
      /\ choice.frame >= applied.frame /\ choice.join >= applied.join
      /\ choice.settle = applied.settle /\ choice.delay = applied.delay
      /\ \A ms \in resets : 2 * advice.reset_timeout >= 3 * ms

-----------------------------------------------------------------------------
(* What makes the recommendation safe, as an inductive invariant. *)

Selections == [Tuned -> Nat \cup {None}]

TrialRows == [stage : Range(Stages), candidate : Nat, trial : Nat, success : BOOLEAN,
              completed : Nat, first : Nat, join : Nat]

Advices == [validated : {FALSE}]
             \cup [validated : BOOLEAN, selection : Selections, reset_timeout : Nat]

CalibrationTypeOK ==
    /\ stage \in Range(Stages) \cup {"idle", "refused", "done", "adopted"}
    /\ place \in [candidate : Nat \ {0}, trial : Nat \ {0}] /\ settle \in Int
    /\ rows \subseteq TrialRows /\ IsFiniteSet(rows)
    /\ resets \subseteq Nat /\ IsFiniteSet(resets)
    /\ selected \in Selections /\ applied \in Selections /\ advice \in Advices
    /\ slowest \in [first : Nat, exit : Nat]

\* The trial t of candidate c in stage st has left a row; all of a stage have.
Tried(st, c, t) == \E r \in rows : r.stage = st /\ r.candidate = c /\ r.trial = t
Explored(st) == \A c \in Range(Candidates[st]), t \in 1..Trials : Tried(st, c, t)

\* The trials of the stage that precede the one in hand have left a row.
TriedSoFar ==
    \A i \in 1..Len(CandidatesOf(stage)), t \in 1..TrialsOf(stage) :
      (i < place.candidate \/ (i = place.candidate /\ t < place.trial)) =>
        Tried(stage, CandidatesOf(stage)[i], t)

Unvalidated == {r \in rows : r.stage # "validation"}

\* The probe runs on a camera just reset; stages that are over are explored;
\* a row that claims success is of a trial that went well; the slowest startup
\* of those is in the rows; what is selected rests on trials that went well;
\* and the settings under validation are those selected before it.
CalibrationInv ==
    /\ stage = "idle" => place = FirstTrial
    /\ stage \in {"idle", "refused", "done"} => probe.pc = "off"
    /\ (InTrial /\ probe.pc # "off") => ~StageOver /\ probe.fresh
    /\ InTrial => TriedSoFar
    /\ stage \in {"join", "delay", "validation"} => Explored("frame")
    /\ stage \in {"delay", "validation"} => Explored("join")
    /\ stage \in {"idle", "settle", "frame", "join", "delay"} => Unvalidated = rows
    /\ \A r \in rows : r.success => <<r.stage, r.candidate, r.trial>> \in good
    /\ stage # "adopted" =>
         /\ slowest.first = 0 \/ \E r \in rows : r.first >= slowest.first
         /\ slowest.exit = 0 \/ \E r \in rows : r.join >= slowest.exit
         /\ \A st \in Tuned : selected[st] # None =>
              \A t \in 1..Trials : <<st, selected[st], t>> \in good
    /\ stage = "validation" =>
         /\ \A st \in {"frame", "join"} :
              selected[st] = summarize_candidates(st, Unvalidated, Trials, TRUE)
         /\ applied = [st \in Tuned |-> effective(st, selected)]
    /\ advice.validated => \A st \in Tuned : advice.selection[st] # None
=============================================================================
