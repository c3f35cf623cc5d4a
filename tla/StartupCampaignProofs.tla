----------------------- MODULE StartupCampaignProofs -------------------------
(***************************************************************************)
(* What the startup campaign records of an attempt is what happened in it, *)
(* and the lines of the kernel log are attributed to what the probe did.   *)
(***************************************************************************)
EXTENDS StartupCampaign, StartupProbeProofs

-----------------------------------------------------------------------------
(* What parse_startup_trace makes of an attempt.                           *)

LEMMA ErrorKnown ==
    ASSUME NEW lines \in Seq(OutputLines), NEW i \in prefixed_json(lines, "error")
    PROVE  lines[i].error \in ErrorKinds
<1>1. lines[i] \in OutputLines /\ lines[i].kind = "error"
  BY Zenon, SeqFacts DEF prefixed_json
<1> QED BY Zenon, <1>1 DEF OutputLines, ErrorKinds

\* The parts of the summary of any output.
LEMMA ParsedFacts ==
    ASSUME NEW markers, NEW lines \in Seq(OutputLines), NEW log
    PROVE  LET s == parse_startup_trace(markers, lines, log)
               r == final_result(markers, lines)
           IN /\ s.success = r.success /\ s.completed = r.completed
              /\ s.error \in ErrorKinds
              /\ s.process_error = (MarkersOf(markers, "process_error") # {})
              /\ s.successful_cycles = Cardinality(SuccessfulCycles(lines))
<1> DEFINE s == parse_startup_trace(markers, lines, log)
           errors == prefixed_json(lines, "error")
<1>1. /\ s.success = final_result(markers, lines).success
      /\ s.completed = final_result(markers, lines).completed
      /\ s.process_error = (MarkersOf(markers, "process_error") # {})
      /\ s.successful_cycles = Cardinality(SuccessfulCycles(lines))
      /\ s.error = IF errors = {} THEN "none" ELSE Latest(lines, errors).error
  BY Zenon DEF parse_startup_trace
<1>2. s.error \in ErrorKinds
  <2>1. CASE errors = {} BY Zenon, <1>1, <2>1 DEF ErrorKinds
  <2>2. CASE errors # {}
    <3>1. Max(errors) \in errors BY Zenon, <2>2, LatestFacts
    <3> QED BY Zenon, <1>1, <2>2, <3>1, ErrorKnown DEF Latest
  <2> QED BY Zenon, <2>1, <2>2
<1> QED BY Zenon, <1>1, <1>2

\* The result line of any part of the output, or the markers, tell how many
\* cycles were completed.
LEMMA ResultFacts ==
    ASSUME probe \in ProbeProcesses, Reports(probe), NEW lines \in Seq(OutputLines),
           \A i \in prefixed_json(lines, "result") :
             i \in prefixed_json(probe.lines, "result") /\ lines[i] = probe.lines[i]
    PROVE  LET r == final_result(probe.markers, lines) IN
           /\ r.success \in BOOLEAN /\ r.completed = probe.completed
           /\ r.success => probe.completed = Cycles
           /\ prefixed_json(lines, "result") = {} => ~r.success
           /\ prefixed_json(lines, "result") # {} =>
                (r.success <=> probe.completed = Cycles)
<1> DEFINE r == final_result(probe.markers, lines)
           results == prefixed_json(lines, "result")
<1>1. CASE results = {}
  <2>1. r = [success |-> FALSE, completed |-> cycles_completed_by_phase(probe.markers)]
    BY Zenon, <1>1 DEF final_result
  <2>2. cycles_completed_by_phase(probe.markers) = probe.completed
    BY Zenon DEF cycles_completed_by_phase, Reports
  <2> QED BY <1>1, <2>1, <2>2
<1>2. CASE results # {}
  <2>1. Max(results) \in results BY Zenon, <1>2, LatestFacts
  <2>2. r = [success |-> lines[Max(results)].success,
             completed |-> lines[Max(results)].completed]
    BY Zenon, <1>2 DEF final_result, Latest
  <2>3. /\ Max(results) \in prefixed_json(probe.lines, "result")
        /\ lines[Max(results)] = probe.lines[Max(results)]
    BY Zenon, <2>1
  <2>4. /\ probe.lines[Max(results)].success <=> probe.completed = Cycles
        /\ probe.lines[Max(results)].completed = probe.completed
    BY Zenon, <2>3 DEF Reports
  <2>5. probe.lines[Max(results)].success \in BOOLEAN
    <3>1. probe.lines \in Seq(OutputLines) BY Zenon DEF ProbeProcesses
    <3>2. /\ probe.lines[Max(results)] \in OutputLines
          /\ probe.lines[Max(results)].kind = "result"
      BY Zenon, <2>3, <3>1, SeqFacts DEF prefixed_json
    <3> QED BY Zenon, <3>2 DEF OutputLines
  <2> HIDE DEF results, r
  <2>6. r.success = probe.lines[Max(results)].success
          /\ r.completed = probe.lines[Max(results)].completed
    BY Zenon, <2>2, <2>3
  <2> QED BY Zenon, <1>2, <2>4, <2>5, <2>6 DEF results, r
<1> QED BY Zenon, <1>1, <1>2

\* An attempt that ended by itself.
LEMMA EndedAgrees ==
    ASSUME ProbeTypeOK, ProbeReports, probe.pc = "exited", NEW log, NEW t \in Truths,
           t.clean <=> probe.rc = 0, t.completed = probe.completed, ~t.killed
    PROVE  Agrees(parse_startup_trace(probe.markers, probe.lines, log), t)
<1> DEFINE s == parse_startup_trace(probe.markers, probe.lines, log)
           r == final_result(probe.markers, probe.lines)
           results == prefixed_json(probe.lines, "result")
           failed == MarkersOf(probe.markers, "process_error") # {}
<1>1. /\ probe \in ProbeProcesses /\ Reports(probe) /\ probe.lines \in Seq(OutputLines)
      /\ probe.completed \in Nat
  BY Zenon DEF ProbeTypeOK, ProbeReports, ProbeProcesses
<1>2. /\ r.success \in BOOLEAN /\ r.completed = probe.completed
      /\ results = {} => ~r.success
      /\ results # {} => (r.success <=> probe.completed = Cycles)
  BY Zenon, <1>1, ResultFacts
<1>3. /\ s.success = r.success /\ s.completed = r.completed /\ s.error \in ErrorKinds
      /\ s.process_error = failed
      /\ s.successful_cycles = Cardinality(SuccessfulCycles(probe.lines))
  <2>1. s.process_error = failed BY DEF parse_startup_trace
  <2>2. /\ s.success = r.success /\ s.completed = r.completed
        /\ s.successful_cycles = Cardinality(SuccessfulCycles(probe.lines))
    BY Zenon DEF parse_startup_trace
  <2>3. s.error \in ErrorKinds BY Zenon, <1>1, ParsedFacts
  <2> QED BY Zenon, <2>1, <2>2, <2>3
<1>4. Cardinality(SuccessfulCycles(probe.lines)) = probe.completed
  BY Zenon, <1>1 DEF Reports
<1>5. \/ probe.rc \in {1, 2} /\ results = {} /\ failed
      \/ /\ results # {} /\ ~failed
         /\ probe.rc = IF probe.completed = Cycles THEN 0 ELSE 3
  BY Zenon, <1>1 DEF Reports
<1>6. failed \in BOOLEAN BY Zenon
<1> HIDE DEF s, r, results, failed
<1>7. Succeeded(s) <=> t.clean
  BY <1>2, <1>3, <1>5, <1>6 DEF Succeeded
<1>8. t.clean => s.completed = Cycles /\ s.successful_cycles = Cycles
  BY <1>2, <1>3, <1>4, <1>5
<1> QED BY Zenon, <1>1, <1>2, <1>3, <1>6, <1>7, <1>8 DEF Agrees, s

\* An attempt that was killed.
LEMMA KilledAgrees ==
    ASSUME ProbeTypeOK, ProbeReports, NEW n \in 0..Len(probe.lines), NEW log,
           NEW t \in Truths, ~t.clean, t.completed = probe.completed
    PROVE  Agrees(timed_out(parse_startup_trace(probe.markers,
                     Append(SubSeq(probe.lines, 1, n),
                            [kind |-> "error", error |-> "outer-timeout"]), log)), t)
<1> DEFINE line == [kind |-> "error", error |-> "outer-timeout"]
           sub == SubSeq(probe.lines, 1, n)
           lines == Append(sub, line)
           s == parse_startup_trace(probe.markers, lines, log)
           r == final_result(probe.markers, lines)
           errors == prefixed_json(lines, "error")
<1>1. /\ probe \in ProbeProcesses /\ Reports(probe) /\ probe.lines \in Seq(OutputLines)
      /\ probe.completed \in Nat
  BY Zenon DEF ProbeTypeOK, ProbeReports, ProbeProcesses
<1>2. line \in OutputLines /\ line.kind = "error" /\ line.error = "outer-timeout"
  BY Zenon DEF OutputLines
<1>3. /\ sub \in Seq(OutputLines) /\ Len(sub) = n
      /\ \A i \in 1..n : sub[i] = probe.lines[i]
  <2>1. Len(probe.lines) \in Nat BY Zenon, <1>1, SeqFacts
  <2>2. n \in Nat /\ n <= Len(probe.lines) BY <2>1
  <2>3. sub \in Seq(OutputLines) BY <1>1, <2>1, <2>2
  <2>4. Len(sub) = n BY <1>1, <2>1, <2>2
  <2>5. \A i \in 1..n : sub[i] = probe.lines[i] BY <1>1, <2>1, <2>2
  <2> QED BY Zenon, <2>3, <2>4, <2>5
<1>4. 1..n \subseteq DOMAIN probe.lines /\ n \in Nat BY <1>1, SeqFacts
<1> HIDE DEF line, sub
<1>5. /\ lines \in Seq(OutputLines) /\ DOMAIN lines = 1..n \cup {n + 1}
      /\ Len(lines) = n + 1
      /\ \A i \in 1..n : lines[i] = sub[i]
      /\ lines[n + 1] = line
  <2>1. DOMAIN sub = 1..n BY Zenon, <1>3, SeqFacts
  <2> QED BY <1>2, <1>3, <2>1, AppendFacts
<1> HIDE DEF lines
<1>6. \A i \in prefixed_json(lines, "result") :
        i \in prefixed_json(probe.lines, "result") /\ lines[i] = probe.lines[i]
  BY Zenon, <1>2, <1>3, <1>4, <1>5 DEF prefixed_json
<1>7. r.success \in BOOLEAN /\ r.completed = probe.completed
  BY Zenon, <1>1, <1>5, <1>6, ResultFacts
<1>8. s.success = r.success /\ s.completed = r.completed
  BY <1>5, ParsedFacts
<1>9. s.error = "outer-timeout"
  <2>1. n + 1 \in errors BY Zenon, <1>2, <1>5 DEF prefixed_json
  <2>2. Max(errors) \in errors /\ \A i \in errors : i <= Max(errors)
    BY Zenon, <1>5, <2>1, LatestFacts
  <2>3. \A i \in errors : i \in 1..(n + 1) BY <1>4, <1>5 DEF prefixed_json
  <2>4. Max(errors) = n + 1
    <3> HIDE DEF errors
    <3> QED BY <1>4, <2>1, <2>2, <2>3
  <2>5. s.error = IF errors = {} THEN "none" ELSE Latest(lines, errors).error
    BY Zenon DEF parse_startup_trace
  <2> QED BY Zenon, <1>2, <1>5, <2>1, <2>4, <2>5 DEF Latest
<1>10. LET q == timed_out(s) IN
       q.process_error = TRUE /\ q.success = s.success /\ q.completed = s.completed
         /\ q.error = s.error
  BY Zenon DEF timed_out, parse_startup_trace
<1> DEFINE q == timed_out(s)
<1> HIDE DEF r, s, q
<1>11. /\ q.process_error = TRUE /\ q.success = s.success /\ q.completed = s.completed
       /\ q.error = s.error
  BY Zenon, <1>10 DEF q
<1>12. Agrees(q, t)
  BY Zenon, <1>1, <1>7, <1>8, <1>9, <1>11 DEF Agrees, Succeeded, ErrorKinds, Truths
<1> QED BY Zenon, <1>12 DEF q, s, lines, sub, line

-----------------------------------------------------------------------------
(* The campaign: its records.                                              *)

\* The parts of RecordsAreHonest that a step can disturb.
RecordsAgree ==
    \A i \in DOMAIN attempts :
      /\ attempts[i].success <=> truth[i].clean
      /\ attempts[i].completed = truth[i].completed
      /\ truth[i].killed => attempts[i].error = "outer-timeout"

FreshShown ==
    \A i \in DOMAIN truth :
      \/ truth[i].fresh
      \/ i = 1 /\ ~config.reset_before_run
      \/ i > 1 /\ (config.method # "full-reset"
                     \/ attempts[i - 1].recovered = "failed")

FinalAgrees ==
    final # NoResult =>
      /\ final.attempt_count = Len(truth)
      /\ final.failed = Cardinality({i \in DOMAIN truth : ~truth[i].clean})
      /\ final.initial_attempt_success <=> truth[1].clean
      /\ final.eventual_success <=> truth[Len(truth)].clean
      /\ final.eventual_success =>
           /\ final.workload_success /\ ~final.process_error
           /\ final.cycles_completed = Cycles /\ final.cycles_successful = Cycles

HonestSoFar == RecordsAgree /\ FreshShown /\ FinalAgrees

LEMMA HonestFromParts == ASSUME HonestSoFar, CampaignInv PROVE RecordsAreHonest
BY Zenon DEF HonestSoFar, RecordsAgree, FreshShown, FinalAgrees, CampaignInv, RecordsAreHonest

\* What a step of the campaign has to keep, and keeps.
CampaignKept == ProbeTypeOK /\ ProbeReports /\ CampaignTypeOK /\ CampaignInv /\ HonestSoFar

\* A step that leaves the records alone.
LEMMA SameRecords ==
    ASSUME HonestSoFar, UNCHANGED <<attempts, truth, final, config>>
    PROVE  HonestSoFar'
BY Zenon DEF HonestSoFar, RecordsAgree, FreshShown, FinalAgrees

LEMMA NoRecords ==
    ASSUME attempts' = <<>>, truth' = <<>>, final' = NoResult
    PROVE  HonestSoFar'
BY DEF HonestSoFar, RecordsAgree, FreshShown, FinalAgrees

LEMMA CampaignStepKeeps == ASSUME CampaignKept, CampaignNext PROVE CampaignKept'
<1>ProbeGone.
    ASSUME ProbeTypeOK, probe' = Off, uvc' = uvc, camera' = camera, upsets' = upsets
    PROVE  ProbeTypeOK' /\ ProbeReports' /\ probe'.pc = "off"
  BY Zenon, <1>ProbeGone, OffFacts DEF ProbeTypeOK, ProbeReports
<1>BuildKeeps. ASSUME prebuild_bench PROVE CampaignKept'
  <2> USE <1>BuildKeeps
  <2> USE DEF CampaignKept
  <2>1. /\ cpc = "build" /\ cpc' \in {"prepare", "raised"} /\ upsets' \in Nat
        /\ UNCHANGED <<probe, camera, uvc, config, turn, summary, attempts, truth, final,
                       locked, cleanups>>
    BY DEF prebuild_bench, Upset, ProbeTypeOK
  <2>2. ProbeTypeOK' /\ ProbeReports' BY Zenon, <2>1, SameProbe DEF ProbeTypeOK
  <2>3. HonestSoFar' BY Zenon, <2>1, SameRecords
  <2>4. CampaignTypeOK' BY Zenon, <2>1 DEF CampaignTypeOK, CampaignPCs
  <2>5. CampaignInv' BY Zenon, <2>1 DEF CampaignInv
  <2> QED BY Zenon, <2>2, <2>3, <2>4, <2>5
<1>PrepareKeeps. ASSUME prepare_campaign PROVE CampaignKept'
  <2> USE <1>PrepareKeeps
  <2> USE DEF CampaignKept
  <2>1. /\ cpc = "prepare" /\ cpc' \in {"reset", "attempt", "raised"} /\ upsets' \in Nat
        /\ cpc' = "attempt" => ~config.reset_before_run
        /\ locked' \in BOOLEAN /\ attempts' = <<>> /\ truth' = <<>> /\ final' = NoResult
        /\ UNCHANGED <<probe, camera, uvc, config, turn, summary, cleanups>>
    <3>1. /\ cpc = "prepare" /\ attempts' = <<>> /\ truth' = <<>> /\ final' = NoResult
          /\ UNCHANGED <<probe, camera, uvc, config, turn, summary, cleanups>>
      BY Zenon DEF prepare_campaign
    <3>2. upsets' \in Nat
      <4>1. upsets' = upsets \/ Upset BY Zenon DEF prepare_campaign
      <4> QED BY <4>1 DEF Upset, ProbeTypeOK
    <3>3. locked' \in BOOLEAN
      <4>1. locked \in BOOLEAN BY Zenon DEF CampaignTypeOK
      <4>2. locked' = TRUE \/ locked' \in {locked, TRUE} BY Zenon DEF prepare_campaign
      <4> QED BY <4>1, <4>2, Zenon
    <3>4. /\ cpc' \in {"reset", "attempt", "raised"}
          /\ cpc' = "attempt" => ~config.reset_before_run
      BY Zenon DEF prepare_campaign
    <3> QED BY Zenon, <3>1, <3>2, <3>3, <3>4
  <2>2. ProbeTypeOK' /\ ProbeReports' BY Zenon, <2>1, SameProbe DEF ProbeTypeOK
  <2>3. HonestSoFar' BY Zenon, <2>1, NoRecords
  <2>4. CampaignTypeOK' BY <2>1 DEF CampaignTypeOK, CampaignPCs
  <2>5. CampaignInv'
    <3>1. cleanups = <<>> /\ probe.pc = "off" BY Zenon, <2>1 DEF CampaignInv
    <3>2. Len(cleanups) = 0 BY Zenon, <3>1
    <3>3. Len(truth') = 0 /\ Len(attempts') = 0 BY Zenon, <2>1
    <3> QED BY <2>1, <3>1, <3>2, <3>3 DEF CampaignInv, FreshDue
  <2> QED BY Zenon, <2>2, <2>3, <2>4, <2>5
<1>ResetKeeps. ASSUME reset_before_run PROVE CampaignKept'
  <2> USE <1>ResetKeeps
  <2> USE DEF CampaignKept
  <2>1. /\ cpc = "reset" /\ upsets' \in Nat
        /\ \/ cpc' = "attempt" /\ camera' = "fresh"
           \/ cpc' = "raised" /\ camera' = camera
        /\ UNCHANGED <<probe, uvc, config, turn, summary, attempts, truth, final, locked,
                       cleanups>>
    BY DEF reset_before_run, Upset, ProbeTypeOK
  <2>2. ProbeTypeOK' /\ ProbeReports' BY Zenon, <2>1, SameProbe DEF ProbeTypeOK
  <2>3. HonestSoFar' BY Zenon, <2>1, SameRecords
  <2>4. CampaignTypeOK' BY Zenon, <2>1 DEF CampaignTypeOK, CampaignPCs
  <2>5. CampaignInv' BY Zenon, <2>1 DEF CampaignInv
  <2> QED BY Zenon, <2>2, <2>3, <2>4, <2>5
<1>RunAttemptKeeps. ASSUME run_attempt PROVE CampaignKept'
  <2> USE <1>RunAttemptKeeps
  <2> USE DEF CampaignKept
  <2>1. /\ cpc = "attempt" /\ cpc' = "running" /\ Launch(config.settings, TRUE, camera)
        /\ UNCHANGED <<upsets, config, turn, summary, attempts, truth, final, locked,
                       cleanups>>
    BY Zenon DEF run_attempt
  <2>2. config.settings \in Settings BY Zenon, <2>1 DEF CampaignTypeOK, Configs
  <2>3. camera \in {"fresh", "used", "wedged"} BY Zenon DEF ProbeTypeOK
  <2>4. /\ probe' \in ProbeProcesses /\ ProbeReports'
        /\ camera' \in {"fresh", "used", "wedged"} /\ uvc' \in Seq(KernelLines)
        /\ probe'.pc = "open" /\ (probe'.fresh <=> camera = "fresh")
    BY Zenon, <2>1, <2>2, <2>3, LaunchFacts
  <2>5. ProbeTypeOK' BY Zenon, <2>1, <2>4 DEF ProbeTypeOK
  <2>6. HonestSoFar' BY Zenon, <2>1, SameRecords
  <2>7. CampaignTypeOK' BY Zenon, <2>1 DEF CampaignTypeOK, CampaignPCs
  <2>8. CampaignInv' BY Zenon, <2>1, <2>4 DEF CampaignInv, FreshDue
  <2> QED BY Zenon, <2>4, <2>5, <2>6, <2>7, <2>8
\* The end of an attempt, by itself or not.
<1>SummarizedKeeps.
    ASSUME cpc = "running", NEW lines, NEW timeout \in BOOLEAN,
           Summarized(lines, timeout), upsets' \in Nat,
           NEW t, t = [clean |-> ~timeout /\ probe.rc = 0, completed |-> probe.completed,
                       killed |-> timeout, fresh |-> probe.fresh],
           Agrees(summary', t), timeout => probe.pc # "crashed"
    PROVE  CampaignKept'
  <2> USE <1>SummarizedKeeps
  <2> USE DEF CampaignKept
  <2>1. /\ truth' = Append(truth, t) /\ cpc' = "classify"
        /\ probe' = [probe EXCEPT !.pc = IF timeout THEN "killed" ELSE @]
        /\ UNCHANGED <<camera, uvc, config, turn, attempts, final, locked, cleanups>>
    BY Zenon DEF Summarized
  <2>2. /\ probe \in ProbeProcesses /\ probe.pc \in ProbePCs /\ probe.fresh \in BOOLEAN
        /\ probe.completed \in Nat /\ probe.rc \in Int
    BY Zenon DEF ProbeTypeOK, ProbeProcesses
  <2>3. t \in Truths /\ t.fresh = probe.fresh
    <3>1. (~timeout /\ probe.rc = 0) \in BOOLEAN BY Zenon
    <3> QED BY Zenon, <2>2, <3>1 DEF Truths
  <2>4. ProbeTypeOK' /\ ProbeReports'
    <3>1. CASE timeout
      <4>1. probe' = [probe EXCEPT !.pc = "killed"] BY Zenon, <2>1, <3>1
      <4>2. probe' \in ProbeProcesses BY Zenon, <2>2, <4>1 DEF ProbeProcesses, ProbePCs
      <4>3. /\ probe'.pc = "killed" /\ probe'.markers = probe.markers
            /\ probe'.lines = probe.lines /\ probe'.completed = probe.completed
        BY <2>2, <4>1 DEF ProbeProcesses
      <4>4. Reports(probe')
        <5>1. probe.pc # "crashed" => Reports(probe')
          BY Zenon, <4>3 DEF ProbeReports, Reports
        <5>2. probe.pc # "crashed"
          BY Zenon, <3>1
        <5> QED BY Zenon, <5>1, <5>2
      <4> QED BY Zenon, <2>1, <4>2, <4>4 DEF ProbeTypeOK, ProbeReports
    <3>2. CASE ~timeout
      <4>1. probe' = probe BY Zenon, <2>1, <2>2, <3>2 DEF ProbeProcesses
      <4> QED BY Zenon, <2>1, <4>1, SameProbe DEF ProbeTypeOK
    <3> QED BY <3>1, <3>2
  <2>5. /\ truth \in Seq(Truths) /\ attempts \in Seq(AttemptRecords)
        /\ Len(truth) = Len(attempts) /\ final = NoResult
    <3>1. cpc \notin {"classify", "recover", "prepare", "ended"} BY Zenon
    <3>2. Len(truth) = Len(attempts) + 0 /\ final = NoResult BY Zenon, <3>1 DEF CampaignInv
    <3>3. truth \in Seq(Truths) /\ attempts \in Seq(AttemptRecords) BY Zenon DEF CampaignTypeOK
    <3> QED BY <3>2, <3>3
  <2>6. /\ Len(attempts) \in Nat /\ DOMAIN attempts = 1..Len(attempts)
        /\ DOMAIN truth = 1..Len(attempts)
    BY Zenon, <2>5, SeqFacts
  <2>7. /\ truth' \in Seq(Truths) /\ Len(truth') = Len(attempts) + 1
        /\ DOMAIN truth' = DOMAIN truth \cup {Len(attempts) + 1}
        /\ \A i \in DOMAIN truth : truth'[i] = truth[i]
        /\ truth'[Len(attempts) + 1] = t
    BY <2>1, <2>3, <2>5, AppendFacts
  <2>8. HonestSoFar'
    <3>1. RecordsAgree' BY <2>1, <2>6, <2>7 DEF HonestSoFar, RecordsAgree
    <3>2. FreshShown'
      <4> SUFFICES ASSUME NEW i \in DOMAIN truth'
                   PROVE  \/ truth'[i].fresh
                          \/ i = 1 /\ ~config.reset_before_run
                          \/ i > 1 /\ (config.method # "full-reset"
                                         \/ attempts[i - 1].recovered = "failed")
        BY Zenon, <2>1 DEF FreshShown
      <4>1. CASE i \in DOMAIN truth BY Zenon, <2>7, <4>1 DEF HonestSoFar, FreshShown
      <4>2. CASE i = Len(attempts) + 1
        <5>1. truth'[i].fresh = probe.fresh BY Zenon, <2>3, <2>7, <4>2
        <5>2. FreshDue => probe.fresh BY Zenon DEF CampaignInv
        <5>3. CASE attempts = <<>>
          <6>1. i = 1 BY <4>2, <5>3
          <6> QED BY Zenon, <5>1, <5>2, <5>3, <6>1 DEF FreshDue
        <5>4. CASE attempts # <<>>
          <6>1. Len(attempts) > 0 BY <2>5, <5>4, SeqFacts
          <6>2. i > 1 /\ i - 1 = Len(attempts) BY <2>6, <4>2, <6>1
          <6> QED BY <5>1, <5>2, <5>4, <6>2 DEF FreshDue
        <5> QED BY Zenon, <5>3, <5>4
      <4> QED BY Zenon, <2>7, <4>1, <4>2
    <3>3. FinalAgrees' BY Zenon, <2>1, <2>5 DEF FinalAgrees
    <3> QED BY Zenon, <3>1, <3>2, <3>3 DEF HonestSoFar
  <2>9. CampaignTypeOK' BY Zenon, <2>1, <2>7 DEF CampaignTypeOK, CampaignPCs
  <2>10. CampaignInv'
    <3>1. truth' # <<>> BY <2>6, <2>7
    <3>2. Agrees(summary', truth'[Len(truth')]) BY Zenon, <2>7
    <3> QED BY Zenon, <2>1, <2>5, <2>7, <3>1, <3>2 DEF CampaignInv, Agrees, Succeeded
  <2> QED BY Zenon, <2>4, <2>8, <2>9, <2>10
<1>EndsKeeps. ASSUME AttemptEnds PROVE CampaignKept'
  <2> USE <1>EndsKeeps
  <2> USE DEF CampaignKept
  <2> DEFINE t == [clean |-> ~FALSE /\ probe.rc = 0, completed |-> probe.completed,
                   killed |-> FALSE, fresh |-> probe.fresh]
  <2>1. /\ cpc = "running" /\ probe.pc = "exited" /\ Summarized(probe.lines, FALSE)
        /\ upsets' = upsets
    BY Zenon DEF AttemptEnds
  <2>2. PICK log \in {uvc, <<>>} :
          summary' = parse_startup_trace(probe.markers, probe.lines, log)
    BY Zenon, <2>1 DEF Summarized
  <2>3. probe.completed \in Nat /\ probe.fresh \in BOOLEAN BY Zenon DEF ProbeTypeOK, ProbeProcesses
  <2>4. t \in Truths /\ (t.clean <=> probe.rc = 0) /\ t.completed = probe.completed
          /\ ~t.killed
    BY Zenon, <2>3 DEF Truths
  <2> HIDE DEF t
  <2>5. Agrees(parse_startup_trace(probe.markers, probe.lines, log), t)
    BY Zenon, <2>1, <2>4, EndedAgrees
  <2>6. Agrees(summary', t) BY Zenon, <2>2, <2>5
  <2>7. upsets' \in Nat BY Zenon, <2>1 DEF ProbeTypeOK
  <2> QED BY Zenon, <2>1, <2>6, <2>7, <1>SummarizedKeeps DEF t
<1>TimesOutKeeps. ASSUME AttemptTimesOut PROVE CampaignKept'
  <2> USE <1>TimesOutKeeps
  <2> USE DEF CampaignKept
  <2> DEFINE t == [clean |-> ~TRUE /\ probe.rc = 0, completed |-> probe.completed,
                   killed |-> TRUE, fresh |-> probe.fresh]
             line == [kind |-> "error", error |-> "outer-timeout"]
  <2>1. cpc = "running" /\ probe.pc \notin {"off", "crashed"} /\ upsets' \in Nat
    BY DEF AttemptTimesOut, Upset, ProbeTypeOK
  <2>2. PICK n \in 0..Len(probe.lines) :
          Summarized(Append(SubSeq(probe.lines, 1, n), line), TRUE)
    BY Zenon DEF AttemptTimesOut
  <2> DEFINE lines == Append(SubSeq(probe.lines, 1, n), line)
  <2>3. PICK log \in {uvc, <<>>} :
          summary' = timed_out(parse_startup_trace(probe.markers, lines, log))
    BY Zenon, <2>2 DEF Summarized
  <2>4. probe.completed \in Nat /\ probe.fresh \in BOOLEAN BY Zenon DEF ProbeTypeOK, ProbeProcesses
  <2>5. t \in Truths /\ ~t.clean /\ t.completed = probe.completed
    BY Zenon, <2>4 DEF Truths
  <2>6. Agrees(timed_out(parse_startup_trace(probe.markers, lines, log)), t)
    <3> HIDE DEF t
    <3> QED BY Zenon, <2>5, KilledAgrees
  <2> HIDE DEF t, lines
  <2>7. Agrees(summary', t) BY Zenon, <2>3, <2>6
  <2>8. Summarized(lines, TRUE) BY Zenon, <2>2 DEF lines
  <2> QED BY Zenon, <2>1, <2>7, <2>8, <1>SummarizedKeeps DEF t
<1>CrashesKeeps. ASSUME AttemptCrashes PROVE CampaignKept'
  <2> USE <1>CrashesKeeps
  <2> USE DEF CampaignKept
  <2>1. /\ cpc = "running" /\ cpc' = "raised" /\ probe' = Off
        /\ UNCHANGED <<camera, upsets, uvc, config, turn, summary, attempts, truth, final,
                       locked, cleanups>>
    BY Zenon DEF AttemptCrashes
  <2>2. ProbeTypeOK' /\ ProbeReports' /\ probe'.pc = "off" BY Zenon, <2>1, <1>ProbeGone
  <2>3. HonestSoFar' BY Zenon, <2>1, SameRecords
  <2>4. CampaignTypeOK' BY Zenon, <2>1 DEF CampaignTypeOK, CampaignPCs
  <2>5. CampaignInv' BY Zenon, <2>1, <2>2 DEF CampaignInv
  <2> QED BY <2>2, <2>3, <2>4, <2>5
\* What recording the attempt in hand does.
<1>RecordFacts.
    ASSUME cpc \in {"classify", "recover"},
           NEW outcome \in {"none", "ok", "failed"}, Record(outcome),
           UNCHANGED <<truth, final, config>>
    PROVE  /\ attempts' \in Seq(AttemptRecords) /\ attempts' # <<>>
           /\ Len(attempts') = Len(truth) /\ Len(attempts') = Len(attempts) + 1
           /\ attempts'[Len(attempts')].recovered = outcome
           /\ truth # <<>> /\ HonestSoFar'
  <2> USE <1>RecordFacts
  <2> USE DEF CampaignKept
  <2> DEFINE a == [success |-> Succeeded(summary), completed |-> summary.completed,
                   error |-> summary.error, recovered |-> outcome]
             last == truth[Len(truth)]
  <2>1. attempts' = Append(attempts, a) BY Zenon DEF Record
  <2>2. truth # <<>> /\ Agrees(summary, last) /\ Len(truth) = Len(attempts) + 1
          /\ final = NoResult
    BY Zenon DEF CampaignInv
  <2>3. a \in AttemptRecords
    <3>1. Succeeded(summary) \in BOOLEAN BY Zenon, <2>2 DEF Agrees, Succeeded
    <3> QED BY Zenon, <2>2, <3>1 DEF Agrees, AttemptRecords
  <2>4. /\ a.success = Succeeded(summary) /\ a.completed = summary.completed
        /\ a.error = summary.error /\ a.recovered = outcome
    BY Zenon
  <2>5. attempts \in Seq(AttemptRecords) /\ truth \in Seq(Truths) BY Zenon DEF CampaignTypeOK
  <2> HIDE DEF a
  <2>6. /\ attempts' \in Seq(AttemptRecords) /\ Len(attempts') = Len(attempts) + 1
        /\ DOMAIN attempts' = DOMAIN attempts \cup {Len(attempts) + 1}
        /\ \A i \in DOMAIN attempts : attempts'[i] = attempts[i]
        /\ attempts'[Len(attempts) + 1] = a
    BY <2>1, <2>3, <2>5, AppendFacts
  <2>7. /\ Len(attempts) \in Nat /\ DOMAIN attempts = 1..Len(attempts)
        /\ DOMAIN truth = 1..(Len(attempts) + 1)
    BY Zenon, <2>2, <2>5, SeqFacts
  <2>8. attempts' # <<>> BY <2>6, <2>7
  <2>9. RecordsAgree'
    <3> SUFFICES ASSUME NEW i \in DOMAIN attempts'
                 PROVE  /\ attempts'[i].success <=> truth[i].clean
                        /\ attempts'[i].completed = truth[i].completed
                        /\ truth[i].killed => attempts'[i].error = "outer-timeout"
      BY Zenon DEF RecordsAgree
    <3>1. CASE i \in DOMAIN attempts BY Zenon, <2>6, <3>1 DEF HonestSoFar, RecordsAgree
    <3>2. CASE i = Len(attempts) + 1
      <4>1. truth[i] = last BY Zenon, <2>2, <3>2
      <4>2. attempts'[i] = a BY Zenon, <2>6, <3>2
      <4> QED BY Zenon, <2>2, <2>4, <4>1, <4>2 DEF Agrees
    <3> QED BY <2>6, <3>1, <3>2
  <2>10. FreshShown'
    <3> SUFFICES ASSUME NEW i \in DOMAIN truth
                 PROVE  \/ truth[i].fresh
                        \/ i = 1 /\ ~config.reset_before_run
                        \/ i > 1 /\ (config.method # "full-reset"
                                       \/ attempts'[i - 1].recovered = "failed")
      BY Zenon DEF FreshShown
    <3>1. i > 1 => i - 1 \in DOMAIN attempts BY <2>7
    <3>2. i > 1 => attempts'[i - 1] = attempts[i - 1] BY Zenon, <2>6, <3>1
    <3> QED BY Zenon, <3>2 DEF HonestSoFar, FreshShown
  <2>11. FinalAgrees' BY Zenon, <2>2 DEF FinalAgrees
  <2> QED BY Zenon, <2>2, <2>4, <2>6, <2>8, <2>9, <2>10, <2>11 DEF HonestSoFar
\* What follows the record, when a new attempt would find the camera it needs.
<1>ContinueKeeps.
    ASSUME cpc \in {"classify", "recover"},
           NEW outcome \in {"none", "ok", "failed"}, Record(outcome), Continue,
           UNCHANGED <<truth, final, config, turn, summary, locked, cleanups>>,
           ProbeTypeOK', ProbeReports', probe'.pc = "off",
           (~Succeeded(summary) /\ config.method = "full-reset" /\ outcome # "failed") =>
             camera' = "fresh"
    PROVE  CampaignKept'
  <2> USE <1>ContinueKeeps
  <2> USE DEF CampaignKept
  <2>1. /\ attempts' \in Seq(AttemptRecords) /\ attempts' # <<>>
        /\ Len(attempts') = Len(truth) /\ Len(attempts') = Len(attempts) + 1
        /\ attempts'[Len(attempts')].recovered = outcome
        /\ truth # <<>> /\ HonestSoFar'
    BY Zenon, <1>RecordFacts
  <2>2. /\ cpc' \in {"attempt", "finish"}
        /\ cpc' = "attempt" => ~Succeeded(summary)
    BY Zenon DEF Continue
  <2>3. CampaignTypeOK' BY Zenon, <2>1, <2>2 DEF CampaignTypeOK, CampaignPCs
  <2>4. CampaignInv'
    <3>1. Agrees(summary, truth[Len(truth)]) /\ final = NoResult /\ cleanups = <<>>
      BY Zenon DEF CampaignInv
    <3>2. Len(cleanups) # 2 BY <3>1
    <3>3. Agrees(summary', truth'[Len(truth')]) BY Zenon, <3>1
    <3>4. cpc' = "attempt" => (FreshDue' => camera' = "fresh")
      BY Zenon, <2>1, <2>2 DEF FreshDue
    <3>5. Len(truth') = Len(attempts') BY Zenon, <2>1
    <3>6. /\ final' = NoResult /\ cleanups' = <<>> /\ Len(cleanups') # 2 /\ truth' # <<>>
      BY Zenon, <2>1, <3>1, <3>2
    <3> QED BY <2>1, <2>2, <3>3, <3>4, <3>5, <3>6 DEF CampaignInv
  <2> QED BY Zenon, <2>1, <2>3, <2>4
<1>ClassifyKeeps. ASSUME classify_attempt PROVE CampaignKept'
  <2> USE <1>ClassifyKeeps
  <2> USE DEF CampaignKept
  <2>1. /\ cpc = "classify" /\ probe' = Off
        /\ UNCHANGED <<camera, upsets, uvc, config, turn, summary, truth, final, locked,
                       cleanups>>
    BY Zenon DEF classify_attempt
  <2>2. ProbeTypeOK' /\ ProbeReports' /\ probe'.pc = "off" BY Zenon, <2>1, <1>ProbeGone
  <2>3. CASE cpc' = "recover" /\ attempts' = attempts
    <3>1. HonestSoFar' BY Zenon, <2>1, <2>3, SameRecords
    <3>2. CampaignTypeOK' BY Zenon, <2>1, <2>3 DEF CampaignTypeOK, CampaignPCs
    <3>3. CampaignInv' BY Zenon, <2>1, <2>2, <2>3 DEF CampaignInv, Agrees, Succeeded
    <3> QED BY Zenon, <2>2, <3>1, <3>2, <3>3
  <2>4. CASE (Succeeded(summary) \/ config.method = "none") /\ Record("none") /\ Continue
    BY <2>1, <2>2, <2>4, <1>ContinueKeeps
  <2> QED BY Zenon, <2>3, <2>4 DEF classify_attempt
<1>RecoveredKeeps.
    ASSUME cpc = "recover", NEW outcome \in {"ok", "failed"},
           NEW after \in {"fresh", "used", "wedged"}, Recovered(outcome, after),
           upsets' \in Nat,
           (config.method = "full-reset" /\ outcome # "failed") => after = "fresh"
    PROVE  CampaignKept'
  <2> USE <1>RecoveredKeeps
  <2> USE DEF CampaignKept
  <2>1. /\ camera' = after /\ Record(outcome) /\ Continue
        /\ UNCHANGED <<probe, uvc, config, turn, summary, truth, final, locked, cleanups>>
    BY Zenon DEF Recovered
  <2>2. ProbeTypeOK' /\ ProbeReports' BY Zenon, <2>1, SameProbe
  <2>3. probe'.pc = "off" BY <2>1 DEF CampaignInv
  <2> QED BY <2>1, <2>2, <2>3, <1>ContinueKeeps
<1>RecoverKeeps.
    ASSUME recover_usb_device \/ recover_depth_prime \/ recover_full_reset
    PROVE  CampaignKept'
  <2> USE <1>RecoverKeeps
  <2>1. cpc = "recover" /\ camera \in {"fresh", "used", "wedged"} /\ upsets' \in Nat
    BY DEF CampaignKept, ProbeTypeOK, recover_usb_device, recover_depth_prime,
           recover_full_reset, Upset
  <2>2. CASE recover_usb_device
    <3>1. config.method # "full-reset" BY Zenon, <2>2 DEF recover_usb_device
    <3>2. \E outcome \in {"ok", "failed"}, after \in {"fresh", "used", "wedged"} :
            Recovered(outcome, after)
      BY Zenon, <2>1, <2>2 DEF recover_usb_device
    <3> QED BY Zenon, <2>1, <3>1, <3>2, <1>RecoveredKeeps
  <2>3. CASE recover_depth_prime
    <3>1. config.method # "full-reset" BY Zenon, <2>3 DEF recover_depth_prime
    <3>2. \E outcome \in {"ok", "failed"}, after \in {"fresh", "used", "wedged"} :
            Recovered(outcome, after)
      BY Zenon, <2>1, <2>3 DEF recover_depth_prime
    <3> QED BY <2>1, <3>1, <3>2, <1>RecoveredKeeps
  <2>4. CASE recover_full_reset
    <3>1. Recovered("ok", "fresh") \/ Recovered("failed", camera)
      BY Zenon, <2>4 DEF recover_full_reset
    <3> QED BY Zenon, <2>1, <3>1, <1>RecoveredKeeps
  <2> QED BY <2>2, <2>3, <2>4
<1>FinishKeeps. ASSUME finish_run PROVE CampaignKept'
  <2> USE <1>FinishKeeps
  <2> USE DEF CampaignKept
  <2> DEFINE row == [attempt_count |-> Len(attempts),
                     failed |-> Cardinality({i \in DOMAIN attempts : ~attempts[i].success}),
                     initial_attempt_success |-> attempts[1].success,
                     eventual_success |-> Succeeded(summary),
                     workload_success |-> summary.success,
                     process_error |-> summary.process_error,
                     cycles_completed |-> summary.completed,
                     cycles_successful |-> summary.successful_cycles]
  <2>1. /\ cpc = "finish" /\ final' = row /\ cpc' \in {"prepare", "ended"}
        /\ turn' \in {turn, turn + 1}
        /\ UNCHANGED <<probe_vars, config, summary, attempts, truth, locked, cleanups>>
    BY Zenon DEF finish_run
  <2>2. /\ truth # <<>> /\ Agrees(summary, truth[Len(truth)])
        /\ Len(truth) = Len(attempts) /\ probe.pc = "off" /\ cleanups = <<>>
    <3>1. cpc \notin {"classify", "recover"} BY Zenon, <2>1
    <3>2. Len(truth) = Len(attempts) + 0 BY Zenon, <3>1 DEF CampaignInv
    <3>3. attempts \in Seq(AttemptRecords) BY Zenon DEF CampaignTypeOK
    <3>4. truth # <<>> /\ Agrees(summary, truth[Len(truth)]) /\ probe.pc = "off"
            /\ cleanups = <<>>
      BY <2>1 DEF CampaignInv
    <3> QED BY <3>2, <3>3, <3>4
  <2>3. attempts \in Seq(AttemptRecords) /\ truth \in Seq(Truths) BY Zenon DEF CampaignTypeOK
  <2>4. /\ Len(attempts) \in Nat /\ DOMAIN attempts = 1..Len(attempts)
        /\ DOMAIN truth = 1..Len(attempts) /\ Len(attempts) > 0
    BY Zenon, <2>2, <2>3, SeqFacts
  <2>5. RecordsAgree /\ FreshShown BY Zenon DEF HonestSoFar
  <2>6. \A i \in DOMAIN attempts : attempts[i].success <=> truth[i].clean
    BY Zenon, <2>5 DEF RecordsAgree
  <2>7. {i \in DOMAIN attempts : ~attempts[i].success} = {i \in DOMAIN truth : ~truth[i].clean}
    BY Zenon, <2>4, <2>6
  <2>8. /\ row.attempt_count = Len(truth)
        /\ row.failed = Cardinality({i \in DOMAIN truth : ~truth[i].clean})
        /\ row.initial_attempt_success <=> truth[1].clean
        /\ row.eventual_success <=> truth[Len(truth)].clean
        /\ row.eventual_success =>
             /\ row.workload_success /\ ~row.process_error
             /\ row.cycles_completed = Cycles /\ row.cycles_successful = Cycles
    <3>1. /\ row.attempt_count = Len(truth)
          /\ row.failed = Cardinality({i \in DOMAIN truth : ~truth[i].clean})
      BY Zenon, <2>2, <2>7
    <3>2. row.initial_attempt_success = attempts[1].success /\ 1 \in DOMAIN attempts
      BY <2>4
    <3>3. row.initial_attempt_success <=> truth[1].clean BY Zenon, <2>6, <3>2
    <3>4. /\ row.eventual_success = Succeeded(summary)
          /\ row.workload_success = summary.success
          /\ row.process_error = summary.process_error
          /\ row.cycles_completed = summary.completed
          /\ row.cycles_successful = summary.successful_cycles
      BY Zenon
    <3> HIDE DEF row
    <3>5. row.eventual_success <=> truth[Len(truth)].clean BY Zenon, <2>2, <3>4 DEF Agrees
    <3>6. row.eventual_success => row.workload_success /\ ~row.process_error
      BY Zenon, <2>2, <3>4 DEF Agrees, Succeeded
    <3>7. row.eventual_success =>
            row.cycles_completed = Cycles /\ row.cycles_successful = Cycles
      BY Zenon, <2>2, <3>4, <3>5 DEF Agrees
    <3> QED BY Zenon, <3>1, <3>3, <3>5, <3>6, <3>7
  <2> HIDE DEF row
  <2>9. HonestSoFar'
    <3>1. RecordsAgree' /\ FreshShown' BY Zenon, <2>1, <2>5 DEF RecordsAgree, FreshShown
    <3>2. FinalAgrees' BY Zenon, <2>1, <2>8 DEF FinalAgrees
    <3> QED BY Zenon, <3>1, <3>2 DEF HonestSoFar
  <2>10. ProbeTypeOK' /\ ProbeReports'
    BY Zenon, <2>1 DEF ProbeTypeOK, ProbeReports, probe_vars
  <2>11. CampaignTypeOK' BY <2>1 DEF CampaignTypeOK, CampaignPCs
  <2>12. CampaignInv'
    <3>1. Len(cleanups) # 2 BY <2>2
    <3>2. probe' = probe BY Zenon, <2>1 DEF probe_vars
    <3> QED BY Zenon, <2>1, <2>2, <3>1, <3>2 DEF CampaignInv
  <2> QED BY Zenon, <2>9, <2>10, <2>11, <2>12
<1>CleanUpKeeps. ASSUME clean_up PROVE CampaignKept'
  <2> USE <1>CleanUpKeeps
  <2> USE DEF CampaignKept
  <2>1. /\ cpc \in {"ended", "raised"} /\ Len(cleanups) < 2 /\ upsets' \in Nat
        /\ UNCHANGED <<probe, camera, uvc, cpc, config, turn, summary, attempts, truth,
                       final>>
    <3>1. upsets' = upsets \/ Upset BY Zenon DEF clean_up
    <3>2. upsets' \in Nat BY <3>1 DEF Upset, ProbeTypeOK
    <3> QED BY Zenon, <3>2 DEF clean_up
  <2>2. cleanups \in Seq({"ok", "failed"}) /\ locked \in BOOLEAN BY Zenon DEF CampaignTypeOK
  <2>3. \/ /\ cleanups' = Append(cleanups, "ok")
           /\ locked' = IF Len(cleanups) = 1 THEN FALSE ELSE locked
        \/ cleanups' = Append(cleanups, "failed") /\ locked' = locked
    BY Zenon DEF clean_up
  <2>4. PICK word \in {"ok", "failed"} : cleanups' = Append(cleanups, word) BY Zenon, <2>3
  <2>5. /\ cleanups' \in Seq({"ok", "failed"}) /\ Len(cleanups') = Len(cleanups) + 1
        /\ DOMAIN cleanups' = DOMAIN cleanups \cup {Len(cleanups) + 1}
        /\ cleanups'[Len(cleanups) + 1] = word
    BY <2>2, <2>4, AppendFacts
  <2>6. locked' \in BOOLEAN BY <2>2, <2>3, Zenon
  <2>7. Len(cleanups') = 2 => (locked' => "failed" \in Range(cleanups'))
    <3>1. CASE word = "failed" BY Zenon, <2>5, <3>1 DEF Range
    <3>2. CASE word = "ok"
      <4>1. cleanups' # Append(cleanups, "failed")
        <5>1. Append(cleanups, "failed")[Len(cleanups) + 1] = "failed"
          BY <2>2, AppendFacts
        <5> QED BY <2>5, <3>2, <5>1
      <4>2. locked' = IF Len(cleanups) = 1 THEN FALSE ELSE locked BY Zenon, <2>3, <4>1
      <4>3. Len(cleanups) \in Nat BY Zenon, <2>2, SeqFacts
      <4>4. Len(cleanups') = 2 => Len(cleanups) = 1
        <5>1. Len(cleanups') = Len(cleanups) + 1 BY Zenon, <2>5
        <5>2. \A n \in Nat : n + 1 = 2 => n = 1 OBVIOUS
        <5> QED BY Zenon, <4>3, <5>1, <5>2
      <4>5. Len(cleanups') = 2 => ~locked' BY Zenon, <4>2, <4>4
      <4> QED BY Zenon, <4>5
    <3> QED BY Zenon, <3>1, <3>2
  <2>8. ProbeTypeOK' /\ ProbeReports' BY Zenon, <2>1, SameProbe DEF ProbeTypeOK
  <2>9. HonestSoFar' BY Zenon, <2>1, SameRecords
  <2>10. CampaignTypeOK' BY <2>1, <2>5, <2>6 DEF CampaignTypeOK
  <2>11. CampaignInv' BY Zenon, <2>1, <2>7 DEF CampaignInv
  <2> QED BY Zenon, <2>8, <2>9, <2>10, <2>11
<1> QED BY Zenon, <1>BuildKeeps, <1>PrepareKeeps, <1>ResetKeeps, <1>RunAttemptKeeps, <1>EndsKeeps, <1>TimesOutKeeps,
   <1>CrashesKeeps, <1>ClassifyKeeps, <1>RecoverKeeps, <1>FinishKeeps, <1>CleanUpKeeps
   DEF CampaignNext

-----------------------------------------------------------------------------
(* The attribution of the kernel log.                                      *)

\* The times of some markers, and the last of them.
Times(m, places) == {m[i].at : i \in places}

\* In the state the next step of the loop finds, the attempt is over.
AttemptOver ==
    cpc = "classify" =>
      /\ probe.pc \in {"exited", "killed"}
      /\ truth # <<>> /\ (truth[Len(truth)].killed <=> probe.pc = "killed")

LEMMA TraceParts ==
    /\ TraceInv <=> Traced /\ AttemptOver
    /\ TraceInv' <=> Traced' /\ AttemptOver'
BY Zenon DEF TraceInv, Traced, AttemptOver, Shown

\* The end of an attempt: its summary is made of the markers as they are.
LEMMA SummaryAttributed ==
    ASSUME ProbeTypeOK, Traced, CampaignTypeOK, NEW lines, NEW timeout \in BOOLEAN,
           Summarized(lines, timeout), probe.pc # "off",
           ~timeout => probe.pc = "exited"
    PROVE  Traced' /\ AttemptOver' /\ UvcAttributed'
<1>LastTime.
    ASSUME NEW m \in Seq(LifecycleMarkers), NEW clock \in Nat,
           \A i \in DOMAIN m : m[i].at <= clock,
           NEW places, places \subseteq DOMAIN m, places # {}
    PROVE  /\ Max(Times(m, places)) \in Nat
           /\ \E i \in places : m[i].at = Max(Times(m, places))
           /\ \A i \in places : m[i].at <= Max(Times(m, places))
  <2> USE <1>LastTime
  <2>1. \A i \in DOMAIN m : m[i] \in LifecycleMarkers BY Zenon, SeqFacts
  <2>2. \A i \in DOMAIN m : m[i].at \in Nat BY Zenon, <2>1 DEF LifecycleMarkers
  <2> DEFINE T == Times(m, places)
  <2>3. /\ T \subseteq Nat /\ T # {} /\ \A t \in T : t <= clock
        /\ \A t \in T : \E i \in places : m[i].at = t
        /\ \A i \in places : m[i].at \in T
    BY Zenon, <2>2 DEF Times
  <2> HIDE DEF T
  <2>4. Max(T) \in T /\ \A t \in T : t <= Max(T) BY Zenon, <2>3, GreatestIsMax
  <2> QED BY Zenon, <2>3, <2>4 DEF T
\* phase_data, with the places of the markers.
<1>PhaseData.
    ASSUME NEW m
    PROVE  LET began == {c \in 1..Cycles : CycleMarks(m, c, "begin") # {}} IN
           /\ DOMAIN phase_data(m) = began
           /\ \A c \in began :
                /\ phase_data(m)[c].from = Max(Times(m, CycleMarks(m, c, "begin")))
                /\ CycleMarks(m, c, "end") # {} =>
                     phase_data(m)[c].to = Max(Times(m, CycleMarks(m, c, "end")))
                /\ (CycleMarks(m, c, "end") = {} /\ c + 1 \notin began) =>
                     phase_data(m)[c].to = Max(Times(m, DOMAIN m)) + 1
  <2> USE <1>PhaseData
  <2> DEFINE At(c, name) == Times(m, CycleMarks(m, c, name))
             began == {c \in 1..Cycles : At(c, "begin") # {}}
             end == Max(Times(m, DOMAIN m))
             bounds == [c \in began |->
                          [from |-> Max(At(c, "begin")),
                           to |-> CASE At(c, "end") # {} -> Max(At(c, "end"))
                                    [] At(c, "end") = {} /\ c + 1 \in began ->
                                         Max(At(c + 1, "begin"))
                                    [] OTHER -> end + 1]]
  <2>1. phase_data(m) = bounds BY Zenon DEF phase_data, Times, CycleMarks
  <2>2. \A c, name : At(c, name) = {} <=> CycleMarks(m, c, name) = {} BY Zenon DEF Times
  <2>3. began = {c \in 1..Cycles : CycleMarks(m, c, "begin") # {}} BY Zenon, <2>2
  <2>4. DOMAIN bounds = began BY Zenon
  <2>5. ASSUME NEW c \in began
        PROVE  /\ bounds[c].from = Max(At(c, "begin"))
               /\ CycleMarks(m, c, "end") # {} => bounds[c].to = Max(At(c, "end"))
               /\ (CycleMarks(m, c, "end") = {} /\ c + 1 \notin began) =>
                    bounds[c].to = end + 1
    <3> DEFINE to == CASE At(c, "end") # {} -> Max(At(c, "end"))
                       [] At(c, "end") = {} /\ c + 1 \in began -> Max(At(c + 1, "begin"))
                       [] OTHER -> end + 1
    <3>1. bounds[c] = [from |-> Max(At(c, "begin")), to |-> to] BY Zenon
    <3>2. CycleMarks(m, c, "end") # {} => to = Max(At(c, "end"))
      <4>1. CycleMarks(m, c, "end") # {} => At(c, "end") # {} BY Zenon, <2>2
      <4> HIDE DEF At, began, end
      <4> QED BY Zenon, <4>1
    <3>3. (CycleMarks(m, c, "end") = {} /\ c + 1 \notin began) => to = end + 1
      <4>1. CycleMarks(m, c, "end") = {} => At(c, "end") = {} BY Zenon, <2>2
      <4> HIDE DEF At, began, end
      <4> QED BY Zenon, <4>1
    <3> HIDE DEF to, bounds
    <3>4. bounds[c].from = Max(At(c, "begin")) /\ bounds[c].to = to BY <3>1
    <3> QED BY Zenon, <3>2, <3>3, <3>4
  <2> HIDE DEF bounds
  <2> QED BY Zenon, <2>1, <2>3, <2>4, <2>5 DEF end, began
\* The class of a line that came late enough after the last marker.
<1>ClassAttributed.
    ASSUME probe \in ProbeProcesses, NEW line \in KernelLines, LineInv(probe, line),
           ~NearMarker(line), line.pc # "unwind"
    PROVE  uvc_event(probe.markers, line.stamp).class = line.doing
  <2> USE <1>ClassAttributed
  <2> DEFINE m == probe.markers
             before == preceding(m, line.stamp)
  <2>1. m \in Seq(LifecycleMarkers) /\ line.stamp \in Nat /\ line.at \in Nat
          /\ line.stamp <= line.at
    BY Zenon DEF ProbeProcesses, KernelLines, LineInv
  <2>2. PICK k \in DOMAIN m : /\ m[k].at <= line.at
                              /\ classify_uvc_phase(m[k].name) = line.doing
                              /\ \A j \in DOMAIN m : j > k => m[j].at > line.at
    BY Zenon DEF LineInv
  <2> HIDE DEF m
  <2>3. \A i \in DOMAIN m : m[i].at \in Nat /\ i \in Nat /\ i <= Len(m)
    <3>1. \A i \in DOMAIN m : m[i] \in LifecycleMarkers BY Zenon, <2>1, SeqFacts
    <3>2. \A i \in DOMAIN m : i \in Nat /\ i <= Len(m) BY <2>1, SeqFacts
    <3> QED BY Zenon, <3>1, <3>2 DEF LifecycleMarkers
  <2>4. m[k].at <= line.stamp
    <3>1. m[k] \in Range(m) BY Zenon DEF Range
    <3>2. ~(line.stamp < m[k].at) BY <2>2, <3>1 DEF NearMarker, m
    <3> QED BY <2>1, <2>3, <3>2
  <2>5. before = {i \in DOMAIN m : m[i].at <= line.stamp} BY Zenon DEF preceding
  <2> HIDE DEF before
  <2>6. k \in before /\ \A j \in before : j <= k
    <3>1. k \in before BY Zenon, <2>4, <2>5
    <3>2. ASSUME NEW j \in before PROVE j <= k
      <4>1. j \in DOMAIN m /\ m[j].at <= line.stamp BY Zenon, <2>5
      <4>2. ~(j > k) BY <2>1, <2>2, <2>3, <4>1
      <4> QED BY <2>3, <4>1, <4>2
    <3> QED BY Zenon, <3>1, <3>2
  <2>7. Max(before) = k
    <3>1. before \subseteq Nat /\ before # {} /\ k \in Nat BY Zenon, <2>3, <2>5, <2>6
    <3>2. Max(before) \in before /\ \A j \in before : j <= Max(before)
      BY Zenon, <2>6, <3>1, GreatestIsMax
    <3>3. Max(before) <= k /\ k <= Max(before) /\ Max(before) \in Nat BY Zenon, <2>6, <3>1, <3>2
    <3> QED BY <3>1, <3>3
  <2>8. Latest(m, before) = m[k] BY Zenon, <2>7 DEF Latest
  <2> QED BY Zenon, <2>2, <2>6, <2>8 DEF uvc_event, before, m
\* The cycle of such a line, in the trace of a process that ended by itself.
<1>CycleAttributed.
    ASSUME probe \in ProbeProcesses, MarksInv(probe), probe.pc = "exited",
           NEW line \in KernelLines, LineInv(probe, line), ~NearMarker(line),
           line.pc \in InCycle
    PROVE  uvc_event(probe.markers, line.stamp).cycle = line.cycle
  <2> USE <1>CycleAttributed
  <2> DEFINE m == probe.markers
             c == line.cycle
             time == line.stamp
             bounds == phase_data(m)
             began == {d \in 1..Cycles : CycleMarks(m, d, "begin") # {}}
             Last(places) == Max(Times(m, places))
  <2>1. /\ m \in Seq(LifecycleMarkers) /\ time \in Nat /\ line.at \in Nat /\ c \in Nat
        /\ time <= line.at /\ probe.clock \in Nat /\ probe.cycle \in Nat
        /\ Cycles \in Nat
    BY Zenon, ProbeAssumptions DEF ProbeProcesses, KernelLines, LineInv
  <2>2. /\ c \in 1..probe.cycle
        /\ \A j \in CycleMarks(m, c, "begin") : m[j].at <= line.at
        /\ \A j \in CycleMarks(m, c, "end") : m[j].at > line.at
        /\ \E j \in DOMAIN m : m[j].at > line.at
    BY Zenon DEF LineInv
  <2>3. /\ probe.cycle \in 1..Cycles
        /\ \A i \in DOMAIN m : m[i].at <= probe.clock
        /\ \A d \in 1..probe.cycle : CycleMarks(m, d, "begin") # {}
        /\ \A i \in MarkersOf(m, "begin") : m[i].cycle \in 1..probe.cycle
        /\ \A d \in 1..probe.cycle : d < probe.cycle => CycleMarks(m, d, "end") # {}
        /\ \A i \in MarkersOf(m, "end"), j \in MarkersOf(m, "begin") :
             m[i].cycle < m[j].cycle => m[i].at < m[j].at
    BY Zenon DEF MarksInv
  <2>4. \A j \in DOMAIN m : m[j].at <= line.at => m[j].at <= time
    <3> SUFFICES ASSUME NEW j \in DOMAIN m, m[j].at <= line.at PROVE m[j].at <= time
      BY Zenon
    <3>1. m[j] \in Range(m) BY Zenon DEF Range
    <3>2. ~(time < m[j].at) BY Zenon, <3>1 DEF NearMarker
    <3>3. m[j].at \in Nat
      <4> HIDE DEF m
      <4>1. m[j] \in LifecycleMarkers BY Zenon, <2>1, SeqFacts
      <4> QED BY Zenon, <4>1 DEF LifecycleMarkers
    <3> HIDE DEF m, time
    <3> QED BY <2>1, <3>2, <3>3
  <2>5. uvc_event(m, time).cycle = cycle_at(time, bounds) BY Zenon DEF uvc_event
  <2>6. /\ DOMAIN bounds = began
        /\ \A d \in began :
             /\ bounds[d].from = Last(CycleMarks(m, d, "begin"))
             /\ CycleMarks(m, d, "end") # {} => bounds[d].to = Last(CycleMarks(m, d, "end"))
             /\ (CycleMarks(m, d, "end") = {} /\ d + 1 \notin began) =>
                  bounds[d].to = Last(DOMAIN m) + 1
    BY Zenon, <1>PhaseData
  <2> HIDE DEF m, c, time, bounds
  <2>7. \A i \in DOMAIN m : m[i].at \in Nat /\ m[i].cycle \in Nat
    <3>1. \A i \in DOMAIN m : m[i] \in LifecycleMarkers BY Zenon, <2>1, SeqFacts
    <3> QED BY Zenon, <3>1 DEF LifecycleMarkers
  <2>8. ASSUME NEW places \in SUBSET DOMAIN m, places # {}
        PROVE  /\ Last(places) \in Nat /\ \E i \in places : m[i].at = Last(places)
               /\ \A i \in places : m[i].at <= Last(places)
    BY Zenon, <2>1, <2>3, <2>8, <1>LastTime
  <2>9. \A d, name : CycleMarks(m, d, name) \in SUBSET DOMAIN m BY Zenon DEF CycleMarks
  <2> HIDE DEF Last
  <2>10. began = 1..probe.cycle
    <3>1. ASSUME NEW d \in began PROVE d \in 1..probe.cycle
      <4>1. PICK i \in CycleMarks(m, d, "begin") : TRUE BY Zenon, <3>1
      <4>2. i \in MarkersOf(m, "begin") /\ m[i].cycle = d BY Zenon, <4>1 DEF CycleMarks, MarkersOf
      <4> QED BY Zenon, <2>3, <4>2
    <3>2. 1..probe.cycle \subseteq 1..Cycles BY <2>1, <2>3
    <3> QED BY Zenon, <2>3, <3>1, <3>2
  <2>11. c \in began /\ bounds[c].from <= time
    <3>1. c \in began BY Zenon, <2>2, <2>10
    <3>2. PICK i \in CycleMarks(m, c, "begin") : m[i].at = Last(CycleMarks(m, c, "begin"))
      BY Zenon, <2>8, <2>9, <3>1
    <3>3. i \in DOMAIN m BY Zenon, <2>9
    <3>4. m[i].at <= time BY Zenon, <2>2, <2>4, <3>2, <3>3
    <3> QED BY Zenon, <2>6, <3>1, <3>2, <3>4
  <2>12. time <= bounds[c].to
    <3>1. CASE CycleMarks(m, c, "end") # {}
      <4>1. PICK i \in CycleMarks(m, c, "end") : m[i].at = Last(CycleMarks(m, c, "end"))
        BY Zenon, <2>8, <2>9, <3>1
      <4>2. m[i].at > line.at /\ m[i].at \in Nat BY <2>2, <2>7, <2>9, <4>1
      <4>3. bounds[c].to = m[i].at BY <2>6, <2>11, <3>1, <4>1
      <4> QED BY <2>1, <4>2, <4>3
    <3>2. CASE CycleMarks(m, c, "end") = {}
      <4>1. c = probe.cycle
        <5>1. ~(c < probe.cycle) BY Zenon, <2>2, <2>3, <3>2
        <5> QED BY <2>1, <2>2, <5>1
      <4>2. c + 1 \notin began BY <2>1, <2>10, <4>1
      <4>3. bounds[c].to = Last(DOMAIN m) + 1 BY Zenon, <2>6, <2>11, <3>2, <4>2
      <4>4. PICK j \in DOMAIN m : m[j].at > line.at BY Zenon, <2>2
      <4>5. m[j].at <= Last(DOMAIN m) /\ Last(DOMAIN m) \in Nat /\ m[j].at \in Nat
        BY <2>7, <2>8, <4>4
      <4> QED BY <2>1, <4>3, <4>4, <4>5
    <3> QED BY <3>1, <3>2
  <2>13. ASSUME NEW d \in began, d < c PROVE ~(time <= bounds[d].to)
    <3>1. d \in 1..probe.cycle /\ d < probe.cycle BY <2>1, <2>2, <2>10, <2>13
    <3>2. CycleMarks(m, d, "end") # {} BY Zenon, <2>3, <3>1
    <3>3. PICK i \in CycleMarks(m, d, "end") : m[i].at = Last(CycleMarks(m, d, "end"))
      BY Zenon, <2>8, <2>9, <3>2
    <3>4. bounds[d].to = m[i].at BY Zenon, <2>6, <3>2, <3>3
    <3>5. PICK j \in CycleMarks(m, c, "begin") : TRUE BY Zenon, <2>11
    <3>6. /\ i \in MarkersOf(m, "end") /\ m[i].cycle = d /\ i \in DOMAIN m
          /\ j \in MarkersOf(m, "begin") /\ m[j].cycle = c /\ j \in DOMAIN m
      BY Zenon, <3>3, <3>5 DEF CycleMarks, MarkersOf
    <3>7. m[i].at < m[j].at BY <2>3, <2>13, <3>6
    <3>8. m[j].at <= time BY <2>2, <2>4, <3>5, <3>6
    <3> QED BY <2>1, <2>7, <3>4, <3>6, <3>7, <3>8
  <2> DEFINE within == {d \in DOMAIN bounds : bounds[d].from <= time /\ time <= bounds[d].to}
  <2>14. c \in within BY Zenon, <2>6, <2>11, <2>12
  <2>15. Min(within) = c
    <3>1. within \subseteq Nat /\ within # {} BY <2>1, <2>6, <2>10, <2>14
    <3>2. \A d \in within : d \in began /\ time <= bounds[d].to BY Zenon, <2>6
    <3>3. \A d \in within : ~(d < c) BY Zenon, <2>13, <3>2
    <3> HIDE DEF within
    <3>4. Min(within) \in within /\ Min(within) <= c BY Zenon, <2>14, <3>1, LeastIsMin
    <3>5. Min(within) \in Nat /\ ~(Min(within) < c) BY Zenon, <3>1, <3>3, <3>4
    <3>6. \A a \in Nat, b \in Nat : a <= b /\ ~(a < b) => a = b OBVIOUS
    <3> QED BY Zenon, <2>1, <3>4, <3>5, <3>6
  <2>16. cycle_at(time, bounds) = c BY Zenon, <2>14, <2>15 DEF cycle_at
  <2> QED BY Zenon, <2>5, <2>16 DEF m, time, c
<1> DEFINE t == [clean |-> ~timeout /\ probe.rc = 0, completed |-> probe.completed,
                 killed |-> timeout, fresh |-> probe.fresh]
           m == probe.markers
<1>1. /\ truth' = Append(truth, t) /\ uvc' = uvc
      /\ probe' = [probe EXCEPT !.pc = IF timeout THEN "killed" ELSE @]
  BY Zenon DEF Summarized
<1>2. PICK log \in {uvc, <<>>} :
        summary' = IF timeout THEN timed_out(parse_startup_trace(m, lines, log))
                   ELSE parse_startup_trace(m, lines, log)
  BY Zenon DEF Summarized
<1>3. probe \in ProbeProcesses /\ uvc \in Seq(KernelLines) /\ truth \in Seq(Truths)
  BY Zenon DEF ProbeTypeOK, CampaignTypeOK
<1>4. /\ probe'.pc = (IF timeout THEN "killed" ELSE "exited") /\ probe'.markers = m
      /\ probe'.clock = probe.clock /\ probe'.cycle = probe.cycle
  <2>1. probe'.pc = IF timeout THEN "killed" ELSE probe.pc
    BY Zenon, <1>1, <1>3 DEF ProbeProcesses
  <2>2. /\ probe'.markers = m /\ probe'.clock = probe.clock
        /\ probe'.cycle = probe.cycle
    BY <1>1, <1>3 DEF ProbeProcesses
  <2> QED BY Zenon, <2>1, <2>2
<1>5. summary'.uvc = [i \in DOMAIN log |-> uvc_event(m, log[i].stamp)]
  <2> DEFINE parsed == parse_startup_trace(m, lines, log)
  <2>1. parsed.uvc = [i \in DOMAIN log |-> uvc_event(m, log[i].stamp)]
    BY Zenon DEF parse_startup_trace
  <2>2. timed_out(parsed).uvc = parsed.uvc
    BY Zenon DEF timed_out, parse_startup_trace
  <2> HIDE DEF parsed
  <2> QED BY Zenon, <1>2, <2>1, <2>2 DEF parsed
<1>6. t.killed = timeout BY Zenon
<1>7. t \in Truths
  <2>1. (~timeout /\ probe.rc = 0) \in BOOLEAN BY Zenon
  <2>2. probe.completed \in Nat /\ probe.fresh \in BOOLEAN BY Zenon, <1>3 DEF ProbeProcesses
  <2> QED BY Zenon, <2>1, <2>2 DEF Truths
<1> HIDE DEF t, m
<1>8. /\ truth' \in Seq(Truths) /\ Len(truth') = Len(truth) + 1 /\ Len(truth) \in Nat
      /\ truth'[Len(truth) + 1] = t
  <2>1. Len(truth) \in Nat BY Zenon, <1>3, SeqFacts
  <2> QED BY <1>1, <1>3, <1>7, <2>1, AppendFacts
<1>9. truth' # <<>> /\ truth'[Len(truth')].killed = timeout
  BY <1>6, <1>8
<1>10. AttemptOver' BY Zenon, <1>4, <1>9 DEF AttemptOver
<1>11. MarksInv(probe) /\ \A i \in DOMAIN uvc : LineInv(probe, uvc[i]) BY Zenon DEF Traced
<1>12. probe' \in ProbeProcesses
  BY Zenon, <1>1, <1>3 DEF ProbeProcesses, ProbePCs
<1>13. Traced'
  <2>1. CASE timeout
    <3>1. probe'.pc = "killed" /\ probe'.markers = probe.markers BY <1>4, <2>1 DEF m
    <3>2. Marks(probe, probe') BY Zenon, <1>4, <3>1 DEF Marks, InCycle
    <3>3. MarksInv(probe') BY <1>3, <1>11, <1>12, <3>2, MarksKeepMarks
    <3>4. ASSUME NEW i \in DOMAIN uvc PROVE LineInv(probe', uvc[i])
      <4>1. uvc[i] \in KernelLines BY Zenon, <1>3, SeqFacts
      <4> QED BY <1>3, <1>11, <1>12, <3>2, <4>1, MarksKeepLines
    <3>5. Shown' BY Zenon, <3>1 DEF Shown, Alive
    <3> QED BY Zenon, <1>1, <3>3, <3>4, <3>5 DEF Traced
  <2>2. CASE ~timeout
    <3>1. probe' = probe BY Zenon, <1>1, <1>3, <2>2 DEF ProbeProcesses
    <3> QED BY Zenon, <1>1, <3>1, SameTraced
  <2> QED BY Zenon, <2>1, <2>2
<1>14. UvcAttributed'
  <2> SUFFICES ASSUME NEW i \in DOMAIN summary'.uvc, ~NearMarker(uvc[i])',
                      uvc[i].pc # "unwind"
               PROVE  /\ summary'.uvc[i].class = uvc[i].doing
                      /\ (~timeout /\ uvc[i].pc \notin {"delay", "result"}) =>
                           summary'.uvc[i].cycle = uvc[i].cycle
    BY Zenon, <1>1, <1>9 DEF UvcAttributed
  <2>1. i \in DOMAIN log /\ summary'.uvc[i] = uvc_event(m, log[i].stamp) BY Zenon, <1>5
  <2>2. log = uvc BY <2>1
  <2> DEFINE line == uvc[i]
  <2>3. line \in KernelLines /\ LineInv(probe, line) BY Zenon, <1>3, <1>11, <2>1, <2>2, SeqFacts
  <2>4. ~NearMarker(line) BY Zenon, <1>1, <1>4 DEF NearMarker, m
  <2>5. summary'.uvc[i] = uvc_event(probe.markers, line.stamp) BY Zenon, <2>1, <2>2 DEF m
  <2>6. line.pc # "unwind" BY Zenon
  <2> HIDE DEF line
  <2>7. summary'.uvc[i].class = line.doing BY <1>3, <2>3, <2>4, <2>5, <2>6, <1>ClassAttributed
  <2>8. ASSUME ~timeout, line.pc \notin {"delay", "result"}
        PROVE  summary'.uvc[i].cycle = line.cycle
    <3>1. line.pc \in ProbePCs /\ line.pc \notin {"off", "exited", "crashed", "killed"}
      BY Zenon, <2>3 DEF LineInv, KernelLines
    <3>2. line.pc \in InCycle BY <2>6, <2>8, <3>1 DEF InCycle, ProbePCs
    <3>3. probe.pc = "exited" BY Zenon, <2>8
    <3> QED BY <1>3, <1>11, <2>3, <2>4, <2>5, <3>2, <3>3, <1>CycleAttributed
  <2> QED BY Zenon, <2>7, <2>8 DEF line
<1> QED BY Zenon, <1>10, <1>13, <1>14

==============================================================================
