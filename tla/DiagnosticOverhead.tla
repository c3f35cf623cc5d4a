------------------------- MODULE DiagnosticOverhead -------------------------
(***************************************************************************)
(* run_diagnostic_overhead.py: what do the diagnostic markers of the       *)
(* library cost?  Two variants are built one after the other in one build  *)
(* directory and copied; then every workload is measured in every mode and *)
(* repetition, with the process of the probe sampled from outside.  A      *)
(* campaign stops at the first failure; afterwards the operator may rerun  *)
(* single conditions with the saved variants.                              *)
(*                                                                         *)
(* The clock advances at every event of the measurement and every sample.  *)
(* A sample and its time stamp are one step.                               *)
(***************************************************************************)
EXTENDS Integers, Sequences, FiniteSets, FiniteSetsExt

CONSTANTS
    Repetitions,        \* --repetitions
    MaxSamples,         \* bound: samples of one probe
    MaxReruns,          \* bound: --rerun-condition
    MaxKeys             \* bound: Ctrl-C

MODE_ORDERS == << <<"off", "build-only", "full">>,
                  <<"build-only", "full", "off">>,
                  <<"full", "off", "build-only">> >>

ASSUME OverheadAssumption ==
    /\ Repetitions \in 1..Len(MODE_ORDERS)
    /\ {MaxSamples, MaxReruns, MaxKeys} \subseteq Nat

\* The conditions in the order of main's three loops.
conditions ==
    [i \in 1..(6 * Repetitions) |->
      LET w == IF i <= 3 * Repetitions THEN "representative" ELSE "stress"
          r == (((i - 1) \div 3) % Repetitions) + 1
      IN  <<w, r, MODE_ORDERS[r][((i - 1) % 3) + 1]>>]
Mode(c) == c[3]

VARIABLES
    where,      \* where the program is
    todo,       \* the conditions still to run, the current one first
    tree,       \* which variant the build directory holds
    copies,     \* the copied variants: what they hold, "none" or "part"
    outputs,    \* per condition: [st], or with its resource_summary more
    process,    \* the process: [st, ready, lib, traced, start, end, rc]
    gate,       \* measurement.gate is written
    now, samples,
    frequency,  \* "default" or "locked"
    marks,      \* what is known to be left: "orphan", "signalled", "unrestored"
    reruns, keys

overheadVars == <<where, todo, tree, copies, outputs, process, gate, now, samples,
                  frequency, marks, reruns, keys>>

NoProbe == [st |-> "none", ready |-> FALSE, lib |-> "none", traced |-> FALSE,
            start |-> 0, end |-> 0, rc |-> 1]
Absent == [st |-> "absent"]
ProcessRuns == process.st \in {"starting", "warm", "measuring", "draining"}
Same(v) == UNCHANGED <<reruns, keys, v>>

OverheadInit ==
    /\ where = "lock" /\ todo = conditions /\ tree = "none"
    /\ copies = [v \in {"off", "on"} |-> "none"]
    /\ outputs = [c \in {conditions[i] : i \in DOMAIN conditions} |-> Absent]
    /\ process = NoProbe /\ gate = FALSE /\ now = 0 /\ samples = <<>>
    /\ frequency = "default" /\ marks = {} /\ reruns = 0 /\ keys = 0

-----------------------------------------------------------------------------
(* main.                                                                   *)

\* lock_cpu_freq.sh may fail half way; whatever fails from here on goes
\* through the finally clause.
lock_frequency ==
    /\ where = "lock" /\ frequency' = "locked"
    /\ where' \in {"restore",
                   IF reruns > 0 THEN "mkdir" ELSE "build_off"}
    /\ Same(<<todo, tree, copies, outputs, process, gate, now, samples, marks>>)

\* configure_and_snapshot_variant: configure and build.
build ==
    \E v \in {"off", "on"} :
      /\ where = (IF v = "off" THEN "build_off" ELSE "build_on")
      /\ \/ tree' = v /\ where' = (IF v = "off" THEN "copy_off" ELSE "copy_on")
         \/ tree' \in {tree, v} /\ where' = "restore"
      /\ Same(<<todo, copies, outputs, process, gate, now, samples, frequency,
                marks>>)

\* Faulty variant: nothing is copied before the second build.
SnapshotAfterBoth ==
    \E v \in {"off", "on"} :
      /\ where = (IF v = "off" THEN "copy_off" ELSE "copy_on")
      /\ copies' = IF v = "on" THEN [u \in {"off", "on"} |-> tree] ELSE copies
      /\ where' = (IF v = "off" THEN "build_on" ELSE "mkdir")
      /\ Same(<<todo, tree, outputs, process, gate, now, samples, frequency,
                marks>>)

\* configure_and_snapshot_variant: copy programs and library, then write the
\* manifest.  It may stop half way.
snapshot_variant ==
    \E v \in {"off", "on"} :
      /\ where = (IF v = "off" THEN "copy_off" ELSE "copy_on")
      /\ \/ /\ copies' = [copies EXCEPT ![v] = tree]
            /\ where' = (IF v = "off" THEN "build_on" ELSE "mkdir")
         \/ /\ copies' \in {[copies EXCEPT ![v] = s] : s \in {"none", "part"}}
            /\ where' = "restore"
      /\ Same(<<todo, tree, outputs, process, gate, now, samples, frequency,
                marks>>)

\* finally: the result of restore_cpu_freq_default.sh is not looked at.
restore_frequency ==
    /\ where = "restore" /\ where' = "over"
    /\ \/ frequency' = "default" /\ UNCHANGED marks
       \/ marks' = marks \cup {"unrestored"} /\ UNCHANGED frequency
    /\ Same(<<todo, tree, copies, outputs, process, gate, now, samples>>)

\* --rerun-condition: an output that exists has to be archived first.
rerun_condition ==
    /\ where = "over" /\ reruns < MaxReruns /\ ~ProcessRuns
    /\ \E c \in DOMAIN outputs :
         /\ todo' = <<c>>
         /\ outputs' = [outputs EXCEPT ![c] = Absent]
    /\ reruns' = reruns + 1 /\ where' = "lock"
    /\ marks' = {} /\ process' = NoProbe
    /\ UNCHANGED <<tree, copies, gate, now, samples, frequency, keys>>

-----------------------------------------------------------------------------
(* run_one.                                                                *)

Condition == Head(todo)
Variant == IF Mode(Condition) = "off" THEN "off" ELSE "on"
Raise == where' = "restore"

\* run_one is left: the process is reaped, its locals are gone.
Forget == process' = NoProbe /\ now' = 0 /\ samples' = <<>>

\* output.mkdir and the hardware reset with the variant's own program.
reset_camera ==
    /\ where = "mkdir"
    /\ outputs' = [outputs EXCEPT ![Condition] = [st |-> "begun"]]
    /\ where' \in {"restore"} \cup
                  (IF copies[Variant] = "none" THEN {} ELSE {"popen"})
    /\ Same(<<todo, tree, copies, process, gate, now, samples, frequency, marks>>)

\* The environment of the probe: the library comes from the variant's directory,
\* or when its links are missing from the directory the program was built in.
environment ==
    [lib    |-> IF copies[Variant] = "part" THEN tree ELSE copies[Variant],
     traced |-> Mode(Condition) = "full"]

start_probe ==
    /\ where = "popen" /\ where' = "ready"
    /\ process' = [NoProbe EXCEPT !.st = "starting", !.lib = environment.lib,
                                  !.traced = environment.traced]
    /\ gate' = FALSE /\ now' = 0 /\ samples' = <<>>
    /\ Same(<<todo, tree, copies, outputs, frequency, marks>>)

\* Popen fails, or the programs of a half copied variant do not start.
start_fails ==
    /\ where = "popen" /\ Raise
    /\ Same(<<todo, tree, copies, outputs, process, gate, now, samples, frequency,
              marks>>)

\* wait_for_ready looks at the file before it looks at the process; it raises
\* when the process has ended and when the time is over.  Then the gate is
\* written, which may fail.
wait_for_ready ==
    /\ where = "ready"
    /\ \/ process.ready /\ where' = "sampling" /\ gate' = TRUE
       \/ where' = "kill" /\ UNCHANGED gate
    /\ Same(<<todo, tree, copies, outputs, process, now, samples, frequency,
              marks>>)

\* What is read of /proc: a zombie has no memory any more.
process_sample == [t |-> now + 1, z |-> process.st = "zombie"]

\* One round of the sampling loop; a zombie is the last sample, a process that
\* cannot be read ends the loop without one.
take_sample ==
    /\ where = "sampling"
    /\ \/ /\ Len(samples) < MaxSamples \/ process.st = "zombie"
          /\ now' = now + 1
          /\ samples' = Append(samples, process_sample)
          /\ where' = IF process_sample.z THEN "wait4" ELSE where
       \/ where' = "wait4" /\ UNCHANGED <<now, samples>>
    /\ Same(<<todo, tree, copies, outputs, process, gate, frequency, marks>>)

\* wait4_process and the exit status.
wait4_process ==
    /\ where = "wait4" /\ process.st = "zombie"
    /\ \/ /\ process.rc = 0 /\ where' = "result"
          /\ process' = [process EXCEPT !.st = "reaped"] /\ UNCHANGED <<now, samples>>
       \/ process.rc # 0 /\ Raise /\ Forget
    /\ Same(<<todo, tree, copies, outputs, gate, frequency, marks>>)

Distance(a, b) == IF a < b THEN b - a ELSE a - b

\* nearest_sample: the first of the nearest ones.
nearest_sample(s, t) ==
    CHOOSE i \in DOMAIN s :
      /\ \A j \in DOMAIN s : Distance(s[i].t, t) <= Distance(s[j].t, t)
      /\ \A j \in 1..(i - 1) : Distance(s[j].t, t) > Distance(s[i].t, t)

\* The samples taken from the start of the measurement to its end.
Inside(s) == {i \in DOMAIN s : process.start <= s[i].t /\ s[i].t <= process.end}

\* The samples the resource summary rests on, and the first and the last of
\* them: those inside, or the nearest ones when these are fewer than two.
measured(s) ==
    LET inside == Inside(s)
        first == nearest_sample(s, process.start)
        last == nearest_sample(s, process.end)
    IN  IF Cardinality(inside) >= 2
          THEN [all |-> inside, first |-> Min(inside), last |-> Max(inside)]
          ELSE [all |-> {first, last}, first |-> first, last |-> last]

\* History: what is charged to the measurement was sampled in it from a living
\* process, or fewer than two samples were.
Charged(m) ==
    Cardinality(Inside(samples)) >= 2 =>
      \A i \in m.all : i \in Inside(samples) /\ ~samples[i].z

\* The resource summary; without a sample, or with one twice, the arithmetic
\* raises.
write_result ==
    /\ where = "result"
    /\ \/ /\ samples # <<>>
          /\ \E m \in {measured(samples)} :
               /\ samples[m.first].t < samples[m.last].t
               /\ outputs' = [outputs EXCEPT ![Condition] =
                    [st |-> "summary", lib |-> process.lib, traced |-> process.traced,
                     charged |-> Charged(m)]]
          /\ todo' = Tail(todo)
          /\ where' = IF Len(todo) = 1 THEN "restore" ELSE "mkdir"
       \/ /\ samples # <<>> =>
               \E m \in {measured(samples)} : samples[m.first].t = samples[m.last].t
          /\ Raise /\ UNCHANGED <<outputs, todo>>
    /\ Forget
    /\ Same(<<tree, copies, gate, frequency, marks>>)

\* except BaseException: SIGTERM, five seconds, SIGKILL; the process is reaped.
kill_probe ==
    /\ where = "kill" /\ Raise
    /\ Forget
    /\ Same(<<todo, tree, copies, outputs, gate, frequency, marks>>)

-----------------------------------------------------------------------------
(* The probe and the operator.                                             *)

ProbeMoves(p) ==
    /\ process' = p /\ UNCHANGED <<where, todo, tree, copies, outputs, gate,
                                 samples, frequency, marks, reruns, keys>>

warm_up == /\ process.st = "starting" /\ UNCHANGED now
           /\ ProbeMoves([process EXCEPT !.st = "warm", !.ready = TRUE])
begin_measurement ==
    /\ process.st = "warm" /\ gate /\ now' = now + 1
    /\ ProbeMoves([process EXCEPT !.st = "measuring", !.start = now'])
end_measurement ==
    /\ process.st = "measuring" /\ now' = now + 1
    /\ ProbeMoves([process EXCEPT !.st = "draining", !.end = now'])

\* A failure, a gate that stays closed, a signal, or the regular end.
exit_probe ==
    /\ ProcessRuns /\ UNCHANGED now
    /\ \E rc \in {1} \cup (IF process.st = "draining" THEN {0} ELSE {}) :
         ProbeMoves([process EXCEPT !.st = "zombie", !.rc = rc])

\* Ctrl-C.  A process that is started is only known once Popen has returned;
\* in the handler it has been sent SIGTERM; the restoring script is killed.
press_key ==
    /\ keys < MaxKeys /\ where # "over" /\ keys' = keys + 1
    /\ CASE where = "restore" ->
              /\ where' = "over" /\ marks' = marks \cup {"unrestored"}
              /\ UNCHANGED <<process, now>>
         [] where \in {"ready", "sampling", "wait4"} ->
              where' = "kill" /\ UNCHANGED <<marks, process, now>>
         [] where = "kill" ->
              /\ where' = "restore" /\ marks' = marks \cup {"signalled"}
              /\ UNCHANGED <<process, now>>
         [] where = "popen" ->
              /\ where' = "restore"
              /\ \/ UNCHANGED <<marks, process, now>>
                 \/ /\ marks' = marks \cup {"orphan"} /\ now' = 0
                    /\ process' = [NoProbe EXCEPT !.st = "starting"]
         [] OTHER -> where' = "restore" /\ UNCHANGED <<marks, process, now>>
    /\ UNCHANGED <<todo, tree, copies, outputs, gate, samples, frequency, reruns>>

OverheadNext ==
    \/ lock_frequency \/ build \/ snapshot_variant \/ restore_frequency
    \/ rerun_condition \/ reset_camera \/ start_probe \/ start_fails
    \/ wait_for_ready \/ take_sample \/ wait4_process \/ write_result
    \/ kill_probe \/ warm_up \/ begin_measurement \/ end_measurement
    \/ exit_probe \/ press_key

OverheadSpec == OverheadInit /\ [][OverheadNext]_overheadVars

-----------------------------------------------------------------------------
(* Properties.                                                             *)

\* A resource summary is about the condition it is filed under, whatever was
\* cut short and rerun: the library with the markers compiled in or not, the
\* trace written or not; and what it charges to the measurement was sampled in
\* it from a living process, unless fewer than two samples were.
OverheadIsAttributed ==
    \A c \in DOMAIN outputs :
      outputs[c].st = "summary" =>
        /\ outputs[c].lib = (IF Mode(c) = "off" THEN "off" ELSE "on")
        /\ outputs[c].traced <=> Mode(c) = "full"
        /\ outputs[c].charged

\* When the program is over no probe runs that nobody has signalled, except one
\* Ctrl-C hit in the middle of Popen; the frequencies are back unless the
\* restoring script failed (run_one's handler, main's finally).
OverheadLeavesNothing ==
    where = "over" => /\ ProcessRuns => marks \cap {"orphan", "signalled"} # {}
                      /\ frequency = "locked" => "unrestored" \in marks

\* What they rest on.
Processes ==
    [st : {"none", "starting", "warm", "measuring", "draining", "zombie", "reaped"},
     ready : BOOLEAN, lib : {"none", "part", "off", "on"}, traced : BOOLEAN,
     start : Nat, end : Nat, rc : {0, 1}]

OverheadTypeOK ==
    /\ where \in {"lock", "build_off", "copy_off", "build_on", "copy_on", "mkdir",
                  "popen", "ready", "sampling", "wait4", "result", "kill",
                  "restore", "over"}
    /\ todo \in Seq(DOMAIN outputs) /\ tree \in {"none", "off", "on"}
    /\ copies \in [{"off", "on"} -> {"none", "part", "off", "on"}]
    /\ process \in Processes /\ now \in Nat
    /\ samples \in Seq([t : Nat, z : BOOLEAN]) /\ reruns \in Nat

\* A copied variant is its own, or was cut short with its build still in place.
VariantsApart ==
    /\ \A v \in {"off", "on"} :
         copies[v] \in {"none", "part", v} /\ (copies[v] = "part" => tree = v)
    /\ where \in {"build_off", "copy_off"} \/ (where = "lock" /\ reruns = 0) =>
         copies["off"] = "none" /\ copies["on"] = "none"
    /\ where \in {"build_on", "copy_on"} =>
         copies["off"] = "off" /\ copies["on"] = "none"
    /\ (where = "copy_off" => tree = "off") /\ (where = "copy_on" => tree = "on")

\* The running probe is the one of the condition at the head of the list.
ProbeOfCondition ==
    /\ where \notin {"restore", "over", "kill"} => todo # <<>>
    /\ where = "popen" => copies[Variant] # "none"
    /\ where \in {"ready", "sampling", "wait4", "result"} =>
         /\ process.lib = Variant
         /\ process.traced <=> Mode(Condition) = "full"

\* A sample of a zombie is younger than the end of the measurement.
ZombiesAreLate ==
    where \in {"ready", "sampling", "wait4", "result"} =>
      /\ process.end <= now
      /\ \A i \in DOMAIN samples :
           /\ samples[i].t <= now
           /\ samples[i].z => /\ process.st \in {"zombie", "reaped"}
                             /\ process.end < samples[i].t

\* Outside of run_one's try block no probe runs that nobody has signalled.
ProbeWatched ==
    /\ where \notin {"ready", "sampling", "wait4", "kill"} =>
         (ProcessRuns => marks \cap {"orphan", "signalled"} # {})
    /\ OverheadLeavesNothing

OverheadInv ==
    /\ OverheadTypeOK /\ VariantsApart /\ ProbeOfCondition /\ ZombiesAreLate
    /\ ProbeWatched /\ OverheadIsAttributed

=============================================================================
