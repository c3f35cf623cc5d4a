---------------------------- MODULE StartupProbe ----------------------------
(***************************************************************************)
(* src/d435_sensor_probe.cpp: a process that opens, starts, reads, stops   *)
(* and destroys a pipeline Cycles times.  It appends phase markers to the  *)
(* lifecycle file as it goes and prints its results, which reach their     *)
(* reader when the process ends by itself; a process that is killed leaves *)
(* a prefix of them.  StartupCalibration and StartupCampaign launch it.    *)
(*                                                                         *)
(* Times are milliseconds, except the clock of the markers, which only     *)
(* orders them: a step of the probe takes Step ticks, and the kernel log   *)
(* rounds its stamps down to KernelTick ticks.                             *)
(***************************************************************************)
EXTENDS Integers, Sequences, FiniteSets, FiniteSetsExt

CONSTANTS
    Cycles,      \* --cycles
    FirstWaits,  \* how long the first frameset of a start may take
    ExitWaits,   \* how long the threads of a cycle may take to exit
    UsualFirst,  \* what they take when nothing is the matter
    UsualExit,
    MaxUpsets    \* bound: departures from that, over a behaviour

ASSUME ProbeAssumptions ==
    /\ Cycles \in Nat \ {0} /\ MaxUpsets \in Nat
    /\ FirstWaits \subseteq Nat /\ ExitWaits \subseteq Nat

VARIABLES
    probe,   \* the process
    camera,  \* "fresh" since its reset, "used", or "wedged"
    upsets,  \* bound: the departures so far
    uvc      \* the lines uvcvideo logged, with what the probe was doing

probe_vars == <<probe, camera, upsets, uvc>>

Step == 3
KernelTick == 2
poll == 5

\* The process before it is launched.  settings are its command line; markers
\* and lines what it has written; rc its exit status.
Off == [pc |-> "off", settings |-> [frame |-> 0, join |-> 0, delay |-> 0],
        cycle |-> 0, completed |-> 0, first |-> 0, all |-> FALSE,
        running |-> TRUE,
        markers |-> <<>>, lines |-> <<>>, rc |-> 0, clock |-> 0,
        recorded |-> FALSE, fresh |-> FALSE]

ProbeInit == probe = Off /\ camera = "used" /\ upsets = 0 /\ uvc = <<>>

Alive == probe.pc \notin {"off", "exited", "crashed", "killed"}

Upset == upsets < MaxUpsets /\ upsets' = upsets + 1

Marker(cycle, name, at) == [cycle |-> cycle, name |-> name, at |-> at]

\* mark_cycle: what one step of the cycle appends to the lifecycle file.
Marked(names) ==
    probe.markers \o
      [i \in 1..Len(names) |-> Marker(probe.cycle, names[i], probe.clock + Step)]

\* Continue with step pc, after the markers names.
Goto(pc, names) ==
    [probe EXCEPT !.pc = pc, !.clock = @ + Step, !.markers = Marked(names)]

\* Launched by chrt on a camera found in some state, and recorded when a
\* campaign launches it; fresh is history.
Launch(settings, recorded, found) ==
    /\ probe' = [Off EXCEPT !.pc = "open", !.cycle = 1, !.settings = settings,
                            !.markers = <<Marker(1, "begin", 0)>>,
                            !.recorded = recorded, !.fresh = found = "fresh"]
    /\ camera' = IF found = "wedged" THEN "wedged" ELSE "used"
    /\ uvc' = <<>>

\* An exception leaves the cycle: the objects are destroyed first, then the
\* handler of main marks process_error and prints the error.
Throw(kind) ==
    probe' = [probe EXCEPT !.pc = "unwind", !.clock = @ + Step,
                           !.rc = IF kind = "librealsense" THEN 2 ELSE 1]

\* The context, the device, its profiles and the pipeline object.
Open ==
    /\ probe.pc = "open"
    /\ \/ /\ probe' =
               [Goto("start", <<"before_context", "after_context",
                                "before_pipeline_construction",
                                "after_pipeline_construction",
                                "before_pipeline_start">>) EXCEPT
                  !.lines = IF probe.cycle = 1
                              THEN Append(@, [kind |-> "device"]) ELSE @]
          /\ UNCHANGED upsets
       \/ Throw("librealsense") /\ Upset
    /\ UNCHANGED <<camera, uvc>>

\* start_pipeline with --strict-streams: no second try with one infrared
\* stream.
Start ==
    /\ probe.pc = "start"
    /\ \/ probe' = Goto("first", <<"after_pipeline_start">>) /\ UNCHANGED upsets
       \/ Throw("librealsense") /\ Upset
    /\ UNCHANGED <<camera, uvc>>

\* The first wait_for_frames.  A wedged camera delivers nothing; one that
\* exceeds the time-out may have become wedged.
FirstFrame ==
    /\ probe.pc = "first"
    /\ \/ /\ camera # "wedged"
          /\ \E wait \in FirstWaits :
               /\ IF wait = UsualFirst THEN UNCHANGED upsets ELSE Upset
               /\ IF wait <= probe.settings.frame
                    THEN /\ probe' = [Goto("frames", <<"first_frame">>)
                                        EXCEPT !.first = wait]
                         /\ UNCHANGED camera
                    ELSE /\ Throw("librealsense")
                         /\ camera' \in {camera, "wedged"}
       \/ /\ camera = "wedged"
          /\ Throw("librealsense") /\ UNCHANGED <<camera, upsets>>
       \/ /\ ~probe.running
          /\ probe' = Goto("stop", <<"frames_complete", "before_pipeline_stop">>)
          /\ UNCHANGED <<camera, upsets>>
    /\ UNCHANGED uvc

\* The framesets that remain, each with the same time-out.  A signal ends the
\* loop before the next wait.
Frames ==
    /\ probe.pc = "frames"
    /\ \/ /\ \E all \in {TRUE, probe.running} :
               probe' = [Goto("stop", <<"frames_complete",
                                        "before_pipeline_stop">>)
                           EXCEPT !.all = all]
          /\ UNCHANGED <<camera, upsets>>
       \/ /\ Throw("librealsense") /\ Upset
          /\ camera' \in {camera, "wedged"}
    /\ UNCHANGED uvc

\* SIGTERM clears keep_running, which the frame loop and the cycle loop read.
Signal ==
    /\ Alive /\ probe.running /\ Upset
    /\ probe' = [probe EXCEPT !.running = FALSE]
    /\ UNCHANGED <<camera, uvc>>

Stop ==
    /\ probe.pc = "stop"
    /\ \/ /\ probe' = Goto("destroy", <<"after_pipeline_stop",
                                        "before_object_destruction">>)
          /\ UNCHANGED upsets
       \/ Throw("librealsense") /\ Upset
    /\ UNCHANGED <<camera, uvc>>

Destroy ==
    /\ probe.pc = "destroy"
    /\ probe' = Goto("join", <<"after_object_destruction">>)
    /\ UNCHANGED <<camera, upsets, uvc>>

\* wait_for_threads_to_join looks every poll ms until a look at or after the
\* time-out: when the last of its looks comes, and how long it waits for
\* threads that exit after the given time.
Ceil(n, d) == (n + d - 1) \div d
LastLook(timeout) == Ceil(timeout, poll) * poll
JoinWait(exit, timeout) ==
    IF exit <= LastLook(timeout) THEN LastLook(exit) ELSE LastLook(timeout)

\* The join, the line of the cycle, and what follows it: an exception when
\* threads are left, the end of the loop when frames are missing, and
\* otherwise the next cycle after the delay.
Join ==
    /\ probe.pc = "join"
    /\ \E exit \in ExitWaits :
         LET joined == exit <= LastLook(probe.settings.join)
             marker == IF joined THEN "threads_joined" ELSE "thread_join_timeout"
             line   == [kind |-> "cycle", success |-> joined /\ probe.all,
                        first |-> probe.first,
                        join |-> JoinWait(exit, probe.settings.join)]
             done   == Append(probe.lines, line)
         IN
         /\ IF exit = UsualExit THEN UNCHANGED upsets ELSE Upset
         /\ \/ /\ ~joined
               /\ probe' = [Goto("unwind", <<marker>>) EXCEPT
                              !.lines = done, !.rc = 1]
            \/ /\ joined /\ ~probe.all
               /\ probe' = [Goto("result", <<marker>>) EXCEPT !.lines = done]
            \/ /\ joined /\ probe.all
               /\ probe' = [Goto(IF probe.cycle < Cycles THEN "delay" ELSE "result",
                                 <<marker, "end">>) EXCEPT
                              !.lines = done, !.completed = @ + 1]
    /\ UNCHANGED <<camera, uvc>>

NextCycle ==
    /\ probe.pc = "delay"
    /\ \/ /\ probe.running
          /\ probe' = [probe EXCEPT
                         !.pc = "open", !.cycle = @ + 1, !.first = 0,
                         !.all = FALSE, !.clock = @ + Step,
                         !.markers = Append(@, Marker(probe.cycle + 1, "begin",
                                                      probe.clock + Step))]
       \/ ~probe.running /\ probe' = Goto("result", <<>>)
    /\ UNCHANGED <<camera, upsets, uvc>>

\* The result line and process_exit.
Result ==
    /\ probe.pc = "result"
    /\ probe' =
         [Goto("exited", <<>>) EXCEPT
            !.markers = Append(@, Marker(0, "process_exit", probe.clock + Step)),
            !.lines = Append(@, [kind |-> "result",
                                 success |-> probe.completed = Cycles,
                                 completed |-> probe.completed]),
            !.rc = IF probe.completed = Cycles THEN 0 ELSE 3]
    /\ UNCHANGED <<camera, upsets, uvc>>

\* The handlers of main.
Catch ==
    /\ probe.pc = "unwind"
    /\ probe' =
         [Goto("exited", <<>>) EXCEPT
            !.markers = Append(@, Marker(0, "process_error", probe.clock + Step)),
            !.lines = Append(@, [kind |-> "error",
                                 error |-> IF probe.rc = 2 THEN "librealsense"
                                           ELSE "application"])]
    /\ UNCHANGED <<camera, upsets, uvc>>

\* A crash: the exit status is none the probe returns, the lines are lost.
Crash ==
    /\ Alive /\ Upset
    /\ probe' = [probe EXCEPT !.pc = "crashed", !.rc = -11, !.lines = <<>>]
    /\ UNCHANGED <<camera, uvc>>

\* What the pipeline is really doing.
Doing ==
    CASE probe.pc \in {"open", "start"}   -> "startup"
      [] probe.pc \in {"first", "frames"} -> "streaming"
      [] OTHER                            -> "teardown"

\* uvcvideo cannot resubmit a URB: a line of the kernel log, at once or some
\* ticks after the last marker, stamped with the time rounded down.
UvcError ==
    /\ Alive /\ probe.recorded /\ Upset
    /\ \E late \in {0, 2} :
         LET at == probe.clock + late IN
         uvc' = Append(uvc, [at |-> at, stamp |-> (at \div KernelTick) * KernelTick,
                             doing |-> Doing, cycle |-> probe.cycle,
                             pc |-> probe.pc])
    /\ UNCHANGED <<probe, camera>>

\* prefixed_json: the places of the lines of a kind, in the order printed.
prefixed_json(lines, kind) == {i \in DOMAIN lines : lines[i].kind = kind}

SuccessfulCycles(lines) ==
    {i \in prefixed_json(lines, "cycle") : lines[i].success}

\* The markers of a name.
MarkersOf(markers, name) == {i \in DOMAIN markers : markers[i].name = name}

\* The member of a sequence at the last of some places.
Latest(s, places) == s[Max(places)]

\* What a marker says the pipeline is doing.
classify_uvc_phase(name) ==
    CASE name \in {"begin", "before_context", "after_context",
                   "before_pipeline_construction", "after_pipeline_construction",
                   "before_pipeline_start"} -> "startup"
      [] name \in {"after_pipeline_start", "first_frame"} -> "streaming"
      [] name \in {"frames_complete", "before_pipeline_stop",
                   "after_pipeline_stop", "before_object_destruction",
                   "after_object_destruction", "threads_joined",
                   "thread_join_timeout", "end"} -> "teardown"
      [] OTHER -> "other"

ProbeStep ==
    \/ Open \/ Start \/ FirstFrame \/ Frames \/ Signal \/ Stop \/ Destroy
    \/ Join \/ NextCycle \/ Result \/ Catch \/ Crash \/ UvcError
-----------------------------------------------------------------------------
Settings == [frame : Nat, join : Nat, delay : Nat]

ProbePCs == {"off", "open", "start", "first", "frames", "stop", "destroy", "join",
             "delay", "result", "unwind", "exited", "crashed", "killed"}

PhaseNames ==
    {"begin", "before_context", "after_context", "before_pipeline_construction",
     "after_pipeline_construction", "before_pipeline_start",
     "after_pipeline_start", "first_frame", "frames_complete",
     "before_pipeline_stop", "after_pipeline_stop", "before_object_destruction",
     "after_object_destruction", "threads_joined", "thread_join_timeout", "end",
     "process_exit", "process_error"}

LifecycleMarkers == [cycle : Nat, name : PhaseNames, at : Nat]

OutputLines ==
    [kind : {"device"}]
      \cup [kind : {"cycle"}, success : BOOLEAN, first : Nat, join : Nat]
      \cup [kind : {"result"}, success : BOOLEAN, completed : Nat]
      \cup [kind : {"error"}, error : {"librealsense", "application", "outer-timeout"}]

ProbeProcesses ==
    [pc : ProbePCs, settings : Settings, cycle : Nat, completed : Nat,
     first : Nat, all : BOOLEAN, running : BOOLEAN,
     markers : Seq(LifecycleMarkers), lines : Seq(OutputLines), rc : Int,
     clock : Nat, recorded : BOOLEAN, fresh : BOOLEAN]

KernelLines ==
    [at : Nat, stamp : Nat, doing : {"startup", "streaming", "teardown"},
     cycle : Nat, pc : ProbePCs]

ProbeTypeOK ==
    /\ probe \in ProbeProcesses /\ camera \in {"fresh", "used", "wedged"}
    /\ upsets \in Nat /\ uvc \in Seq(KernelLines)

\* What the probe has written agrees with what it has done: the markers and
\* the lines count the cycles it completed, a result line is printed only by
\* a process that ends without an exception and says how it ended, and
\* process_error is marked only by one that ends with one.
Reports(p) ==
    LET results == prefixed_json(p.lines, "result")
        process_error == MarkersOf(p.markers, "process_error")
    IN
    /\ Cardinality(MarkersOf(p.markers, "end")) = p.completed
    /\ p.pc # "crashed" => Cardinality(SuccessfulCycles(p.lines)) = p.completed
    /\ \A i \in results : /\ p.lines[i].success <=> p.completed = Cycles
                          /\ p.lines[i].completed = p.completed
    /\ p.pc \notin {"exited", "crashed", "killed"} =>
         results = {} /\ process_error = {}
    /\ p.pc = "unwind" => p.rc \in {1, 2}
    /\ p.pc = "exited" =>
         \/ p.rc \in {1, 2} /\ results = {} /\ process_error # {}
         \/ /\ results # {} /\ process_error = {}
            /\ p.rc = IF p.completed = Cycles THEN 0 ELSE 3

ProbeReports == Reports(probe)

\* What makes the attribution right.  The last marker shows what the probe is
\* doing; a cycle begins once, ends before the next one begins, and has not
\* ended while the probe is in it; a line of the kernel log has the marker of
\* what the probe was doing before it and only later ones after it, and lies
\* between the beginning and the end of its cycle.
InCycle == {"open", "start", "first", "frames", "stop", "destroy", "join"}

CycleMarks(markers, c, name) ==
    {i \in DOMAIN markers : markers[i].cycle = c /\ markers[i].name = name}

MarksInv(p) ==
    LET m == p.markers IN
    /\ p.cycle \in 1..Cycles /\ (p.pc = "delay" => p.cycle < Cycles)
    /\ \A i \in DOMAIN m : m[i].at <= p.clock
    /\ \A c \in 1..p.cycle : CycleMarks(m, c, "begin") # {}
    /\ \A i, j \in MarkersOf(m, "begin") : m[i].cycle = m[j].cycle => i = j
    /\ \A i \in MarkersOf(m, "begin") \cup MarkersOf(m, "end") : m[i].cycle \in 1..p.cycle
    /\ \A c \in 1..p.cycle :
         (c < p.cycle \/ p.pc = "delay") => CycleMarks(m, c, "end") # {}
    /\ p.pc \in InCycle => CycleMarks(m, p.cycle, "end") = {}
    /\ \A i \in MarkersOf(m, "end"), j \in MarkersOf(m, "begin") :
         m[i].cycle < m[j].cycle => m[i].at < m[j].at

LineInv(p, line) ==
    LET m == p.markers IN
    /\ line.pc \notin {"off", "exited", "crashed", "killed"}
    /\ line.stamp <= line.at /\ line.at <= p.clock + 2
    /\ p.pc = "exited" => \E j \in DOMAIN m : m[j].at > line.at
    /\ line.pc # "unwind" =>
         \E k \in DOMAIN m : /\ m[k].at <= line.at
                             /\ classify_uvc_phase(m[k].name) = line.doing
                             /\ \A j \in DOMAIN m : j > k => m[j].at > line.at
    /\ line.pc \in InCycle =>
         /\ line.cycle \in 1..p.cycle
         /\ \A j \in CycleMarks(m, line.cycle, "begin") : m[j].at <= line.at
         /\ \A j \in CycleMarks(m, line.cycle, "end") : m[j].at > line.at
=============================================================================
