---------------------------- MODULE ThreadTrace ----------------------------
(***************************************************************************)
(* The traces of a measured process and the parsers that read them.        *)
(*                                                                         *)
(* The first half is the machine that is observed: threads that are        *)
(* created, scheduled, interrupted, throttled, joined, and the four logs   *)
(* they leave: the lifecycle lines of the preloaded tracer, the scheduler  *)
(* events of LiME, the kernel report of trace-cmd and the V4L2 stage       *)
(* events, stored in one lane per CPU.  `was` remembers what every thread  *)
(* truly did in each unit of time.  The second half is parse_startup_trace *)
(* (lifecycle_records, scheduler_intervals), parse_steady_trace            *)
(* (activations), parse_v4l2_diagnostic_trace (stage durations) and        *)
(* parse_overrun_kernel_trace (interrupt correction, throttle gate).  The  *)
(* properties compare what the parsers report with what was true.          *)
(*                                                                         *)
(* One unit of time passes per timestamped event.  Names, policies, stacks *)
(* and CSV layouts are left out; so are lost kernel events.                *)
(***************************************************************************)
EXTENDS Integers, FiniteSets, SequencesExt

CONSTANTS
    Threads,    \* incarnations of worker threads, numbered 1 .. n
    Tids,       \* kernel thread ids, reused after a thread is dead
    Handles,    \* pthread_t values, reused after join or detached exit
    Stages,     \* stages of the V4L2 receive path a thread may be in
    Focuses,    \* bounds: which families of events a trace may have
    Null

ASSUME TraceAssumption ==
    /\ Threads = 1 .. Cardinality(Threads)
    /\ Focuses # {}

VARIABLES
    now,        \* the next timestamp
    focus,      \* the bound chosen for this trace
    threads,    \* the truth about each thread
    was,        \* was[k][t]: what thread t did in [k, k + 1)
    log,        \* lifecycle lines, in the order they are written
    lime,       \* scheduler events
    kernel,     \* trace-cmd events
    lanes,      \* V4L2 stage events, one lane per CPU
    report      \* what the parsers returned, Null before

vars == <<now, focus, threads, was, log, lime, kernel, lanes, report>>

----------------------------------------------------------------------------
(* The observed machine.                                                   *)

Absent == [phase |-> "none", cpu |-> "none", tid |-> Null, handle |-> Null,
           created |-> Null, started |-> Null, exited |-> Null,
           joined |-> Null, detached |-> FALSE, noted |-> Null, written |-> FALSE,
           irq |-> <<>>, stage |-> <<>>, lane |-> 1]

(* A worker that was running long before the trace window opens.           *)
Settled(state) ==
    [Absent EXCEPT !.phase = "live", !.cpu = state, !.tid = Min(Tids),
                   !.handle = CHOOSE h \in Handles : TRUE, !.created = 1,
                   !.started = 1, !.written = TRUE]

SettledLog ==
    LET w == Settled("running") IN
    <<[event |-> "pthread_create", ts |-> 1, handle |-> w.handle],
      [event |-> "thread_start", ts |-> 1, handle |-> w.handle, tid |-> w.tid,
       created |-> 1]>>

Doing(who) == [t \in Threads |-> [cpu |-> who[t].cpu, irq |-> who[t].irq,
                                  stage |-> who[t].stage]]

Init ==
    /\ focus \in Focuses
    /\ \E state \in {"running", "ready", "sleeping"} :
         \E lane \in IF "stage" \in focus.families THEN 1..2 ELSE {1} :
           threads = [t \in Threads |-> IF t = 1 /\ focus.settled
                        THEN [Settled(state) EXCEPT !.lane = lane] ELSE Absent]
    /\ focus.settled \/ threads[1] = Absent
    /\ now = 2
    /\ was = <<Doing(threads)>>
    /\ log = IF focus.settled THEN SettledLog ELSE <<>>
    /\ lime = <<>>
    /\ kernel = <<>>
    /\ lanes = [c \in 1..2 |-> <<>>]
    /\ report = Null

(* Thread t becomes `after`, one unit of time passes.                      *)
Becomes(t, after) ==
    /\ report = Null
    /\ now < focus.ticks
    /\ threads' = [threads EXCEPT ![t] = after]
    /\ was' = Append(was, Doing(threads'))
    /\ now' = now + 1

Untimed(t, after) ==
    /\ report = Null
    /\ threads' = [threads EXCEPT ![t] = after]
    /\ UNCHANGED <<now, was>>

Logged(line) == log' = Append(log, line @@ [ts |-> now])

Scheduled(t, event, state) ==
    lime' = Append(lime, [event |-> event, ts |-> now, tid |-> threads[t].tid,
                          state |-> state])

Traced(t, event, kind) ==
    kernel' = Append(kernel, [event |-> event, kind |-> kind, ts |-> now,
                              tid |-> threads[t].tid, cpu |-> threads[t].lane])

Running(t) == threads[t].phase = "live" /\ threads[t].cpu = "running"

Free(t) == Running(t) /\ threads[t].irq = <<>>

(* pthread_create in the preloaded tracer: the timestamp is taken before    *)
(* the real call, the handle is known after it, and the line is written     *)
(* last, possibly after the child wrote its own.                            *)
CreateCall(t) ==
    /\ "life" \in focus.families
    /\ threads[t].phase = "none"
    /\ \A s \in Threads : s < t => threads[s].phase # "none"
    /\ Becomes(t, [threads[t] EXCEPT !.phase = "calling", !.created = now])
    /\ UNCHANGED <<focus, log, lime, kernel, lanes, report>>

InUse(field) == {threads[s][field] : s \in
                   {s \in Threads : threads[s].phase \in {"made", "live", "exited"}}}

Spawn(t) ==
    /\ threads[t].phase = "calling"
    /\ \E tid \in Tids \ {threads[s].tid : s \in {s \in Threads :
                              threads[s].phase \in {"made", "live"}}},
          h \in Handles \ InUse("handle") :
         Untimed(t, [threads[t] EXCEPT !.phase = "made", !.tid = tid,
                                       !.handle = h, !.cpu = "ready"])
    /\ UNCHANGED <<focus, log, lime, kernel, lanes, report>>

WriteCreate(t) ==
    /\ threads[t].phase \notin {"none", "calling"}
    /\ ~threads[t].written
    /\ Untimed(t, [threads[t] EXCEPT !.written = TRUE])
    /\ log' = Append(log, [event |-> "pthread_create", ts |-> threads[t].created,
                           handle |-> threads[t].handle])
    /\ UNCHANGED <<focus, lime, kernel, lanes, report>>

(* trace_start_trampoline.                                                  *)
ThreadStart(t) ==
    /\ threads[t].phase = "made"
    /\ Becomes(t, [threads[t] EXCEPT !.phase = "live", !.started = now,
                                     !.cpu = "running"])
    /\ Logged([event |-> "thread_start", handle |-> threads[t].handle,
               tid |-> threads[t].tid, created |-> threads[t].created])
    /\ Scheduled(t, "sched_switched_in", 0)
    /\ UNCHANGED <<focus, kernel, lanes, report>>

(* trace_emit_thread_exit, then the end of the kernel thread; a detached   *)
(* thread gives its handle back here.                                      *)
ThreadExit(t) ==
    /\ "life" \in focus.families
    /\ Free(t) /\ threads[t].stage = <<>>
    /\ Becomes(t, [threads[t] EXCEPT !.phase = IF threads[t].detached
                                                THEN "gone" ELSE "exited",
                                     !.exited = now, !.cpu = "none"])
    /\ Logged([event |-> "thread_exit", tid |-> threads[t].tid])
    /\ Scheduled(t, "sched_process_exit", 0)
    /\ UNCHANGED <<focus, kernel, lanes, report>>

(* pthread_join, by a thread that got the handle from pthread_create: the   *)
(* handle is free once the real call returns, the line carries a later      *)
(* timestamp.                                                               *)
JoinReturn(t) ==
    /\ threads[t].phase = "exited" /\ threads[t].written /\ ~threads[t].detached
    /\ Untimed(t, [threads[t] EXCEPT !.phase = "returned"])
    /\ UNCHANGED <<focus, log, lime, kernel, lanes, report>>

JoinEnd(t) ==
    /\ threads[t].phase = "returned"
    /\ Becomes(t, [threads[t] EXCEPT !.phase = "gone", !.joined = now])
    /\ Logged([event |-> "pthread_join_end", handle |-> threads[t].handle])
    /\ UNCHANGED <<focus, lime, kernel, lanes, report>>

(* pthread_detach, on a handle the caller knows: the line carries a        *)
(* timestamp taken after the real call.                                    *)
Detach(t) ==
    /\ "life" \in focus.families
    /\ \/ threads[t].phase = "live"
       \/ threads[t].phase \in {"made", "exited"} /\ threads[t].written
    /\ ~threads[t].detached
    /\ Untimed(t, [threads[t] EXCEPT !.detached = TRUE,
                     !.phase = IF @ = "exited" THEN "gone" ELSE @])
    /\ UNCHANGED <<focus, log, lime, kernel, lanes, report>>

DetachEnd(t) ==
    /\ threads[t].detached /\ threads[t].noted = Null
    /\ Becomes(t, [threads[t] EXCEPT !.noted = now])
    /\ Logged([event |-> "pthread_detach", handle |-> threads[t].handle])
    /\ UNCHANGED <<focus, lime, kernel, lanes, report>>

(* The scheduler.  A waker may find the thread awake already.               *)
Schedule(t) ==
    /\ "sched" \in focus.families
    /\ threads[t].phase = "live" /\ threads[t].irq = <<>>
    /\ \/ /\ threads[t].cpu = "ready"
          /\ \E lane \in IF "stage" \in focus.families THEN 1..2 ELSE {1} :
               Becomes(t, [threads[t] EXCEPT !.cpu = "running", !.lane = lane])
          /\ Scheduled(t, "sched_switched_in", 0)
       \/ /\ threads[t].cpu = "running"
          /\ Becomes(t, [threads[t] EXCEPT !.cpu = "ready"])
          /\ Scheduled(t, "sched_switched_out", 0)
       \/ /\ threads[t].cpu = "running"
          /\ Becomes(t, [threads[t] EXCEPT !.cpu = "sleeping"])
          /\ Scheduled(t, "sched_switched_out", 1)
       \/ /\ threads[t].cpu = "sleeping"
          /\ Becomes(t, [threads[t] EXCEPT !.cpu = "ready"])
          /\ Scheduled(t, "sched_wake_up", 0)
       \/ /\ "wake" \in focus.families
          /\ threads[t].cpu = "running"
          /\ Becomes(t, threads[t])
          /\ Scheduled(t, "sched_wake_up", 0)
    /\ UNCHANGED <<focus, log, kernel, lanes, report>>

(* A hard interrupt may preempt a soft one, never the other way round.      *)
Interrupt(t) ==
    /\ "irq" \in focus.families
    /\ Running(t)
    /\ \/ \E kind \in {"hardirq", "softirq"} :
            /\ "hardirq" \notin Range(threads[t].irq)
            /\ kind \notin Range(threads[t].irq)
            /\ Becomes(t, [threads[t] EXCEPT !.irq = Append(@, kind)])
            /\ Traced(t, "entry", kind)
       \/ /\ threads[t].irq # <<>>
          /\ Becomes(t, [threads[t] EXCEPT !.irq = Front(@)])
          /\ Traced(t, "exit", Last(threads[t].irq))
    /\ UNCHANGED <<focus, log, lime, lanes, report>>

Throttle(t) ==
    /\ "throttle" \in focus.families
    /\ Free(t)
    /\ Becomes(t, threads[t])
    /\ Traced(t, "dl_runtime_exhausted", "overrun")
    /\ UNCHANGED <<focus, log, lime, lanes, report>>

(* The thread enters or leaves a stage; the event goes to the lane of the  *)
(* CPU it runs on.                                                         *)
Stage(t) ==
    /\ "stage" \in focus.families
    /\ Free(t)
    /\ \/ \E stage \in Stages :
            /\ \A i \in DOMAIN threads[t].stage : threads[t].stage[i].stage # stage
            /\ Becomes(t, [threads[t] EXCEPT !.stage = Append(@, [stage |-> stage, begin |-> now])])
            /\ lanes' = [lanes EXCEPT ![threads[t].lane] =
                 Append(@, [event |-> "begin", stage |-> stage, ts |-> now,
                            tid |-> threads[t].tid])]
       \/ /\ threads[t].stage # <<>>
          /\ Becomes(t, [threads[t] EXCEPT !.stage = Front(@)])
          /\ lanes' = [lanes EXCEPT ![threads[t].lane] =
               Append(@, [event |-> "end", stage |-> Last(threads[t].stage).stage,
                          ts |-> now, tid |-> threads[t].tid])]
    /\ UNCHANGED <<focus, log, lime, kernel, report>>

Marked(name) == \E i \in DOMAIN log : log[i].event = name

(* mark_phase around the measured window.                                   *)
Mark ==
    /\ "mark" \in focus.families
    /\ ~Marked("steady_state_end")
    /\ Becomes(1, threads[1])
    /\ Logged([event |-> IF Marked("steady_state_begin")
                         THEN "steady_state_end" ELSE "steady_state_begin"])
    /\ UNCHANGED <<focus, lime, kernel, lanes, report>>

----------------------------------------------------------------------------
(* parse_startup_trace.py                                                  *)

(* Faulty variant: the lines are read in the order they were written.      *)
UnsortedLines(lines) == lines

read_jsonl(lines) == SortSeq(lines, LAMBDA a, b : a.ts < b.ts)

Blank == [tid |-> Null, handle |-> Null, created |-> Null, started |-> Null,
          exited |-> Null, joined |-> Null, detached |-> FALSE]

(* The last record that satisfies P, 0 when there is none.                  *)
LastOf(records, P(_)) == Max({0} \cup {i \in DOMAIN records : P(records[i])})

(* The last one in the order of the starts: by_tid.                         *)
LastStarted(records, P(_)) ==
    LET found == {i \in DOMAIN records : P(records[i]) /\ records[i].started # Null}
    IN  IF found = {} THEN 0 ELSE CHOOSE i \in found : \A j \in found :
                                     records[j].started <= records[i].started

lifecycle_event(records, e) ==
    LET created == LastOf(records, LAMBDA r : e.event = "thread_start" /\
                     r.handle = e.handle /\ r.created = e.created)
        alive == LastStarted(records, LAMBDA r : e.event = "thread_exit" /\
                     r.tid = e.tid /\ r.exited = Null)
        named == LastOf(records, LAMBDA r :
                     /\ e.event \in {"pthread_join_end", "pthread_detach"}
                     /\ r.handle = e.handle
                     /\ r.created = Null \/ r.created <= e.ts)
    IN  CASE e.event = "pthread_create" ->
               Append(records, [Blank EXCEPT !.handle = e.handle, !.created = e.ts])
          [] e.event = "thread_start" /\ created # 0 ->
               [records EXCEPT ![created].tid = e.tid, ![created].started = e.ts]
          [] e.event = "thread_start" /\ created = 0 ->
               Append(records, [Blank EXCEPT !.handle = e.handle, !.created = e.created,
                                             !.tid = e.tid, !.started = e.ts])
          [] e.event = "thread_exit" /\ alive # 0 ->
               [records EXCEPT ![alive].exited = e.ts]
          [] e.event = "pthread_join_end" /\ named # 0 ->
               [records EXCEPT ![named].joined = e.ts]
          [] e.event = "pthread_detach" /\ named # 0 ->
               [records EXCEPT ![named].detached = TRUE]
          [] OTHER -> records

lifecycle_records(events) == FoldLeft(lifecycle_event, <<>>, events)

Or(value, default) == IF value = Null THEN default ELSE value

event_window(r, last) ==
    [begin |-> Or(r.created, Or(r.started, 0)),
     end   |-> Or(r.exited, Or(r.joined, last))]

trace_end(lines, sched) == Max({0} \cup {e.ts : e \in Range(lines) \cup Range(sched)})

(* How a thread ended, as thread_timing.csv says it.                        *)
status(r) ==
    CASE r.joined # Null                   -> "joined"
      [] r.joined = Null /\ r.detached     ->
           IF r.exited # Null THEN "detached_and_exited" ELSE "detached_unobserved_exit"
      [] r.joined = Null /\ ~r.detached    ->
           IF r.exited # Null THEN "exited" ELSE "unobserved_exit"

Within(events, begin, end) ==
    SelectSeq(events, LAMBDA e : begin <= e.ts /\ e.ts <= end)

close(acc, ts) ==
    IF acc.state = Null \/ ts < acc.start THEN acc
    ELSE [acc EXCEPT !.state = Null,
                     !.out = Append(@, [state |-> acc.state, start |-> acc.start,
                                        end |-> ts])]

(* Faulty variant: a wake-up always begins a ready interval.               *)
WakeAlwaysReady(acc, e) ==
    IF e.event = "sched_process_exit" THEN close(acc, e.ts) ELSE
    [close(acc, e.ts) EXCEPT !.start = e.ts, !.state =
       IF e.event = "sched_switched_in" THEN "running"
       ELSE IF e.event = "sched_switched_out" /\ e.state # 0 THEN "sleeping" ELSE "ready"]

scheduler_event(acc, e) ==
    LET open(a, state) == [a EXCEPT !.state = state, !.start = e.ts]
        woken == IF acc.state = "sleeping" THEN close(acc, e.ts) ELSE acc
    IN  CASE e.event = "sched_switched_in"  -> open(close(acc, e.ts), "running")
          [] e.event = "sched_switched_out" ->
               open(close(acc, e.ts), IF e.state = 0 THEN "ready" ELSE "sleeping")
          [] e.event = "sched_wake_up" ->
               IF woken.state = Null THEN open(woken, "ready") ELSE woken
          [] e.event = "sched_process_exit" -> close(acc, e.ts)

scheduler_intervals(events, begin, end) ==
    close(FoldLeft(scheduler_event, [state |-> Null, start |-> 0, out |-> <<>>],
                   Within(events, begin, end)), end).out

Of(sched, tid) == SelectSeq(sched, LAMBDA e : e.tid = tid)

(* The rows of thread_timing.csv: every record whose tid is known.          *)
timing_rows(records, sched, last) ==
    LET row(r) == LET w == event_window(r, last) IN
          [tid |-> r.tid, begin |-> w.begin, end |-> w.end, status |-> status(r),
           intervals |-> <<>> \o scheduler_intervals(Of(sched, r.tid), w.begin, w.end)]
        known == SelectSeq(records, LAMBDA r : r.tid # Null)
    IN  <<>> \o [i \in DOMAIN known |-> row(known[i])]

Spent(intervals, state) ==
    FoldLeft(LAMBDA sum, i : IF i.state = state THEN sum + i.end - i.start ELSE sum,
             0, intervals)

----------------------------------------------------------------------------
(* realsense_thread_trace/parse_trace.py: an independent reader of the same *)
(* lines, in the order they were written.                                   *)

find_start_record(records, e) ==
    LET exact == LastOf(records, LAMBDA r : r.handle = e.handle /\ r.created = e.created)
    IN  IF exact # 0 THEN exact
        ELSE LastOf(records, LAMBDA r : r.handle = e.handle /\ r.started = Null)

find_latest_pthread_record(records, e) ==
    LET eligible == LastOf(records, LAMBDA r : r.handle = e.handle /\ r.created <= e.ts)
    IN  IF eligible # 0 THEN eligible ELSE LastOf(records, LAMBDA r : r.handle = e.handle)

find_join_record(records, e) ==
    LET eligible == LastOf(records, LAMBDA r : /\ r.handle = e.handle /\ r.joined = Null
                                               /\ r.created <= e.ts)
    IN  IF eligible # 0 THEN eligible ELSE find_latest_pthread_record(records, e)

summary_event(records, e) ==
    LET fresh == [Blank EXCEPT !.handle = e.handle]
        placed(i) == IF i = 0 THEN Append(records, fresh) ELSE records
        at(i) == IF i = 0 THEN Len(records) + 1 ELSE i
        start == find_start_record(records, e)
        exit == LastStarted(records, LAMBDA r : r.tid = e.tid)
        join == find_join_record(records, e)
        latest == find_latest_pthread_record(records, e)
    IN  CASE e.event = "pthread_create" ->
               IF \E i \in DOMAIN records : records[i].handle = e.handle /\ records[i].created = e.ts
               THEN records ELSE Append(records, [fresh EXCEPT !.created = e.ts])
          [] e.event = "thread_start" ->
               [placed(start) EXCEPT ![at(start)].created = Or(@, e.created),
                                     ![at(start)].started = e.ts, ![at(start)].tid = e.tid]
          [] e.event = "thread_exit" ->
               IF exit = 0 THEN records ELSE [records EXCEPT ![exit].exited = e.ts]
          [] e.event = "pthread_join_end" -> [placed(join) EXCEPT ![at(join)].joined = e.ts]
          [] e.event = "pthread_detach" -> [placed(latest) EXCEPT ![at(latest)].detached = TRUE]
          [] OTHER -> records

parse_trace_file(lines) == FoldLeft(summary_event, <<>>, lines)

----------------------------------------------------------------------------
(* parse_steady_trace.py                                                   *)

marker_time(events, name) ==
    LET matches == SelectSeq(events, LAMBDA e : e.event = name)
    IN  IF Len(matches) = 1 THEN matches[1].ts ELSE Null

finish(acc, completion, partial_end) ==
    IF acc.current = Null THEN acc
    ELSE [acc EXCEPT !.current = Null,
                     !.rows = Append(@, [acc.current EXCEPT !.completion = completion,
                                                             !.partial_end = partial_end])]

(* Faulty variant: a preemption ends the activation as a sleep does.       *)
SplitAtPreemption(acc, i) ==
    IF i.state = "running"
    THEN [acc EXCEPT !.slept = FALSE, !.current =
            [release |-> i.start, completion |-> 0, execution |-> i.end - i.start,
             ready |-> 0, partial_start |-> ~acc.slept, partial_end |-> FALSE]]
    ELSE [finish(acc, i.start, FALSE) EXCEPT !.slept = TRUE]

activation_interval(acc, i) ==
    LET fresh == [release |-> i.start, completion |-> 0, execution |-> 0, ready |-> 0,
                  partial_start |-> ~acc.slept, partial_end |-> FALSE]
        current == IF acc.current = Null THEN fresh ELSE acc.current
        grown == IF i.state = "running"
                 THEN [current EXCEPT !.execution = @ + i.end - i.start]
                 ELSE [current EXCEPT !.ready = @ + i.end - i.start]
    IN  IF i.state = "sleeping"
        THEN [finish(acc, i.start, FALSE) EXCEPT !.slept = TRUE]
        ELSE [acc EXCEPT !.current = grown,
                         !.slept = IF acc.current = Null THEN FALSE ELSE @]

activations_from_intervals(intervals, window_end) ==
    finish(FoldLeft(activation_interval,
                    [current |-> Null, slept |-> FALSE, rows |-> <<>>], intervals),
           window_end, TRUE).rows

(* The row of one thread record, Null when it does not meet the window.     *)
steady_row(r, events, steady_begin, steady_end) ==
    LET begin == Max({steady_begin, Or(r.started, Or(r.created, steady_begin))})
        end == Min({steady_end, Or(r.exited, steady_end)})
        intervals == <<>> \o scheduler_intervals(Of(events, r.tid), begin, end)
        activations == <<>> \o activations_from_intervals(intervals, end)
    IN  IF r.tid = Null \/ end <= begin THEN Null
        ELSE [tid |-> r.tid, begin |-> begin, end |-> end, intervals |-> intervals,
              activations |-> activations,
              unobserved |-> Max({0, end - begin - Spent(intervals, "running")
                                       - Spent(intervals, "ready")
                                       - Spent(intervals, "sleeping")})]

(* Null: ValueError, there is no valid window.                              *)
phase_window(events) ==
    LET begin == marker_time(events, "steady_state_begin")
        end == marker_time(events, "steady_state_end")
    IN  IF begin = Null \/ end = Null THEN Null
        ELSE IF end <= begin THEN Null ELSE [begin |-> begin, end |-> end]

parse_steady_trace(records, sched, window) ==
    IF window = Null THEN <<>>
    ELSE SelectSeq(<<>> \o [i \in DOMAIN records |->
                       steady_row(records[i], sched, window.begin, window.end)],
                   LAMBDA row : row # Null)

----------------------------------------------------------------------------
(* parse_v4l2_diagnostic_trace.py: the lanes are merged and sorted, then    *)
(* every end is paired with the innermost open begin of its stage.          *)

(* Faulty variant: one lane is read after the other.                       *)
LaneAfterLane(stored) == stored[1] \o stored[2]

merge_lanes(stored) == SortSeq(stored[1] \o stored[2], LAMBDA a, b : a.ts < b.ts)

stage_event(acc, e) ==
    LET open == {i \in DOMAIN acc.stack : acc.stack[i].tid = e.tid /\
                                          acc.stack[i].stage = e.stage}
        top == acc.stack[Max(open)]
    IN  IF e.event = "begin" THEN [acc EXCEPT !.stack = Append(@, e)]
        ELSE IF open = {} THEN acc
        ELSE [stack |-> RemoveAt(acc.stack, Max(open)),
              rows |-> Append(acc.rows, [tid |-> e.tid, stage |-> e.stage,
                                         begin |-> top.ts, end |-> e.ts])]

stage_durations(stored) ==
    FoldLeft(stage_event, [stack |-> <<>>, rows |-> <<>>], merge_lanes(stored)).rows

----------------------------------------------------------------------------
(* parse_overrun_kernel_trace.py                                           *)

overlap_ns(begin1, end1, begin2, end2) ==
    Max({0, Min({end1, end2}) - Max({begin1, begin2})})

(* One stack of open interrupts per CPU and kind.                           *)
interrupt_event(acc, e) ==
    LET open == {i \in DOMAIN acc.stack : acc.stack[i].cpu = e.cpu /\
                                          acc.stack[i].kind = e.kind}
        top == acc.stack[Max(open)]
    IN  CASE e.event = "entry" -> [acc EXCEPT !.stack = Append(@, e)]
          [] e.event = "exit" /\ open # {} ->
               [stack |-> RemoveAt(acc.stack, Max(open)),
                rows |-> Append(acc.rows, [kind |-> e.kind, tid |-> top.tid,
                                           begin |-> top.ts, end |-> e.ts])]
          [] OTHER -> acc

interrupt_intervals(events) ==
    FoldLeft(interrupt_event, [stack |-> <<>>, rows |-> <<>>], events).rows

(* Faulty variant: the last interrupt of the activation is left out.       *)
AllButLast(interrupts, tid, a) ==
    LET own == SelectSeq(interrupts, LAMBDA i : i.tid = tid /\ i.begin < a.completion
                                                 /\ a.release <= i.end)
    IN  SubSeq(own, 1, Len(own) - 1)

(* The interrupts of the activation's thread from the last one that began  *)
(* before the release to the last one that began before the completion.    *)
candidate_interrupts(interrupts, tid, a) ==
    LET own == SortSeq(SelectSeq(interrupts, LAMBDA i : i.tid = tid),
                       LAMBDA i, j : i.begin < j.begin)
        before(ts) == Cardinality({k \in DOMAIN own : own[k].begin < ts})
    IN  SubSeq(own, Max({0, before(a.release) - 1}) + 1, before(a.completion))

corrected_row(interrupts, tid, a) ==
    LET spent(kind) == FoldLeft(LAMBDA sum, i : IF i.kind # kind THEN sum ELSE sum +
                          overlap_ns(a.release, a.completion, i.begin, i.end),
                          0, candidate_interrupts(interrupts, tid, a))
    IN  a @@ [tid |-> tid, hardirq |-> spent("hardirq"), softirq |-> spent("softirq"),
              task_execution |-> Max({0, a.execution - spent("hardirq")
                                                     - spent("softirq")})]

corrected_rows(rows, interrupts) ==
    FlattenSeq(<<>> \o [r \in DOMAIN rows |-> [k \in DOMAIN rows[r].activations |->
                  corrected_row(interrupts, rows[r].tid, rows[r].activations[k])]])

(* The activation of the throttled thread that contains the instant.        *)
throttled_activation(corrected, e) ==
    LET own == SortSeq(SelectSeq(corrected, LAMBDA a : a.tid = e.tid),
                       LAMBDA a, b : a.release < b.release)
        position == Cardinality({k \in DOMAIN own : own[k].release <= e.ts})
    IN  IF position = 0 THEN Null
        ELSE IF e.ts <= own[position].completion THEN own[position] ELSE Null

(* The stages open at the instant, outermost first.                         *)
active_stages(durations, e) ==
    SortSeq(SelectSeq(durations, LAMBDA d : d.tid = e.tid /\ d.begin <= e.ts /\ e.ts <= d.end),
            LAMBDA a, b : a.begin < b.begin)

(* The stage that ended last in the activation before the throttle.         *)
last_stage_before_throttle(durations, activation, e) ==
    LET ended == {k \in DOMAIN durations : /\ durations[k].tid = e.tid
                                           /\ activation.release <= durations[k].end
                                           /\ durations[k].end <= e.ts}
    IN  IF ended = {} THEN Null
        ELSE durations[CHOOSE k \in ended : \A j \in ended :
                         durations[j].end <= durations[k].end]

steady_throttles(events, corrected, window) ==
    SelectSeq(events, LAMBDA e : /\ e.event = "dl_runtime_exhausted"
                                 /\ \E k \in DOMAIN corrected : corrected[k].tid = e.tid
                                 /\ window.begin <= e.ts /\ e.ts <= window.end)

correlation(corrected, durations, e) ==
    LET activation == throttled_activation(corrected, e)
    IN  [ts |-> e.ts, tid |-> e.tid, activation |-> activation,
         stages |-> <<>> \o active_stages(durations, e),
         last |-> IF activation = Null THEN Null
                  ELSE last_stage_before_throttle(durations, activation, e)]

parse_overruns(events, corrected, durations, window) ==
    LET throttles == steady_throttles(events, corrected, window)
    IN  [gate_passed |-> throttles = <<>>,
         correlations |-> <<>> \o [k \in DOMAIN throttles |->
                             correlation(corrected, durations, throttles[k])]]

----------------------------------------------------------------------------
(* The trace is complete and the parsers run over it, once.                 *)
Parse ==
    /\ report = Null
    /\ now = focus.ticks
    /\ \E events \in {read_jsonl(log)} :
       \E records \in {lifecycle_records(events)}, window \in {phase_window(events)} :
       \E rows \in {parse_steady_trace(records, lime, window)},
          durations \in {stage_durations(lanes)} :
       \E corrected \in {corrected_rows(rows, interrupt_intervals(kernel))} :
         report' = [records |-> records, summary |-> parse_trace_file(log),
                    timing |-> timing_rows(records, lime, trace_end(log, lime)),
                    window |-> window, rows |-> rows, corrected |-> corrected,
                    overruns |-> IF window = Null THEN Null
                                 ELSE parse_overruns(kernel, corrected, durations, window)]
    /\ UNCHANGED <<now, focus, threads, was, log, lime, kernel, lanes>>

Next ==
    \/ \E t \in Threads : \/ CreateCall(t) \/ Spawn(t) \/ WriteCreate(t)
                          \/ ThreadStart(t) \/ ThreadExit(t)
                          \/ JoinReturn(t) \/ JoinEnd(t) \/ Detach(t) \/ DetachEnd(t)
                          \/ Schedule(t) \/ Interrupt(t) \/ Throttle(t) \/ Stage(t)
    \/ Mark
    \/ Parse

Spec == Init /\ [][Next]_vars

----------------------------------------------------------------------------
(* Properties.                                                             *)

Parsed == report # Null

(* The handle of t went to a thread whose create call began before the      *)
(* line of t's join or detach had its timestamp.                            *)
HandleContested(t) ==
    LET held(s) == Max({0} \cup ({threads[s].joined, threads[s].noted, threads[s].exited} \ {Null}))
    IN  \E s \in Threads \ {t} :
          /\ threads[s].handle = threads[t].handle
          /\ threads[s].created < Max({held(t), threads[t].created})
          /\ threads[t].created < Max({held(s), threads[s].created})

(* A started thread has one record, with its own tid, start and exit, and,  *)
(* unless its handle was contested, its own join and detach.                *)
Told(records, t) ==
    \E i \in DOMAIN records :
        LET r == records[i] IN
        /\ r.handle = threads[t].handle /\ r.created = threads[t].created
        /\ r.tid = threads[t].tid /\ r.started = threads[t].started
        /\ r.exited = threads[t].exited
        /\ \A j \in DOMAIN records : j # i => records[j].started # r.started
        /\ HandleContested(t) \/ /\ r.joined = threads[t].joined
                                 /\ r.detached <=> threads[t].noted # Null

(* lifecycle_records, and the older parse_trace_file too, give every thread *)
(* that started exactly one record, although kernel thread ids and          *)
(* pthread_t values are reused and the line of pthread_create may be        *)
(* written after the child's own lines, or never.                           *)
ThreadsToldApart ==
    Parsed => \A t \in Threads : threads[t].started # Null =>
                Told(report.records, t) /\ Told(report.summary, t)

(* The threads that had the tid of this row during its window.              *)
LivingIn(row) ==
    {t \in Threads : /\ threads[t].tid = row.tid /\ threads[t].started # Null
                     /\ threads[t].started <= row.end
                     /\ Or(threads[t].exited, now) > row.begin}

ThreadOf(row) == CHOOSE t \in LivingIn(row) : TRUE

(* The thread was in this state for the whole interval.                     *)
TrulyIn(t, states, begin, end) == \A k \in begin .. end - 1 : was[k][t].cpu \in states

(* An interval of scheduler_intervals says what the thread really did, and  *)
(* the intervals of a row leave no time out between them; the one exception *)
(* is a leading "ready" that a redundant wake-up of a running thread opens. *)
(* This holds of the rows of the measured window and of the rows of the     *)
(* whole life of a thread, unless its create call began while its tid still *)
(* belonged to another thread.                                              *)
IntervalsAreHonest ==
    Parsed => \A row \in Range(report.rows) \cup
                 {r \in Range(report.timing) : Cardinality(LivingIn(r)) = 1} :
        LET t == ThreadOf(row)
        IN  \A i \in DOMAIN row.intervals :
              LET v == row.intervals[i] IN
              /\ row.begin <= v.start /\ v.end <= row.end
              /\ i > 1 => v.start = row.intervals[i - 1].end
              /\ \/ TrulyIn(t, {v.state}, v.start, v.end)
                 \/ i = 1 /\ v.state = "ready" /\ TrulyIn(t, {"running"}, v.start, v.end)

(* [release, completion) is one job of thread t: it was awake throughout    *)
(* and asleep before and after.                                             *)
IsJob(t, release, completion) ==
    /\ release < completion
    /\ TrulyIn(t, {"ready", "running"}, release, completion)
    /\ was[release - 1][t].cpu = "sleeping"
    /\ was[completion][t].cpu = "sleeping"

Complete(a) == ~a.partial_start /\ ~a.partial_end

(* The activations that are not marked partial are exactly the jobs of the  *)
(* thread whose preceding sleep began in its window and whose own end is in *)
(* the window, each with the time it really ran: deadlines are derived from *)
(* them.                                                                    *)
ActivationsAreJobs ==
    Parsed => \A n \in DOMAIN report.rows :
        LET row == report.rows[n]
            t == ThreadOf(row)
            jobs == {<<release, completion>> \in (row.begin + 1 .. row.end) \X (row.begin .. row.end) :
                        /\ IsJob(t, release, completion)
                        /\ \E k \in row.begin .. release - 1 :
                              /\ was[k - 1][t].cpu = "running"
                              /\ TrulyIn(t, {"sleeping"}, k, release)}
            complete == {k \in DOMAIN row.activations : Complete(row.activations[k])}
        IN  /\ jobs = {<<row.activations[k].release, row.activations[k].completion>> :
                          k \in complete}
            /\ \A k \in complete : row.activations[k].execution =
                 Cardinality({j \in row.activations[k].release ..
                                    row.activations[k].completion - 1 :
                                was[j][t].cpu = "running"})

(* What t really executed outside interrupts in [begin, end).               *)
OwnExecution(t, begin, end) ==
    Cardinality({k \in begin .. end - 1 : was[k][t].cpu = "running" /\ was[k][t].irq = <<>>})

(* The interrupt correction never credits a complete activation with more   *)
(* execution than the thread had, and is exact unless a hard interrupt      *)
(* preempted a soft one, which is subtracted twice.                         *)
CorrectedExecution ==
    Parsed => \A n \in DOMAIN report.corrected :
        LET a == report.corrected[n]
            t == CHOOSE t \in Threads : threads[t].tid = a.tid
            own == OwnExecution(t, a.release, a.completion)
        IN  Complete(a) =>
              /\ a.task_execution <= own
              /\ \/ a.task_execution = own
                 \/ \E k \in a.release .. a.completion - 1 : Len(was[k][t].irq) = 2

(* The correlation names the stage that thread t left last in the           *)
(* activation before the exhaustion.                                        *)
LastLeft(t, c) ==
    LET left == {e \in Range(lanes[1]) \cup Range(lanes[2]) :
                   e.event = "end" /\ c.activation.release <= e.ts /\ e.ts <= c.ts}
    IN  IF left = {} THEN c.last = Null
        ELSE c.last # Null /\ \A e \in left : e.ts <= c.last.end

(* Every runtime exhaustion of a traced thread inside the window fails the  *)
(* overrun gate and is attributed to the activation it happened in, with    *)
(* the stages of the receive path that were then open and were left before  *)
(* the trace ended, although the stage events come from several lanes.      *)
OverrunsCorrelated ==
    Parsed /\ report.overruns # Null =>
        LET window == report.window
            true == {k \in DOMAIN kernel :
                       /\ kernel[k].event = "dl_runtime_exhausted"
                       /\ window.begin <= kernel[k].ts /\ kernel[k].ts <= window.end
                       /\ report.corrected # <<>>}
            Closed(t, stage) == stage \notin Range(threads[t].stage)
        IN  /\ report.overruns.gate_passed <=> true = {}
            /\ {c.ts : c \in Range(report.overruns.correlations)} = {kernel[k].ts : k \in true}
            /\ \A c \in Range(report.overruns.correlations) :
                 LET t == CHOOSE t \in Threads : threads[t].tid = c.tid
                     open == SelectSeq(was[c.ts][t].stage, LAMBDA g : Closed(t, g))
                 IN  /\ <<>> \o [i \in DOMAIN c.stages |-> [stage |-> c.stages[i].stage,
                                                           begin |-> c.stages[i].begin]] = open
                     /\ IF c.activation = Null
                        THEN \A e \in Range(lime) : e.ts \notin window.begin .. c.ts
                        ELSE /\ TrulyIn(t, {"ready", "running"}, c.activation.release, c.ts)
                             /\ LastLeft(t, c)
============================================================================
