------------------------------ MODULE FramePath ------------------------------
(***************************************************************************)
(* Where were the missing frames lost?  Every frame of a stream passes     *)
(* three recorded layers: the UVC driver completes it (uvc_frame_ready),   *)
(* the kernel hands it out (v4l2_dqbuf) and librealsense has it            *)
(* (video_dqbuf_end).  After an attempt the runner first lets              *)
(* parse_v4l2_diagnostic_trace.py look for sequence gaps at the last       *)
(* layer, then parse_freshness_kernel_trace.py look for gaps at the first  *)
(* two and blame one of the layers for every gap of the last.              *)
(*                                                                         *)
(* Time is in units of 10 ms; a stream delivers about 30 frames a second.  *)
(***************************************************************************)
EXTENDS Integers, FiniteSets, Sequences, SequencesExt, FiniteSetsExt

CONSTANTS
    Streams,      \* 1..n; a stream has its own TID, descriptor and queue
    FrameCount,   \* bound: frames of a stream
    Windows,      \* steady windows <<begin, end>> of the lifecycle
    Validations,  \* what an exceptional uvc_frame_validation may report
    MaxTroubles   \* bound: frames that are lost or late

VARIABLES
    pathStage,  \* what the runner does next, or how it ended
    fates,      \* fates[s]: what became of each frame of stream s
    window,
    success,    \* the probe's summary says success
    gapFile,    \* rows of v4l2_sequence_gaps.csv; empty when it is missing
    verdict     \* freshness_kernel_trace_summary.json

pathVars == <<pathStage, fates, window, success, gapFile, verdict>>

FramePeriod == 3
Radius == [gap |-> 2, error |-> 5, validation |-> 10]

(***************************************************************************)
(* The truth: a fate says where a frame was lost, which exceptional event  *)
(* the kernel recorded with it, and how late the later layers saw it.      *)
(***************************************************************************)

Clean == [prior |-> FALSE, used |-> "exact", header |-> FALSE, invalid |-> FALSE]

Fine == [lost |-> "no", event |-> "none", report |-> Clean, queued |-> 0, taken |-> 0]

Lost(where, event) == [Fine EXCEPT !.lost = where, !.event = event]

Fates ==
    {Fine}
      \cup {[Fine EXCEPT !.queued = q, !.taken = t] : q, t \in {0, 1}}
      \cup {Lost("usb", "none"), Lost("queue", "none"), Lost("user", "none")}
      \cup {Lost("usb", e) : e \in {"uvc_error", "no_buffer", "xhci"}}
      \cup {[Lost("usb", "validation") EXCEPT !.report = v] : v \in Validations}

Troubles == Cardinality({<<s, k>> \in Streams \X (1..FrameCount) :
                            k <= Len(fates[s]) /\ fates[s][k] # Fine})

ReadyAt(s, k) == FramePeriod * k + s
DequeuedAt(s, k) == ReadyAt(s, k) + fates[s][k].queued
TakenAt(s, k) == DequeuedAt(s, k) + fates[s][k].taken

Reached == [ready |-> {"no", "queue", "user"}, dequeued |-> {"no", "user"}, taken |-> {"no"}]

At(layer, s, k) ==
    CASE layer = "ready" -> ReadyAt(s, k)
      [] layer = "dequeued" -> DequeuedAt(s, k)
      [] layer = "taken" -> TakenAt(s, k)

\* Every frame sent, in the order sent.
Sent ==
    LET n == Cardinality(Streams)
    IN  <<>> \o [i \in 1..(FrameCount * n) |-> <<((i - 1) % n) + 1, ((i - 1) \div n) + 1>>]

Ordered(rows) ==
    SortSeq(rows, LAMBDA a, b : a.at < b.at \/ (a.at = b.at /\ a.stream < b.stream))

\* The rows a layer recorded, in the order of their timestamps.
Rows(layer) ==
    LET seen == SelectSeq(Sent, LAMBDA x : fates[x[1]][x[2]].lost \in Reached[layer])
    IN  Ordered(<<>> \o [i \in DOMAIN seen |->
            [at |-> At(layer, seen[i][1], seen[i][2]),
             stream |-> seen[i][1], sequence |-> seen[i][2]]])

\* Exceptional events of a kind, with the frame they belong to.
Events(kind) ==
    LET hit == SelectSeq(Sent, LAMBDA x : fates[x[1]][x[2]].event = kind)
    IN  Ordered(<<>> \o [i \in DOMAIN hit |->
            [at |-> ReadyAt(hit[i][1], hit[i][2]),
             stream |-> hit[i][1], sequence |-> hit[i][2]]])

(***************************************************************************)
(* The parsers.                                                            *)
(***************************************************************************)

InSteadyState(row) == window[1] <= row.at /\ row.at <= window[2]

\* Faulty: one previous sequence for all streams.
MixedStep(state, row) ==
    LET last == state.previous[1]
    IN  [previous |-> [s \in Streams |-> row.sequence],
         gaps |-> IF last # 0 /\ row.sequence # last + 1
                  THEN Append(state.gaps,
                         [at |-> row.at, stream |-> row.stream, sequence |-> row.sequence,
                          previous |-> last,
                          missing |-> Max({0, row.sequence - last - 1})])
                  ELSE state.gaps]

\* One row of the gap search: previous is the last sequence of each stream.
gap_step(state, row) ==
    LET last == state.previous[row.stream]
    IN  [previous |-> [state.previous EXCEPT ![row.stream] = row.sequence],
         gaps |-> IF last # 0 /\ row.sequence # last + 1
                  THEN Append(state.gaps,
                         [at |-> row.at, stream |-> row.stream, sequence |-> row.sequence,
                          previous |-> last,
                          missing |-> Max({0, row.sequence - last - 1})])
                  ELSE state.gaps]

discontinuities(rows) ==
    FoldLeft(gap_step, [previous |-> [s \in Streams |-> 0], gaps |-> <<>>],
             SelectSeq(rows, InSteadyState)).gaps

\* The row closest in time, of the wanted sequence if one is in reach; the
\* first of equally close ones.  Empty when none is in reach.
nearest(rows, at, radius, sequence) ==
    LET near == SelectSeq(rows, LAMBDA r : at - radius <= r.at /\ r.at <= at + radius)
        exact == SelectSeq(near, LAMBDA r : r.sequence = sequence)
        candidates == IF sequence # 0 /\ exact # <<>> THEN exact ELSE near
        Distance(r) == IF r.at < at THEN at - r.at ELSE r.at - at
    IN  IF candidates = <<>> THEN <<>>
        ELSE <<candidates[Min({i \in DOMAIN candidates :
                 \A j \in DOMAIN candidates :
                    Distance(candidates[i]) <= Distance(candidates[j])})]>>

\* A validation event: [prior, used ("short", "exact", "over"), header, invalid].
validation_cause(v) ==
    CASE v.used = "over" -> "uvc_frame_overflow"
      [] v.used # "over" /\ v.prior /\ v.header -> "uvc_payload_error_flag"
      [] v.used = "short" /\ v.prior /\ ~ v.header -> "uvc_iso_packet_error"
      [] v.used # "over" /\ v.invalid /\ ~ (v.prior /\ (v.header \/ v.used = "short"))
            -> "uvc_invalid_payload_header"
      [] v.used = "short" /\ ~ v.prior /\ ~ v.invalid -> "uvc_short_frame"
      [] OTHER -> "uvc_preexisting_buffer_error"

\* Faulty: the dequeue layer is asked before the driver.
LastLayerFirst(gap) ==
    IF nearest(discontinuities(Rows("dequeued")), gap.at, Radius.gap, gap.sequence) # <<>>
    THEN "between_uvc_ready_and_v4l2_dqbuf"
    ELSE "between_kernel_dqbuf_and_librealsense"

\* The evidence decides in this order.
classification(gap) ==
    LET validation == nearest(Events("validation"), gap.at, Radius.validation, gap.previous + 1)
        Found(kind) == nearest(Events(kind), gap.at, Radius.error, 0) # <<>>
        GapAt(layer) == nearest(discontinuities(Rows(layer)), gap.at, Radius.gap, gap.sequence) # <<>>
    IN  IF validation # <<>>
        THEN validation_cause(fates[validation[1].stream][validation[1].sequence].report)
        ELSE IF Found("uvc_error") THEN "uvc_corrupted_buffer"
        ELSE IF Found("no_buffer") THEN "uvc_buffer_starvation"
        ELSE IF Found("xhci") THEN "xhci_urb_error"
        ELSE IF GapAt("ready") THEN "uvc_or_usb_before_frame_ready"
        ELSE IF GapAt("dequeued") THEN "between_uvc_ready_and_v4l2_dqbuf"
        ELSE "between_kernel_dqbuf_and_librealsense"

MissingFrames(gaps) == FoldLeft(LAMBDA sum, g : sum + g.missing, 0, gaps)

(***************************************************************************)
(* Actions.                                                                *)
(***************************************************************************)

NoVerdict == [missing |-> <<0, 0, 0>>, classes |-> <<>>]

PathInit ==
    /\ pathStage = "capture"
    /\ fates = [s \in Streams |-> <<>>]
    /\ window = <<0, 0>>
    /\ success = FALSE
    /\ gapFile = <<>>
    /\ verdict = NoVerdict

Behind(s) == \A t \in Streams : Len(fates[s]) < Len(fates[t])
                \/ (Len(fates[s]) = Len(fates[t]) /\ s <= t)

\* The camera sends the next frame.
Frame ==
    /\ pathStage = "capture"
    /\ \E s \in Streams :
        /\ Behind(s) /\ Len(fates[s]) < FrameCount
        /\ \E fate \in Fates :
            /\ fate # Fine => Troubles < MaxTroubles
            /\ fates' = [fates EXCEPT ![s] = Append(@, fate)]
    /\ UNCHANGED <<pathStage, window, success, gapFile, verdict>>

\* The attempt ends; its steady window and its outcome are in the records.
Recorded ==
    /\ pathStage = "capture"
    /\ \A s \in Streams : Len(fates[s]) = FrameCount
    /\ \E w \in Windows, ok \in BOOLEAN : window' = w /\ success' = ok
    /\ pathStage' = "v4l2"
    /\ UNCHANGED <<fates, gapFile, verdict>>

\* The runner parses the V4L2 trace: it writes the gaps of the last layer.
parse_v4l2 ==
    /\ pathStage = "v4l2"
    /\ gapFile' = discontinuities(Rows("taken"))
    /\ pathStage' = "freshness"
    /\ UNCHANGED <<fates, window, success, verdict>>

\* It cannot: the trace file is truncated.  Of a successful attempt that is
\* an error; otherwise the runner goes on, without the gap file.
parse_v4l2_fails ==
    /\ pathStage = "v4l2"
    /\ pathStage' = IF success THEN "raised" ELSE "freshness"
    /\ UNCHANGED <<fates, window, success, gapFile, verdict>>

parse_freshness ==
    /\ pathStage = "freshness"
    /\ verdict' =
         [missing |-> <<MissingFrames(discontinuities(Rows("ready"))),
                        MissingFrames(discontinuities(Rows("dequeued"))),
                        MissingFrames(gapFile)>>,
          classes |-> <<>> \o [i \in DOMAIN gapFile |-> classification(gapFile[i])]]
    /\ pathStage' = "reported"
    /\ UNCHANGED <<fates, window, success, gapFile>>

\* Its trace may be cut short as well.
parse_freshness_fails ==
    /\ pathStage = "freshness"
    /\ pathStage' = IF success THEN "raised" ELSE "unreported"
    /\ UNCHANGED <<fates, window, success, gapFile, verdict>>

PathNext ==
    \/ Frame \/ Recorded \/ parse_v4l2 \/ parse_v4l2_fails
    \/ parse_freshness \/ parse_freshness_fails

PathSpec == PathInit /\ [][PathNext]_pathVars

(***************************************************************************)
(* Properties.                                                             *)
(***************************************************************************)

Shown(layer, s) ==
    {k \in 1..FrameCount : /\ fates[s][k].lost \in Reached[layer]
                           /\ window[1] <= At(layer, s, k) /\ At(layer, s, k) <= window[2]}

\* Frames that truly never reached a layer, between the first and the last
\* frame of their stream that did so within the window.
TrulyMissing(layer, s) ==
    {k \in 1..FrameCount : /\ fates[s][k].lost \notin Reached[layer]
                           /\ \E a, b \in Shown(layer, s) : a < k /\ k < b}

\* A report on a successful attempt (parse_freshness_kernel_trace.py,
\* parse_v4l2_diagnostic_trace.py) counts at each of the three layers
\* exactly the frames that never got there, of every stream, although
\* streams interleave and the layers see a frame at different times.
LossesCounted ==
    pathStage = "reported" /\ success =>
        \A i \in 1..3 :
            verdict.missing[i] =
                LET layer == <<"ready", "dequeued", "taken">>[i]
                IN  MapThenSumSet(LAMBDA s : Cardinality(TrulyMissing(layer, s)), Streams)

StageOf(class) ==
    IF class = "between_kernel_dqbuf_and_librealsense" THEN 3
    ELSE IF class = "between_uvc_ready_and_v4l2_dqbuf" THEN 2 ELSE 1

TrueStage(fate) == IF fate.lost = "user" THEN 3 ELSE IF fate.lost = "queue" THEN 2 ELSE 1

TrueClass(fate) ==
    IF fate.event = "validation" THEN validation_cause(fate.report)
    ELSE CASE fate.event = "uvc_error" -> "uvc_corrupted_buffer"
           [] fate.event = "no_buffer" -> "uvc_buffer_starvation"
           [] fate.event = "xhci" -> "xhci_urb_error"
           [] fate.lost = "usb" /\ fate.event = "none" -> "uvc_or_usb_before_frame_ready"
           [] fate.lost = "queue" -> "between_uvc_ready_and_v4l2_dqbuf"
           [] OTHER -> "between_kernel_dqbuf_and_librealsense"

\* A gap whose preceding frame was completed inside the window is never
\* blamed on a layer behind the one that lost its last missing frame, and
\* the only loss of an attempt is blamed on exactly what caused it
\* (parse_freshness_kernel_trace.py, the classification of raw gaps).
BlameNotDownstream ==
    pathStage = "reported" =>
        \A i \in DOMAIN gapFile :
            LET gap == gapFile[i]
                fate == fates[gap.stream][gap.sequence - 1]
            IN  ReadyAt(gap.stream, gap.previous) >= window[1] =>
                  /\ StageOf(verdict.classes[i]) <= TrueStage(fate)
                  /\ Cardinality({<<s, k>> \in Streams \X (1..FrameCount) :
                                     fates[s][k].lost # "no"}) = 1
                        => verdict.classes[i] = TrueClass(fate)
==============================================================================
