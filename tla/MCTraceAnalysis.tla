--------------------------- MODULE MCTraceAnalysis ---------------------------
(* Threads: one choice of event families per behaviour, long enough for the *)
(* cases the parsers have to tell apart.  Frames: two streams, the kinds of *)
(* damage a validation reports, windows that cut off the first frames, the  *)
(* last ones, and none.                                                     *)
EXTENDS TraceAnalysis

MCFocuses ==
    {[families |-> {"life"}, ticks |-> 9, settled |-> FALSE],
     [families |-> {"life", "sched", "mark"}, ticks |-> 7, settled |-> TRUE],
     [families |-> {"sched", "wake", "mark"}, ticks |-> 10, settled |-> TRUE],
     [families |-> {"sched", "irq", "mark"}, ticks |-> 10, settled |-> TRUE],
     [families |-> {"sched", "throttle", "stage", "mark"}, ticks |-> 9, settled |-> TRUE]}

MCValidations ==
    {[prior |-> TRUE, used |-> "exact", header |-> TRUE, invalid |-> TRUE],
     [prior |-> TRUE, used |-> "short", header |-> FALSE, invalid |-> TRUE],
     [prior |-> FALSE, used |-> "short", header |-> FALSE, invalid |-> TRUE],
     [prior |-> FALSE, used |-> "short", header |-> FALSE, invalid |-> FALSE],
     [prior |-> TRUE, used |-> "over", header |-> TRUE, invalid |-> FALSE],
     [prior |-> TRUE, used |-> "exact", header |-> FALSE, invalid |-> FALSE]}

MCWindows == {<<0, 100>>, <<5, 12>>, <<4, 100>>}
==============================================================================
