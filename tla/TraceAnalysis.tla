---------------------------- MODULE TraceAnalysis ----------------------------
(***************************************************************************)
(* The two questions asked of the traces of an attempt, each on its own:   *)
(* what did every thread do (ThreadTrace), and where were frames lost      *)
(* (FramePath).  The analyses share no state; a behaviour exercises one    *)
(* and leaves the other in one fixed initial state.                        *)
(***************************************************************************)
EXTENDS ThreadTrace, FramePath

VARIABLE question

AnalysisInit ==
    /\ question \in {"threads", "frames"}
    /\ Init /\ PathInit
    /\ question # "threads" => ~ focus.settled

AnalysisNext ==
    /\ UNCHANGED question
    /\ \/ question = "threads" /\ Next /\ UNCHANGED pathVars
       \/ question = "frames" /\ PathNext /\ UNCHANGED vars

AnalysisSpec == AnalysisInit /\ [][AnalysisNext]_<<question, vars, pathVars>>
==============================================================================
