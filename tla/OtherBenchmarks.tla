--------------------------- MODULE OtherBenchmarks ---------------------------
(***************************************************************************)
(* The benchmarks beside the steady one: the startup benchmark with its    *)
(* calibration (Startup), the Timerlat campaign (Timerlat) and the         *)
(* overhead of the diagnostic markers (DiagnosticOverhead).  They are      *)
(* programs of their own and share no state, so a behaviour runs one of    *)
(* them and leaves the others in one fixed initial state: every behaviour  *)
(* of BenchmarksSpec is one of Spec, of TimerlatSpec and of OverheadSpec.  *)
(***************************************************************************)
EXTENDS Startup, HostBenchmarks

VARIABLE benchmark

BenchmarksInit ==
    /\ benchmark \in {"startup", "timerlat", "overhead"}
    /\ Init /\ TimerlatInit /\ OverheadInit
    /\ benchmark # "timerlat" => case = [camera |-> TRUE, noise |-> TRUE]

BenchmarksNext ==
    /\ UNCHANGED benchmark
    /\ \/ /\ benchmark = "startup" /\ Next
          /\ UNCHANGED <<timerlatVars, overheadVars>>
       \/ /\ benchmark = "timerlat" /\ TimerlatNext
          /\ UNCHANGED <<vars, overheadVars>>
       \/ /\ benchmark = "overhead" /\ OverheadNext
          /\ UNCHANGED <<vars, timerlatVars>>

BenchmarksSpec ==
    /\ BenchmarksInit
    /\ [][BenchmarksNext]_<<benchmark, vars, timerlatVars, overheadVars>>
==============================================================================
