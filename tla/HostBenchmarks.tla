--------------------------- MODULE HostBenchmarks ---------------------------
(***************************************************************************)
(* The two benchmarks that act on the host beside the cameras: Timerlat    *)
(* runs stress-ng and rtla, the overhead benchmark sets the frequencies of *)
(* the CPUs.  What both owe the host when they are over.                   *)
(***************************************************************************)
EXTENDS Timerlat, DiagnosticOverhead

\* A Timerlat or an overhead campaign that is over, completed, failed or
\* interrupted, has left no process behind that it could have stopped, and no
\* frequency it could have put back (their finally clauses and cleanups).
NothingLeft == TimerlatLeavesNothing /\ OverheadLeavesNothing
==============================================================================
