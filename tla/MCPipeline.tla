----------------------------- MODULE MCPipeline -----------------------------
(* Model checking of Pipeline: the thirteen stages and four kernels of the   *)
(* program, two possible interrupt numberings.                               *)
EXTENDS Pipeline

MCIrqNumbers == {131, 136}
=============================================================================
