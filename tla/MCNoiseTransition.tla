------------------------- MODULE MCNoiseTransition -------------------------
(* NoiseTransition for TLC: two workloads.                                 *)
EXTENDS NoiseTransition

CONSTANTS cpu, gpu

MCWorkloads == <<cpu, gpu>>
=============================================================================
