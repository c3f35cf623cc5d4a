--------------------------- MODULE MCSteadyProbe ---------------------------
(* Instances of SteadyProbe for TLC: two cameras.                          *)
EXTENDS SteadyProbe

CONSTANTS c1, c2

MCCameras == {c1, c2}
MCSerials == <<c1, c2>>
MCSlaves == <<c2>>
NoSlaves == <<>>
=============================================================================
