--------------------------- MODULE MCAttemptLoop ---------------------------
(* AttemptLoop for TLC: two interchangeable cameras.                       *)
EXTENDS AttemptLoop, TLC

CameraSymmetry == Permutations(Cameras)
=============================================================================
