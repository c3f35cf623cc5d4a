------------------------- MODULE MCSystemControls -------------------------
(* SystemControls on its own, with two cameras.                             *)
EXTENDS SystemControls

=============================================================================
