---------------------------- MODULE CampaignSetup ----------------------------
(***************************************************************************)
(* What a campaign prepares before its cameras are measured, and puts back *)
(* afterwards, each part on its own: the cases of a multi-camera campaign  *)
(* from the layout of the bus (MultiCamera), the controls of the host      *)
(* (SystemControls), the sync modes of the cameras (HardwareSync) and the  *)
(* scheduler parameters of their threads (DeadlineProfile).  The parts     *)
(* share no state, so a behaviour exercises one of them and leaves the     *)
(* others in one fixed initial state.                                      *)
(***************************************************************************)
EXTENDS HardwareSync, MultiCamera, DeadlineProfile, SystemControls

VARIABLE part

SetupInit ==
    /\ part \in {"sync", "fleet", "profile", "controls"}
    /\ SyncInit /\ FleetInit /\ ProfileInit /\ ControlsInit
    /\ part # "sync" => \A c \in Cameras : mode[c] = 0
    /\ part # "fleet" => port = CHOOSE p \in Placements : TRUE
    /\ part # "controls" => ~host.had

\* Planning and profile generation may stop anywhere, restoration may not.
Rest ==
    /\ part \in {"fleet", "profile"}
    /\ UNCHANGED <<syncVars, fleetVars, profileVars, controlVars>>

SetupNext ==
    /\ UNCHANGED part
    /\ \/ /\ part = "sync" /\ SyncNext
          /\ UNCHANGED <<fleetVars, profileVars, controlVars>>
       \/ /\ part = "fleet" /\ FleetNext
          /\ UNCHANGED <<syncVars, profileVars, controlVars>>
       \/ /\ part = "profile" /\ ProfileNext
          /\ UNCHANGED <<syncVars, fleetVars, controlVars>>
       \/ /\ part = "controls" /\ ControlsNext
          /\ UNCHANGED <<syncVars, fleetVars, profileVars>>
       \/ Rest

SetupSpec ==
    SetupInit /\ [][SetupNext]_<<part, syncVars, fleetVars, profileVars, controlVars>>
==============================================================================
