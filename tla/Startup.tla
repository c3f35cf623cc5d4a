------------------------------- MODULE Startup -------------------------------
(***************************************************************************)
(* The startup benchmark: the time-outs are calibrated, and a campaign     *)
(* runs with a recommendation that was validated (the README: "Use the     *)
(* lightweight calibration tool before changing the benchmark defaults").  *)
(***************************************************************************)
EXTENDS StartupCalibration, StartupCampaign

Init == ProbeInit /\ CalibrationInit /\ CampaignInit

\* The operator adopts the recommendation; the trials are forgotten.
Adopt ==
    /\ stage = "done" /\ advice.validated
    /\ Configure([frame |-> advice.selection.frame,
                  join |-> advice.selection.join,
                  delay |-> advice.selection.delay])
    /\ rows' = {} /\ resets' = {} /\ good' = {}
    /\ stage' = "adopted" /\ selected' = Untested /\ applied' = Untested
    /\ settle' = 0
    /\ UNCHANGED <<probe_vars, place, advice, slowest>>

Next ==
    \/ CalibrationNext /\ UNCHANGED campaign_vars
    \/ Adopt
    \/ CampaignNext /\ UNCHANGED calibration_vars
    \/ ProbeStep /\ UNCHANGED <<calibration_vars, campaign_vars>>

vars == <<probe_vars, calibration_vars, campaign_vars>>
Spec == Init /\ [][Next]_vars

\* The calibration is over before the campaign begins.
StartupInv ==
    /\ ProbeTypeOK /\ CalibrationTypeOK /\ CampaignTypeOK
    /\ ProbeReports /\ CalibrationInv /\ CampaignInv
    /\ stage = "adopted" <=> cpc # "idle"
=============================================================================
