-------------------------- MODULE ProbeLifecycle ---------------------------
(***************************************************************************)
(* What one run of the steady probe promises its caller: cameras warm up,  *)
(* one measurement may begin once all of them are warm, deliveries are     *)
(* taken only while it lasts, and the run ends with one result.            *)
(***************************************************************************)
EXTENDS Naturals

CONSTANTS Cameras, Quota, Counted

VARIABLES phase, result, warm, taken

vars == <<phase, result, warm, taken>>

Init ==
    /\ phase = "warmup" /\ result = "pending"
    /\ warm = {} /\ taken = [c \in Cameras |-> 0]

Warm(c) ==
    /\ phase # "over" /\ c \notin warm
    /\ warm' = warm \cup {c}
    /\ UNCHANGED <<phase, result, taken>>

\* The global barrier.
Begin ==
    /\ phase = "warmup" /\ result = "pending" /\ warm = Cameras
    /\ phase' = "measuring"
    /\ UNCHANGED <<result, warm, taken>>

Take(c) ==
    /\ phase = "measuring"
    /\ Counted => taken[c] < Quota
    /\ taken' = [taken EXCEPT ![c] = @ + 1]
    /\ UNCHANGED <<phase, result, warm>>

Fail ==
    /\ phase # "over" /\ result = "pending"
    /\ result' = "failed"
    /\ UNCHANGED <<phase, warm, taken>>

\* A run that never measured closes only because it failed.
Close ==
    /\ phase \in {"warmup", "measuring"}
    /\ phase' = "closing"
    /\ result' \in {result, "failed"}
    /\ phase = "warmup" => result' = "failed"
    /\ UNCHANGED <<warm, taken>>

Finish ==
    /\ phase = "closing" /\ phase' = "over"
    /\ \/ result = "failed" /\ UNCHANGED result
       \/ /\ result = "pending" /\ result' = "succeeded"
          /\ warm = Cameras
          /\ Counted => \A c \in Cameras : taken[c] = Quota
    /\ UNCHANGED <<warm, taken>>

\* An exception leaves main without a report, but never out of a measurement.
Abandon ==
    /\ phase \in {"warmup", "closing"} /\ phase' = "over"
    /\ result' = "abandoned"
    /\ UNCHANGED <<warm, taken>>

Next ==
    \/ Begin \/ Fail \/ Close \/ Finish \/ Abandon
    \/ \E c \in Cameras : Warm(c) \/ Take(c)

Spec == Init /\ [][Next]_vars
=============================================================================
