-------------------------- MODULE MCOtherBenchmarks --------------------------
(* Startup: two or three candidates a stage, on both sides of the waits a    *)
(* camera shows.  Timerlat: two CPUs with two buckets each and at most two   *)
(* samples in a place; rtla starts within the guard.                         *)
EXTENDS OtherBenchmarks

MCCandidates == [st \in {"settle", "frame", "join", "delay"} |->
    CASE st = "settle" -> <<0, 1000>>
      [] st = "frame"  -> <<750, 1500, 3000>>
      [] st = "join"   -> <<0, 10, 25>>
      [] st = "delay"  -> <<0, 10>>]

MCHistograms == [count : [0..1 -> {0, 2}], over : {0, 1}]
==============================================================================
