--------------------------- MODULE MCCampaignSetup ---------------------------
(* Five cameras of three models, hubs with three ports, two and one; at     *)
(* first they are spread, they share hubs, one hub has too many, one        *)
(* camera is missing.  One pulse source and two receivers.  Two thread      *)
(* roles, periodic, jittery and in bursts, with an unusable behaviour each. *)
EXTENDS CampaignSetup

CONSTANTS s1, s2

MCSlaves == <<s1, s2>>
MCModes == 0..2

MCModel == <<"D455", "D435", "D455", "D415", "D455">>
MCHub == <<1, 1, 1, 2, 2, 3>>
MCRegistered == 1..5
MCPlacements == { <<1, 4, 2, 6, 5>>, <<1, 2, 4, 5, None>>, <<1, 2, 3, 4, 6>>,
                  <<4, 1, 5, None, 2>> }

\* gaps[i] is the time to the next activation; `width` activations are a job.
Pattern(gaps, execution, width) ==
    <<>> \o [i \in 1..(Len(gaps) + 1) |->
        [release |-> FoldLeft(+, Begin, SubSeq(gaps, 1, i - 1)),
         execution |-> execution[((i - 1) % Len(execution)) + 1],
         partial |-> FALSE,
         job |-> (i - 1) \div width]]

\* The first activation began before the window.
Cut(acts) == [acts EXCEPT ![1].partial = TRUE, ![1].execution = 30]

MCDemands ==
    <<{Pattern(<<20, 20, 20>>, <<1, 2>>, 1),
       Pattern(<<20, 21, 14, 20>>, <<4>>, 1),
       Pattern(<<2, 18, 2, 20, 2>>, <<3, 2>>, 2)},
      {Pattern(<<33, 33>>, <<5>>, 1),
       Cut(Pattern(<<9, 10, 10, 11>>, <<2>>, 1)),
       Pattern(<<4, 40, 10>>, <<1>>, 1)}>>

MCCrews == {<<1, 2, 1>>, <<1, 2>>}

\* By hand: sound, for a role nobody has, twice the same identity, a runtime
\* beyond its period, nothing.
Line(signature, instance, runtime, period) ==
    [signature |-> signature, instance |-> instance,
     runtime |-> runtime, period |-> period]
MCProfiles ==
    { <<Line(1, 2, 3, 10), Line(2, 1, 3, 10), Line(1, 1, 2, 5)>>,
      <<Line(1, 1, 3, 10), Line(3, 1, 3, 10)>>,
      <<Line(1, 1, 3, 10), Line(1, 1, 2, 10)>>,
      <<Line(1, 1, 11, 10)>>, <<>> }
==============================================================================
