----------------------------- MODULE MultiCamera -----------------------------
(***************************************************************************)
(* The multi-camera front end (run_multicamera_campaign.py,                *)
(* generate_profiles.py, realsense_devices.py): inventory freezes where    *)
(* the cameras are plugged in, run validates the frozen layout against the *)
(* bus, plans the cases of a suite and hands them to the steady campaign,  *)
(* and generate_profiles makes one scheduler profile per case.  Between    *)
(* the commands somebody may plug cameras elsewhere.                       *)
(*                                                                         *)
(* A camera is a number, which stands for its serials and its label; the   *)
(* hub and the controller follow from the port.                            *)
(***************************************************************************)
EXTENDS Integers, Sequences, FiniteSets, SequencesExt

CONSTANTS
    Model,        \* the model of each camera
    Hub,          \* the hub of each port
    Placements,   \* where the cameras may be plugged in at first
    Suites,       \* --suite
    Registered,   \* the cameras of known_cameras.json
    MaxPerHub,    \* --max-cameras-per-hub
    MinimumRuns,  \* --minimum-runs of generate_profiles
    MaxMoves,     \* bound: cameras plugged elsewhere
    MaxRuns       \* bound: commands

Fleet == DOMAIN Model
Ports == DOMAIN Hub
None == 0   \* ports count from 1

ASSUME MultiCameraAssumption ==
    /\ Fleet \subseteq Nat /\ Registered \subseteq Fleet
    /\ Placements \subseteq [Fleet -> Ports \cup {None}]
    /\ Suites \subseteq {"smoke", "scaling", "heterogeneous", "stereo-smoke",
                          "all"}
    /\ {MaxPerHub, MinimumRuns, MaxMoves, MaxRuns} \subseteq Nat

VARIABLES
    port,      \* where each camera is plugged in, or None
    slow,      \* the cameras that fell back to USB 2
    layout,    \* the frozen layout: placement and scaling order
    cases,     \* the cases of the last run
    seen,      \* the layout that run used and the placement it found
    recorded,  \* the runs with SCHED_OTHER: the cases that succeeded, and where
    profiles,  \* the profile of each case: the placements it was made from
    modeled,   \* the last run used the profiles
    moves, runs

fleetVars == <<port, slow, layout, cases, seen, recorded, profiles, modeled,
               moves, runs>>

-----------------------------------------------------------------------------
(* Orders.                                                                 *)

\* S in a total order: each element comes after those before it (the empty
\* sequence makes TLC compute the elements once).
Sorted(S, before(_, _)) ==
    <<>> \o [i \in 1..Cardinality(S) |->
       CHOOSE c \in S : Cardinality({d \in S : before(d, c)}) = i - 1]

ModelRank == [D415 |-> 1, D435 |-> 2, D455 |-> 3]
model_priority == [D455 |-> 0, D435 |-> 1, D415 |-> 2]
stereo_models == {"D435", "D455"}

Precedes(a, b) ==
    \/ ModelRank[Model[a]] < ModelRank[Model[b]]
    \/ Model[a] = Model[b] /\ a < b
Listed(S) == Sorted(S, Precedes)

\* Faulty variant: the cameras of one hub after those of another.
HubByHub(S, place) ==
    Sorted(S, LAMBDA a, b :
      \/ Hub[place[a]] < Hub[place[b]]
      \/ Hub[place[a]] = Hub[place[b]] /\ Precedes(a, b))

\* _spread takes one camera of each hub in turn: a camera comes in the round of
\* its rank in its hub.
_spread(S, place) ==
    LET round(c) == Cardinality({d \in S : Hub[place[d]] = Hub[place[c]]
                                           /\ Precedes(d, c)})
    IN  Sorted(S, LAMBDA a, b :
          \/ round(a) < round(b)
          \/ round(a) = round(b) /\ Hub[place[a]] < Hub[place[b]])

\* _choose_models: for each model in turn the camera on the least used hub, and
\* of those the one with the smallest serial.
_choose_models(S, place, models) ==
    LET used(sel, c) == Cardinality({i \in DOMAIN sel :
                                       Hub[place[sel[i]]] = Hub[place[c]]})
        choose(sel, m) ==
          LET free == {c \in S : Model[c] = m} \ ToSet(sel)
          IN  Append(sel, CHOOSE c \in free : \A d \in free :
                \/ used(sel, c) < used(sel, d)
                \/ used(sel, c) = used(sel, d) /\ c <= d)
    IN  FoldLeft(choose, <<>>, models)

ModelsOf(S) == {Model[c] : c \in S}
OfModel(S, m) == {c \in S : Model[c] = m}

\* inventory_layout: the most numerous model first, each of them spread.
scaling_order(place) ==
    LET S == DOMAIN place
        count(m) == Cardinality(OfModel(S, m))
        order == Sorted(ModelsOf(S), LAMBDA m, n :
                   \/ count(m) > count(n)
                   \/ count(m) = count(n)
                      /\ model_priority[m] < model_priority[n])
    IN  FoldLeft(LAMBDA acc, m : acc \o _spread(OfModel(S, m), place),
                 <<>>, order)

-----------------------------------------------------------------------------
(* plan_cases.                                                             *)

Case(suite, profile, cameras) ==
    [suite |-> suite, profile |-> profile, cameras |-> cameras]
Growing(seq, from) ==
    LET n == Min({4, Len(seq)})
    IN  SubSeq([i \in 1..n |-> SubSeq(seq, 1, i)], from, n)
Singles(seq) == [i \in DOMAIN seq |-> <<seq[i]>>]
AsCases(suite, profile, sets) ==
    <<>> \o [i \in DOMAIN sets |-> Case(suite, profile, sets[i])]

smoke_cases(S) == AsCases("smoke", "common", Singles(Listed(S)))

scaling_cases(S, place, order) ==
    LET rest == SelectSeq(_spread(S, place), LAMBDA c : c \notin ToSet(order))
    IN  AsCases("scaling", "common", Growing(order \o rest, 1))

\* Every pair of models, the three models, and four cameras.
heterogeneous_cases(S, place) ==
    LET models == Sorted(ModelsOf(S),
                               LAMBDA m, n : ModelRank[m] < ModelRank[n])
        n == Len(models)
        pairs == CASE n < 2 -> <<>>
                   [] n = 2 -> <<models>>
                   [] n = 3 -> << <<models[1], models[2]>>,
                                  <<models[1], models[3]>>,
                                  <<models[2], models[3]>> >>
        three == IF n = 3 THEN << <<"D455", "D435", "D415">> >> ELSE <<>>
        chosen == [i \in 1..Len(pairs \o three) |->
                     _choose_models(S, place, (pairs \o three)[i])]
        four == IF Cardinality(S) >= 4 /\ n >= 2
                  THEN << SubSeq(_spread(S, place), 1, 4) >> ELSE <<>>
    IN  AsCases("heterogeneous", "common", chosen \o four)

stereo_cases(S, place) ==
    LET of(m) == LET ordered == _spread(OfModel(S, m), place)
                 IN  Singles(ordered) \o Growing(ordered, 2)
    IN  AsCases("stereo", "stereo", of("D455") \o of("D435"))

\* The first case of each set of cameras and profile is kept.
deduplicated(cs) ==
    LET same(c, d) == ToSet(c.cameras) = ToSet(d.cameras)
                      /\ c.profile = d.profile
        first == {i \in DOMAIN cs : \A j \in 1..(i - 1) : ~same(cs[i], cs[j])}
        kept == Sorted(first, <)
    IN  <<>> \o [k \in DOMAIN kept |-> cs[kept[k]]]

plan_cases(l, suite) ==
    LET S == DOMAIN l.place
        of(names, cs) == IF suite \in names THEN cs ELSE <<>>
    IN  deduplicated(
          of({"smoke", "all"}, smoke_cases(S)) \o
          of({"scaling", "all"}, scaling_cases(S, l.place, l.order)) \o
          of({"heterogeneous", "all"}, heterogeneous_cases(S, l.place)) \o
          of({"stereo-smoke", "all"}, stereo_cases(S, l.place)))

-----------------------------------------------------------------------------
\* discover_realsense_devices and device_record.
connected == {c \in Fleet : port[c] # None}
Placement == [c \in connected |-> port[c]]
NoLayout == [place |-> <<>>, order |-> <<>>]

OnHub(S, place, h) == {c \in S : Hub[place[c]] = h}

\* Faulty variant: the hubs are not counted.
ValidAnywhere(extra, change) ==
    /\ DOMAIN layout.place \subseteq connected
    /\ extra \/ connected \subseteq DOMAIN layout.place
    /\ \A c \in DOMAIN layout.place :
         (change \/ port[c] = layout.place[c]) /\ c \notin slow

\* validate_layout, with --allow-extra-cameras and --allow-topology-change: the
\* layout's cameras are there, where they were and at full speed, and no hub
\* has too many of them.
validate_layout(extra, change) ==
    /\ DOMAIN layout.place \subseteq connected
    /\ extra \/ connected \subseteq DOMAIN layout.place
    /\ \A c \in DOMAIN layout.place :
         (change \/ port[c] = layout.place[c]) /\ c \notin slow
    /\ \A h \in {Hub[p] : p \in Ports} :
         Cardinality(OnHub(DOMAIN layout.place, port, h)) <= MaxPerHub

FleetInit ==
    /\ port \in Placements
    /\ slow = {} /\ layout = NoLayout /\ cases = <<>> /\ seen = [layout |-> <<>>, bus |-> <<>>]
    /\ recorded = {} /\ profiles = <<>> /\ modeled = FALSE
    /\ moves = 0 /\ runs = 0

\* Somebody moves or unplugs a camera, or it comes back at another speed.
replug(c) ==
    /\ moves < MaxMoves /\ moves' = moves + 1
    /\ \/ \E p \in (Ports \ {port[d] : d \in Fleet}) \cup {None} :
            port' = [port EXCEPT ![c] = p] /\ UNCHANGED slow
       \/ /\ c \in connected /\ slow' = slow \cup {c} /\ UNCHANGED port
    /\ UNCHANGED <<layout, cases, seen, recorded, profiles, modeled, runs>>

Command == runs < MaxRuns /\ runs' = runs + 1

\* inventory: an unregistered camera, or none at all, is an error.
inventory ==
    /\ Command /\ connected # {} /\ connected \subseteq Registered
    /\ layout' = [place |-> Placement, order |-> scaling_order(Placement)]
    /\ UNCHANGED <<port, slow, cases, seen, recorded, profiles, modeled, moves>>

\* The scaling order may be edited before the first run.
edit_layout ==
    /\ layout # NoLayout /\ Len(layout.order) > 1 /\ cases = <<>>
    /\ Command /\ layout' = [layout EXCEPT !.order = Tail(@)]
    /\ UNCHANGED <<port, slow, cases, seen, recorded, profiles, modeled, moves>>

\* _profile_cases: there is a file named after each case.
profiled(planned) == ToSet(planned) \subseteq DOMAIN profiles

\* run: preflight, plan, profiles, and the steady campaign, whose successful
\* SCHED_OTHER runs leave traces (those of the last case may all fail).
run(suite) ==
    /\ Command /\ layout # NoLayout
    /\ \E planned \in {plan_cases(layout, suite)},
          extra, change, uses \in BOOLEAN :
         /\ validate_layout(extra, change) /\ planned # <<>>
         /\ uses => profiled(planned)
         /\ cases' = planned /\ modeled' = uses
         /\ \E done \in {planned, Front(planned)} : recorded' =
              IF uses THEN recorded ELSE recorded \cup
                {[cases |-> ToSet(done), place |-> Placement, run |-> runs]}
    /\ seen' = [layout |-> layout.place, bus |-> Placement]
    /\ UNCHANGED <<port, slow, layout, profiles, moves>>

\* The trace runs are grouped by case_id.
successful_other_runs(i) == {t \in recorded : i \in t.cases}

\* generate_profiles: every case found needs enough trace runs.
generate_profiles ==
    LET ids == UNION {t.cases : t \in recorded} IN
    /\ Command /\ ids # {}
    /\ \A i \in ids : Cardinality(successful_other_runs(i)) >= MinimumRuns
    /\ profiles' = [i \in ids |-> {t.place : t \in successful_other_runs(i)}]
    /\ UNCHANGED <<port, slow, layout, cases, seen, recorded, modeled, moves>>

FleetNext ==
    \/ \E c \in Fleet : replug(c)
    \/ inventory \/ edit_layout \/ generate_profiles
    \/ \E s \in Suites : run(s)

FleetSpec == FleetInit /\ [][FleetNext]_fleetVars

-----------------------------------------------------------------------------
(* Properties.                                                             *)

HubsOf(S, place) == {Hub[place[c]] : c \in S}

\* What the steady campaign is given was checked against the bus, whatever was
\* replugged since the inventory: its cameras are connected, no hub feeds more
\* of them than the limit, there are at most four at a time, and a stereo case
\* has one model that can do it (validate_layout, plan_cases, _stereo_case).
CasesFitTheBus ==
    \A i \in DOMAIN cases :
      LET S == ToSet(cases[i].cameras) IN
      /\ S \subseteq DOMAIN seen.bus /\ Cardinality(S) \in 1..4
      /\ \A h \in HubsOf(S, seen.bus) :
           Cardinality(OnHub(S, seen.bus, h)) <= MaxPerHub
      /\ cases[i].profile = "stereo" =>
           \E m \in stereo_models : S = OfModel(S, m)

\* What the last run asked for of the suite: no set of cameras twice with one
\* profile, and the sets of one model grow over as many hubs as the model has
\* ("prefixes use distinct hubs before sharing a hub", _spread).
SuiteWellFormed ==
    /\ \A i, j \in DOMAIN cases :
         (/\ cases[i].profile = cases[j].profile
          /\ ToSet(cases[i].cameras) = ToSet(cases[j].cameras)) => i = j
    /\ \A i \in DOMAIN cases : cases[i].suite = "stereo" =>
         LET S == ToSet(cases[i].cameras)
             all == OfModel(DOMAIN seen.layout, Model[cases[i].cameras[1]])
         IN  Cardinality(S) > 1 =>
               Cardinality(HubsOf(S, seen.layout)) =
                 Min({Cardinality(S), Cardinality(HubsOf(all, seen.layout))})

\* What the run command hands to the steady campaign is both: cases the present
\* bus can carry, and the cases the suite is described to consist of.
CasesWellPlanned == CasesFitTheBus /\ SuiteWellFormed

=============================================================================
