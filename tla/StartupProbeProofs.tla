------------------------- MODULE StartupProbeProofs --------------------------
(***************************************************************************)
(* What the startup probe reports and marks is what happened, for every    *)
(* number of cycles and frames and any waits of the camera.                *)
(***************************************************************************)
EXTENDS StartupProbe, FiniteSetTheorems, WellFoundedInduction, TLAPS

-----------------------------------------------------------------------------
(* Sequences and sets of numbers.                                          *)

LEMMA SeqFacts ==
    ASSUME NEW S, NEW s \in Seq(S)
    PROVE  /\ Len(s) \in Nat /\ DOMAIN s = 1..Len(s)
           /\ \A i \in DOMAIN s : s[i] \in S
           /\ s # <<>> => Len(s) > 0
<1>1. Len(s) \in Nat /\ DOMAIN s = 1..Len(s) OBVIOUS
<1>2. \A i \in DOMAIN s : s[i] \in S OBVIOUS
<1>3. s # <<>> => Len(s) > 0 OBVIOUS
<1> QED BY Zenon, <1>1, <1>2, <1>3

LEMMA AppendFacts ==
    ASSUME NEW S, NEW s \in Seq(S), NEW x \in S
    PROVE  /\ Append(s, x) \in Seq(S) /\ Len(Append(s, x)) = Len(s) + 1
           /\ DOMAIN Append(s, x) = DOMAIN s \cup {Len(s) + 1}
           /\ Len(s) + 1 \notin DOMAIN s
           /\ \A i \in DOMAIN s : Append(s, x)[i] = s[i]
           /\ Append(s, x)[Len(s) + 1] = x
<1>1. Len(s) \in Nat /\ DOMAIN s = 1..Len(s) BY Zenon, SeqFacts
<1>2. Append(s, x) \in Seq(S) /\ Len(Append(s, x)) = Len(s) + 1 OBVIOUS
<1>3. DOMAIN Append(s, x) = 1..(Len(s) + 1) BY <1>1, <1>2
<1>4. 1..(Len(s) + 1) = 1..Len(s) \cup {Len(s) + 1} BY <1>1
<1>5. Append(s, x)[Len(s) + 1] = x BY <1>1
<1>6. \A i \in DOMAIN s : Append(s, x)[i] = s[i] BY <1>1
<1> QED BY <1>1, <1>2, <1>3, <1>4, <1>5, <1>6

\* Every non-empty set of natural numbers has a least element.
LEMMA LeastNumber ==
    ASSUME NEW T, T \subseteq Nat, T # {}
    PROVE  \E n \in T : \A m \in T : n <= m
<1>1. PICK n \in T : \A m \in T : ~(<<m, n>> \in OpToRel(<, Nat))
  BY NatLessThanWellFounded, WFMin, Zenon
<1>2. ASSUME NEW m \in T PROVE n <= m
  <2>1. ~(<<m, n>> \in OpToRel(<, Nat)) BY Zenon, <1>1
  <2>2. m \in Nat /\ n \in Nat BY Zenon
  <2>3. ~(m < n) BY Zenon, <2>1, <2>2 DEF OpToRel
  <2> QED BY <2>2, <2>3
<1> QED BY Zenon, <1>2

LEMMA LeastIsMin ==
    ASSUME NEW T, T \subseteq Nat, T # {}
    PROVE  Min(T) \in T /\ \A m \in T : Min(T) <= m
<1>1. \E n \in T : \A m \in T : n <= m BY Zenon, LeastNumber
<1> QED BY Zenon, <1>1 DEF Min

\* A set of natural numbers with a bound has a greatest element: its least bound.
LEMMA GreatestIsMax ==
    ASSUME NEW T, T \subseteq Nat, T # {}, NEW N \in Nat, \A m \in T : m <= N
    PROVE  Max(T) \in T /\ \A m \in T : m <= Max(T)
<1> DEFINE Bounds == {n \in Nat : \A m \in T : m <= n}
<1>1. PICK n \in Bounds : \A k \in Bounds : n <= k
  <2>1. N \in Bounds BY Zenon
  <2> QED BY Zenon, <2>1, LeastNumber
<1>2. n \in T
  <2> SUFFICES ASSUME n \notin T PROVE FALSE BY Zenon
  <2>1. n \in Nat /\ \A m \in T : m \in Nat /\ m <= n /\ m # n BY Zenon
  <2>2. n # 0
    <3>1. PICK m \in T : TRUE BY Zenon
    <3> QED BY <2>1, <3>1
  <2>3. n - 1 \in Bounds BY <2>1, <2>2
  <2> QED BY <1>1, <2>1, <2>3
<1>3. \E x \in T : \A m \in T : x >= m BY Zenon, <1>2
<1>4. Max(T) \in T /\ \A m \in T : Max(T) >= m BY Zenon, <1>3 DEF Max
<1> QED BY Zenon, <1>4

-----------------------------------------------------------------------------
(* The probe.                                                              *)

LEMMA MarkedFacts ==
    ASSUME probe \in ProbeProcesses, NEW names \in Seq(PhaseNames)
    PROVE  /\ Marked(names) \in Seq(LifecycleMarkers)
           /\ Len(Marked(names)) = Len(probe.markers) + Len(names)
           /\ \A i \in DOMAIN probe.markers : Marked(names)[i] = probe.markers[i]
           /\ \A i \in DOMAIN Marked(names) : i \notin DOMAIN probe.markers =>
                /\ i - Len(probe.markers) \in DOMAIN names
                /\ Marked(names)[i] = Marker(probe.cycle, names[i - Len(probe.markers)],
                                             probe.clock + Step)
<1> DEFINE new == [i \in 1..Len(names) |-> Marker(probe.cycle, names[i], probe.clock + Step)]
<1>1. probe.markers \in Seq(LifecycleMarkers) /\ probe.cycle \in Nat
        /\ probe.clock \in Nat
  BY Zenon DEF ProbeProcesses
<1>2. \A i \in 1..Len(names) : names[i] \in PhaseNames /\ Len(names) \in Nat OBVIOUS
<1>3. \A i \in 1..Len(names) :
        Marker(probe.cycle, names[i], probe.clock + Step) \in LifecycleMarkers
  BY <1>1, <1>2 DEF Marker, LifecycleMarkers, Step
<1>4. new \in Seq(LifecycleMarkers) /\ Len(new) = Len(names) BY <1>3
<1>5. \A i \in 1..Len(names) :
        new[i] = Marker(probe.cycle, names[i], probe.clock + Step)
  BY Zenon
<1>6. Marked(names) = probe.markers \o new BY Zenon DEF Marked
<1> HIDE DEF new
<1>7. /\ Marked(names) \in Seq(LifecycleMarkers)
      /\ Len(Marked(names)) = Len(probe.markers) + Len(names)
  <2>1. probe.markers \o new \in Seq(LifecycleMarkers) BY <1>1, <1>4
  <2>2. Len(probe.markers \o new) = Len(probe.markers) + Len(new) BY <1>1, <1>4
  <2> QED BY Zenon, <1>4, <1>6, <2>1, <2>2
<1>8. \A i \in DOMAIN probe.markers : Marked(names)[i] = probe.markers[i]
  BY <1>1, <1>4, <1>6
<1>9. ASSUME NEW i \in DOMAIN Marked(names), i \notin DOMAIN probe.markers
      PROVE  /\ i - Len(probe.markers) \in DOMAIN names
             /\ Marked(names)[i] = new[i - Len(probe.markers)]
  <2>1. Len(probe.markers) \in Nat /\ DOMAIN probe.markers = 1..Len(probe.markers)
    BY Zenon, <1>1, SeqFacts
  <2>2. DOMAIN Marked(names) = 1..(Len(probe.markers) + Len(names)) BY <1>7
  <2>3. DOMAIN names = 1..Len(names) /\ Len(names) \in Nat BY Zenon, SeqFacts
  <2>4. i \in 1..(Len(probe.markers) + Len(names)) /\ ~(i \in 1..Len(probe.markers))
    BY Zenon, <1>9, <2>1, <2>2
  <2>5. i - Len(probe.markers) \in 1..Len(names) BY <2>1, <2>3, <2>4
  <2>6. Marked(names)[i] = new[i - Len(probe.markers)]
    BY <1>1, <1>4, <1>6, <2>1, <2>4
  <2> QED BY Zenon, <2>3, <2>5, <2>6
<1>10. DOMAIN names = 1..Len(names) BY Zenon, SeqFacts
<1> QED BY Zenon, <1>5, <1>7, <1>8, <1>9, <1>10

LEMMA GotoFacts ==
    ASSUME probe \in ProbeProcesses, NEW pc \in ProbePCs, NEW names \in Seq(PhaseNames)
    PROVE  /\ Goto(pc, names) \in ProbeProcesses
           /\ Goto(pc, names).pc = pc
           /\ Goto(pc, names).markers = Marked(names)
           /\ Goto(pc, names).clock = probe.clock + Step
           /\ Goto(pc, names).cycle = probe.cycle
           /\ Goto(pc, names).completed = probe.completed
           /\ Goto(pc, names).lines = probe.lines
           /\ Goto(pc, names).rc = probe.rc
           /\ Goto(pc, names).fresh = probe.fresh
<1>1. Marked(names) \in Seq(LifecycleMarkers) BY Zenon, MarkedFacts
<1>2. probe.clock + Step \in Nat BY DEF ProbeProcesses, Step
<1> QED BY Zenon, <1>1, <1>2 DEF Goto, ProbeProcesses

\* The places in a sequence are finitely many.
LEMMA PlacesFinite ==
    ASSUME NEW S, NEW s \in Seq(S), NEW T, T \subseteq DOMAIN s
    PROVE  IsFiniteSet(T) /\ Cardinality(T) \in Nat
<1>1. IsFiniteSet(1..Len(s)) BY FS_Interval, SeqFacts
<1>2. IsFiniteSet(T) BY Zenon, <1>1, FS_Subset, SeqFacts
<1> QED BY Zenon, <1>2, FS_CardinalityType

LEMMA LiveReports ==
    ASSUME NEW q \in ProbeProcesses, q.pc \notin {"exited", "crashed", "killed"},
           q.pc = "unwind" => q.rc \in {1, 2},
           Cardinality(MarkersOf(q.markers, "end")) = q.completed,
           Cardinality(SuccessfulCycles(q.lines)) = q.completed,
           prefixed_json(q.lines, "result") = {},
           MarkersOf(q.markers, "process_error") = {}
    PROVE  Reports(q)
BY Zenon DEF Reports

LEMMA ThrowFacts ==
    ASSUME probe \in ProbeProcesses, NEW kind, Throw(kind)
    PROVE  /\ probe' \in ProbeProcesses /\ probe'.pc = "unwind" /\ probe'.rc \in {1, 2}
           /\ probe'.markers = probe.markers /\ probe'.lines = probe.lines
           /\ probe'.completed = probe.completed /\ probe'.cycle = probe.cycle
           /\ probe'.fresh = probe.fresh /\ probe'.clock = probe.clock + Step
<1>1. probe.clock + Step \in Nat BY DEF ProbeProcesses, Step
<1>2. (IF kind = "librealsense" THEN 2 ELSE 1) \in {1, 2}
        /\ (IF kind = "librealsense" THEN 2 ELSE 1) \in Int
  OBVIOUS
<1> QED BY Zenon, <1>1, <1>2 DEF Throw, ProbeProcesses, ProbePCs

\* A live step as the places see it.
QuietStep ==
    /\ probe' \in ProbeProcesses /\ probe'.pc \notin {"exited", "crashed", "killed"}
    /\ probe'.pc # "off"
    /\ probe'.pc = "unwind" => probe'.rc \in {1, 2}
    /\ probe'.completed = probe.completed /\ probe'.fresh = probe.fresh
    /\ MarkersOf(probe'.markers, "end") = MarkersOf(probe.markers, "end")
    /\ MarkersOf(probe'.markers, "process_error") =
         MarkersOf(probe.markers, "process_error")
    /\ prefixed_json(probe'.lines, "result") = prefixed_json(probe.lines, "result")
    /\ SuccessfulCycles(probe'.lines) = SuccessfulCycles(probe.lines)

\* What the join is reported to have taken.
LEMMA JoinWaitFacts ==
    ASSUME NEW exit \in Nat, NEW timeout \in Nat
    PROVE  JoinWait(exit, timeout) \in Nat
BY DEF JoinWait, LastLook, Ceil, poll

\* Every step of the probe.
LEMMA ProbeStepKeeps ==
    ASSUME ProbeTypeOK, ProbeReports, ProbeStep
    PROVE  /\ ProbeTypeOK' /\ ProbeReports' /\ probe'.fresh = probe.fresh
           /\ probe.pc \notin {"off", "exited", "crashed", "killed"}
           /\ probe'.pc \notin {"off", "killed"}
\* Markers of other names leave the places of a name as they are.
<1>OtherNames.
    ASSUME probe \in ProbeProcesses, NEW names \in Seq(PhaseNames), NEW n,
           \A i \in DOMAIN names : names[i] # n
    PROVE  MarkersOf(Marked(names), n) = MarkersOf(probe.markers, n)
  <2> USE <1>OtherNames
  <2>1. probe.markers \in Seq(LifecycleMarkers) BY Zenon DEF ProbeProcesses
  <2>2. DOMAIN probe.markers \subseteq DOMAIN Marked(names)
    <3>1. /\ DOMAIN Marked(names) = 1..Len(Marked(names))
          /\ Len(Marked(names)) = Len(probe.markers) + Len(names)
      BY MarkedFacts
    <3>2. DOMAIN probe.markers = 1..Len(probe.markers) /\ Len(probe.markers) \in Nat
          /\ Len(names) \in Nat
      BY Zenon, <2>1, SeqFacts
    <3> QED BY <3>1, <3>2
  <2>3. \A i \in DOMAIN probe.markers : Marked(names)[i] = probe.markers[i]
    BY Zenon, MarkedFacts
  <2>4. \A i \in DOMAIN Marked(names) : i \notin DOMAIN probe.markers =>
          Marked(names)[i].name # n
    <3>1. ASSUME NEW i \in DOMAIN Marked(names), i \notin DOMAIN probe.markers
          PROVE  Marked(names)[i].name # n
      <4>1. /\ i - Len(probe.markers) \in DOMAIN names
            /\ Marked(names)[i] = Marker(probe.cycle, names[i - Len(probe.markers)],
                                         probe.clock + Step)
        BY Zenon, <3>1, MarkedFacts
      <4> QED BY <4>1 DEF Marker
    <3> QED BY Zenon, <3>1
  <2> QED BY Zenon, <2>2, <2>3, <2>4 DEF MarkersOf
<1>OtherKind.
    ASSUME NEW lines \in Seq(OutputLines), NEW line \in OutputLines,
           line.kind # "result", ~(line.kind = "cycle" /\ line.success)
    PROVE  /\ prefixed_json(Append(lines, line), "result") =
                prefixed_json(lines, "result")
           /\ SuccessfulCycles(Append(lines, line)) = SuccessfulCycles(lines)
  <2> USE <1>OtherKind
  <2>1. DOMAIN Append(lines, line) = DOMAIN lines \cup {Len(lines) + 1}
    BY AppendFacts
  <2>2. \A i \in DOMAIN lines : Append(lines, line)[i] = lines[i] BY AppendFacts
  <2>3. Append(lines, line)[Len(lines) + 1] = line BY AppendFacts
  <2> QED BY Zenon, <2>1, <2>2, <2>3 DEF prefixed_json, SuccessfulCycles
<1>NoResultAdded.
    ASSUME NEW lines \in Seq(OutputLines), NEW line \in OutputLines,
           line.kind # "result"
    PROVE  prefixed_json(Append(lines, line), "result") = prefixed_json(lines, "result")
  <2> USE <1>NoResultAdded
  <2>1. DOMAIN Append(lines, line) = DOMAIN lines \cup {Len(lines) + 1}
    BY AppendFacts
  <2>2. \A i \in DOMAIN lines : Append(lines, line)[i] = lines[i] BY AppendFacts
  <2>3. Append(lines, line)[Len(lines) + 1] = line BY AppendFacts
  <2> QED BY Zenon, <2>1, <2>2, <2>3 DEF prefixed_json
<1>CycleAdded.
    ASSUME NEW lines \in Seq(OutputLines), NEW line \in OutputLines
    PROVE  SuccessfulCycles(Append(lines, line)) =
             SuccessfulCycles(lines) \cup
               (IF line.kind = "cycle" /\ line.success THEN {Len(lines) + 1} ELSE {})
  <2> USE <1>CycleAdded
  <2>1. DOMAIN Append(lines, line) = DOMAIN lines \cup {Len(lines) + 1}
    BY Zenon, AppendFacts
  <2>2. \A i \in DOMAIN lines : Append(lines, line)[i] = lines[i] BY AppendFacts
  <2>3. Append(lines, line)[Len(lines) + 1] = line BY AppendFacts
  <2> QED BY Zenon, <2>1, <2>2, <2>3 DEF prefixed_json, SuccessfulCycles
<1>OtherMarker.
    ASSUME NEW markers \in Seq(LifecycleMarkers), NEW m \in LifecycleMarkers,
           m.name \notin {"end", "process_error"}
    PROVE  /\ MarkersOf(Append(markers, m), "end") = MarkersOf(markers, "end")
           /\ MarkersOf(Append(markers, m), "process_error") =
                MarkersOf(markers, "process_error")
  <2> USE <1>OtherMarker
  <2>1. DOMAIN Append(markers, m) = DOMAIN markers \cup {Len(markers) + 1}
    BY AppendFacts
  <2>2. \A i \in DOMAIN markers : Append(markers, m)[i] = markers[i] BY AppendFacts
  <2>3. Append(markers, m)[Len(markers) + 1] = m BY AppendFacts
  <2> QED BY Zenon, <2>1, <2>2, <2>3 DEF MarkersOf
\* One more place is one more.
<1>OneMore.
    ASSUME NEW S, NEW s \in Seq(S), NEW T, T \subseteq DOMAIN s
    PROVE  Cardinality(T \cup {Len(s) + 1}) = Cardinality(T) + 1
  <2> USE <1>OneMore
  <2>1. Len(s) + 1 \notin T BY SeqFacts
  <2> QED BY Zenon, <2>1, PlacesFinite, FS_AddElement
<1>Joined.
    ASSUME probe \in ProbeProcesses, NEW marker \in PhaseNames, marker # "end"
    PROVE  /\ MarkersOf(Marked(<<marker, "end">>), "end") =
                MarkersOf(probe.markers, "end") \cup {Len(probe.markers) + 2}
  <2> USE <1>Joined
  <2> DEFINE names == <<marker, "end">>
  <2>1. names \in Seq(PhaseNames) /\ Len(names) = 2
    <3>1. names \in Seq(PhaseNames) BY DEF PhaseNames
    <3>2. Len(names) = 2 BY Zenon
    <3> QED BY Zenon, <3>1, <3>2
  <2>2. names[1] # "end" /\ names[2] = "end" BY Zenon
  <2>3. probe.markers \in Seq(LifecycleMarkers) BY Zenon DEF ProbeProcesses
  <2>4. DOMAIN probe.markers = 1..Len(probe.markers) /\ Len(probe.markers) \in Nat
    BY Zenon, <2>3, SeqFacts
  <2> HIDE DEF names
  <2>5. DOMAIN Marked(names) = 1..(Len(probe.markers) + 2)
    <3>1. Marked(names) \in Seq(LifecycleMarkers)
          /\ Len(Marked(names)) = Len(probe.markers) + 2
      BY Zenon, <2>1, MarkedFacts
    <3> QED BY Zenon, <3>1, SeqFacts
  <2>6. \A i \in DOMAIN probe.markers : Marked(names)[i] = probe.markers[i]
    BY Zenon, <2>1, MarkedFacts
  <2>7. \A i \in DOMAIN Marked(names) : i \notin DOMAIN probe.markers =>
          Marked(names)[i].name = names[i - Len(probe.markers)]
    BY <2>1, MarkedFacts DEF Marker
  <2>8. \A i \in DOMAIN Marked(names) :
          i \in DOMAIN probe.markers \/ i = Len(probe.markers) + 1
            \/ i = Len(probe.markers) + 2
    BY <2>4, <2>5
  <2>9. /\ Len(probe.markers) + 1 \in DOMAIN Marked(names) \ DOMAIN probe.markers
        /\ Len(probe.markers) + 2 \in DOMAIN Marked(names) \ DOMAIN probe.markers
        /\ DOMAIN probe.markers \subseteq DOMAIN Marked(names)
    BY <2>4, <2>5
  <2>10. /\ Marked(names)[Len(probe.markers) + 1].name = names[1]
         /\ Marked(names)[Len(probe.markers) + 2].name = names[2]
    BY <2>4, <2>7, <2>9
  <2>11. MarkersOf(Marked(names), "end") =
           MarkersOf(probe.markers, "end") \cup {Len(probe.markers) + 2}
    BY <2>2, <2>6, <2>8, <2>9, <2>10 DEF MarkersOf
  <2> QED BY Zenon, <2>11 DEF names
\* A step of a live process that neither completes a cycle nor prints a result.
<1>Quietly.
    ASSUME NEW p \in ProbeProcesses, NEW q \in ProbeProcesses, Reports(p),
           p.pc \notin {"exited", "crashed", "killed"},
           q.pc \notin {"exited", "crashed", "killed"},
           q.pc = "unwind" => q.rc \in {1, 2},
           q.completed = p.completed,
           MarkersOf(q.markers, "end") = MarkersOf(p.markers, "end"),
           MarkersOf(q.markers, "process_error") = MarkersOf(p.markers, "process_error"),
           prefixed_json(q.lines, "result") = prefixed_json(p.lines, "result"),
           SuccessfulCycles(q.lines) = SuccessfulCycles(p.lines)
    PROVE  Reports(q)
  BY Zenon, <1>Quietly DEF Reports
<1>ThrowQuiet.
    ASSUME probe \in ProbeProcesses, NEW kind, Throw(kind)
    PROVE  QuietStep
  BY Zenon, <1>ThrowQuiet, ThrowFacts DEF QuietStep
<1>GotoQuiet.
    ASSUME probe \in ProbeProcesses, NEW pc \in ProbePCs, NEW names \in Seq(PhaseNames),
           pc \notin {"off", "exited", "crashed", "killed", "unwind"},
           \A i \in DOMAIN names : names[i] \notin {"end", "process_error"},
           probe' \in ProbeProcesses, probe'.pc = pc,
           probe'.completed = probe.completed, probe'.fresh = probe.fresh,
           probe'.markers = Marked(names), probe'.lines = probe.lines
    PROVE  QuietStep
  <2> USE <1>GotoQuiet
  <2>1. MarkersOf(Marked(names), "end") = MarkersOf(probe.markers, "end")
    BY Zenon, <1>OtherNames
  <2>2. MarkersOf(Marked(names), "process_error") =
          MarkersOf(probe.markers, "process_error")
    BY Zenon, <1>OtherNames
  <2> QED BY Zenon, <2>1, <2>2 DEF QuietStep
<1>OpenQuiet. ASSUME Open PROVE QuietStep
  <2> USE <1>OpenQuiet
  <2> DEFINE names == <<"before_context", "after_context",
                        "before_pipeline_construction",
                        "after_pipeline_construction", "before_pipeline_start">>
  <2>1. probe \in ProbeProcesses BY Zenon DEF ProbeTypeOK
  <2>2. CASE Throw("librealsense") BY Zenon, <2>1, <2>2, <1>ThrowQuiet
  <2>3. CASE probe' = [Goto("start", names) EXCEPT
                         !.lines = IF probe.cycle = 1
                                     THEN Append(@, [kind |-> "device"]) ELSE @]
    <3> DEFINE g == Goto("start", names)
               lines == IF probe.cycle = 1 THEN Append(probe.lines, [kind |-> "device"])
                        ELSE probe.lines
    <3>1. names \in Seq(PhaseNames) BY DEF PhaseNames
    <3>2. \A i \in DOMAIN names : names[i] \notin {"end", "process_error"} OBVIOUS
    <3> HIDE DEF names
    <3>3. "start" \in ProbePCs BY Zenon DEF ProbePCs
    <3>4. /\ g \in ProbeProcesses /\ g.pc = "start" /\ g.completed = probe.completed
          /\ g.fresh = probe.fresh /\ g.markers = Marked(names) /\ g.lines = probe.lines
      BY Zenon, <2>1, <3>1, <3>3, GotoFacts
    <3>5. probe.lines \in Seq(OutputLines) /\ [kind |-> "device"] \in OutputLines
      BY Zenon, <2>1 DEF ProbeProcesses, OutputLines
    <3>6. /\ lines \in Seq(OutputLines)
          /\ prefixed_json(lines, "result") = prefixed_json(probe.lines, "result")
          /\ SuccessfulCycles(lines) = SuccessfulCycles(probe.lines)
      <4>1. CASE probe.cycle = 1
        <5>1. lines = Append(probe.lines, [kind |-> "device"]) BY Zenon, <4>1
        <5> HIDE DEF lines
        <5>2. lines \in Seq(OutputLines) BY Zenon, <3>5, <5>1, AppendFacts
        <5>3. [kind |-> "device"].kind = "device" BY Zenon
        <5>4. /\ prefixed_json(lines, "result") = prefixed_json(probe.lines, "result")
              /\ SuccessfulCycles(lines) = SuccessfulCycles(probe.lines)
          BY Zenon, <3>5, <5>1, <5>3, <1>OtherKind
        <5> QED BY Zenon, <5>2, <5>4
      <4>2. CASE probe.cycle # 1 BY Zenon, <3>5, <4>2
      <4> QED BY Zenon, <4>1, <4>2
    <3>7. probe' = [g EXCEPT !.lines = lines] BY Zenon, <2>3, <3>4
    <3> HIDE DEF g, lines
    <3>8. /\ probe' \in ProbeProcesses /\ probe'.pc = "start"
          /\ probe'.completed = probe.completed /\ probe'.fresh = probe.fresh
          /\ probe'.markers = Marked(names) /\ probe'.lines = lines
      BY Zenon, <3>4, <3>6, <3>7 DEF ProbeProcesses
    <3>9. /\ MarkersOf(Marked(names), "end") = MarkersOf(probe.markers, "end")
          /\ MarkersOf(Marked(names), "process_error") =
               MarkersOf(probe.markers, "process_error")
      BY Zenon, <2>1, <3>1, <3>2, <1>OtherNames
    <3> QED BY Zenon, <3>6, <3>8, <3>9 DEF QuietStep
  <2> QED BY Zenon, <2>2, <2>3 DEF Open
<1>StartQuiet. ASSUME Start PROVE QuietStep
  <2> USE <1>StartQuiet
  <2> DEFINE names == <<"after_pipeline_start">>
  <2>1. probe \in ProbeProcesses BY Zenon DEF ProbeTypeOK
  <2>2. CASE Throw("librealsense") BY Zenon, <2>1, <2>2, <1>ThrowQuiet
  <2>3. CASE probe' = Goto("first", names)
    <3>1. names \in Seq(PhaseNames) /\ "first" \in ProbePCs
      BY DEF PhaseNames, ProbePCs
    <3>2. \A i \in DOMAIN names : names[i] \notin {"end", "process_error"} OBVIOUS
    <3> HIDE DEF names
    <3> QED BY <2>1, <2>3, <3>1, <3>2, GotoFacts, <1>GotoQuiet
  <2> QED BY Zenon, <2>2, <2>3 DEF Start
\* The two ends of the frame loop.
<1>LoopLeft.
    ASSUME probe \in ProbeProcesses, NEW g,
           g = Goto("stop", <<"frames_complete", "before_pipeline_stop">>),
           probe' = g \/ \E all \in BOOLEAN : probe' = [g EXCEPT !.all = all]
    PROVE  QuietStep
  <2> USE <1>LoopLeft
  <2> DEFINE names == <<"frames_complete", "before_pipeline_stop">>
  <2>1. names \in Seq(PhaseNames) /\ "stop" \in ProbePCs
    BY DEF PhaseNames, ProbePCs
  <2>2. \A i \in DOMAIN names : names[i] \notin {"end", "process_error"}
    OBVIOUS
  <2> HIDE DEF names
  <2>3. /\ g \in ProbeProcesses /\ g.pc = "stop" /\ g.completed = probe.completed
        /\ g.fresh = probe.fresh /\ g.markers = Marked(names) /\ g.lines = probe.lines
    BY Zenon, <2>1, GotoFacts DEF names
  <2> DEFINE Left(q) == /\ q \in ProbeProcesses /\ q.pc = "stop"
                        /\ q.completed = probe.completed /\ q.fresh = probe.fresh
                        /\ q.markers = Marked(names) /\ q.lines = probe.lines
  <2>4. Left(g) BY Zenon, <2>3
  <2>5. ASSUME NEW all \in BOOLEAN PROVE Left([g EXCEPT !.all = all])
    BY Zenon, <2>3 DEF ProbeProcesses
  <2> HIDE DEF Left
  <2>6. Left(probe') BY Zenon, <2>4, <2>5
  <2> QED BY Zenon, <2>1, <2>2, <2>6, <1>GotoQuiet DEF Left
<1>FirstFrameQuiet. ASSUME FirstFrame PROVE QuietStep
  <2> USE <1>FirstFrameQuiet
  <2> DEFINE names == <<"first_frame">>
  <2>1. probe \in ProbeProcesses BY Zenon DEF ProbeTypeOK
  <2>2. CASE Throw("librealsense") BY Zenon, <2>1, <2>2, <1>ThrowQuiet
  <2>3. ASSUME NEW wait \in FirstWaits,
               probe' = [Goto("frames", names) EXCEPT !.first = wait]
        PROVE  QuietStep
    <3> DEFINE g == Goto("frames", names)
    <3>1. names \in Seq(PhaseNames) /\ "frames" \in ProbePCs
      BY DEF PhaseNames, ProbePCs
    <3>2. \A i \in DOMAIN names : names[i] \notin {"end", "process_error"} OBVIOUS
    <3> HIDE DEF names
    <3>3. /\ g \in ProbeProcesses /\ g.pc = "frames" /\ g.completed = probe.completed
          /\ g.fresh = probe.fresh /\ g.markers = Marked(names) /\ g.lines = probe.lines
      BY Zenon, <2>1, <3>1, GotoFacts
    <3>4. probe' = [g EXCEPT !.first = wait] /\ wait \in Nat
      BY Zenon, <2>3, ProbeAssumptions
    <3> HIDE DEF g
    <3>5. /\ probe' \in ProbeProcesses /\ probe'.pc = "frames"
          /\ probe'.completed = probe.completed
          /\ probe'.fresh = probe.fresh /\ probe'.markers = Marked(names)
          /\ probe'.lines = probe.lines
      BY Zenon, <3>3, <3>4 DEF ProbeProcesses
    <3> QED BY Zenon, <2>1, <3>1, <3>2, <3>5, <1>GotoQuiet
  <2>4. CASE probe' = Goto("stop", <<"frames_complete", "before_pipeline_stop">>)
    BY Zenon, <2>1, <2>4, <1>LoopLeft
  <2> QED BY Zenon, <2>2, <2>3, <2>4 DEF FirstFrame
<1>FramesQuiet. ASSUME Frames PROVE QuietStep
  <2> USE <1>FramesQuiet
  <2> DEFINE g == Goto("stop", <<"frames_complete", "before_pipeline_stop">>)
  <2>1. probe \in ProbeProcesses /\ probe.running \in BOOLEAN
    BY Zenon DEF ProbeTypeOK, ProbeProcesses
  <2>2. CASE Throw("librealsense") BY Zenon, <2>1, <2>2, <1>ThrowQuiet
  <2>3. CASE \E all \in {TRUE, probe.running} : probe' = [g EXCEPT !.all = all]
    <3>1. \E all \in BOOLEAN : probe' = [g EXCEPT !.all = all] BY Zenon, <2>1, <2>3
    <3> HIDE DEF g
    <3>2. g = Goto("stop", <<"frames_complete", "before_pipeline_stop">>) BY Zenon DEF g
    <3> QED BY Zenon, <2>1, <3>1, <3>2, <1>LoopLeft
  <2> QED BY Zenon, <2>2, <2>3 DEF Frames
<1>SignalQuiet. ASSUME Signal PROVE QuietStep
  <2> USE <1>SignalQuiet
  <2>1. probe' = [probe EXCEPT !.running = FALSE] /\ Alive BY Zenon DEF Signal
  <2>2. /\ probe' \in ProbeProcesses /\ probe'.pc = probe.pc /\ probe'.rc = probe.rc
        /\ probe'.completed = probe.completed /\ probe'.fresh = probe.fresh
        /\ probe'.markers = probe.markers /\ probe'.lines = probe.lines
    BY Zenon, <2>1 DEF ProbeTypeOK, ProbeProcesses
  <2> QED BY Zenon, <2>1, <2>2 DEF QuietStep, Alive, ProbeReports, Reports
<1>StopQuiet. ASSUME Stop PROVE QuietStep
  <2> USE <1>StopQuiet
  <2> DEFINE names == <<"after_pipeline_stop", "before_object_destruction">>
  <2>1. probe \in ProbeProcesses BY Zenon DEF ProbeTypeOK
  <2>2. CASE Throw("librealsense") BY Zenon, <2>1, <2>2, <1>ThrowQuiet
  <2>3. CASE probe' = Goto("destroy", names)
    <3>1. names \in Seq(PhaseNames) /\ "destroy" \in ProbePCs
      BY DEF PhaseNames, ProbePCs
    <3>2. \A i \in DOMAIN names : names[i] \notin {"end", "process_error"} OBVIOUS
    <3> HIDE DEF names
    <3> QED BY <2>1, <2>3, <3>1, <3>2, GotoFacts, <1>GotoQuiet
  <2> QED BY Zenon, <2>2, <2>3 DEF Stop
<1>DestroyQuiet. ASSUME Destroy PROVE QuietStep
  <2> USE <1>DestroyQuiet
  <2> DEFINE names == <<"after_object_destruction">>
  <2>1. probe \in ProbeProcesses BY Zenon DEF ProbeTypeOK
  <2>2. probe' = Goto("join", names) BY Zenon DEF Destroy
  <2>3. names \in Seq(PhaseNames) /\ "join" \in ProbePCs
    BY DEF PhaseNames, ProbePCs
  <2>4. \A i \in DOMAIN names : names[i] \notin {"end", "process_error"} OBVIOUS
  <2> HIDE DEF names
  <2> QED BY <2>1, <2>2, <2>3, <2>4, GotoFacts, <1>GotoQuiet
<1>NextCycleQuiet. ASSUME NextCycle PROVE QuietStep
  <2> USE <1>NextCycleQuiet
  <2> DEFINE names == <<>>
  <2>1. probe \in ProbeProcesses BY Zenon DEF ProbeTypeOK
  <2>2. CASE probe' = Goto("result", names)
    <3>1. names \in Seq(PhaseNames) /\ "result" \in ProbePCs BY DEF ProbePCs
    <3>2. \A i \in DOMAIN names : names[i] \notin {"end", "process_error"} OBVIOUS
    <3> HIDE DEF names
    <3> QED BY <2>1, <2>2, <3>1, <3>2, GotoFacts, <1>GotoQuiet
  <2>3. CASE probe' = [probe EXCEPT
                         !.pc = "open", !.cycle = @ + 1, !.first = 0,
                         !.all = FALSE, !.clock = @ + Step,
                         !.markers = Append(@, Marker(probe.cycle + 1, "begin",
                                                      probe.clock + Step))]
    <3> DEFINE m == Marker(probe.cycle + 1, "begin", probe.clock + Step)
    <3>1. /\ probe.cycle + 1 \in Nat /\ probe.clock + Step \in Nat
          /\ probe.markers \in Seq(LifecycleMarkers)
      BY <2>1 DEF ProbeProcesses, Step
    <3>2. m \in LifecycleMarkers /\ m.name = "begin"
      BY Zenon, <3>1 DEF Marker, LifecycleMarkers, PhaseNames
    <3> HIDE DEF m
    <3>3. Append(probe.markers, m) \in Seq(LifecycleMarkers)
      BY Zenon, <3>1, <3>2, AppendFacts
    <3>4. /\ probe' \in ProbeProcesses /\ probe'.pc = "open"
          /\ probe'.completed = probe.completed /\ probe'.fresh = probe.fresh
          /\ probe'.markers = Append(probe.markers, m) /\ probe'.lines = probe.lines
      BY Zenon, <2>1, <2>3, <3>1, <3>3 DEF ProbeProcesses, ProbePCs, m
    <3>5. /\ MarkersOf(Append(probe.markers, m), "end") = MarkersOf(probe.markers, "end")
          /\ MarkersOf(Append(probe.markers, m), "process_error") =
               MarkersOf(probe.markers, "process_error")
      BY Zenon, <3>1, <3>2, <1>OtherMarker
    <3> QED BY Zenon, <3>4, <3>5 DEF QuietStep
  <2> QED BY Zenon, <2>2, <2>3 DEF NextCycle
\* What the updates of Join leave alone.
<1>LinesReplaced.
    ASSUME NEW g \in ProbeProcesses, NEW done \in Seq(OutputLines), NEW q,
           q = [g EXCEPT !.lines = done]
    PROVE  /\ q \in ProbeProcesses /\ q.pc = g.pc /\ q.completed = g.completed
           /\ q.fresh = g.fresh /\ q.markers = g.markers /\ q.lines = done
  BY Zenon, <1>LinesReplaced DEF ProbeProcesses
\* What a cycle adds.  joined and done are those of Join.
<1>JoinStep.
    ASSUME Join
    PROVE  probe' \in ProbeProcesses /\ ProbeReports' /\ probe'.fresh = probe.fresh
             /\ probe'.pc \notin {"off", "exited", "crashed", "killed"}
  <2> USE <1>JoinStep
  <2>1. probe \in ProbeProcesses /\ Reports(probe) /\ probe.pc = "join"
    BY Zenon DEF ProbeTypeOK, ProbeReports, Join
  <2>2. PICK exit \in ExitWaits :
          LET joined == exit <= LastLook(probe.settings.join)
              marker == IF joined THEN "threads_joined" ELSE "thread_join_timeout"
              line   == [kind |-> "cycle", success |-> joined /\ probe.all,
                         first |-> probe.first,
                         join |-> JoinWait(exit, probe.settings.join)]
              done   == Append(probe.lines, line)
          IN \/ /\ ~joined
                /\ probe' = [Goto("unwind", <<marker>>) EXCEPT !.lines = done, !.rc = 1]
             \/ /\ joined /\ ~probe.all
                /\ probe' = [Goto("result", <<marker>>) EXCEPT !.lines = done]
             \/ /\ joined /\ probe.all
                /\ probe' = [Goto(IF probe.cycle < Cycles THEN "delay" ELSE "result",
                                  <<marker, "end">>) EXCEPT
                               !.lines = done, !.completed = @ + 1]
    BY Zenon DEF Join
  <2> DEFINE joined == exit <= LastLook(probe.settings.join)
             marker == IF joined THEN "threads_joined" ELSE "thread_join_timeout"
             line   == [kind |-> "cycle", success |-> joined /\ probe.all,
                        first |-> probe.first,
                        join |-> JoinWait(exit, probe.settings.join)]
             done   == Append(probe.lines, line)
  <2>3. /\ probe.lines \in Seq(OutputLines) /\ probe.completed \in Nat
        /\ probe.first \in Nat /\ probe.all \in BOOLEAN /\ probe.settings.join \in Nat
        /\ probe.markers \in Seq(LifecycleMarkers) /\ exit \in Nat
    BY Zenon, <2>1, ProbeAssumptions DEF ProbeProcesses, Settings
  <2>4. JoinWait(exit, probe.settings.join) \in Nat
    BY Zenon, <2>3, JoinWaitFacts
  <2>5. line \in OutputLines /\ line.kind = "cycle"
          /\ (line.success <=> (joined /\ probe.all))
    <3>1. (joined /\ probe.all) \in BOOLEAN BY Zenon
    <3> HIDE DEF joined
    <3> QED BY Zenon, <2>3, <2>4, <3>1 DEF OutputLines
  <2>6. marker \in PhaseNames /\ marker \notin {"end", "process_error"} BY Zenon DEF PhaseNames
  <2>7. \/ ~joined /\ probe' = [Goto("unwind", <<marker>>) EXCEPT !.lines = done, !.rc = 1]
        \/ joined /\ ~probe.all /\ probe' = [Goto("result", <<marker>>) EXCEPT !.lines = done]
        \/ joined /\ probe.all
             /\ probe' = [Goto(IF probe.cycle < Cycles THEN "delay" ELSE "result",
                               <<marker, "end">>) EXCEPT
                            !.lines = done, !.completed = @ + 1]
    BY Zenon, <2>2
  <2> HIDE DEF joined, marker, line
  <2>8. done \in Seq(OutputLines) /\ prefixed_json(done, "result") = {}
    <3>1. done \in Seq(OutputLines) BY Zenon, <2>3, <2>5, AppendFacts
    <3>2. prefixed_json(done, "result") = prefixed_json(probe.lines, "result")
      BY Zenon, <2>3, <2>5, <1>NoResultAdded
    <3> QED BY Zenon, <2>1, <3>1, <3>2 DEF Reports
  <2>9. ~(joined /\ probe.all) => SuccessfulCycles(done) = SuccessfulCycles(probe.lines)
    BY Zenon, <2>3, <2>5, <1>CycleAdded
  <2>10. (joined /\ probe.all) => Cardinality(SuccessfulCycles(done)) = probe.completed + 1
    <3>1. (joined /\ probe.all) =>
            SuccessfulCycles(done) = SuccessfulCycles(probe.lines) \cup {Len(probe.lines) + 1}
      BY Zenon, <2>3, <2>5, <1>CycleAdded
    <3>2. Cardinality(SuccessfulCycles(probe.lines) \cup {Len(probe.lines) + 1}) =
            Cardinality(SuccessfulCycles(probe.lines)) + 1
      <4>1. SuccessfulCycles(probe.lines) \subseteq DOMAIN probe.lines
        BY Zenon DEF SuccessfulCycles, prefixed_json
      <4> QED BY Zenon, <2>3, <4>1, <1>OneMore
    <3>3. Cardinality(SuccessfulCycles(probe.lines)) = probe.completed
      BY Zenon, <2>1 DEF Reports
    <3> QED BY Zenon, <3>1, <3>2, <3>3
  <2> HIDE DEF done
  <2>11. /\ prefixed_json(probe.lines, "result") = {}
         /\ MarkersOf(probe.markers, "process_error") = {}
         /\ Cardinality(MarkersOf(probe.markers, "end")) = probe.completed
         /\ Cardinality(SuccessfulCycles(probe.lines)) = probe.completed
    BY Zenon, <2>1 DEF Reports
  <2>12. ASSUME ~(joined /\ probe.all), NEW pc \in {"unwind", "result"},
                NEW g, g = Goto(pc, <<marker>>),
                \/ pc = "unwind" /\ probe' = [g EXCEPT !.lines = done, !.rc = 1]
                \/ pc = "result" /\ probe' = [g EXCEPT !.lines = done]
         PROVE  probe' \in ProbeProcesses /\ ProbeReports' /\ probe'.fresh = probe.fresh
               /\ probe'.pc \notin {"off", "exited", "crashed", "killed"}
    <3> DEFINE names == <<marker>>
    <3>1. names \in Seq(PhaseNames) /\ pc \in ProbePCs BY <2>6 DEF ProbePCs
    <3>2. \A i \in DOMAIN names : names[i] \notin {"end", "process_error"}
      BY <2>6
    <3>3. g = Goto(pc, names) BY Zenon, <2>12
    <3> HIDE DEF names
    <3>4. /\ g \in ProbeProcesses /\ g.pc = pc /\ g.completed = probe.completed
          /\ g.fresh = probe.fresh /\ g.markers = Marked(names)
      BY Zenon, <2>1, <3>1, <3>3, GotoFacts
    <3>5. /\ probe' \in ProbeProcesses /\ probe'.pc = pc
          /\ probe'.completed = probe.completed /\ probe'.fresh = probe.fresh
          /\ probe'.markers = Marked(names) /\ probe'.lines = done
          /\ pc = "unwind" => probe'.rc = 1
      <4>1. done \in Seq(OutputLines) BY Zenon, <2>8
      <4>2. CASE pc = "unwind" /\ probe' = [g EXCEPT !.lines = done, !.rc = 1]
        <5>1. /\ probe' \in ProbeProcesses /\ probe'.pc = g.pc
              /\ probe'.completed = g.completed /\ probe'.fresh = g.fresh
              /\ probe'.markers = g.markers /\ probe'.lines = done /\ probe'.rc = 1
          <6> DEFINE q == probe'
          <6>1. q = [g EXCEPT !.lines = done, !.rc = 1] BY Zenon, <4>2
          <6> HIDE DEF q
          <6>2. g \in ProbeProcesses BY Zenon, <3>4
          <6>3. q \in ProbeProcesses
            <7>1. 1 \in Int OBVIOUS
            <7> QED BY Zenon, <4>1, <6>1, <6>2, <7>1 DEF ProbeProcesses
          <6>4. q.lines = done /\ q.rc = 1 BY Zenon, <6>1, <6>2 DEF ProbeProcesses
          <6>5. q.pc = g.pc /\ q.completed = g.completed /\ q.fresh = g.fresh
                  /\ q.markers = g.markers
            BY Zenon, <6>1, <6>2 DEF ProbeProcesses
          <6> QED BY Zenon, <6>3, <6>4, <6>5 DEF q
        <5> QED BY Zenon, <3>4, <5>1
      <4>3. CASE pc = "result" /\ probe' = [g EXCEPT !.lines = done]
        <5>1. /\ probe' \in ProbeProcesses /\ probe'.pc = g.pc
              /\ probe'.completed = g.completed /\ probe'.fresh = g.fresh
              /\ probe'.markers = g.markers /\ probe'.lines = done
          BY <3>4, <4>1, <4>3, <1>LinesReplaced
        <5> QED BY Zenon, <3>4, <4>3, <5>1
      <4> QED BY Zenon, <2>12, <4>2, <4>3
    <3>6. /\ MarkersOf(Marked(names), "end") = MarkersOf(probe.markers, "end")
          /\ MarkersOf(Marked(names), "process_error") =
               MarkersOf(probe.markers, "process_error")
      BY Zenon, <2>1, <3>1, <3>2, <1>OtherNames
    <3>7. Reports(probe')
      <4>1. Cardinality(MarkersOf(probe'.markers, "end")) = probe'.completed
        BY Zenon, <2>11, <3>5, <3>6
      <4>2. Cardinality(SuccessfulCycles(probe'.lines)) = probe'.completed
        BY Zenon, <2>9, <2>11, <2>12, <3>5
      <4>3. prefixed_json(probe'.lines, "result") = {} BY Zenon, <2>8, <3>5
      <4>4. MarkersOf(probe'.markers, "process_error") = {} BY Zenon, <2>11, <3>5, <3>6
      <4>5. probe'.pc \notin {"exited", "crashed", "killed"}
              /\ (probe'.pc = "unwind" => probe'.rc \in {1, 2})
        BY Zenon, <3>5
      <4> QED BY Zenon, <3>5, <4>1, <4>2, <4>3, <4>4, <4>5, LiveReports
    <3> QED BY Zenon, <3>5, <3>7 DEF ProbeReports
  <2>13. ASSUME joined, probe.all, NEW pc \in {"delay", "result"},
                NEW g, g = Goto(pc, <<marker, "end">>),
                probe' = [g EXCEPT !.lines = done, !.completed = @ + 1]
         PROVE  probe' \in ProbeProcesses /\ ProbeReports' /\ probe'.fresh = probe.fresh
               /\ probe'.pc \notin {"off", "exited", "crashed", "killed"}
    <3> DEFINE names == <<marker, "end">>
    <3>1. names \in Seq(PhaseNames) /\ pc \in ProbePCs
      BY <2>6 DEF ProbePCs, PhaseNames
    <3>2. \A i \in DOMAIN names : names[i] # "process_error" BY <2>6
    <3>3. g = Goto(pc, names) BY Zenon, <2>13
    <3>4. MarkersOf(Marked(names), "end") =
            MarkersOf(probe.markers, "end") \cup {Len(probe.markers) + 2}
      BY Zenon, <2>1, <2>6, <1>Joined
    <3> HIDE DEF names
    <3>5. /\ g \in ProbeProcesses /\ g.pc = pc /\ g.completed = probe.completed
          /\ g.fresh = probe.fresh /\ g.markers = Marked(names)
      BY Zenon, <2>1, <3>1, <3>3, GotoFacts
    <3>6. /\ probe' \in ProbeProcesses /\ probe'.pc = pc
          /\ probe'.completed = probe.completed + 1 /\ probe'.fresh = probe.fresh
          /\ probe'.markers = Marked(names) /\ probe'.lines = done
      <4>1. done \in Seq(OutputLines) BY Zenon, <2>8
      <4>2. /\ probe' \in ProbeProcesses /\ probe'.pc = g.pc
            /\ probe'.completed = g.completed + 1 /\ probe'.fresh = g.fresh
            /\ probe'.markers = g.markers /\ probe'.lines = done
        <5> DEFINE q == probe'
        <5>1. q = [g EXCEPT !.lines = done, !.completed = @ + 1] BY Zenon, <2>13
        <5> HIDE DEF q
        <5>2. g \in ProbeProcesses /\ g.completed + 1 \in Nat BY <3>5, <2>3
        <5>3. q \in ProbeProcesses BY Zenon, <4>1, <5>1, <5>2 DEF ProbeProcesses
        <5>4. q.lines = done /\ q.completed = g.completed + 1
          BY Zenon, <5>1, <5>2 DEF ProbeProcesses
        <5>5. q.pc = g.pc /\ q.fresh = g.fresh /\ q.markers = g.markers
          BY Zenon, <5>1, <5>2 DEF ProbeProcesses
        <5> QED BY Zenon, <5>3, <5>4, <5>5 DEF q
      <4> QED BY Zenon, <3>5, <4>2
    <3>7. MarkersOf(Marked(names), "process_error") =
            MarkersOf(probe.markers, "process_error")
      BY Zenon, <2>1, <3>1, <3>2, <1>OtherNames
    <3>8. Cardinality(MarkersOf(Marked(names), "end")) = probe.completed + 1
      <4>1. MarkersOf(probe.markers, "end") \subseteq DOMAIN probe.markers
        BY Zenon DEF MarkersOf
      <4>2. IsFiniteSet(MarkersOf(probe.markers, "end")) BY Zenon, <2>3, <4>1, PlacesFinite
      <4>3. Len(probe.markers) + 2 \notin MarkersOf(probe.markers, "end")
        BY <2>3, <4>1, SeqFacts
      <4> QED BY <2>11, <3>4, <4>2, <4>3, FS_AddElement
    <3>9. Reports(probe')
      <4>1. Cardinality(MarkersOf(probe'.markers, "end")) = probe'.completed
        BY Zenon, <3>6, <3>8
      <4>2. Cardinality(SuccessfulCycles(probe'.lines)) = probe'.completed
        BY Zenon, <2>10, <2>13, <3>6
      <4>3. prefixed_json(probe'.lines, "result") = {} BY Zenon, <2>8, <3>6
      <4>4. MarkersOf(probe'.markers, "process_error") = {} BY Zenon, <2>11, <3>6, <3>7
      <4>5. probe'.pc \notin {"exited", "crashed", "killed", "unwind"} BY Zenon, <3>6
      <4> QED BY Zenon, <3>6, <4>1, <4>2, <4>3, <4>4, <4>5, LiveReports
    <3> QED BY Zenon, <3>6, <3>9 DEF ProbeReports
  <2>14. CASE ~joined /\ probe' = [Goto("unwind", <<marker>>) EXCEPT !.lines = done, !.rc = 1]
    BY Zenon, <2>12, <2>14
  <2>15. CASE joined /\ ~probe.all /\ probe' = [Goto("result", <<marker>>) EXCEPT !.lines = done]
    BY Zenon, <2>12, <2>15
  <2>16. CASE joined /\ probe.all
             /\ probe' = [Goto(IF probe.cycle < Cycles THEN "delay" ELSE "result",
                               <<marker, "end">>) EXCEPT
                            !.lines = done, !.completed = @ + 1]
    BY Zenon, <2>13, <2>16
  <2> QED BY Zenon, <2>7, <2>14, <2>15, <2>16
<1>ResultStep.
    ASSUME Result
    PROVE  probe' \in ProbeProcesses /\ ProbeReports' /\ probe'.fresh = probe.fresh
             /\ probe'.pc = "exited"
  <2> USE <1>ResultStep
  <2> DEFINE names == <<>>
             g == Goto("exited", names)
             m == Marker(0, "process_exit", probe.clock + Step)
             line == [kind |-> "result", success |-> probe.completed = Cycles,
                      completed |-> probe.completed]
             rc == IF probe.completed = Cycles THEN 0 ELSE 3
  <2>1. /\ probe \in ProbeProcesses /\ Reports(probe) /\ probe.pc = "result"
        /\ probe' = [g EXCEPT !.markers = Append(@, m), !.lines = Append(@, line),
                              !.rc = rc]
    BY Zenon DEF ProbeTypeOK, ProbeReports, Result
  <2>2. /\ probe.lines \in Seq(OutputLines) /\ probe.completed \in Nat
        /\ probe.markers \in Seq(LifecycleMarkers) /\ probe.clock + Step \in Nat
    BY <2>1 DEF ProbeProcesses, Step
  <2>3. line \in OutputLines /\ line.kind = "result"
          /\ (line.success <=> probe.completed = Cycles)
          /\ line.completed = probe.completed
    BY Zenon, <2>2 DEF OutputLines
  <2>4. m \in LifecycleMarkers /\ m.name = "process_exit"
    BY Zenon, <2>2 DEF Marker, LifecycleMarkers, PhaseNames
  <2>5. names \in Seq(PhaseNames) /\ "exited" \in ProbePCs /\ Marked(names) = probe.markers
    <3>1. names \in Seq(PhaseNames) OBVIOUS
    <3>2. Marked(names) \in Seq(LifecycleMarkers) /\ Len(Marked(names)) = Len(probe.markers) + 0
          /\ \A i \in DOMAIN probe.markers : Marked(names)[i] = probe.markers[i]
      BY Zenon, <2>1, <3>1, MarkedFacts
    <3>3. DOMAIN Marked(names) = 1..Len(Marked(names)) /\ DOMAIN probe.markers = 1..Len(probe.markers)
          /\ Len(probe.markers) \in Nat
      BY Zenon, <2>2, <3>2, SeqFacts
    <3>4. Marked(names) = probe.markers BY <2>2, <3>2, <3>3
    <3> QED BY Zenon, <3>1, <3>4 DEF ProbePCs
  <2> HIDE DEF names
  <2>6. /\ g \in ProbeProcesses /\ g.pc = "exited" /\ g.completed = probe.completed
        /\ g.fresh = probe.fresh /\ g.markers = probe.markers /\ g.lines = probe.lines
    BY Zenon, <2>1, <2>5, GotoFacts
  <2> HIDE DEF m, line, g
  <2>7. /\ Append(probe.markers, m) \in Seq(LifecycleMarkers)
        /\ Append(probe.lines, line) \in Seq(OutputLines)
    BY Zenon, <2>2, <2>3, <2>4, AppendFacts
  <2>8. rc \in Int /\ rc \in {0, 3} OBVIOUS
  <2>9. /\ probe' \in ProbeProcesses /\ probe'.pc = "exited"
        /\ probe'.completed = probe.completed /\ probe'.fresh = probe.fresh
        /\ probe'.markers = Append(probe.markers, m)
        /\ probe'.lines = Append(probe.lines, line) /\ probe'.rc = rc
    BY Zenon, <2>1, <2>6, <2>7, <2>8 DEF ProbeProcesses
  <2>10. /\ MarkersOf(probe'.markers, "end") = MarkersOf(probe.markers, "end")
         /\ MarkersOf(probe'.markers, "process_error") =
              MarkersOf(probe.markers, "process_error")
    BY Zenon, <2>2, <2>4, <2>9, <1>OtherMarker
  <2>11. SuccessfulCycles(probe'.lines) = SuccessfulCycles(probe.lines)
    BY Zenon, <2>2, <2>3, <2>9, <1>CycleAdded
  <2>12. /\ prefixed_json(probe.lines, "result") = {}
         /\ MarkersOf(probe.markers, "process_error") = {}
         /\ Cardinality(MarkersOf(probe.markers, "end")) = probe.completed
         /\ Cardinality(SuccessfulCycles(probe.lines)) = probe.completed
    BY Zenon, <2>1 DEF Reports
  <2>13. prefixed_json(probe'.lines, "result") = {Len(probe.lines) + 1}
    <3>1. DOMAIN probe'.lines = DOMAIN probe.lines \cup {Len(probe.lines) + 1}
      BY <2>2, <2>3, <2>9, AppendFacts
    <3>2. \A i \in DOMAIN probe.lines : probe'.lines[i] = probe.lines[i]
      BY <2>2, <2>3, <2>9, AppendFacts
    <3>3. probe'.lines[Len(probe.lines) + 1] = line
      BY <2>2, <2>3, <2>9, AppendFacts
    <3> QED BY Zenon, <2>3, <2>12, <3>1, <3>2, <3>3 DEF prefixed_json
  <2>14. probe'.lines[Len(probe.lines) + 1] = line
    BY <2>2, <2>3, <2>9, AppendFacts
  <2>15. Reports(probe')
    BY Zenon, <2>3, <2>9, <2>10, <2>11, <2>12, <2>13, <2>14 DEF Reports
  <2> QED BY Zenon, <2>9, <2>15 DEF ProbeReports
<1>CatchStep.
    ASSUME Catch
    PROVE  probe' \in ProbeProcesses /\ ProbeReports' /\ probe'.fresh = probe.fresh
             /\ probe'.pc = "exited"
  <2> USE <1>CatchStep
  <2> DEFINE names == <<>>
             g == Goto("exited", names)
             m == Marker(0, "process_error", probe.clock + Step)
             line == [kind |-> "error",
                      error |-> IF probe.rc = 2 THEN "librealsense" ELSE "application"]
  <2>1. /\ probe \in ProbeProcesses /\ Reports(probe) /\ probe.pc = "unwind"
        /\ probe' = [g EXCEPT !.markers = Append(@, m), !.lines = Append(@, line)]
    BY Zenon DEF ProbeTypeOK, ProbeReports, Catch
  <2>2. /\ probe.lines \in Seq(OutputLines) /\ probe.completed \in Nat
        /\ probe.markers \in Seq(LifecycleMarkers) /\ probe.clock + Step \in Nat
    BY <2>1 DEF ProbeProcesses, Step
  <2>3. line \in OutputLines /\ line.kind = "error" BY Zenon DEF OutputLines
  <2>4. m \in LifecycleMarkers /\ m.name = "process_error"
    BY Zenon, <2>2 DEF Marker, LifecycleMarkers, PhaseNames
  <2>5. names \in Seq(PhaseNames) /\ "exited" \in ProbePCs /\ Marked(names) = probe.markers
    <3>1. names \in Seq(PhaseNames) OBVIOUS
    <3>2. Marked(names) \in Seq(LifecycleMarkers) /\ Len(Marked(names)) = Len(probe.markers) + 0
          /\ \A i \in DOMAIN probe.markers : Marked(names)[i] = probe.markers[i]
      BY Zenon, <2>1, <3>1, MarkedFacts
    <3>3. DOMAIN Marked(names) = 1..Len(Marked(names)) /\ DOMAIN probe.markers = 1..Len(probe.markers)
          /\ Len(probe.markers) \in Nat
      BY Zenon, <2>2, <3>2, SeqFacts
    <3>4. Marked(names) = probe.markers BY <2>2, <3>2, <3>3
    <3> QED BY Zenon, <3>1, <3>4 DEF ProbePCs
  <2> HIDE DEF names
  <2>6. /\ g \in ProbeProcesses /\ g.pc = "exited" /\ g.completed = probe.completed
        /\ g.fresh = probe.fresh /\ g.markers = probe.markers /\ g.lines = probe.lines
        /\ g.rc = probe.rc
    BY Zenon, <2>1, <2>5, GotoFacts
  <2> HIDE DEF m, line, g
  <2>7. /\ Append(probe.markers, m) \in Seq(LifecycleMarkers)
        /\ Append(probe.lines, line) \in Seq(OutputLines)
    BY Zenon, <2>2, <2>3, <2>4, AppendFacts
  <2>8. /\ probe' \in ProbeProcesses /\ probe'.pc = "exited"
        /\ probe'.completed = probe.completed /\ probe'.fresh = probe.fresh
        /\ probe'.markers = Append(probe.markers, m)
        /\ probe'.lines = Append(probe.lines, line) /\ probe'.rc = probe.rc
    BY Zenon, <2>1, <2>6, <2>7 DEF ProbeProcesses
  <2>9. /\ MarkersOf(probe'.markers, "end") = MarkersOf(probe.markers, "end")
        /\ MarkersOf(probe'.markers, "process_error") # {}
    <3>1. DOMAIN probe'.markers = DOMAIN probe.markers \cup {Len(probe.markers) + 1}
      BY <2>2, <2>4, <2>8, AppendFacts
    <3>2. \A i \in DOMAIN probe.markers : probe'.markers[i] = probe.markers[i]
      BY <2>2, <2>4, <2>8, AppendFacts
    <3>3. probe'.markers[Len(probe.markers) + 1] = m
      BY <2>2, <2>4, <2>8, AppendFacts
    <3> QED BY Zenon, <2>4, <3>1, <3>2, <3>3 DEF MarkersOf
  <2>10. /\ SuccessfulCycles(probe'.lines) = SuccessfulCycles(probe.lines)
         /\ prefixed_json(probe'.lines, "result") = prefixed_json(probe.lines, "result")
    BY Zenon, <2>2, <2>3, <2>8, <1>OtherKind
  <2>11. /\ prefixed_json(probe.lines, "result") = {} /\ probe.rc \in {1, 2}
         /\ Cardinality(MarkersOf(probe.markers, "end")) = probe.completed
         /\ Cardinality(SuccessfulCycles(probe.lines)) = probe.completed
    BY Zenon, <2>1 DEF Reports
  <2>12. Reports(probe') BY Zenon, <2>8, <2>9, <2>10, <2>11 DEF Reports
  <2> QED BY Zenon, <2>8, <2>12 DEF ProbeReports
<1>CrashStep.
    ASSUME Crash
    PROVE  probe' \in ProbeProcesses /\ ProbeReports' /\ probe'.fresh = probe.fresh
             /\ probe'.pc = "crashed"
  <2> USE <1>CrashStep
  <2>1. probe' = [probe EXCEPT !.pc = "crashed", !.rc = -11, !.lines = <<>>]
    BY Zenon DEF Crash
  <2>2. <<>> \in Seq(OutputLines) /\ -11 \in Int OBVIOUS
  <2>3. /\ probe' \in ProbeProcesses /\ probe'.pc = "crashed" /\ probe'.lines = <<>>
        /\ probe'.completed = probe.completed /\ probe'.fresh = probe.fresh
        /\ probe'.markers = probe.markers
    BY Zenon, <2>1, <2>2 DEF ProbeTypeOK, ProbeProcesses, ProbePCs
  <2>4. prefixed_json(<<>>, "result") = {} BY DEF prefixed_json
  <2>5. Reports(probe') BY Zenon, <2>3, <2>4 DEF ProbeReports, Reports
  <2> QED BY Zenon, <2>3, <2>5 DEF ProbeReports
<1>UvcErrorTypes. ASSUME UvcError PROVE ProbeTypeOK'
  <2> USE <1>UvcErrorTypes
  <2>1. PICK late \in {0, 2} :
          LET at == probe.clock + late IN
          uvc' = Append(uvc, [at |-> at, stamp |-> (at \div KernelTick) * KernelTick,
                              doing |-> Doing, cycle |-> probe.cycle,
                              pc |-> probe.pc])
    BY Zenon DEF UvcError
  <2>2. probe.clock \in Nat /\ probe.cycle \in Nat /\ probe.pc \in ProbePCs
    BY Zenon DEF ProbeTypeOK, ProbeProcesses
  <2>3. probe.clock + late \in Nat BY <2>2
  <2>4. ((probe.clock + late) \div KernelTick) * KernelTick \in Nat
    BY <2>3 DEF KernelTick
  <2>5. Doing \in {"startup", "streaming", "teardown"} BY Zenon DEF Doing
  <2>6. [at |-> probe.clock + late,
         stamp |-> ((probe.clock + late) \div KernelTick) * KernelTick,
         doing |-> Doing, cycle |-> probe.cycle, pc |-> probe.pc] \in KernelLines
    BY Zenon, <2>2, <2>3, <2>4, <2>5 DEF KernelLines
  <2>7. uvc' \in Seq(KernelLines) BY <2>1, <2>6 DEF ProbeTypeOK
  <2>8. probe' = probe /\ camera' = camera /\ upsets' \in Nat
    BY DEF UvcError, Upset, ProbeTypeOK
  <2> QED BY Zenon, <2>7, <2>8 DEF ProbeTypeOK
\* A quiet step keeps what the probe reports.
<1>QuietReports.
    ASSUME QuietStep,
           probe.pc \notin {"exited", "crashed", "killed"}
    PROVE  ProbeReports'
  <2> USE <1>QuietReports
  <2>1. Reports(probe') BY Zenon, <1>Quietly DEF ProbeTypeOK, ProbeReports, QuietStep
  <2> QED BY Zenon, <2>1 DEF ProbeReports
<1> DEFINE Kept == probe' \in ProbeProcesses /\ ProbeReports' /\ probe'.fresh = probe.fresh
                     /\ probe'.pc \notin {"off", "killed"}
<1>1. probe.pc \notin {"off", "exited", "crashed", "killed"}
  BY Zenon DEF ProbeStep, Open, Start, FirstFrame, Frames, Signal, Stop, Destroy, Join,
         NextCycle, Result, Catch, Crash, UvcError, Alive
<1>2. ASSUME QuietStep PROVE Kept BY Zenon, <1>1, <1>2, <1>QuietReports DEF QuietStep
<1>3. CASE UvcError
  <2>1. probe' = probe BY Zenon, <1>3 DEF UvcError
  <2> QED BY Zenon, <1>1, <1>3, <2>1, <1>UvcErrorTypes DEF ProbeReports
<1>4. CASE ~UvcError
  <2>1. Kept
    <3>1. CASE Open BY Zenon, <1>2, <3>1, <1>OpenQuiet
    <3>2. CASE Start BY Zenon, <1>2, <3>2, <1>StartQuiet
    <3>3. CASE FirstFrame BY Zenon, <1>2, <3>3, <1>FirstFrameQuiet
    <3>4. CASE Frames BY Zenon, <1>2, <3>4, <1>FramesQuiet
    <3>5. CASE Signal BY Zenon, <1>2, <3>5, <1>SignalQuiet
    <3>6. CASE Stop BY Zenon, <1>2, <3>6, <1>StopQuiet
    <3>7. CASE Destroy BY Zenon, <1>2, <3>7, <1>DestroyQuiet
    <3>8. CASE Join BY Zenon, <3>8, <1>JoinStep
    <3>9. CASE NextCycle BY Zenon, <1>2, <3>9, <1>NextCycleQuiet
    <3>10. CASE Result BY Zenon, <3>10, <1>ResultStep
    <3>11. CASE Catch BY Zenon, <3>11, <1>CatchStep
    <3>12. CASE Crash BY Zenon, <3>12, <1>CrashStep
    <3> QED BY <1>4, <3>1, <3>2, <3>3, <3>4, <3>5, <3>6, <3>7, <3>8, <3>9, <3>10,
               <3>11, <3>12 DEF ProbeStep
  <2>2. camera' \in {"fresh", "used", "wedged"} /\ upsets' \in Nat
    <3>1. camera \in {"fresh", "used", "wedged"} /\ upsets \in Nat BY Zenon DEF ProbeTypeOK
    <3>2. CASE Open \/ Start \/ Signal \/ Stop \/ Destroy \/ Crash
      BY <3>1, <3>2 DEF Open, Start, Signal, Stop, Destroy, Crash, Upset
    <3>3. CASE FirstFrame BY <3>1, <3>3 DEF FirstFrame, Upset
    <3>4. CASE Frames BY <3>1, <3>4 DEF Frames, Upset
    <3>5. CASE Join BY <3>1, <3>5 DEF Join, Upset
    <3>6. CASE NextCycle \/ Result \/ Catch BY Zenon, <3>1, <3>6 DEF NextCycle, Result, Catch
    <3> QED BY Zenon, <1>4, <3>2, <3>3, <3>4, <3>5, <3>6 DEF ProbeStep
  <2>3. uvc' = uvc
    BY Zenon, <1>4 DEF ProbeStep, Open, Start, FirstFrame, Frames, Signal, Stop, Destroy, Join,
                NextCycle, Result, Catch, Crash
  <2> QED BY Zenon, <1>1, <2>1, <2>2, <2>3 DEF ProbeTypeOK
<1> QED BY Zenon, <1>3, <1>4

-----------------------------------------------------------------------------
LEMMA OffFacts == Off \in ProbeProcesses /\ Reports(Off) /\ Off.pc = "off"
<1>1. /\ <<>> \in Seq(LifecycleMarkers) /\ <<>> \in Seq(OutputLines)
      /\ [frame |-> 0, join |-> 0, delay |-> 0] \in Settings
  BY DEF Settings
<1>2. Off \in ProbeProcesses BY <1>1 DEF Off, ProbeProcesses, ProbePCs
<1>3. /\ prefixed_json(Off.lines, "result") = {} /\ SuccessfulCycles(Off.lines) = {}
      /\ MarkersOf(Off.markers, "end") = {}
      /\ MarkersOf(Off.markers, "process_error") = {}
  BY DEF Off, prefixed_json, SuccessfulCycles, MarkersOf
<1>4. Off.pc = "off" /\ Off.completed = 0 BY Zenon DEF Off
<1>5. Cardinality({}) = 0 BY Zenon, FS_EmptySet
<1>6. Reports(Off) BY Zenon, <1>2, <1>3, <1>4, <1>5, LiveReports
<1> QED BY Zenon, <1>2, <1>4, <1>6

LEMMA LaunchFacts ==
    ASSUME NEW s \in Settings, NEW r \in BOOLEAN,
           NEW found \in {"fresh", "used", "wedged"}, Launch(s, r, found)
    PROVE  /\ probe' \in ProbeProcesses /\ ProbeReports'
           /\ camera' \in {"fresh", "used", "wedged"} /\ uvc' \in Seq(KernelLines)
           /\ probe'.pc = "open" /\ (probe'.fresh <=> found = "fresh")
<1> DEFINE m == Marker(1, "begin", 0)
           fresh == found = "fresh"
<1>1. m \in LifecycleMarkers /\ m.name = "begin"
  BY Zenon DEF Marker, LifecycleMarkers, PhaseNames
<1>2. probe' = [Off EXCEPT !.pc = "open", !.cycle = 1, !.settings = s,
                           !.markers = <<m>>, !.recorded = r, !.fresh = fresh]
  BY Zenon DEF Launch
<1>3. <<m>> \in Seq(LifecycleMarkers) BY <1>1
<1>4. fresh \in BOOLEAN BY Zenon
<1>5. /\ MarkersOf(<<m>>, "end") = {} /\ MarkersOf(<<m>>, "process_error") = {}
  BY <1>1 DEF MarkersOf
<1> HIDE DEF m, fresh
<1>6. probe' \in ProbeProcesses
  BY Zenon, <1>2, <1>3, <1>4, OffFacts DEF ProbeProcesses, ProbePCs
<1>7. /\ probe'.pc = "open" /\ probe'.markers = <<m>> /\ probe'.fresh = fresh
      /\ probe'.completed = 0 /\ probe'.lines = <<>>
  BY Zenon, <1>2 DEF Off
<1>8. prefixed_json(<<>>, "result") = {} /\ SuccessfulCycles(<<>>) = {}
  BY DEF prefixed_json, SuccessfulCycles
<1>9. Cardinality({}) = 0 BY Zenon, FS_EmptySet
<1>10. Reports(probe') BY Zenon, <1>5, <1>6, <1>7, <1>8, <1>9, LiveReports
<1>11. camera' \in {"fresh", "used", "wedged"} /\ uvc' \in Seq(KernelLines)
  BY DEF Launch
<1> QED BY Zenon, <1>6, <1>7, <1>10, <1>11 DEF ProbeReports, fresh

\* The last of the places of a kind is one of them.
LEMMA LatestFacts ==
    ASSUME NEW lines \in Seq(OutputLines), NEW kind, prefixed_json(lines, kind) # {}
    PROVE  /\ Max(prefixed_json(lines, kind)) \in prefixed_json(lines, kind)
           /\ \A i \in prefixed_json(lines, kind) : i <= Max(prefixed_json(lines, kind))
<1>1. /\ prefixed_json(lines, kind) \subseteq Nat /\ Len(lines) \in Nat
      /\ \A i \in prefixed_json(lines, kind) : i <= Len(lines)
  BY SeqFacts DEF prefixed_json
<1> QED BY Zenon, <1>1, GreatestIsMax

LEMMA SameProbe ==
    ASSUME ProbeTypeOK, ProbeReports, probe' = probe, uvc' = uvc,
           camera' \in {"fresh", "used", "wedged"}, upsets' \in Nat
    PROVE  ProbeTypeOK' /\ ProbeReports'
BY Zenon DEF ProbeTypeOK, ProbeReports

-----------------------------------------------------------------------------
(* The attribution of the kernel log.                                      *)

\* A step of the probe as its markers see it.
Marks(p, q) ==
    LET new == DOMAIN q.markers \ DOMAIN p.markers IN
    /\ q.clock \in {p.clock, p.clock + Step}
    /\ DOMAIN p.markers \subseteq DOMAIN q.markers
    /\ \A i \in DOMAIN p.markers : q.markers[i] = p.markers[i]
    /\ \A i \in new :
         /\ q.markers[i].at = p.clock + Step /\ q.clock = p.clock + Step
         /\ q.markers[i].name = "begin" =>
              q.markers[i].cycle = q.cycle /\ q.cycle = p.cycle + 1
         /\ q.markers[i].name = "end" =>
              q.markers[i].cycle = p.cycle /\ q.pc \in {"delay", "result"}
    /\ \A i, j \in new :
         (q.markers[i].name = "begin" /\ q.markers[j].name = "begin") => i = j
    /\ \/ /\ q.cycle = p.cycle /\ (q.pc \in InCycle => p.pc \in InCycle)
          /\ q.pc = "delay" =>
               \/ p.pc = "delay"
               \/ p.cycle < Cycles /\ \E i \in new : q.markers[i].name = "end"
       \/ /\ q.cycle = p.cycle + 1 /\ p.pc = "delay" /\ q.pc = "open"
          /\ \E i \in new : q.markers[i].name = "begin"
    /\ q.pc = "exited" => new # {}

\* A step of the clock comes after all that was noted before it.
LEMMA LaterByAStep ==
    ASSUME NEW t \in Nat, NEW clock \in Nat, NEW d \in Nat, d > 2, t <= clock
    PROVE  t < clock + d
OBVIOUS

LEMMA MarksKeepMarks ==
    ASSUME NEW p \in ProbeProcesses, NEW q \in ProbeProcesses, MarksInv(p), Marks(p, q)
    PROVE  MarksInv(q)
<1> DEFINE m == p.markers
           n == q.markers
           new == DOMAIN n \ DOMAIN m
<1>1. /\ p.cycle \in Nat /\ q.cycle \in Nat /\ p.clock \in Nat /\ q.clock \in Nat
      /\ m \in Seq(LifecycleMarkers) /\ n \in Seq(LifecycleMarkers) /\ Step \in Nat
      /\ Step > 2 /\ Cycles \in Nat
  BY ProbeAssumptions DEF ProbeProcesses, Step
<1>2. \A i \in DOMAIN n : n[i].at \in Nat /\ n[i].cycle \in Nat
  <2>1. \A i \in DOMAIN n : n[i] \in LifecycleMarkers
    <3> HIDE DEF n
    <3> QED BY Zenon, <1>1, SeqFacts
  <2> QED BY Zenon, <2>1 DEF LifecycleMarkers
<1>3. /\ q.clock \in {p.clock, p.clock + Step}
      /\ DOMAIN m \subseteq DOMAIN n /\ \A i \in DOMAIN m : n[i] = m[i]
  BY Zenon DEF Marks
<1>4. \A i \in new :
        /\ n[i].at = p.clock + Step /\ q.clock = p.clock + Step
        /\ n[i].name = "begin" => n[i].cycle = q.cycle /\ q.cycle = p.cycle + 1
        /\ n[i].name = "end" => n[i].cycle = p.cycle /\ q.pc \in {"delay", "result"}
  BY Zenon DEF Marks
<1>5. \A i, j \in new : (n[i].name = "begin" /\ n[j].name = "begin") => i = j
  BY Zenon DEF Marks
<1>6. \/ /\ q.cycle = p.cycle /\ (q.pc \in InCycle => p.pc \in InCycle)
         /\ q.pc = "delay" =>
              \/ p.pc = "delay"
              \/ p.cycle < Cycles /\ \E i \in new : n[i].name = "end"
      \/ /\ q.cycle = p.cycle + 1 /\ p.pc = "delay" /\ q.pc = "open"
         /\ \E i \in new : n[i].name = "begin"
  BY Zenon DEF Marks
<1>7. /\ p.cycle \in 1..Cycles /\ (p.pc = "delay" => p.cycle < Cycles)
      /\ \A i \in DOMAIN m : m[i].at <= p.clock
      /\ \A c \in 1..p.cycle : CycleMarks(m, c, "begin") # {}
      /\ \A i, j \in MarkersOf(m, "begin") : m[i].cycle = m[j].cycle => i = j
      /\ \A i \in MarkersOf(m, "begin") \cup MarkersOf(m, "end") : m[i].cycle \in 1..p.cycle
      /\ \A c \in 1..p.cycle :
           (c < p.cycle \/ p.pc = "delay") => CycleMarks(m, c, "end") # {}
      /\ p.pc \in InCycle => CycleMarks(m, p.cycle, "end") = {}
      /\ \A i \in MarkersOf(m, "end"), j \in MarkersOf(m, "begin") :
           m[i].cycle < m[j].cycle => m[i].at < m[j].at
  BY Zenon DEF MarksInv
<1>8. \A i \in DOMAIN n : i \in DOMAIN m \/ i \in new BY Zenon
<1>9. \A c, name : CycleMarks(m, c, name) \subseteq CycleMarks(n, c, name)
  BY Zenon, <1>3 DEF CycleMarks
<1> HIDE DEF m, n, new
<1>10. q.cycle \in 1..Cycles /\ (q.pc = "delay" => q.cycle < Cycles)
  BY <1>1, <1>6, <1>7
<1>11. \A i \in DOMAIN n : n[i].at <= q.clock
  BY <1>1, <1>2, <1>3, <1>4, <1>7, <1>8
<1>12. \A c \in 1..q.cycle : CycleMarks(n, c, "begin") # {}
  <2> SUFFICES ASSUME NEW c \in 1..q.cycle PROVE CycleMarks(n, c, "begin") # {}
    BY Zenon
  <2>1. CASE c \in 1..p.cycle BY Zenon, <1>7, <1>9, <2>1
  <2>2. CASE c \notin 1..p.cycle
    <3>1. q.cycle = p.cycle + 1 /\ \E i \in new : n[i].name = "begin"
      BY Zenon, <1>1, <1>6, <2>2
    <3>2. c = q.cycle BY <1>1, <2>2, <3>1
    <3>3. PICK i \in new : n[i].name = "begin" /\ n[i].cycle = c BY Zenon, <1>4, <3>1, <3>2
    <3> QED BY Zenon, <3>3 DEF CycleMarks, new
  <2> QED BY Zenon, <2>1, <2>2
<1>13. \A i \in MarkersOf(n, "begin") \cup MarkersOf(n, "end") : n[i].cycle \in 1..q.cycle
  <2> SUFFICES ASSUME NEW i \in DOMAIN n, n[i].name \in {"begin", "end"}
               PROVE  n[i].cycle \in 1..q.cycle
    BY Zenon DEF MarkersOf
  <2>1. CASE i \in DOMAIN m
    <3>1. m[i].cycle \in 1..p.cycle BY Zenon, <1>3, <1>7, <2>1 DEF MarkersOf
    <3> QED BY <1>1, <1>3, <1>6, <2>1, <3>1
  <2>2. CASE i \in new BY <1>1, <1>4, <1>6, <1>7, <2>2
  <2> QED BY Zenon, <1>8, <2>1, <2>2
<1>14. \A i, j \in MarkersOf(n, "begin") : n[i].cycle = n[j].cycle => i = j
  <2> SUFFICES ASSUME NEW i \in DOMAIN n, NEW j \in DOMAIN n, n[i].name = "begin",
                      n[j].name = "begin", n[i].cycle = n[j].cycle
               PROVE  i = j
    BY Zenon DEF MarkersOf
  <2>1. CASE i \in DOMAIN m /\ j \in DOMAIN m BY Zenon, <1>3, <1>7, <2>1 DEF MarkersOf
  <2>2. CASE i \in new /\ j \in new BY Zenon, <1>5, <2>2
  <2>3. ASSUME NEW x \in DOMAIN m, NEW y \in new, n[x].name = "begin",
               n[y].name = "begin", n[x].cycle = n[y].cycle
        PROVE  FALSE
    <3>1. m[x].cycle \in 1..p.cycle BY Zenon, <1>3, <1>7, <2>3 DEF MarkersOf
    <3>2. n[y].cycle = p.cycle + 1 BY Zenon, <1>4, <2>3
    <3>3. n[x] = m[x] BY Zenon, <1>3
    <3> QED BY <1>1, <2>3, <3>1, <3>2, <3>3
  <2> QED BY Zenon, <1>8, <2>1, <2>2, <2>3
<1>15. \A c \in 1..q.cycle :
         (c < q.cycle \/ q.pc = "delay") => CycleMarks(n, c, "end") # {}
  <2> SUFFICES ASSUME NEW c \in 1..q.cycle, c < q.cycle \/ q.pc = "delay"
               PROVE  CycleMarks(n, c, "end") # {}
    BY Zenon
  <2>1. CASE c \in 1..p.cycle /\ (c < p.cycle \/ p.pc = "delay")
    BY Zenon, <1>7, <1>9, <2>1
  <2>2. CASE ~(c \in 1..p.cycle /\ (c < p.cycle \/ p.pc = "delay"))
    <3>1. c = p.cycle /\ \E i \in new : n[i].name = "end" BY <1>1, <1>6, <2>2
    <3>2. PICK i \in new : n[i].name = "end" /\ n[i].cycle = c BY Zenon, <1>4, <3>1
    <3> QED BY Zenon, <3>2 DEF CycleMarks, new
  <2> QED BY Zenon, <2>1, <2>2
<1>16. q.pc \in InCycle => CycleMarks(n, q.cycle, "end") = {}
  <2> SUFFICES ASSUME q.pc \in InCycle, NEW i \in DOMAIN n, n[i].name = "end",
                      n[i].cycle = q.cycle
               PROVE  FALSE
    BY Zenon DEF CycleMarks
  <2>1. q.pc \notin {"delay", "result"} BY Zenon DEF InCycle
  <2>2. i \in DOMAIN m BY Zenon, <1>4, <1>8, <2>1
  <2>3. m[i].name = "end" /\ m[i].cycle = q.cycle BY Zenon, <1>3, <2>2
  <2>4. m[i].cycle \in 1..p.cycle BY Zenon, <1>7, <2>2, <2>3 DEF MarkersOf
  <2>5. q.cycle = p.cycle /\ p.pc \in InCycle BY <1>1, <1>6, <2>3, <2>4
  <2> QED BY Zenon, <1>7, <2>2, <2>3, <2>5 DEF CycleMarks
<1>17. \A i \in MarkersOf(n, "end"), j \in MarkersOf(n, "begin") :
         n[i].cycle < n[j].cycle => n[i].at < n[j].at
  <2> SUFFICES ASSUME NEW i \in DOMAIN n, NEW j \in DOMAIN n, n[i].name = "end",
                      n[j].name = "begin", n[i].cycle < n[j].cycle
               PROVE  n[i].at < n[j].at
    BY Zenon DEF MarkersOf
  <2>1. CASE i \in DOMAIN m /\ j \in DOMAIN m BY Zenon, <1>3, <1>7, <2>1 DEF MarkersOf
  <2>2. CASE i \in DOMAIN m /\ j \in new
    <3>1. n[i].at <= p.clock /\ n[j].at = p.clock + Step BY Zenon, <1>3, <1>4, <1>7, <2>2
    <3>2. n[i].at < p.clock + Step BY Zenon, <1>1, <1>2, <3>1, LaterByAStep
    <3> QED BY Zenon, <3>1, <3>2
  <2>3. CASE i \in new
    <3>1. n[i].cycle = p.cycle /\ q.pc \in {"delay", "result"} BY Zenon, <1>4, <2>3
    <3>2. q.cycle = p.cycle BY Zenon, <1>6, <3>1
    <3>3. n[j].cycle \in 1..q.cycle BY Zenon, <1>13 DEF MarkersOf
    <3> QED BY <1>1, <3>1, <3>2, <3>3
  <2> QED BY Zenon, <1>8, <2>1, <2>2, <2>3
<1> QED BY <1>10, <1>11, <1>12, <1>13, <1>14, <1>15, <1>16, <1>17 DEF MarksInv, n

LEMMA MarksKeepLines ==
    ASSUME NEW p \in ProbeProcesses, NEW q \in ProbeProcesses, MarksInv(p), Marks(p, q),
           NEW line \in KernelLines, LineInv(p, line)
    PROVE  LineInv(q, line)
<1> DEFINE m == p.markers
           n == q.markers
           new == DOMAIN n \ DOMAIN m
<1>1. /\ p.cycle \in Nat /\ q.cycle \in Nat /\ p.clock \in Nat /\ q.clock \in Nat
      /\ Step \in Nat /\ Step > 2 /\ line.at \in Nat /\ line.stamp \in Nat
      /\ line.cycle \in Nat
  BY DEF ProbeProcesses, Step, KernelLines
<1>2. /\ q.clock \in {p.clock, p.clock + Step}
      /\ DOMAIN m \subseteq DOMAIN n /\ \A i \in DOMAIN m : n[i] = m[i]
      /\ q.cycle = p.cycle \/ q.cycle = p.cycle + 1
      /\ q.pc = "exited" => new # {}
  BY Zenon DEF Marks
<1>3. \A i \in new :
        /\ n[i].at = p.clock + Step
        /\ n[i].name = "begin" => n[i].cycle = p.cycle + 1
  BY Zenon DEF Marks
<1>4. /\ line.pc \notin {"off", "exited", "crashed", "killed"}
      /\ line.stamp <= line.at /\ line.at <= p.clock + 2
      /\ line.pc # "unwind" =>
           \E k \in DOMAIN m : /\ m[k].at <= line.at
                               /\ classify_uvc_phase(m[k].name) = line.doing
                               /\ \A j \in DOMAIN m : j > k => m[j].at > line.at
      /\ line.pc \in InCycle =>
           /\ line.cycle \in 1..p.cycle
           /\ \A j \in CycleMarks(m, line.cycle, "begin") : m[j].at <= line.at
           /\ \A j \in CycleMarks(m, line.cycle, "end") : m[j].at > line.at
  BY Zenon DEF LineInv
<1>5. \A i \in DOMAIN n : i \in DOMAIN m \/ i \in new BY Zenon
<1>6. new \subseteq DOMAIN n BY Zenon
<1> HIDE DEF m, n, new
<1>7. \A i \in new : n[i].at > line.at BY <1>1, <1>3, <1>4
<1>8. line.at <= q.clock + 2 BY <1>1, <1>2, <1>4
<1>9. q.pc = "exited" => \E j \in DOMAIN n : n[j].at > line.at
  BY Zenon, <1>2, <1>6, <1>7
<1>10. ASSUME line.pc # "unwind"
       PROVE  \E k \in DOMAIN n : /\ n[k].at <= line.at
                                  /\ classify_uvc_phase(n[k].name) = line.doing
                                  /\ \A j \in DOMAIN n : j > k => n[j].at > line.at
  <2>1. PICK k \in DOMAIN m : /\ m[k].at <= line.at
                              /\ classify_uvc_phase(m[k].name) = line.doing
                              /\ \A j \in DOMAIN m : j > k => m[j].at > line.at
    BY Zenon, <1>4, <1>10
  <2>2. /\ k \in DOMAIN n /\ n[k].at <= line.at
        /\ classify_uvc_phase(n[k].name) = line.doing
    BY Zenon, <1>2, <2>1
  <2>3. \A j \in DOMAIN n : j > k => n[j].at > line.at BY Zenon, <1>2, <1>5, <1>7, <2>1
  <2> QED BY Zenon, <2>2, <2>3
<1>11. ASSUME line.pc \in InCycle
       PROVE  /\ line.cycle \in 1..q.cycle
              /\ \A j \in CycleMarks(n, line.cycle, "begin") : n[j].at <= line.at
              /\ \A j \in CycleMarks(n, line.cycle, "end") : n[j].at > line.at
  <2>1. line.cycle \in 1..p.cycle BY Zenon, <1>4, <1>11
  <2>2. line.cycle \in 1..q.cycle BY <1>1, <1>2, <2>1
  <2>3. ASSUME NEW j \in CycleMarks(n, line.cycle, "begin") PROVE n[j].at <= line.at
    <3>1. j \in DOMAIN n /\ n[j].name = "begin" /\ n[j].cycle = line.cycle
      BY Zenon, <2>3 DEF CycleMarks
    <3>2. j \notin new BY <1>1, <1>3, <2>1, <3>1
    <3>3. j \in DOMAIN m /\ n[j] = m[j] BY Zenon, <1>2, <1>5, <3>1, <3>2
    <3>4. j \in CycleMarks(m, line.cycle, "begin") BY Zenon, <3>1, <3>3 DEF CycleMarks
    <3> QED BY Zenon, <1>4, <1>11, <3>3, <3>4
  <2>4. ASSUME NEW j \in CycleMarks(n, line.cycle, "end") PROVE n[j].at > line.at
    <3>1. j \in DOMAIN n /\ n[j].name = "end" /\ n[j].cycle = line.cycle
      BY Zenon, <2>4 DEF CycleMarks
    <3>2. CASE j \in new BY Zenon, <1>7, <3>2
    <3>3. CASE j \in DOMAIN m
      <4>1. j \in CycleMarks(m, line.cycle, "end") /\ n[j] = m[j]
        BY Zenon, <1>2, <3>1, <3>3 DEF CycleMarks
      <4> QED BY Zenon, <1>4, <1>11, <4>1
    <3> QED BY Zenon, <1>5, <3>1, <3>2, <3>3
  <2> QED BY Zenon, <2>2, <2>3, <2>4
<1> QED BY Zenon, <1>4, <1>8, <1>9, <1>10, <1>11 DEF LineInv, n

\* The last marker shows what the probe is doing.
Shown ==
    (Alive /\ probe.pc # "unwind") =>
      /\ probe.markers # <<>>
      /\ classify_uvc_phase(probe.markers[Len(probe.markers)].name) = Doing

\* The probe and the kernel log agree, whoever started the probe.
Traced ==
    probe.pc # "off" =>
      MarksInv(probe) /\ Shown /\ \A i \in DOMAIN uvc : LineInv(probe, uvc[i])

LEMMA ProbeStepTraced ==
    ASSUME ProbeTypeOK, ProbeReports, Traced, ProbeStep PROVE Traced'
<1>StepProcess. probe \in ProbeProcesses /\ probe' \in ProbeProcesses
  BY Zenon, ProbeStepKeeps DEF ProbeTypeOK
\* A step that marks nothing.
<1>NothingMarked.
    ASSUME probe \in ProbeProcesses, probe' \in ProbeProcesses, Shown,
           probe'.markers = probe.markers, probe'.cycle = probe.cycle,
           probe'.clock \in {probe.clock, probe.clock + Step},
           \/ probe'.pc \in {"unwind", "crashed", "killed"}
           \/ probe'.pc = probe.pc /\ Alive
           \/ probe'.pc = "result" /\ probe.pc = "delay"
    PROVE  Marks(probe, probe') /\ Shown'
  <2> USE <1>NothingMarked
  <2>1. Marks(probe, probe')
    <3>1. probe'.pc \in InCycle => probe.pc \in InCycle BY Zenon DEF InCycle
    <3>2. probe'.pc = "delay" => probe.pc = "delay" BY Zenon
    <3>3. probe'.pc # "exited" BY Zenon DEF Alive
    <3> QED BY Zenon, <3>1, <3>2, <3>3 DEF Marks
  <2>2. Shown' BY Zenon DEF Shown, Alive, Doing
  <2> QED BY Zenon, <2>1, <2>2
\* A step that marks names and goes on.
<1>NamesMarked.
    ASSUME probe \in ProbeProcesses, probe' \in ProbeProcesses,
           NEW names \in Seq(PhaseNames), names # <<>>,
           probe'.markers = Marked(names), probe'.cycle = probe.cycle,
           probe'.clock = probe.clock + Step,
           \A i \in DOMAIN names : names[i] # "begin",
           probe'.pc # "exited", probe'.pc \in InCycle => probe.pc \in InCycle,
           (\E i \in DOMAIN names : names[i] = "end") => probe'.pc \in {"delay", "result"},
           probe'.pc = "delay" =>
             probe.cycle < Cycles /\ \E i \in DOMAIN names : names[i] = "end",
           (Alive' /\ probe'.pc # "unwind") =>
             classify_uvc_phase(names[Len(names)]) = Doing'
    PROVE  Marks(probe, probe') /\ Shown'
  <2> USE <1>NamesMarked
  <2> DEFINE m == probe.markers
             n == Marked(names)
             new == DOMAIN n \ DOMAIN m
  <2>1. /\ n \in Seq(LifecycleMarkers) /\ Len(n) = Len(m) + Len(names)
        /\ \A i \in DOMAIN m : n[i] = m[i]
    BY Zenon, MarkedFacts
  <2>2. \A i \in new : /\ i - Len(m) \in DOMAIN names
                       /\ n[i] = Marker(probe.cycle, names[i - Len(m)], probe.clock + Step)
    BY Zenon, MarkedFacts
  <2>3. m \in Seq(LifecycleMarkers) BY Zenon DEF ProbeProcesses
  <2>4. probe'.markers = n BY Zenon
  <2> HIDE DEF n, m
  <2>5. /\ Len(m) \in Nat /\ DOMAIN m = 1..Len(m)
        /\ Len(names) \in Nat /\ DOMAIN names = 1..Len(names) /\ Len(names) > 0
        /\ DOMAIN n = 1..(Len(m) + Len(names))
    <3>1. Len(m) \in Nat /\ DOMAIN m = 1..Len(m) BY Zenon, <2>3, SeqFacts
    <3>2. Len(names) \in Nat /\ DOMAIN names = 1..Len(names) /\ Len(names) > 0 BY Zenon, SeqFacts
    <3>3. DOMAIN n = 1..Len(n) BY Zenon, <2>1, SeqFacts
    <3> QED BY Zenon, <2>1, <3>1, <3>2, <3>3
  <2>6. \A i \in new : /\ n[i].at = probe.clock + Step /\ n[i].cycle = probe.cycle
                       /\ n[i].name = names[i - Len(m)] /\ i - Len(m) \in DOMAIN names
    BY <2>2 DEF Marker
  <2>7. \A i \in DOMAIN names : Len(m) + i \in new /\ n[Len(m) + i].name = names[i]
    <3> SUFFICES ASSUME NEW i \in DOMAIN names
                 PROVE  Len(m) + i \in new /\ n[Len(m) + i].name = names[i]
      BY Zenon
    <3>1. Len(m) + i \in new BY <2>5
    <3>2. (Len(m) + i) - Len(m) = i BY <2>5
    <3> QED BY Zenon, <2>6, <3>1, <3>2
  <2>8. Marks(probe, probe')
    <3>1. DOMAIN m \subseteq DOMAIN n BY <2>5
    <3>2. \A i \in new : n[i].name # "begin" BY Zenon, <2>6
    <3>3. \A i \in new : n[i].name = "end" => probe'.pc \in {"delay", "result"} BY Zenon, <2>6
    <3>4. probe'.pc = "delay" => probe.cycle < Cycles /\ \E i \in new : n[i].name = "end"
      BY Zenon, <2>7
    <3> QED BY Zenon, <2>1, <2>4, <2>6, <3>1, <3>2, <3>3, <3>4 DEF Marks, m
  <2>9. Shown'
    <3>1. n # <<>> /\ Len(n) = Len(m) + Len(names) BY <2>1, <2>5
    <3>2. Len(names) \in DOMAIN names BY <2>5
    <3>3. n[Len(n)].name = names[Len(names)] BY Zenon, <2>7, <3>1, <3>2
    <3> QED BY Zenon, <2>4, <3>1, <3>3 DEF Shown
  <2> QED BY Zenon, <2>8, <2>9
\* A step that marks the beginning of a cycle, or the end of the process.
<1>OneMarked.
    ASSUME probe \in ProbeProcesses, probe' \in ProbeProcesses,
           NEW mark \in LifecycleMarkers, probe'.markers = Append(probe.markers, mark),
           mark.at = probe.clock + Step, probe'.clock = probe.clock + Step,
           \/ /\ mark.name = "begin" /\ mark.cycle = probe.cycle + 1
              /\ probe'.cycle = probe.cycle + 1 /\ probe.pc = "delay" /\ probe'.pc = "open"
           \/ /\ mark.name \notin {"begin", "end"} /\ probe'.cycle = probe.cycle
              /\ probe'.pc = "exited"
    PROVE  Marks(probe, probe') /\ Shown'
  <2> USE <1>OneMarked
  <2> DEFINE m == probe.markers
             n == Append(m, mark)
             last == Len(m) + 1
  <2>1. m \in Seq(LifecycleMarkers) BY Zenon DEF ProbeProcesses
  <2>2. /\ n \in Seq(LifecycleMarkers) /\ Len(n) = last /\ DOMAIN n = DOMAIN m \cup {last}
        /\ last \notin DOMAIN m /\ \A i \in DOMAIN m : n[i] = m[i]
        /\ n[last] = mark
    BY <2>1, AppendFacts
  <2>3. probe'.markers = n BY Zenon
  <2> HIDE DEF n, m, last
  <2>4. DOMAIN n \ DOMAIN m = {last} BY Zenon, <2>2
  <2>5. Marks(probe, probe')
    <3>1. "open" \in InCycle /\ "exited" \notin InCycle BY Zenon DEF InCycle
    <3> QED BY Zenon, <2>2, <2>3, <2>4, <3>1 DEF Marks, m
  <2>6. Shown'
    <3>1. n # <<>>
      <4>1. Len(m) \in Nat BY Zenon, <2>1, SeqFacts
      <4> QED BY <2>2, <4>1 DEF last
    <3>2. classify_uvc_phase("begin") = "startup" BY Zenon DEF classify_uvc_phase
    <3>3. probe'.pc = "open" => Doing' = "startup" BY Zenon DEF Doing
    <3>4. probe'.pc = "exited" => ~Alive' BY Zenon DEF Alive
    <3> QED BY Zenon, <2>2, <2>3, <3>1, <3>2, <3>3, <3>4 DEF Shown
  <2> QED BY Zenon, <2>5, <2>6
\* The steps of the cycle that only go on.
<1>GoesOn.
    ASSUME probe \in ProbeProcesses, probe' \in ProbeProcesses, Shown,
           NEW pc \in InCycle, NEW names \in Seq(PhaseNames), names # <<>>,
           probe.pc \in InCycle, NEW g, g = Goto(pc, names),
           probe'.pc = g.pc, probe'.markers = g.markers, probe'.clock = g.clock,
           probe'.cycle = g.cycle,
           \A i \in DOMAIN names : names[i] \notin {"begin", "end"},
           classify_uvc_phase(names[Len(names)]) =
             (CASE pc \in {"open", "start"}   -> "startup"
                [] pc \in {"first", "frames"} -> "streaming"
                [] OTHER                      -> "teardown")
    PROVE  Marks(probe, probe') /\ Shown'
  <2> USE <1>GoesOn
  <2>1. pc \in ProbePCs BY Zenon DEF InCycle, ProbePCs
  <2>2. /\ probe'.pc = pc /\ probe'.markers = Marked(names)
        /\ probe'.clock = probe.clock + Step /\ probe'.cycle = probe.cycle
    BY Zenon, <2>1, GotoFacts
  <2>3. probe'.pc \notin {"exited", "delay"} BY Zenon, <2>2 DEF InCycle
  <2>4. classify_uvc_phase(names[Len(names)]) = Doing' BY Zenon, <2>2 DEF Doing
  <2> QED BY Zenon, <2>2, <2>3, <2>4, <1>NamesMarked
<1>ThrowMarks.
    ASSUME probe \in ProbeProcesses, Shown, NEW kind, Throw(kind)
    PROVE  Marks(probe, probe') /\ Shown'
  BY Zenon, <1>ThrowMarks, ThrowFacts, <1>NothingMarked
<1>OpenMarks. ASSUME Shown, Open PROVE Marks(probe, probe') /\ Shown'
  <2> USE <1>OpenMarks
  <2> DEFINE names == <<"before_context", "after_context",
                        "before_pipeline_construction",
                        "after_pipeline_construction", "before_pipeline_start">>
             g == Goto("start", names)
             lines == IF probe.cycle = 1 THEN Append(g.lines, [kind |-> "device"])
                      ELSE g.lines
  <2>1. probe \in ProbeProcesses /\ probe.pc = "open" BY Zenon DEF ProbeTypeOK, Open
  <2>2. CASE Throw("librealsense") BY Zenon, <2>1, <2>2, <1>ThrowMarks
  <2>3. CASE probe' = [g EXCEPT !.lines = lines]
    <3>1. names \in Seq(PhaseNames) /\ names # <<>> BY DEF PhaseNames
    <3>2. \A i \in DOMAIN names : names[i] \notin {"begin", "end"} OBVIOUS
    <3>3. classify_uvc_phase(names[Len(names)]) = "startup"
      BY Zenon DEF classify_uvc_phase
    <3>4. "start" \in InCycle /\ "start" \in ProbePCs /\ probe.pc \in InCycle
      BY Zenon, <2>1 DEF InCycle, ProbePCs
    <3>5. probe' \in ProbeProcesses BY Zenon, <1>StepProcess
    <3> HIDE DEF names
    <3>6. g \in ProbeProcesses BY Zenon, <2>1, <3>1, <3>4, GotoFacts
    <3>7. g = Goto("start", names) BY Zenon
    <3> HIDE DEF g, lines
    <3>8. /\ probe'.pc = g.pc /\ probe'.markers = g.markers /\ probe'.clock = g.clock
          /\ probe'.cycle = g.cycle
      BY Zenon, <2>3, <3>6 DEF ProbeProcesses
    <3> QED BY <2>1, <3>1, <3>2, <3>3, <3>4, <3>5, <3>7, <3>8, <1>GoesOn
  <2> QED BY Zenon, <2>2, <2>3 DEF Open
<1>StartMarks. ASSUME Shown, Start PROVE Marks(probe, probe') /\ Shown'
  <2> USE <1>StartMarks
  <2> DEFINE names == <<"after_pipeline_start">>
  <2>1. probe \in ProbeProcesses /\ probe.pc = "start" BY Zenon DEF ProbeTypeOK, Start
  <2>2. CASE Throw("librealsense") BY Zenon, <2>1, <2>2, <1>ThrowMarks
  <2>3. CASE probe' = Goto("first", names)
    <3>1. names \in Seq(PhaseNames) /\ names # <<>> BY DEF PhaseNames
    <3>2. \A i \in DOMAIN names : names[i] \notin {"begin", "end"} OBVIOUS
    <3>3. classify_uvc_phase(names[Len(names)]) = "streaming"
      BY Zenon DEF classify_uvc_phase
    <3>4. "first" \in InCycle /\ probe.pc \in InCycle BY Zenon, <2>1 DEF InCycle
    <3>5. probe' \in ProbeProcesses BY Zenon, <1>StepProcess
    <3> HIDE DEF names
    <3> QED BY Zenon, <2>1, <2>3, <3>1, <3>2, <3>3, <3>4, <3>5, <1>GoesOn
  <2> QED BY Zenon, <2>2, <2>3 DEF Start
<1>LoopLeftMarks.
    ASSUME probe \in ProbeProcesses, Shown, probe.pc \in InCycle,
           probe' \in ProbeProcesses, NEW g,
           g = Goto("stop", <<"frames_complete", "before_pipeline_stop">>),
           probe' = g \/ \E all \in BOOLEAN : probe' = [g EXCEPT !.all = all]
    PROVE  Marks(probe, probe') /\ Shown'
  <2> USE <1>LoopLeftMarks
  <2> DEFINE names == <<"frames_complete", "before_pipeline_stop">>
  <2>1. names \in Seq(PhaseNames) /\ names # <<>> BY DEF PhaseNames
  <2>2. \A i \in DOMAIN names : names[i] \notin {"begin", "end"} OBVIOUS
  <2>3. classify_uvc_phase(names[Len(names)]) = "teardown" BY Zenon DEF classify_uvc_phase
  <2>4. "stop" \in InCycle /\ "stop" \in ProbePCs BY Zenon DEF InCycle, ProbePCs
  <2>5. g = Goto("stop", names) BY Zenon
  <2> HIDE DEF names
  <2>6. g \in ProbeProcesses BY <2>1, <2>4, <2>5, GotoFacts
  <2>7. /\ probe'.pc = g.pc /\ probe'.markers = g.markers /\ probe'.clock = g.clock
        /\ probe'.cycle = g.cycle
    <3>1. CASE probe' = g BY Zenon, <3>1
    <3>2. ASSUME NEW all \in BOOLEAN, probe' = [g EXCEPT !.all = all]
          PROVE /\ probe'.pc = g.pc /\ probe'.markers = g.markers /\ probe'.clock = g.clock
                /\ probe'.cycle = g.cycle
      BY Zenon, <2>6, <3>2 DEF ProbeProcesses
    <3> QED BY Zenon, <3>1, <3>2
  <2> QED BY <2>1, <2>2, <2>3, <2>4, <2>5, <2>7, <1>GoesOn
<1>FirstFrameMarks. ASSUME Shown, FirstFrame PROVE Marks(probe, probe') /\ Shown'
  <2> USE <1>FirstFrameMarks
  <2> DEFINE names == <<"first_frame">>
             g == Goto("frames", names)
  <2>1. probe \in ProbeProcesses /\ probe.pc = "first" /\ probe' \in ProbeProcesses
    BY Zenon, <1>StepProcess DEF ProbeTypeOK, FirstFrame
  <2>2. CASE Throw("librealsense") BY Zenon, <2>1, <2>2, <1>ThrowMarks
  <2>3. ASSUME NEW wait \in FirstWaits, probe' = [g EXCEPT !.first = wait]
        PROVE  Marks(probe, probe') /\ Shown'
    <3>1. names \in Seq(PhaseNames) /\ names # <<>> BY DEF PhaseNames
    <3>2. \A i \in DOMAIN names : names[i] \notin {"begin", "end"} OBVIOUS
    <3>3. classify_uvc_phase(names[Len(names)]) = "streaming" BY Zenon DEF classify_uvc_phase
    <3>4. "frames" \in InCycle /\ "frames" \in ProbePCs /\ probe.pc \in InCycle
      BY Zenon, <2>1 DEF InCycle, ProbePCs
    <3> HIDE DEF names
    <3>5. g \in ProbeProcesses /\ g = Goto("frames", names) BY Zenon, <2>1, <3>1, <3>4, GotoFacts
    <3> HIDE DEF g
    <3>6. /\ probe'.pc = g.pc /\ probe'.markers = g.markers /\ probe'.clock = g.clock
          /\ probe'.cycle = g.cycle
      BY Zenon, <2>3, <3>5 DEF ProbeProcesses
    <3> QED BY Zenon, <2>1, <3>1, <3>2, <3>3, <3>4, <3>5, <3>6, <1>GoesOn
  <2>4. CASE probe' = Goto("stop", <<"frames_complete", "before_pipeline_stop">>)
    <3>1. probe.pc \in InCycle BY Zenon, <2>1 DEF InCycle
    <3> QED BY Zenon, <2>1, <2>4, <3>1, <1>LoopLeftMarks
  <2> QED BY Zenon, <2>2, <2>3, <2>4 DEF FirstFrame
<1>FramesMarks. ASSUME Shown, Frames PROVE Marks(probe, probe') /\ Shown'
  <2> USE <1>FramesMarks
  <2> DEFINE g == Goto("stop", <<"frames_complete", "before_pipeline_stop">>)
  <2>1. /\ probe \in ProbeProcesses /\ probe.pc = "frames" /\ probe.running \in BOOLEAN
        /\ probe' \in ProbeProcesses
    BY Zenon, <1>StepProcess DEF ProbeTypeOK, Frames, ProbeProcesses
  <2>2. CASE Throw("librealsense") BY Zenon, <2>1, <2>2, <1>ThrowMarks
  <2>3. CASE \E all \in {TRUE, probe.running} : probe' = [g EXCEPT !.all = all]
    <3>1. \E all \in BOOLEAN : probe' = [g EXCEPT !.all = all] BY Zenon, <2>1, <2>3
    <3>2. probe.pc \in InCycle BY Zenon, <2>1 DEF InCycle
    <3> HIDE DEF g
    <3>3. g = Goto("stop", <<"frames_complete", "before_pipeline_stop">>) BY Zenon DEF g
    <3> QED BY Zenon, <2>1, <3>1, <3>2, <3>3, <1>LoopLeftMarks
  <2> QED BY Zenon, <2>2, <2>3 DEF Frames
<1>StopMarks. ASSUME Shown, Stop PROVE Marks(probe, probe') /\ Shown'
  <2> USE <1>StopMarks
  <2> DEFINE names == <<"after_pipeline_stop", "before_object_destruction">>
  <2>1. probe \in ProbeProcesses /\ probe.pc = "stop" BY Zenon DEF ProbeTypeOK, Stop
  <2>2. CASE Throw("librealsense") BY Zenon, <2>1, <2>2, <1>ThrowMarks
  <2>3. CASE probe' = Goto("destroy", names)
    <3>1. names \in Seq(PhaseNames) /\ names # <<>> BY DEF PhaseNames
    <3>2. \A i \in DOMAIN names : names[i] \notin {"begin", "end"} OBVIOUS
    <3>3. classify_uvc_phase(names[Len(names)]) = "teardown" BY Zenon DEF classify_uvc_phase
    <3>4. "destroy" \in InCycle /\ probe.pc \in InCycle BY Zenon, <2>1 DEF InCycle
    <3>5. probe' \in ProbeProcesses BY Zenon, <1>StepProcess
    <3> HIDE DEF names
    <3> QED BY Zenon, <2>1, <2>3, <3>1, <3>2, <3>3, <3>4, <3>5, <1>GoesOn
  <2> QED BY Zenon, <2>2, <2>3 DEF Stop
<1>DestroyMarks. ASSUME Shown, Destroy PROVE Marks(probe, probe') /\ Shown'
  <2> USE <1>DestroyMarks
  <2> DEFINE names == <<"after_object_destruction">>
  <2>1. probe \in ProbeProcesses /\ probe.pc = "destroy" /\ probe' = Goto("join", names)
    BY Zenon DEF ProbeTypeOK, Destroy
  <2>2. names \in Seq(PhaseNames) /\ names # <<>> BY DEF PhaseNames
  <2>3. \A i \in DOMAIN names : names[i] \notin {"begin", "end"} OBVIOUS
  <2>4. classify_uvc_phase(names[Len(names)]) = "teardown" BY Zenon DEF classify_uvc_phase
  <2>5. "join" \in InCycle /\ probe.pc \in InCycle BY Zenon, <2>1 DEF InCycle
  <2>6. probe' \in ProbeProcesses BY Zenon, <1>StepProcess
  <2> HIDE DEF names
  <2> QED BY Zenon, <2>1, <2>2, <2>3, <2>4, <2>5, <2>6, <1>GoesOn
<1>NoneMarked. ASSUME probe \in ProbeProcesses PROVE Marked(<<>>) = probe.markers
  <2> USE <1>NoneMarked
  <2> DEFINE names == <<>>
  <2>1. names \in Seq(PhaseNames) /\ Len(names) = 0 OBVIOUS
  <2>2. probe.markers \in Seq(LifecycleMarkers) BY Zenon DEF ProbeProcesses
  <2>3. /\ Marked(names) \in Seq(LifecycleMarkers)
        /\ Len(Marked(names)) = Len(probe.markers) + Len(names)
        /\ \A i \in DOMAIN probe.markers : Marked(names)[i] = probe.markers[i]
    BY Zenon, <2>1, MarkedFacts
  <2>4. /\ DOMAIN Marked(names) = 1..Len(Marked(names)) /\ Len(probe.markers) \in Nat
        /\ DOMAIN probe.markers = 1..Len(probe.markers)
    BY Zenon, <2>2, <2>3, SeqFacts
  <2> QED BY <2>1, <2>2, <2>3, <2>4
<1>JoinMarks. ASSUME Shown, Join PROVE Marks(probe, probe') /\ Shown'
  <2> USE <1>JoinMarks
  <2>1. probe \in ProbeProcesses /\ probe.pc = "join" /\ probe' \in ProbeProcesses
    BY Zenon, <1>StepProcess DEF ProbeTypeOK, Join
  <2>2. PICK exit \in ExitWaits :
          LET joined == exit <= LastLook(probe.settings.join)
              marker == IF joined THEN "threads_joined" ELSE "thread_join_timeout"
              line   == [kind |-> "cycle", success |-> joined /\ probe.all,
                         first |-> probe.first,
                         join |-> JoinWait(exit, probe.settings.join)]
              done   == Append(probe.lines, line)
          IN \/ /\ ~joined
                /\ probe' = [Goto("unwind", <<marker>>) EXCEPT !.lines = done, !.rc = 1]
             \/ /\ joined /\ ~probe.all
                /\ probe' = [Goto("result", <<marker>>) EXCEPT !.lines = done]
             \/ /\ joined /\ probe.all
                /\ probe' = [Goto(IF probe.cycle < Cycles THEN "delay" ELSE "result",
                                  <<marker, "end">>) EXCEPT
                               !.lines = done, !.completed = @ + 1]
    BY Zenon DEF Join
  <2> DEFINE joined == exit <= LastLook(probe.settings.join)
             marker == IF joined THEN "threads_joined" ELSE "thread_join_timeout"
             line   == [kind |-> "cycle", success |-> joined /\ probe.all,
                        first |-> probe.first,
                        join |-> JoinWait(exit, probe.settings.join)]
             done   == Append(probe.lines, line)
             next   == IF probe.cycle < Cycles THEN "delay" ELSE "result"
  <2>3. \/ probe' = [Goto("unwind", <<marker>>) EXCEPT !.lines = done, !.rc = 1]
        \/ probe' = [Goto("result", <<marker>>) EXCEPT !.lines = done]
        \/ probe' = [Goto(next, <<marker, "end">>) EXCEPT !.lines = done, !.completed = @ + 1]
    BY Zenon, <2>2
  <2>4. marker \in {"threads_joined", "thread_join_timeout"} BY Zenon
  <2>5. next = "result" \/ (next = "delay" /\ probe.cycle < Cycles) BY Zenon
  <2> HIDE DEF marker, line, done, joined, next
  <2>6. ASSUME NEW pc \in {"unwind", "result"}, NEW g, g = Goto(pc, <<marker>>),
               \/ probe' = [g EXCEPT !.lines = done, !.rc = 1]
               \/ probe' = [g EXCEPT !.lines = done]
        PROVE  Marks(probe, probe') /\ Shown'
    <3> DEFINE names == <<marker>>
    <3>1. names \in Seq(PhaseNames) /\ names # <<>> BY <2>4 DEF PhaseNames
    <3>2. \A i \in DOMAIN names : names[i] \notin {"begin", "end"} BY <2>4
    <3>3. classify_uvc_phase(names[Len(names)]) = "teardown" BY Zenon, <2>4 DEF classify_uvc_phase
    <3>4. g = Goto(pc, names) /\ pc \in ProbePCs BY Zenon, <2>6 DEF ProbePCs
    <3> HIDE DEF names
    <3>5. /\ g \in ProbeProcesses /\ g.pc = pc /\ g.markers = Marked(names)
          /\ g.clock = probe.clock + Step /\ g.cycle = probe.cycle
      BY Zenon, <2>1, <3>1, <3>4, GotoFacts
    <3>6. /\ probe'.pc = g.pc /\ probe'.markers = g.markers /\ probe'.clock = g.clock
          /\ probe'.cycle = g.cycle
      BY Zenon, <2>6, <3>5 DEF ProbeProcesses
    <3>7. probe'.pc \in {"unwind", "result"} BY Zenon, <3>5, <3>6
    <3>8. probe'.pc \notin InCycle BY Zenon, <3>7 DEF InCycle
    <3>9. probe'.pc # "unwind" => Doing' = "teardown" BY Zenon, <3>7 DEF Doing
    <3> QED BY <2>1, <3>1, <3>2, <3>3, <3>5, <3>6, <3>7, <3>8, <3>9, <1>NamesMarked
  <2>7. ASSUME NEW g, g = Goto(next, <<marker, "end">>),
               probe' = [g EXCEPT !.lines = done, !.completed = @ + 1]
        PROVE  Marks(probe, probe') /\ Shown'
    <3> DEFINE names == <<marker, "end">>
    <3>1. names \in Seq(PhaseNames) /\ names # <<>> BY <2>4 DEF PhaseNames
    <3>2. \A i \in DOMAIN names : names[i] # "begin" BY <2>4
    <3>3. classify_uvc_phase(names[Len(names)]) = "teardown"
      <4>1. names[Len(names)] = "end" BY Zenon
      <4> QED BY Zenon, <4>1 DEF classify_uvc_phase
    <3>4. g = Goto(next, names) /\ next \in ProbePCs BY Zenon, <2>5, <2>7 DEF ProbePCs
    <3>5. \E i \in DOMAIN names : names[i] = "end"
      <4>1. 2 \in DOMAIN names /\ names[2] = "end" OBVIOUS
      <4> QED BY Zenon, <4>1
    <3> HIDE DEF names
    <3>6. /\ g \in ProbeProcesses /\ g.pc = next /\ g.markers = Marked(names)
          /\ g.clock = probe.clock + Step /\ g.cycle = probe.cycle
      BY Zenon, <2>1, <3>1, <3>4, GotoFacts
    <3>7. /\ probe'.pc = g.pc /\ probe'.markers = g.markers /\ probe'.clock = g.clock
          /\ probe'.cycle = g.cycle
      BY Zenon, <2>7, <3>6 DEF ProbeProcesses
    <3>8. probe'.pc \in {"delay", "result"} /\ (probe'.pc = "delay" => probe.cycle < Cycles)
      BY Zenon, <2>5, <3>6, <3>7
    <3>9. probe'.pc \notin InCycle BY Zenon, <3>8 DEF InCycle
    <3>10. Doing' = "teardown" BY Zenon, <3>8 DEF Doing
    <3> QED BY <2>1, <3>1, <3>2, <3>3, <3>5, <3>6, <3>7, <3>8, <3>9, <3>10, <1>NamesMarked
  <2> QED BY Zenon, <2>3, <2>6, <2>7
<1>NextCycleMarks. ASSUME Shown, NextCycle PROVE Marks(probe, probe') /\ Shown'
  <2> USE <1>NextCycleMarks
  <2>1. probe \in ProbeProcesses /\ probe.pc = "delay" /\ probe' \in ProbeProcesses
    BY Zenon, <1>StepProcess DEF ProbeTypeOK, NextCycle
  <2>2. CASE probe' = Goto("result", <<>>)
    <3> DEFINE names == <<>>
    <3>1. names \in Seq(PhaseNames) /\ "result" \in ProbePCs BY DEF ProbePCs
    <3>2. Marked(names) = probe.markers BY Zenon, <2>1, <1>NoneMarked
    <3>3. probe' = Goto("result", names) BY Zenon, <2>2
    <3> HIDE DEF names
    <3>4. /\ probe'.pc = "result" /\ probe'.markers = probe.markers
          /\ probe'.clock = probe.clock + Step /\ probe'.cycle = probe.cycle
      BY Zenon, <2>1, <3>1, <3>2, <3>3, GotoFacts
    <3> QED BY Zenon, <2>1, <3>4, <1>NothingMarked
  <2>3. CASE probe' = [probe EXCEPT
                         !.pc = "open", !.cycle = @ + 1, !.first = 0,
                         !.all = FALSE, !.clock = @ + Step,
                         !.markers = Append(@, Marker(probe.cycle + 1, "begin",
                                                      probe.clock + Step))]
    <3> DEFINE m == Marker(probe.cycle + 1, "begin", probe.clock + Step)
    <3>1. /\ probe.cycle + 1 \in Nat /\ probe.clock + Step \in Nat
          /\ probe.markers \in Seq(LifecycleMarkers)
      <4>1. probe \in ProbeProcesses BY Zenon, <2>1
      <4> QED BY <4>1 DEF ProbeProcesses, Step
    <3>2. /\ m \in LifecycleMarkers /\ m.name = "begin" /\ m.at = probe.clock + Step
          /\ m.cycle = probe.cycle + 1
      BY Zenon, <3>1 DEF Marker, LifecycleMarkers, PhaseNames
    <3> HIDE DEF m
    <3>3. /\ probe'.pc = "open" /\ probe'.cycle = probe.cycle + 1
          /\ probe'.clock = probe.clock + Step
          /\ probe'.markers = Append(probe.markers, m)
      BY Zenon, <2>1, <2>3 DEF ProbeProcesses, m
    <3> QED BY Zenon, <2>1, <3>2, <3>3, <1>OneMarked
  <2> QED BY Zenon, <2>2, <2>3 DEF NextCycle
<1>LastMarks.
    ASSUME probe \in ProbeProcesses, probe' \in ProbeProcesses,
           NEW name \in {"process_exit", "process_error"}, NEW lines, NEW rc, NEW g,
           g = Goto("exited", <<>>),
           \/ probe' = [g EXCEPT !.markers = Append(@, Marker(0, name, probe.clock + Step)),
                                 !.lines = lines, !.rc = rc]
           \/ probe' = [g EXCEPT !.markers = Append(@, Marker(0, name, probe.clock + Step)),
                                 !.lines = lines]
    PROVE  Marks(probe, probe') /\ Shown'
  <2> USE <1>LastMarks
  <2> DEFINE names == <<>>
             m == Marker(0, name, probe.clock + Step)
  <2>1. names \in Seq(PhaseNames) /\ "exited" \in ProbePCs BY DEF ProbePCs
  <2>2. Marked(names) = probe.markers BY Zenon, <1>NoneMarked
  <2>3. g = Goto("exited", names) BY Zenon
  <2>4. probe.clock + Step \in Nat BY DEF ProbeProcesses, Step
  <2>5. m \in LifecycleMarkers /\ m.name = name /\ m.at = probe.clock + Step
    BY Zenon, <2>4 DEF Marker, LifecycleMarkers, PhaseNames
  <2> HIDE DEF names
  <2>6. /\ g \in ProbeProcesses /\ g.pc = "exited" /\ g.markers = probe.markers
        /\ g.clock = probe.clock + Step /\ g.cycle = probe.cycle
    BY <2>1, <2>2, <2>3, GotoFacts
  <2>7. \/ probe' = [g EXCEPT !.markers = Append(@, m), !.lines = lines, !.rc = rc]
        \/ probe' = [g EXCEPT !.markers = Append(@, m), !.lines = lines]
    BY Zenon
  <2> HIDE DEF m
  <2>8. /\ probe'.pc = "exited" /\ probe'.cycle = probe.cycle
        /\ probe'.clock = probe.clock + Step
        /\ probe'.markers = Append(probe.markers, m)
    <3>1. CASE probe' = [g EXCEPT !.markers = Append(@, m), !.lines = lines, !.rc = rc]
      <4>1. /\ probe'.pc = g.pc /\ probe'.cycle = g.cycle /\ probe'.clock = g.clock
            /\ probe'.markers = Append(g.markers, m)
        BY Zenon, <2>6, <3>1 DEF ProbeProcesses
      <4> QED BY Zenon, <2>6, <4>1
    <3>2. CASE probe' = [g EXCEPT !.markers = Append(@, m), !.lines = lines]
      <4>1. /\ probe'.pc = g.pc /\ probe'.cycle = g.cycle /\ probe'.clock = g.clock
            /\ probe'.markers = Append(g.markers, m)
        BY Zenon, <2>6, <3>2 DEF ProbeProcesses
      <4> QED BY Zenon, <2>6, <4>1
    <3> QED BY Zenon, <2>7, <3>1, <3>2
  <2> QED BY Zenon, <2>5, <2>8, <1>OneMarked
<1>ResultMarks. ASSUME Shown, Result PROVE Marks(probe, probe') /\ Shown'
  <2> USE <1>ResultMarks
  <2> DEFINE names == <<>>
             g == Goto("exited", names)
             lines == Append(g.lines, [kind |-> "result", success |-> probe.completed = Cycles,
                                       completed |-> probe.completed])
             rc == IF probe.completed = Cycles THEN 0 ELSE 3
  <2>1. probe \in ProbeProcesses /\ probe' \in ProbeProcesses BY Zenon, <1>StepProcess DEF ProbeTypeOK
  <2>2. names \in Seq(PhaseNames) /\ "exited" \in ProbePCs BY DEF ProbePCs
  <2>3. g \in ProbeProcesses
    <3> HIDE DEF names
    <3> QED BY Zenon, <2>1, <2>2, GotoFacts
  <2>4. probe' = [g EXCEPT !.markers = Append(@, Marker(0, "process_exit", probe.clock + Step)),
                           !.lines = Append(@, [kind |-> "result",
                                                success |-> probe.completed = Cycles,
                                                completed |-> probe.completed]),
                           !.rc = rc]
    BY Zenon DEF Result
  <2>5. probe' = [g EXCEPT !.markers = Append(@, Marker(0, "process_exit", probe.clock + Step)),
                           !.lines = lines, !.rc = rc]
    <3> HIDE DEF g, rc
    <3> QED BY Zenon, <2>3, <2>4 DEF ProbeProcesses
  <2>6. g = Goto("exited", <<>>) BY Zenon
  <2> HIDE DEF g, lines, rc
  <2> QED BY Zenon, <2>1, <2>5, <2>6, <1>LastMarks
<1>CatchMarks. ASSUME Shown, Catch PROVE Marks(probe, probe') /\ Shown'
  <2> USE <1>CatchMarks
  <2> DEFINE names == <<>>
             g == Goto("exited", names)
             line == [kind |-> "error",
                      error |-> IF probe.rc = 2 THEN "librealsense" ELSE "application"]
             lines == Append(g.lines, line)
  <2>1. probe \in ProbeProcesses /\ probe' \in ProbeProcesses BY Zenon, <1>StepProcess DEF ProbeTypeOK
  <2>2. names \in Seq(PhaseNames) /\ "exited" \in ProbePCs BY DEF ProbePCs
  <2>3. g \in ProbeProcesses
    <3> HIDE DEF names
    <3> QED BY Zenon, <2>1, <2>2, GotoFacts
  <2>4. probe' = [g EXCEPT !.markers = Append(@, Marker(0, "process_error", probe.clock + Step)),
                           !.lines = Append(@, line)]
    BY Zenon DEF Catch
  <2>5. probe' = [g EXCEPT !.markers = Append(@, Marker(0, "process_error", probe.clock + Step)),
                           !.lines = lines]
    <3> HIDE DEF g, line
    <3> QED BY Zenon, <2>3, <2>4 DEF ProbeProcesses
  <2>6. g = Goto("exited", <<>>) BY Zenon
  <2> HIDE DEF g, lines
  <2> QED BY Zenon, <2>1, <2>5, <2>6, <1>LastMarks
<1>CrashMarks. ASSUME Shown, Crash PROVE Marks(probe, probe') /\ Shown'
  <2> USE <1>CrashMarks
  <2>1. probe \in ProbeProcesses /\ probe' \in ProbeProcesses BY Zenon, <1>StepProcess DEF ProbeTypeOK
  <2>2. /\ probe'.pc = "crashed" /\ probe'.markers = probe.markers
        /\ probe'.clock = probe.clock /\ probe'.cycle = probe.cycle
    BY Zenon, <2>1 DEF Crash, ProbeProcesses
  <2> QED BY Zenon, <2>1, <2>2, <1>NothingMarked
<1>SignalMarks. ASSUME Shown, Signal PROVE Marks(probe, probe') /\ Shown'
  <2> USE <1>SignalMarks
  <2>1. probe \in ProbeProcesses /\ probe' \in ProbeProcesses /\ Alive
    BY Zenon, <1>StepProcess DEF ProbeTypeOK, Signal
  <2>2. /\ probe'.pc = probe.pc /\ probe'.markers = probe.markers
        /\ probe'.clock = probe.clock /\ probe'.cycle = probe.cycle
    BY Zenon, <2>1 DEF Signal, ProbeProcesses
  <2> QED BY Zenon, <2>1, <2>2, <1>NothingMarked
\* A line of the kernel log is written while the last marker is the one that
\* shows what the probe is doing.
<1>NewLine.
    ASSUME Alive, MarksInv(probe), Shown, NEW late \in {0, 2},
           NEW line,
           line = [at |-> probe.clock + late,
                   stamp |-> ((probe.clock + late) \div KernelTick) * KernelTick,
                   doing |-> Doing, cycle |-> probe.cycle, pc |-> probe.pc]
    PROVE  line \in KernelLines /\ LineInv(probe, line)
  <2> USE <1>NewLine
  <2> DEFINE m == probe.markers
  <2>1. /\ probe.clock \in Nat /\ probe.cycle \in Nat /\ probe.pc \in ProbePCs
        /\ m \in Seq(LifecycleMarkers)
    BY Zenon DEF ProbeTypeOK, ProbeProcesses
  <2>2. /\ line.at = probe.clock + late /\ line.cycle = probe.cycle /\ line.pc = probe.pc
        /\ line.doing = Doing
        /\ line.stamp = ((probe.clock + late) \div KernelTick) * KernelTick
    BY Zenon
  <2>3. line \in KernelLines
    <3>1. probe.clock + late \in Nat BY <2>1
    <3>2. ((probe.clock + late) \div KernelTick) * KernelTick \in Nat
      BY <3>1 DEF KernelTick
    <3>3. Doing \in {"startup", "streaming", "teardown"} BY Zenon DEF Doing
    <3> QED BY Zenon, <2>1, <3>1, <3>2, <3>3 DEF KernelLines
  <2>4. line.stamp <= line.at /\ line.at \in Nat /\ line.at <= probe.clock + 2
    <3>1. \A t \in Nat : (t \div 2) * 2 <= t OBVIOUS
    <3>2. probe.clock + late \in Nat BY <2>1
    <3>3. line.stamp <= line.at BY Zenon, <2>2, <3>1, <3>2 DEF KernelTick
    <3>4. probe.clock + late <= probe.clock + 2 BY <2>1
    <3> QED BY Zenon, <2>2, <3>2, <3>3, <3>4
  <2>5. \A i \in DOMAIN m : m[i].at \in Nat /\ m[i].at <= line.at
    <3>1. \A i \in DOMAIN m : m[i] \in LifecycleMarkers
      <4> HIDE DEF m
      <4> QED BY Zenon, <2>1, SeqFacts
    <3>2. \A i \in DOMAIN m : m[i].at \in Nat BY Zenon, <3>1 DEF LifecycleMarkers
    <3>3. \A i \in DOMAIN m : m[i].at <= probe.clock BY Zenon DEF MarksInv
    <3>4. probe.clock <= line.at BY <2>1, <2>2
    <3> QED BY <2>1, <2>4, <3>2, <3>3, <3>4
  <2>6. line.pc # "unwind" =>
          \E k \in DOMAIN m : /\ m[k].at <= line.at
                              /\ classify_uvc_phase(m[k].name) = line.doing
                              /\ \A j \in DOMAIN m : j > k => m[j].at > line.at
    <3> SUFFICES ASSUME probe.pc # "unwind"
                 PROVE  \E k \in DOMAIN m :
                          /\ m[k].at <= line.at
                          /\ classify_uvc_phase(m[k].name) = line.doing
                          /\ \A j \in DOMAIN m : j > k => m[j].at > line.at
      BY Zenon, <2>2
    <3>1. m # <<>> /\ classify_uvc_phase(m[Len(m)].name) = Doing BY Zenon DEF Shown
    <3>2. Len(m) \in DOMAIN m /\ \A j \in DOMAIN m : ~(j > Len(m))
      <4> HIDE DEF m
      <4> QED BY <2>1, <3>1, SeqFacts
    <3> QED BY Zenon, <2>2, <2>5, <3>1, <3>2
  <2>7. line.pc \in InCycle =>
          /\ line.cycle \in 1..probe.cycle
          /\ \A j \in CycleMarks(m, line.cycle, "begin") : m[j].at <= line.at
          /\ \A j \in CycleMarks(m, line.cycle, "end") : m[j].at > line.at
    <3>1. probe.cycle \in 1..probe.cycle
      <4>1. probe.cycle \in 1..Cycles BY Zenon DEF MarksInv
      <4> QED BY <2>1, <4>1, ProbeAssumptions
    <3>2. probe.pc \in InCycle => CycleMarks(m, probe.cycle, "end") = {} BY Zenon DEF MarksInv
    <3>3. \A j \in CycleMarks(m, line.cycle, "begin") : m[j].at <= line.at
      BY Zenon, <2>5 DEF CycleMarks
    <3> QED BY Zenon, <2>2, <3>1, <3>2, <3>3
  <2>8. line.pc \notin {"off", "exited", "crashed", "killed"} /\ probe.pc # "exited"
    BY Zenon, <2>2 DEF Alive
  <2> QED BY <2>3, <2>4, <2>6, <2>7, <2>8 DEF LineInv
<1>1. /\ probe \in ProbeProcesses /\ uvc \in Seq(KernelLines)
      /\ ProbeTypeOK' /\ probe.pc \notin {"off", "exited", "crashed", "killed"}
  BY Zenon, ProbeStepKeeps DEF ProbeTypeOK
<1>2. /\ MarksInv(probe) /\ Shown /\ \A i \in DOMAIN uvc : LineInv(probe, uvc[i])
      /\ \A i \in DOMAIN uvc : uvc[i] \in KernelLines
  BY Zenon, <1>1, SeqFacts DEF Traced
<1>3. CASE UvcError
  <2>1. probe' = probe BY Zenon, <1>3 DEF UvcError
  <2>2. PICK late \in {0, 2} :
          LET at == probe.clock + late IN
          uvc' = Append(uvc, [at |-> at, stamp |-> (at \div KernelTick) * KernelTick,
                              doing |-> Doing, cycle |-> probe.cycle,
                              pc |-> probe.pc])
    BY Zenon, <1>3 DEF UvcError
  <2> DEFINE line == [at |-> probe.clock + late,
                      stamp |-> ((probe.clock + late) \div KernelTick) * KernelTick,
                      doing |-> Doing, cycle |-> probe.cycle, pc |-> probe.pc]
  <2>3. uvc' = Append(uvc, line) BY Zenon, <2>2
  <2>4. Alive BY Zenon, <1>1 DEF Alive
  <2>5. line \in KernelLines /\ LineInv(probe, line) BY Zenon, <1>2, <2>4, <1>NewLine
  <2> HIDE DEF line
  <2>6. /\ DOMAIN uvc' = DOMAIN uvc \cup {Len(uvc) + 1} /\ uvc'[Len(uvc) + 1] = line
        /\ \A i \in DOMAIN uvc : uvc'[i] = uvc[i]
    BY <1>1, <2>3, <2>5, AppendFacts
  <2>7. \A i \in DOMAIN uvc' : LineInv(probe, uvc'[i]) BY Zenon, <1>2, <2>5, <2>6
  <2>8. Shown' BY <1>2, <2>1 DEF Shown, Alive, Doing
  <2> QED BY Zenon, <1>2, <2>1, <2>7, <2>8 DEF Traced
<1>4. CASE ~UvcError
  <2>1. Marks(probe, probe') /\ Shown'
    BY <1>2, <1>4, <1>OpenMarks, <1>StartMarks, <1>FirstFrameMarks, <1>FramesMarks, <1>SignalMarks,
       <1>StopMarks, <1>DestroyMarks, <1>JoinMarks, <1>NextCycleMarks, <1>ResultMarks, <1>CatchMarks,
       <1>CrashMarks DEF ProbeStep
  <2>2. uvc' = uvc
    BY Zenon, <1>4 DEF ProbeStep, Open, Start, FirstFrame, Frames, Signal, Stop, Destroy, Join,
                NextCycle, Result, Catch, Crash
  <2>3. probe' \in ProbeProcesses BY Zenon, <1>1 DEF ProbeTypeOK
  <2>4. MarksInv(probe') BY <1>1, <1>2, <2>1, <2>3, MarksKeepMarks
  <2>5. \A i \in DOMAIN uvc : LineInv(probe', uvc[i])
    BY Zenon, <1>1, <1>2, <2>1, <2>3, MarksKeepLines
  <2> QED BY Zenon, <2>1, <2>2, <2>4, <2>5 DEF Traced
<1> QED BY Zenon, <1>3, <1>4

LEMMA SameTraced == ASSUME Traced, probe' = probe, uvc' = uvc PROVE Traced'
BY Zenon DEF Traced, Shown, Alive, Doing

==============================================================================
