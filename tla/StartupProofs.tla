--------------------------- MODULE StartupProofs -----------------------------
(***************************************************************************)
(* What the startup campaign records is what happened, and a validated     *)
(* recommendation is safe, for every number of cycles, candidates, trials, *)
(* attempts and runs, and any waits of the camera.                         *)
(***************************************************************************)
EXTENDS Startup, StartupCampaignProofs

-----------------------------------------------------------------------------
(* The calibration: what its operators return.                             *)

\* Finitely many times have a bound, by induction on their number.
LEMMA Bounded ==
    ASSUME NEW R, IsFiniteSet(R), NEW f \in [R -> Nat]
    PROVE  \E N \in Nat : \A r \in R : f[r] <= N
<1> DEFINE Unbounded(S) == ~\E N \in Nat : \A r \in S : f[r] <= N
           Bad == {n \in Nat : \E S \in SUBSET R : Cardinality(S) = n /\ Unbounded(S)}
<1>1. Cardinality(R) \in Nat BY Zenon, FS_CardinalityType
<1> SUFFICES ASSUME Bad # {} PROVE FALSE
  <2>1. R \in SUBSET R BY Zenon
  <2> QED BY Zenon, <1>1, <2>1
<1>2. PICK n \in Bad : \A m \in Bad : n <= m
  <2>1. Bad \subseteq Nat BY Zenon
  <2> HIDE DEF Bad
  <2> QED BY Zenon, <2>1, LeastNumber
<1>3. PICK S \in SUBSET R : Cardinality(S) = n /\ Unbounded(S) BY Zenon
<1>4. PICK x \in S : TRUE
  <2>1. S # {} BY Zenon, <1>3
  <2> QED BY Zenon, <2>1
<1> DEFINE T == S \ {x}
<1>5. IsFiniteSet(S) BY Zenon, FS_Subset
<1>6. Cardinality(T) = n - 1 /\ n \in Nat /\ Cardinality(T) \in Nat
  <2>1. IsFiniteSet(T) /\ Cardinality(T) = Cardinality(S) - 1 BY Zenon, <1>5, FS_RemoveElement
  <2>2. Cardinality(T) \in Nat BY Zenon, <2>1, FS_CardinalityType
  <2> QED BY Zenon, <1>3, <2>1, <2>2
<1>7. PICK N \in Nat : \A r \in T : f[r] <= N
  <2>1. Cardinality(T) \notin Bad
    <3> HIDE DEF Bad, T
    <3>1. ~(n <= Cardinality(T)) BY <1>6
    <3> QED BY Zenon, <1>2, <3>1
  <2> QED BY Zenon, <1>6, <2>1
<1>8. f[x] \in Nat /\ \A r \in S : f[r] \in Nat BY Zenon
<1>9. N + f[x] \in Nat /\ \A r \in S : f[r] <= N + f[x]
  <2>1. N + f[x] \in Nat BY <1>8
  <2>2. ASSUME NEW r \in S PROVE f[r] <= N + f[x]
    <3>1. r = x \/ f[r] <= N BY Zenon, <1>7
    <3> QED BY <1>8, <3>1
  <2> QED BY Zenon, <2>1, <2>2
<1> QED BY Zenon, <1>3, <1>9

LEMMA GreatestFacts ==
    ASSUME NEW T, T \subseteq Nat, NEW N \in Nat, \A m \in T : m <= N
    PROVE  /\ Greatest(T) \in Nat /\ Greatest(T) \in {0} \cup T
           /\ \A m \in T : m <= Greatest(T)
<1>1. {0} \cup T \subseteq Nat /\ {0} \cup T # {} /\ \A m \in {0} \cup T : m <= N
  OBVIOUS
<1>2. Max({0} \cup T) \in {0} \cup T /\ \A m \in {0} \cup T : m <= Max({0} \cup T)
  BY Zenon, <1>1, GreatestIsMax
<1> QED BY Zenon, <1>1, <1>2 DEF Greatest

\* The rounding up of the model.
LEMMA CeilFacts ==
    ASSUME NEW n \in Nat
    PROVE  /\ Ceil(n, 2) \in Nat /\ 2 * Ceil(n, 2) >= n
           /\ Ceil(n, poll) * poll >= n
           /\ Ceil(n, 100) * 100 \in Nat /\ Ceil(n, 100) * 100 >= n
<1>1. Ceil(n, 2) \in Nat /\ 2 * Ceil(n, 2) >= n BY DEF Ceil
<1>2. Ceil(n, poll) * poll >= n BY DEF Ceil, poll
<1>3. Ceil(n, 100) * 100 \in Nat /\ Ceil(n, 100) * 100 >= n BY DEF Ceil
<1> QED BY Zenon, <1>1, <1>2, <1>3

LEMMA CandidateTypes ==
    ASSUME NEW st \in Tuned
    PROVE  /\ Candidates[st] \in Seq(Nat) /\ Range(Candidates[st]) \subseteq Nat
           /\ Range(Candidates[st]) # {}
<1>1. Candidates[st] \in Seq(Nat) /\ Candidates[st] # <<>> BY Zenon, CalibrationAssumptions
<1>2. /\ Len(Candidates[st]) \in Nat /\ DOMAIN Candidates[st] = 1..Len(Candidates[st])
      /\ \A i \in DOMAIN Candidates[st] : Candidates[st][i] \in Nat
      /\ Len(Candidates[st]) > 0
  BY Zenon, <1>1, SeqFacts
<1>3. 1 \in DOMAIN Candidates[st] BY <1>2
<1> QED BY Zenon, <1>1, <1>2, <1>3 DEF Range

\* The settings in force.
LEMMA SafeFacts == ASSUME NEW st \in Tuned PROVE safe(st) \in Nat
<1> DEFINE R == Range(Candidates[st])
           most == Max(R)
<1>1. R \subseteq Nat /\ R # {} /\ Candidates[st] \in Seq(Nat) BY Zenon, CandidateTypes
<1>2. PICK N \in Nat : \A c \in R : c <= N
  <2> DEFINE s == Candidates[st]
             D == DOMAIN s
  <2>1. IsFiniteSet(D) BY Zenon, <1>1, PlacesFinite
  <2>2. s \in [D -> Nat] BY <1>1
  <2>3. PICK N \in Nat : \A i \in D : s[i] <= N
    <3> HIDE DEF D, s
    <3> QED BY Zenon, <2>1, <2>2, Bounded
  <2> QED BY Zenon, <2>3 DEF Range
<1>3. most \in Nat
  <2> HIDE DEF R
  <2>1. Max(R) \in R BY Zenon, <1>1, <1>2, GreatestIsMax
  <2> QED BY Zenon, <1>1, <2>1
<1> HIDE DEF most
<1>4. Max({3000, most}) \in Nat /\ Max({100, most}) \in Nat
  <2>1. {3000, most} \subseteq Nat /\ {3000, most} # {}
          /\ \A m \in {3000, most} : m <= 3000 + most
    BY <1>3
  <2>2. {100, most} \subseteq Nat /\ {100, most} # {}
          /\ \A m \in {100, most} : m <= 100 + most
    BY <1>3
  <2>3. 3000 + most \in Nat /\ 100 + most \in Nat BY <1>3
  <2>4. Max({3000, most}) \in {3000, most} BY <2>1, <2>3, GreatestIsMax
  <2>5. Max({100, most}) \in {100, most} BY <2>2, <2>3, GreatestIsMax
  <2> QED BY <2>1, <2>2, <2>4, <2>5
<1>5. safe(st) \in {most, Max({3000, most}), Max({100, most})} BY DEF safe, most
<1> QED BY <1>3, <1>4, <1>5

LEMMA EffectiveFacts ==
    ASSUME NEW st \in Tuned, NEW choice \in Selections
    PROVE  /\ effective(st, choice) \in Nat
           /\ choice[st] # None => effective(st, choice) = choice[st]
<1>1. choice[st] \in Nat \cup {None} BY Zenon DEF Selections
<1> QED BY Zenon, <1>1, SafeFacts DEF effective

\* The candidate in hand, and the settings it is tried with.
LEMMA CandidateFacts ==
    ASSUME CalibrationTypeOK, InTrial
    PROVE  /\ CandidatesOf(stage) \in Seq(Nat) /\ TrialsOf(stage) \in Nat \ {0}
           /\ stage # "validation" => stage \in Tuned
           /\ Len(CandidatesOf(stage)) \in Nat
           /\ DOMAIN CandidatesOf(stage) = 1..Len(CandidatesOf(stage))
           /\ ~StageOver =>
                place.candidate \in 1..Len(CandidatesOf(stage)) /\ candidate \in Nat
<1>1. stage \in {"settle", "frame", "join", "delay", "validation"}
  BY DEF InTrial, Stages, Range
<1>2. stage # "validation" => stage \in Tuned BY Zenon, <1>1 DEF Tuned
<1>3. CandidatesOf(stage) \in Seq(Nat) BY <1>2, CandidateTypes DEF CandidatesOf
<1>4. TrialsOf(stage) \in Nat \ {0} BY Zenon, CalibrationAssumptions DEF TrialsOf
<1>5. /\ Len(CandidatesOf(stage)) \in Nat
      /\ DOMAIN CandidatesOf(stage) = 1..Len(CandidatesOf(stage))
      /\ \A i \in DOMAIN CandidatesOf(stage) : CandidatesOf(stage)[i] \in Nat
  BY Zenon, <1>3, SeqFacts
<1>6. place.candidate \in Nat \ {0} BY Zenon DEF CalibrationTypeOK
<1>7. ~StageOver => place.candidate \in 1..Len(CandidatesOf(stage))
  BY <1>5, <1>6 DEF StageOver
<1> QED BY Zenon, <1>2, <1>3, <1>4, <1>5, <1>7 DEF candidate

LEMMA CurrentFacts ==
    ASSUME CalibrationTypeOK, CalibrationInv, InTrial, ~StageOver
    PROVE  current(stage, candidate) \in Settings
<1>1. stage \in {"settle", "frame", "join", "delay", "validation"}
  BY DEF InTrial, Stages, Range
<1>2. candidate \in Nat BY Zenon, CandidateFacts
<1>3. /\ safe("frame") \in Nat /\ safe("join") \in Nat /\ safe("delay") \in Nat
      /\ effective("frame", selected) \in Nat /\ effective("join", selected) \in Nat
      /\ effective("delay", selected) \in Nat
  BY Zenon, SafeFacts, EffectiveFacts DEF Tuned, CalibrationTypeOK
<1>4. settings(stage) \in Settings
  <2>1. CASE stage = "validation"
    <3>1. /\ applied.frame = effective("frame", selected)
          /\ applied.join = effective("join", selected)
          /\ applied.delay = effective("delay", selected)
      BY Zenon, <2>1 DEF CalibrationInv, Tuned
    <3>2. settings(stage) = [frame |-> applied.frame, join |-> applied.join,
                             delay |-> applied.delay]
      BY Zenon, <2>1 DEF settings
    <3> QED BY <1>3, <3>1, <3>2 DEF Settings
  <2>2. CASE stage \in {"settle", "frame"} BY Zenon, <1>3, <2>2 DEF settings, Settings
  <2>3. CASE stage = "join" BY Zenon, <1>3, <2>3 DEF settings, Settings
  <2>4. CASE stage = "delay" BY Zenon, <1>3, <2>4 DEF settings, Settings
  <2> QED BY Zenon, <1>1, <2>1, <2>2, <2>3, <2>4
<1>5. CASE stage \in {"frame", "join", "delay"}
  <2>1. current(stage, candidate) = [settings(stage) EXCEPT ![stage] = candidate]
    BY Zenon, <1>5 DEF current
  <2> DEFINE s == settings(stage)
  <2> HIDE DEF s
  <2>2. s \in Settings BY Zenon, <1>4 DEF s
  <2>3. CASE stage = "frame"
    <3>1. [s EXCEPT !["frame"] = candidate] \in Settings BY Zenon, <1>2, <2>2 DEF Settings
    <3> QED BY Zenon, <2>1, <2>3, <3>1 DEF s
  <2>4. CASE stage = "join"
    <3>1. [s EXCEPT !["join"] = candidate] \in Settings BY Zenon, <1>2, <2>2 DEF Settings
    <3> QED BY Zenon, <2>1, <2>4, <3>1 DEF s
  <2>5. CASE stage = "delay"
    <3>1. [s EXCEPT !["delay"] = candidate] \in Settings BY Zenon, <1>2, <2>2 DEF Settings
    <3> QED BY Zenon, <2>1, <2>5, <3>1 DEF s
  <2> QED BY Zenon, <1>5, <2>3, <2>4, <2>5
<1>6. CASE stage \notin {"frame", "join", "delay"} BY Zenon, <1>4, <1>6 DEF current
<1> QED BY Zenon, <1>5, <1>6

-----------------------------------------------------------------------------
(* The calibration: its steps.                                             *)

Outcomes == [success : BOOLEAN, completed : Nat, first : Nat, join : Nat]

\* What a step of the calibration has to keep, and keeps.
CalibrationKept ==
    ProbeTypeOK /\ ProbeReports /\ CalibrationTypeOK /\ CalibrationInv

LEMMA StageNames ==
    Range(Stages) = {"settle", "frame", "join", "delay", "validation"}
BY DEF Stages, Range

\* A step that leaves the rows and the place alone.
LEMMA SameRows ==
    ASSUME CalibrationTypeOK, CalibrationInv, settle' \in Int,
           resets' \subseteq Nat, IsFiniteSet(resets'),
           UNCHANGED <<stage, place, rows, selected, applied, advice, good, slowest>>,
           stage \in {"idle", "refused", "done"} => probe'.pc = "off",
           (InTrial /\ probe'.pc # "off") => ~StageOver /\ probe'.fresh
    PROVE  CalibrationTypeOK' /\ CalibrationInv'
<1>1. CalibrationTypeOK' BY Zenon DEF CalibrationTypeOK
<1>2. /\ InTrial' = InTrial /\ StageOver' = StageOver /\ TriedSoFar' = TriedSoFar
      /\ \A st : Explored(st)' = Explored(st)
      /\ Unvalidated' = Unvalidated
  <2>1. CandidatesOf(stage)' = CandidatesOf(stage) /\ TrialsOf(stage)' = TrialsOf(stage)
    BY Zenon DEF CandidatesOf, TrialsOf
  <2>2. InTrial' = InTrial /\ StageOver' = StageOver BY Zenon, <2>1 DEF InTrial, StageOver
  <2>3. TriedSoFar' = TriedSoFar BY <2>1 DEF TriedSoFar, Tried
  <2>4. \A st : Explored(st)' = Explored(st) BY DEF Explored, Tried
  <2>5. Unvalidated' = Unvalidated BY Zenon DEF Unvalidated
  <2> QED BY Zenon, <2>2, <2>3, <2>4, <2>5
<1>3. CalibrationInv' BY ZenonT(30), <1>2 DEF CalibrationInv
<1> QED BY Zenon, <1>1, <1>3

LEMMA CalibrationStepKeeps ==
    ASSUME CalibrationKept, RecommendationIsSafe, CalibrationNext
    PROVE  /\ CalibrationKept' /\ RecommendationIsSafe'
           /\ stage # "adopted" /\ stage' # "adopted"
<1>CeilGrows. ASSUME NEW m \in Nat, NEW n \in Nat, m <= n PROVE Ceil(m, 2) <= Ceil(n, 2)
  BY <1>CeilGrows DEF Ceil
\* The waits in the rows.
<1>FirstFacts.
    ASSUME NEW R, R \subseteq TrialRows, IsFiniteSet(R)
    PROVE  LET g == Greatest({r.first : r \in R}) IN
           g \in Nat /\ g \in {0} \cup {r.first : r \in R} /\ \A r \in R : r.first <= g
  <2> USE <1>FirstFacts
  <2> DEFINE f == [r \in R |-> r.first]
             T == {r.first : r \in R}
  <2>1. \A r \in R : r.first \in Nat BY Zenon DEF TrialRows
  <2>2. f \in [R -> Nat] BY Zenon, <2>1
  <2>3. PICK N \in Nat : \A r \in R : f[r] <= N
    <3> HIDE DEF f
    <3> QED BY Zenon, <2>2, Bounded
  <2>4. T \subseteq Nat /\ \A m \in T : m <= N BY Zenon, <2>1, <2>3
  <2>5. \A r \in R : r.first \in T BY Zenon
  <2>6. Greatest(T) \in Nat /\ Greatest(T) \in {0} \cup T /\ \A m \in T : m <= Greatest(T)
    <3> HIDE DEF T
    <3> QED BY Zenon, <2>4, GreatestFacts
  <2> QED BY Zenon, <2>5, <2>6
<1>JoinFacts.
    ASSUME NEW R, R \subseteq TrialRows, IsFiniteSet(R)
    PROVE  LET g == Greatest({r.join : r \in R}) IN
           g \in Nat /\ g \in {0} \cup {r.join : r \in R} /\ \A r \in R : r.join <= g
  <2> USE <1>JoinFacts
  <2> DEFINE f == [r \in R |-> r.join]
             T == {r.join : r \in R}
  <2>1. \A r \in R : r.join \in Nat BY Zenon DEF TrialRows
  <2>2. f \in [R -> Nat] BY Zenon, <2>1
  <2>3. PICK N \in Nat : \A r \in R : f[r] <= N
    <3> HIDE DEF f
    <3> QED BY Zenon, <2>2, Bounded
  <2>4. T \subseteq Nat /\ \A m \in T : m <= N BY Zenon, <2>1, <2>3
  <2>5. \A r \in R : r.join \in T BY Zenon
  <2>6. Greatest(T) \in Nat /\ Greatest(T) \in {0} \cup T /\ \A m \in T : m <= Greatest(T)
    <3> HIDE DEF T
    <3> QED BY Zenon, <2>4, GreatestFacts
  <2> QED BY Zenon, <2>5, <2>6
\* The headroom covers the rows, and more rows need no less of it.
<1>HeadroomCovers.
    ASSUME NEW R, R \subseteq TrialRows, IsFiniteSet(R), NEW c \in Nat
    PROVE  /\ c >= headroom_required("frame", R) => \A r \in R : 2 * c >= 3 * r.first
           /\ c >= headroom_required("join", R) =>
                \A r \in R : 2 * c >= 3 * r.join + 2 * poll
  <2> USE <1>HeadroomCovers
  <2>1. \A r \in R : r.first \in Nat /\ r.join \in Nat BY Zenon DEF TrialRows
  <2>2. ASSUME c >= headroom_required("frame", R), NEW r \in R PROVE 2 * c >= 3 * r.first
    <3> DEFINE g == Greatest({q.first : q \in R})
    <3>1. c >= Ceil(3 * g, 2) BY Zenon, <2>2 DEF headroom_required, Scaled
    <3>2. g \in Nat /\ r.first <= g /\ r.first \in Nat BY Zenon, <2>1, <1>FirstFacts
    <3> HIDE DEF g
    <3>3. Ceil(3 * g, 2) \in Nat /\ 2 * Ceil(3 * g, 2) >= 3 * g BY <3>2, CeilFacts
    <3> QED BY <3>1, <3>2, <3>3
  <2>3. ASSUME c >= headroom_required("join", R), NEW r \in R
        PROVE 2 * c >= 3 * r.join + 2 * poll
    <3> DEFINE g == Greatest({q.join : q \in R})
    <3>1. c >= Ceil(3 * g + 2 * poll, 2) BY Zenon, <2>3 DEF headroom_required
    <3>2. g \in Nat /\ r.join <= g /\ r.join \in Nat BY Zenon, <2>1, <1>JoinFacts
    <3> HIDE DEF g
    <3>3. 3 * g + 2 * poll \in Nat BY <3>2 DEF poll
    <3>4. /\ Ceil(3 * g + 2 * poll, 2) \in Nat
          /\ 2 * Ceil(3 * g + 2 * poll, 2) >= 3 * g + 2 * poll
      BY Zenon, <3>3, CeilFacts
    <3> QED BY <3>1, <3>2, <3>4 DEF poll
  <2> QED BY Zenon, <2>2, <2>3
<1>HeadroomGrows.
    ASSUME NEW R, R \subseteq TrialRows, IsFiniteSet(R), NEW S, S \subseteq R,
           NEW st \in {"frame", "join"}
    PROVE  /\ headroom_required(st, S) \in Nat /\ headroom_required(st, R) \in Nat
           /\ headroom_required(st, S) <= headroom_required(st, R)
  <2> USE <1>HeadroomGrows
  <2>1. S \subseteq TrialRows /\ IsFiniteSet(S) BY Zenon, FS_Subset
  <2>2. CASE st = "frame"
    <3> DEFINE g == Greatest({q.first : q \in R})
               h == Greatest({q.first : q \in S})
    <3>1. h \in Nat /\ h \in {0} \cup {q.first : q \in S} BY Zenon, <2>1, <1>FirstFacts
    <3>2. g \in Nat /\ \A q \in R : q.first <= g BY Zenon, <1>FirstFacts
    <3>3. headroom_required(st, S) = Ceil(3 * h, 2) /\ headroom_required(st, R) = Ceil(3 * g, 2)
      BY Zenon, <2>2 DEF headroom_required, Scaled
    <3> HIDE DEF g, h
    <3>4. h <= g BY <3>1, <3>2
    <3>5. 3 * h \in Nat /\ 3 * g \in Nat /\ 3 * h <= 3 * g BY <3>1, <3>2, <3>4
    <3> QED BY <3>3, <3>5, CeilFacts, <1>CeilGrows
  <2>3. CASE st = "join"
    <3> DEFINE g == Greatest({q.join : q \in R})
               h == Greatest({q.join : q \in S})
               x == 3 * h + 2 * poll
               y == 3 * g + 2 * poll
    <3>1. h \in Nat /\ h \in {0} \cup {q.join : q \in S} BY Zenon, <2>1, <1>JoinFacts
    <3>2. g \in Nat /\ \A q \in R : q.join <= g BY Zenon, <1>JoinFacts
    <3>3. headroom_required(st, S) = Ceil(x, 2) /\ headroom_required(st, R) = Ceil(y, 2)
      BY Zenon, <2>3 DEF headroom_required
    <3> HIDE DEF g, h
    <3>4. h <= g BY <3>1, <3>2
    <3>5. x \in Nat /\ y \in Nat /\ x <= y BY <3>1, <3>2, <3>4 DEF poll
    <3> HIDE DEF x, y
    <3> QED BY <3>3, <3>5, CeilFacts, <1>CeilGrows
  <2> QED BY Zenon, <2>2, <2>3
\* The candidate that is selected is one, all of whose trials succeeded, with
\* headroom.
<1>SelectedFacts.
    ASSUME NEW st \in Tuned, NEW all, NEW trials, NEW everywhere \in BOOLEAN
    PROVE  LET c == summarize_candidates(st, all, trials, everywhere) IN
           \/ c = None
           \/ /\ c \in Nat /\ c \in Range(Candidates[st])
              /\ observed_success(st, c, all, trials)
              /\ everywhere => c >= headroom_required(st, all)
  <2> USE <1>SelectedFacts
  <2> DEFINE source(c) == IF everywhere THEN all
                          ELSE {r \in all : r.stage = st /\ r.candidate = c}
             Q == {c \in Range(Candidates[st]) :
                     /\ observed_success(st, c, all, trials)
                     /\ c >= headroom_required(st, source(c))}
  <2>1. summarize_candidates(st, all, trials, everywhere) = IF Q = {} THEN None ELSE Min(Q)
    BY Zenon DEF summarize_candidates
  <2>2. Q \subseteq Nat BY Zenon, CandidateTypes
  <2>3. CASE Q # {}
    <3>1. Min(Q) \in Q
      <4> HIDE DEF Q
      <4> QED BY Zenon, <2>2, <2>3, LeastIsMin
    <3>2. summarize_candidates(st, all, trials, everywhere) = Min(Q) BY Zenon, <2>1, <2>3
    <3>3. /\ Min(Q) \in Nat /\ Min(Q) \in Range(Candidates[st])
          /\ observed_success(st, Min(Q), all, trials)
          /\ Min(Q) >= headroom_required(st, source(Min(Q)))
      BY Zenon, <2>2, <3>1
    <3>4. everywhere => source(Min(Q)) = all BY Zenon
    <3> HIDE DEF Q, source
    <3> QED BY Zenon, <3>2, <3>3, <3>4
  <2>4. CASE Q = {} BY Zenon, <2>1, <2>4
  <2> QED BY Zenon, <2>3, <2>4
\* With more rows of other stages, no smaller candidate is selected.
<1>SelectionGrows.
    ASSUME NEW R, R \subseteq TrialRows, IsFiniteSet(R), NEW S, S \subseteq R,
           NEW st \in {"frame", "join"}, \A r \in R : r.stage = st => r \in S,
           summarize_candidates(st, R, Trials, TRUE) # None
    PROVE  /\ summarize_candidates(st, S, Trials, TRUE) \in Nat
           /\ summarize_candidates(st, S, Trials, TRUE)
                <= summarize_candidates(st, R, Trials, TRUE)
  <2> USE <1>SelectionGrows
  <2> DEFINE Q(T) == {c \in Range(Candidates[st]) :
                        /\ observed_success(st, c, T, Trials)
                        /\ c >= headroom_required(st, T)}
  <2>1. st \in Tuned BY Zenon DEF Tuned
  <2>2. \A T : summarize_candidates(st, T, Trials, TRUE) =
                 IF Q(T) = {} THEN None ELSE Min(Q(T))
    BY Zenon DEF summarize_candidates
  <2>3. \A c : {r \in R : r.stage = st /\ r.candidate = c} =
               {r \in S : r.stage = st /\ r.candidate = c}
    BY Zenon
  <2>4. \A c : observed_success(st, c, R, Trials) => observed_success(st, c, S, Trials)
    BY Zenon, <2>3 DEF observed_success
  <2>5. /\ headroom_required(st, S) \in Nat /\ headroom_required(st, R) \in Nat
        /\ headroom_required(st, S) <= headroom_required(st, R)
    BY Zenon, <1>HeadroomGrows
  <2>6. Range(Candidates[st]) \subseteq Nat BY Zenon, <2>1, CandidateTypes
  <2>7. Q(R) \subseteq Q(S)
    <3> SUFFICES ASSUME NEW c \in Q(R) PROVE c \in Q(S) BY Zenon
    <3>1. /\ c \in Range(Candidates[st]) /\ c \in Nat /\ c >= headroom_required(st, R)
          /\ observed_success(st, c, S, Trials)
      BY <2>4, <2>6
    <3>2. c >= headroom_required(st, S) BY <2>5, <3>1
    <3> QED BY Zenon, <3>1, <3>2
  <2>8. Q(R) \subseteq Nat /\ Q(S) \subseteq Nat BY Zenon, <2>6
  <2>9. Q(R) # {} BY Zenon, <2>2
  <2>10. /\ summarize_candidates(st, R, Trials, TRUE) = Min(Q(R))
         /\ summarize_candidates(st, S, Trials, TRUE) = Min(Q(S))
    BY Zenon, <2>2, <2>7, <2>9
  <2> HIDE DEF Q
  <2>11. Min(Q(R)) \in Q(R) /\ Min(Q(S)) \in Q(S) /\ \A c \in Q(S) : Min(Q(S)) <= c
    <3>1. Q(S) # {} BY Zenon, <2>7, <2>9
    <3> QED BY Zenon, <2>8, <2>9, <3>1, LeastIsMin
  <2> QED BY Zenon, <2>7, <2>8, <2>10, <2>11
\* The parts of a trial's output that its row rests on.
<1>MetricFacts.
    ASSUME NEW lines \in Seq(OutputLines)
    PROVE  metric(lines, "first") \in Nat /\ metric(lines, "join") \in Nat
  <2> USE <1>MetricFacts
  <2> DEFINE D == prefixed_json(lines, "cycle")
  <2>1. D \subseteq DOMAIN lines BY Zenon DEF prefixed_json
  <2>2. IsFiniteSet(D) BY Zenon, <2>1, PlacesFinite
  <2>3. \A i \in D : lines[i].first \in Nat /\ lines[i].join \in Nat
    <3>1. \A i \in D : lines[i] \in OutputLines /\ lines[i].kind = "cycle"
      BY Zenon, SeqFacts DEF prefixed_json
    <3> QED BY Zenon, <3>1 DEF OutputLines
  <2> HIDE DEF D
  <2>4. metric(lines, "first") \in Nat
    <3> DEFINE f == [i \in D |-> lines[i].first]
               T == {lines[i].first : i \in D}
    <3>1. f \in [D -> Nat] BY Zenon, <2>3
    <3>2. PICK N \in Nat : \A i \in D : f[i] <= N
      <4> HIDE DEF f
      <4> QED BY Zenon, <2>2, <3>1, Bounded
    <3>3. T \subseteq Nat /\ \A m \in T : m <= N BY Zenon, <2>3, <3>2
    <3>4. Greatest(T) \in Nat
      <4> HIDE DEF T
      <4> QED BY Zenon, <3>3, GreatestFacts
    <3>5. metric(lines, "first") = Greatest(T) BY Zenon DEF metric, D
    <3> QED BY Zenon, <3>4, <3>5
  <2>5. metric(lines, "join") \in Nat
    <3> DEFINE f == [i \in D |-> lines[i].join]
               T == {lines[i].join : i \in D}
    <3>1. f \in [D -> Nat] BY Zenon, <2>3
    <3>2. PICK N \in Nat : \A i \in D : f[i] <= N
      <4> HIDE DEF f
      <4> QED BY Zenon, <2>2, <3>1, Bounded
    <3>3. T \subseteq Nat /\ \A m \in T : m <= N BY Zenon, <2>3, <3>2
    <3>4. Greatest(T) \in Nat
      <4> HIDE DEF T
      <4> QED BY Zenon, <3>3, GreatestFacts
    <3>5. metric(lines, "join") = Greatest(T) BY Zenon DEF metric, D
    <3> QED BY Zenon, <3>4, <3>5
  <2> QED BY Zenon, <2>4, <2>5
\* The row of a trial: it claims success only of a probe that ended well.
<1>ParsedOutcome.
    ASSUME NEW lines \in Seq(OutputLines), NEW rc
    PROVE  LET parsed == parse_probe_output(lines, rc)
               results == prefixed_json(lines, "result")
           IN /\ parsed \in Outcomes
              /\ parsed.first = metric(lines, "first")
              /\ parsed.join = metric(lines, "join")
              /\ parsed.success =>
                   /\ rc = 0 /\ results # {}
                   /\ \E i \in results : lines[i].completed = Cycles
  <2> USE <1>ParsedOutcome
  <2> DEFINE cycles == prefixed_json(lines, "cycle")
             results == prefixed_json(lines, "result")
             completed == IF results = {} THEN Cardinality(cycles)
                          ELSE Latest(lines, results).completed
             parsed == parse_probe_output(lines, rc)
  <2>1. cycles \subseteq DOMAIN lines BY Zenon DEF prefixed_json
  <2>2. Cardinality(cycles) \in Nat BY Zenon, <2>1, PlacesFinite
  <2>3. results # {} => Max(results) \in results BY Zenon, LatestFacts
  <2>4. \A i \in results : lines[i].completed \in Nat
    <3>1. \A i \in results : lines[i] \in OutputLines /\ lines[i].kind = "result"
      BY Zenon, SeqFacts DEF prefixed_json
    <3> QED BY Zenon, <3>1 DEF OutputLines
  <2> HIDE DEF cycles, results
  <2>5. completed \in Nat BY Zenon, <2>2, <2>3, <2>4 DEF Latest
  <2>6. metric(lines, "first") \in Nat /\ metric(lines, "join") \in Nat BY Zenon, <1>MetricFacts
  <2> DEFINE won == /\ rc = 0
                    /\ results # {} /\ Latest(lines, results).success
                    /\ completed = Cycles /\ Cardinality(cycles) = Cycles
                    /\ \A i \in cycles : lines[i].success
  <2>7. parsed = [success |-> won, completed |-> completed,
                  first |-> metric(lines, "first"), join |-> metric(lines, "join")]
    BY Zenon DEF parse_probe_output, cycles, results
  <2>8. won \in BOOLEAN BY Zenon
  <2>9. won => rc = 0 /\ results # {} /\ \E i \in results : lines[i].completed = Cycles
    BY Zenon, <2>3 DEF Latest
  <2> HIDE DEF won, completed, parsed
  <2>10. parsed \in Outcomes BY Zenon, <2>5, <2>6, <2>7, <2>8 DEF Outcomes
  <2>11. parsed.success = won BY Zenon, <2>7
  <2>12. parsed.first = metric(lines, "first") /\ parsed.join = metric(lines, "join")
    BY Zenon, <2>7
  <2> QED BY Zenon, <2>9, <2>10, <2>11, <2>12 DEF parsed, results
<1>NextPlace.
    ASSUME CalibrationTypeOK, InTrial, ~StageOver, place' = NextTrial
    PROVE  /\ place' \in [candidate : Nat \ {0}, trial : Nat \ {0}]
           /\ \A i \in 1..Len(CandidatesOf(stage)), t \in 1..TrialsOf(stage) :
                (i < place'.candidate \/ (i = place'.candidate /\ t < place'.trial)) =>
                  \/ i < place.candidate \/ (i = place.candidate /\ t < place.trial)
                  \/ i = place.candidate /\ t = place.trial
  <2> USE <1>NextPlace
  <2>1. place \in [candidate : Nat \ {0}, trial : Nat \ {0}] BY Zenon DEF CalibrationTypeOK
  <2>2. TrialsOf(stage) \in Nat BY Zenon, CandidateFacts
  <2>3. CASE place.trial < TrialsOf(stage)
    <3>1. place' = [place EXCEPT !.trial = @ + 1] BY Zenon, <2>3 DEF NextTrial
    <3>2. /\ place'.candidate = place.candidate /\ place'.trial = place.trial + 1
          /\ place' \in [candidate : Nat \ {0}, trial : Nat \ {0}]
      BY <2>1, <3>1
    <3> QED BY <2>1, <3>2
  <2>4. CASE ~(place.trial < TrialsOf(stage))
    <3>1. place' = [candidate |-> place.candidate + 1, trial |-> 1] BY Zenon, <2>4 DEF NextTrial
    <3>2. /\ place'.candidate = place.candidate + 1 /\ place'.trial = 1
          /\ place' \in [candidate : Nat \ {0}, trial : Nat \ {0}]
      BY <2>1, <3>1
    <3>3. place.trial \in Nat /\ place.candidate \in Nat BY Zenon, <2>1
    <3> QED BY <2>2, <2>4, <3>2, <3>3
  <2> QED BY Zenon, <2>3, <2>4
\* A trial leaves its row.
<1>RowKeeps.
    ASSUME CalibrationTypeOK, CalibrationInv, InTrial, ~StageOver,
           NEW outcome \in Outcomes, rows' = rows \cup {Row(outcome)}, place' = NextTrial,
           outcome.success => <<stage, candidate, place.trial>> \in good',
           good \subseteq good', slowest' \in [first : Nat, exit : Nat],
           slowest'.first \in {0, slowest.first, outcome.first},
           slowest'.exit \in {0, slowest.exit, outcome.join},
           settle' \in Int, resets' \subseteq Nat, IsFiniteSet(resets'),
           UNCHANGED <<stage, selected, applied, advice>>, probe'.pc = "off"
    PROVE  CalibrationTypeOK' /\ CalibrationInv'
  <2> USE <1>RowKeeps
  <2> DEFINE r0 == Row(outcome)
  <2>1. candidate \in Nat /\ place.candidate \in 1..Len(CandidatesOf(stage))
          /\ stage \in Range(Stages) /\ place.trial \in Nat
    BY Zenon, CandidateFacts DEF InTrial, CalibrationTypeOK
  <2>2. r0 \in TrialRows BY Zenon, <2>1 DEF Row, TrialRows, Outcomes
  <2>3. /\ r0.stage = stage /\ r0.candidate = candidate /\ r0.trial = place.trial
        /\ r0.success = outcome.success /\ r0.first = outcome.first /\ r0.join = outcome.join
    BY Zenon DEF Row
  <2> HIDE DEF r0
  <2>4. rows' = rows \cup {r0} BY Zenon DEF r0
  <2>5. /\ place' \in [candidate : Nat \ {0}, trial : Nat \ {0}]
        /\ \A i \in 1..Len(CandidatesOf(stage)), t \in 1..TrialsOf(stage) :
             (i < place'.candidate \/ (i = place'.candidate /\ t < place'.trial)) =>
               \/ i < place.candidate \/ (i = place.candidate /\ t < place.trial)
               \/ i = place.candidate /\ t = place.trial
    BY Zenon, <1>NextPlace
  <2>6. CalibrationTypeOK'
    <3>1. rows' \subseteq TrialRows BY Zenon, <2>2, <2>4 DEF CalibrationTypeOK
    <3>2. IsFiniteSet(rows') BY <2>4, FS_AddElement DEF CalibrationTypeOK
    <3> QED BY Zenon, <2>5, <3>1, <3>2 DEF CalibrationTypeOK
  <2>9. TriedSoFar'
    <3>1. CandidatesOf(stage)' = CandidatesOf(stage) /\ TrialsOf(stage)' = TrialsOf(stage)
      BY Zenon DEF CandidatesOf, TrialsOf
    <3> SUFFICES ASSUME NEW i \in 1..Len(CandidatesOf(stage)), NEW t \in 1..TrialsOf(stage),
                        i < place'.candidate \/ (i = place'.candidate /\ t < place'.trial)
                 PROVE  Tried(stage, CandidatesOf(stage)[i], t)'
      BY Zenon, <3>1 DEF TriedSoFar
    <3>2. CASE i < place.candidate \/ (i = place.candidate /\ t < place.trial)
      <4>1. Tried(stage, CandidatesOf(stage)[i], t) BY Zenon, <3>2 DEF CalibrationInv, TriedSoFar
      <4>2. Tried(stage, CandidatesOf(stage)[i], t)' BY Zenon, <4>1, <3>1 DEF Tried
      <4> QED BY Zenon, <4>2
    <3>3. CASE i = place.candidate /\ t = place.trial
      <4>1. CandidatesOf(stage)[i] = candidate BY Zenon, <3>3 DEF candidate
      <4> QED BY <2>3, <2>4, <3>1, <3>3, <4>1 DEF Tried
    <3> QED BY Zenon, <2>5, <3>2, <3>3
  <2>10. \A st : Explored(st) => Explored(st)'
    BY <2>4 DEF Explored, Tried
  <2>11. \A r \in rows' : r.success => <<r.stage, r.candidate, r.trial>> \in good'
    <3> SUFFICES ASSUME NEW r \in rows', r.success
                 PROVE  <<r.stage, r.candidate, r.trial>> \in good'
      BY Zenon
    <3>1. CASE r \in rows BY Zenon, <3>1 DEF CalibrationInv
    <3>2. CASE r = r0 BY Zenon, <2>3, <3>2
    <3> QED BY Zenon, <2>4, <3>1, <3>2
  <2>12. stage # "adopted" /\ stage' = stage BY Zenon, <2>1, StageNames
  <2>13. /\ slowest'.first = 0 \/ \E r \in rows' : r.first >= slowest'.first
         /\ slowest'.exit = 0 \/ \E r \in rows' : r.join >= slowest'.exit
    <3>1. /\ slowest.first = 0 \/ \E r \in rows : r.first >= slowest.first
          /\ slowest.exit = 0 \/ \E r \in rows : r.join >= slowest.exit
      BY Zenon, <2>12 DEF CalibrationInv
    <3>2. outcome.first \in Nat /\ outcome.join \in Nat BY Zenon DEF Outcomes
    <3>3. r0 \in rows' /\ rows \subseteq rows' BY Zenon, <2>4
    <3>4. slowest'.first = 0 \/ \E r \in rows' : r.first >= slowest'.first
      BY <2>3, <3>1, <3>2, <3>3
    <3>5. slowest'.exit = 0 \/ \E r \in rows' : r.join >= slowest'.exit
      BY <2>3, <3>1, <3>2, <3>3
    <3> QED BY Zenon, <3>4, <3>5
  <2>14. \A st \in Tuned : selected[st] # None =>
           \A t \in 1..Trials : <<st, selected[st], t>> \in good'
    BY Zenon, <2>12 DEF CalibrationInv
  <2>15. stage \in {"settle", "frame", "join", "delay"} => Unvalidated' = rows'
    BY Zenon, <2>3, <2>4 DEF CalibrationInv, Unvalidated
  <2>16. stage = "validation" => Unvalidated' = Unvalidated
    BY Zenon, <2>3, <2>4 DEF Unvalidated
  <2>17. stage = "validation" =>
           /\ \A st \in {"frame", "join"} :
                selected'[st] = summarize_candidates(st, Unvalidated', Trials, TRUE)
           /\ applied' = [st \in Tuned |-> effective(st, selected')]
    BY Zenon, <2>16 DEF CalibrationInv
  <2>18. stage \in {"settle", "frame", "join", "delay", "validation"} BY Zenon, <2>1, StageNames
  <2>19. /\ stage' \in {"idle", "refused", "done"} => probe'.pc = "off"
         /\ (InTrial /\ probe.pc # "off")' => (~StageOver)' /\ probe'.fresh
         /\ (InTrial => TriedSoFar)'
    BY Zenon, <2>9
  <2>20. /\ stage' \in {"join", "delay", "validation"} => Explored("frame")'
         /\ stage' \in {"delay", "validation"} => Explored("join")'
    BY Zenon, <2>10 DEF CalibrationInv
  <2>21. stage' \in {"idle", "settle", "frame", "join", "delay"} => Unvalidated' = rows'
    BY Zenon, <2>15, <2>18
  <2>22. advice'.validated => \A st \in Tuned : advice'.selection[st] # None
    BY Zenon DEF CalibrationInv
  <2>23. CalibrationInv'
    BY Zenon, <2>11, <2>13, <2>14, <2>17, <2>18, <2>19, <2>20, <2>21, <2>22 DEF CalibrationInv
  <2> QED BY Zenon, <2>6, <2>23
<1>NoTrialYet. ASSUME place' = FirstTrial PROVE TriedSoFar'
  <2> USE <1>NoTrialYet
  <2>1. place'.candidate = 1 /\ place'.trial = 1 BY Zenon DEF FirstTrial
  <2>2. \A i, t \in Nat \ {0} : ~(i < 1 \/ (i = 1 /\ t < 1)) OBVIOUS
  <2>3. \A m, n : \A i \in 1..m, t \in 1..n : i \in Nat \ {0} /\ t \in Nat \ {0} OBVIOUS
  <2> QED BY Zenon, <2>1, <2>2, <2>3 DEF TriedSoFar
<1>PreflightKeeps. ASSUME Preflight PROVE CalibrationKept'
  <2> USE <1>PreflightKeeps
  <2> USE DEF CalibrationKept
  <2>1. /\ stage = "idle" /\ stage' \in {"settle", "refused"} /\ upsets' \in Nat
        /\ UNCHANGED <<probe, camera, uvc, place, settle, rows, resets, selected, applied,
                       advice, good, slowest>>
    BY DEF Preflight, Upset, ProbeTypeOK
  <2>2. ProbeTypeOK' /\ ProbeReports' BY Zenon, <2>1, SameProbe DEF ProbeTypeOK
  <2>3. CalibrationTypeOK' BY Zenon, <2>1, StageNames DEF CalibrationTypeOK
  <2>4. CalibrationInv'
    <3>1. probe'.pc = "off" /\ Unvalidated' = rows' BY Zenon, <2>1 DEF CalibrationInv, Unvalidated
    <3>2. TriedSoFar' BY Zenon, <2>1, <1>NoTrialYet DEF CalibrationInv
    <3> QED BY Zenon, <2>1, <3>1, <3>2 DEF CalibrationInv
  <2> QED BY Zenon, <2>2, <2>3, <2>4
<1>FullResetKeeps. ASSUME full_reset PROVE CalibrationKept'
  <2> USE <1>FullResetKeeps
  <2> USE DEF CalibrationKept
  <2>1. PICK hardware \in BOOLEAN, usb \in BOOLEAN, enumerated \in BOOLEAN,
             took \in ResetTimes :
          LET ok == reset_success(hardware, usb, enumerated)
              usual == hardware /\ usb /\ enumerated /\ took = UsualReset
              found == IF hardware /\ usb THEN "fresh" ELSE camera
          IN
          /\ IF usual THEN UNCHANGED upsets ELSE Upset
          /\ settle' = IF stage = "settle" THEN candidate
                       ELSE effective("settle", selected)
          /\ resets' = resets \cup {took}
          /\ IF ok
               THEN /\ Launch(current(stage, candidate), FALSE, found)
                    /\ UNCHANGED <<rows, place>>
               ELSE /\ camera' = found
                    /\ rows' = rows \cup {Row(Unreset)} /\ place' = NextTrial
                    /\ UNCHANGED <<probe, uvc>>
    BY Zenon DEF full_reset
  <2> DEFINE ok == reset_success(hardware, usb, enumerated)
             found == IF hardware /\ usb THEN "fresh" ELSE camera
  <2>2. /\ InTrial /\ ~StageOver /\ probe.pc = "off"
        /\ UNCHANGED <<stage, selected, applied, advice, good, slowest>>
    BY Zenon DEF full_reset
  <2>3. upsets' \in Nat
    <3>1. upsets' = upsets \/ Upset BY <2>1, Zenon
    <3> QED BY <3>1 DEF Upset, ProbeTypeOK
  <2>4. candidate \in Nat /\ effective("settle", selected) \in Nat
    BY Zenon, <2>2, CandidateFacts, EffectiveFacts DEF Tuned, CalibrationTypeOK
  <2>5. settle' \in Int
    <3>1. settle' = IF stage = "settle" THEN candidate ELSE effective("settle", selected)
      BY <2>1, Zenon
    <3> QED BY <2>4, <3>1
  <2>6. resets' \subseteq Nat /\ IsFiniteSet(resets')
    <3>1. resets' = resets \cup {took} BY <2>1, Zenon
    <3>2. took \in Nat BY Zenon, CalibrationAssumptions
    <3>3. resets \subseteq Nat /\ IsFiniteSet(resets) BY Zenon DEF CalibrationTypeOK
    <3> QED BY Zenon, <3>1, <3>2, <3>3, FS_AddElement
  <2>7. found \in {"fresh", "used", "wedged"} BY Zenon DEF ProbeTypeOK
  <2>8. CASE ok
    <3>1. Launch(current(stage, candidate), FALSE, found) /\ UNCHANGED <<rows, place>>
      BY <2>1, <2>8, Zenon
    <3>2. found = "fresh" BY <2>8, Zenon DEF reset_success
    <3> HIDE DEF found, ok
    <3>3. current(stage, candidate) \in Settings BY Zenon, <2>2, CurrentFacts
    <3>4. /\ probe' \in ProbeProcesses /\ ProbeReports'
          /\ camera' \in {"fresh", "used", "wedged"} /\ uvc' \in Seq(KernelLines)
          /\ probe'.pc = "open" /\ probe'.fresh
      BY Zenon, <2>7, <3>1, <3>2, <3>3, LaunchFacts
    <3>5. ProbeTypeOK' BY Zenon, <2>3, <3>4 DEF ProbeTypeOK
    <3>6. CalibrationTypeOK' /\ CalibrationInv'
      <4>1. stage \notin {"idle", "refused", "done"} BY Zenon, <2>2, StageNames DEF InTrial
      <4> QED BY Zenon, <2>2, <2>5, <2>6, <3>1, <3>4, <4>1, SameRows
    <3> QED BY Zenon, <3>4, <3>5, <3>6
  <2>9. CASE ~ok
    <3>1. /\ camera' = found /\ rows' = rows \cup {Row(Unreset)} /\ place' = NextTrial
          /\ probe' = probe /\ uvc' = uvc
      BY <2>1, <2>9, Zenon
    <3> HIDE DEF found, ok
    <3>2. ProbeTypeOK' /\ ProbeReports' BY Zenon, <2>3, <2>7, <3>1, SameProbe
    <3>3. Unreset \in Outcomes /\ ~Unreset.success BY Zenon DEF Unreset, Outcomes
    <3>4. /\ slowest' \in [first : Nat, exit : Nat]
          /\ slowest'.first \in {0, slowest.first, Unreset.first}
          /\ slowest'.exit \in {0, slowest.exit, Unreset.join}
      BY Zenon, <2>2 DEF CalibrationTypeOK
    <3>5. CalibrationTypeOK' /\ CalibrationInv'
      BY <2>2, <2>5, <2>6, <3>1, <3>3, <3>4, <1>RowKeeps
    <3> QED BY Zenon, <3>2, <3>5
  <2> QED BY Zenon, <2>8, <2>9
<1>CollectedKeeps.
    ASSUME InTrial, probe.pc # "off", NEW lines \in Seq(OutputLines),
           NEW rc, rc = 0 => lines = probe.lines, Collected(lines, rc), upsets' \in Nat
    PROVE  CalibrationKept'
  <2> USE <1>CollectedKeeps
  <2> USE DEF CalibrationKept
  <2> DEFINE parsed == parse_probe_output(lines, rc)
             well == rc = 0 /\ probe.completed = Cycles /\ probe.fresh
             first == metric(probe.lines, "first")
             exit == metric(probe.lines, "join")
  <2>1. /\ rows' = rows \cup {Row(parsed)} /\ place' = NextTrial /\ probe' = Off
        /\ good' = IF well THEN good \cup {<<stage, candidate, place.trial>>} ELSE good
        /\ slowest' = IF well THEN [first |-> Max({slowest.first, first}),
                                    exit |-> Max({slowest.exit, exit})]
                      ELSE slowest
        /\ UNCHANGED <<camera, uvc, stage, settle, resets, selected, applied, advice>>
    BY Zenon DEF Collected
  <2>2. probe.lines \in Seq(OutputLines) /\ Reports(probe)
    BY Zenon DEF ProbeTypeOK, ProbeProcesses, ProbeReports
  <2>3. ~StageOver /\ probe.fresh BY Zenon DEF CalibrationInv
  <2>4. /\ parsed \in Outcomes /\ parsed.first = metric(lines, "first")
        /\ parsed.join = metric(lines, "join")
        /\ parsed.success =>
             /\ rc = 0
             /\ \E i \in prefixed_json(lines, "result") : lines[i].completed = Cycles
    <3>1. parsed \in Outcomes BY Zenon, <1>ParsedOutcome
    <3>2. parsed.first = metric(lines, "first") /\ parsed.join = metric(lines, "join")
      BY Zenon, <1>ParsedOutcome
    <3>3. parsed.success =>
            rc = 0 /\ \E i \in prefixed_json(lines, "result") : lines[i].completed = Cycles
      BY <1>ParsedOutcome
    <3> QED BY <3>1, <3>2, <3>3
  <2>5. parsed.success => well
    <3> SUFFICES ASSUME parsed.success PROVE probe.completed = Cycles /\ rc = 0
      BY Zenon, <2>3
    <3>1. rc = 0 /\ lines = probe.lines BY Zenon, <2>4
    <3>2. PICK i \in prefixed_json(probe.lines, "result") : probe.lines[i].completed = Cycles
      BY Zenon, <2>4, <3>1
    <3> QED BY Zenon, <2>2, <3>1, <3>2 DEF Reports
  <2>6. first \in Nat /\ exit \in Nat BY Zenon, <2>2, <1>MetricFacts
  <2>7. slowest \in [first : Nat, exit : Nat] BY Zenon DEF CalibrationTypeOK
  <2>8. well => first = parsed.first /\ exit = parsed.join BY Zenon, <2>4
  <2> HIDE DEF parsed, well, first, exit
  <2>9. /\ Max({slowest.first, first}) \in {slowest.first, first}
        /\ Max({slowest.exit, exit}) \in {slowest.exit, exit}
    <3>1. slowest.first \in Nat /\ slowest.exit \in Nat BY Zenon, <2>7
    <3>2. /\ {slowest.first, first} \subseteq Nat /\ {slowest.first, first} # {}
          /\ slowest.first + first \in Nat
          /\ \A m \in {slowest.first, first} : m <= slowest.first + first
      BY <2>6, <3>1
    <3>3. /\ {slowest.exit, exit} \subseteq Nat /\ {slowest.exit, exit} # {}
          /\ slowest.exit + exit \in Nat
          /\ \A m \in {slowest.exit, exit} : m <= slowest.exit + exit
      BY <2>6, <3>1
    <3>4. Max({slowest.first, first}) \in {slowest.first, first} BY Zenon, <3>2, GreatestIsMax
    <3>5. Max({slowest.exit, exit}) \in {slowest.exit, exit} BY Zenon, <3>3, GreatestIsMax
    <3> QED BY Zenon, <3>4, <3>5
  <2>10. /\ slowest' \in [first : Nat, exit : Nat]
         /\ slowest'.first \in {0, slowest.first, parsed.first}
         /\ slowest'.exit \in {0, slowest.exit, parsed.join}
    <3>1. CASE well
      <4>1. slowest' = [first |-> Max({slowest.first, first}),
                        exit |-> Max({slowest.exit, exit})]
        BY Zenon, <2>1, <3>1
      <4>2. slowest.first \in Nat /\ slowest.exit \in Nat BY Zenon, <2>7
      <4>3. /\ slowest'.first = Max({slowest.first, first})
            /\ slowest'.exit = Max({slowest.exit, exit})
        BY Zenon, <4>1
      <4>4. Max({slowest.first, first}) \in Nat /\ Max({slowest.exit, exit}) \in Nat
        BY Zenon, <2>6, <2>9, <4>2
      <4>5. slowest' \in [first : Nat, exit : Nat] BY Zenon, <4>1, <4>4
      <4> QED BY Zenon, <2>8, <2>9, <3>1, <4>3, <4>5
    <3>2. CASE ~well BY Zenon, <2>1, <2>7, <3>2
    <3> QED BY Zenon, <3>1, <3>2
  <2>11. /\ good \subseteq good'
         /\ parsed.success => <<stage, candidate, place.trial>> \in good'
    BY Zenon, <2>1, <2>5
  <2>12. ProbeTypeOK' /\ ProbeReports' /\ probe'.pc = "off"
    BY Zenon, <2>1, OffFacts DEF ProbeTypeOK, ProbeReports
  <2>13. settle' \in Int /\ resets' \subseteq Nat /\ IsFiniteSet(resets')
    BY Zenon, <2>1 DEF CalibrationTypeOK
  <2>14. CalibrationTypeOK' /\ CalibrationInv'
    BY Zenon, <2>1, <2>3, <2>4, <2>10, <2>11, <2>12, <2>13, <1>RowKeeps
  <2> QED BY Zenon, <2>12, <2>14
<1>RunProbeKeeps. ASSUME run_probe \/ run_probe_timeout PROVE CalibrationKept'
  <2> USE <1>RunProbeKeeps
  <2> USE DEF CalibrationKept
  <2>1. probe.lines \in Seq(OutputLines) /\ upsets \in Nat
    BY Zenon DEF ProbeTypeOK, ProbeProcesses
  <2>2. CASE run_probe
    <3>1. /\ InTrial /\ probe.pc # "off" /\ Collected(probe.lines, probe.rc)
          /\ upsets' = upsets
      BY Zenon, <2>2 DEF run_probe
    <3> QED BY Zenon, <2>1, <3>1, <1>CollectedKeeps
  <2>3. CASE run_probe_timeout
    <3>1. InTrial /\ probe.pc # "off" /\ upsets' \in Nat
      BY <2>1, <2>3 DEF run_probe_timeout, Upset
    <3>2. PICK n \in 0..Len(probe.lines) : Collected(SubSeq(probe.lines, 1, n), 124)
      BY Zenon, <2>3 DEF run_probe_timeout
    <3>3. SubSeq(probe.lines, 1, n) \in Seq(OutputLines) BY <2>1
    <3>4. 124 # 0 OBVIOUS
    <3> HIDE DEF CalibrationKept
    <3> QED BY Zenon, <3>1, <3>2, <3>3, <3>4, <1>CollectedKeeps
  <2> QED BY Zenon, <2>2, <2>3
\* A stage that is over has tried every candidate as often as asked.
<1>OverMeansExplored.
    ASSUME CalibrationTypeOK, CalibrationInv, InTrial, StageOver
    PROVE  /\ stage # "validation" => Explored(stage)
           /\ stage = "validation" => \A t \in 1..ValidationTrials : Tried("validation", 0, t)
  <2> USE <1>OverMeansExplored
  <2>1. TriedSoFar BY Zenon DEF CalibrationInv
  <2>2. Len(CandidatesOf(stage)) \in Nat /\ place.candidate \in Nat
          /\ DOMAIN CandidatesOf(stage) = 1..Len(CandidatesOf(stage))
    BY Zenon, CandidateFacts DEF CalibrationTypeOK
  <2>3. \A i \in DOMAIN CandidatesOf(stage) : i < place.candidate
    BY <2>2 DEF StageOver
  <2>4. \A i \in DOMAIN CandidatesOf(stage), t \in 1..TrialsOf(stage) :
          Tried(stage, CandidatesOf(stage)[i], t)
    BY Zenon, <2>1, <2>2, <2>3 DEF TriedSoFar
  <2>5. CASE stage # "validation"
    <3>1. CandidatesOf(stage) = Candidates[stage] /\ TrialsOf(stage) = Trials
      BY Zenon, <2>5 DEF CandidatesOf, TrialsOf
    <3> QED BY Zenon, <2>4, <2>5, <3>1 DEF Explored, Range
  <2>6. CASE stage = "validation"
    <3>1. CandidatesOf(stage) = <<0>> /\ TrialsOf(stage) = ValidationTrials
      BY Zenon, <2>6 DEF CandidatesOf, TrialsOf
    <3>2. 1 \in DOMAIN CandidatesOf(stage) /\ CandidatesOf(stage)[1] = 0 BY <3>1
    <3> QED BY Zenon, <2>4, <2>6, <3>1, <3>2
  <2> QED BY Zenon, <2>5, <2>6
\* What is selected in a stage that is explored rests on trials that went well.
<1>SelectedIsGood.
    ASSUME CalibrationInv, NEW st \in Tuned, Explored(st), NEW everywhere \in BOOLEAN,
           NEW c, c = summarize_candidates(st, rows, Trials, everywhere), c # None
    PROVE  \A t \in 1..Trials : <<st, c, t>> \in good
  <2> USE <1>SelectedIsGood
  <2>1. c \in Range(Candidates[st]) /\ observed_success(st, c, rows, Trials)
    BY Zenon, <1>SelectedFacts
  <2> SUFFICES ASSUME NEW t \in 1..Trials PROVE <<st, c, t>> \in good
    BY Zenon
  <2>2. PICK r \in rows : r.stage = st /\ r.candidate = c /\ r.trial = t
    BY Zenon, <2>1 DEF Explored, Tried
  <2>3. r.success BY Zenon, <2>1, <2>2 DEF observed_success
  <2>4. <<r.stage, r.candidate, r.trial>> \in good BY Zenon, <2>3 DEF CalibrationInv
  <2> QED BY Zenon, <2>2, <2>4
<1>SelectedType.
    ASSUME NEW st \in Tuned, NEW everywhere \in BOOLEAN
    PROVE  summarize_candidates(st, rows, Trials, everywhere) \in Nat \cup {None}
  BY Zenon, <1>SelectedType, <1>SelectedFacts
<1>ReselectFacts.
    ASSUME NEW choice \in Selections
    PROVE  /\ reselect(choice) \in Selections
           /\ reselect(choice)["frame"] = summarize_candidates("frame", rows, Trials, TRUE)
           /\ reselect(choice)["join"] = summarize_candidates("join", rows, Trials, TRUE)
           /\ reselect(choice)["settle"] = choice["settle"]
           /\ reselect(choice)["delay"] = choice["delay"]
  <2> USE <1>ReselectFacts
  <2> DEFINE f == summarize_candidates("frame", rows, Trials, TRUE)
             j == summarize_candidates("join", rows, Trials, TRUE)
  <2>1. f \in Nat \cup {None} /\ j \in Nat \cup {None} BY Zenon, <1>SelectedType DEF Tuned
  <2> HIDE DEF f, j
  <2>2. reselect(choice) = [choice EXCEPT !["frame"] = f, !["join"] = j]
    BY Zenon DEF reselect, f, j
  <2> QED BY Zenon, <2>1, <2>2 DEF Selections, Tuned, f, j
<1>StageOrder.
    ASSUME NEW i \in DOMAIN Stages, i = CHOOSE k \in DOMAIN Stages : Stages[k] = stage,
           stage \in Tuned
    PROVE  /\ stage = "settle" => Stages[1 + i] = "frame"
           /\ stage = "frame" => Stages[1 + i] = "join"
           /\ stage = "join" => Stages[1 + i] = "delay"
           /\ stage = "delay" => Stages[1 + i] = "validation"
  <2> USE <1>StageOrder
  <2>1. DOMAIN Stages = 1..5 /\ Stages[1] = "settle" /\ Stages[2] = "frame"
          /\ Stages[3] = "join" /\ Stages[4] = "delay" /\ Stages[5] = "validation"
    BY DEF Stages
  <2>2. \E k \in DOMAIN Stages : Stages[k] = stage
    <3>1. 1 \in DOMAIN Stages /\ 2 \in DOMAIN Stages /\ 3 \in DOMAIN Stages
            /\ 4 \in DOMAIN Stages
      BY <2>1
    <3> QED BY Zenon, <2>1, <3>1 DEF Tuned
  <2>3. Stages[i] = stage BY Zenon, <2>2
  <2>4. i \in {1, 2, 3, 4, 5} BY <2>1
  <2> QED BY <2>1, <2>3, <2>4
<1>NextStageFacts.
    ASSUME CalibrationTypeOK, NextStage
    PROVE  /\ stage \in Tuned
           /\ \/ stage = "settle" /\ stage' = "frame"
              \/ stage = "frame" /\ stage' = "join"
              \/ stage = "join" /\ stage' = "delay"
              \/ stage = "delay" /\ stage' = "validation"
  <2> USE <1>NextStageFacts
  <2> DEFINE i == CHOOSE k \in DOMAIN Stages : Stages[k] = stage
  <2>1. InTrial /\ stage # "validation" /\ stage' = Stages[1 + i] BY Zenon DEF NextStage
  <2>2. stage \in Tuned BY Zenon, <2>1, CandidateFacts
  <2>3. i \in DOMAIN Stages
    <3>1. \E k \in DOMAIN Stages : Stages[k] = stage BY Zenon, <2>1 DEF InTrial, Range
    <3> QED BY Zenon, <3>1
  <2>4. i = CHOOSE k \in DOMAIN Stages : Stages[k] = stage BY Zenon
  <2> HIDE DEF i
  <2>5. /\ stage = "settle" => Stages[1 + i] = "frame"
        /\ stage = "frame" => Stages[1 + i] = "join"
        /\ stage = "join" => Stages[1 + i] = "delay"
        /\ stage = "delay" => Stages[1 + i] = "validation"
    BY Zenon, <2>2, <2>3, <2>4, <1>StageOrder
  <2> QED BY Zenon, <2>1, <2>2, <2>5 DEF Tuned
<1>NextStageKeeps. ASSUME NextStage PROVE CalibrationKept'
  <2> USE <1>NextStageKeeps
  <2> USE DEF CalibrationKept
  <2> DEFINE next == Stages[1 + CHOOSE i \in DOMAIN Stages : Stages[i] = stage]
             own == [selected EXCEPT
                       ![stage] = summarize_candidates(stage, rows, Trials, FALSE)]
             choice == IF next = "validation" THEN reselect(own) ELSE own
  <2>1. /\ InTrial /\ stage # "validation" /\ StageOver /\ probe.pc = "off"
        /\ selected' = choice /\ stage' = next /\ place' = FirstTrial
        /\ applied' = IF next = "validation"
                        THEN [st \in DOMAIN choice |-> effective(st, choice)]
                        ELSE applied
        /\ UNCHANGED <<probe_vars, settle, rows, resets, advice, good, slowest>>
    BY Zenon DEF NextStage
  <2>2. stage \in Tuned BY Zenon, <2>1, CandidateFacts
  <2>3. \/ stage = "settle" /\ next = "frame"
        \/ stage = "frame" /\ next = "join"
        \/ stage = "join" /\ next = "delay"
        \/ stage = "delay" /\ next = "validation"
    <3>1. CalibrationTypeOK /\ NextStage BY Zenon
    <3>2. \/ stage = "settle" /\ stage' = "frame"
          \/ stage = "frame" /\ stage' = "join"
          \/ stage = "join" /\ stage' = "delay"
          \/ stage = "delay" /\ stage' = "validation"
      BY Zenon, <3>1, <1>NextStageFacts
    <3>3. stage' = next BY Zenon, <2>1
    <3> HIDE DEF next
    <3> QED BY Zenon, <3>2, <3>3
  <2> HIDE DEF next
  <2>4. Explored(stage) BY Zenon, <2>1, <1>OverMeansExplored
  <2> DEFINE s == summarize_candidates(stage, rows, Trials, FALSE)
  <2>5. s \in Nat \cup {None} BY Zenon, <2>2, <1>SelectedType
  <2>6. own = [selected EXCEPT ![stage] = s] BY Zenon
  <2> HIDE DEF own
  <2>7. own \in Selections /\ own[stage] = s
          /\ \A st \in Tuned : st # stage => own[st] = selected[st]
    <3>1. selected \in [Tuned -> Nat \cup {None}] BY Zenon DEF CalibrationTypeOK, Selections
    <3> HIDE DEF s
    <3> QED BY Zenon, <2>2, <2>5, <2>6, <3>1 DEF Selections
  <2>8. \A st \in Tuned : own[st] # None => \A t \in 1..Trials : <<st, own[st], t>> \in good
    <3> SUFFICES ASSUME NEW st \in Tuned, own[st] # None
                 PROVE  \A t \in 1..Trials : <<st, own[st], t>> \in good
      BY Zenon
    <3>1. CASE st = stage
      <4>1. own[st] = summarize_candidates(st, rows, Trials, FALSE) BY Zenon, <2>7, <3>1
      <4> QED BY Zenon, <2>4, <3>1, <4>1, <1>SelectedIsGood
    <3>2. CASE st # stage
      <4>1. stage # "adopted" BY Zenon, <2>2 DEF Tuned
      <4> QED BY Zenon, <2>7, <3>2, <4>1 DEF CalibrationInv
    <3> QED BY Zenon, <3>1, <3>2
  <2>9. choice \in Selections
    BY Zenon, <2>7, <1>ReselectFacts
  <2>10. \A st \in Tuned : choice[st] # None =>
           \A t \in 1..Trials : <<st, choice[st], t>> \in good
    <3> SUFFICES ASSUME NEW st \in Tuned, choice[st] # None
                 PROVE  \A t \in 1..Trials : <<st, choice[st], t>> \in good
      BY Zenon
    <3>1. CASE next = "validation" /\ st \in {"frame", "join"}
      <4>1. Explored(st) BY Zenon, <2>3, <3>1 DEF CalibrationInv
      <4>2. choice[st] = summarize_candidates(st, rows, Trials, TRUE)
        BY Zenon, <2>7, <3>1, <1>ReselectFacts
      <4> HIDE DEF choice
      <4> QED BY Zenon, <4>1, <4>2, <1>SelectedIsGood
    <3>2. CASE ~(next = "validation" /\ st \in {"frame", "join"})
      <4>1. choice[st] = own[st] BY Zenon, <2>7, <3>2, <1>ReselectFacts DEF Tuned
      <4> HIDE DEF choice
      <4> QED BY Zenon, <2>8, <4>1
    <3> QED BY Zenon, <3>1, <3>2
  <2>11. Unvalidated = rows BY Zenon, <2>2 DEF CalibrationInv, Tuned
  <2>12. next = "validation" =>
           /\ \A st \in {"frame", "join"} :
                choice[st] = summarize_candidates(st, rows, Trials, TRUE)
           /\ applied' = [st \in Tuned |-> effective(st, choice)]
    <3>1. DOMAIN choice = Tuned BY Zenon, <2>9 DEF Selections
    <3>2. ASSUME next = "validation", NEW st \in {"frame", "join"}
          PROVE  choice[st] = summarize_candidates(st, rows, Trials, TRUE)
      BY Zenon, <2>7, <3>2, <1>ReselectFacts
    <3>3. next = "validation" => applied' = [st \in Tuned |-> effective(st, choice)]
      BY Zenon, <2>1, <3>1
    <3> QED BY Zenon, <3>2, <3>3
  <2> HIDE DEF choice
  <2>13. applied' \in Selections
    <3>1. CASE next = "validation"
      <4>1. \A st \in Tuned : effective(st, choice) \in Nat BY Zenon, <2>9, EffectiveFacts
      <4> QED BY Zenon, <2>12, <3>1, <4>1 DEF Selections
    <3>2. CASE next # "validation" BY Zenon, <2>1, <3>2 DEF CalibrationTypeOK
    <3> QED BY Zenon, <3>1, <3>2
  <2>14. CalibrationTypeOK'
    <3>1. FirstTrial \in [candidate : Nat \ {0}, trial : Nat \ {0}] BY DEF FirstTrial
    <3>2. next \in Range(Stages) BY Zenon, <2>3, StageNames
    <3> QED BY ZenonT(30), <2>1, <2>9, <2>13, <3>1, <3>2 DEF CalibrationTypeOK
  <2>15. TriedSoFar' BY Zenon, <2>1, <1>NoTrialYet
  <2>16. \A st : Explored(st)' = Explored(st)
    <3>1. rows' = rows BY Zenon, <2>1
    <3> QED BY <3>1 DEF Explored, Tried
  <2>17. Unvalidated' = rows /\ rows' = rows BY Zenon, <2>1, <2>11 DEF Unvalidated
  <2>18. probe' = probe /\ probe'.pc = "off" BY Zenon, <2>1 DEF probe_vars
  <2>19. /\ stage' \in {"join", "delay", "validation"} => Explored("frame")'
         /\ stage' \in {"delay", "validation"} => Explored("join")'
    BY ZenonT(30), <2>1, <2>3, <2>4, <2>16 DEF CalibrationInv
  <2>20. CalibrationInv'
    <3>1. /\ stage' # "idle" /\ (InTrial => TriedSoFar)'
          /\ (InTrial /\ probe.pc # "off")' => (~StageOver)' /\ probe'.fresh
          /\ stage' \in {"idle", "refused", "done"} => probe'.pc = "off"
      BY Zenon, <2>1, <2>3, <2>15, <2>18
    <3>2. \A r \in rows' : r.success => <<r.stage, r.candidate, r.trial>> \in good'
      BY Zenon, <2>1 DEF CalibrationInv
    <3>3. /\ slowest'.first = 0 \/ \E r \in rows' : r.first >= slowest'.first
          /\ slowest'.exit = 0 \/ \E r \in rows' : r.join >= slowest'.exit
      BY Zenon, <2>1, <2>2 DEF CalibrationInv, Tuned
    <3>4. \A st \in Tuned : selected'[st] # None =>
            \A t \in 1..Trials : <<st, selected'[st], t>> \in good'
      BY Zenon, <2>1, <2>10
    <3>5. stage' = "validation" =>
            /\ \A st \in {"frame", "join"} :
                 selected'[st] = summarize_candidates(st, Unvalidated', Trials, TRUE)
            /\ applied' = [st \in Tuned |-> effective(st, selected')]
      BY Zenon, <2>1, <2>12, <2>17
    <3>6. advice'.validated => \A st \in Tuned : advice'.selection[st] # None
      BY Zenon, <2>1 DEF CalibrationInv
    <3> QED BY Zenon, <2>17, <2>19, <3>1, <3>2, <3>3, <3>4, <3>5, <3>6 DEF CalibrationInv
  <2>21. ProbeTypeOK' /\ ProbeReports' BY Zenon, <2>1 DEF ProbeTypeOK, ProbeReports, probe_vars
  <2> QED BY Zenon, <2>14, <2>20, <2>21
<1>RecommendKeeps. ASSUME Recommend PROVE CalibrationKept' /\ RecommendationIsSafe'
  <2> USE <1>RecommendKeeps
  <2> USE DEF CalibrationKept
  <2> DEFINE choice == reselect(selected)
             validation_rows == {r \in rows : r.stage = "validation"}
             validated == /\ Cardinality(validation_rows) = ValidationTrials
                          /\ \A r \in validation_rows : r.success
                          /\ \A st \in DOMAIN choice : choice[st] # None
             timeout == rounded_timeout(Greatest(resets), 5000)
  <2>1. /\ stage = "validation" /\ StageOver /\ probe.pc = "off" /\ stage' = "done"
        /\ selected' = choice
        /\ advice' = [validated |-> validated, selection |-> choice, reset_timeout |-> timeout]
        /\ UNCHANGED <<probe_vars, place, settle, rows, resets, applied, good, slowest>>
    BY DEF Recommend
  <2>2. InTrial BY <2>1, StageNames DEF InTrial
  <2>3. rows \subseteq TrialRows /\ IsFiniteSet(rows) /\ selected \in Selections
          /\ resets \subseteq Nat /\ IsFiniteSet(resets)
          /\ slowest.first \in Nat /\ slowest.exit \in Nat
    BY Zenon DEF CalibrationTypeOK
  <2>4. /\ choice \in Selections /\ DOMAIN choice = Tuned
        /\ choice["frame"] = summarize_candidates("frame", rows, Trials, TRUE)
        /\ choice["join"] = summarize_candidates("join", rows, Trials, TRUE)
        /\ choice["settle"] = selected["settle"] /\ choice["delay"] = selected["delay"]
    BY ZenonT(30), <2>3, <1>ReselectFacts DEF Selections
  <2> HIDE DEF choice
  <2>5. Explored("frame") /\ Explored("join") BY <2>1 DEF CalibrationInv
  <2>6. \A st \in Tuned : choice[st] # None =>
          \A t \in 1..Trials : <<st, choice[st], t>> \in good
    <3> SUFFICES ASSUME NEW st \in Tuned, choice[st] # None
                 PROVE  \A t \in 1..Trials : <<st, choice[st], t>> \in good
      BY Zenon
    <3>1. CASE st \in {"frame", "join"}
      <4>1. choice[st] = summarize_candidates(st, rows, Trials, TRUE) /\ Explored(st)
        BY ZenonT(30), <2>4, <2>5, <3>1
      <4> QED BY Zenon, <4>1, <1>SelectedIsGood
    <3>2. CASE st \notin {"frame", "join"}
      <4>1. choice[st] = selected[st] BY Zenon, <2>4, <3>2 DEF Tuned
      <4> QED BY <2>1, <4>1 DEF CalibrationInv
    <3> QED BY Zenon, <3>1, <3>2
  <2>7. timeout \in Nat /\ \A ms \in resets : 2 * timeout >= 3 * ms
    <3> DEFINE f == [ms \in resets |-> ms]
    <3>1. f \in [resets -> Nat] BY Zenon, <2>3
    <3>2. PICK N \in Nat : \A ms \in resets : f[ms] <= N
      <4> HIDE DEF f
      <4> QED BY Zenon, <2>3, <3>1, Bounded
    <3> DEFINE g == Greatest(resets)
               x == Scaled(g) + 1000
               y == Max({5000, x})
    <3>3. g \in Nat /\ \A ms \in resets : ms <= g BY Zenon, <2>3, <3>2, GreatestFacts
    <3> HIDE DEF g
    <3>4. Scaled(g) \in Nat /\ 2 * Scaled(g) >= 3 * g
      <4>1. 3 * g \in Nat BY <3>3
      <4> QED BY Zenon, <4>1, CeilFacts DEF Scaled
    <3>5. x \in Nat /\ 2 * x >= 3 * g BY <3>3, <3>4
    <3> HIDE DEF x
    <3>6. y \in Nat /\ y >= x
      <4>1. {5000, x} \subseteq Nat /\ {5000, x} # {} /\ 5000 + x \in Nat
              /\ \A m \in {5000, x} : m <= 5000 + x
        BY <3>5
      <4>2. Max({5000, x}) \in {5000, x} /\ \A m \in {5000, x} : m <= Max({5000, x})
        BY <4>1, GreatestIsMax
      <4> QED BY <3>5, <4>1, <4>2
    <3>7. timeout = Ceil(y, 100) * 100 BY DEF rounded_timeout, g, x
    <3> HIDE DEF y, timeout
    <3>8. timeout \in Nat /\ timeout >= y BY Zenon, <3>6, <3>7, CeilFacts
    <3>9. ASSUME NEW ms \in resets PROVE 2 * timeout >= 3 * ms
      <4>1. ms \in Nat /\ ms <= g BY Zenon, <2>3, <3>3
      <4> QED BY <3>3, <3>5, <3>6, <3>8, <4>1
    <3> QED BY Zenon, <3>8, <3>9
  <2>8. validated \in BOOLEAN BY Zenon
  <2>9. validated => \A st \in Tuned : choice[st] # None BY Zenon, <2>4
  <2>10. validated => \A t \in 1..ValidationTrials : <<"validation", 0, t>> \in good
    <3> SUFFICES ASSUME validated, NEW t \in 1..ValidationTrials
                 PROVE  <<"validation", 0, t>> \in good
      BY Zenon
    <3>1. PICK r \in rows : r.stage = "validation" /\ r.candidate = 0 /\ r.trial = t
      BY <2>1, <2>2, <1>OverMeansExplored DEF Tried
    <3>2. r.success BY Zenon, <3>1
    <3>3. <<r.stage, r.candidate, r.trial>> \in good BY Zenon, <3>2 DEF CalibrationInv
    <3> QED BY Zenon, <3>1, <3>3
  <2> HIDE DEF validated, timeout
  <2>11. /\ advice'.validated = validated /\ advice'.selection = choice
         /\ advice'.reset_timeout = timeout /\ advice' \in Advices
    <3>1. advice' \in [validated : BOOLEAN, selection : Selections, reset_timeout : Nat]
      BY Zenon, <2>1, <2>4, <2>7, <2>8
    <3> QED BY Zenon, <2>1, <3>1 DEF Advices
  <2>12. ASSUME validated
         PROVE  /\ choice.frame \in Nat /\ choice.join \in Nat
                /\ \A r \in rows : 2 * choice.frame >= 3 * r.first
                /\ \A r \in rows : 2 * choice.join >= 3 * r.join + 2 * poll
    <3>1. choice.frame # None /\ choice.join # None BY Zenon, <2>9, <2>12 DEF Tuned
    <3>2. choice.frame \in Nat /\ choice.frame >= headroom_required("frame", rows)
      BY Zenon, <2>4, <3>1, <1>SelectedFacts DEF Tuned
    <3>3. choice.join \in Nat /\ choice.join >= headroom_required("join", rows)
      BY Zenon, <2>4, <3>1, <1>SelectedFacts DEF Tuned
    <3> QED BY Zenon, <2>3, <3>2, <3>3, <1>HeadroomCovers
  <2>13. ASSUME validated
         PROVE  2 * choice.frame >= 3 * slowest.first
    <3>1. slowest.first = 0 \/ \E r \in rows : r.first >= slowest.first
      BY Zenon, <2>1 DEF CalibrationInv
    <3>2. \A r \in rows : r.first \in Nat BY Zenon, <2>3 DEF TrialRows
    <3>3. choice.frame \in Nat /\ slowest.first \in Nat BY <2>3, <2>12, <2>13
    <3>4. CASE slowest.first = 0 BY <3>3, <3>4
    <3>5. CASE \E r \in rows : r.first >= slowest.first
      <4>1. PICK r \in rows : r.first >= slowest.first BY Zenon, <3>5
      <4>2. 2 * choice.frame >= 3 * r.first BY Zenon, <2>12, <2>13
      <4>3. r.first \in Nat BY Zenon, <3>2
      <4> HIDE DEF choice
      <4> QED BY <3>3, <4>1, <4>2, <4>3
    <3> QED BY <3>1, <3>4, <3>5
  <2>14. ASSUME validated
         PROVE  2 * LastLook(choice.join) >= 3 * slowest.exit
    <3>1. slowest.exit = 0 \/ \E r \in rows : r.join >= slowest.exit
      BY Zenon, <2>1 DEF CalibrationInv
    <3>2. \A r \in rows : r.join \in Nat BY Zenon, <2>3 DEF TrialRows
    <3>3. 2 * choice.join >= 3 * slowest.exit
      BY <2>3, <2>12, <2>14, <3>1, <3>2 DEF poll
    <3>4. LastLook(choice.join) >= choice.join /\ LastLook(choice.join) \in Int
      <4>1. choice.join \in Nat BY Zenon, <2>12, <2>14
      <4>2. Ceil(choice.join, poll) * poll >= choice.join BY Zenon, <4>1, CeilFacts
      <4>3. Ceil(choice.join, poll) * poll \in Int BY <4>1 DEF Ceil, poll
      <4> QED BY Zenon, <4>2, <4>3 DEF LastLook
    <3>5. choice.join \in Nat BY Zenon, <2>12, <2>14
    <3> QED BY <2>3, <3>3, <3>4, <3>5
  <2>15. ASSUME validated
         PROVE  choice.frame >= applied.frame /\ choice.join >= applied.join
    <3>1. Unvalidated \subseteq rows BY Zenon DEF Unvalidated
    <3>2. ASSUME NEW st \in {"frame", "join"} PROVE choice[st] >= applied[st]
      <4>1. st \in Tuned /\ choice[st] # None BY Zenon, <2>9, <2>15 DEF Tuned
      <4>2. choice[st] = summarize_candidates(st, rows, Trials, TRUE) BY Zenon, <2>4, <3>2
      <4>3. selected[st] = summarize_candidates(st, Unvalidated, Trials, TRUE)
        BY Zenon, <2>1, <3>2 DEF CalibrationInv
      <4>4. \A r \in rows : r.stage = st => r \in Unvalidated BY Zenon, <3>2 DEF Unvalidated
      <4>5. selected[st] \in Nat /\ selected[st] <= choice[st]
        BY ZenonT(30), <2>3, <3>1, <4>1, <4>2, <4>3, <4>4, <1>SelectionGrows
      <4>6. applied[st] = effective(st, selected) BY Zenon, <2>1, <4>1 DEF CalibrationInv
      <4>7. selected[st] # None BY <4>5 DEF None
      <4>8. applied[st] = selected[st] BY Zenon, <2>3, <4>1, <4>6, <4>7, EffectiveFacts
      <4>9. choice[st] \in Nat BY Zenon, <2>12, <2>15
      <4> QED BY <4>5, <4>8, <4>9
    <3> QED BY Zenon, <3>2
  <2>16. ASSUME validated
         PROVE  choice.settle = applied.settle /\ choice.delay = applied.delay
    <3>1. "settle" \in Tuned /\ "delay" \in Tuned BY Zenon DEF Tuned
    <3>2. selected["settle"] # None /\ selected["delay"] # None
      BY Zenon, <2>4, <2>9, <2>16, <3>1
    <3>3. /\ applied["settle"] = effective("settle", selected)
          /\ applied["delay"] = effective("delay", selected)
      BY Zenon, <2>1, <3>1 DEF CalibrationInv
    <3> QED BY <2>3, <2>4, <3>1, <3>2, <3>3, EffectiveFacts
  <2>17. RecommendationIsSafe'
    <3> SUFFICES ASSUME validated
                 PROVE  /\ \A st \in Tuned, t \in 1..Trials : <<st, choice[st], t>> \in good
                        /\ \A t \in 1..ValidationTrials : <<"validation", 0, t>> \in good
                        /\ 2 * choice.frame >= 3 * slowest.first
                        /\ 2 * LastLook(choice.join) >= 3 * slowest.exit
                        /\ choice.frame >= applied.frame /\ choice.join >= applied.join
                        /\ choice.settle = applied.settle /\ choice.delay = applied.delay
                        /\ \A ms \in resets : 2 * timeout >= 3 * ms
      BY <2>1, <2>4, <2>11 DEF RecommendationIsSafe
    <3> QED BY ZenonT(30), <2>6, <2>7, <2>9, <2>10, <2>13, <2>14, <2>15, <2>16
  <2>18. ProbeTypeOK' /\ ProbeReports' BY Zenon, <2>1 DEF ProbeTypeOK, ProbeReports, probe_vars
  <2>19. CalibrationTypeOK' BY ZenonT(30), <2>1, <2>4, <2>11 DEF CalibrationTypeOK
  <2>20. CalibrationInv'
    <3>1. probe'.pc = "off" BY Zenon, <2>1 DEF probe_vars
    <3>2. ~InTrial' BY Zenon, <2>1, StageNames DEF InTrial
    <3>3. \A r \in rows' : r.success => <<r.stage, r.candidate, r.trial>> \in good'
      BY Zenon, <2>1 DEF CalibrationInv
    <3>4. /\ slowest'.first = 0 \/ \E r \in rows' : r.first >= slowest'.first
          /\ slowest'.exit = 0 \/ \E r \in rows' : r.join >= slowest'.exit
      BY Zenon, <2>1 DEF CalibrationInv
    <3>5. \A st \in Tuned : selected'[st] # None =>
            \A t \in 1..Trials : <<st, selected'[st], t>> \in good'
      BY Zenon, <2>1, <2>6
    <3>6. advice'.validated => \A st \in Tuned : advice'.selection[st] # None
      BY Zenon, <2>9, <2>11
    <3> QED BY ZenonT(30), <2>1, <3>1, <3>2, <3>3, <3>4, <3>5, <3>6 DEF CalibrationInv
  <2> QED BY Zenon, <2>17, <2>18, <2>19, <2>20
<1>1. CASE Recommend BY <1>1, <1>RecommendKeeps DEF Recommend
<1>2. CASE ~Recommend
  <2>1. CalibrationKept'
    BY Zenon, <1>2, <1>PreflightKeeps, <1>FullResetKeeps, <1>RunProbeKeeps, <1>NextStageKeeps
       DEF CalibrationNext
  <2>2. stage # "adopted" /\ stage' \notin {"done", "adopted"}
    <3>1. CASE NextStage BY Zenon, <3>1, <1>NextStageFacts DEF CalibrationKept, Tuned
    <3>2. CASE Preflight BY Zenon, <3>2 DEF Preflight
    <3>3. CASE full_reset \/ run_probe \/ run_probe_timeout
      <4>1. InTrial /\ stage' = stage
        BY Zenon, <3>3 DEF full_reset, run_probe, run_probe_timeout, Collected
      <4> QED BY Zenon, <4>1, StageNames DEF InTrial
    <3> QED BY <1>2, <3>1, <3>2, <3>3 DEF CalibrationNext
  <2> QED BY Zenon, <2>1, <2>2 DEF RecommendationIsSafe
<1> QED BY Zenon, <1>1, <1>2

-----------------------------------------------------------------------------
(* The startup benchmark as a whole.                                       *)

\* The inductive invariant: StartupInv, with what is recorded and recommended.
Good == StartupInv /\ HonestSoFar /\ RecommendationIsSafe

LEMMA GoodParts ==
    Good <=> /\ ProbeTypeOK /\ ProbeReports
             /\ CalibrationTypeOK /\ CalibrationInv /\ RecommendationIsSafe
             /\ CampaignTypeOK /\ CampaignInv /\ HonestSoFar
             /\ stage = "adopted" <=> cpc # "idle"
BY Zenon DEF Good, StartupInv

LEMMA InitGood == ASSUME Init PROVE Good
<1>1. ProbeTypeOK /\ ProbeReports
  BY OffFacts DEF Init, ProbeInit, ProbeTypeOK, ProbeReports
<1>2. probe.pc = "off" BY Zenon, OffFacts DEF Init, ProbeInit
<1>3. /\ stage = "idle" /\ place = FirstTrial /\ settle = 0
      /\ rows = {} /\ resets = {} /\ selected = Untested /\ applied = Untested
      /\ advice = NoAdvice /\ good = {} /\ slowest = [first |-> 0, exit |-> 0]
  BY Zenon DEF Init, CalibrationInit
<1>4. Untested \in Selections /\ \A st \in Tuned : Untested[st] = None
  BY Zenon DEF Untested, Selections
<1>5. CalibrationTypeOK
  <2>1. FirstTrial \in [candidate : Nat \ {0}, trial : Nat \ {0}] BY DEF FirstTrial
  <2>2. NoAdvice \in Advices BY Zenon DEF NoAdvice, Advices
  <2>3. IsFiniteSet({}) BY Zenon, FS_EmptySet
  <2> QED BY <1>3, <1>4, <2>1, <2>2, <2>3 DEF CalibrationTypeOK
<1>6. ~InTrial BY Zenon, <1>3, StageNames DEF InTrial
<1>7. CalibrationInv
  <2>1. ~advice.validated BY Zenon, <1>3 DEF NoAdvice
  <2>2. Unvalidated = rows BY Zenon, <1>3 DEF Unvalidated
  <2> QED BY ZenonT(30), <1>2, <1>3, <1>4, <1>6, <2>1, <2>2 DEF CalibrationInv
<1>8. RecommendationIsSafe BY Zenon, <1>3 DEF RecommendationIsSafe
<1>9. /\ cpc = "idle" /\ turn = 0 /\ attempts = <<>> /\ truth = <<>> /\ final = NoResult
      /\ locked = FALSE /\ cleanups = <<>>
  BY Zenon DEF Init, CampaignInit
<1>10. CampaignTypeOK
  <2>1. locked \in BOOLEAN BY Zenon, <1>9
  <2>2. /\ attempts \in Seq(AttemptRecords) /\ truth \in Seq(Truths)
        /\ cleanups \in Seq({"ok", "failed"})
    BY <1>9
  <2> QED BY Zenon, <1>9, <2>1, <2>2 DEF CampaignTypeOK, CampaignPCs
<1>11. CampaignInv
  <2>1. Len(attempts) = 0 /\ Len(truth) = 0 /\ Len(cleanups) = 0 BY Zenon, <1>9
  <2> QED BY <1>9, <2>1 DEF CampaignInv
<1>12. HonestSoFar BY <1>9 DEF HonestSoFar, RecordsAgree, FreshShown, FinalAgrees
<1> QED BY <1>1, <1>3, <1>5, <1>7, <1>8, <1>9, <1>10, <1>11, <1>12, GoodParts

LEMMA NextGood == ASSUME Good, Next PROVE Good'
\* The campaign while it is idle.
<1>IdleCampaign.
    ASSUME CampaignTypeOK, CampaignInv, HonestSoFar, cpc = "idle", UNCHANGED campaign_vars
    PROVE  CampaignTypeOK' /\ CampaignInv' /\ HonestSoFar'
  <2> USE <1>IdleCampaign
  <2>1. UNCHANGED <<cpc, config, turn, summary, attempts, truth, final, locked, cleanups>>
    BY Zenon DEF campaign_vars
  <2>2. HonestSoFar' BY Zenon, <2>1, SameRecords
  <2>3. CampaignTypeOK' BY Zenon, <2>1 DEF CampaignTypeOK
  <2>4. CampaignInv' BY Zenon, <2>1 DEF CampaignInv
  <2> QED BY Zenon, <2>2, <2>3, <2>4
\* The calibration once it is over.
<1>AdoptedCalibration.
    ASSUME CalibrationTypeOK, CalibrationInv, RecommendationIsSafe, stage = "adopted",
           UNCHANGED calibration_vars
    PROVE  CalibrationTypeOK' /\ CalibrationInv' /\ RecommendationIsSafe'
  <2> USE <1>AdoptedCalibration
  <2>1. UNCHANGED <<stage, place, settle, rows, resets, selected, applied, advice, good,
                    slowest>>
    BY Zenon DEF calibration_vars
  <2>2. ~InTrial BY Zenon, StageNames DEF InTrial
  <2>3. settle' \in Int /\ resets' \subseteq Nat /\ IsFiniteSet(resets')
    BY Zenon, <2>1 DEF CalibrationTypeOK
  <2>4. CalibrationTypeOK' /\ CalibrationInv' BY Zenon, <2>1, <2>2, <2>3, SameRows
  <2> QED BY Zenon, <2>1, <2>4 DEF RecommendationIsSafe
<1>AdoptKeeps. ASSUME Adopt PROVE Good'
  <2> USE <1>AdoptKeeps
  <2> USE GoodParts
  <2> DEFINE s == [frame |-> advice.selection.frame, join |-> advice.selection.join,
                   delay |-> advice.selection.delay]
  <2>1. /\ stage = "done" /\ advice.validated /\ Configure(s)
        /\ rows' = {} /\ resets' = {} /\ good' = {} /\ stage' = "adopted"
        /\ selected' = Untested /\ applied' = Untested /\ settle' = 0
        /\ UNCHANGED <<probe_vars, place, advice, slowest>>
    BY Zenon DEF Adopt
  <2>2. s \in Settings
    <3>1. advice \in Advices /\ \A st \in Tuned : advice.selection[st] # None
      BY Zenon, <2>1 DEF CalibrationTypeOK, CalibrationInv
    <3>2. advice.selection \in Selections BY Zenon, <2>1, <3>1 DEF Advices
    <3>3. \A st \in Tuned : advice.selection[st] \in Nat BY Zenon, <3>1, <3>2 DEF Selections
    <3>4. advice.selection.frame \in Nat /\ advice.selection.join \in Nat
            /\ advice.selection.delay \in Nat
      BY Zenon, <3>3 DEF Tuned
    <3> QED BY Zenon, <3>4 DEF Settings
  <2> HIDE DEF s
  <2>3. /\ cpc = "idle" /\ cpc' = "build" /\ turn' = 1 /\ config' \in Configs
        /\ UNCHANGED <<summary, attempts, truth, final, locked, cleanups>>
    <3>1. PICK method \in Methods, reset \in BOOLEAN :
            config' = [settings |-> s, method |-> method, reset_before_run |-> reset,
                       max |-> IF method = "none" THEN 1 ELSE MaxAttempts]
      BY Zenon, <2>1 DEF Configure
    <3>2. (IF method = "none" THEN 1 ELSE MaxAttempts) \in Nat BY Zenon, CampaignAssumptions
    <3>3. config' \in Configs BY Zenon, <2>2, <3>1, <3>2 DEF Configs
    <3> QED BY Zenon, <2>1, <3>3 DEF Configure
  <2>4. probe.pc = "off" /\ probe' = probe BY Zenon, <2>1 DEF CalibrationInv, probe_vars
  <2>5. ProbeTypeOK' /\ ProbeReports' BY Zenon, <2>1 DEF ProbeTypeOK, ProbeReports, probe_vars
  <2>6. CalibrationTypeOK'
    <3>1. Untested \in Selections BY Zenon DEF Untested, Selections
    <3> QED BY <2>1, <3>1, FS_EmptySet DEF CalibrationTypeOK
  <2>7. CalibrationInv'
    <3>1. ~InTrial' BY Zenon, <2>1, StageNames DEF InTrial
    <3> QED BY Zenon, <2>1, <3>1 DEF CalibrationInv
  <2>8. attempts = <<>> /\ truth = <<>> /\ final = NoResult /\ cleanups = <<>>
    <3>1. attempts = <<>> /\ final = NoResult /\ cleanups = <<>> BY Zenon, <2>3 DEF CampaignInv
    <3>2. Len(truth) = Len(attempts) + 0 BY Zenon, <2>3 DEF CampaignInv
    <3>3. Len(truth) = 0 BY <3>1, <3>2
    <3>4. truth = <<>> BY <3>3, SeqFacts DEF CampaignTypeOK
    <3> QED BY Zenon, <3>1, <3>4
  <2>9. HonestSoFar' BY Zenon, <2>3, <2>8, NoRecords
  <2>10. CampaignTypeOK' BY Zenon, <2>3 DEF CampaignTypeOK, CampaignPCs
  <2>11. CampaignInv'
    <3>1. Len(attempts) = 0 /\ Len(truth) = 0 /\ Len(cleanups) = 0 BY Zenon, <2>8
    <3> QED BY Zenon, <2>3, <2>4, <2>8, <3>1 DEF CampaignInv
  <2>12. RecommendationIsSafe' BY Zenon, <2>1 DEF RecommendationIsSafe
  <2>13. (stage = "adopted" <=> cpc # "idle")' BY Zenon, <2>1, <2>3
  <2> QED BY <2>5, <2>6, <2>7, <2>9, <2>10, <2>11, <2>12, <2>13 DEF Good, StartupInv
<1>1. /\ ProbeTypeOK /\ ProbeReports
      /\ CalibrationTypeOK /\ CalibrationInv /\ RecommendationIsSafe
      /\ CampaignTypeOK /\ CampaignInv /\ HonestSoFar
      /\ stage = "adopted" <=> cpc # "idle"
  BY Zenon, GoodParts
<1>2. CASE CalibrationNext /\ UNCHANGED campaign_vars
  <2>1. /\ ProbeTypeOK' /\ ProbeReports' /\ CalibrationTypeOK' /\ CalibrationInv'
        /\ RecommendationIsSafe' /\ stage # "adopted" /\ stage' # "adopted"
    BY Zenon, <1>1, <1>2, CalibrationStepKeeps DEF CalibrationKept
  <2>2. cpc = "idle" /\ cpc' = cpc BY Zenon, <1>1, <1>2, <2>1 DEF campaign_vars
  <2>3. CampaignTypeOK' /\ CampaignInv' /\ HonestSoFar'
    BY Zenon, <1>1, <1>2, <2>2, <1>IdleCampaign
  <2> QED BY Zenon, <2>1, <2>2, <2>3 DEF Good, StartupInv
<1>3. CASE Adopt BY Zenon, <1>3, <1>AdoptKeeps
<1>4. CASE CampaignNext /\ UNCHANGED calibration_vars
  <2>1. cpc # "idle" /\ cpc' # "idle"
    BY Zenon, <1>4 DEF CampaignNext, prebuild_bench, prepare_campaign, reset_before_run,
       run_attempt, AttemptEnds, AttemptTimesOut, AttemptCrashes, Summarized,
       classify_attempt, recover_usb_device, recover_depth_prime, recover_full_reset,
       Recovered, Continue, finish_run, clean_up
  <2>2. stage = "adopted" /\ stage' = stage BY Zenon, <1>1, <1>4, <2>1 DEF calibration_vars
  <2>3. CampaignKept' BY Zenon, <1>1, <1>4, CampaignStepKeeps DEF CampaignKept
  <2>4. CalibrationTypeOK' /\ CalibrationInv' /\ RecommendationIsSafe'
    BY <1>1, <1>4, <2>2, <1>AdoptedCalibration
  <2> QED BY Zenon, <2>1, <2>2, <2>3, <2>4 DEF CampaignKept, Good, StartupInv
<1>5. CASE ProbeStep /\ UNCHANGED <<calibration_vars, campaign_vars>>
  <2>1. /\ ProbeTypeOK' /\ ProbeReports' /\ probe'.fresh = probe.fresh
        /\ probe.pc \notin {"off", "exited", "crashed", "killed"}
        /\ probe'.pc \notin {"off", "killed"}
    BY Zenon, <1>1, <1>5, ProbeStepKeeps
  <2>2. /\ UNCHANGED <<stage, place, settle, rows, resets, selected, applied, advice,
                       good, slowest>>
        /\ UNCHANGED <<cpc, config, turn, summary, attempts, truth, final, locked,
                       cleanups>>
    BY Zenon, <1>5 DEF calibration_vars, campaign_vars
  <2>3. CalibrationTypeOK' /\ CalibrationInv'
    <3>1. settle' \in Int /\ resets' \subseteq Nat /\ IsFiniteSet(resets')
      BY Zenon, <1>1, <2>2 DEF CalibrationTypeOK
    <3>2. stage \notin {"idle", "refused", "done"} BY Zenon, <1>1, <2>1 DEF CalibrationInv
    <3>3. InTrial => ~StageOver /\ probe'.fresh BY Zenon, <1>1, <2>1 DEF CalibrationInv
    <3> QED BY Zenon, <1>1, <2>2, <3>1, <3>2, <3>3, SameRows
  <2>4. RecommendationIsSafe' BY Zenon, <1>1, <2>2 DEF RecommendationIsSafe
  <2>5. HonestSoFar' BY Zenon, <1>1, <2>2, SameRecords
  <2>6. CampaignTypeOK' BY Zenon, <1>1, <2>2 DEF CampaignTypeOK
  <2>7. CampaignInv'
    <3>1. cpc \in {"idle", "running", "classify"} BY Zenon, <1>1, <2>1 DEF CampaignInv
    <3>2. FreshDue' = FreshDue BY Zenon, <2>2 DEF FreshDue
    <3>3. cpc' = cpc /\ probe'.fresh = probe.fresh BY Zenon, <2>1, <2>2
    <3> QED BY Zenon, <1>1, <2>2, <3>1, <3>2, <3>3 DEF CampaignInv
  <2> QED BY Zenon, <1>1, <2>1, <2>2, <2>3, <2>4, <2>5, <2>6, <2>7 DEF Good, StartupInv
<1> QED BY Zenon, <1>2, <1>3, <1>4, <1>5 DEF Next

LEMMA StutterGood == ASSUME Good, UNCHANGED vars PROVE Good'
<1>1. /\ UNCHANGED <<probe, camera, upsets, uvc>>
      /\ UNCHANGED <<stage, place, settle, rows, resets, selected, applied, advice,
                     good, slowest>>
      /\ UNCHANGED <<cpc, config, turn, summary, attempts, truth, final, locked,
                     cleanups>>
  BY Zenon DEF vars, probe_vars, calibration_vars, campaign_vars
<1>2. ProbeTypeOK' /\ ProbeReports'
  BY Zenon, <1>1, GoodParts DEF ProbeTypeOK, ProbeReports
<1>3. CalibrationTypeOK' /\ CalibrationInv'
  <2>1. settle' \in Int /\ resets' \subseteq Nat /\ IsFiniteSet(resets')
    BY Zenon, <1>1, GoodParts DEF CalibrationTypeOK
  <2>2. /\ stage \in {"idle", "refused", "done"} => probe'.pc = "off"
        /\ (InTrial /\ probe'.pc # "off") => ~StageOver /\ probe'.fresh
    BY Zenon, <1>1, GoodParts DEF CalibrationInv
  <2> QED BY Zenon, <1>1, <2>1, <2>2, GoodParts, SameRows
<1>4. RecommendationIsSafe' BY Zenon, <1>1, GoodParts DEF RecommendationIsSafe
<1>5. HonestSoFar' BY Zenon, <1>1, GoodParts, SameRecords
<1>6. CampaignTypeOK' BY <1>1, GoodParts DEF CampaignTypeOK
<1>7. CampaignInv' BY Zenon, <1>1, GoodParts DEF CampaignInv, FreshDue
<1>8. (stage = "adopted" <=> cpc # "idle")' BY Zenon, <1>1, GoodParts
<1> QED BY Zenon, <1>2, <1>3, <1>4, <1>5, <1>6, <1>7, <1>8 DEF Good, StartupInv

\* The inductive invariant of the startup benchmark: the probe's report agrees
\* with what it did, the calibration's rows with the trials that went well, and
\* the campaign's records with the attempts.
THEOREM StartupInvariant == Spec => []Good
<1>1. Init => Good BY Zenon, InitGood
<1>2. Good /\ [Next]_vars => Good' BY Zenon, NextGood, StutterGood
<1> QED BY <1>1, <1>2, PTL DEF Spec

\* What the campaign records is what happened (parse_startup_trace.py and the
\* attempt loop of run_startup_campaign.py): an attempt is recorded as
\* successful exactly when its process ended by itself with every cycle done,
\* with the cycles it completed, and the row of the run hides no failed
\* attempt; for any number of cycles, attempts and runs, any interleaving of
\* the probe with its time-out, and whatever part of the output is lost.
THEOREM HonestRecords == Spec => []RecordsAreHonest
<1>1. Good => RecordsAreHonest BY Zenon, GoodParts, HonestFromParts
<1> QED BY <1>1, StartupInvariant, PTL

\* A validated recommendation (calibrate_startup_timings.py) rests on trials
\* that really went well on a camera just reset, has the safety factor over
\* the slowest startup of any stage, and waits no less than what was
\* validated; for any candidates, trials and waits of the camera.
THEOREM SafeRecommendation == Spec => []RecommendationIsSafe
<1>1. Good => RecommendationIsSafe BY Zenon, GoodParts
<1> QED BY <1>1, StartupInvariant, PTL

\* The inductive invariant: with TraceInv, every step attributes the lines.
Attributed == Good /\ TraceInv /\ UvcAttributed

LEMMA NextAttributed == ASSUME Attributed, Next PROVE Attributed'
<1>LaunchTraced.
    ASSUME NEW s \in Settings, NEW r \in BOOLEAN,
           NEW found \in {"fresh", "used", "wedged"}, Launch(s, r, found)
    PROVE  Traced'
  <2> USE <1>LaunchTraced
  <2> DEFINE m == Marker(1, "begin", 0)
  <2>1. probe' \in ProbeProcesses BY Zenon, LaunchFacts
  <2>2. m.name = "begin" /\ m.cycle = 1 /\ m.at = 0 BY Zenon DEF Marker
  <2>3. /\ probe'.pc = "open" /\ probe'.markers = <<m>> /\ probe'.cycle = 1
        /\ probe'.clock = 0 /\ uvc' = <<>>
    BY Zenon DEF Launch, Off
  <2> HIDE DEF m
  <2>4. /\ DOMAIN <<m>> = {1} /\ <<m>>[1] = m /\ Len(<<m>>) = 1 /\ <<m>> # <<>>
        /\ DOMAIN <<>> = {}
    OBVIOUS
  <2>5. MarksInv(probe')
    <3> DEFINE n == probe'.markers
    <3>1. DOMAIN n = {1} /\ n[1] = m BY Zenon, <2>3, <2>4
    <3>2. probe'.cycle = 1 /\ probe'.clock = 0 /\ probe'.pc = "open" BY Zenon, <2>3
    <3> HIDE DEF n
    <3>3. /\ CycleMarks(n, 1, "begin") = {1} /\ CycleMarks(n, 1, "end") = {}
      BY Zenon, <2>2, <3>1 DEF CycleMarks
    <3>4. MarkersOf(n, "begin") = {1} /\ MarkersOf(n, "end") = {}
      BY Zenon, <2>2, <3>1 DEF MarkersOf
    <3>5. \A i \in DOMAIN n : n[i].at <= probe'.clock BY <2>2, <3>1, <3>2
    <3>6. 1 \in 1..Cycles BY ProbeAssumptions
    <3>7. \A c \in 1..1 : c = 1 OBVIOUS
    <3>8. \A c \in 1..probe'.cycle : CycleMarks(n, c, "begin") # {} BY Zenon, <3>2, <3>3, <3>7
    <3>9. \A c \in 1..probe'.cycle :
            (c < probe'.cycle \/ probe'.pc = "delay") => CycleMarks(n, c, "end") # {}
      BY <3>2, <3>7
    <3>10. \A i \in MarkersOf(n, "begin") \cup MarkersOf(n, "end") :
             n[i].cycle \in 1..probe'.cycle
      BY <2>2, <3>1, <3>2, <3>4
    <3> QED BY <3>2, <3>3, <3>4, <3>5, <3>6, <3>8, <3>9, <3>10 DEF MarksInv, n
  <2>6. Shown'
    <3>1. classify_uvc_phase("begin") = "startup" BY Zenon DEF classify_uvc_phase
    <3>2. Doing' = "startup" BY Zenon, <2>3 DEF Doing
    <3> QED BY Zenon, <2>2, <2>3, <2>4, <3>1, <3>2 DEF Shown
  <2> QED BY Zenon, <2>3, <2>4, <2>5, <2>6 DEF Traced
<1>OffTraced. ASSUME probe' = Off PROVE Traced'
  <2> USE <1>OffTraced
  <2>1. probe'.pc = "off" BY Zenon, OffFacts
  <2> QED BY Zenon, <2>1 DEF Traced
<1>NotOverYet. ASSUME cpc' # "classify" PROVE AttemptOver' /\ UvcAttributed'
  BY Zenon, <1>NotOverYet DEF AttemptOver, UvcAttributed
<1>CalibrationTraced. ASSUME Good, Traced, CalibrationNext PROVE Traced'
  <2> USE <1>CalibrationTraced
  <2>1. CASE Preflight \/ NextStage \/ Recommend
    <3>1. probe' = probe /\ uvc' = uvc
      BY Zenon, <2>1 DEF Preflight, NextStage, Recommend, probe_vars
    <3> QED BY ZenonT(30), <3>1, SameTraced
  <2>2. CASE run_probe \/ run_probe_timeout
    <3>1. probe' = Off BY Zenon, <2>2 DEF run_probe, run_probe_timeout, Collected
    <3> QED BY Zenon, <3>1, <1>OffTraced
  <2>3. CASE full_reset
    <3>1. PICK found \in {"fresh", camera} :
            \/ Launch(current(stage, candidate), FALSE, found)
            \/ probe' = probe /\ uvc' = uvc
      BY <2>3, ZenonT(30) DEF full_reset
    <3>2. found \in {"fresh", "used", "wedged"} BY Zenon, GoodParts DEF ProbeTypeOK
    <3>3. current(stage, candidate) \in Settings
      <4>1. InTrial /\ ~StageOver BY Zenon, <2>3 DEF full_reset
      <4>2. CalibrationTypeOK /\ CalibrationInv BY Zenon, GoodParts
      <4> QED BY Zenon, <4>1, <4>2, CurrentFacts
    <3> QED BY Zenon, <3>1, <3>2, <3>3, <1>LaunchTraced, SameTraced
  <2> QED BY Zenon, <2>1, <2>2, <2>3 DEF CalibrationNext
<1>CampaignTraced.
    ASSUME Good, Traced, CampaignNext
    PROVE  Traced' /\ AttemptOver' /\ UvcAttributed'
  <2> USE <1>CampaignTraced
  <2>1. /\ ProbeTypeOK /\ CampaignTypeOK /\ camera \in {"fresh", "used", "wedged"}
    BY Zenon, GoodParts DEF ProbeTypeOK
  <2>2. CASE \/ prebuild_bench \/ prepare_campaign \/ reset_before_run \/ recover_usb_device
             \/ recover_depth_prime \/ recover_full_reset \/ finish_run \/ clean_up
    <3>1. probe' = probe /\ uvc' = uvc /\ cpc' # "classify"
      <4>1. CASE prebuild_bench \/ prepare_campaign \/ reset_before_run \/ finish_run
        BY Zenon, <4>1 DEF prebuild_bench, prepare_campaign, reset_before_run, finish_run,
                    probe_vars
      <4>2. CASE clean_up BY Zenon, <4>2 DEF clean_up
      <4>3. CASE recover_usb_device \/ recover_depth_prime \/ recover_full_reset
        BY Zenon, <4>3 DEF recover_usb_device, recover_depth_prime, recover_full_reset, Recovered,
                    Continue
      <4> QED BY Zenon, <2>2, <4>1, <4>2, <4>3
    <3> QED BY Zenon, <3>1, SameTraced, <1>NotOverYet
  <2>3. CASE run_attempt
    <3>1. /\ cpc = "attempt" /\ cpc' = "running" /\ Launch(config.settings, TRUE, camera)
      BY Zenon, <2>3 DEF run_attempt
    <3>2. config.settings \in Settings BY Zenon, <2>1, <3>1 DEF CampaignTypeOK, Configs
    <3>3. Traced' BY Zenon, <2>1, <3>1, <3>2, <1>LaunchTraced
    <3> QED BY Zenon, <3>1, <3>3, <1>NotOverYet
  <2>4. CASE AttemptEnds
    <3>1. probe.pc = "exited" /\ Summarized(probe.lines, FALSE) BY Zenon, <2>4 DEF AttemptEnds
    <3> QED BY Zenon, <2>1, <3>1, SummaryAttributed
  <2>5. CASE AttemptTimesOut
    <3>1. /\ probe.pc # "off" /\ \E n \in 0..Len(probe.lines) :
               Summarized(Append(SubSeq(probe.lines, 1, n),
                                 [kind |-> "error", error |-> "outer-timeout"]), TRUE)
      BY Zenon, <2>5 DEF AttemptTimesOut
    <3> QED BY Zenon, <2>1, <3>1, SummaryAttributed
  <2>6. CASE AttemptCrashes \/ classify_attempt
    <3>1. probe' = Off /\ cpc' # "classify"
      BY Zenon, <2>6 DEF AttemptCrashes, classify_attempt, Continue
    <3> QED BY Zenon, <3>1, <1>OffTraced, <1>NotOverYet
  <2> QED BY Zenon, <2>2, <2>3, <2>4, <2>5, <2>6 DEF CampaignNext
<1>1. Good /\ Traced /\ AttemptOver /\ UvcAttributed BY Zenon, TraceParts DEF Attributed
<1>2. Good' BY Zenon, <1>1, NextGood
<1>3. Traced' /\ AttemptOver' /\ UvcAttributed'
  <2>1. CASE CalibrationNext /\ UNCHANGED campaign_vars
    <3>1. stage # "adopted"
      BY Zenon, <1>1, <2>1, CalibrationStepKeeps, GoodParts DEF CalibrationKept
    <3>2. cpc' # "classify" BY Zenon, <1>1, <2>1, <3>1, GoodParts DEF campaign_vars
    <3> QED BY Zenon, <1>1, <2>1, <3>2, <1>CalibrationTraced, <1>NotOverYet
  <2>2. CASE Adopt
    <3>1. probe' = probe /\ uvc' = uvc /\ cpc' # "classify"
      BY Zenon, <2>2 DEF Adopt, Configure, probe_vars
    <3> QED BY Zenon, <1>1, <3>1, SameTraced, <1>NotOverYet
  <2>3. CASE CampaignNext /\ UNCHANGED calibration_vars
    BY Zenon, <1>1, <2>3, <1>CampaignTraced
  <2>4. CASE ProbeStep /\ UNCHANGED <<calibration_vars, campaign_vars>>
    <3>1. ProbeTypeOK /\ ProbeReports BY Zenon, <1>1, GoodParts
    <3>2. probe.pc \notin {"exited", "killed"} BY Zenon, <2>4, <3>1, ProbeStepKeeps
    <3>3. cpc' # "classify" BY Zenon, <1>1, <2>4, <3>2 DEF AttemptOver, campaign_vars
    <3> QED BY ZenonT(30), <1>1, <2>4, <3>1, <3>3, ProbeStepTraced, <1>NotOverYet
  <2> QED BY Zenon, <2>1, <2>2, <2>3, <2>4 DEF Next
<1> QED BY Zenon, <1>2, <1>3, TraceParts DEF Attributed

LEMMA StutterAttributed == ASSUME Attributed, UNCHANGED vars PROVE Attributed'
<1>1. UNCHANGED <<probe, uvc, cpc, truth, summary>>
  BY Zenon DEF vars, probe_vars, calibration_vars, campaign_vars
<1>2. Good' BY Zenon, StutterGood DEF Attributed
<1>3. Traced' BY Zenon, <1>1, SameTraced, TraceParts DEF Attributed
<1>4. AttemptOver' BY Zenon, <1>1, TraceParts DEF AttemptOver, Attributed
<1>5. UvcAttributed' BY Zenon, <1>1 DEF UvcAttributed, NearMarker, Attributed
<1> QED BY Zenon, <1>2, <1>3, <1>4, <1>5, TraceParts DEF Attributed

\* A line of the kernel log is counted (parse_startup_trace.py) under the phase
\* the probe was really in, and for a process that ended by itself in the cycle
\* it was in, unless its rounded stamp precedes a marker that it followed or it
\* came while an exception was destroying the pipeline; for any number of
\* cycles and lines, any interleaving with the probe and its time-out.  The
\* invariant it rests on is TraceInv: the markers of a cycle bracket it, the
\* last one shows what the probe is doing, and each line keeps its place
\* between two of them.
THEOREM UvcAttribution == Spec => []UvcAttributed
<1>1. Init => Attributed
  <2> SUFFICES ASSUME Init PROVE Attributed OBVIOUS
  <2>1. Good BY Zenon, InitGood
  <2>2. probe.pc = "off" /\ cpc = "idle"
    BY Zenon, OffFacts DEF Init, ProbeInit, CampaignInit
  <2> QED BY Zenon, <2>1, <2>2, TraceParts DEF Attributed, Traced, AttemptOver, UvcAttributed
<1>2. Attributed /\ [Next]_vars => Attributed' BY NextAttributed, StutterAttributed
<1>3. Attributed => UvcAttributed BY Zenon DEF Attributed
<1> QED BY <1>1, <1>2, <1>3, PTL DEF Spec
==============================================================================
