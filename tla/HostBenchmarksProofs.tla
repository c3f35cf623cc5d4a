------------------------ MODULE HostBenchmarksProofs ------------------------
(***************************************************************************)
(* The proofs of what the Timerlat campaign and the overhead benchmark     *)
(* promise, and of what they leave behind.  The induction over the bins of *)
(* a histogram is made by hand: a set of natural numbers has a least one.  *)
(***************************************************************************)
EXTENDS HostBenchmarks, WellFoundedInduction, TLAPS

-----------------------------------------------------------------------------
(* Timerlat.                                                               *)

\* Every non-empty set of natural numbers has a least element.
LEMMA LeastNumber ==
    ASSUME NEW T, T \subseteq Nat, T # {}
    PROVE  \E n \in T : \A m \in T : n <= m
<1>1. PICK n \in T : \A m \in T : ~(<<m, n>> \in OpToRel(<, Nat))
  BY NatLessThanWellFounded, WFMin, Zenon
<1>2. ASSUME NEW m \in T PROVE n <= m
  <2>1. ~(<<m, n>> \in OpToRel(<, Nat)) BY Zenon, <1>1
  <2>2. m \in Nat /\ n \in Nat BY Zenon
  <2>3. ~(m < n) BY Zenon, <2>1, <2>2 DEF OpToRel
  <2> QED BY <2>2, <2>3
<1> QED BY Zenon, <1>2

LEMMA LeastIsMin ==
    ASSUME NEW T, T \subseteq Nat, T # {}
    PROVE  Min(T) \in T /\ \A m \in T : Min(T) <= m
<1>1. \E n \in T : \A m \in T : n <= m BY Zenon, LeastNumber
<1> QED BY Zenon, <1>1 DEF Min

\* A set of natural numbers with a bound has a greatest element: its least bound.
LEMMA GreatestIsMax ==
    ASSUME NEW T, T \subseteq Nat, T # {}, NEW N \in Nat, \A m \in T : m <= N
    PROVE  Max(T) \in T /\ \A m \in T : m <= Max(T)
<1> DEFINE Bounds == {n \in Nat : \A m \in T : m <= n}
<1>1. PICK n \in Bounds : \A k \in Bounds : n <= k
  <2>1. N \in Bounds BY Zenon
  <2> QED BY Zenon, <2>1, LeastNumber
<1>2. n \in T
  <2> SUFFICES ASSUME n \notin T PROVE FALSE BY Zenon
  <2>1. n \in Nat /\ \A m \in T : m \in Nat /\ m <= n /\ m # n BY Zenon
  <2>2. n # 0
    <3>1. PICK m \in T : TRUE BY Zenon
    <3> QED BY <2>1, <3>1
  <2>3. n - 1 \in Bounds BY <2>1, <2>2
  <2> QED BY <1>1, <2>1, <2>3
<1>3. \E x \in T : \A m \in T : x >= m BY Zenon, <1>2
<1>4. Max(T) \in T /\ \A m \in T : Max(T) >= m BY Zenon, <1>3 DEF Max
<1> QED BY Zenon, <1>4

LEMMA CumulativeStep ==
    ASSUME NEW h \in Columns
    PROVE  cumulative(h) =
             [b \in 0..LastBucket |->
                h.count[b] + (IF b = 0 THEN 0 ELSE cumulative(h)[b - 1])]
<1> DEFINE Summed(g) == [b \in 0..LastBucket |->
                         h.count[b] + (IF b = 0 THEN 0 ELSE g[b - 1])]
           Upto(n, g) == g = [b \in 0..n |->
                                h.count[b] + (IF b = 0 THEN 0 ELSE g[b - 1])]
           Stuck == {n \in 0..LastBucket : ~\E g : Upto(n, g)}
<1>0. LastBucket \in Nat BY Zenon, TimerlatAssumption
<1>1. Stuck = {}
  <2> SUFFICES ASSUME Stuck # {} PROVE FALSE BY Zenon
  <2>1. PICK n \in Stuck : \A m \in Stuck : n <= m
    <3>1. Stuck \subseteq Nat BY <1>0
    <3> QED BY Zenon, <3>1, LeastNumber
  <2>2. n \in Nat /\ n <= LastBucket BY <1>0
  <2>3. n # 0
    <3> DEFINE g == [b \in 0..0 |-> h.count[b]]
    <3>1. \A b \in 0..0 : b = 0 /\ h.count[b] \in Nat BY <1>0 DEF Columns
    <3>2. Upto(0, g) BY <3>1
    <3> QED BY Zenon, <2>1, <3>2
  <2>4. n - 1 \notin Stuck /\ n - 1 \in 0..LastBucket
    <3> HIDE DEF Stuck
    <3> QED BY <1>0, <2>1, <2>2, <2>3
  <2>5. PICK g : Upto(n - 1, g) BY Zenon, <2>4
  <2> DEFINE gn == [b \in 0..n |-> IF b = n THEN h.count[n] + g[n - 1] ELSE g[b]]
  <2>6. Upto(n, gn)
    <3>1. ASSUME NEW b \in 0..n
          PROVE  gn[b] = h.count[b] + (IF b = 0 THEN 0 ELSE gn[b - 1])
      <4>1. CASE b = n
        <5>1. n - 1 \in 0..n /\ n - 1 # n BY <2>2, <2>3
        <5> QED BY Zenon, <2>3, <4>1, <5>1
      <4>2. CASE b # n
        <5>1. b \in 0..(n - 1) BY <2>2, <4>2
        <5>2. b = 0 \/ (b - 1 \in 0..n /\ b - 1 # n) BY <2>2, <5>1
        <5> QED BY Zenon, <2>5, <4>2, <5>1, <5>2
      <4> QED BY Zenon, <4>1, <4>2
    <3> HIDE DEF gn
    <3>2. gn = [b \in 0..n |-> gn[b]] BY Zenon DEF gn
    <3> QED BY Zenon, <3>1, <3>2
  <2> QED BY Zenon, <2>1, <2>6
<1>2. LastBucket \in 0..LastBucket BY <1>0
<1>3. \E g : g = Summed(g)
  <2>1. LastBucket \notin Stuck
    <3> HIDE DEF Stuck
    <3> QED BY Zenon, <1>1
  <2> QED BY Zenon, <1>2, <2>1
<1>4. cumulative(h) = CHOOSE g : g = Summed(g) BY Zenon DEF cumulative
<1> HIDE DEF Summed
<1>5. cumulative(h) = Summed(cumulative(h)) BY Zenon, <1>3, <1>4
<1> QED BY Zenon, <1>5 DEF Summed

LEMMA CumulativeFacts ==
    ASSUME NEW h \in Columns
    PROVE  /\ \A b \in 0..LastBucket : cumulative(h)[b] \in Nat
           /\ \A a, b \in 0..LastBucket :
                a <= b => cumulative(h)[a] <= cumulative(h)[b]
<1> DEFINE u == cumulative(h)
<1>0. LastBucket \in Nat BY Zenon, TimerlatAssumption
<1>1. \A b \in 0..LastBucket : h.count[b] \in Nat BY Zenon DEF Columns
<1>2. \A b \in 0..LastBucket :
        u[b] = h.count[b] + (IF b = 0 THEN 0 ELSE u[b - 1])
  BY Zenon, CumulativeStep
<1> HIDE DEF u
<1>3. ASSUME NEW b \in 0..LastBucket PROVE u[b] \in Nat
  <2> DEFINE T == {n \in 0..LastBucket : u[n] \notin Nat}
  <2> SUFFICES T = {} BY Zenon
  <2> SUFFICES ASSUME T # {} PROVE FALSE BY Zenon
  <2>1. T \subseteq Nat BY <1>0
  <2>2. PICK n \in T : \A m \in T : n <= m BY Zenon, <2>1, LeastNumber
  <2>3. n \in Nat /\ n \in 0..LastBucket /\ u[n] \notin Nat BY Zenon, <2>1
  <2>4. n # 0 BY <1>1, <1>2, <2>3
  <2>5. n - 1 \in 0..LastBucket BY <1>0, <2>3, <2>4
  <2>6. u[n - 1] \in Nat BY <2>2, <2>3, <2>5
  <2> QED BY <1>1, <1>2, <2>3, <2>4, <2>6
<1>4. ASSUME NEW a \in 0..LastBucket, NEW b \in 0..LastBucket, a <= b
      PROVE  u[a] <= u[b]
  <2> DEFINE T == {n \in 0..LastBucket : a <= n /\ ~(u[a] <= u[n])}
  <2> SUFFICES T = {} BY Zenon, <1>4
  <2> SUFFICES ASSUME T # {} PROVE FALSE BY Zenon
  <2>1. T \subseteq Nat BY <1>0
  <2>2. PICK n \in T : \A m \in T : n <= m BY Zenon, <2>1, LeastNumber
  <2>3. n \in Nat /\ n \in 0..LastBucket /\ a <= n /\ ~(u[a] <= u[n]) BY Zenon, <2>1
  <2>4. a # n /\ n # 0 /\ a \in Nat BY <1>0, <1>3, <2>3
  <2>5. n - 1 \in 0..LastBucket /\ a <= n - 1 BY <1>0, <2>3, <2>4
  <2>6. u[a] <= u[n - 1] BY <2>2, <2>3, <2>5
  <2>7. u[n] = h.count[n] + u[n - 1] BY Zenon, <1>2, <2>3, <2>4
  <2> QED BY <1>1, <1>3, <2>3, <2>5, <2>6, <2>7
<1> QED BY Zenon, <1>3, <1>4 DEF u

\* Above the nearest rank of 999/1000 there is at most one sample in a thousand.
LEMMA NearestRankFacts ==
    ASSUME NEW h \in Columns,
           _nearest_rank(h, Total(h), 999, 1000) # Null
    PROVE  LET r == _nearest_rank(h, Total(h), 999, 1000) IN
           /\ r \in 0..LastBucket
           /\ 1000 * (Total(h) - cumulative(h)[r]) <= Total(h)
<1> DEFINE r == _nearest_rank(h, Total(h), 999, 1000)
           target == (999 * Total(h) + 1000 - 1) \div 1000
           R == {b \in 0..LastBucket : cumulative(h)[b] >= Max({1, target})}
<1>0. LastBucket \in Nat BY TimerlatAssumption
<1>1. Total(h) \in Nat BY <1>0, CumulativeFacts DEF Total, Columns
<1>2. target \in Nat BY <1>1
<1>3. r = Min(R) /\ R # {} BY DEF _nearest_rank
<1> HIDE DEF target
<1>4. Max({1, target}) \in Nat /\ target <= Max({1, target})
  <2>1. \E x \in {1, target} : \A y \in {1, target} : x >= y BY <1>2
  <2>2. /\ Max({1, target}) \in {1, target}
        /\ \A y \in {1, target} : Max({1, target}) >= y
    BY <2>1 DEF Max
  <2> QED BY <1>2, <2>2
<1>5. r \in R
  <2>1. R \subseteq Nat BY <1>0
  <2> HIDE DEF R, r
  <2> QED BY ZenonT(30), <1>3, <2>1, LeastIsMin
<1> HIDE DEF r
<1>6. r \in 0..LastBucket /\ cumulative(h)[r] >= Max({1, target}) BY <1>5
<1>7. cumulative(h)[r] \in Nat BY <1>6, CumulativeFacts
<1>8. cumulative(h)[r] >= target BY <1>2, <1>4, <1>6, <1>7
<1>9. 1000 * (Total(h) - cumulative(h)[r]) <= Total(h)
  BY <1>1, <1>7, <1>8 DEF target
<1> QED BY <1>6, <1>9 DEF r

\* The worst of the CPUs' p99.9 is at least each of them, so it leaves no more
\* samples above it.
LEMMA TailTableFacts ==
    ASSUME NEW hist \in [CPUs -> Columns], p999_us_max_cpu(hist) # Null,
           NEW c \in CPUs
    PROVE  1000 * (Total(hist[c]) - cumulative(hist[c])[p999_us_max_cpu(hist)])
             <= Total(hist[c])
<1> DEFINE rank(d) == _nearest_rank(hist[d], Total(hist[d]), 999, 1000)
           values == {rank(d) : d \in CPUs}
           t == p999_us_max_cpu(hist)
<1>0. LastBucket \in Nat BY Zenon, TimerlatAssumption
<1>1. Null \notin values /\ t = Max(values)
  BY DEF p999_us_max_cpu, _maximum_known
<1>2. ASSUME NEW d \in CPUs
      PROVE  /\ rank(d) \in 0..LastBucket
             /\ 1000 * (Total(hist[d]) - cumulative(hist[d])[rank(d)])
                  <= Total(hist[d])
  <2>1. rank(d) # Null BY <1>1
  <2>2. hist[d] \in Columns BY Zenon
  <2> HIDE DEF rank
  <2> QED BY <2>1, <2>2, NearestRankFacts DEF rank
<1> HIDE DEF rank, t
<1>3. t \in values /\ rank(c) <= t
  <2>1. values \subseteq Nat /\ values # {} /\ \A m \in values : m <= LastBucket
    BY <1>0, <1>2
  <2>2. rank(c) \in values BY Zenon
  <2> HIDE DEF values
  <2> QED BY Zenon, <1>0, <1>1, <2>1, <2>2, GreatestIsMax
<1>4. t \in 0..LastBucket BY <1>2, <1>3
<1>5. /\ Total(hist[c]) \in Nat
      /\ cumulative(hist[c])[t] \in Nat /\ cumulative(hist[c])[rank(c)] \in Nat
      /\ cumulative(hist[c])[rank(c)] <= cumulative(hist[c])[t]
  <2>1. hist[c] \in Columns BY Zenon
  <2>2. LastBucket \in 0..LastBucket /\ rank(c) \in 0..LastBucket BY <1>0, <1>2
  <2>3. cumulative(hist[c])[LastBucket] \in Nat /\ hist[c].over \in Nat
    BY Zenon, <2>1, <2>2, CumulativeFacts DEF Columns
  <2> QED BY <1>3, <1>4, <2>1, <2>2, <2>3, CumulativeFacts DEF Total
<1> QED BY <1>2, <1>5 DEF t
LEMMA Constants == NoCamera \in Probes /\ NoOutput \in AttemptOutputs
BY DEF NoCamera, Probes, ProbeStates, NoOutput, AttemptOutputs

LEMMA ProbeEnters ==
    ASSUME NEW c \in Probes, NEW s \in ProbeStates
    PROVE  [c EXCEPT !.st = s] \in Probes
BY Zenon DEF Probes

LEMMA ProbeSteady ==
    ASSUME NEW c \in Probes
    PROVE  [c EXCEPT !.st = "streaming", !.marker = TRUE] \in Probes
BY Zenon DEF Probes, ProbeStates

LEMMA ProbeStreams ==
    ASSUME NEW c \in Probes, NEW s \in ProbeStates, NEW n \in Int
    PROVE  [c EXCEPT !.left = n, !.st = s] \in Probes
BY Zenon DEF Probes

LEMMA Histogram ==
    ASSUME NEW o \in AttemptOutputs, NEW h \in [CPUs -> Histograms] \cup {Null},
           NEW n \in {0, 1, 124}
    PROVE  [o EXCEPT !.rc = n, !.parse = h] \in AttemptOutputs
BY Zenon DEF AttemptOutputs

LEMMA OutputFacts ==
    ASSUME NEW o \in AttemptOutputs
    PROVE  /\ [o EXCEPT !.ready = TRUE] \in AttemptOutputs
           /\ \A v \in BOOLEAN : [o EXCEPT !.valid = v] \in AttemptOutputs
BY Zenon DEF AttemptOutputs

LEMMA TimerlatTypesStep ==
    ASSUME TimerlatTypeOK, [TimerlatNext]_timerlatVars
    PROVE  TimerlatTypeOK'
<1> DEFINE Others == /\ pc' \in {"build", "run", "attempt", "noise", "camera",
                                 "popen", "barrier", "timerlat", "sampling",
                                 "finish", "stop_camera", "finally",
                                 "finally_raise", "verdict", "row", "cleanup",
                                 "over"}
                     /\ case' \in Cases
                     /\ active' \in BOOLEAN /\ noise' \in {"off", "on", "died"}
                     /\ rtla' \in [st : {"off", "run"}, left : Nat]
                     /\ gap' \in BOOLEAN
<1>0. TimerlatTypeOK' <=> cam' \in Probes /\ out' \in AttemptOutputs /\ Others
  BY Zenon DEF TimerlatTypeOK
<1>1. CASE prebuild_timerlat
  <2>1. cam' \in Probes BY Zenon, <1>1 DEF TimerlatTypeOK, prebuild_timerlat, Stay
  <2>2. out' \in AttemptOutputs BY Zenon, <1>1 DEF TimerlatTypeOK, prebuild_timerlat, Stay
  <2>3. Others BY Zenon, <1>1 DEF TimerlatTypeOK, prebuild_timerlat, Stay
  <2> QED BY Zenon, <1>0, <2>1, <2>2, <2>3
<1>2. CASE prepare
  <2>1. cam' \in Probes BY Zenon, <1>2, Constants DEF TimerlatTypeOK, prepare, Stay
  <2>2. out' \in AttemptOutputs BY Zenon, <1>2, Constants DEF TimerlatTypeOK, prepare, Stay
  <2>3. Others BY Zenon, <1>2 DEF TimerlatTypeOK, prepare, Stay, NoRtla
  <2> QED BY Zenon, <1>0, <2>1, <2>2, <2>3
<1>3. CASE start_noise
  <2>1. cam' \in Probes BY Zenon, <1>3 DEF TimerlatTypeOK, start_noise, Stay
  <2>2. out' \in AttemptOutputs BY Zenon, <1>3 DEF TimerlatTypeOK, start_noise, Stay
  <2>3. Others BY Zenon, <1>3 DEF TimerlatTypeOK, start_noise, Stay
  <2> QED BY Zenon, <1>0, <2>1, <2>2, <2>3
<1>4. CASE no_camera
  <2>1. cam' \in Probes BY Zenon, <1>4 DEF TimerlatTypeOK, no_camera, Stay
  <2>2. out' \in AttemptOutputs BY Zenon, <1>4, OutputFacts DEF TimerlatTypeOK, no_camera, Stay
  <2>3. Others BY Zenon, <1>4 DEF TimerlatTypeOK, no_camera, Stay
  <2> QED BY Zenon, <1>0, <2>1, <2>2, <2>3
<1>5. CASE register_camera
  <2>1. cam' \in Probes BY Zenon, <1>5 DEF TimerlatTypeOK, register_camera, Stay
  <2>2. out' \in AttemptOutputs BY Zenon, <1>5 DEF TimerlatTypeOK, register_camera, Stay
  <2>3. Others BY Zenon, <1>5 DEF TimerlatTypeOK, register_camera, Stay
  <2> QED BY Zenon, <1>0, <2>1, <2>2, <2>3
<1>6. CASE start_camera
  <2>1. cam' \in Probes
    <3>1. cam' = [st |-> "starting", left |-> Warmup + Duration + Guard,
                  marker |-> FALSE]
      BY Zenon, <1>6 DEF start_camera, NoCamera
    <3>2. Warmup + Duration + Guard \in Int BY TimerlatAssumption
    <3> QED BY Zenon, <3>1, <3>2 DEF Probes, ProbeStates
  <2>2. out' \in AttemptOutputs BY Zenon, <1>6 DEF TimerlatTypeOK, start_camera, Stay
  <2>3. Others BY Zenon, <1>6 DEF TimerlatTypeOK, start_camera, Stay
  <2> QED BY Zenon, <1>0, <2>1, <2>2, <2>3
<1>7. CASE wait_until_steady
  <2>1. cam' \in Probes BY Zenon, <1>7 DEF TimerlatTypeOK, wait_until_steady, Stay
  <2>2. out' \in AttemptOutputs BY Zenon, <1>7, OutputFacts DEF TimerlatTypeOK, wait_until_steady, Stay
  <2>3. Others BY Zenon, <1>7 DEF TimerlatTypeOK, wait_until_steady, Stay
  <2> QED BY Zenon, <1>0, <2>1, <2>2, <2>3
<1>8. CASE start_rtla
  <2>1. cam' \in Probes BY Zenon, <1>8 DEF TimerlatTypeOK, start_rtla, Stay
  <2>2. out' \in AttemptOutputs BY Zenon, <1>8 DEF TimerlatTypeOK, start_rtla, Stay
  <2>3. Others BY <1>8, TimerlatAssumption DEF TimerlatTypeOK, start_rtla, Stay
  <2> QED BY Zenon, <1>0, <2>1, <2>2, <2>3
<1>9. CASE tick
  <2>1. cam' \in Probes
    <3>1. cam.left - 1 \in Int /\ cam.st \in ProbeStates
      BY DEF TimerlatTypeOK, Probes
    <3>2. CASE cam.st # "streaming" BY Zenon, <1>9, <3>2 DEF tick, TimerlatTypeOK
    <3>3. CASE cam.st = "streaming" /\ cam.left = 1
      <4>1. cam' = [cam EXCEPT !.left = cam.left - 1, !.st = "done"]
        BY Zenon, <1>9, <3>3 DEF tick
      <4> QED BY Zenon, <3>1, <4>1, ProbeStreams DEF TimerlatTypeOK, ProbeStates
    <3>4. CASE cam.st = "streaming" /\ cam.left # 1
      <4>1. cam' = [cam EXCEPT !.left = cam.left - 1, !.st = cam.st]
        BY Zenon, <1>9, <3>4 DEF tick
      <4> QED BY Zenon, <3>1, <4>1, ProbeStreams DEF TimerlatTypeOK
    <3> QED BY Zenon, <3>2, <3>3, <3>4
  <2>2. out' \in AttemptOutputs BY Zenon, <1>9 DEF TimerlatTypeOK, tick, Stay
  <2>3. Others BY <1>9, TimerlatAssumption DEF TimerlatTypeOK, tick, Stay
  <2> QED BY Zenon, <1>0, <2>1, <2>2, <2>3
<1>10. CASE rtla_ends
  <2>1. cam' \in Probes BY Zenon, <1>10 DEF TimerlatTypeOK, rtla_ends, Stay
  <2>2. out' \in AttemptOutputs
    <3>1. PICK h \in [CPUs -> Histograms] \cup {Null}, n \in {0, 1, 124} :
            out' = [out EXCEPT !.rc = n, !.parse = h]
      BY ZenonT(30), <1>10 DEF rtla_ends
    <3>2. out \in AttemptOutputs BY Zenon DEF TimerlatTypeOK
    <3>3. [out EXCEPT !.rc = n, !.parse = h] \in AttemptOutputs BY Zenon, <3>2, Histogram
    <3> QED BY Zenon, <3>1, <3>3
  <2>3. Others BY Zenon, <1>10 DEF TimerlatTypeOK, rtla_ends, Stay, NoRtla
  <2> QED BY Zenon, <1>0, <2>1, <2>2, <2>3
<1>11. CASE finish
  <2>1. cam' \in Probes BY Zenon, <1>11, ProbeEnters DEF TimerlatTypeOK, finish, Stay, Reaped, Ended, ProbeStates
  <2>2. out' \in AttemptOutputs BY Zenon, <1>11 DEF TimerlatTypeOK, finish, Stay
  <2>3. Others BY Zenon, <1>11 DEF TimerlatTypeOK, finish, Stay, Reaped
  <2> QED BY Zenon, <1>0, <2>1, <2>2, <2>3
<1>12. CASE stop_camera
  <2>1. cam' \in Probes BY Zenon, <1>12, ProbeEnters DEF TimerlatTypeOK, stop_camera, Stay, Reaped, Killed, ProbeStates
  <2>2. out' \in AttemptOutputs BY Zenon, <1>12 DEF TimerlatTypeOK, stop_camera, Stay
  <2>3. Others BY Zenon, <1>12 DEF TimerlatTypeOK, stop_camera, Stay, Reaped
  <2> QED BY Zenon, <1>0, <2>1, <2>2, <2>3
<1>13. CASE finally
  <2>1. cam' \in Probes BY Zenon, <1>13, ProbeEnters DEF TimerlatTypeOK, finally, Stay, ProbeStates
  <2>2. out' \in AttemptOutputs BY Zenon, <1>13, OutputFacts DEF TimerlatTypeOK, finally, Stay
  <2>3. Others BY Zenon, <1>13 DEF TimerlatTypeOK, finally, Stay
  <2> QED BY Zenon, <1>0, <2>1, <2>2, <2>3
<1>14. CASE verdict
  <2>1. cam' \in Probes BY Zenon, <1>14 DEF TimerlatTypeOK, verdict
  <2>2. out' \in AttemptOutputs BY Zenon, <1>14 DEF TimerlatTypeOK, verdict
  <2>3. Others BY Zenon, <1>14 DEF TimerlatTypeOK, verdict
  <2> QED BY Zenon, <1>0, <2>1, <2>2, <2>3
<1>15. CASE next_run
  <2>1. cam' \in Probes BY Zenon, <1>15 DEF TimerlatTypeOK, next_run
  <2>2. out' \in AttemptOutputs BY Zenon, <1>15, Constants DEF TimerlatTypeOK, next_run
  <2>3. Others BY Zenon, <1>15 DEF TimerlatTypeOK, next_run
  <2> QED BY Zenon, <1>0, <2>1, <2>2, <2>3
<1>16. CASE cleanup
  <2>1. cam' \in Probes BY Zenon, <1>16, ProbeEnters DEF TimerlatTypeOK, cleanup, ProbeStates
  <2>2. out' \in AttemptOutputs BY Zenon, <1>16 DEF TimerlatTypeOK, cleanup
  <2>3. Others BY Zenon, <1>16 DEF TimerlatTypeOK, cleanup
  <2> QED BY Zenon, <1>0, <2>1, <2>2, <2>3
<1>17. CASE probe_steady
  <2>1. cam' \in Probes BY Zenon, <1>17, ProbeSteady DEF TimerlatTypeOK, probe_steady, Environment, ProbeStates
  <2>2. out' \in AttemptOutputs BY Zenon, <1>17 DEF TimerlatTypeOK, probe_steady, Environment
  <2>3. Others BY Zenon, <1>17 DEF TimerlatTypeOK, probe_steady, Environment
  <2> QED BY Zenon, <1>0, <2>1, <2>2, <2>3
<1>18. CASE probe_fails
  <2>1. cam' \in Probes BY Zenon, <1>18, ProbeEnters DEF TimerlatTypeOK, probe_fails, Environment, ProbeStates
  <2>2. out' \in AttemptOutputs BY Zenon, <1>18 DEF TimerlatTypeOK, probe_fails, Environment
  <2>3. Others BY Zenon, <1>18 DEF TimerlatTypeOK, probe_fails, Environment
  <2> QED BY Zenon, <1>0, <2>1, <2>2, <2>3
<1>19. CASE noise_dies
  <2>1. cam' \in Probes BY Zenon, <1>19 DEF TimerlatTypeOK, noise_dies, Environment
  <2>2. out' \in AttemptOutputs BY Zenon, <1>19 DEF TimerlatTypeOK, noise_dies, Environment
  <2>3. Others BY Zenon, <1>19 DEF TimerlatTypeOK, noise_dies, Environment
  <2> QED BY Zenon, <1>0, <2>1, <2>2, <2>3
<1>20. CASE interrupt
  <2>1. cam' \in Probes BY Zenon, <1>20 DEF TimerlatTypeOK, interrupt
  <2>2. out' \in AttemptOutputs BY Zenon, <1>20 DEF TimerlatTypeOK, interrupt
  <2>3. Others BY Zenon, <1>20 DEF TimerlatTypeOK, interrupt, NoRtla
  <2> QED BY Zenon, <1>0, <2>1, <2>2, <2>3
<1>21. CASE UNCHANGED timerlatVars BY Zenon, <1>21 DEF timerlatVars, TimerlatTypeOK
<1> QED
  BY Zenon, <1>1, <1>2, <1>3, <1>4, <1>5, <1>6, <1>7, <1>8, <1>9, <1>10, <1>11, <1>12, <1>13, <1>14, <1>15, <1>16, <1>17, <1>18, <1>19, <1>20, <1>21
  DEF TimerlatNext, Runner

LEMMA StoppableStep ==
    ASSUME TimerlatTypeOK, StoppableProbe, [TimerlatNext]_timerlatVars
    PROVE  StoppableProbe'
<1>1. CASE prebuild_timerlat
  BY Zenon, <1>1
  DEF prebuild_timerlat, Stay, TimerlatTypeOK, Probes, ProbeStates, StoppableProbe, TimerlatLeavesNothing, Streams
<1>2. CASE prepare
  BY Zenon, <1>2
  DEF prepare, Stay, NoOutput, NoCamera, NoRtla, TimerlatTypeOK, Probes, ProbeStates, StoppableProbe, TimerlatLeavesNothing, Streams
<1>3. CASE start_noise
  BY Zenon, <1>3
  DEF start_noise, Stay, TimerlatTypeOK, Probes, ProbeStates, StoppableProbe, TimerlatLeavesNothing, Streams
<1>4. CASE no_camera
  BY Zenon, <1>4
  DEF no_camera, Stay, TimerlatTypeOK, Probes, ProbeStates, StoppableProbe, TimerlatLeavesNothing, Streams
<1>5. CASE register_camera
  BY Zenon, <1>5
  DEF register_camera, Stay, TimerlatTypeOK, Probes, ProbeStates, StoppableProbe, TimerlatLeavesNothing, Streams
<1>6. CASE start_camera
  BY Zenon, <1>6
  DEF start_camera, Stay, NoCamera, TimerlatTypeOK, Probes, ProbeStates, StoppableProbe, TimerlatLeavesNothing, Streams
<1>7. CASE wait_until_steady
  BY Zenon, <1>7
  DEF wait_until_steady, Stay, TimerlatTypeOK, Probes, ProbeStates, StoppableProbe, TimerlatLeavesNothing, Streams
<1>8. CASE start_rtla
  BY Zenon, <1>8
  DEF start_rtla, Stay, TimerlatTypeOK, Probes, ProbeStates, StoppableProbe, TimerlatLeavesNothing, Streams
<1>9. CASE tick
  BY Zenon, <1>9
  DEF tick, Stay, TimerlatTypeOK, Probes, ProbeStates, StoppableProbe, TimerlatLeavesNothing, Streams
<1>10. CASE rtla_ends
  BY Zenon, <1>10
  DEF rtla_ends, Stay, NoRtla, TimerlatTypeOK, Probes, ProbeStates, StoppableProbe, TimerlatLeavesNothing, Streams
<1>11. CASE finish
  BY Zenon, <1>11
  DEF finish, Stay, Streams, Reaped, Ended, TimerlatTypeOK, Probes, ProbeStates, StoppableProbe, TimerlatLeavesNothing
<1>12. CASE stop_camera
  BY Zenon, <1>12
  DEF stop_camera, Stay, Streams, Reaped, Killed, TimerlatTypeOK, Probes, ProbeStates, StoppableProbe, TimerlatLeavesNothing
<1>13. CASE finally
  BY <1>13
  DEF finally, Stay, Streams, TimerlatTypeOK, Probes, ProbeStates, StoppableProbe, TimerlatLeavesNothing
<1>14. CASE verdict
  BY Zenon, <1>14
  DEF verdict, failure_phase, retry, TimerlatTypeOK, Probes, ProbeStates, StoppableProbe, TimerlatLeavesNothing, Streams
<1>15. CASE next_run
  BY Zenon, <1>15
  DEF next_run, NoOutput, NoRow, TimerlatTypeOK, Probes, ProbeStates, StoppableProbe, TimerlatLeavesNothing, Streams
<1>16. CASE cleanup
  BY Zenon, <1>16
  DEF cleanup, Streams, TimerlatTypeOK, Probes, ProbeStates, StoppableProbe, TimerlatLeavesNothing
<1>17. CASE probe_steady
  BY Zenon, <1>17
  DEF probe_steady, Environment, TimerlatTypeOK, Probes, ProbeStates, StoppableProbe, TimerlatLeavesNothing, Streams
<1>18. CASE probe_fails
  BY Zenon, <1>18
  DEF probe_fails, Environment, Streams, TimerlatTypeOK, Probes, ProbeStates, StoppableProbe, TimerlatLeavesNothing
<1>19. CASE noise_dies
  BY Zenon, <1>19
  DEF noise_dies, Environment, TimerlatTypeOK, Probes, ProbeStates, StoppableProbe, TimerlatLeavesNothing, Streams
<1>20. CASE interrupt
  BY Zenon, <1>20
  DEF interrupt, NoRtla, TimerlatTypeOK, Probes, ProbeStates, StoppableProbe, TimerlatLeavesNothing, Streams
<1>21. CASE UNCHANGED timerlatVars
  BY Zenon, <1>21 DEF timerlatVars, TimerlatTypeOK, Probes, ProbeStates, StoppableProbe, TimerlatLeavesNothing, Streams
<1> QED
  BY Zenon, <1>1, <1>2, <1>3, <1>4, <1>5, <1>6, <1>7, <1>8, <1>9, <1>10, <1>11, <1>12, <1>13, <1>14, <1>15, <1>16, <1>17, <1>18, <1>19, <1>20, <1>21
  DEF TimerlatNext, Runner

LEMMA OutlastsStep ==
    ASSUME \A d \in StartDelays : d <= Guard,
           TimerlatTypeOK, Outlasts, [TimerlatNext]_timerlatVars
    PROVE  Outlasts'
<1>1. CASE prebuild_timerlat
  BY Zenon, <1>1, TimerlatAssumption
  DEF prebuild_timerlat, Stay, TimerlatTypeOK, Probes, ProbeStates, AttemptOutputs, Outlasts
<1>2. CASE prepare
  BY Zenon, <1>2, TimerlatAssumption
  DEF prepare, Stay, NoOutput, NoCamera, NoRtla, TimerlatTypeOK, Probes, ProbeStates, AttemptOutputs, Outlasts
<1>3. CASE start_noise
  BY Zenon, <1>3, TimerlatAssumption
  DEF start_noise, Stay, TimerlatTypeOK, Probes, ProbeStates, AttemptOutputs, Outlasts
<1>4. CASE no_camera
  BY Zenon, <1>4, TimerlatAssumption
  DEF no_camera, Stay, TimerlatTypeOK, Probes, ProbeStates, AttemptOutputs, Outlasts
<1>5. CASE register_camera
  BY Zenon, <1>5, TimerlatAssumption
  DEF register_camera, Stay, TimerlatTypeOK, Probes, ProbeStates, AttemptOutputs, Outlasts
<1>6. CASE start_camera
  BY Zenon, <1>6, TimerlatAssumption
  DEF start_camera, Stay, NoCamera, TimerlatTypeOK, Probes, ProbeStates, AttemptOutputs, Outlasts
<1>7. CASE wait_until_steady
  BY Zenon, <1>7, TimerlatAssumption
  DEF wait_until_steady, Stay, TimerlatTypeOK, Probes, ProbeStates, AttemptOutputs, Outlasts
<1>8. CASE start_rtla
  BY <1>8, TimerlatAssumption
  DEF start_rtla, Stay, TimerlatTypeOK, Probes, ProbeStates, AttemptOutputs, Outlasts
<1>9. CASE tick
  <2>1. /\ pc = "sampling" /\ pc' = "sampling" /\ case' = case
        /\ rtla.left \in Nat /\ rtla.left > 0
        /\ rtla'.left = rtla.left - 1
    BY Zenon, <1>9 DEF tick, Stay, TimerlatTypeOK
  <2>2. cam \in [st : ProbeStates, left : Int, marker : BOOLEAN]
    BY Zenon DEF TimerlatTypeOK, Probes
  <2>3. cam.st # "streaming" => cam' = cam BY Zenon, <1>9 DEF tick
  <2>4. ASSUME cam.st = "streaming"
        PROVE  /\ cam'.left = cam.left - 1 /\ cam'.marker = cam.marker
               /\ cam'.st = IF cam.left = 1 THEN "done" ELSE "streaming"
    <3>1. cam' = [cam EXCEPT !.left = @ - 1,
                             !.st = IF cam.left = 1 THEN "done" ELSE @]
      BY Zenon, <1>9, <2>4 DEF tick
    <3> QED BY Zenon, <2>2, <2>4, <3>1
  <2>5. /\ cam.marker => cam.st \in {"streaming", "done", "failed"}
        /\ case.camera =>
             \/ cam.st = "failed"
             \/ (cam.st = "done" /\ rtla.left = 0)
             \/ (cam.st = "streaming" /\ rtla.left <= cam.left)
    BY Zenon, <2>1 DEF Outlasts
  <2>6. cam'.marker => cam'.st \in {"streaming", "done", "failed"}
    BY Zenon, <2>3, <2>4, <2>5
  <2>7. ASSUME case.camera
        PROVE  \/ cam'.st = "failed"
               \/ (cam'.st = "done" /\ rtla'.left = 0)
               \/ (cam'.st = "streaming" /\ rtla'.left <= cam'.left)
    <3>1. CASE cam.st = "streaming"
      <4>1. cam.left \in Int BY Zenon, <2>2
      <4>2. rtla.left <= cam.left BY <2>5, <2>7, <3>1
      <4>3. rtla'.left <= cam'.left /\ (cam.left = 1 => rtla'.left = 0)
        BY <2>1, <2>4, <3>1, <4>1, <4>2
      <4> QED BY Zenon, <2>4, <3>1, <4>3
    <3>2. CASE cam.st # "streaming"
      <4>1. rtla.left # 0 BY <2>1
      <4> QED BY Zenon, <2>3, <2>5, <2>7, <3>2, <4>1
    <3> QED BY Zenon, <3>1, <3>2
  <2> QED BY <2>1, <2>6, <2>7 DEF Outlasts
<1>10. CASE rtla_ends
  BY Zenon, <1>10, TimerlatAssumption
  DEF rtla_ends, Stay, NoRtla, TimerlatTypeOK, Probes, ProbeStates, AttemptOutputs, Outlasts
<1>11. CASE finish
  BY <1>11, TimerlatAssumption
  DEF finish, Stay, Streams, Reaped, Ended, TimerlatTypeOK, Probes, ProbeStates, AttemptOutputs, Outlasts
<1>12. CASE stop_camera
  BY Zenon, <1>12, TimerlatAssumption
  DEF stop_camera, Stay, Streams, Reaped, Killed, TimerlatTypeOK, Probes, ProbeStates, AttemptOutputs, Outlasts
<1>13. CASE finally
  BY <1>13, TimerlatAssumption
  DEF finally, Stay, Streams, TimerlatTypeOK, Probes, ProbeStates, AttemptOutputs, Outlasts
<1>14. CASE verdict
  BY Zenon, <1>14, TimerlatAssumption
  DEF verdict, failure_phase, retry, TimerlatTypeOK, Probes, ProbeStates, AttemptOutputs, Outlasts
<1>15. CASE next_run
  BY Zenon, <1>15, TimerlatAssumption
  DEF next_run, NoOutput, NoRow, TimerlatTypeOK, Probes, ProbeStates, AttemptOutputs, Outlasts, Cases
<1>16. CASE cleanup
  BY <1>16, TimerlatAssumption
  DEF cleanup, Streams, TimerlatTypeOK, Probes, ProbeStates, AttemptOutputs, Outlasts
<1>17. CASE probe_steady
  BY Zenon, <1>17, TimerlatAssumption
  DEF probe_steady, Environment, TimerlatTypeOK, Probes, ProbeStates, AttemptOutputs, Outlasts
<1>18. CASE probe_fails
  BY Zenon, <1>18, TimerlatAssumption
  DEF probe_fails, Environment, Streams, TimerlatTypeOK, Probes, ProbeStates, AttemptOutputs, Outlasts
<1>19. CASE noise_dies
  BY <1>19, TimerlatAssumption
  DEF noise_dies, Environment, TimerlatTypeOK, Probes, ProbeStates, AttemptOutputs, Outlasts
<1>20. CASE interrupt
  BY Zenon, <1>20, TimerlatAssumption
  DEF interrupt, NoRtla, TimerlatTypeOK, Probes, ProbeStates, AttemptOutputs, Outlasts
<1>21. CASE UNCHANGED timerlatVars
  BY <1>21 DEF timerlatVars, TimerlatTypeOK, Probes, ProbeStates, AttemptOutputs, Outlasts
<1> QED
  BY Zenon, <1>1, <1>2, <1>3, <1>4, <1>5, <1>6, <1>7, <1>8, <1>9, <1>10, <1>11, <1>12, <1>13, <1>14, <1>15, <1>16, <1>17, <1>18, <1>19, <1>20, <1>21
  DEF TimerlatNext, Runner

LEMMA GapShowsStep ==
    ASSUME TimerlatTypeOK, Outlasts, GapShows, [TimerlatNext]_timerlatVars
    PROVE  GapShows'
<1>1. CASE prebuild_timerlat
  BY Zenon, <1>1
  DEF prebuild_timerlat, Stay, TimerlatTypeOK, Probes, ProbeStates, AttemptOutputs, Outlasts, GapShows, SampledUnderLoad
<1>2. CASE prepare
  BY Zenon, <1>2
  DEF prepare, Stay, NoOutput, NoCamera, NoRtla, TimerlatTypeOK, Probes, ProbeStates, AttemptOutputs, Outlasts, GapShows, SampledUnderLoad
<1>3. CASE start_noise
  BY Zenon, <1>3
  DEF start_noise, Stay, TimerlatTypeOK, Probes, ProbeStates, AttemptOutputs, Outlasts, GapShows, SampledUnderLoad
<1>4. CASE no_camera
  BY Zenon, <1>4
  DEF no_camera, Stay, TimerlatTypeOK, Probes, ProbeStates, AttemptOutputs, Outlasts, GapShows, SampledUnderLoad
<1>5. CASE register_camera
  BY Zenon, <1>5
  DEF register_camera, Stay, TimerlatTypeOK, Probes, ProbeStates, AttemptOutputs, Outlasts, GapShows, SampledUnderLoad
<1>6. CASE start_camera
  BY Zenon, <1>6
  DEF start_camera, Stay, NoCamera, TimerlatTypeOK, Probes, ProbeStates, AttemptOutputs, Outlasts, GapShows, SampledUnderLoad
<1>7. CASE wait_until_steady
  BY Zenon, <1>7
  DEF wait_until_steady, Stay, TimerlatTypeOK, Probes, ProbeStates, AttemptOutputs, Outlasts, GapShows, SampledUnderLoad
<1>8. CASE start_rtla
  BY Zenon, <1>8
  DEF start_rtla, Stay, TimerlatTypeOK, Probes, ProbeStates, AttemptOutputs, Outlasts, GapShows, SampledUnderLoad
<1>9. CASE tick
  BY <1>9
  DEF tick, Stay, TimerlatTypeOK, Probes, ProbeStates, AttemptOutputs, Outlasts, GapShows, SampledUnderLoad
<1>10. CASE rtla_ends
  BY Zenon, <1>10
  DEF rtla_ends, Stay, NoRtla, TimerlatTypeOK, Probes, ProbeStates, AttemptOutputs, Outlasts, GapShows, SampledUnderLoad
<1>11. CASE finish
  BY Zenon, <1>11
  DEF finish, Stay, Streams, Reaped, Ended, TimerlatTypeOK, Probes, ProbeStates, AttemptOutputs, Outlasts, GapShows, SampledUnderLoad
<1>12. CASE stop_camera
  BY Zenon, <1>12
  DEF stop_camera, Stay, Streams, Reaped, Killed, TimerlatTypeOK, Probes, ProbeStates, AttemptOutputs, Outlasts, GapShows, SampledUnderLoad
<1>13. CASE finally
  BY Zenon, <1>13
  DEF finally, Stay, Streams, TimerlatTypeOK, Probes, ProbeStates, AttemptOutputs, Outlasts, GapShows, SampledUnderLoad
<1>14. CASE verdict
  BY Zenon, <1>14
  DEF verdict, failure_phase, retry, TimerlatTypeOK, Probes, ProbeStates, AttemptOutputs, Outlasts, GapShows, SampledUnderLoad
<1>15. CASE next_run
  BY <1>15
  DEF next_run, NoOutput, NoRow, TimerlatTypeOK, Probes, ProbeStates, AttemptOutputs, Outlasts, GapShows, SampledUnderLoad
<1>16. CASE cleanup
  BY Zenon, <1>16
  DEF cleanup, Streams, TimerlatTypeOK, Probes, ProbeStates, AttemptOutputs, Outlasts, GapShows, SampledUnderLoad
<1>17. CASE probe_steady
  BY Zenon, <1>17
  DEF probe_steady, Environment, TimerlatTypeOK, Probes, ProbeStates, AttemptOutputs, Outlasts, GapShows, SampledUnderLoad
<1>18. CASE probe_fails
  BY Zenon, <1>18
  DEF probe_fails, Environment, Streams, TimerlatTypeOK, Probes, ProbeStates, AttemptOutputs, Outlasts, GapShows, SampledUnderLoad
<1>19. CASE noise_dies
  BY Zenon, <1>19
  DEF noise_dies, Environment, TimerlatTypeOK, Probes, ProbeStates, AttemptOutputs, Outlasts, GapShows, SampledUnderLoad
<1>20. CASE interrupt
  BY Zenon, <1>20
  DEF interrupt, NoRtla, TimerlatTypeOK, Probes, ProbeStates, AttemptOutputs, Outlasts, GapShows, SampledUnderLoad
<1>21. CASE UNCHANGED timerlatVars
  BY Zenon, <1>21 DEF timerlatVars, TimerlatTypeOK, Probes, ProbeStates, AttemptOutputs, Outlasts, GapShows, SampledUnderLoad
<1> QED
  BY Zenon, <1>1, <1>2, <1>3, <1>4, <1>5, <1>6, <1>7, <1>8, <1>9, <1>10, <1>11, <1>12, <1>13, <1>14, <1>15, <1>16, <1>17, <1>18, <1>19, <1>20, <1>21
  DEF TimerlatNext, Runner

LEMMA RowStep ==
    ASSUME TimerlatTypeOK, RowIsComputed, [TimerlatNext]_timerlatVars
    PROVE  RowIsComputed'
<1>1. CASE verdict
  <2>1. CASE row' = row BY Zenon, <2>1 DEF RowIsComputed
  <2>2. CASE row'.hist = out.parse /\ row'.tail = IF out.parse = Null THEN Null
                                                  ELSE p999_us_max_cpu(out.parse)
    <3>1. out.parse \in [CPUs -> Histograms] \cup {Null}
      BY Zenon DEF TimerlatTypeOK, AttemptOutputs
    <3> QED BY Zenon, <2>2, <3>1 DEF RowIsComputed
  <2> QED BY Zenon, <1>1, <2>1, <2>2 DEF verdict
<1>2. CASE next_run BY <1>2 DEF next_run, NoRow, RowIsComputed
<1>3. CASE UNCHANGED row BY Zenon, <1>3 DEF RowIsComputed
<1>4. CASE UNCHANGED timerlatVars BY Zenon, <1>3, <1>4 DEF timerlatVars
<1>5. CASE ~verdict /\ ~next_run /\ TimerlatNext
  <2>1. row' = row
    BY Zenon, <1>5 DEF TimerlatNext, Runner, prebuild_timerlat, prepare, start_noise,
      no_camera, register_camera, start_camera, wait_until_steady, start_rtla, tick,
      rtla_ends, finish, stop_camera, finally, cleanup, probe_steady, probe_fails,
      noise_dies, interrupt, Stay, Environment
  <2> QED BY Zenon, <1>3, <2>1
<1> QED BY Zenon, <1>1, <1>2, <1>4, <1>5

LEMMA TimerlatInitial == TimerlatInit => TimerlatInv /\ LoadInv
<1> SUFFICES ASSUME TimerlatInit PROVE TimerlatInv /\ LoadInv BY Zenon
<1>1. TimerlatTypeOK
  BY Zenon, Constants DEF TimerlatInit, NoRtla, TimerlatTypeOK
<1>2. StoppableProbe /\ RowIsComputed
  BY Zenon DEF TimerlatInit, NoCamera, NoRow, StoppableProbe, RowIsComputed, Streams,
    TimerlatLeavesNothing
<1>3. Outlasts /\ GapShows
  BY Zenon DEF TimerlatInit, NoCamera, NoRow, Outlasts, GapShows, SampledUnderLoad
<1> QED BY Zenon, <1>1, <1>2, <1>3 DEF TimerlatInv, LoadInv

LEMMA TimerlatInvariant == TimerlatSpec => []TimerlatInv
<1>1. TimerlatInv /\ [TimerlatNext]_timerlatVars => TimerlatInv'
  BY Zenon, TimerlatTypesStep, StoppableStep, RowStep DEF TimerlatInv
<1> QED BY <1>1, TimerlatInitial, PTL DEF TimerlatSpec

\* A successful row was sampled under its load from the first sample to the
\* last, whenever rtla starts within the guard that the probe streams longer.
THEOREM SampledUnderLoadTheorem ==
    ASSUME \A d \in StartDelays : d <= Guard
    PROVE  TimerlatSpec => []SampledUnderLoad
<1>1. LoadInv /\ [TimerlatNext]_timerlatVars => LoadInv'
  BY Zenon, TimerlatTypesStep, OutlastsStep, GapShowsStep DEF LoadInv
<1>2. LoadInv => SampledUnderLoad BY Zenon DEF LoadInv, GapShows
<1> QED BY <1>1, <1>2, TimerlatInitial, PTL DEF TimerlatSpec

\* At most one sample in a thousand of any CPU is above the worst p99.9 of a
\* row, for histograms of any size (_nearest_rank, _maximum_known).
THEOREM TailIsHonestTheorem == TimerlatSpec => []TailIsHonest
<1>1. TimerlatInv => TailIsHonest
  <2> SUFFICES ASSUME RowIsComputed, row.success, row.tail # Null, NEW c \in CPUs
               PROVE  1000 * (Total(row.hist[c]) - cumulative(row.hist[c])[row.tail])
                        <= Total(row.hist[c])
    BY DEF TimerlatInv, TailIsHonest
  <2>1. /\ row.hist \in [CPUs -> Histograms]
        /\ row.tail = p999_us_max_cpu(row.hist)
    BY Zenon DEF RowIsComputed
  <2>2. row.hist \in [CPUs -> Columns] BY Zenon, <2>1, TimerlatAssumption
  <2> QED BY <2>1, <2>2, TailTableFacts
<1> QED BY <1>1, TimerlatInvariant, PTL

\* When the campaign is over nothing of it runs, except a probe that outlived
\* SIGKILL in the cleanup (finally, cleanup).
THEOREM TimerlatCleanup == TimerlatSpec => []TimerlatLeavesNothing
<1>1. TimerlatInv => TimerlatLeavesNothing BY Zenon DEF TimerlatInv, StoppableProbe
<1> QED BY <1>1, TimerlatInvariant, PTL

-----------------------------------------------------------------------------
(* The overhead of the diagnostic markers.                                 *)


LEMMA SeqFacts ==
    ASSUME NEW S, NEW s \in Seq(S)
    PROVE  /\ Len(s) \in Nat /\ DOMAIN s = 1..Len(s)
           /\ \A i \in DOMAIN s : s[i] \in S
           /\ s # <<>> => Len(s) > 0
<1>1. Len(s) \in Nat /\ DOMAIN s = 1..Len(s) OBVIOUS
<1>2. \A i \in DOMAIN s : s[i] \in S OBVIOUS
<1>3. s # <<>> => Len(s) > 0 OBVIOUS
<1> QED BY Zenon, <1>1, <1>2, <1>3

LEMMA LongTail ==
    ASSUME NEW S, NEW s \in Seq(S), Len(s) > 1
    PROVE  Tail(s) # <<>>
<1>1. s # <<>> OBVIOUS
<1>2. Len(Tail(s)) = Len(s) - 1 BY <1>1
<1>3. ASSUME NEW t, t = <<>> PROVE Len(t) = 0 BY Zenon, <1>3
<1>4. Len(Tail(s)) # 0 BY <1>2, SeqFacts
<1> QED BY <1>3, <1>4, Zenon

LEMMA AppendFacts ==
    ASSUME NEW S, NEW s \in Seq(S), NEW x
    PROVE  \A i \in DOMAIN Append(s, x) :
             \/ i \in DOMAIN s /\ Append(s, x)[i] = s[i]
             \/ i = Len(s) + 1 /\ Append(s, x)[i] = x
<1>1. Len(s) \in Nat /\ DOMAIN s = 1..Len(s) BY Zenon, SeqFacts
<1>2. DOMAIN Append(s, x) = 1..(Len(s) + 1) OBVIOUS
<1> QED BY <1>1, <1>2

LEMMA SampleFacts ==
    ASSUME OverheadTypeOK
    PROVE  \A i \in DOMAIN samples : samples[i].t \in Nat
<1>1. \A i \in DOMAIN samples : samples[i] \in [t : Nat, z : BOOLEAN]
  BY Zenon, SeqFacts DEF OverheadTypeOK
<1> QED BY Zenon, <1>1

LEMMA ProcessMoves ==
    ASSUME NEW p \in Processes
    PROVE  /\ NoProbe \in Processes
           /\ [p EXCEPT !.st = "warm", !.ready = TRUE] \in Processes
           /\ \A n \in Nat : [p EXCEPT !.st = "measuring", !.start = n] \in Processes
           /\ \A n \in Nat : [p EXCEPT !.st = "draining", !.end = n] \in Processes
           /\ \A n \in {0, 1} : [p EXCEPT !.st = "zombie", !.rc = n] \in Processes
           /\ [p EXCEPT !.st = "reaped"] \in Processes
<1>1. NoProbe \in Processes BY Zenon DEF NoProbe, Processes
<1>2. [p EXCEPT !.st = "warm", !.ready = TRUE] \in Processes BY Zenon DEF Processes
<1>3. \A n \in Nat : [p EXCEPT !.st = "measuring", !.start = n] \in Processes
  BY Zenon DEF Processes
<1>4. \A n \in Nat : [p EXCEPT !.st = "draining", !.end = n] \in Processes
  BY Zenon DEF Processes
<1>5. \A n \in {0, 1} : [p EXCEPT !.st = "zombie", !.rc = n] \in Processes
  BY Zenon DEF Processes
<1>6. [p EXCEPT !.st = "reaped"] \in Processes BY Zenon DEF Processes
<1> QED BY Zenon, <1>1, <1>2, <1>3, <1>4, <1>5, <1>6

LEMMA ProcessTypesStep ==
    ASSUME OverheadTypeOK, [OverheadNext]_overheadVars
    PROVE  process' \in Processes
<1>1. CASE lock_frequency
  BY Zenon, <1>1, ProcessMoves DEF OverheadTypeOK, lock_frequency, Same
<1>2. CASE build
  BY Zenon, <1>2, ProcessMoves DEF OverheadTypeOK, build, Same
<1>3. CASE snapshot_variant
  BY Zenon, <1>3, ProcessMoves DEF OverheadTypeOK, snapshot_variant, Same
<1>4. CASE restore_frequency
  BY Zenon, <1>4, ProcessMoves DEF OverheadTypeOK, restore_frequency, Same
<1>5. CASE rerun_condition
  BY Zenon, <1>5, ProcessMoves DEF OverheadTypeOK, rerun_condition
<1>6. CASE reset_camera
  BY Zenon, <1>6, ProcessMoves DEF OverheadTypeOK, reset_camera, Same
<1>7. CASE start_probe
  <2>1. environment.lib \in {"none", "part", "off", "on"}
        /\ environment.traced \in BOOLEAN
    BY Zenon DEF environment, Variant, OverheadTypeOK
  <2>2. process' = [st |-> "starting", ready |-> FALSE, lib |-> environment.lib,
                    traced |-> environment.traced, start |-> 0, end |-> 0, rc |-> 1]
    BY Zenon, <1>7 DEF start_probe, NoProbe
  <2> QED BY Zenon, <2>1, <2>2 DEF Processes
<1>8. CASE start_fails
  BY Zenon, <1>8, ProcessMoves DEF OverheadTypeOK, start_fails, Same, Raise
<1>9. CASE wait_for_ready
  BY Zenon, <1>9, ProcessMoves DEF OverheadTypeOK, wait_for_ready, Same
<1>10. CASE take_sample
  BY Zenon, <1>10, ProcessMoves DEF OverheadTypeOK, take_sample, Same
<1>11. CASE wait4_process
  BY Zenon, <1>11, ProcessMoves DEF OverheadTypeOK, wait4_process, Same, Raise, Forget
<1>12. CASE write_result
  BY Zenon, <1>12, ProcessMoves DEF OverheadTypeOK, write_result, Same, Raise, Forget
<1>13. CASE kill_probe
  BY Zenon, <1>13, ProcessMoves DEF OverheadTypeOK, kill_probe, Same, Raise, Forget
<1>14. CASE warm_up
  BY Zenon, <1>14, ProcessMoves DEF OverheadTypeOK, warm_up, ProbeMoves
<1>15. CASE begin_measurement
  <2>1. now \in Nat /\ now' = now + 1
    BY Zenon, <1>15 DEF begin_measurement, OverheadTypeOK
  <2>2. now' \in Nat BY <2>1
  <2> QED BY Zenon, <1>15, <2>2, ProcessMoves DEF OverheadTypeOK, begin_measurement, ProbeMoves
<1>16. CASE end_measurement
  <2>1. now \in Nat /\ now' = now + 1
    BY Zenon, <1>16 DEF end_measurement, OverheadTypeOK
  <2>2. now' \in Nat BY <2>1
  <2> QED BY Zenon, <1>16, <2>2, ProcessMoves DEF OverheadTypeOK, end_measurement, ProbeMoves
<1>17. CASE exit_probe
  BY ZenonT(30), <1>17, ProcessMoves DEF OverheadTypeOK, exit_probe, ProbeMoves
<1>18. CASE press_key
  <2>1. process' = process \/ process' = [NoProbe EXCEPT !.st = "starting"]
    BY Zenon, <1>18 DEF press_key
  <2>2. [NoProbe EXCEPT !.st = "starting"] \in Processes BY Zenon DEF NoProbe, Processes
  <2> QED BY Zenon, <2>1, <2>2 DEF OverheadTypeOK
<1>19. CASE UNCHANGED overheadVars BY Zenon, <1>19 DEF overheadVars, OverheadTypeOK
<1> QED
  BY <1>1, <1>2, <1>3, <1>4, <1>5, <1>6, <1>7, <1>8, <1>9, <1>10, <1>11, <1>12, <1>13, <1>14, <1>15, <1>16, <1>17, <1>18, <1>19
  DEF OverheadNext

LEMMA OverheadTypesStep ==
    ASSUME OverheadTypeOK, ProbeOfCondition, [OverheadNext]_overheadVars
    PROVE  OverheadTypeOK'
<1>0. process' \in Processes BY Zenon, ProcessTypesStep
<1>1. CASE lock_frequency
  BY Zenon, <1>1, <1>0
  DEF lock_frequency, Same, OverheadTypeOK
<1>2. CASE build
  BY Zenon, <1>2, <1>0
  DEF build, Same, OverheadTypeOK
<1>3. CASE snapshot_variant
  BY <1>3, <1>0
  DEF snapshot_variant, Same, OverheadTypeOK
<1>4. CASE restore_frequency
  BY Zenon, <1>4, <1>0
  DEF restore_frequency, Same, OverheadTypeOK
<1>5. CASE rerun_condition
  BY <1>5, <1>0
  DEF rerun_condition, OverheadTypeOK
<1>6. CASE reset_camera
  BY Zenon, <1>6, <1>0
  DEF reset_camera, Same, OverheadTypeOK
<1>7. CASE start_probe
  BY <1>7, <1>0
  DEF start_probe, Same, OverheadTypeOK
<1>8. CASE start_fails
  BY Zenon, <1>8, <1>0
  DEF start_fails, Same, Raise, OverheadTypeOK
<1>9. CASE wait_for_ready
  BY Zenon, <1>9, <1>0
  DEF wait_for_ready, Same, OverheadTypeOK
<1>10. CASE take_sample
  <2>1. process_sample \in [t : Nat, z : BOOLEAN]
    BY DEF process_sample, OverheadTypeOK
  <2>2. samples' \in Seq([t : Nat, z : BOOLEAN]) /\ now' \in Nat
    <3>1. CASE samples' = Append(samples, process_sample) /\ now' = now + 1
      BY <2>1, <3>1 DEF OverheadTypeOK
    <3>2. CASE samples' = samples /\ now' = now BY Zenon, <3>2 DEF OverheadTypeOK
    <3> QED BY Zenon, <1>10, <3>1, <3>2 DEF take_sample
  <2>3. where' \in {"sampling", "wait4"} BY Zenon, <1>10 DEF take_sample
  <2> QED BY Zenon, <1>10, <1>0, <2>2, <2>3 DEF take_sample, Same, OverheadTypeOK
<1>11. CASE wait4_process
  <2>1. samples' \in Seq([t : Nat, z : BOOLEAN]) /\ now' \in Nat
    <3>1. CASE samples' = samples /\ now' = now BY Zenon, <3>1 DEF OverheadTypeOK
    <3>2. CASE samples' = <<>> /\ now' = 0 BY <3>2
    <3> QED BY Zenon, <1>11, <3>1, <3>2 DEF wait4_process, Forget
  <2>2. where' \in {"restore", "result"} BY Zenon, <1>11 DEF wait4_process, Raise
  <2> QED BY Zenon, <1>11, <1>0, <2>1, <2>2 DEF wait4_process, Same, OverheadTypeOK
<1>12. CASE write_result
  <2>1. DOMAIN outputs' = DOMAIN outputs BY Zenon, <1>12 DEF write_result
  <2>2. todo' \in Seq(DOMAIN outputs)
    <3>1. CASE todo' = todo BY Zenon, <3>1 DEF OverheadTypeOK
    <3>2. CASE todo' = Tail(todo)
      <4>1. todo # <<>> BY Zenon, <1>12 DEF write_result, ProbeOfCondition
      <4> QED BY <3>2, <4>1 DEF OverheadTypeOK
    <3> QED BY Zenon, <1>12, <3>1, <3>2 DEF write_result
  <2>3. where' \in {"restore", "mkdir"} BY Zenon, <1>12 DEF write_result, Raise
  <2>4. now' \in Nat /\ samples' = <<>> BY Zenon, <1>12 DEF write_result, Forget
  <2> QED BY <1>12, <1>0, <2>1, <2>2, <2>3, <2>4 DEF write_result, Same, OverheadTypeOK
<1>13. CASE kill_probe
  BY <1>13, <1>0
  DEF kill_probe, Same, Raise, Forget, OverheadTypeOK
<1>14. CASE warm_up
  BY Zenon, <1>14, <1>0
  DEF warm_up, ProbeMoves, OverheadTypeOK
<1>15. CASE begin_measurement
  BY <1>15, <1>0
  DEF begin_measurement, ProbeMoves, OverheadTypeOK
<1>16. CASE end_measurement
  BY <1>16, <1>0
  DEF end_measurement, ProbeMoves, OverheadTypeOK
<1>17. CASE exit_probe
  BY Zenon, <1>17, <1>0
  DEF exit_probe, ProbeMoves, OverheadTypeOK
<1>18. CASE press_key
  BY <1>18, <1>0
  DEF press_key, OverheadTypeOK
<1>19. CASE UNCHANGED overheadVars
  BY Zenon, <1>19, <1>0 DEF overheadVars, OverheadTypeOK
<1> QED
  BY Zenon, <1>1, <1>2, <1>3, <1>4, <1>5, <1>6, <1>7, <1>8, <1>9, <1>10, <1>11, <1>12, <1>13, <1>14, <1>15, <1>16, <1>17, <1>18, <1>19
  DEF OverheadNext

LEMMA VariantsStep ==
    ASSUME OverheadTypeOK, VariantsApart, [OverheadNext]_overheadVars
    PROVE  VariantsApart'
<1>1. CASE lock_frequency
  BY <1>1
  DEF lock_frequency, Same, OverheadTypeOK, VariantsApart
<1>2. CASE build
  BY Zenon, <1>2
  DEF build, Same, OverheadTypeOK, VariantsApart
<1>3. CASE snapshot_variant
  BY <1>3
  DEF snapshot_variant, Same, OverheadTypeOK, VariantsApart
<1>4. CASE restore_frequency
  BY Zenon, <1>4
  DEF restore_frequency, Same, OverheadTypeOK, VariantsApart
<1>5. CASE rerun_condition
  BY <1>5
  DEF rerun_condition, OverheadTypeOK, VariantsApart
<1>6. CASE reset_camera
  BY Zenon, <1>6
  DEF reset_camera, Same, OverheadTypeOK, VariantsApart
<1>7. CASE start_probe
  BY Zenon, <1>7
  DEF start_probe, Same, OverheadTypeOK, VariantsApart
<1>8. CASE start_fails
  BY Zenon, <1>8
  DEF start_fails, Same, Raise, OverheadTypeOK, VariantsApart
<1>9. CASE wait_for_ready
  BY Zenon, <1>9
  DEF wait_for_ready, Same, OverheadTypeOK, VariantsApart
<1>10. CASE take_sample
  BY Zenon, <1>10
  DEF take_sample, Same, OverheadTypeOK, VariantsApart
<1>11. CASE wait4_process
  BY Zenon, <1>11
  DEF wait4_process, Same, Raise, Forget, OverheadTypeOK, VariantsApart
<1>12. CASE write_result
  BY Zenon, <1>12
  DEF write_result, Same, Raise, Forget, OverheadTypeOK, VariantsApart
<1>13. CASE kill_probe
  BY Zenon, <1>13
  DEF kill_probe, Same, Raise, Forget, OverheadTypeOK, VariantsApart
<1>14. CASE warm_up
  BY Zenon, <1>14
  DEF warm_up, ProbeMoves, OverheadTypeOK, VariantsApart
<1>15. CASE begin_measurement
  BY Zenon, <1>15
  DEF begin_measurement, ProbeMoves, OverheadTypeOK, VariantsApart
<1>16. CASE end_measurement
  BY Zenon, <1>16
  DEF end_measurement, ProbeMoves, OverheadTypeOK, VariantsApart
<1>17. CASE exit_probe
  BY Zenon, <1>17
  DEF exit_probe, ProbeMoves, OverheadTypeOK, VariantsApart
<1>18. CASE press_key
  BY Zenon, <1>18
  DEF press_key, OverheadTypeOK, VariantsApart
<1>19. CASE UNCHANGED overheadVars
  BY Zenon, <1>19 DEF overheadVars, OverheadTypeOK, VariantsApart
<1> QED
  BY <1>1, <1>2, <1>3, <1>4, <1>5, <1>6, <1>7, <1>8, <1>9, <1>10, <1>11, <1>12, <1>13, <1>14, <1>15, <1>16, <1>17, <1>18, <1>19
  DEF OverheadNext

LEMMA ConditionStep ==
    ASSUME OverheadTypeOK, VariantsApart, ProbeOfCondition,
           [OverheadNext]_overheadVars
    PROVE  ProbeOfCondition'
<1>0. todo' = todo =>
        Variant' = Variant /\ Mode(Condition)' = Mode(Condition)
  BY Zenon DEF Variant, Condition, Mode
<1>1. CASE lock_frequency
  BY Zenon, <1>1, <1>0
  DEF lock_frequency, Same, OverheadTypeOK, ProbeOfCondition
<1>2. CASE build
  BY Zenon, <1>2, <1>0
  DEF build, Same, OverheadTypeOK, ProbeOfCondition
<1>3. CASE snapshot_variant
  BY Zenon, <1>3, <1>0
  DEF snapshot_variant, Same, OverheadTypeOK, ProbeOfCondition
<1>4. CASE restore_frequency
  BY Zenon, <1>4, <1>0
  DEF restore_frequency, Same, OverheadTypeOK, ProbeOfCondition
<1>5. CASE rerun_condition
  BY <1>5, <1>0
  DEF rerun_condition, OverheadTypeOK, ProbeOfCondition
<1>6. CASE reset_camera
  BY Zenon, <1>6, <1>0
  DEF reset_camera, Same, OverheadTypeOK, ProbeOfCondition
<1>7. CASE start_probe
  <2>1. Variant \in {"off", "on"} BY Zenon DEF Variant
  <2>2. environment.lib = Variant /\ environment.traced = (Mode(Condition) = "full")
    BY Zenon, <1>7, <2>1 DEF start_probe, environment, VariantsApart, ProbeOfCondition
  <2>3. process'.lib = Variant /\ process'.traced = (Mode(Condition) = "full")
    BY Zenon, <1>7, <2>2 DEF start_probe, NoProbe
  <2>4. todo' = todo /\ where' = "ready" /\ todo # <<>>
    BY Zenon, <1>7 DEF start_probe, Same, ProbeOfCondition
  <2> QED BY Zenon, <1>0, <2>3, <2>4 DEF ProbeOfCondition
<1>8. CASE start_fails
  BY Zenon, <1>8, <1>0
  DEF start_fails, Same, Raise, OverheadTypeOK, ProbeOfCondition
<1>9. CASE wait_for_ready
  BY Zenon, <1>9, <1>0
  DEF wait_for_ready, Same, OverheadTypeOK, ProbeOfCondition
<1>10. CASE take_sample
  BY Zenon, <1>10, <1>0
  DEF take_sample, Same, OverheadTypeOK, ProbeOfCondition
<1>11. CASE wait4_process
  <2>1. CASE process.rc = 0
    BY Zenon, <1>11, <1>0, <2>1 DEF wait4_process, Same, OverheadTypeOK, Processes,
      ProbeOfCondition
  <2>2. CASE process.rc # 0
    BY Zenon, <1>11, <2>2 DEF wait4_process, Raise, ProbeOfCondition
  <2> QED BY Zenon, <2>1, <2>2
<1>12. CASE write_result
  <2>1. todo \in Seq(DOMAIN outputs) /\ todo # <<>>
    BY Zenon, <1>12 DEF write_result, ProbeOfCondition, OverheadTypeOK
  <2>2. CASE where' = "restore" BY Zenon, <2>2 DEF ProbeOfCondition
  <2>3. CASE where' = "mkdir"
    <3>1. todo' = Tail(todo) /\ Len(todo) # 1 BY Zenon, <1>12, <2>3 DEF write_result, Raise
    <3>2. Len(todo) \in Nat /\ Len(todo) > 0 BY Zenon, <2>1, SeqFacts
    <3>3. Len(todo) > 1
      <4>1. Len(todo) # 1 BY <3>1, Zenon
      <4> QED BY <3>2, <4>1
    <3>4. Tail(todo) # <<>> BY Zenon, <2>1, <3>3, LongTail
    <3>5. todo' # <<>> BY <3>1, <3>4, Zenon
    <3> QED BY Zenon, <2>3, <3>5 DEF ProbeOfCondition
  <2> QED BY Zenon, <1>12, <2>2, <2>3 DEF write_result, Raise
<1>13. CASE kill_probe
  BY Zenon, <1>13, <1>0
  DEF kill_probe, Same, Raise, Forget, OverheadTypeOK, ProbeOfCondition
<1>14. CASE warm_up
  BY <1>14, <1>0
  DEF warm_up, ProbeMoves, OverheadTypeOK, ProbeOfCondition
<1>15. CASE begin_measurement
  BY <1>15, <1>0
  DEF begin_measurement, ProbeMoves, OverheadTypeOK, ProbeOfCondition
<1>16. CASE end_measurement
  BY <1>16, <1>0
  DEF end_measurement, ProbeMoves, OverheadTypeOK, ProbeOfCondition
<1>17. CASE exit_probe
  BY <1>17, <1>0
  DEF exit_probe, ProbeMoves, OverheadTypeOK, ProbeOfCondition
<1>18. CASE press_key
  <2>1. /\ \/ where' \in {"restore", "over", "kill"}
           \/ where = "popen" /\ where' = "restore"
        /\ todo' = todo
    BY Zenon, <1>18 DEF press_key
  <2> QED BY Zenon, <2>1 DEF ProbeOfCondition
<1>19. CASE UNCHANGED overheadVars
  BY Zenon, <1>19, <1>0 DEF overheadVars, OverheadTypeOK, ProbeOfCondition
<1> QED
  BY Zenon, <1>1, <1>2, <1>3, <1>4, <1>5, <1>6, <1>7, <1>8, <1>9, <1>10, <1>11, <1>12, <1>13, <1>14, <1>15, <1>16, <1>17, <1>18, <1>19
  DEF OverheadNext

LEMMA ZombiesStep ==
    ASSUME OverheadTypeOK, ZombiesAreLate, [OverheadNext]_overheadVars
    PROVE  ZombiesAreLate'
<1>1. CASE lock_frequency
  BY Zenon, <1>1
  DEF lock_frequency, Same, OverheadTypeOK, Processes, ZombiesAreLate
<1>2. CASE build
  BY Zenon, <1>2
  DEF build, Same, OverheadTypeOK, Processes, ZombiesAreLate
<1>3. CASE snapshot_variant
  BY Zenon, <1>3
  DEF snapshot_variant, Same, OverheadTypeOK, Processes, ZombiesAreLate
<1>4. CASE restore_frequency
  BY Zenon, <1>4
  DEF restore_frequency, Same, OverheadTypeOK, Processes, ZombiesAreLate
<1>5. CASE rerun_condition
  BY Zenon, <1>5
  DEF rerun_condition, OverheadTypeOK, Processes, ZombiesAreLate
<1>6. CASE reset_camera
  BY Zenon, <1>6
  DEF reset_camera, Same, OverheadTypeOK, Processes, ZombiesAreLate
<1>7. CASE start_probe
  <2>1. process'.end = 0 /\ now' = 0 /\ samples' = <<>>
    BY Zenon, <1>7 DEF start_probe, NoProbe
  <2> QED BY <2>1 DEF ZombiesAreLate
<1>8. CASE start_fails
  BY Zenon, <1>8
  DEF start_fails, Same, Raise, OverheadTypeOK, Processes, ZombiesAreLate
<1>9. CASE wait_for_ready
  BY Zenon, <1>9
  DEF wait_for_ready, Same, OverheadTypeOK, Processes, ZombiesAreLate
<1>10. CASE take_sample
  <2> SUFFICES ASSUME where' \in {"sampling", "wait4"}
               PROVE  ZombiesAreLate'
    BY Zenon, <1>10 DEF take_sample
  <2>1. process' = process BY Zenon, <1>10 DEF take_sample, Same
  <2>2. process.end \in Nat /\ now \in Nat /\ process.end <= now
    BY Zenon, <1>10 DEF take_sample, ZombiesAreLate, OverheadTypeOK, Processes
  <2>3. CASE samples' = samples /\ now' = now
    BY Zenon, <1>10, <2>1, <2>3 DEF take_sample, ZombiesAreLate
  <2>4. CASE samples' = Append(samples, process_sample) /\ now' = now + 1
    <3>1. ASSUME NEW i \in DOMAIN samples'
          PROVE  /\ samples'[i].t <= now'
                 /\ samples'[i].z => /\ process'.st \in {"zombie", "reaped"}
                                     /\ process'.end < samples'[i].t
      <4>0. \/ i \in DOMAIN samples /\ samples'[i] = samples[i]
            \/ samples'[i] = process_sample
        BY Zenon, <2>4, AppendFacts DEF OverheadTypeOK
      <4>1. CASE i \in DOMAIN samples /\ samples'[i] = samples[i]
        <5>1. samples[i].t \in Nat BY Zenon, <4>1, SampleFacts
        <5>2. /\ samples[i].t <= now
              /\ samples[i].z => /\ process.st \in {"zombie", "reaped"}
                                 /\ process.end < samples[i].t
          BY Zenon, <1>10, <4>1 DEF take_sample, ZombiesAreLate
        <5> QED BY <2>1, <2>2, <2>4, <4>1, <5>1, <5>2
      <4>2. CASE samples'[i] = process_sample
        <5>0. process_sample.z = (process.st = "zombie") BY Zenon DEF process_sample
        <5>1. samples'[i].t = now + 1 BY <4>2 DEF process_sample
        <5>2. now' = now + 1 BY Zenon, <2>4
        <5>4. samples'[i].t <= now' /\ process'.end < samples'[i].t
          BY <2>1, <2>2, <5>1, <5>2
        <5>3. samples'[i].z => process'.st \in {"zombie", "reaped"}
          BY <2>1, <4>2, <5>0, Zenon
        <5> QED BY Zenon, <5>3, <5>4
      <4> QED BY Zenon, <4>0, <4>1, <4>2
    <3> QED BY <2>1, <2>2, <2>4, <3>1 DEF ZombiesAreLate
  <2> QED BY Zenon, <1>10, <2>3, <2>4 DEF take_sample
<1>11. CASE wait4_process
  BY <1>11
  DEF wait4_process, Same, Raise, Forget, OverheadTypeOK, Processes, ZombiesAreLate
<1>12. CASE write_result
  BY Zenon, <1>12
  DEF write_result, Same, Raise, Forget, OverheadTypeOK, Processes, ZombiesAreLate
<1>13. CASE kill_probe
  BY Zenon, <1>13
  DEF kill_probe, Same, Raise, Forget, OverheadTypeOK, Processes, ZombiesAreLate
<1>14. CASE warm_up
  BY Zenon, <1>14
  DEF warm_up, ProbeMoves, OverheadTypeOK, Processes, ZombiesAreLate
<1>15. CASE begin_measurement
  <2> SUFFICES ASSUME where \in {"ready", "sampling", "wait4", "result"}
               PROVE  ZombiesAreLate'
    BY Zenon, <1>15 DEF begin_measurement, ProbeMoves, ZombiesAreLate
  <2>1. process'.end = process.end /\ now' = now + 1 /\ samples' = samples
    BY Zenon, <1>15 DEF begin_measurement, ProbeMoves, OverheadTypeOK, Processes
  <2>2. \A i \in DOMAIN samples :
          samples[i].t \in Nat /\ samples[i].t <= now /\ ~samples[i].z
    BY Zenon, <1>15, SampleFacts DEF begin_measurement, ZombiesAreLate
  <2>3. now \in Nat /\ process.end \in Nat BY Zenon DEF OverheadTypeOK, Processes
  <2>4. process.end <= now BY Zenon DEF ZombiesAreLate
  <2> QED BY <2>1, <2>2, <2>3, <2>4 DEF ZombiesAreLate
<1>16. CASE end_measurement
  <2> SUFFICES ASSUME where \in {"ready", "sampling", "wait4", "result"}
               PROVE  ZombiesAreLate'
    BY Zenon, <1>16 DEF end_measurement, ProbeMoves, ZombiesAreLate
  <2>1. process'.end = now' /\ now' = now + 1 /\ samples' = samples
    BY Zenon, <1>16 DEF end_measurement, ProbeMoves, OverheadTypeOK, Processes
  <2>2. \A i \in DOMAIN samples :
          samples[i].t \in Nat /\ samples[i].t <= now /\ ~samples[i].z
    BY Zenon, <1>16, SampleFacts DEF end_measurement, ZombiesAreLate
  <2>3. now \in Nat /\ process.end \in Nat BY Zenon DEF OverheadTypeOK, Processes
  <2>4. process.end <= now BY Zenon DEF ZombiesAreLate
  <2> QED BY <2>1, <2>2, <2>3, <2>4 DEF ZombiesAreLate
<1>17. CASE exit_probe
  BY Zenon, <1>17
  DEF exit_probe, ProbeMoves, OverheadTypeOK, Processes, ZombiesAreLate, ProcessRuns
<1>18. CASE press_key
  BY Zenon, <1>18
  DEF press_key, OverheadTypeOK, Processes, ZombiesAreLate
<1>19. CASE UNCHANGED overheadVars
  BY Zenon, <1>19 DEF overheadVars, OverheadTypeOK, Processes, ZombiesAreLate
<1> QED
  BY Zenon, <1>1, <1>2, <1>3, <1>4, <1>5, <1>6, <1>7, <1>8, <1>9, <1>10, <1>11, <1>12, <1>13, <1>14, <1>15, <1>16, <1>17, <1>18, <1>19
  DEF OverheadNext

LEMMA WatchedStep ==
    ASSUME OverheadTypeOK, ProbeWatched, [OverheadNext]_overheadVars
    PROVE  ProbeWatched'
<1>1. CASE lock_frequency
  BY Zenon, <1>1
  DEF lock_frequency, Same, OverheadTypeOK, Processes, ProbeWatched, ProcessRuns, OverheadLeavesNothing
<1>2. CASE build
  BY Zenon, <1>2
  DEF build, Same, OverheadTypeOK, Processes, ProbeWatched, ProcessRuns, OverheadLeavesNothing
<1>3. CASE snapshot_variant
  BY Zenon, <1>3
  DEF snapshot_variant, Same, OverheadTypeOK, Processes, ProbeWatched, ProcessRuns, OverheadLeavesNothing
<1>4. CASE restore_frequency
  BY Zenon, <1>4
  DEF restore_frequency, Same, OverheadTypeOK, Processes, ProbeWatched, ProcessRuns, OverheadLeavesNothing
<1>5. CASE rerun_condition
  BY Zenon, <1>5
  DEF rerun_condition, OverheadTypeOK, Processes, ProbeWatched, ProcessRuns, OverheadLeavesNothing, NoProbe
<1>6. CASE reset_camera
  BY Zenon, <1>6
  DEF reset_camera, Same, OverheadTypeOK, Processes, ProbeWatched, ProcessRuns, OverheadLeavesNothing
<1>7. CASE start_probe
  BY Zenon, <1>7
  DEF start_probe, Same, OverheadTypeOK, Processes, ProbeWatched, ProcessRuns, OverheadLeavesNothing
<1>8. CASE start_fails
  BY Zenon, <1>8
  DEF start_fails, Same, Raise, OverheadTypeOK, Processes, ProbeWatched, ProcessRuns, OverheadLeavesNothing
<1>9. CASE wait_for_ready
  BY Zenon, <1>9
  DEF wait_for_ready, Same, OverheadTypeOK, Processes, ProbeWatched, ProcessRuns, OverheadLeavesNothing
<1>10. CASE take_sample
  BY Zenon, <1>10
  DEF take_sample, Same, OverheadTypeOK, Processes, ProbeWatched, ProcessRuns, OverheadLeavesNothing
<1>11. CASE wait4_process
  BY <1>11
  DEF wait4_process, Same, Raise, Forget, OverheadTypeOK, Processes, ProbeWatched, ProcessRuns, OverheadLeavesNothing, NoProbe
<1>12. CASE write_result
  BY Zenon, <1>12
  DEF write_result, Same, Raise, Forget, OverheadTypeOK, Processes, ProbeWatched, ProcessRuns, OverheadLeavesNothing, NoProbe
<1>13. CASE kill_probe
  BY Zenon, <1>13
  DEF kill_probe, Same, Raise, Forget, OverheadTypeOK, Processes, ProbeWatched, ProcessRuns, OverheadLeavesNothing, NoProbe
<1>14. CASE warm_up
  BY Zenon, <1>14
  DEF warm_up, ProbeMoves, OverheadTypeOK, Processes, ProbeWatched, ProcessRuns, OverheadLeavesNothing
<1>15. CASE begin_measurement
  BY Zenon, <1>15
  DEF begin_measurement, ProbeMoves, OverheadTypeOK, Processes, ProbeWatched, ProcessRuns, OverheadLeavesNothing
<1>16. CASE end_measurement
  BY Zenon, <1>16
  DEF end_measurement, ProbeMoves, OverheadTypeOK, Processes, ProbeWatched, ProcessRuns, OverheadLeavesNothing
<1>17. CASE exit_probe
  BY Zenon, <1>17
  DEF exit_probe, ProbeMoves, OverheadTypeOK, Processes, ProbeWatched, ProcessRuns, OverheadLeavesNothing
<1>18. CASE press_key
  BY Zenon, <1>18
  DEF press_key, OverheadTypeOK, Processes, ProbeWatched, ProcessRuns, OverheadLeavesNothing
<1>19. CASE UNCHANGED overheadVars
  BY Zenon, <1>19 DEF overheadVars, OverheadTypeOK, Processes, ProbeWatched, ProcessRuns, OverheadLeavesNothing
<1> QED
  BY Zenon, <1>1, <1>2, <1>3, <1>4, <1>5, <1>6, <1>7, <1>8, <1>9, <1>10, <1>11, <1>12, <1>13, <1>14, <1>15, <1>16, <1>17, <1>18, <1>19
  DEF OverheadNext

LEMMA MeasuredInside ==
    ASSUME NEW s, Cardinality(Inside(s)) >= 2
    PROVE  measured(s).all = Inside(s)
<1> DEFINE inside == Inside(s)
           first == Min(inside)
           last == Max(inside)
<1>1. measured(s) = [all |-> inside, first |-> first, last |-> last]
  BY Zenon DEF measured
<1> HIDE DEF inside, first, last
<1>2. measured(s).all = inside BY <1>1
<1> QED BY Zenon, <1>2 DEF inside

LEMMA AttributedStep ==
    ASSUME OverheadTypeOK, ProbeOfCondition, ZombiesAreLate, OverheadIsAttributed,
           [OverheadNext]_overheadVars
    PROVE  OverheadIsAttributed'
<1>1. CASE lock_frequency
  BY Zenon, <1>1
  DEF lock_frequency, Same, OverheadIsAttributed
<1>2. CASE build
  BY Zenon, <1>2
  DEF build, Same, OverheadIsAttributed
<1>3. CASE snapshot_variant
  BY Zenon, <1>3
  DEF snapshot_variant, Same, OverheadIsAttributed
<1>4. CASE restore_frequency
  BY Zenon, <1>4
  DEF restore_frequency, Same, OverheadIsAttributed
<1>5. CASE rerun_condition
  BY <1>5
  DEF rerun_condition, OverheadIsAttributed, Absent
<1>6. CASE reset_camera
  BY Zenon, <1>6
  DEF reset_camera, Same, OverheadIsAttributed
<1>7. CASE start_probe
  BY Zenon, <1>7
  DEF start_probe, Same, OverheadIsAttributed
<1>8. CASE start_fails
  BY Zenon, <1>8
  DEF start_fails, Same, Raise, OverheadIsAttributed
<1>9. CASE wait_for_ready
  BY Zenon, <1>9
  DEF wait_for_ready, Same, OverheadIsAttributed
<1>10. CASE take_sample
  BY Zenon, <1>10
  DEF take_sample, Same, OverheadIsAttributed
<1>11. CASE wait4_process
  BY Zenon, <1>11
  DEF wait4_process, Same, Raise, Forget, OverheadIsAttributed
<1>12. CASE write_result
  <2>1. CASE outputs' = outputs BY Zenon, <2>1 DEF OverheadIsAttributed
  <2>2. ASSUME NEW m \in {measured(samples)},
               outputs' = [outputs EXCEPT ![Condition] =
                 [st |-> "summary", lib |-> process.lib,
                  traced |-> process.traced, charged |-> Charged(m)]]
        PROVE  OverheadIsAttributed'
    <3>1. process.lib = Variant /\ (process.traced <=> Mode(Condition) = "full")
      BY Zenon, <1>12 DEF write_result, ProbeOfCondition
    <3>2. Charged(m)
      <4> SUFFICES ASSUME Cardinality(Inside(samples)) >= 2
                   PROVE  \A i \in m.all : i \in Inside(samples) /\ ~samples[i].z
        BY Zenon DEF Charged
      <4>1. m.all = Inside(samples) BY Zenon, MeasuredInside
      <4>2. ASSUME NEW i \in Inside(samples) PROVE ~samples[i].z
        <5>1. i \in DOMAIN samples /\ samples[i].t <= process.end
          BY Zenon, <4>2 DEF Inside
        <5>2. samples[i].t \in Nat /\ process.end \in Nat
          BY Zenon, <5>1, SampleFacts DEF OverheadTypeOK, Processes
        <5>3. samples[i].z => process.end < samples[i].t
          BY Zenon, <1>12, <5>1 DEF write_result, ZombiesAreLate
        <5> QED BY <5>1, <5>2, <5>3
      <4> QED BY Zenon, <4>1, <4>2
    <3>3. \A c \in DOMAIN outputs : c # Condition => outputs'[c] = outputs[c]
      BY Zenon, <2>2
    <3>4. Condition \in DOMAIN outputs => outputs'[Condition] =
                 [st |-> "summary", lib |-> process.lib,
                  traced |-> process.traced, charged |-> Charged(m)]
      BY Zenon, <2>2
    <3>5. DOMAIN outputs' = DOMAIN outputs BY Zenon, <2>2
    <3> QED BY <3>1, <3>2, <3>3, <3>4, <3>5 DEF OverheadIsAttributed, Variant
  <2> QED BY Zenon, <1>12, <2>1, <2>2 DEF write_result
<1>13. CASE kill_probe
  BY Zenon, <1>13
  DEF kill_probe, Same, Raise, Forget, OverheadIsAttributed
<1>14. CASE warm_up
  BY Zenon, <1>14
  DEF warm_up, ProbeMoves, OverheadIsAttributed
<1>15. CASE begin_measurement
  BY Zenon, <1>15
  DEF begin_measurement, ProbeMoves, OverheadIsAttributed
<1>16. CASE end_measurement
  BY Zenon, <1>16
  DEF end_measurement, ProbeMoves, OverheadIsAttributed
<1>17. CASE exit_probe
  BY Zenon, <1>17
  DEF exit_probe, ProbeMoves, OverheadIsAttributed
<1>18. CASE press_key
  BY Zenon, <1>18
  DEF press_key, OverheadIsAttributed
<1>19. CASE UNCHANGED overheadVars
  BY Zenon, <1>19 DEF overheadVars, OverheadIsAttributed
<1> QED
  BY Zenon, <1>1, <1>2, <1>3, <1>4, <1>5, <1>6, <1>7, <1>8, <1>9, <1>10, <1>11, <1>12, <1>13, <1>14, <1>15, <1>16, <1>17, <1>18, <1>19
  DEF OverheadNext

LEMMA OverheadInitial == OverheadInit => OverheadInv
<1> SUFFICES ASSUME OverheadInit PROVE OverheadInv OBVIOUS
<1> DEFINE C == {conditions[i] : i \in DOMAIN conditions}
<1>1. Repetitions \in {1, 2, 3} BY OverheadAssumption DEF MODE_ORDERS
<1>2. DOMAIN conditions = 1..(6 * Repetitions) BY Zenon DEF conditions
<1>3. conditions \in [1..(6 * Repetitions) -> C]
  <2>1. conditions = [i \in 1..(6 * Repetitions) |-> conditions[i]] BY Zenon DEF conditions
  <2> QED BY Zenon, <1>2, <2>1
<1>4. 6 * Repetitions \in Nat /\ 6 * Repetitions > 0 BY <1>1
<1> HIDE DEF C
<1>5. conditions \in Seq(C) BY <1>3, <1>4
<1>6. conditions # <<>>
  <2>1. 1 \in DOMAIN conditions BY <1>2, <1>4
  <2> QED BY <2>1
<1>7. DOMAIN outputs = C BY Zenon DEF OverheadInit, C
<1>8. OverheadTypeOK
  <2>1. process \in Processes BY Zenon DEF OverheadInit, NoProbe, Processes
  <2>2. todo \in Seq(DOMAIN outputs) BY Zenon, <1>5, <1>7 DEF OverheadInit
  <2>3. samples \in Seq([t : Nat, z : BOOLEAN]) BY DEF OverheadInit
  <2>4. copies \in [{"off", "on"} -> {"none", "part", "off", "on"}]
    BY Zenon DEF OverheadInit
  <2> QED BY Zenon, <2>1, <2>2, <2>3, <2>4 DEF OverheadInit, OverheadTypeOK
<1>9. VariantsApart BY Zenon DEF OverheadInit, VariantsApart
<1>10. ProbeOfCondition BY Zenon, <1>6 DEF OverheadInit, ProbeOfCondition
<1>11. ZombiesAreLate BY Zenon DEF OverheadInit, ZombiesAreLate
<1>12. ProbeWatched
  BY Zenon DEF OverheadInit, NoProbe, ProbeWatched, ProcessRuns, OverheadLeavesNothing
<1>13. OverheadIsAttributed
  <2>1. \A c \in C : outputs[c] = Absent BY Zenon DEF OverheadInit, C
  <2> QED BY <1>7, <2>1 DEF OverheadIsAttributed, Absent
<1> QED BY Zenon, <1>8, <1>9, <1>10, <1>11, <1>12, <1>13 DEF OverheadInv

LEMMA OverheadStep ==
    ASSUME OverheadInv, [OverheadNext]_overheadVars
    PROVE  OverheadInv'
BY Zenon, OverheadTypesStep, VariantsStep, ConditionStep, ZombiesStep, AttributedStep,
   WatchedStep DEF OverheadInv

LEMMA OverheadInvariant == OverheadSpec => []OverheadInv
BY OverheadStep, OverheadInitial, PTL DEF OverheadSpec

\* A resource summary is about the condition it is filed under, and charges
\* nothing to the measurement that was not sampled in it (run_one), for any
\* number of samples, reruns and interrupts.
THEOREM OverheadAttribution == OverheadSpec => []OverheadIsAttributed
<1>1. OverheadInv => OverheadIsAttributed BY Zenon DEF OverheadInv
<1> QED BY <1>1, OverheadInvariant, PTL

\* When the program is over no probe runs that nobody has signalled, and the
\* frequencies are back unless the restoring script failed (main's finally).
THEOREM OverheadCleanup == OverheadSpec => []OverheadLeavesNothing
<1>1. OverheadInv => OverheadLeavesNothing BY Zenon DEF OverheadInv, ProbeWatched
<1> QED BY <1>1, OverheadInvariant, PTL

-----------------------------------------------------------------------------
(* Both.                                                                   *)

\* Wherever either of them ends or is interrupted, it leaves no process behind
\* that it could have stopped and no frequency it could have put back (the
\* finally clauses and cleanups of run_timerlat.py and run_diagnostic_overhead.py).
THEOREM NothingLeftBehind == TimerlatSpec /\ OverheadSpec => []NothingLeft
BY TimerlatCleanup, OverheadCleanup, PTL DEF NothingLeft
=============================================================================
