--------------------------- MODULE DeadlineProfile ---------------------------
(***************************************************************************)
(* From recorded SCHED_OTHER traces to scheduler parameters of live        *)
(* threads: generate_deadline_profile.py groups the activations of every   *)
(* worker into logical jobs and derives one reservation per thread role    *)
(* (creation-stack signature), which a probe then applies                  *)
(* (ProfileApplication).                                                   *)
(*                                                                         *)
(* A signature is its rank in the sorted order of signatures.  Times are   *)
(* whole units; the margins are the generator's defaults.                  *)
(***************************************************************************)
EXTENDS ProfileApplication, SequencesExt, FiniteSetsExt

CONSTANTS
    Profiles,        \* profiles written by hand
    Demands,         \* Demands[s]: what a worker of role s may do in a trace
    TraceRuns,       \* bound: calibration traces of one profile
    MinimumRuntime,  \* kernel limits
    MaximumPeriod,
    ModeledPeriods   \* --maximum-modeled-period-us; 0 when not given

ASSUME DemandsAssumption == DOMAIN Demands = Roles

VARIABLE traces      \* the traces recorded so far

profileVars == <<traces, applicationVars>>

\* Steady window of a trace; a worker starts before it, in trace order.
Begin == 100
End == 200

(***************************************************************************)
(* The generator.  A trace is the sequence of its workers in start order:  *)
(* [signature, exited (0 when still running at the end), activations], an  *)
(* activation [release, execution, partial, job].  job is the truth the    *)
(* generator has to recover and never reads.                               *)
(***************************************************************************)

\* Workers of a trace that overlap its steady window.
Steady(trace) ==
    {tid \in DOMAIN trace :
        LET exited == IF trace[tid].exited = 0 THEN End ELSE trace[tid].exited
        IN  Min({End, exited}) > Max({Begin, tid})}

\* (signature, instance) of every such worker, numbered in start order.
thread_identities(trace) ==
    [tid \in Steady(trace) |->
        <<trace[tid].signature,
          Cardinality({t \in Steady(trace) :
              t <= tid /\ trace[t].signature = trace[tid].signature})>>]

Complete(worker) == SelectSeq(worker.activations, LAMBDA a : ~ a.partial)

Deltas(releases) ==
    <<>> \o [i \in 1..(Len(releases) - 1) |-> releases[i + 1] - releases[i]]

Releases(acts) == <<>> \o [i \in DOMAIN acts |-> acts[i].release]

Ascending(s) == SortSeq(s, <)

\* The first of the largest jumps between neighbouring sorted deltas.
BestIndex(positive) ==
    CHOOSE i \in 1..(Len(positive) - 1) :
        \A j \in 1..(Len(positive) - 1) :
            LET r == positive[j + 1] * positive[i]
                best == positive[i + 1] * positive[j]
            IN  r < best \/ (r = best /\ i <= j)

\* Square of the burst threshold, 0 when the deltas show no bursts.
Threshold2(positive) ==
    IF Len(positive) < 4 THEN 0
    ELSE LET best == BestIndex(positive)
             upper == Len(positive) - best
         IN  IF /\ positive[best + 1] >= 4 * positive[best]
                /\ upper >= 2
                /\ 20 * upper >= Len(positive)
                /\ 10 * upper <= 9 * Len(positive)
             THEN positive[best] * positive[best + 1]
             ELSE 0

\* First activation of each logical job, then the jobs themselves.
split_logical_jobs(acts) ==
    IF acts = <<>> THEN <<>>
    ELSE LET deltas == Deltas(Releases(acts))
             limit == Threshold2(Ascending(SelectSeq(deltas, LAMBDA d : d > 0)))
             heads == SelectSeq(<<>> \o [i \in DOMAIN acts |-> i],
                          LAMBDA i : \/ i = 1
                                     \/ limit = 0
                                     \/ deltas[i - 1] * deltas[i - 1] >= limit)
         IN  <<>> \o [k \in DOMAIN heads |->
                SubSeq(acts, heads[k],
                       IF k = Len(heads) THEN Len(acts) ELSE heads[k + 1] - 1)]

\* Twice the median.
Median2(s) ==
    LET sorted == Ascending(s)
        half == Len(s) \div 2
    IN  IF Len(s) % 2 = 1 THEN 2 * sorted[half + 1]
                          ELSE sorted[half] + sorted[half + 1]

\* The periods within 20% of the median; empty when the code raises.
stable_periods(groups) ==
    LET periods == SelectSeq(Deltas(<<>> \o [k \in DOMAIN groups |-> groups[k][1].release]),
                             LAMBDA p : p > 0)
        stable == SelectSeq(periods, LAMBDA p :
                      /\ 20 * p >= 8 * Median2(periods)
                      /\ 20 * p <= 12 * Median2(periods))
    IN  IF Len(periods) < 2 \/ Len(stable) < Max({2, (Len(periods) + 1) \div 2})
        THEN <<>> ELSE stable

Demand(group) == FoldLeft(LAMBDA sum, a : sum + a.execution, 0, group)

maximum_job_execution(groups) == Max({0} \cup {Demand(groups[k]) : k \in DOMAIN groups})

\* What one trace says of one worker; usable is false where the code raises.
Observation(worker) ==
    LET groups == split_logical_jobs(Complete(worker))
        stable == stable_periods(groups)
    IN  [usable |-> stable # <<>> /\ maximum_job_execution(groups) > 0,
         period |-> Min(Range(stable) \cup {End}),
         execution |-> maximum_job_execution(groups)]

Observed(trace) == {Observation(trace[tid]) : tid \in Steady(trace)}

Live(trace) == Range(thread_identities(trace))

\* Everything all traces and all instances of a role showed.
RoleObservations(signature) ==
    UNION {{Observation(traces[r][tid]) :
                tid \in {t \in Steady(traces[r]) : traces[r][t].signature = signature}} :
           r \in DOMAIN traces}

\* Default margins: 1.20 on the runtime, 0.91 on the period.
Runtime(execution) == Max({MinimumRuntime, (6 * execution + 4) \div 5})
Period(period) == Min({MaximumPeriod, (91 * period) \div 100})

\* Faulty: every instance is given what that instance showed.
OwnParameters(signature, instance) ==
    LET own(trace) == {tid \in Steady(trace) :
                         thread_identities(trace)[tid] = <<signature, instance>>}
        seen == UNION {{Observation(traces[r][tid]) : tid \in own(traces[r])} :
                       r \in DOMAIN traces}
    IN  [runtime |-> Runtime(Max({o.execution : o \in seen})),
         period |-> Period(Min({o.period : o \in seen}))]

\* The parameters of one instance.
Parameters(signature, instance) ==
    LET seen == RoleObservations(signature)
    IN  [runtime |-> Runtime(Max({o.execution : o \in seen})),
         period |-> Period(Min({o.period : o \in seen}))]

Excluded(signature, modeled) ==
    /\ modeled # 0
    /\ Min({o.period : o \in RoleObservations(signature)}) > modeled

\* The instances of a role that the traces agree on.
Instances(signature) ==
    Cardinality({id \in Live(traces[1]) : id[1] = signature})

RoleRows(signature, modeled) ==
    IF Instances(signature) = 0 \/ Excluded(signature, modeled) THEN <<>>
    ELSE <<>> \o [i \in 1..Instances(signature) |->
            [signature |-> signature, instance |-> i] @@ Parameters(signature, i)]

generate_rows(modeled) ==
    FlattenSeq([s \in 1..Cardinality(Roles) |-> RoleRows(s, modeled)])

(***************************************************************************)
(* Actions of the calibration.                                             *)
(***************************************************************************)

ProfileInit == ApplicationInit /\ traces = <<>>

\* One attempt recorded under SCHED_OTHER: a crew, the demand of each of its
\* workers, and the workers that left before the measurement.
Trace ==
    /\ stage = "tracing"
    /\ stage' = "tracing"
    /\ Len(traces) < TraceRuns
    /\ \E crew \in Crews :
        \E demand \in [DOMAIN crew -> UNION {Demands[s] : s \in Roles}],
           left \in SUBSET DOMAIN crew :
            /\ \A i \in DOMAIN crew : demand[i] \in Demands[crew[i]]
            /\ mishaps + Cardinality(left) <= MaxMishaps
            /\ mishaps' = mishaps + Cardinality(left)
            /\ traces' = Append(traces,
                 <<>> \o [i \in DOMAIN crew |->
                    [signature |-> crew[i],
                     exited |-> IF i \in left THEN Begin ELSE 0,
                     activations |-> demand[i]]])
    /\ Prepare
    /\ UNCHANGED rows

\* generate_profile: unusable workers, different worker sets, an empty
\* profile and a runtime beyond its period are refused.
generate_profile ==
    /\ stage = "tracing"
    /\ traces # <<>>
    /\ \E modeled \in ModeledPeriods :
        \E profile \in {IF /\ \A r \in DOMAIN traces :
                                  /\ \A o \in Observed(traces[r]) : o.usable
                                  /\ Live(traces[r]) = Live(traces[1])
                           /\ \A r \in DOMAIN traces : traces[r] # <<>>
                        THEN generate_rows(modeled) ELSE <<>>} :
            IF profile # <<>> /\ \A i \in DOMAIN profile :
                                    profile[i].runtime <= profile[i].period
            THEN rows' = profile /\ stage' = "profile"
            ELSE rows' = rows /\ stage' = "refused"
    /\ Prepare
    /\ UNCHANGED <<traces, mishaps>>

\* Only a profile of the generator has traces.
HandWritten ==
    /\ stage = "tracing"
    /\ traces = <<>>
    /\ rows' \in Profiles
    /\ stage' = "profile"
    /\ Prepare
    /\ UNCHANGED <<traces, mishaps>>

Apply ==
    /\ \/ Launch \/ load_profile \/ Comes \/ Goes
       \/ Count \/ Match \/ Assign \/ Return
    /\ UNCHANGED traces

ProfileNext == Trace \/ generate_profile \/ HandWritten \/ Apply

ProfileSpec == ProfileInit /\ [][ProfileNext]_profileVars

(***************************************************************************)
(* Properties.                                                             *)
(***************************************************************************)

\* Whole jobs of a worker as they really happened: their total executions
\* and the times between their first activations.
TrueJobs(worker) == {Complete(worker)[i].job : i \in DOMAIN Complete(worker)}
JobDemand(worker, job) ==
    Demand(SelectSeq(Complete(worker), LAMBDA a : a.job = job))
JobHeads(worker) ==
    SelectSeq(Complete(worker), LAMBDA a :
        \A b \in Range(Complete(worker)) : b.job = a.job => a.release <= b.release)
JobGaps(worker) == Deltas(Releases(JobHeads(worker)))

\* A worker that runs under a reservation (generate_deadline_profile.py,
\* apply_deadline_profile) has at least 1.2 times the execution of every whole
\* job that any worker of its role showed in any trace, and is replenished
\* at least as often as every such worker released half of its jobs. This
\* holds although generator and probe number instances by different clocks.
ReservationCoversRole ==
    \A tid \in Alive : tasks[tid].policy = "deadline" =>
        /\ tasks[tid].runtime <= tasks[tid].period
        /\ \A r \in DOMAIN traces : \A t \in Steady(traces[r]) :
            LET worker == traces[r][t]
                gaps == JobGaps(worker)
            IN  worker.signature = tasks[tid].signature =>
                  /\ \A job \in TrueJobs(worker) :
                        5 * tasks[tid].runtime >= 6 * JobDemand(worker, job)
                  /\ 2 * Cardinality({i \in DOMAIN gaps :
                            100 * tasks[tid].period <= 91 * gaps[i]}) >= Len(gaps)
==============================================================================
