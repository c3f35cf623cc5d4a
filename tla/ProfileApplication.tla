-------------------------- MODULE ProfileApplication --------------------------
(***************************************************************************)
(* deadline_scheduler.cpp: a probe under SCHED_OTHER reads a scheduler     *)
(* model profile, matches its rows with the live worker threads and        *)
(* applies them one system call at a time, as SCHED_DEADLINE reservations  *)
(* or as rate-monotonic priorities.  Threads come and go meanwhile, and    *)
(* the kernel may refuse a reservation.                                    *)
(*                                                                         *)
(* A signature is a number.  A row's deadline is its period, as in every   *)
(* profile the generator writes.                                           *)
(***************************************************************************)
EXTENDS Integers, FiniteSets, Sequences

CONSTANTS
    Roles,           \* signatures of the workers librealsense creates
    Crews,           \* sequences of signatures: workers in creation order
    TopPriorities,   \* highest priorities a rate-monotonic run may ask for
    MaxMishaps       \* bound: threads that come or go, refused admissions

ASSUME CrewsAssumption == Crews \subseteq Seq(Roles)
ASSUME PrioritiesAssumption == TopPriorities \subseteq Int

VARIABLES
    stage,        \* where generator and probe are
    rows,         \* the profile, in file order
    tasks,        \* live process: workers in creation order
    application,  \* locals of apply_deadline_profile and its fixed twin
    mishaps

applicationVars == <<stage, rows, tasks, application, mishaps>>

(***************************************************************************)
(* A task: [signature, alive, policy, runtime, period, priority]; its      *)
(* index is its creation_sequence and its TID.                             *)
(***************************************************************************)

SchedPolicies == {"other", "deadline", "fixed"}

Parameter == [policy : SchedPolicies, runtime : Nat, period : Nat, priority : Int]

Task == [signature : Roles, alive : BOOLEAN, policy : SchedPolicies,
         runtime : Nat, period : Nat, priority : Int]

Row == [signature : Int, instance : Nat, runtime : Nat, period : Nat]

Other == [policy |-> "other", runtime |-> 0, period |-> 0, priority |-> 0]

Worker(role) ==
    [signature |-> role, alive |-> TRUE, policy |-> "other",
     runtime |-> 0, period |-> 0, priority |-> 0]

Alive == {tid \in DOMAIN tasks : tasks[tid].alive}

Idle == [mode |-> "deadline", strict |-> TRUE, top |-> 0, count |-> 0,
         seen |-> {}, assigned |-> <<>>, next |-> 1]

ApplicationInit ==
    /\ stage = "tracing"
    /\ rows = <<>>
    /\ tasks = <<>>
    /\ application = Idle
    /\ mishaps = 0

\* What happens before the probe is up: a profile is made, or refused. It may
\* come from the generator or from anywhere else, and hold anything.
Prepare ==
    /\ stage = "tracing"
    /\ stage' \in {"tracing", "profile", "refused"}
    /\ UNCHANGED <<tasks, application>>

\* The probe is up, under SCHED_OTHER, and reaches the point of application.
Launch ==
    /\ stage = "profile"
    /\ \E crew \in Crews : tasks' = [i \in DOMAIN crew |-> Worker(crew[i])]
    /\ \/ \E strict \in BOOLEAN :
             application' = [Idle EXCEPT !.mode = "deadline", !.strict = strict]
       \/ \E top \in TopPriorities :
             application' = [Idle EXCEPT !.mode = "fixed", !.top = top]
    /\ stage' = "load"
    /\ UNCHANGED <<rows, mishaps>>

Key(row) == <<row.signature, row.instance>>

\* What load_profile accepts: numbers, in order, and no identity twice.
WellFormed ==
    /\ rows # <<>>
    /\ rows \in Seq(Row)
    /\ \A i \in DOMAIN rows :
          /\ rows[i].instance # 0 /\ rows[i].runtime # 0
          /\ rows[i].runtime <= rows[i].period
    /\ \A i, j \in DOMAIN rows : Key(rows[i]) = Key(rows[j]) => i = j

\* What the kernel grants SCHED_FIFO and SCHED_RR.
PriorityRange == 1..99

\* The checks both applications make before they look at a thread.
load_profile ==
    /\ stage = "load"
    /\ stage' = IF /\ application.mode = "fixed" => application.top \in PriorityRange
                  /\ WellFormed
               THEN "count" ELSE "thrown"
    /\ UNCHANGED <<rows, tasks, application, mishaps>>

Applying == stage \in {"count", "snapshot", "assign"}

\* librealsense starts or ends a worker meanwhile.
Comes ==
    /\ Applying
    /\ mishaps < MaxMishaps
    /\ mishaps' = mishaps + 1
    /\ \E role \in Roles : tasks' = Append(tasks, Worker(role))
    /\ UNCHANGED <<stage, rows, application>>

Goes ==
    /\ Applying
    /\ mishaps < MaxMishaps
    /\ mishaps' = mishaps + 1
    /\ \E tid \in Alive : tasks' = [tasks EXCEPT ![tid].alive = FALSE]
    /\ UNCHANGED <<stage, rows, application>>

\* snapshot_threads, first call: how many there are.
Count ==
    /\ stage = "count"
    /\ application' = [application EXCEPT !.count = Cardinality(Alive)]
    /\ stage' = "snapshot"
    /\ UNCHANGED <<rows, tasks, mishaps>>

\* Live workers by (signature, instance), numbered in creation order.
LiveKey(tid) ==
    <<tasks[tid].signature,
      Cardinality({t \in Alive :
          t <= tid /\ tasks[t].signature = tasks[tid].signature})>>

Matches(row) == {tid \in Alive : LiveKey(tid) = Key(row)}

\* Rate-monotonic levels: distinct periods, shortest first.
Periods == {rows[i].period : i \in DOMAIN rows}
Priority(row) == application.top - Cardinality({p \in Periods : p < row.period})

Fits ==
    /\ application.strict => Cardinality(Alive) = Len(rows)
    /\ Len(rows) <= Cardinality(Alive)
    /\ application.mode = "fixed" => application.top - Cardinality(Periods) + 1 >= 1
    /\ \A i \in DOMAIN rows : Matches(rows[i]) # {}

Assignment(row) ==
    [tid |-> CHOOSE tid \in Matches(row) : TRUE,
     to |-> IF application.mode = "deadline"
            THEN [policy |-> "deadline", runtime |-> row.runtime,
                  period |-> row.period, priority |-> 0]
            ELSE [policy |-> "fixed", runtime |-> 0,
                  period |-> row.period, priority |-> Priority(row)]]

\* snapshot_threads, second call, and the matching of rows and workers.
Match ==
    /\ stage = "snapshot"
    /\ IF Cardinality(Alive) <= application.count /\ Fits
       THEN /\ application' = [application EXCEPT !.seen = Alive, !.assigned =
                                  [i \in DOMAIN rows |-> Assignment(rows[i])]]
            /\ stage' = "assign"
       ELSE application' = application /\ stage' = "thrown"
    /\ UNCHANGED <<rows, tasks, mishaps>>

With(task, to) ==
    [task EXCEPT !.policy = to.policy, !.runtime = to.runtime,
                 !.period = to.period, !.priority = to.priority]

\* Faulty: the error is reported and nothing is put back.
LeftAsIs == tasks

\* Has this worker been changed?
Changed(tid) ==
    \E i \in 1..(application.next - 1) : application.assigned[i].tid = tid

\* restore_other: the workers already changed go back to SCHED_OTHER.
Restored ==
    [tid \in DOMAIN tasks |->
        IF tasks[tid].alive /\ Changed(tid) THEN With(tasks[tid], Other)
        ELSE tasks[tid]]

\* One system call of the assignment loop.  It fails for a worker that is
\* gone, and when the kernel does not admit the reservation.
Assign ==
    /\ stage = "assign"
    /\ application.next <= Len(application.assigned)
    /\ LET a == application.assigned[application.next]
       IN  \/ /\ tasks[a.tid].alive
              /\ tasks' = [tasks EXCEPT ![a.tid] = With(@, a.to)]
              /\ application' = [application EXCEPT !.next = @ + 1]
              /\ UNCHANGED <<stage, mishaps>>
           \/ /\ tasks[a.tid].alive => mishaps < MaxMishaps
              /\ mishaps' = IF tasks[a.tid].alive THEN mishaps + 1 ELSE mishaps
              /\ tasks' = Restored
              /\ stage' = "thrown"
              /\ UNCHANGED application
    /\ UNCHANGED rows

Return ==
    /\ stage = "assign"
    /\ application.next > Len(application.assigned)
    /\ stage' = "applied"
    /\ UNCHANGED <<rows, tasks, application, mishaps>>

ApplicationNext ==
    \/ Prepare \/ Launch \/ load_profile \/ Comes \/ Goes
    \/ Count \/ Match \/ Assign \/ Return

\* The application on its own, for any profile.
ApplicationSpec == ApplicationInit /\ [][ApplicationNext]_applicationVars

(***************************************************************************)
(* Properties.                                                             *)
(***************************************************************************)

Assignees == {application.assigned[i].tid : i \in DOMAIN rows}

\* Application is all or nothing (apply_deadline_profile,
\* apply_rate_monotonic_profile): once it has thrown, no worker is left
\* under a real-time policy; once it has returned, every row is held by a
\* worker of its role or that worker is gone, no two rows by the same worker,
\* in a strict application no worker of the snapshot was passed over, and a
\* fixed priority is the higher the shorter the modelled period.
AllOrNothing ==
    /\ stage = "thrown" => \A tid \in Alive : tasks[tid].policy = "other"
    /\ stage = "applied" =>
        /\ \A i \in DOMAIN rows :
              LET tid == application.assigned[i].tid
              IN  /\ tasks[tid].signature = rows[i].signature
                  /\ tasks[tid].alive => tasks[tid].policy = application.mode
        /\ Cardinality(Assignees) = Len(rows)
        /\ application.strict => Assignees = application.seen
        /\ application.mode = "fixed" =>
              \A a, b \in Alive :
                  (tasks[a].policy = "fixed" /\ tasks[b].policy = "fixed") =>
                     (tasks[a].period < tasks[b].period
                        <=> tasks[a].priority > tasks[b].priority)

(***************************************************************************)
(* Why they hold: the inductive invariant.                                 *)
(***************************************************************************)

ApplicationTypeOK ==
    /\ tasks \in Seq(Task)
    /\ application \in
          [mode : {"deadline", "fixed"}, strict : BOOLEAN, top : Int, count : Int,
           seen : SUBSET Nat, assigned : Seq([tid : Nat, to : Parameter]),
           next : Nat]

\* What Match promises the assignment loop.
Planned ==
    /\ Len(application.assigned) = Len(rows)
    /\ \A i \in DOMAIN rows :
          LET a == application.assigned[i]
          IN  /\ a.tid \in DOMAIN tasks /\ a.tid \in application.seen
              /\ tasks[a.tid].signature = rows[i].signature
              /\ a.to.policy = application.mode /\ a.to.period = rows[i].period
              /\ application.mode = "fixed" => a.to.priority = Priority(rows[i])
    /\ \A i, j \in DOMAIN rows :
          application.assigned[i].tid = application.assigned[j].tid => i = j
    /\ IsFiniteSet(application.seen)
    /\ application.strict => Cardinality(application.seen) = Len(rows)

\* How far the loop is: nobody but the workers before `next` was touched.
Progress ==
    /\ application.next \in 1..(Len(rows) + 1)
    /\ \A i \in 1..(application.next - 1) :
          LET a == application.assigned[i]
          IN  /\ tasks[a.tid].policy = a.to.policy
              /\ tasks[a.tid].period = a.to.period
              /\ tasks[a.tid].priority = a.to.priority
    /\ \A tid \in DOMAIN tasks : tasks[tid].policy # "other" => Changed(tid)

ApplicationInv ==
    /\ stage \in {"count", "snapshot", "assign", "applied"} => WellFormed
    /\ stage \in {"load", "count", "snapshot"} =>
          /\ \A tid \in DOMAIN tasks : tasks[tid].policy = "other"
          /\ application.next = 1
    /\ stage \in {"assign", "applied"} => Planned /\ Progress
    /\ stage = "applied" => application.next = Len(rows) + 1
    /\ stage = "thrown" => \A tid \in Alive : tasks[tid].policy = "other"
==============================================================================
