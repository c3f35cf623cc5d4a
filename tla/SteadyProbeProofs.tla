------------------------- MODULE SteadyProbeProofs -------------------------
(***************************************************************************)
(* Proofs about SteadyProbe, for any number of cameras and any options:    *)
(* types, what a step can change, the invariant, what follows from it, and *)
(* that the probe implements ProbeLifecycle.                               *)
(***************************************************************************)
EXTENDS SteadyProbe, FiniteSetTheorems, TLAPS

-----------------------------------------------------------------------------
(* Types, hardware synchronisation, the first failure and the deadline.    *)

\* Every variable keeps its type through every step of main and the cameras.
THEOREM TypeCorrect == Spec => []TypeOK
<1>1. Init => TypeOK
  <2> SUFFICES ASSUME Init PROVE TypeOK
    OBVIOUS
  <2>1. /\ {enabled, transition, stop, failed} \subseteq BOOLEAN
        /\ {saw, ready, warmed, completed} \subseteq [Cameras -> BOOLEAN]
    BY Zenon DEF Init
  <2> QED
    BY Zenon, <2>1
    DEF Init, TypeOK, MainPcs, ThreadPcs, ErrorKinds, FrameErrors, Terminal,
      AfterWarm, Closing
<1>2. TypeOK /\ [Next]_vars => TypeOK'
  <2> SUFFICES ASSUME TypeOK, [Next]_vars PROVE TypeOK'
    BY Zenon
  <2> USE DEF TypeOK, mainVars, flagVars, failureVars, countVars, threadVars,
      metricVars, envVars
  <2> USE DEF MainPcs, ThreadPcs, ErrorKinds, FrameErrors, Terminal,
      AfterWarm, Closing
  <2>1. CASE Main
    <3>1. CASE ConfigureSync BY <3>1 DEF ConfigureSync
    <3>2. CASE AwaitSchedulerReady
      <4>1. failed' \in BOOLEAN BY <3>2, Zenon DEF AwaitSchedulerReady, FailMain
      <4> QED BY <3>2, <4>1 DEF AwaitSchedulerReady, FailMain
    <3>3. CASE ApplyProfile
      <4>1. failed' \in BOOLEAN BY <3>3, Zenon DEF ApplyProfile, FailMain
      <4> QED BY <3>3, <4>1 DEF ApplyProfile, FailMain
    <3>4. CASE AwaitWarm
      <4>1. failed' \in BOOLEAN BY <3>4, Zenon DEF AwaitWarm, FailMain
      <4> QED BY <3>4, <4>1 DEF AwaitWarm, FailMain
    <3>5. CASE PublishWarmupReady BY <3>5 DEF PublishWarmupReady
    <3>6. CASE EnterTransition BY <3>6 DEF EnterTransition
    <3>7. CASE wait_for_measurement_gate
      <4>1. failed' \in BOOLEAN
        BY <3>7, Zenon DEF wait_for_measurement_gate, FailMain
      <4> QED BY <3>7, <4>1 DEF wait_for_measurement_gate, FailMain
    <3>8. CASE LeaveTransition
      <4>1. transition' \in BOOLEAN BY <3>8, Zenon DEF LeaveTransition
      <4> QED BY <3>8, <4>1 DEF LeaveTransition
    <3>9. CASE HaltMain BY <3>9 DEF HaltMain
    <3>10. CASE BeginMeasurement BY <3>10 DEF BeginMeasurement
    <3>11. CASE EnableMeasurement BY <3>11 DEF EnableMeasurement
    <3>12. CASE AwaitMeasurement
      <4>1. failed' \in BOOLEAN BY <3>12, Zenon DEF AwaitMeasurement, FailMain
      <4> QED BY <3>12, <4>1 DEF AwaitMeasurement, FailMain
    <3>13. CASE DisableMeasurement
      <4>1. enabled' \in BOOLEAN BY <3>13, Zenon DEF DisableMeasurement
      <4> QED BY <3>13, <4>1 DEF DisableMeasurement
    <3>14. CASE RequestStop BY <3>14 DEF RequestStop
    <3>15. CASE JoinWaitLoops BY <3>15 DEF JoinWaitLoops
    <3>16. CASE RestoreSync
      <4>1. failed' \in BOOLEAN /\ stop' \in BOOLEAN
        BY <3>16, Zenon DEF RestoreSync, FailMain
      <4> QED BY <3>16, <4>1 DEF RestoreSync, FailMain
    <3>17. CASE WriteReport BY <3>17 DEF WriteReport
    <3>18. ASSUME NEW c \in Cameras, StartPipeline(c) PROVE TypeOK'
      BY <3>18 DEF StartPipeline
    <3>19. ASSUME NEW c \in Cameras, SpawnWaitLoop(c) PROVE TypeOK'
      BY <3>19 DEF SpawnWaitLoop
    <3>20. ASSUME NEW c \in Cameras, StopPipeline(c) PROVE TypeOK'
      <4>1. failed' \in BOOLEAN /\ stop' \in BOOLEAN
        BY <3>20, Zenon DEF StopPipeline, FailMain
      <4> QED BY <3>20, <4>1 DEF StopPipeline, FailMain
    <3> QED
      BY ZenonT(30), <2>1, <3>1, <3>2, <3>3, <3>4, <3>5, <3>6, <3>7, <3>8, <3>9,
         <3>10, <3>11, <3>12, <3>13, <3>14, <3>15, <3>16, <3>17, <3>18,
         <3>19, <3>20
      DEF Main
  <2>2. ASSUME NEW c \in Cameras, wait_loop(c) PROVE TypeOK'
    <3>1. CASE LoopHead(c) BY <3>1 DEF LoopHead
    <3>2. CASE LoadEnabled(c) BY <3>2 DEF LoadEnabled
    <3>3. CASE WaitFails(c) BY <3>3 DEF WaitFails
    <3>4. CASE HandleTimeout(c) BY <3>4 DEF HandleTimeout
    <3> QED BY Zenon, <2>2, <3>1, <3>2, <3>3, <3>4 DEF wait_loop
  <2>3. ASSUME NEW c \in Cameras, FrameArrives(c) PROVE TypeOK'
    BY <2>3 DEF FrameArrives
  <2>4. ASSUME NEW c \in Cameras, set_failure(c) PROVE TypeOK'
    <3>1. CASE SetFailure(c) BY <3>1 DEF SetFailure
    <3>2. CASE Halt(c) BY <3>2 DEF Halt, AfterDelivery
    <3> QED BY Zenon, <2>4, <3>1, <3>2 DEF set_failure
  <2>5. ASSUME NEW c \in Cameras, record_delivery(c) PROVE TypeOK'
    <3>1. CASE RecordWarmup(c) BY <3>1 DEF RecordWarmup, AfterDelivery
    <3>2. CASE RecordMeasured(c) BY <3>2 DEF RecordMeasured, AfterDelivery
    <3>3. CASE DropDelivery(c) BY <3>3 DEF DropDelivery, AfterDelivery
    <3>4. CASE Publish(c) BY <3>4 DEF Publish, AfterDelivery
    <3> QED BY Zenon, <2>5, <3>1, <3>2, <3>3, <3>4 DEF record_delivery
  <2>6. CASE DeadlinePasses BY <2>6 DEF DeadlinePasses
  <2>7. CASE RunnerAnswers BY <2>7 DEF RunnerAnswers
  <2>8. CASE UNCHANGED vars BY <2>8 DEF vars
  <2> QED
    BY Zenon, <2>1, <2>2, <2>3, <2>4, <2>5, <2>6, <2>7, <2>8 DEF Next, Terminated
<1> QED BY <1>1, <1>2, PTL DEF Spec

-----------------------------------------------------------------------------
(* What a step of a camera thread, and a step of main, can change.         *)

CameraStep(c) ==
    wait_loop(c) \/ FrameArrives(c) \/ set_failure(c) \/ record_delivery(c)

LEMMA CameraFrame ==
    ASSUME NEW c \in Cameras, CameraStep(c)
    PROVE  /\ Alive
           /\ UNCHANGED <<mainPc, started, stopped, summary, enabled,
                          transition, clock, gate>>
           /\ failed => failed'
<1>1. CASE wait_loop(c)
  BY <1>1 DEF wait_loop, LoopHead, LoadEnabled, WaitFails, HandleTimeout,
     mainVars, flagVars, failureVars, envVars
<1>2. CASE FrameArrives(c)
  BY Zenon, <1>2 DEF FrameArrives, mainVars, flagVars, failureVars, envVars
<1>3. CASE set_failure(c)
  BY <1>3 DEF set_failure, SetFailure, Halt, mainVars, flagVars, envVars
<1>4. CASE record_delivery(c)
  <2> USE DEF mainVars, flagVars, failureVars, envVars
  <2>1. CASE RecordWarmup(c) BY Zenon, <2>1 DEF RecordWarmup
  <2>2. CASE RecordMeasured(c) BY Zenon, <2>2 DEF RecordMeasured
  <2>3. CASE DropDelivery(c) BY Zenon, <2>3 DEF DropDelivery
  <2>4. CASE Publish(c) BY Zenon, <2>4 DEF Publish
  <2> QED BY Zenon, <1>4, <2>1, <2>2, <2>3, <2>4 DEF record_delivery
<1> QED BY Zenon, <1>1, <1>2, <1>3, <1>4 DEF CameraStep

\* Only record_delivery touches the flags, the news and the counters.
LEMMA FlagsFrame ==
    ASSUME [Next]_vars
    PROVE  \/ UNCHANGED <<ready, warmed, completed, warmups, deliveries,
                          pending, readyCount, warmedCount, completedCount>>
           \/ \E c \in Cameras :
                 RecordWarmup(c) \/ RecordMeasured(c) \/ Publish(c)
<1> USE DEF mainVars, flagVars, failureVars, countVars, threadVars,
    metricVars, envVars
<1>1. CASE Main
  BY Zenon, <1>1 DEF Main, ConfigureSync, StartPipeline, SpawnWaitLoop,
     AwaitSchedulerReady, ApplyProfile, AwaitWarm, PublishWarmupReady,
     EnterTransition, wait_for_measurement_gate, LeaveTransition, HaltMain,
     BeginMeasurement, EnableMeasurement, AwaitMeasurement,
     DisableMeasurement, RequestStop, StopPipeline, JoinWaitLoops,
     RestoreSync, WriteReport
<1>2. ASSUME NEW c \in Cameras, CameraStep(c),
             ~(RecordWarmup(c) \/ RecordMeasured(c) \/ Publish(c))
      PROVE  UNCHANGED <<ready, warmed, completed, warmups, deliveries,
                         pending, readyCount, warmedCount, completedCount>>
  BY Zenon, <1>2 DEF CameraStep, wait_loop, LoopHead, LoadEnabled, WaitFails,
     HandleTimeout, FrameArrives, set_failure, SetFailure, Halt,
     record_delivery, DropDelivery
<1>3. CASE DeadlinePasses \/ RunnerAnswers
  BY Zenon, <1>3 DEF DeadlinePasses, RunnerAnswers
<1>4. CASE UNCHANGED vars BY Zenon, <1>4 DEF vars
<1> QED BY Zenon, <1>1, <1>2, <1>3, <1>4 DEF Next, Terminated, CameraStep

-----------------------------------------------------------------------------
(* Hardware synchronisation.                                               *)

\* pipeline_start_order puts the master behind every slave.
LEMMA MasterIsLast ==
    ASSUME Master # NoSerial, NEW c \in Cameras, c # Master
    PROVE  Precedes(c, Master)
<1>1. PICK i \in 1..Len(Slaves) : Slaves[i] = c
  BY Zenon, OptionsAssumption
<1>2. /\ Len(pipeline_start_order) = Len(Slaves) + 1
      /\ pipeline_start_order[i] = c
      /\ pipeline_start_order[Len(Slaves) + 1] = Master
  BY <1>1, OptionsAssumption DEF pipeline_start_order
<1>3. Len(Slaves) \in Nat BY OptionsAssumption
<1> QED BY <1>1, <1>2, <1>3 DEF Precedes

LEMMA SourceStep ==
    ASSUME TypeOK, SourceIsOutermost, [Next]_vars
    PROVE  SourceIsOutermost'
<1> SUFFICES ASSUME Master # NoSerial PROVE SourceIsOutermost'
  BY Zenon DEF SourceIsOutermost
<1> USE DEF SourceIsOutermost
<1>1. CASE Main
  <2>1. ASSUME NEW c \in Cameras, StartPipeline(c) PROVE SourceIsOutermost'
    <3>1. ASSUME c = Master, NEW d \in Cameras, d # Master
          PROVE  d \in started
      BY Zenon, <2>1, <3>1, MasterIsLast DEF StartPipeline
    <3>2. c = Master => started \cup {c} = Cameras
      BY <3>1 DEF TypeOK
    <3> QED BY Zenon, <2>1, <3>2 DEF StartPipeline
  <2>2. ASSUME NEW c \in Cameras, StopPipeline(c) PROVE SourceIsOutermost'
    <3>1. c = Master \/ Master \in stopped
      BY Zenon, <2>2, MasterIsLast, OptionsAssumption DEF StopPipeline, Stopping
    <3> QED BY Zenon, <2>2, <3>1 DEF StopPipeline, Stopping
  <2>3. CASE \/ ConfigureSync \/ AwaitSchedulerReady \/ ApplyProfile
             \/ AwaitWarm \/ PublishWarmupReady \/ EnterTransition
             \/ wait_for_measurement_gate \/ LeaveTransition \/ HaltMain
             \/ BeginMeasurement \/ EnableMeasurement \/ AwaitMeasurement
             \/ DisableMeasurement \/ RequestStop \/ JoinWaitLoops
             \/ RestoreSync \/ WriteReport
             \/ \E c \in Cameras : SpawnWaitLoop(c)
    BY Zenon, <2>3
    DEF ConfigureSync, AwaitSchedulerReady, ApplyProfile, AwaitWarm,
       PublishWarmupReady, EnterTransition, wait_for_measurement_gate,
       LeaveTransition, HaltMain, BeginMeasurement, EnableMeasurement,
       AwaitMeasurement, DisableMeasurement, RequestStop, JoinWaitLoops,
       RestoreSync, WriteReport, SpawnWaitLoop
  <2> QED BY Zenon, <1>1, <2>1, <2>2, <2>3 DEF Main
<1>2. ASSUME NEW c \in Cameras, CameraStep(c) PROVE SourceIsOutermost'
  BY Zenon, <1>2, CameraFrame
<1>3. CASE DeadlinePasses \/ RunnerAnswers \/ UNCHANGED vars
  BY Zenon, <1>3 DEF DeadlinePasses, RunnerAnswers, vars, mainVars
<1> QED BY Zenon, <1>1, <1>2, <1>3 DEF Next, Terminated, CameraStep

\* For any number of synchronised cameras, whatever fails, the pulse source
\* streams only while every receiver does.
THEOREM PulseSourceInsideHolds == Spec => []PulseSourceInside
<1>1. Init => SourceIsOutermost
  BY Zenon, OptionsAssumption DEF Init, SourceIsOutermost
<1>2. TypeOK /\ SourceIsOutermost => PulseSourceInside
  BY Zenon, OptionsAssumption DEF SourceIsOutermost, PulseSourceInside, TypeOK
<1> QED BY <1>1, <1>2, SourceStep, TypeCorrect, PTL DEF Spec

-----------------------------------------------------------------------------
(* Action properties of every step.                                        *)

\* set_failure keeps the first failure, whichever thread reports it and
\* however many others fail meanwhile.
THEOREM FirstFailureWinsHolds == Spec => FirstFailureWins
<1>1. TypeOK /\ [Next]_vars => (failed => failed' /\ error' = error)
  <2> SUFFICES ASSUME TypeOK, [Next]_vars, failed
               PROVE  failed' /\ error' = error
    BY Zenon
  <2> USE DEF mainVars, flagVars, failureVars, FailMain
  <2>1. CASE Main
    BY Zenon, <2>1 DEF Main, ConfigureSync, StartPipeline, SpawnWaitLoop,
       AwaitSchedulerReady, ApplyProfile, AwaitWarm, PublishWarmupReady,
       EnterTransition, wait_for_measurement_gate, LeaveTransition, HaltMain,
       BeginMeasurement, EnableMeasurement, AwaitMeasurement,
       DisableMeasurement, RequestStop, StopPipeline, JoinWaitLoops,
       RestoreSync, WriteReport
  <2>2. ASSUME NEW c \in Cameras, CameraStep(c)
        PROVE  failed' /\ error' = error
    BY Zenon, <2>2 DEF CameraStep, wait_loop, LoopHead, LoadEnabled, WaitFails,
       HandleTimeout, FrameArrives, set_failure, SetFailure, Halt,
       record_delivery, RecordWarmup, RecordMeasured, DropDelivery, Publish
  <2>3. CASE DeadlinePasses \/ RunnerAnswers \/ UNCHANGED vars
    BY Zenon, <2>3 DEF DeadlinePasses, RunnerAnswers, vars
  <2> QED BY Zenon, <2>1, <2>2, <2>3 DEF Next, Terminated, CameraStep
<1> QED BY <1>1, TypeCorrect, PTL DEF Spec, FirstFailureWins

\* No delivery is counted outside the measurement or with a timestamp past its
\* deadline, however long its thread was delayed.
THEOREM DeadlineRespectedHolds == Spec => DeadlineRespected
<1>1. TypeOK /\ [Next]_vars =>
        \A c \in Cameras :
          deliveries'[c] # deliveries[c] =>
              enabled /\ ~(FixedDuration /\ stamp[c] = "after")
  <2> SUFFICES ASSUME TypeOK, [Next]_vars, NEW c \in Cameras,
                      deliveries'[c] # deliveries[c]
               PROVE  enabled /\ ~(FixedDuration /\ stamp[c] = "after")
    BY Zenon
  <2>1. PICK d \in Cameras :
          RecordWarmup(d) \/ RecordMeasured(d) \/ Publish(d)
    BY Zenon, FlagsFrame
  <2>2. RecordMeasured(d)
    BY Zenon, <2>1 DEF RecordWarmup, Publish, metricVars
  <2>3. d = c BY ZenonT(30), <2>2 DEF RecordMeasured, TypeOK
  <2> QED BY Zenon, <2>2, <2>3 DEF RecordMeasured, PastDeadline
<1> QED BY <1>1, TypeCorrect, PTL DEF Spec, DeadlineRespected

-----------------------------------------------------------------------------
(* The parts of the invariant that need no counting, and how a step        *)
(* preserves each of them.                                                 *)

\* Main moves a camera's program counter only at start, spawn and stop.
LEMMA MainFrame ==
    ASSUME TypeOK, Main
    PROVE  /\ UNCHANGED <<saw, pending, message, ready, warmed, completed,
                          warmups, deliveries, preTimeouts, lateTimeouts>>
           /\ failed => failed'
           /\ \/ UNCHANGED pc
              \/ \E c \in Cameras :
                    /\ \/ /\ StartPipeline(c)
                          /\ mainPc = "start" /\ c \notin started
                       \/ SpawnWaitLoop(c) /\ pc[c] = "off"
                       \/ StopPipeline(c) /\ (Callback => pc[c] = "wait")
                    /\ \A d \in Cameras \ {c} : pc'[d] = pc[d]
<1> USE DEF mainVars, flagVars, failureVars, countVars, threadVars,
    metricVars, envVars, TypeOK
<1>1. CASE ConfigureSync \/ AwaitSchedulerReady \/ ApplyProfile \/ AwaitWarm
           \/ PublishWarmupReady \/ EnterTransition
  BY Zenon, <1>1 DEF ConfigureSync, AwaitSchedulerReady, ApplyProfile, AwaitWarm,
     PublishWarmupReady, EnterTransition, FailMain
<1>2. CASE wait_for_measurement_gate \/ LeaveTransition \/ HaltMain
           \/ BeginMeasurement \/ EnableMeasurement \/ AwaitMeasurement
  BY Zenon, <1>2 DEF wait_for_measurement_gate, LeaveTransition, HaltMain,
     BeginMeasurement, EnableMeasurement, AwaitMeasurement, FailMain
<1>3. CASE DisableMeasurement \/ RequestStop \/ JoinWaitLoops
           \/ RestoreSync \/ WriteReport
  BY Zenon, <1>3 DEF DisableMeasurement, RequestStop, JoinWaitLoops, RestoreSync,
     WriteReport, FailMain
<1>4. ASSUME NEW c \in Cameras,
             StartPipeline(c) \/ SpawnWaitLoop(c) \/ StopPipeline(c)
      PROVE  /\ UNCHANGED <<saw, pending, message, ready, warmed, completed,
                            warmups, deliveries, preTimeouts, lateTimeouts>>
             /\ failed => failed'
             /\ \/ StartPipeline(c) /\ mainPc = "start" /\ c \notin started
                \/ SpawnWaitLoop(c) /\ pc[c] = "off"
                \/ StopPipeline(c) /\ (Callback => pc[c] = "wait")
             /\ \A d \in Cameras \ {c} : pc'[d] = pc[d]
  <2>1. CASE StartPipeline(c) BY Zenon, <2>1 DEF StartPipeline
  <2>2. CASE SpawnWaitLoop(c) BY Zenon, <2>2 DEF SpawnWaitLoop
  <2>3. CASE StopPipeline(c) BY <2>3 DEF StopPipeline, FailMain
  <2> QED BY Zenon, <1>4, <2>1, <2>2, <2>3
<1> QED BY Zenon, <1>1, <1>2, <1>3, <1>4 DEF Main

LEMMA NewsStep ==
    ASSUME TypeOK, NewsIsTrue, [Next]_vars
    PROVE  NewsIsTrue'
<1>1. CASE Main
  <2>1. UNCHANGED <<pending, ready, warmed, completed>>
    BY Zenon, <1>1, MainFrame
  <2>2. ASSUME NEW d \in Cameras, pending[d] # {} PROVE pc'[d] = "publish"
    <3>1. CASE UNCHANGED pc BY Zenon, <2>2, <3>1 DEF NewsIsTrue
    <3>2. ASSUME NEW c \in Cameras,
                 \/ StartPipeline(c) /\ mainPc = "start" /\ c \notin started
                 \/ SpawnWaitLoop(c) /\ pc[c] = "off"
                 \/ StopPipeline(c) /\ (Callback => pc[c] = "wait"),
                 \A e \in Cameras \ {c} : pc'[e] = pc[e]
          PROVE  pc'[d] = "publish"
      BY <2>2, <3>2 DEF NewsIsTrue, StopPipeline, TypeOK
    <3> QED BY Zenon, <1>1, <3>1, <3>2, MainFrame
  <2>3. ASSUME NEW d \in Cameras, mainPc' \in {"configure", "start"},
               d \notin started'
        PROVE  pc'[d] = "off"
    <3>1. mainPc \in {"configure", "start"} /\ d \notin started
          /\ ~(\E c \in Cameras : SpawnWaitLoop(c) \/ StopPipeline(c))
      BY Zenon, <1>1, <2>3 DEF Main, ConfigureSync, StartPipeline, SpawnWaitLoop,
         AwaitSchedulerReady, ApplyProfile, AwaitWarm, PublishWarmupReady,
         EnterTransition, wait_for_measurement_gate, LeaveTransition,
         HaltMain, BeginMeasurement, EnableMeasurement, AwaitMeasurement,
         DisableMeasurement, RequestStop, StopPipeline, JoinWaitLoops,
         RestoreSync, WriteReport, Stopping
    <3>2. CASE UNCHANGED pc BY Zenon, <3>1, <3>2 DEF NewsIsTrue
    <3>3. ASSUME NEW c \in Cameras, StartPipeline(c),
                 \A e \in Cameras \ {c} : pc'[e] = pc[e]
          PROVE  pc'[d] = "off"
      <4>1. CASE c # d BY Zenon, <3>1, <3>3, <4>1 DEF NewsIsTrue
      <4>2. CASE c = d BY Zenon, <2>3, <3>1, <3>3, <4>2 DEF StartPipeline, NewsIsTrue
      <4> QED BY Zenon, <4>1, <4>2
    <3> QED BY Zenon, <1>1, <3>1, <3>2, <3>3, MainFrame
  <2> QED BY Zenon, <2>1, <2>2, <2>3 DEF NewsIsTrue
<1>2. ASSUME NEW c \in Cameras, CameraStep(c)
      PROVE  NewsIsTrue'
  <2>1. UNCHANGED <<mainPc, started>> /\ pc[c] # "off"
    <3>1. pc[c] # "off"
      BY Zenon, <1>2
      DEF CameraStep, wait_loop, LoopHead, LoadEnabled, WaitFails,
         HandleTimeout, FrameArrives, set_failure, SetFailure, Halt,
         record_delivery, RecordWarmup, RecordMeasured, DropDelivery, Publish
    <3> QED BY Zenon, <1>2, <3>1, CameraFrame
  <2>2. CASE wait_loop(c) \/ FrameArrives(c) \/ set_failure(c)
    <3>1. UNCHANGED <<pending, ready, warmed, completed>>
          /\ pc[c] # "publish" /\ pc \in [Cameras -> ThreadPcs]
          /\ \A d \in Cameras \ {c} : pc'[d] = pc[d]
      <4>1. pc \in [Cameras -> ThreadPcs] BY Zenon DEF TypeOK
      <4>2. CASE wait_loop(c)
        BY Zenon, <4>1, <4>2 DEF wait_loop, LoopHead, LoadEnabled, WaitFails,
           HandleTimeout, metricVars
      <4>3. CASE FrameArrives(c) \/ set_failure(c)
        BY Zenon, <4>1, <4>3 DEF FrameArrives, set_failure, SetFailure, Halt,
           metricVars
      <4> QED BY Zenon, <2>2, <4>1, <4>2, <4>3
    <3> QED BY Zenon, <2>1, <3>1 DEF NewsIsTrue
  <2>3. CASE RecordWarmup(c)
    <3>1. \A d \in Cameras \ {c} :
            /\ pending'[d] = pending[d] /\ pc'[d] = pc[d]
            /\ ready'[d] = ready[d] /\ warmed'[d] = warmed[d]
            /\ completed'[d] = completed[d]
      BY <2>3 DEF RecordWarmup, TypeOK
    <3>2. /\ pending'[c] # {} => pc'[c] = "publish"
          /\ "ready" \in pending'[c] => ready'[c]
          /\ "warm" \in pending'[c] => warmed'[c]
          /\ "complete" \notin pending'[c]
      <4> DEFINE n == warmups[c] + 1
                 isReady == Modeled /\ ~ready[c] /\ n >= ApplyAfter
                 isWarm(u) == n >= WarmupFrames /\ ~u
                 news(u) == {x \in {"ready", "warm"} :
                                 (x = "ready" /\ isReady)
                                     \/ (x = "warm" /\ isWarm(u))}
      <4>1. PICK u \in HealthErrors(n) :
              /\ ready'[c] = (ready[c] \/ isReady)
              /\ warmed'[c] = isWarm(u)
              /\ pending'[c] = IF u THEN {} ELSE news(u)
              /\ pc'[c] = IF u THEN "fail"
                          ELSE IF news(u) # {} THEN "publish"
                          ELSE AfterDelivery(FALSE)
        BY Zenon, <2>3 DEF RecordWarmup, TypeOK
      <4> QED BY Zenon, <4>1
    <3> QED BY Zenon, <2>1, <3>1, <3>2 DEF NewsIsTrue
  <2>4. CASE RecordMeasured(c)
    <3>1. \A d \in Cameras \ {c} :
            /\ pending'[d] = pending[d] /\ pc'[d] = pc[d]
            /\ ready'[d] = ready[d] /\ warmed'[d] = warmed[d]
            /\ completed'[d] = completed[d]
      BY <2>4 DEF RecordMeasured, TypeOK
    <3>2. /\ pending'[c] # {} => pc'[c] = "publish"
          /\ pending'[c] \subseteq {"complete"}
          /\ "complete" \in pending'[c] => completed'[c]
      BY ZenonT(30), <2>4 DEF RecordMeasured, TypeOK
    <3> QED BY <2>1, <3>1, <3>2 DEF NewsIsTrue
  <2>5. CASE DropDelivery(c)
    BY Zenon, <2>1, <2>5 DEF DropDelivery, metricVars, NewsIsTrue, TypeOK
  <2>6. CASE Publish(c)
    BY <2>1, <2>6 DEF Publish, metricVars, NewsIsTrue, TypeOK
  <2> QED
    BY Zenon, <1>2, <2>2, <2>3, <2>4, <2>5, <2>6 DEF CameraStep, record_delivery
<1>3. CASE DeadlinePasses \/ RunnerAnswers \/ UNCHANGED vars
  BY Zenon, <1>3 DEF DeadlinePasses, RunnerAnswers, vars, mainVars, threadVars,
     metricVars, NewsIsTrue
<1> QED BY Zenon, <1>1, <1>2, <1>3 DEF Next, Terminated, CameraStep

LEMMA QuotaStep ==
    ASSUME TypeOK, QuotaKept, [Next]_vars
    PROVE  QuotaKept'
<1>1. CASE UNCHANGED <<ready, warmed, completed, warmups, deliveries,
                       pending, readyCount, warmedCount, completedCount>>
  BY Zenon, <1>1 DEF QuotaKept
<1>2. ASSUME NEW c \in Cameras, RecordWarmup(c) PROVE QuotaKept'
  BY <1>2 DEF RecordWarmup, QuotaKept, TypeOK
<1>3. ASSUME NEW c \in Cameras, RecordMeasured(c) PROVE QuotaKept'
  <2>1. \A d \in Cameras \ {c} :
          completed'[d] = completed[d] /\ deliveries'[d] = deliveries[d]
    BY <1>3 DEF RecordMeasured, TypeOK
  <2>2. /\ ~completed[c] /\ warmed[c] /\ UNCHANGED warmed
        /\ deliveries'[c] = deliveries[c] + 1
        /\ completed'[c] <=> (~FixedDuration /\ deliveries[c] + 1 >= Frames)
    BY ZenonT(30), <1>3 DEF RecordMeasured, TypeOK
  <2>3. deliveries[c] \in Nat /\ Frames \in Nat
    BY Zenon, OptionsAssumption DEF TypeOK
  <2>4. ~FixedDuration =>
          /\ deliveries'[c] <= Frames
          /\ completed'[c] <=> deliveries'[c] = Frames
    BY <2>2, <2>3 DEF QuotaKept
  <2> QED BY Zenon, <2>1, <2>2, <2>4 DEF QuotaKept
<1>4. ASSUME NEW c \in Cameras, Publish(c) PROVE QuotaKept'
  BY Zenon, <1>4 DEF Publish, metricVars, QuotaKept
<1> QED BY Zenon, <1>1, <1>2, <1>3, <1>4, FlagsFrame

\* A flag of a camera's metrics is never cleared.
LEMMA FlagsGrow ==
    ASSUME TypeOK, [Next]_vars, NEW d \in Cameras
    PROVE  /\ ready[d] => ready'[d]
           /\ warmed[d] => warmed'[d]
           /\ completed[d] => completed'[d]
<1>1. ASSUME NEW c \in Cameras, RecordWarmup(c)
      PROVE  /\ ready[d] => ready'[d]
             /\ warmed[d] => warmed'[d]
             /\ completed[d] => completed'[d]
  BY <1>1 DEF RecordWarmup, TypeOK
<1>2. ASSUME NEW c \in Cameras, RecordMeasured(c) \/ Publish(c)
      PROVE  /\ ready[d] => ready'[d]
             /\ warmed[d] => warmed'[d]
             /\ completed[d] => completed'[d]
  BY Zenon, <1>2 DEF RecordMeasured, Publish, metricVars, TypeOK
<1> QED BY Zenon, <1>1, <1>2, FlagsFrame

LEMMA TimeoutsStep ==
    ASSUME TypeOK, NewsIsTrue, TimeoutsExplained, [Next]_vars
    PROVE  TimeoutsExplained'
<1> USE DEF TypeOK
<1>1. CASE Main
  <2>1. ASSUME NEW d \in Cameras, preTimeouts'[d] > 0
        PROVE  failed' \/ pc'[d] = "fail" \/ (pc'[d] = "timedout" /\ ~saw'[d])
    <3>1. failed \/ pc[d] = "fail" \/ (pc[d] = "timedout" /\ ~saw[d])
      BY Zenon, <1>1, <2>1, MainFrame DEF TimeoutsExplained
    <3>2. CASE pc'[d] = pc[d] BY Zenon, <1>1, <3>1, <3>2, MainFrame
    <3>3. CASE StartPipeline(d) /\ mainPc = "start" /\ d \notin started
      BY Zenon, <1>1, <3>1, <3>3, MainFrame DEF NewsIsTrue
    <3>4. CASE SpawnWaitLoop(d) /\ pc[d] = "off"
      BY Zenon, <1>1, <3>1, <3>4, MainFrame
    <3>5. CASE StopPipeline(d) /\ (Callback => pc[d] = "wait")
      <4>1. pc'[d] = pc[d] \/ Callback BY Zenon, <3>5 DEF StopPipeline
      <4> QED BY Zenon, <1>1, <3>1, <3>2, <3>5, <4>1, MainFrame
    <3> QED BY Zenon, <1>1, <3>2, <3>3, <3>4, <3>5, MainFrame
  <2>2. ASSUME mainPc' \in {"restore", "report", "exited"}, NEW d \in Cameras
        PROVE  pc'[d] = "done"
    BY Zenon, <1>1, <2>2 DEF Main, ConfigureSync, StartPipeline, SpawnWaitLoop,
       AwaitSchedulerReady, ApplyProfile, AwaitWarm, PublishWarmupReady,
       EnterTransition, wait_for_measurement_gate, LeaveTransition,
       HaltMain, BeginMeasurement, EnableMeasurement, AwaitMeasurement,
       DisableMeasurement, RequestStop, StopPipeline, JoinWaitLoops,
       RestoreSync, WriteReport, threadVars, TimeoutsExplained
  <2> QED BY Zenon, <2>1, <2>2 DEF TimeoutsExplained
<1>2. ASSUME NEW c \in Cameras, CameraStep(c) PROVE TimeoutsExplained'
  <2>1. /\ UNCHANGED mainPc /\ (failed => failed')
        /\ pc[c] # "done"
        /\ \A d \in Cameras \ {c} :
              /\ pc'[d] = pc[d] /\ saw'[d] = saw[d]
              /\ preTimeouts'[d] = preTimeouts[d]
    <3> USE DEF metricVars
    <3>1. CASE wait_loop(c)
      BY <1>2, <3>1, CameraFrame DEF wait_loop, LoopHead, LoadEnabled,
         WaitFails, HandleTimeout
    <3>2. CASE FrameArrives(c) \/ set_failure(c)
      BY Zenon, <1>2, <3>2, CameraFrame DEF FrameArrives, set_failure, SetFailure,
         Halt
    <3>3. CASE RecordWarmup(c) BY Zenon, <1>2, <3>3, CameraFrame DEF RecordWarmup
    <3>4. CASE RecordMeasured(c) \/ DropDelivery(c) \/ Publish(c)
      BY Zenon, <1>2, <3>4, CameraFrame
      DEF RecordMeasured, DropDelivery, Publish
    <3> QED
      BY Zenon, <1>2, <3>1, <3>2, <3>3, <3>4 DEF CameraStep, record_delivery
  <2>2. ASSUME preTimeouts'[c] > 0
        PROVE  failed' \/ pc'[c] = "fail" \/ (pc'[c] = "timedout" /\ ~saw'[c])
    <3> USE DEF metricVars
    <3>1. preTimeouts[c] > 0 =>
            failed \/ pc[c] = "fail" \/ (pc[c] = "timedout" /\ ~saw[c])
      BY Zenon DEF TimeoutsExplained
    <3>2. CASE LoopHead(c) \/ LoadEnabled(c)
      BY Zenon, <2>1, <2>2, <3>1, <3>2 DEF LoopHead, LoadEnabled
    <3>3. CASE WaitFails(c) BY Zenon, <2>1, <2>2, <3>1, <3>3 DEF WaitFails
    <3>4. CASE HandleTimeout(c)
      BY Zenon, <2>1, <2>2, <3>1, <3>4 DEF HandleTimeout
    <3>5. CASE FrameArrives(c) \/ set_failure(c)
      BY Zenon, <2>1, <2>2, <3>1, <3>5 DEF FrameArrives, set_failure, SetFailure,
         Halt
    <3>6. CASE record_delivery(c)
      <4>1. pc[c] \in {"record", "publish"} /\ UNCHANGED preTimeouts
        BY Zenon, <3>6 DEF record_delivery, RecordWarmup, RecordMeasured,
           DropDelivery, Publish
      <4> QED BY Zenon, <2>1, <2>2, <3>1, <4>1
    <3> QED
      BY Zenon, <1>2, <3>2, <3>3, <3>4, <3>5, <3>6 DEF CameraStep, wait_loop
  <2> QED BY <2>1, <2>2 DEF TimeoutsExplained
<1>3. CASE DeadlinePasses \/ RunnerAnswers \/ UNCHANGED vars
  BY <1>3 DEF DeadlinePasses, RunnerAnswers, vars, mainVars, failureVars,
     threadVars, metricVars, TimeoutsExplained
<1> QED BY Zenon, <1>1, <1>2, <1>3 DEF Next, Terminated, CameraStep

\* A full counter means that every camera has set its flag.
FullCounters ==
    /\ AllReported(readyCount) => \A c \in Cameras : ready[c]
    /\ AllReported(warmedCount) => \A c \in Cameras : warmed[c]
    /\ AllReported(completedCount) => \A c \in Cameras : completed[c]

LEMMA BarriersStep ==
    ASSUME TypeOK, FullCounters, BarriersPassed, [Next]_vars
    PROVE  BarriersPassed'
<1> USE DEF BarriersPassed, AllReported
<1>1. /\ (\A d \in Cameras : ready[d]) => (\A d \in Cameras : ready'[d])
      /\ (\A d \in Cameras : warmed[d]) => (\A d \in Cameras : warmed'[d])
      /\ (\A d \in Cameras : completed[d]) =>
            (\A d \in Cameras : completed'[d])
  BY Zenon, FlagsGrow
<1>2. CASE Main
  <2> USE DEF mainVars, flagVars, failureVars, AfterWarm, Closing, Terminal
  <2>1. CASE ConfigureSync \/ ApplyProfile \/ PublishWarmupReady
             \/ EnterTransition
    <3>1. CASE ConfigureSync BY Zenon, <1>1, <3>1 DEF ConfigureSync
    <3>2. CASE ApplyProfile BY Zenon, <1>1, <3>2 DEF ApplyProfile, FailMain
    <3>3. CASE PublishWarmupReady BY Zenon, <1>1, <3>3 DEF PublishWarmupReady
    <3>4. CASE EnterTransition BY Zenon, <1>1, <3>4 DEF EnterTransition
    <3> QED BY Zenon, <2>1, <3>1, <3>2, <3>3, <3>4
  <2>2. CASE AwaitSchedulerReady \/ AwaitWarm \/ AwaitMeasurement
    <3>1. CASE AwaitSchedulerReady
      BY Zenon, <1>1, <3>1 DEF AwaitSchedulerReady, FullCounters, FailMain
    <3>2. CASE AwaitWarm BY Zenon, <1>1, <3>2 DEF AwaitWarm, FullCounters, FailMain
    <3>3. CASE AwaitMeasurement
      BY Zenon, <1>1, <3>3 DEF AwaitMeasurement, FullCounters, FailMain
    <3> QED BY Zenon, <2>2, <3>1, <3>2, <3>3
  <2>3. CASE wait_for_measurement_gate \/ LeaveTransition \/ HaltMain
    <3>1. CASE wait_for_measurement_gate
      BY Zenon, <1>1, <3>1 DEF wait_for_measurement_gate, FailMain
    <3>2. CASE LeaveTransition BY Zenon, <1>1, <3>2 DEF LeaveTransition
    <3>3. CASE HaltMain BY Zenon, <1>1, <3>3 DEF HaltMain
    <3> QED BY Zenon, <2>3, <3>1, <3>2, <3>3
  <2>4. CASE BeginMeasurement \/ EnableMeasurement \/ DisableMeasurement
    <3>1. CASE BeginMeasurement BY Zenon, <1>1, <3>1 DEF BeginMeasurement
    <3>2. CASE EnableMeasurement BY Zenon, <1>1, <3>2 DEF EnableMeasurement
    <3>3. CASE DisableMeasurement BY Zenon, <1>1, <3>3 DEF DisableMeasurement
    <3> QED BY Zenon, <2>4, <3>1, <3>2, <3>3
  <2>5. CASE RequestStop \/ JoinWaitLoops \/ RestoreSync \/ WriteReport
    <3>1. CASE RequestStop BY Zenon, <1>1, <3>1 DEF RequestStop
    <3>2. CASE JoinWaitLoops BY Zenon, <1>1, <3>2 DEF JoinWaitLoops
    <3>3. CASE RestoreSync BY Zenon, <1>1, <3>3 DEF RestoreSync, FailMain
    <3>4. CASE WriteReport BY Zenon, <1>1, <3>4 DEF WriteReport
    <3> QED BY Zenon, <2>5, <3>1, <3>2, <3>3, <3>4
  <2>6. ASSUME NEW c \in Cameras, StartPipeline(c) \/ SpawnWaitLoop(c)
        PROVE  BarriersPassed'
    <3>1. CASE StartPipeline(c) BY Zenon, <1>1, <3>1 DEF StartPipeline
    <3>2. CASE SpawnWaitLoop(c) BY ZenonT(30), <1>1, <3>2 DEF SpawnWaitLoop
    <3> QED BY Zenon, <2>6, <3>1, <3>2
  <2>7. ASSUME NEW c \in Cameras, StopPipeline(c) PROVE BarriersPassed'
    BY <1>1, <2>7 DEF StopPipeline, Stopping, FailMain
  <2> QED BY Zenon, <1>2, <2>1, <2>2, <2>3, <2>4, <2>5, <2>6, <2>7 DEF Main
<1>3. ASSUME NEW c \in Cameras, CameraStep(c) PROVE BarriersPassed'
  BY ZenonT(30), <1>1, <1>3, CameraFrame DEF Alive, Terminal
<1>4. CASE DeadlinePasses \/ RunnerAnswers \/ UNCHANGED vars
  BY <1>1, <1>4 DEF DeadlinePasses, RunnerAnswers, vars, mainVars, flagVars,
     failureVars
<1> QED BY Zenon, <1>2, <1>3, <1>4 DEF Next, Terminated, CameraStep

-----------------------------------------------------------------------------
(* Counting cameras.                                                       *)

LEMMA SubsetCounts ==
    ASSUME NEW S, NEW T, S \subseteq T, T \subseteq Cameras
    PROVE  /\ Cardinality(S) \in Nat /\ Cardinality(T) \in Nat
           /\ Cardinality(S) <= Cardinality(T)
<1>1. IsFiniteSet(T) BY Zenon, FS_Subset, OptionsAssumption
<1> QED BY Zenon, <1>1, FS_Subset, FS_CardinalityType

LEMMA GainCounts ==
    ASSUME NEW S, NEW T, S \subseteq T, T \subseteq Cameras,
           NEW c \in T, c \notin S
    PROVE  Cardinality(S) + 1 <= Cardinality(T)
<1>1. IsFiniteSet(S) /\ S \cup {c} \subseteq T
  BY Zenon, FS_Subset, OptionsAssumption
<1>2. Cardinality(S \cup {c}) = Cardinality(S) + 1
  BY Zenon, <1>1, FS_AddElement
<1> QED BY Zenon, <1>1, <1>2, SubsetCounts

\* A counter that has reached the number of cameras has counted all of them.
LEMMA FullCount ==
    ASSUME NEW S, S \subseteq Cameras, Cardinality(Cameras) <= Cardinality(S)
    PROVE  S = Cameras
<1>1. Cardinality(S) <= Cardinality(Cameras) /\ Cardinality(S) \in Nat
      /\ Cardinality(Cameras) \in Nat
  BY Zenon, SubsetCounts
<1> QED BY <1>1, FS_Subset, OptionsAssumption

LEMMA CountersStep ==
    ASSUME TypeOK, NewsIsTrue, CountersFollowFlags, [Next]_vars
    PROVE  CountersFollowFlags'
<1> USE DEF CountersFollowFlags
<1>1. CASE UNCHANGED <<ready, warmed, completed, warmups, deliveries,
                       pending, readyCount, warmedCount, completedCount>>
  BY Zenon, <1>1 DEF Announced
<1>2. ASSUME NEW c \in Cameras, RecordWarmup(c)
      PROVE  CountersFollowFlags'
  <2>1. UNCHANGED <<readyCount, warmedCount, completedCount>>
    BY Zenon, <1>2 DEF RecordWarmup, countVars
  <2>2. /\ Announced(ready, "ready") \subseteq Announced(ready, "ready")'
        /\ Announced(warmed, "warm") \subseteq Announced(warmed, "warm")'
        /\ Announced(completed, "complete")
              \subseteq Announced(completed, "complete")'
    BY <1>2 DEF RecordWarmup, Announced, TypeOK
  <2>3. /\ Announced(ready, "ready")' \subseteq Cameras
        /\ Announced(warmed, "warm")' \subseteq Cameras
        /\ Announced(completed, "complete")' \subseteq Cameras
    BY Zenon DEF Announced
  <2> QED BY <2>1, <2>2, <2>3, SubsetCounts DEF TypeOK
<1>3. ASSUME NEW c \in Cameras, RecordMeasured(c)
      PROVE  CountersFollowFlags'
  <2>1. UNCHANGED <<readyCount, warmedCount, completedCount>>
    BY Zenon, <1>3 DEF RecordMeasured, countVars
  <2>2. /\ Announced(ready, "ready") \subseteq Announced(ready, "ready")'
        /\ Announced(warmed, "warm") \subseteq Announced(warmed, "warm")'
        /\ Announced(completed, "complete")
              \subseteq Announced(completed, "complete")'
    BY <1>3 DEF RecordMeasured, Announced, TypeOK
  <2>3. /\ Announced(ready, "ready")' \subseteq Cameras
        /\ Announced(warmed, "warm")' \subseteq Cameras
        /\ Announced(completed, "complete")' \subseteq Cameras
    BY Zenon DEF Announced
  <2> QED BY <2>1, <2>2, <2>3, SubsetCounts DEF TypeOK
<1>4. ASSUME NEW c \in Cameras, Publish(c)
      PROVE  CountersFollowFlags'
  <2> DEFINE R == Announced(ready, "ready")
             W == Announced(warmed, "warm")
             C == Announced(completed, "complete")
  <2>1. PICK news \in pending[c] :
          /\ readyCount' = readyCount + IF news = "ready" THEN 1 ELSE 0
          /\ warmedCount' = warmedCount + IF news = "warm" THEN 1 ELSE 0
          /\ completedCount' =
                completedCount + IF news = "complete" THEN 1 ELSE 0
          /\ pending' = [pending EXCEPT ![c] = @ \ {news}]
    BY Zenon, <1>4 DEF Publish
  <2>2. UNCHANGED <<ready, warmed, completed>>
    BY Zenon, <1>4 DEF Publish, metricVars
  <2>3. R \subseteq R' /\ W \subseteq W' /\ C \subseteq C'
    BY ZenonT(30), <2>1, <2>2 DEF Announced, TypeOK
  <2>4. R' \subseteq Cameras /\ W' \subseteq Cameras /\ C' \subseteq Cameras
    BY Zenon DEF Announced
  <2>5. /\ news = "ready" => c \in R' /\ c \notin R
        /\ news = "warm" => c \in W' /\ c \notin W
        /\ news = "complete" => c \in C' /\ c \notin C
    BY Zenon, <2>1, <2>2 DEF Announced, TypeOK, NewsIsTrue
  <2>6. readyCount' <= Cardinality(R')
    BY <2>1, <2>3, <2>4, <2>5, SubsetCounts, GainCounts DEF TypeOK
  <2>7. warmedCount' <= Cardinality(W')
    BY <2>1, <2>3, <2>4, <2>5, SubsetCounts, GainCounts DEF TypeOK
  <2>8. completedCount' <= Cardinality(C')
    BY <2>1, <2>3, <2>4, <2>5, SubsetCounts, GainCounts DEF TypeOK
  <2> QED BY Zenon, <2>6, <2>7, <2>8
<1> QED BY Zenon, <1>1, <1>2, <1>3, <1>4, FlagsFrame

-----------------------------------------------------------------------------
(* The invariant and its consequences.                                     *)

\* Main's barriers can trust their counters.
LEMMA CountersFull ==
    ASSUME TypeOK, CountersFollowFlags
    PROVE  FullCounters
<1>1. \A f \in {ready, warmed, completed} :
        \A n \in {"ready", "warm", "complete"} :
          Announced(f, n) \subseteq Cameras
  BY Zenon DEF Announced
<1> USE DEF AllReported, CountersFollowFlags, TypeOK
<1>2. AllReported(readyCount) => \A c \in Cameras : ready[c]
  <2>1. AllReported(readyCount) => Announced(ready, "ready") = Cameras
    BY <1>1, FullCount, SubsetCounts
  <2> QED BY Zenon, <2>1 DEF Announced
<1>3. AllReported(warmedCount) => \A c \in Cameras : warmed[c]
  <2>1. AllReported(warmedCount) => Announced(warmed, "warm") = Cameras
    BY <1>1, FullCount, SubsetCounts
  <2> QED BY Zenon, <2>1 DEF Announced
<1>4. AllReported(completedCount) => \A c \in Cameras : completed[c]
  <2>1. AllReported(completedCount) =>
          Announced(completed, "complete") = Cameras
    BY <1>1, FullCount, SubsetCounts
  <2> QED BY Zenon, <2>1 DEF Announced
<1> QED BY Zenon, <1>2, <1>3, <1>4 DEF FullCounters

LEMMA InitInvariant == Init => IInv
<1> SUFFICES ASSUME Init PROVE IInv
  BY Zenon
<1>1. CountersFollowFlags
  <2>1. /\ Announced(ready, "ready") = {} /\ Announced(warmed, "warm") = {}
        /\ Announced(completed, "complete") = {}
    BY Zenon DEF Init, Announced
  <2>2. Cardinality({}) = 0 BY Zenon, FS_EmptySet
  <2>3. readyCount = 0 /\ warmedCount = 0 /\ completedCount = 0 BY Zenon DEF Init
  <2> QED BY <2>1, <2>2, <2>3 DEF CountersFollowFlags
<1>2. NewsIsTrue BY Zenon DEF Init, NewsIsTrue
<1>3. BarriersPassed BY Zenon DEF Init, BarriersPassed, AfterWarm, Closing
<1>4. QuotaKept BY OptionsAssumption DEF Init, QuotaKept
<1>5. TimeoutsExplained BY DEF Init, TimeoutsExplained
<1> QED BY Zenon, <1>1, <1>2, <1>3, <1>4, <1>5 DEF IInv

\* The invariant: counters follow flags, main knows what its barriers say.
THEOREM Invariance == Spec => []IInv
<1>1. TypeOK /\ IInv /\ [Next]_vars => IInv'
  BY Zenon, CountersStep, CountersFull, NewsStep, BarriersStep, QuotaStep,
     TimeoutsStep
  DEF IInv
<1> QED BY <1>1, InitInvariant, TypeCorrect, PTL DEF Spec

\* The global warm-up barrier holds for any number of cameras: the measurement
\* is enabled only while every camera is warm.
THEOREM WarmupBarrierHolds == Spec => []WarmupBarrier
<1>1. IInv => WarmupBarrier
  BY Zenon DEF IInv, BarriersPassed, WarmupBarrier, AfterWarm
<1> QED BY <1>1, Invariance, PTL

\* A successful run measured opts.frames deliveries from every camera.
THEOREM EqualDeliveriesHolds == Spec => []EqualDeliveries
<1>1. IInv => EqualDeliveries
  BY Zenon, OptionsAssumption DEF IInv, BarriersPassed, QuotaKept, EqualDeliveries
<1> QED BY <1>1, Invariance, PTL

\* A successful summary never hides a wait that failed before the measurement.
THEOREM NoSilentTimeoutHolds == Spec => []NoSilentTimeout
<1>1. TypeOK /\ IInv => NoSilentTimeout
  BY DEF TypeOK, IInv, BarriersPassed, TimeoutsExplained, NoSilentTimeout
<1> QED BY <1>1, Invariance, TypeCorrect, PTL

\* A profile is applied only once every camera has reached its threshold.
THEOREM ApplyAfterReadyHolds == Spec => ApplyAfterReady
<1>1. IInv => (mainPc = "apply" /\ ~failed => \A c \in Cameras : ready[c])
  BY Zenon DEF IInv, BarriersPassed
<1> QED BY <1>1, Invariance, PTL DEF ApplyAfterReady
\* Nothing changes the metrics while main restores, reports and exits.
THEOREM ReportIsStableHolds == Spec => ReportIsStable
<1>1. IInv /\ [Next]_vars =>
        ((mainPc \in {"restore", "report", "exited"}) => UNCHANGED metricVars)
  <2> SUFFICES ASSUME IInv, [Next]_vars,
                      mainPc \in {"restore", "report", "exited"}
               PROVE  UNCHANGED metricVars
    BY Zenon
  <2>1. \A c \in Cameras : pc[c] = "done"
    BY Zenon DEF IInv, TimeoutsExplained
  <2>2. CASE Main
    BY Zenon, <2>2 DEF Main, ConfigureSync, StartPipeline, SpawnWaitLoop,
       AwaitSchedulerReady, ApplyProfile, AwaitWarm, PublishWarmupReady,
       EnterTransition, wait_for_measurement_gate, LeaveTransition, HaltMain,
       BeginMeasurement, EnableMeasurement, AwaitMeasurement,
       DisableMeasurement, RequestStop, StopPipeline, JoinWaitLoops,
       RestoreSync, WriteReport
  <2>3. ASSUME NEW c \in Cameras, CameraStep(c) PROVE FALSE
    BY Zenon, <2>1, <2>3 DEF CameraStep, wait_loop, LoopHead, LoadEnabled,
       WaitFails, HandleTimeout, FrameArrives, set_failure, SetFailure, Halt,
       record_delivery, RecordWarmup, RecordMeasured, DropDelivery, Publish
  <2>4. CASE DeadlinePasses \/ RunnerAnswers \/ UNCHANGED vars
    BY Zenon, <2>4 DEF DeadlinePasses, RunnerAnswers, vars
  <2> QED BY Zenon, <2>2, <2>3, <2>4 DEF Next, Terminated, CameraStep
<1> QED BY <1>1, Invariance, PTL DEF Spec, ReportIsStable

-----------------------------------------------------------------------------
(* The probe implements its lifecycle.                                     *)

LEMMA MainImplements ==
    ASSUME TypeOK, IInv, Main
    PROVE  [Lifecycle!Next]_Lifecycle!vars
<1>1. UNCHANGED <<warmed, deliveries>> BY Zenon, MainFrame
<1> USE DEF Lifecycle!vars, Lifecycle!Next, phase, result, Terminal, Closing
<1>2. CASE ConfigureSync
  BY Zenon, <1>1, <1>2 DEF ConfigureSync, failureVars, Lifecycle!Abandon
<1>3. CASE AwaitSchedulerReady
  BY <1>1, <1>3 DEF AwaitSchedulerReady, FailMain, failureVars,
     Lifecycle!Close
<1>4. CASE ApplyProfile
  BY <1>1, <1>4 DEF ApplyProfile, FailMain, failureVars, Lifecycle!Close
<1>5. CASE AwaitWarm
  BY <1>1, <1>5 DEF AwaitWarm, FailMain, failureVars, Lifecycle!Close
<1>6. CASE PublishWarmupReady
  BY Zenon, <1>1, <1>6 DEF PublishWarmupReady, failureVars, Lifecycle!Close,
     Lifecycle!Abandon
<1>7. CASE EnterTransition \/ LeaveTransition \/ HaltMain
  BY <1>1, <1>7 DEF EnterTransition, LeaveTransition, HaltMain, failureVars
<1>8. CASE wait_for_measurement_gate
  BY <1>1, <1>8 DEF wait_for_measurement_gate, FailMain, failureVars,
     Lifecycle!Fail
<1>9. CASE BeginMeasurement
  <2>1. {c \in Cameras : warmed[c]} = Cameras
    BY Zenon, <1>9 DEF BeginMeasurement, IInv, BarriersPassed, AfterWarm
  <2> QED
    BY Zenon, <1>1, <1>9, <2>1 DEF BeginMeasurement, failureVars, Lifecycle!Begin,
       Lifecycle!Close
<1>10. CASE EnableMeasurement
  BY Zenon, <1>1, <1>10 DEF EnableMeasurement, failureVars
<1>11. CASE AwaitMeasurement
  BY <1>1, <1>11 DEF AwaitMeasurement, FailMain, failureVars, Lifecycle!Fail
<1>12. CASE DisableMeasurement
  BY Zenon, <1>1, <1>12 DEF DisableMeasurement, failureVars, Lifecycle!Close
<1>13. CASE RequestStop \/ JoinWaitLoops
  BY <1>1, <1>13 DEF RequestStop, JoinWaitLoops, failureVars
<1>14. CASE RestoreSync
  BY <1>1, <1>14 DEF RestoreSync, FailMain, failureVars, Lifecycle!Fail
<1>15. CASE WriteReport
  <2>1. ~failed => /\ {c \in Cameras : warmed[c]} = Cameras
                   /\ ~FixedDuration =>
                        \A c \in Cameras : deliveries[c] = Frames
    BY Zenon, <1>15 DEF WriteReport, IInv, BarriersPassed, QuotaKept
  <2> QED
    BY Zenon, <1>1, <1>15, <2>1 DEF WriteReport, failureVars, Lifecycle!Finish,
       Lifecycle!Abandon
<1>16. ASSUME NEW c \in Cameras, StartPipeline(c)
       PROVE  [Lifecycle!Next]_Lifecycle!vars
  BY Zenon, <1>1, <1>16 DEF StartPipeline, failureVars, Lifecycle!Abandon
<1>17. ASSUME NEW c \in Cameras, SpawnWaitLoop(c)
       PROVE  [Lifecycle!Next]_Lifecycle!vars
  BY Zenon, <1>1, <1>17 DEF SpawnWaitLoop, failureVars
<1>18. ASSUME NEW c \in Cameras, StopPipeline(c)
       PROVE  [Lifecycle!Next]_Lifecycle!vars
  <2>1. mainPc = "stopping" /\ mainPc' \in {"stopping", "join"}
    BY Zenon, <1>18 DEF StopPipeline, Stopping
  <2>2. phase = "closing" /\ phase' = "closing"
    BY Zenon, <2>1
  <2>3. UNCHANGED failed \/ (~failed /\ failed')
    BY Zenon, <1>18 DEF StopPipeline, FailMain, failureVars
  <2>4. UNCHANGED result \/ (result = "pending" /\ result' = "failed")
    BY <2>1, <2>3
  <2> QED BY Zenon, <1>1, <2>2, <2>4 DEF Lifecycle!Fail
<1> QED
  BY Zenon, <1>2, <1>3, <1>4, <1>5, <1>6, <1>7, <1>8, <1>9, <1>10, <1>11, <1>12,
     <1>13, <1>14, <1>15, <1>16, <1>17, <1>18, Main DEF Main

LEMMA CameraImplements ==
    ASSUME TypeOK, IInv, NEW c \in Cameras, CameraStep(c)
    PROVE  [Lifecycle!Next]_Lifecycle!vars
<1>1. /\ UNCHANGED <<mainPc, summary>> /\ UNCHANGED phase
      /\ phase # "over" /\ result \in {"failed", "pending"}
  BY Zenon, CameraFrame DEF Alive, Terminal, phase, result
<1> USE DEF Lifecycle!vars, Lifecycle!Next
<1>2. CASE RecordWarmup(c)
  <2>1. /\ UNCHANGED result /\ UNCHANGED deliveries
    BY Zenon, <1>1, <1>2 DEF RecordWarmup, failureVars, result
  <2>2. CASE warmed'[c]
    <3>1. /\ c \notin {d \in Cameras : warmed[d]}
          /\ {d \in Cameras : warmed'[d]} =
                {d \in Cameras : warmed[d]} \cup {c}
      BY <1>2, <2>2 DEF RecordWarmup, TypeOK
    <3> QED BY Zenon, <1>1, <2>1, <3>1 DEF Lifecycle!Warm
  <2>3. CASE ~warmed'[c]
    <3>1. {d \in Cameras : warmed'[d]} = {d \in Cameras : warmed[d]}
      BY <1>2, <2>3 DEF RecordWarmup, TypeOK
    <3> QED BY Zenon, <1>1, <2>1, <3>1
  <2> QED BY Zenon, <2>2, <2>3
<1>3. CASE RecordMeasured(c)
  <2>1. /\ UNCHANGED result /\ UNCHANGED warmed
        /\ deliveries' = [deliveries EXCEPT ![c] = @ + 1]
    BY Zenon, <1>1, <1>3 DEF RecordMeasured, failureVars, result
  <2>2. phase = "measuring"
    BY Zenon, <1>3 DEF RecordMeasured, IInv, BarriersPassed, phase, Terminal,
       Closing
  <2>3. ~FixedDuration => deliveries[c] < Frames
    <3>1. ~completed[c] BY Zenon, <1>3 DEF RecordMeasured
    <3>2. deliveries[c] \in Nat /\ Frames \in Nat
      BY Zenon, OptionsAssumption DEF TypeOK
    <3> QED BY <3>1, <3>2 DEF IInv, QuotaKept
  <2> QED BY Zenon, <1>1, <2>1, <2>2, <2>3 DEF Lifecycle!Take
<1>4. CASE SetFailure(c)
  BY Zenon, <1>1, <1>4 DEF SetFailure, metricVars, result, Terminal,
     Lifecycle!Fail
<1>5. CASE wait_loop(c) \/ FrameArrives(c) \/ Halt(c) \/ DropDelivery(c)
           \/ Publish(c)
  <2>1. UNCHANGED <<failed, warmed, deliveries>>
    BY Zenon, <1>5
    DEF wait_loop, LoopHead, LoadEnabled, WaitFails, HandleTimeout,
       FrameArrives, Halt, DropDelivery, Publish, failureVars, metricVars
  <2> QED BY Zenon, <1>1, <2>1 DEF result
<1> QED
  BY Zenon, <1>2, <1>3, <1>4, <1>5, CameraStep(c) DEF CameraStep, set_failure,
     record_delivery

\* Whatever the number of cameras and the options, the probe's threads,
\* barriers and flags implement the lifecycle it promises: no measurement
\* before every camera is warm, no delivery outside it, no success without
\* every camera's quota, no failure forgotten.
THEOREM LifecycleImplemented == Spec => ImplementsLifecycle
<1>1. Init => Lifecycle!Init
  BY Zenon DEF Init, Lifecycle!Init, phase, result, Terminal, Closing
<1>2. TypeOK /\ IInv /\ [Next]_vars => [Lifecycle!Next]_Lifecycle!vars
  <2> SUFFICES ASSUME TypeOK, IInv, [Next]_vars
               PROVE  [Lifecycle!Next]_Lifecycle!vars
    BY Zenon
  <2>1. CASE DeadlinePasses \/ RunnerAnswers \/ UNCHANGED vars
    BY <2>1 DEF DeadlinePasses, RunnerAnswers, vars, mainVars, failureVars,
       metricVars, Lifecycle!vars, phase, result
  <2> QED
    BY Zenon, <2>1, MainImplements, CameraImplements DEF Next, Terminated,
       CameraStep
<1> QED
  BY <1>1, <1>2, TypeCorrect, Invariance, PTL
  DEF Spec, ImplementsLifecycle, Lifecycle!Spec
=============================================================================
