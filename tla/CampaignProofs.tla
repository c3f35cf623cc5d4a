----------------------------- MODULE CampaignProofs ---------------------------
(***************************************************************************)
(* What a campaign owes the host, the cameras and the noise it measures    *)
(* under: the controls are in force and put back, the sync modes are rolled*)
(* back, the warm-up is quiet and the measurement is not.  The three parts *)
(* share no state and are proved on their own.                             *)
(***************************************************************************)
EXTENDS HardwareSync, SystemControls, NoiseTransition, TLAPS

-----------------------------------------------------------------------------
(* The sync modes of the cameras.                                          *)

\* Every camera has one assignment, and the source's is the last one.
LEMMA AssignmentsFacts ==
    /\ Size \in Nat \ {0}
    /\ Assignments[Size] = Master
    /\ \A i, j \in 1..Size : Assignments[i] = Assignments[j] => i = j
<1>1. /\ Slaves \in Seq({Slaves[i] : i \in DOMAIN Slaves}) /\ Slaves # <<>>
      /\ \A i, j \in DOMAIN Slaves : Slaves[i] = Slaves[j] => i = j
      /\ \A i \in DOMAIN Slaves : Slaves[i] # Master
  BY Zenon, RolesAssumption
<1>2. Len(Slaves) \in Nat /\ DOMAIN Slaves = 1..Len(Slaves)
  BY <1>1
<1>3. Size = Len(Slaves) + 1 BY <1>1 DEF Size, Assignments
<1>4. \A i \in 1..Size :
        Assignments[i] = IF i = Size THEN Master ELSE Slaves[i]
  BY <1>1, <1>2, <1>3 DEF Assignments
<1>5. \A i \in 1..Size : i # Size => i \in DOMAIN Slaves BY <1>2, <1>3
<1> QED BY <1>1, <1>2, <1>3, <1>4, <1>5

\* How the part of the cameras a loop has behind it grows.
LEMMA LoopFacts ==
    ASSUME NEW i \in 1..Size
    PROVE  /\ Assignments[i] \in Cameras
           /\ Before(i) \subseteq Cameras /\ After(i) \subseteq Cameras
           /\ Assignments[i] \notin Before(i) /\ Assignments[i] \notin After(i)
           /\ Before(i + 1) = Before(i) \cup {Assignments[i]}
           /\ After(i - 1) = After(i) \cup {Assignments[i]}
           /\ Before(1) = {} /\ After(Size) = {}
           /\ Before(Size + 1) = Cameras /\ After(0) = Cameras
<1>1. Size \in Nat \ {0} BY Zenon, AssignmentsFacts
<1>2. Assignments[i] \notin Before(i) /\ Assignments[i] \notin After(i)
  BY <1>1, AssignmentsFacts DEF Before, After
<1>3. Before(i + 1) = Before(i) \cup {Assignments[i]}
  BY <1>1 DEF Before
<1>4. After(i - 1) = After(i) \cup {Assignments[i]}
  BY <1>1 DEF After
<1>5. /\ Assignments[i] \in Cameras
      /\ Before(i) \subseteq Cameras /\ After(i) \subseteq Cameras
  BY <1>1 DEF Before, After, Cameras
<1>6. /\ Before(1) = {} /\ After(Size) = {}
      /\ Before(Size + 1) = Cameras /\ After(0) = Cameras
  BY <1>1 DEF Before, After, Cameras
<1> QED BY Zenon, <1>2, <1>3, <1>4, <1>5, <1>6

\* A write changes the mode of one camera, to a mode.
LEMMA WriteFacts ==
    ASSUME SyncTypeOK, NEW c \in Cameras, NEW m \in Modes, Write(c, m)
    PROVE  /\ mode' \in [Cameras -> Modes]
           /\ \A d \in Cameras : d # c => mode'[d] = mode[d]
BY Zenon DEF SyncTypeOK, Write

LEMMA SyncInitInvariant == SyncInit => SyncInv
<1> SUFFICES ASSUME SyncInit PROVE SyncInv BY Zenon
<1>1. SyncTypeOK
  <2>1. /\ {previous, mode, initial} \subseteq [Cameras -> Modes]
        /\ {applied, restored, errors} \subseteq SUBSET Cameras
    BY Zenon, RolesAssumption DEF SyncInit
  <2>2. next \in 1..Size BY AssignmentsFacts DEF SyncInit
  <2>3. attempted \in BOOLEAN /\ owner \in Pcs BY Zenon DEF SyncInit, Pcs
  <2> QED BY Zenon, <2>1, <2>2, <2>3 DEF SyncTypeOK
<1>2. Before(1) = {} BY AssignmentsFacts, LoopFacts
<1> QED BY Zenon, <1>1, <1>2 DEF SyncInit, SyncInv, Handled, Restoring, Ended

\* What both loops take from the invariant.
LEMMA SyncTypeStep == SyncInv /\ [SyncNext]_syncVars => SyncTypeOK'
<1> SUFFICES ASSUME SyncInv, [SyncNext]_syncVars PROVE SyncTypeOK' BY Zenon
<1>1. SyncTypeOK BY Zenon DEF SyncInv
<1>2. next \in 1..Size /\ Size \in Nat \ {0} /\ Size \in 1..Size
  BY <1>1, AssignmentsFacts DEF SyncTypeOK
<1>3. \A i \in 1..Size : Assignments[i] \in Cameras BY Zenon, LoopFacts
<1>4. \A c \in Cameras : requested_mode(c) \in Modes
  BY Zenon, RolesAssumption DEF requested_mode
<1>5. CASE make_assignment
  <2>1. next' \in 1..Size BY <1>2, <1>5 DEF make_assignment
  <2>2. previous' \in [Cameras -> Modes]
    BY Zenon, <1>1, <1>2, <1>3, <1>5 DEF make_assignment, SyncTypeOK
  <2>3. owner' \in Pcs BY Zenon, <1>1, <1>5 DEF make_assignment, SyncTypeOK, Pcs, Ended
  <2> QED BY Zenon, <1>1, <1>5, <2>1, <2>2, <2>3 DEF make_assignment, SyncTypeOK
<1>6. CASE configure
  <2>1. next' \in 1..Size BY <1>2, <1>6 DEF configure, BeginRestore
  <2>2. mode' \in [Cameras -> Modes]
    BY Zenon, <1>1, <1>2, <1>3, <1>4, <1>6, WriteFacts DEF configure
  <2>3. owner' \in Pcs BY Zenon, <1>1, <1>6 DEF configure, SyncTypeOK, Pcs, Restoring
  <2>4. attempted' \in BOOLEAN
    BY Zenon, <1>1, <1>6 DEF configure, BeginRestore, SyncTypeOK
  <2>5. applied' \in SUBSET Cameras
    BY <1>1, <1>2, <1>3, <1>6 DEF configure, SyncTypeOK
  <2> QED BY Zenon, <1>1, <1>6, <2>1, <2>2, <2>3, <2>4, <2>5 DEF configure, SyncTypeOK
<1>7. CASE restore_assignment
  <2>1. next' \in 1..Size BY <1>2, <1>7 DEF restore_assignment
  <2>2. mode' \in [Cameras -> Modes]
    <3>1. previous[Assignments[next]] \in Modes BY Zenon, <1>1, <1>2, <1>3 DEF SyncTypeOK
    <3> QED BY Zenon, <1>1, <1>2, <1>3, <1>7, <3>1, WriteFacts DEF restore_assignment
  <2>3. owner' \in Pcs
    BY Zenon, <1>1, <1>7 DEF restore_assignment, SyncTypeOK, Pcs, Restoring, Ended
  <2>4. {restored', errors'} \subseteq SUBSET Cameras
    BY <1>1, <1>2, <1>3, <1>7 DEF restore_assignment, SyncTypeOK
  <2> QED BY Zenon, <1>1, <1>7, <2>1, <2>2, <2>3, <2>4 DEF restore_assignment, SyncTypeOK
<1>8. CASE restore \/ destructor
  <2>1. next' \in 1..Size BY Zenon, <1>2, <1>8 DEF restore, destructor, BeginRestore
  <2>2. owner' \in Pcs
    BY Zenon, <1>8 DEF restore, destructor, Pcs, Restoring, Ended
  <2>3. attempted' \in BOOLEAN
    BY Zenon, <1>1, <1>8 DEF restore, destructor, BeginRestore, SyncTypeOK
  <2> QED BY Zenon, <1>1, <1>8, <2>1, <2>2, <2>3 DEF restore, destructor, SyncTypeOK
<1>9. CASE UNCHANGED syncVars BY Zenon, <1>1, <1>9 DEF syncVars, session, SyncTypeOK
<1> QED BY Zenon, <1>5, <1>6, <1>7, <1>8, <1>9 DEF SyncNext, Terminated

LEMMA SyncInvariantStep == SyncInv /\ [SyncNext]_syncVars => SyncInv'
<1> SUFFICES ASSUME SyncInv, [SyncNext]_syncVars PROVE SyncInv' BY Zenon
<1>1. SyncTypeOK /\ SyncTypeOK' BY Zenon, SyncTypeStep DEF SyncInv
<1>2. next \in 1..Size /\ Size \in Nat \ {0}
  BY Zenon, <1>1, AssignmentsFacts DEF SyncTypeOK
<1> DEFINE c == Assignments[next]
<1>3. /\ c \in Cameras /\ c \notin Before(next) /\ c \notin After(next)
      /\ Before(next) \subseteq Cameras /\ After(next) \subseteq Cameras
      /\ Before(next + 1) = Before(next) \cup {c}
      /\ After(next - 1) = After(next) \cup {c}
      /\ Before(1) = {} /\ After(Size) = {}
      /\ Before(Size + 1) = Cameras /\ After(0) = Cameras
  BY Zenon, <1>2, LoopFacts
<1>4. /\ mode \in [Cameras -> Modes] /\ initial \in [Cameras -> Modes]
      /\ previous \in [Cameras -> Modes]
      /\ restored \subseteq Cameras /\ errors \subseteq Cameras
  BY Zenon, <1>1 DEF SyncTypeOK
<1> HIDE DEF c
<1>5. CASE make_assignment
  <2>1. CASE owner' = "thrown"
    BY Zenon, <1>1, <1>5, <2>1 DEF make_assignment, SyncInv, Handled, Restoring, c
  <2>2. CASE owner' # "thrown"
    <3>1. /\ owner = "make" /\ mode = initial /\ mode' = mode /\ initial' = initial
          /\ previous' = [previous EXCEPT ![c] = mode[c]]
          /\ \A d \in Before(next) : previous[d] = initial[d]
          /\ Handled = {} /\ Handled' = Handled /\ restored' = restored
          /\ errors' = errors /\ ~attempted /\ attempted' = attempted
      BY Zenon, <1>5, <2>2 DEF make_assignment, SyncInv, Handled, Restoring, c
    <3>2. \A d \in Before(next + 1) : previous'[d] = initial[d]
      BY Zenon, <1>3, <1>4, <3>1
    <3>3. CASE next = Size
      <4>1. owner' = "configure" /\ next' = 1
        BY Zenon, <1>5, <2>2, <3>3 DEF make_assignment
      <4>2. previous' = initial'
        BY <1>1, <1>3, <1>4, <3>1, <3>2, <3>3 DEF SyncTypeOK
      <4> QED BY Zenon, <1>1, <1>3, <3>1, <4>1, <4>2 DEF SyncInv, Handled, Restoring
    <3>4. CASE next # Size
      <4>1. owner' = "make" /\ next' = next + 1
        BY Zenon, <1>5, <2>2, <3>4 DEF make_assignment
      <4> QED BY Zenon, <1>1, <3>1, <3>2, <4>1 DEF SyncInv, Handled, Restoring
    <3> QED BY Zenon, <3>3, <3>4
  <2> QED BY Zenon, <2>1, <2>2
<1>6. CASE configure
  <2>1. /\ owner = "configure" /\ Handled = {} /\ previous = initial
        /\ \A d \in Before(next) : mode[d] = requested_mode(d)
        /\ \A d \in Cameras \ Before(next) : mode[d] = initial[d]
        /\ ~attempted /\ restored' = restored /\ errors' = errors
        /\ Handled' = Handled /\ previous' = previous /\ initial' = initial
    BY Zenon, <1>6 DEF configure, SyncInv, Handled, Restoring
  <2>2. \A d \in Cameras : d # c => mode'[d] = mode[d]
    <3>1. requested_mode(c) \in Modes BY Zenon, RolesAssumption DEF requested_mode
    <3> QED BY Zenon, <1>1, <1>3, <1>6, <3>1, WriteFacts DEF configure, c
  <2>3. restored = {} /\ errors = {} BY Zenon, <2>1 DEF Handled
  <2>4. CASE owner' = "rollback"
    <3>1. next' = Size /\ attempted' = TRUE
      BY Zenon, <1>6, <2>1, <2>4 DEF configure, BeginRestore
    <3> QED BY Zenon, <1>1, <1>3, <2>1, <2>3, <2>4, <3>1 DEF SyncInv, Handled, Restoring
  <2>5. CASE owner' # "rollback"
    <3>1. mode'[c] = requested_mode(c) /\ attempted' = attempted
      BY Zenon, <1>6, <2>5 DEF configure, c
    <3>2. \A d \in Before(next + 1) : mode'[d] = requested_mode(d)
      BY Zenon, <1>3, <2>1, <2>2, <3>1
    <3>3. CASE next = Size
      <4>1. owner' = "live" BY Zenon, <1>6, <2>5, <3>3 DEF configure
      <4> QED BY Zenon, <1>1, <1>3, <2>1, <2>3, <3>1, <3>2, <3>3, <4>1
          DEF SyncInv, Handled, Restoring
    <3>4. CASE next # Size
      <4>1. owner' = "configure" /\ next' = next + 1
        BY Zenon, <1>6, <2>1, <2>5, <3>4 DEF configure
      <4>2. \A d \in Cameras \ Before(next + 1) : mode'[d] = initial[d]
        BY Zenon, <1>3, <2>1, <2>2
      <4> QED BY Zenon, <1>1, <2>1, <2>3, <3>1, <3>2, <4>1, <4>2
          DEF SyncInv, Handled, Restoring
    <3> QED BY Zenon, <3>3, <3>4
  <2> QED BY Zenon, <2>4, <2>5
<1>7. CASE restore_assignment
  <2>1. /\ owner \in Restoring /\ previous = initial /\ Handled = After(next)
        /\ attempted /\ attempted' = attempted
        /\ previous' = previous /\ initial' = initial
        /\ restored \cap errors = {}
        /\ \A d \in restored : mode[d] = initial[d]
    BY Zenon, <1>7 DEF restore_assignment, SyncInv, Handled, Restoring
  <2>2. \A d \in Cameras : d # c => mode'[d] = mode[d]
    <3>1. previous[c] \in Modes BY Zenon, <1>3, <1>4
    <3> QED BY Zenon, <1>1, <1>3, <1>7, <3>1, WriteFacts DEF restore_assignment, c
  <2>3. \/ /\ mode'[c] = previous[c]
           /\ restored' = restored \cup {c} /\ errors' = errors
        \/ errors' = errors \cup {c} /\ restored' = restored
    BY Zenon, <1>7 DEF restore_assignment, c
  <2>4. /\ Handled' = After(next - 1)
        /\ restored' \cap errors' = {}
        /\ \A d \in restored' : mode'[d] = initial'[d]
    BY <1>3, <1>4, <2>1, <2>2, <2>3 DEF Handled
  <2>5. CASE next = 1
    <3>1. Handled' = Cameras BY <1>3, <2>4, <2>5
    <3>2. \A d \in Cameras : mode'[d] # initial'[d] => d \in errors'
      BY Zenon, <2>4, <3>1 DEF Handled
    <3>3. owner' \in {"thrown", "report", "destroyed"}
      BY Zenon, <1>7, <2>1, <2>5 DEF restore_assignment, Restoring
    <3> QED BY Zenon, <1>1, <2>1, <2>4, <3>1, <3>2, <3>3 DEF SyncInv, Restoring
  <2>6. CASE next # 1
    <3>1. owner' = owner /\ next' = next - 1 BY Zenon, <1>7, <2>6 DEF restore_assignment
    <3> QED BY Zenon, <1>1, <2>1, <2>4, <3>1 DEF SyncInv, Restoring
  <2> QED BY Zenon, <2>5, <2>6
<1>8. CASE restore \/ destructor
  <2>1. CASE owner' = "destroyed"
    BY Zenon, <1>1, <1>8, <2>1 DEF restore, destructor, SyncInv, Handled, Restoring
  <2>2. CASE owner' # "destroyed"
    <3>1. /\ owner = "live" /\ owner' \in {"restore", "unwind"} /\ next' = Size
          /\ attempted' = TRUE
      BY Zenon, <1>8, <2>2 DEF restore, destructor, BeginRestore, SyncInv, Restoring
    <3>2. UNCHANGED <<previous, restored, errors, mode, initial>>
      BY Zenon, <1>8 DEF restore, destructor
    <3> QED BY Zenon, <1>1, <1>3, <3>1, <3>2 DEF SyncInv, Handled, Restoring
  <2> QED BY Zenon, <2>1, <2>2
<1>9. CASE UNCHANGED syncVars
  BY Zenon, <1>1, <1>9 DEF syncVars, session, SyncInv, Handled, Restoring
<1> QED BY Zenon, <1>5, <1>6, <1>7, <1>8, <1>9 DEF SyncNext, Terminated

\* The loops of the constructor and of restore() keep the invariant, whatever
\* the devices do.
THEOREM SyncInvariance == SyncSpec => []SyncInv
BY SyncInitInvariant, SyncInvariantStep, PTL DEF SyncSpec

\* After a session a camera that is not back in its mode has an error, and
\* the report's "restored" tells the truth.
THEOREM RolledBackHolds == SyncSpec => []RolledBack
<1>1. SyncInv => RolledBack
  <2> SUFFICES ASSUME SyncInv PROVE RolledBack BY Zenon
  <2>1. CASE owner \in {"report", "destroyed"}
    <3>1. /\ restored \cup errors = Cameras /\ restored \cap errors = {}
          /\ \A c \in restored : mode[c] = initial[c]
      BY Zenon, <2>1 DEF SyncInv, Handled
    <3> QED BY Zenon, <2>1, <3>1 DEF RolledBack, Ended
  <2>2. CASE owner = "thrown" BY Zenon, <2>2 DEF SyncInv, RolledBack
  <2> QED BY Zenon, <2>1, <2>2 DEF RolledBack, Ended
<1> QED BY <1>1, SyncInvariance, PTL

\* A constructor that returns has every camera in the requested mode.
THEOREM LiveMeansConfiguredHolds == SyncSpec => []LiveMeansConfigured
<1>1. SyncInv => LiveMeansConfigured BY Zenon DEF SyncInv, LiveMeansConfigured
<1> QED BY <1>1, SyncInvariance, PTL

\* Receivers change modes only with the source off, or given up by restore().
THEOREM SourceOffFirstHolds == SyncSpec => SourceOffFirst
<1> DEFINE Moves == \E c \in Cameras \ {Master} : mode'[c] # mode[c]
           Off == mode[Master] = initial[Master] \/ Master \in Handled
<1>1. SyncInv /\ [SyncNext]_syncVars => (Moves => Off)
  <2> SUFFICES ASSUME SyncInv, [SyncNext]_syncVars, Moves PROVE Off BY Zenon
  <2>1. SyncTypeOK /\ next \in 1..Size BY Zenon DEF SyncInv, SyncTypeOK
  <2>2. PICK d \in Cameras \ {Master} : mode'[d] # mode[d] BY Zenon
  <2>3. /\ Size \in 1..Size /\ Assignments[Size] = Master
        /\ \A i \in 1..Size : Assignments[i] \in Cameras
        /\ \A i, j \in 1..Size : Assignments[i] = Assignments[j] => i = j
    BY AssignmentsFacts, LoopFacts
  <2>4. CASE configure
    <3>1. requested_mode(Assignments[next]) \in Modes
      BY Zenon, RolesAssumption DEF requested_mode
    <3>2. d = Assignments[next]
      BY Zenon, <2>1, <2>2, <2>3, <2>4, <3>1, WriteFacts DEF configure
    <3>3. Master \in Cameras \ Before(next)
      BY <2>1, <2>2, <2>3, <3>2, AssignmentsFacts DEF Before
    <3> QED BY Zenon, <2>4, <3>3 DEF configure, SyncInv
  <2>5. CASE restore_assignment
    <3>1. previous[Assignments[next]] \in Modes BY Zenon, <2>1, <2>3 DEF SyncTypeOK
    <3>2. d = Assignments[next]
      BY Zenon, <2>1, <2>2, <2>3, <2>5, <3>1, WriteFacts DEF restore_assignment
    <3>3. Master \in After(next)
      BY <2>1, <2>2, <2>3, <3>2, AssignmentsFacts DEF After
    <3> QED BY Zenon, <2>5, <3>3 DEF restore_assignment, SyncInv
  <2> QED
    BY Zenon, <2>2, <2>4, <2>5
    DEF SyncNext, make_assignment, restore, destructor, Terminated, syncVars
<1> QED BY <1>1, SyncInvariance, PTL DEF SyncSpec, SourceOffFirst

\* Nothing writes to a camera once restore() has dealt with all of them.
THEOREM QuietAfterRestoreHolds == SyncSpec => QuietAfterRestore
<1>1. SyncInv /\ [SyncNext]_syncVars => (Handled = Cameras => mode' = mode)
  <2> SUFFICES ASSUME SyncInv, [SyncNext]_syncVars, Handled = Cameras
               PROVE  mode' = mode
    BY Zenon
  <2>1. next \in 1..Size BY Zenon DEF SyncInv, SyncTypeOK
  <2>2. /\ Assignments[next] \in Cameras
        /\ Assignments[next] \notin After(next)
    BY Zenon, <2>1, LoopFacts
  <2>3. owner \notin Restoring /\ owner # "configure" BY Zenon, <2>2 DEF SyncInv
  <2> QED
    BY Zenon, <2>3
    DEF SyncNext, make_assignment, configure, restore, restore_assignment,
        destructor, Terminated, syncVars
<1> QED BY <1>1, SyncInvariance, PTL DEF SyncSpec, QuietAfterRestore

-----------------------------------------------------------------------------
(* The controls of the host.                                               *)

\* A campaign starts in a well-typed state.
LEMMA ControlsTypedAtFirst == ControlsInit => ControlsTypeOK
<1> SUFFICES ASSUME ControlsInit PROVE ControlsTypeOK BY Zenon
<1>1. host \in Hosts BY DEF ControlsInit, Hosts
<1>2. own \in Memories BY Zenon DEF ControlsInit, Memories
<1> QED BY <1>1, <1>2, ControlsAssumption
        DEF ControlsInit, ControlsTypeOK, RunningSteps

\* Every step keeps the types.
LEMMA ControlsTyped ==
    ControlsTypeOK /\ [ControlsNext]_controlVars => ControlsTypeOK'
<1> SUFFICES ASSUME ControlsTypeOK, [ControlsNext]_controlVars
             PROVE  ControlsTypeOK'
  BY Zenon
<1> USE DEF ControlsTypeOK, RunningSteps, RestoringSteps, Goto, Leave, Raise,
            Signalled, PrepareFails, Undone
<1>1. CASE prepare BY Zenon, <1>1 DEF prepare, validate_environment
<1>2. CASE enable_controller
  <2>1. host' \in Hosts BY Zenon, <1>2 DEF enable_controller, Hosts, Noted
  <2>2. own' \in Memories BY <1>2, Zenon DEF enable_controller, Memories, Noted
  <2> QED BY Zenon, <1>2, <2>1, <2>2 DEF enable_controller, Noted
<1>3. CASE make_cgroup
  <2>1. host' \in Hosts BY <1>3 DEF make_cgroup, Hosts, Noted
  <2>2. own' \in Memories BY <1>3, Zenon DEF make_cgroup, Memories, Noted
  <2> QED BY Zenon, <1>3, <2>1, <2>2 DEF make_cgroup, Noted
<1>4. CASE make_partition
  <2>1. host' \in Hosts BY Zenon, <1>4 DEF make_partition, Hosts, Noted
  <2> QED BY Zenon, <1>4, <2>1 DEF make_partition, Noted
<1>5. ASSUME NEW i \in Irqs, pin_irq(i) PROVE ControlsTypeOK'
  BY <1>5 DEF pin_irq, Hosts, Memories
<1>6. ASSUME NEW i \in Irqs, restore_irq(i) PROVE ControlsTypeOK'
  BY <1>6 DEF restore_irq, Hosts
<1>7. CASE move_process
  <2>1. host' \in Hosts BY Zenon, <1>7 DEF move_process, Hosts, Noted
  <2>2. own' \in Memories BY <1>7, Zenon DEF move_process, Memories, Noted
  <2> QED BY Zenon, <1>7, <2>1, <2>2 DEF move_process, Noted
<1>8. CASE check_isolation BY <1>8, Zenon DEF check_isolation, Memories
<1>9. CASE restore_process
  <2>1. host' \in Hosts BY Zenon, <1>9 DEF restore_process, Hosts
  <2>2. own' \in Memories BY <1>9, Zenon DEF restore_process, Memories
  <2>3. own.originals \subseteq Irqs BY Zenon DEF Memories
  <2> QED BY <1>9, <2>1, <2>2, <2>3 DEF restore_process
<1>10. CASE remove_cgroup
  <2>1. host' \in Hosts BY <1>10 DEF remove_cgroup, Hosts
  <2>2. own' \in Memories BY <1>10, Zenon DEF remove_cgroup, Memories
  <2> QED BY <1>10, <2>1, <2>2 DEF remove_cgroup
<1>11. CASE disable_controller
  <2>1. host' \in Hosts BY Zenon, <1>11 DEF disable_controller, Hosts
  <2>2. own' \in Memories BY <1>11, Zenon DEF disable_controller, Memories
  <2> QED BY <1>11, <2>1, <2>2 DEF disable_controller, Returned
<1>12. CASE lock_cpu
  <2>1. host' \in Hosts BY <1>12 DEF lock_cpu, Hosts
  <2>2. own' \in Memories BY <1>12, Zenon DEF lock_cpu, Memories
  <2> QED BY Zenon, <1>12, <2>1, <2>2 DEF lock_cpu
<1>13. CASE verify_cpu_frequency BY Zenon, <1>13 DEF verify_cpu_frequency
<1>14. CASE enforce_autosuspend BY <1>14 DEF enforce_autosuspend, Hosts
<1>15. CASE verify BY Zenon, <1>15 DEF verify
<1>16. ASSUME NEW d \in Devices, unbind(d) PROVE ControlsTypeOK'
  BY <1>16 DEF unbind, Hosts
<1>17. CASE prepare_rsusb_access BY <1>17, Zenon DEF prepare_rsusb_access, Memories
<1>18. CASE drop_caches BY Zenon, <1>18 DEF drop_caches
<1>19. CASE run_probe
  <2>1. PICK back \in SUBSET Devices,
             f \in [Policies -> {"original", "locked", "other"}],
             a \in [Irqs -> {"original", "housekeeping", "other"}] :
             host' = [host EXCEPT !.bound = @ \cup back, !.awake = @ \ back,
                                 !.freq = f, !.affinity = a]
    <3>1. PICK back \in SUBSET Devices, slow \in SUBSET Policies,
               i \in SUBSET Irqs :
            host' = [host EXCEPT
              !.bound = @ \cup back, !.awake = @ \ back,
              !.freq = [p \in Policies |-> IF p \in slow THEN "other" ELSE @[p]],
              !.affinity = [j \in Irqs |-> IF j \in i THEN "other" ELSE @[j]]]
      BY Zenon, <1>19 DEF run_probe
    <3> DEFINE f == [p \in Policies |-> IF p \in slow THEN "other"
                                                     ELSE host.freq[p]]
               a == [j \in Irqs |-> IF j \in i THEN "other"
                                                ELSE host.affinity[j]]
    <3>2. f \in [Policies -> {"original", "locked", "other"}] BY Zenon DEF Hosts
    <3>3. a \in [Irqs -> {"original", "housekeeping", "other"}] BY Zenon DEF Hosts
    <3>4. host' = [host EXCEPT !.bound = @ \cup back, !.awake = @ \ back,
                              !.freq = f, !.affinity = a]
      BY Zenon, <3>1
    <3> QED BY Zenon, <3>2, <3>3, <3>4
  <2>2. host' \in Hosts BY Zenon, <2>1 DEF Hosts
  <2> QED BY Zenon, <1>19, <2>2 DEF run_probe
<1>20. CASE after_attempt
  <2>1. logical_run' \in 1..Runs /\ run_attempt' \in 1..Attempts
    BY <1>20, ControlsAssumption DEF after_attempt
  <2> QED BY Zenon, <1>20, <2>1 DEF after_attempt
<1>21. CASE restore_v4l2_binding
  <2>1. host' \in Hosts BY <1>21 DEF restore_v4l2_binding, Hosts
  <2>2. own' \in Memories BY <1>21, Zenon DEF restore_v4l2_binding, Memories
  <2> QED BY Zenon, <1>21, <2>1, <2>2 DEF restore_v4l2_binding
<1>22. CASE restore_cpu_frequency
  <2>1. host' \in Hosts BY <1>22 DEF restore_cpu_frequency, Hosts
  <2>2. own' \in Memories BY <1>22, Zenon DEF restore_cpu_frequency, Memories
  <2> QED BY <1>22, <2>1, <2>2 DEF restore_cpu_frequency
<1>23. CASE interrupt BY Zenon, <1>23 DEF interrupt
<1>24. CASE UNCHANGED controlVars BY <1>24 DEF controlVars
<1> QED BY Zenon, <1>1, <1>2, <1>3, <1>4, <1>5, <1>6, <1>7, <1>8, <1>9, <1>10, <1>11,
           <1>12, <1>13, <1>14, <1>15, <1>16, <1>17, <1>18, <1>19, <1>20, <1>21,
           <1>22, <1>23, <1>24 DEF ControlsNext, Done

\* No step runs the campaign again after a failure, a signal or a clean-up.
LEMMA CourseKept ==
    ControlsTypeOK /\ Course /\ [ControlsNext]_controlVars
      => Course'
<1> SUFFICES ASSUME ControlsTypeOK, Course,
                    [ControlsNext]_controlVars
             PROVE  Course'
  BY Zenon
<1> USE DEF Course, RunningSteps, RestoringSteps, Goto, Leave, Raise, Signalled,
            PrepareFails, Undone
<1>1. CASE prepare BY Zenon, <1>1 DEF prepare, validate_environment
<1>2. CASE enable_controller BY Zenon, <1>2 DEF enable_controller, Noted
<1>3. CASE make_cgroup BY Zenon, <1>3 DEF make_cgroup, Noted
<1>4. CASE make_partition BY Zenon, <1>4 DEF make_partition, Noted
<1>5. ASSUME NEW i \in Irqs, pin_irq(i) PROVE Course'
  BY Zenon, <1>5 DEF pin_irq
<1>6. ASSUME NEW i \in Irqs, restore_irq(i) PROVE Course'
  BY Zenon, <1>6 DEF restore_irq
<1>7. CASE move_process BY Zenon, <1>7 DEF move_process, Noted
<1>8. CASE check_isolation BY Zenon, <1>8 DEF check_isolation
<1>9. CASE restore_process BY Zenon, <1>9 DEF restore_process
<1>10. CASE remove_cgroup BY Zenon, <1>10 DEF remove_cgroup
<1>11. CASE disable_controller
  BY Zenon, <1>11 DEF ControlsTypeOK, disable_controller, Returned
<1>12. CASE lock_cpu BY Zenon, <1>12 DEF lock_cpu
<1>13. CASE verify_cpu_frequency BY Zenon, <1>13 DEF verify_cpu_frequency
<1>14. CASE enforce_autosuspend BY Zenon, <1>14 DEF enforce_autosuspend
<1>15. CASE verify BY Zenon, <1>15 DEF verify
<1>16. ASSUME NEW d \in Devices, unbind(d) PROVE Course'
  BY Zenon, <1>16 DEF unbind
<1>17. CASE prepare_rsusb_access BY Zenon, <1>17 DEF prepare_rsusb_access
<1>18. CASE drop_caches BY Zenon, <1>18 DEF drop_caches
<1>19. CASE run_probe BY Zenon, <1>19 DEF run_probe
<1>20. CASE after_attempt BY Zenon, <1>20 DEF after_attempt
<1>21. CASE restore_v4l2_binding BY Zenon, <1>21 DEF restore_v4l2_binding
<1>22. CASE restore_cpu_frequency BY Zenon, <1>22 DEF restore_cpu_frequency
<1>23. CASE interrupt BY Zenon, <1>23 DEF interrupt
<1>24. CASE UNCHANGED controlVars BY Zenon, <1>24 DEF controlVars
<1> QED BY Zenon, <1>1, <1>2, <1>3, <1>4, <1>5, <1>6, <1>7, <1>8, <1>9, <1>10, <1>11,
           <1>12, <1>13, <1>14, <1>15, <1>16, <1>17, <1>18, <1>19, <1>20, <1>21,
           <1>22, <1>23, <1>24 DEF ControlsNext, Done

\* What the steps with several outcomes do to each part of the host and of the
\* memory.
LEMMA CgroupStep ==
    ASSUME ControlsTypeOK, remove_cgroup
    PROVE  /\ step = "affinities" /\ todo = {} /\ step' = "controller_off"
           /\ UNCHANGED <<undoing, failed, signal>> /\ named \subseteq named'
           /\ host'.bound = host.bound /\ own'.unbound = own.unbound
           /\ own'.originals = {} /\ host'.affinity = host.affinity
           /\ own'.locked = own.locked /\ own'.needed = own.needed
           /\ host'.freq = host.freq /\ host'.inside = host.inside
           /\ own'.moved = own.moved /\ own'.enabled = own.enabled
           /\ host'.subtree = host.subtree /\ host'.had = host.had
           /\ \/ own'.created = own.created /\ ~own.created
                 /\ host'.cgroup = host.cgroup
              \/ host'.cgroup = "none" /\ ~own'.created
              \/ own'.created = own.created /\ own.created /\ "cgroup" \in named'
<1> USE DEF ControlsTypeOK, Hosts, Memories, remove_cgroup, Undone
<1>1. CASE ~own.created /\ UNCHANGED host BY Zenon, <1>1
<1>2. CASE own.created /\ host' = [host EXCEPT !.cgroup = "none"]
              /\ own' = [own EXCEPT !.originals = {}, !.created = FALSE]
  BY Zenon, <1>2
<1>3. CASE own.created /\ host' \in {host, [host EXCEPT !.cgroup = "member"]}
              /\ own' = [own EXCEPT !.originals = {}]
              /\ named' = named \cup {"cgroup"}
  BY Zenon, <1>3
<1> QED BY Zenon, <1>1, <1>2, <1>3

\* The same for the controller.
LEMMA ControllerStep ==
    ASSUME ControlsTypeOK, disable_controller
    PROVE  /\ step = "controller_off" /\ step' = Returned
           /\ UNCHANGED <<undoing, failed, signal>> /\ named \subseteq named'
           /\ host'.bound = host.bound /\ own'.unbound = own.unbound
           /\ own'.originals = own.originals /\ host'.affinity = host.affinity
           /\ own'.locked = own.locked /\ own'.needed = own.needed
           /\ host'.freq = host.freq /\ host'.inside = host.inside
           /\ own'.moved = own.moved /\ own'.created = own.created
           /\ host'.cgroup = host.cgroup /\ host'.had = host.had
           /\ host.had \in BOOLEAN
           /\ \/ ~own.enabled /\ ~own'.enabled /\ host'.subtree = host.subtree
              \/ own.enabled /\ ~own'.enabled /\ host'.subtree = FALSE
              \/ /\ own.enabled /\ own'.enabled /\ "controller" \in named'
                 /\ host'.subtree = host.subtree
<1> USE DEF ControlsTypeOK, Hosts, Memories, disable_controller, Undone
<1>1. CASE ~own.enabled BY Zenon, <1>1
<1>2. CASE own.enabled /\ own' = [own EXCEPT !.active = FALSE, !.enabled = FALSE]
              /\ host' = [host EXCEPT !.subtree = FALSE]
  BY Zenon, <1>2
<1>3. CASE own.enabled /\ own' = [own EXCEPT !.active = FALSE] /\ UNCHANGED host
              /\ named' = named \cup {"controller"}
  BY Zenon, <1>3
<1> QED BY Zenon, <1>1, <1>2, <1>3

\* The same for the end of clean-up.
LEMMA UnlockStep ==
    ASSUME ControlsTypeOK, restore_cpu_frequency
    PROVE  /\ step = "unlock" /\ step' = "over"
           /\ UNCHANGED <<undoing, failed, signal>> /\ named \subseteq named'
           /\ host'.bound = host.bound /\ own'.unbound = own.unbound
           /\ own'.originals = own.originals /\ host'.affinity = host.affinity
           /\ host'.inside = host.inside /\ own'.moved = own.moved
           /\ own'.created = own.created /\ host'.cgroup = host.cgroup
           /\ own'.enabled = own.enabled /\ host'.subtree = host.subtree
           /\ host'.had = host.had
           /\ \/ own'.needed = own.needed /\ ~own.needed
                 /\ own'.locked = own.locked /\ host'.freq = host.freq
              \/ ~own'.needed /\ ~own'.locked
                 /\ host'.freq = [p \in Policies |-> "original"]
              \/ /\ own'.needed = own.needed /\ own.needed
                 /\ own'.locked = own.locked /\ "frequency" \in named'
<1> USE DEF ControlsTypeOK, Hosts, Memories, restore_cpu_frequency, Undone
<1>1. CASE ~own.needed BY Zenon, <1>1
<1>2. CASE own.needed /\ own' = [own EXCEPT !.needed = FALSE, !.locked = FALSE]
              /\ host' = [host EXCEPT !.freq = [p \in Policies |-> "original"]]
  BY Zenon, <1>2
<1>3. CASE own.needed /\ UNCHANGED own /\ named' = named \cup {"frequency"}
              /\ \E f \in [Policies -> {"original", "locked", "other"}] :
                   host' = [host EXCEPT !.freq = f]
  BY Zenon, <1>3
<1> QED BY Zenon, <1>1, <1>2, <1>3

\* The same for the lock.
LEMMA LockStep ==
    ASSUME ControlsTypeOK, lock_cpu
    PROVE  /\ step = "lock" /\ own'.active = own.active
           /\ host'.inside = host.inside /\ own'.moved = own.moved
           /\ own'.created = own.created /\ host'.cgroup = host.cgroup
           /\ own'.enabled = own.enabled /\ host'.subtree = host.subtree
           /\ host'.had = host.had /\ host'.affinity = host.affinity
           /\ host'.bound = host.bound /\ own'.unbound = own.unbound
           /\ own'.originals = own.originals /\ own'.needed
           /\ UNCHANGED <<undoing, named>>
           /\ \/ /\ step' = "power" /\ AllLocked(host'.freq)
                 /\ UNCHANGED <<signal, failed>>
              \/ /\ step' = "rebind" /\ failed' = "lock"
                 /\ signal' \in {signal, "taken"}
<1> USE DEF ControlsTypeOK, Hosts, Memories, lock_cpu
<1>1. PICK f \in [Policies -> {"original", "locked"}] :
        /\ host' = [host EXCEPT !.freq = f]
        /\ \/ /\ AllLocked(f)
              /\ own' = [own EXCEPT !.needed = TRUE, !.locked = TRUE]
              /\ Goto("power", {})
           \/ own' = [own EXCEPT !.needed = TRUE] /\ (Raise \/ Signalled)
  BY Zenon
<1>2. host'.freq = f BY Zenon, <1>1
<1>3. CASE Goto("power", {}) /\ AllLocked(f)
             /\ own' = [own EXCEPT !.needed = TRUE, !.locked = TRUE]
  BY Zenon, <1>1, <1>2, <1>3 DEF Goto
<1>4. CASE (Raise \/ Signalled) /\ own' = [own EXCEPT !.needed = TRUE]
  BY ZenonT(30), <1>1, <1>4 DEF Raise, Signalled, Leave
<1> QED BY Zenon, <1>1, <1>3, <1>4

\* The controls a step has checked or applied stay so until the probe.
LEMMA AppliedKept ==
    ControlsTypeOK /\ Course /\ Applied /\ [ControlsNext]_controlVars
      => Applied'
<1> SUFFICES ASSUME ControlsTypeOK, Course, Applied,
                    [ControlsNext]_controlVars
             PROVE  Applied'
  BY Zenon
<1> USE DEF RunningSteps, RestoringSteps, Goto, Leave, Raise, Signalled,
            PrepareFails, Undone, ControlsTypeOK, Hosts, Memories
<1> USE DEF Applied, Course, Isolated, AllLocked
<1>1. CASE prepare BY Zenon, <1>1 DEF prepare, validate_environment
<1>2. CASE enable_controller BY Zenon, <1>2 DEF enable_controller, Noted
<1>3. CASE make_cgroup BY Zenon, <1>3 DEF make_cgroup, Noted
<1>4. CASE make_partition BY Zenon, <1>4 DEF make_partition, Noted
<1>5. ASSUME NEW i \in Irqs, pin_irq(i) PROVE Applied'
  BY Zenon, <1>5 DEF pin_irq
<1>6. ASSUME NEW i \in Irqs, restore_irq(i) PROVE Applied'
  BY Zenon, <1>6 DEF restore_irq
<1>7. CASE move_process BY Zenon, <1>7 DEF move_process, Noted
<1>8. CASE check_isolation BY <1>8 DEF check_isolation
<1>9. CASE restore_process BY Zenon, <1>9 DEF restore_process
<1>10. CASE remove_cgroup BY Zenon, <1>10 DEF remove_cgroup
<1>11. CASE disable_controller BY Zenon, <1>11 DEF disable_controller, Returned
<1>12. CASE lock_cpu BY Zenon, <1>12, LockStep
<1>13. CASE verify_cpu_frequency BY Zenon, <1>13 DEF verify_cpu_frequency
<1>14. CASE enforce_autosuspend BY <1>14 DEF enforce_autosuspend
<1>15. CASE verify BY <1>15 DEF verify
<1>16. ASSUME NEW d \in Devices, unbind(d) PROVE Applied'
  BY <1>16 DEF unbind
<1>17. CASE prepare_rsusb_access BY <1>17 DEF prepare_rsusb_access
<1>18. CASE drop_caches BY Zenon, <1>18 DEF drop_caches
<1>19. CASE run_probe BY Zenon, <1>19 DEF run_probe
<1>20. CASE after_attempt BY <1>20 DEF after_attempt
<1>21. CASE restore_v4l2_binding BY Zenon, <1>21 DEF restore_v4l2_binding
<1>22. CASE restore_cpu_frequency BY Zenon, <1>22 DEF restore_cpu_frequency
<1>23. CASE interrupt BY Zenon, <1>23 DEF interrupt
<1>24. CASE UNCHANGED controlVars BY ZenonT(30), <1>24 DEF controlVars
<1> QED BY ZenonT(30), <1>1, <1>2, <1>3, <1>4, <1>5, <1>6, <1>7, <1>8, <1>9, <1>10, <1>11,
           <1>12, <1>13, <1>14, <1>15, <1>16, <1>17, <1>18, <1>19, <1>20, <1>21,
           <1>22, <1>23, <1>24 DEF ControlsNext, Done

\* An interrupt leaves the memory only when its affinity is back or it is named.
LEMMA AffinityKept ==
    ControlsTypeOK /\ Course /\ Applied /\ AffinityKnown
        /\ [ControlsNext]_controlVars
      => AffinityKnown'
<1> SUFFICES ASSUME ControlsTypeOK, Course, Applied, AffinityKnown,
                    [ControlsNext]_controlVars
             PROVE  AffinityKnown'
  BY Zenon
<1> USE DEF RunningSteps, RestoringSteps, Goto, Leave, Raise, Signalled,
            PrepareFails, Undone, ControlsTypeOK, Hosts, Memories
<1> USE DEF AffinityKnown
<1>1. CASE prepare BY Zenon, <1>1 DEF prepare, validate_environment
<1>2. CASE enable_controller BY Zenon, <1>2 DEF enable_controller, Noted
<1>3. CASE make_cgroup BY <1>3 DEF make_cgroup, Noted
<1>4. CASE make_partition BY <1>4 DEF make_partition, Noted
<1>5. ASSUME NEW i \in Irqs, pin_irq(i) PROVE AffinityKnown'
  BY <1>5 DEF pin_irq
<1>6. ASSUME NEW i \in Irqs, restore_irq(i) PROVE AffinityKnown'
  BY <1>6 DEF restore_irq
<1>7. CASE move_process BY <1>7 DEF move_process, Noted
<1>8. CASE check_isolation BY Zenon, <1>8 DEF check_isolation
<1>9. CASE restore_process BY <1>9 DEF restore_process
<1>10. CASE remove_cgroup
  <2> HIDE DEF ControlsTypeOK, Hosts, Memories
  <2> QED BY Zenon, <1>10, CgroupStep
<1>11. CASE disable_controller
  <2> HIDE DEF ControlsTypeOK, Hosts, Memories
  <2> QED BY Zenon, <1>11, ControllerStep DEF Returned
<1>12. CASE lock_cpu
  <2> HIDE DEF ControlsTypeOK, Hosts, Memories
  <2> QED BY Zenon, <1>12, LockStep DEF Course
<1>13. CASE verify_cpu_frequency BY <1>13 DEF verify_cpu_frequency
<1>14. CASE enforce_autosuspend BY Zenon, <1>14 DEF enforce_autosuspend
<1>15. CASE verify BY Zenon, <1>15 DEF verify
<1>16. ASSUME NEW d \in Devices, unbind(d) PROVE AffinityKnown'
  BY Zenon, <1>16 DEF unbind
<1>17. CASE prepare_rsusb_access BY Zenon, <1>17 DEF prepare_rsusb_access
<1>18. CASE drop_caches BY Zenon, <1>18 DEF drop_caches
<1>19. CASE run_probe BY Zenon, <1>19 DEF run_probe, Applied, Isolated
<1>20. CASE after_attempt BY Zenon, <1>20 DEF after_attempt
<1>21. CASE restore_v4l2_binding BY <1>21 DEF restore_v4l2_binding
<1>22. CASE restore_cpu_frequency
  <2> HIDE DEF ControlsTypeOK, Hosts, Memories
  <2> QED BY Zenon, <1>22, UnlockStep
<1>23. CASE interrupt BY Zenon, <1>23 DEF interrupt, Course
<1>24. CASE UNCHANGED controlVars BY Zenon, <1>24 DEF controlVars
<1> QED BY Zenon, <1>1, <1>2, <1>3, <1>4, <1>5, <1>6, <1>7, <1>8, <1>9, <1>10, <1>11,
           <1>12, <1>13, <1>14, <1>15, <1>16, <1>17, <1>18, <1>19, <1>20, <1>21,
           <1>22, <1>23, <1>24 DEF ControlsNext, Done

\* The governor is asked for before it is touched and kept until it is back.
LEMMA FrequencyKept ==
    ControlsTypeOK /\ FrequencyKnown /\ [ControlsNext]_controlVars
      => FrequencyKnown'
<1> SUFFICES ASSUME ControlsTypeOK, FrequencyKnown,
                    [ControlsNext]_controlVars
             PROVE  FrequencyKnown'
  BY Zenon
<1> USE DEF RunningSteps, RestoringSteps, Goto, Leave, Raise, Signalled,
            PrepareFails, Undone, ControlsTypeOK, Hosts, Memories
<1> USE DEF FrequencyKnown
<1>1. CASE prepare BY Zenon, <1>1 DEF prepare, validate_environment
<1>2. CASE enable_controller BY <1>2 DEF enable_controller, Noted
<1>3. CASE make_cgroup BY <1>3 DEF make_cgroup, Noted
<1>4. CASE make_partition BY <1>4 DEF make_partition, Noted
<1>5. ASSUME NEW i \in Irqs, pin_irq(i) PROVE FrequencyKnown'
  BY <1>5 DEF pin_irq
<1>6. ASSUME NEW i \in Irqs, restore_irq(i) PROVE FrequencyKnown'
  BY <1>6 DEF restore_irq
<1>7. CASE move_process BY <1>7 DEF move_process, Noted
<1>8. CASE check_isolation BY <1>8 DEF check_isolation
<1>9. CASE restore_process BY <1>9 DEF restore_process
<1>10. CASE remove_cgroup
  <2> HIDE DEF ControlsTypeOK, Hosts, Memories
  <2> QED BY Zenon, <1>10, CgroupStep
<1>11. CASE disable_controller
  <2> HIDE DEF ControlsTypeOK, Hosts, Memories
  <2> QED BY Zenon, <1>11, ControllerStep DEF Returned
<1>12. CASE lock_cpu
  <2> HIDE DEF ControlsTypeOK, Hosts, Memories
  <2> QED BY Zenon, <1>12, LockStep
<1>13. CASE verify_cpu_frequency BY Zenon, <1>13 DEF verify_cpu_frequency
<1>14. CASE enforce_autosuspend BY Zenon, <1>14 DEF enforce_autosuspend
<1>15. CASE verify BY Zenon, <1>15 DEF verify
<1>16. ASSUME NEW d \in Devices, unbind(d) PROVE FrequencyKnown'
  BY Zenon, <1>16 DEF unbind
<1>17. CASE prepare_rsusb_access BY Zenon, <1>17 DEF prepare_rsusb_access
<1>18. CASE drop_caches BY Zenon, <1>18 DEF drop_caches
<1>19. CASE run_probe BY Zenon, <1>19 DEF run_probe
<1>20. CASE after_attempt BY Zenon, <1>20 DEF after_attempt
<1>21. CASE restore_v4l2_binding BY <1>21 DEF restore_v4l2_binding
<1>22. CASE restore_cpu_frequency
  <2> HIDE DEF ControlsTypeOK, Hosts, Memories
  <2> QED BY Zenon, <1>22, UnlockStep
<1>23. CASE interrupt BY Zenon, <1>23 DEF interrupt
<1>24. CASE UNCHANGED controlVars BY ZenonT(30), <1>24 DEF controlVars
<1> QED BY ZenonT(30), <1>1, <1>2, <1>3, <1>4, <1>5, <1>6, <1>7, <1>8, <1>9, <1>10, <1>11,
           <1>12, <1>13, <1>14, <1>15, <1>16, <1>17, <1>18, <1>19, <1>20, <1>21,
           <1>22, <1>23, <1>24 DEF ControlsNext, Done

\* Without a signal, every effect of prepare() is noted.
LEMMA IsolationKept ==
    ControlsTypeOK /\ Course /\ IsolationKnown /\ [ControlsNext]_controlVars
      => IsolationKnown'
<1> SUFFICES ASSUME ControlsTypeOK, Course, IsolationKnown,
                    [ControlsNext]_controlVars
             PROVE  IsolationKnown'
  BY Zenon
<1> USE DEF RunningSteps, RestoringSteps, Goto, Leave, Raise, Signalled,
            PrepareFails, Undone, ControlsTypeOK, Hosts, Memories
<1> USE DEF IsolationKnown, Course
<1>1. CASE prepare BY Zenon, <1>1 DEF prepare, validate_environment
<1>2. CASE enable_controller BY <1>2 DEF enable_controller, Noted
<1>3. CASE make_cgroup BY <1>3 DEF make_cgroup, Noted
<1>4. CASE make_partition BY <1>4 DEF make_partition, Noted
<1>5. ASSUME NEW i \in Irqs, pin_irq(i) PROVE IsolationKnown'
  BY <1>5 DEF pin_irq
<1>6. ASSUME NEW i \in Irqs, restore_irq(i) PROVE IsolationKnown'
  BY <1>6 DEF restore_irq
<1>7. CASE move_process BY <1>7 DEF move_process, Noted
<1>8. CASE check_isolation BY <1>8 DEF check_isolation
<1>9. CASE restore_process BY <1>9 DEF restore_process
<1>10. CASE remove_cgroup
  <2> HIDE DEF ControlsTypeOK, Hosts, Memories
  <2> QED BY Zenon, <1>10, CgroupStep
<1>11. CASE disable_controller
  <2> HIDE DEF ControlsTypeOK, Hosts, Memories
  <2> QED BY Zenon, <1>11, ControllerStep DEF Returned
<1>12. CASE lock_cpu
  <2> HIDE DEF ControlsTypeOK, Hosts, Memories
  <2> QED BY Zenon, <1>12, LockStep
<1>13. CASE verify_cpu_frequency BY Zenon, <1>13 DEF verify_cpu_frequency
<1>14. CASE enforce_autosuspend BY <1>14 DEF enforce_autosuspend
<1>15. CASE verify BY Zenon, <1>15 DEF verify
<1>16. ASSUME NEW d \in Devices, unbind(d) PROVE IsolationKnown'
  BY Zenon, <1>16 DEF unbind
<1>17. CASE prepare_rsusb_access BY Zenon, <1>17 DEF prepare_rsusb_access
<1>18. CASE drop_caches BY Zenon, <1>18 DEF drop_caches
<1>19. CASE run_probe BY Zenon, <1>19 DEF run_probe
<1>20. CASE after_attempt BY Zenon, <1>20 DEF after_attempt
<1>21. CASE restore_v4l2_binding BY <1>21 DEF restore_v4l2_binding
<1>22. CASE restore_cpu_frequency
  <2> HIDE DEF ControlsTypeOK, Hosts, Memories
  <2> QED BY Zenon, <1>22, UnlockStep
<1>23. CASE interrupt BY Zenon, <1>23 DEF interrupt
<1>24. CASE UNCHANGED controlVars BY Zenon, <1>24 DEF controlVars
<1> QED BY Zenon, <1>1, <1>2, <1>3, <1>4, <1>5, <1>6, <1>7, <1>8, <1>9, <1>10, <1>11,
           <1>12, <1>13, <1>14, <1>15, <1>16, <1>17, <1>18, <1>19, <1>20, <1>21,
           <1>22, <1>23, <1>24 DEF ControlsNext, Done

\* A device stays unbound only when a campaign fails in the helper, or an error
\* names the binding.
LEMMA BindingKept ==
    ControlsTypeOK /\ Course /\ BindingKnown /\ [ControlsNext]_controlVars
      => BindingKnown'
<1> SUFFICES ASSUME ControlsTypeOK, Course, BindingKnown,
                    [ControlsNext]_controlVars
             PROVE  BindingKnown'
  BY Zenon
<1> USE DEF RunningSteps, RestoringSteps, Goto, Leave, Raise, Signalled,
            PrepareFails, Undone, ControlsTypeOK, Hosts, Memories
<1> USE DEF BindingKnown, Course
<1>1. CASE prepare BY Zenon, <1>1 DEF prepare, validate_environment
<1>2. CASE enable_controller BY <1>2 DEF enable_controller, Noted
<1>3. CASE make_cgroup BY <1>3 DEF make_cgroup, Noted
<1>4. CASE make_partition BY Zenon, <1>4 DEF make_partition, Noted
<1>5. ASSUME NEW i \in Irqs, pin_irq(i) PROVE BindingKnown'
  BY Zenon, <1>5 DEF pin_irq
<1>6. ASSUME NEW i \in Irqs, restore_irq(i) PROVE BindingKnown'
  BY Zenon, <1>6 DEF restore_irq
<1>7. CASE move_process BY <1>7 DEF move_process, Noted
<1>8. CASE check_isolation BY <1>8 DEF check_isolation
<1>9. CASE restore_process BY <1>9 DEF restore_process
<1>10. CASE remove_cgroup
  <2> HIDE DEF ControlsTypeOK, Hosts, Memories
  <2> QED BY Zenon, <1>10, CgroupStep
<1>11. CASE disable_controller
  <2> HIDE DEF ControlsTypeOK, Hosts, Memories
  <2> QED BY Zenon, <1>11, ControllerStep DEF Returned
<1>12. CASE lock_cpu
  <2> HIDE DEF ControlsTypeOK, Hosts, Memories
  <2> QED BY Zenon, <1>12, LockStep
<1>13. CASE verify_cpu_frequency BY <1>13 DEF verify_cpu_frequency
<1>14. CASE enforce_autosuspend BY Zenon, <1>14 DEF enforce_autosuspend
<1>15. CASE verify BY Zenon, <1>15 DEF verify
<1>16. ASSUME NEW d \in Devices, unbind(d) PROVE BindingKnown'
  BY Zenon, <1>16 DEF unbind
<1>17. CASE prepare_rsusb_access BY Zenon, <1>17 DEF prepare_rsusb_access
<1>18. CASE drop_caches BY Zenon, <1>18 DEF drop_caches
<1>19. CASE run_probe BY <1>19 DEF run_probe
<1>20. CASE after_attempt BY Zenon, <1>20 DEF after_attempt
<1>21. CASE restore_v4l2_binding BY <1>21 DEF restore_v4l2_binding
<1>22. CASE restore_cpu_frequency
  <2> HIDE DEF ControlsTypeOK, Hosts, Memories
  <2> QED BY Zenon, <1>22, UnlockStep
<1>23. CASE interrupt BY Zenon, <1>23 DEF interrupt
<1>24. CASE UNCHANGED controlVars BY Zenon, <1>24 DEF controlVars
<1> QED BY Zenon, <1>1, <1>2, <1>3, <1>4, <1>5, <1>6, <1>7, <1>8, <1>9, <1>10, <1>11,
           <1>12, <1>13, <1>14, <1>15, <1>16, <1>17, <1>18, <1>19, <1>20, <1>21,
           <1>22, <1>23, <1>24 DEF ControlsNext, Done

\* The invariant of the host's controls, for any cameras, interrupts, policies,
\* runs and attempts, with or without isolation and RSUSB.
THEOREM ControlsInvariance == ControlsSpec => []ControlsIInv
<1>1. ControlsInit => ControlsIInv
  <2> SUFFICES ASSUME ControlsInit PROVE ControlsIInv OBVIOUS
  <2>1. Course /\ Applied BY Zenon DEF ControlsInit, Course, Applied, RunningSteps
  <2>2. AffinityKnown /\ FrequencyKnown
    BY DEF ControlsInit, AffinityKnown, FrequencyKnown
  <2>3. IsolationKnown /\ BindingKnown
    BY DEF ControlsInit, IsolationKnown, BindingKnown
  <2> QED BY Zenon, <2>1, <2>2, <2>3, ControlsTypedAtFirst DEF ControlsIInv
<1>2. ControlsIInv /\ [ControlsNext]_controlVars => ControlsIInv'
  BY Zenon, ControlsTyped, CourseKept, AppliedKept, AffinityKept, FrequencyKept,
     IsolationKept, BindingKept DEF ControlsIInv
<1> QED BY <1>1, <1>2, PTL DEF ControlsSpec

\* Every probe starts under the controls of its campaign (system_controls.py,
\* prepare_campaign and prepare_attempt).
THEOREM ControlsAreInForce == ControlsSpec => []InForce
<1>1. ControlsIInv => InForce BY Zenon DEF ControlsIInv, Applied, InForce
<1> QED BY <1>1, ControlsInvariance, PTL

\* The host is put back, or an error names what is not (system_controls.py,
\* cleanup, and CpuIsolation.restore).
THEOREM HostIsPutBack == ControlsSpec => []PutBack
<1>1. ControlsIInv => PutBack
  <2> SUFFICES ASSUME ControlsIInv, step = "over", signal # "cut" PROVE PutBack
    BY Zenon DEF PutBack
  <2> USE DEF ControlsIInv
  <2>1. Isolation =>
          \A i \in Irqs : host.affinity[i] # "original" => i \in named
    BY Zenon DEF AffinityKnown
  <2>2. (\E p \in Policies : host.freq[p] # "original") => "frequency" \in named
    BY Zenon DEF FrequencyKnown
  <2>3. signal = "none" =>
          /\ host.inside => "process" \in named
          /\ host.cgroup # "none" => "cgroup" \in named
          /\ host.subtree # host.had => "controller" \in named
    BY Zenon DEF IsolationKnown
  <2>4. failed # "unbind" /\ host.bound # Devices => "binding" \in named
    BY Zenon DEF BindingKnown, Course
  <2> QED BY Zenon, <2>1, <2>2, <2>3, <2>4 DEF PutBack
<1> QED BY <1>1, ControlsInvariance, PTL

-----------------------------------------------------------------------------
(* The noise of a transition campaign.                                     *)

\* Every place of a loop over the workloads has a workload, and every workload
\* a place.
LEMMA WorkloadFacts ==
    /\ Count \in Nat /\ Count > 0
    /\ \A i \in 1..Count : Workloads[i] \in Noises
    /\ \A w \in Noises : \E i \in 1..Count : w = Workloads[i]
    /\ \A i, j \in 1..Count : Workloads[i] = Workloads[j] => i = j
BY CampaignAssumption DEF Noises, Count

\* A campaign starts in a well-typed state.
LEMMA TypesAtFirst == Init => TypeOK
<1> SUFFICES ASSUME Init PROVE TypeOK BY Zenon
<1>1. /\ at \in 0..Count /\ attempt \in 1..MaxAttempts /\ k \in 1..Count
      /\ faults \in 0..MaxFaults /\ signals \in 0..MaxSignals
  BY WorkloadFacts, CampaignAssumption DEF Init
<1>2. proc \in [Noises -> {"none", "warming", "ready", "dead", "killed"}]
  BY Zenon DEF Init
<1> QED BY <1>1, <1>2, Zenon DEF Init, TypeOK, Ends

\* What a stop does, whether it returns or raises.
LEMMA StopFacts ==
    ASSUME TypeOK, NEW w \in Noises, NEW r \in BOOLEAN,
           StopReturns(w) \/ StopRaises(w, r)
    PROVE  /\ handle' = handle \ {w} /\ readyFile' = readyFile
           /\ faults' \in 0..MaxFaults
           /\ proc' \in [Noises -> {"none", "warming", "ready", "dead", "killed"}]
           /\ Alive' \subseteq Alive
           /\ w \in handle => Alive' = Alive \ {w}
           /\ \A v \in Noises : v # w => proc'[v] = proc[v]
<1> USE DEF TypeOK, Running
<1>1. handle' = handle \ {w} /\ readyFile' = readyFile
  BY Zenon DEF StopReturns, StopRaises
<1>2. faults' \in 0..MaxFaults
  BY CampaignAssumption DEF StopReturns, StopRaises
<1>3. PICK s \in {"none", "warming", "ready", "dead", "killed"} :
        /\ proc' = [proc EXCEPT ![w] = s]
        /\ s \in Running => s = proc[w] /\ w \notin handle
  BY Zenon DEF StopReturns, StopRaises
<1> QED BY Zenon, <1>1, <1>2, <1>3 DEF Alive

\* Types, the steps of the helper.
LEMMA HelperTypes == TypeOK /\ Helper => TypeOK'
<1> SUFFICES ASSUME TypeOK, Helper PROVE TypeOK' BY Zenon
<1> USE WorkloadFacts
<1> USE DEF TypeOK, Ends, runnerVars, suiteVars, probeVars, answerVars, HelperAt,
            Abort
<1>0. Workloads[k] \in Noises BY Zenon
<1>1. CASE wait_for_camera_warmup BY <1>1 DEF wait_for_camera_warmup
<1>2. CASE SpawnNoise
  <2>1. proc' \in [Noises -> {"none", "warming", "ready", "dead", "killed"}]
    BY Zenon, <1>0, <1>2 DEF SpawnNoise
  <2>2. handle' \subseteq Noises /\ readyFile' = readyFile /\ faults' = faults
    BY Zenon, <1>0, <1>2 DEF SpawnNoise
  <2>3. late' \in BOOLEAN BY <1>2, Zenon DEF SpawnNoise
  <2>4. helper' \in {"poll", "abort"} /\ k' \in 1..Count
    BY <1>2 DEF SpawnNoise
  <2> QED BY <1>2, <2>1, <2>2, <2>3, <2>4 DEF SpawnNoise
<1>3. CASE PollNoise BY <1>0, <1>3 DEF PollNoise
<1>4. CASE LookForReady BY <1>4 DEF LookForReady
<1>5. CASE ReadyTimeout
  <2>1. StopReturns(Workloads[k]) \/ StopRaises(Workloads[k], TRUE)
    BY Zenon, <1>5 DEF ReadyTimeout
  <2>2. /\ handle' \subseteq Noises /\ readyFile' = readyFile
        /\ faults' \in 0..MaxFaults
        /\ proc' \in [Noises -> {"none", "warming", "ready", "dead", "killed"}]
    BY <1>0, <2>1, StopFacts, ZenonT(30)
  <2>3. helper' \in {"abort", "error"} /\ k' \in 1..Count
    BY <1>5 DEF ReadyTimeout
  <2> QED BY <1>5, <2>2, <2>3 DEF ReadyTimeout
<1>6. CASE AbortNoise
  <2>1. StopReturns(Workloads[k]) \/ StopRaises(Workloads[k], TRUE)
    BY <1>6, Zenon DEF AbortNoise
  <2>2. /\ handle' \subseteq Noises /\ readyFile' = readyFile
        /\ faults' \in 0..MaxFaults
        /\ proc' \in [Noises -> {"none", "warming", "ready", "dead", "killed"}]
    BY <1>0, <2>1, StopFacts, ZenonT(30)
  <2>3. /\ helper' \in {"abort", "error"}
        /\ (k > 1 /\ k' = k - 1) \/ k' = k
        /\ UNCHANGED <<late, runnerVars, probeVars, answerVars>>
    BY <1>6, Zenon DEF AbortNoise
  <2>4. k' \in 1..Count BY <2>3
  <2> QED BY <2>2, <2>3, <2>4
<1>7. CASE CheckProbe
  <2>1. helper' \in {"ended", "publish"} BY <1>7, Zenon DEF CheckProbe
  <2> QED BY <1>7, <2>1 DEF CheckProbe
<1>8. CASE PublishGate
  <2>1. gateFile' \in BOOLEAN /\ helper' \in {"ended", "error"}
    BY <1>8, Zenon DEF PublishGate
  <2> QED BY <1>8, <2>1, ZenonT(60) DEF PublishGate
<1>9. CASE publish_error
  <2>1. errorFile' \in BOOLEAN BY <1>9, Zenon DEF publish_error
  <2> QED BY <1>9, <2>1, ZenonT(30) DEF publish_error
<1> QED BY Zenon, <1>1, <1>2, <1>3, <1>4, <1>5, <1>6, <1>7, <1>8, <1>9 DEF Helper

\* Types, the steps of the runner and the signals.
LEMMA RunnerTypes == TypeOK /\ (Runner \/ Signal) => TypeOK'
<1> SUFFICES ASSUME TypeOK, Runner \/ Signal PROVE TypeOK' BY Zenon
<1> USE WorkloadFacts
<1> USE DEF TypeOK, Ends, helperVars, suiteVars, probeVars, answerVars
<1>0. at > 0 => Workloads[at] \in Noises OBVIOUS
<1>1. CASE StartAttempt BY <1>1 DEF StartAttempt
<1>2. CASE CommandReturns BY Zenon, <1>2 DEF CommandReturns
<1>3. CASE SetProbeDone BY <1>3 DEF SetProbeDone
<1>4. CASE JoinHelper BY <1>4 DEF JoinHelper
<1>5. CASE StopNoise
  <2>1. /\ pc = "stopping"
        /\ StopReturns(Workloads[at]) \/ StopRaises(Workloads[at], TRUE)
    BY <1>5, Zenon DEF StopNoise
  <2>2. /\ handle' \subseteq Noises /\ readyFile' = readyFile
        /\ faults' \in 0..MaxFaults
        /\ proc' \in [Noises -> {"none", "warming", "ready", "dead", "killed"}]
    BY <1>0, <2>1, StopFacts, ZenonT(30)
  <2>3. /\ \/ pc' = pc /\ at > 1 /\ at' = at - 1
           \/ pc' \in {"returned", "raised"} /\ at' = at
        /\ UNCHANGED <<attempt, signals, probe_done, helperVars, probeVars,
                       answerVars>>
    BY <1>5, Zenon DEF StopNoise
  <2> QED BY <2>1, <2>2, <2>3
<1>6. CASE NextAttempt
  <2>1. attempt' \in 1..MaxAttempts /\ k' \in 1..Count
    BY <1>6, CampaignAssumption DEF NextAttempt
  <2> QED BY <1>6, <2>1, Zenon DEF NextAttempt
<1>7. CASE Cleanup BY <1>7 DEF Cleanup
<1>8. CASE CleanNoise
  <2>1. /\ pc = "cleaning"
        /\ StopReturns(Workloads[at]) \/ StopRaises(Workloads[at], FALSE)
    BY <1>8, Zenon DEF CleanNoise
  <2>2. /\ handle' \subseteq Noises /\ readyFile' = readyFile
        /\ faults' \in 0..MaxFaults
        /\ proc' \in [Noises -> {"none", "warming", "ready", "dead", "killed"}]
    BY <1>0, <2>1, StopFacts, ZenonT(30)
  <2>3. /\ \/ pc' = pc /\ at > 1 /\ at' = at - 1
           \/ pc' \in {"over", "reported"} /\ at' = at
        /\ UNCHANGED <<attempt, signals, probe_done, helperVars, probeVars,
                       answerVars>>
    BY <1>8, Zenon DEF CleanNoise
  <2> QED BY <2>1, <2>2, <2>3
<1>9. CASE Signal
  <2>1. /\ handle' \subseteq Noises /\ readyFile' = readyFile
        /\ faults' = faults
        /\ proc' \in [Noises -> {"none", "warming", "ready", "dead", "killed"}]
    BY Zenon, <1>0, <1>9 DEF Signal, StopInterrupted
  <2>2. signals' \in 0..MaxSignals BY <1>9, CampaignAssumption DEF Signal
  <2>3. /\ probe' \in {probe, "ended"} /\ pc' \in {"finish", "raised", "reported"}
        /\ UNCHANGED <<at, attempt, probe_done, helperVars, warmFile, answerVars>>
    BY Zenon, <1>9 DEF Signal
  <2> QED BY <2>1, <2>2, <2>3
<1> QED BY Zenon, <1>1, <1>2, <1>3, <1>4, <1>5, <1>6, <1>7, <1>8, <1>9 DEF Runner

\* The steps that are neither the runner's nor a signal.
Elsewhere ==
    \/ Helper \/ Probe \/ TimePasses
    \/ \E w \in Noises : NoiseWarms(w) \/ NoiseExits(w)

\* No step of the helper, the probe or a workload moves the runner.
LEMMA RunnerWaits == Elsewhere => UNCHANGED runnerVars
<1>1. Helper => UNCHANGED runnerVars
  BY Zenon DEF Helper, wait_for_camera_warmup, SpawnNoise, PollNoise, LookForReady,
       ReadyTimeout, AbortNoise, CheckProbe, PublishGate, publish_error
<1>2. Probe \/ TimePasses => UNCHANGED runnerVars
  BY Zenon DEF Probe, PublishWarmupReady, wait_for_measurement_gate, ProbeEnds, TimePasses
<1> QED BY Zenon, <1>1, <1>2 DEF Elsewhere, NoiseWarms, NoiseExits

\* Every step keeps the types.
LEMMA TypesKept == TypeOK /\ [Next]_vars => TypeOK'
<1> SUFFICES ASSUME TypeOK, [Next]_vars PROVE TypeOK' BY Zenon
<1> USE DEF runnerVars, helperVars, suiteVars, probeVars, answerVars
<1>1. CASE Helper BY Zenon, <1>1, HelperTypes
<1>2. CASE Runner \/ Signal BY Zenon, <1>2, RunnerTypes
<1>3. CASE Probe
  BY <1>3, ZenonT(60) DEF TypeOK, Probe, PublishWarmupReady, wait_for_measurement_gate,
                     ProbeEnds
<1>4. CASE TimePasses BY <1>4, ZenonT(60) DEF TypeOK, TimePasses
<1>5. ASSUME NEW w \in Noises, NoiseWarms(w) \/ NoiseExits(w) PROVE TypeOK'
  BY <1>5 DEF TypeOK, NoiseWarms, NoiseExits
<1>6. CASE UNCHANGED vars BY <1>6 DEF TypeOK, vars
<1> QED BY Zenon, <1>1, <1>2, <1>3, <1>4, <1>5, <1>6 DEF Next

\* Only a spawn adds a process that runs.
LEMMA AliveShrinks ==
    ASSUME TypeOK, [Next]_vars, ~SpawnNoise
    PROVE  Alive' \subseteq Alive
<1> USE WorkloadFacts
<1> USE DEF suiteVars
<1>0. Workloads[k] \in Noises /\ (at > 0 => Workloads[at] \in Noises)
  BY DEF TypeOK
<1>1. CASE Helper
  <2>1. CASE UNCHANGED proc BY Zenon, <2>1 DEF Alive
  <2>2. CASE StopReturns(Workloads[k]) \/ StopRaises(Workloads[k], TRUE)
    BY Zenon, <2>2, <1>0, StopFacts
  <2> QED BY <1>1, <2>1, <2>2, Zenon DEF Helper, wait_for_camera_warmup, PollNoise,
        LookForReady, ReadyTimeout, AbortNoise, CheckProbe, PublishGate, publish_error
<1>2. CASE Runner
  <2>1. CASE UNCHANGED proc BY Zenon, <2>1 DEF Alive
  <2>2. CASE StopNoise \/ CleanNoise
    <3>1. \E r \in BOOLEAN :
          StopReturns(Workloads[at]) \/ StopRaises(Workloads[at], r)
      BY <2>2, Zenon DEF StopNoise, CleanNoise
    <3>2. at > 0 BY Zenon, <2>2 DEF TypeOK, StopNoise, CleanNoise
    <3> QED BY Zenon, <3>1, <3>2, <1>0, StopFacts
  <2> QED BY <1>2, <2>1, <2>2, Zenon DEF Runner, StartAttempt, CommandReturns,
        SetProbeDone, JoinHelper, NextAttempt, Cleanup
<1>3. CASE Signal
  <2>1. CASE UNCHANGED proc BY Zenon, <2>1 DEF Alive
  <2>2. CASE proc' = [proc EXCEPT ![Workloads[at]] = "killed"]
    BY Zenon, <2>2 DEF Alive, Running, TypeOK
  <2> QED BY <1>3, <2>1, <2>2, Zenon DEF Signal, StopInterrupted
<1>4. CASE Probe \/ TimePasses
  BY Zenon, <1>4 DEF Probe, PublishWarmupReady, wait_for_measurement_gate, ProbeEnds,
              TimePasses, Alive
<1>5. ASSUME NEW w \in Noises, NoiseWarms(w) \/ NoiseExits(w)
      PROVE  Alive' \subseteq Alive
  BY Zenon, <1>5 DEF NoiseWarms, NoiseExits, Alive, Running, TypeOK
<1>6. CASE UNCHANGED vars BY Zenon, <1>6 DEF vars, Alive
<1> QED BY Zenon, <1>1, <1>2, <1>3, <1>4, <1>5, <1>6 DEF Next

\* A process that runs keeps its handle, except through an interrupted stop.
LEMMA HandlesKept ==
    ASSUME TypeOK, [Next]_vars, Alive \subseteq handle,
           Signal => UNCHANGED suiteVars
    PROVE  Alive' \subseteq handle'
<1> USE WorkloadFacts
<1>0. Workloads[k] \in Noises /\ (at > 0 => Workloads[at] \in Noises)
  BY DEF TypeOK
<1>1. ASSUME NEW w \in Noises, NEW r \in BOOLEAN,
             StopReturns(w) \/ StopRaises(w, r)
      PROVE  Alive' \subseteq handle'
  BY Zenon, <1>1, StopFacts
<1>2. CASE UNCHANGED <<proc, handle>> BY Zenon, <1>2 DEF Alive
<1>3. CASE SpawnNoise BY Zenon, <1>0, <1>3 DEF SpawnNoise, Alive, Running, TypeOK, suiteVars
<1>4. CASE PollNoise BY Zenon, <1>0, <1>4 DEF PollNoise, Alive
<1>5. CASE ReadyTimeout \/ AbortNoise
  <2>1. StopReturns(Workloads[k]) \/ StopRaises(Workloads[k], TRUE)
    BY <1>5, Zenon DEF ReadyTimeout, AbortNoise
  <2> QED BY Zenon, <2>1, <1>0, <1>1
<1>6. CASE StopNoise \/ CleanNoise
  <2>1. \E r \in BOOLEAN :
          StopReturns(Workloads[at]) \/ StopRaises(Workloads[at], r)
    BY <1>6, Zenon DEF StopNoise, CleanNoise
  <2>2. at > 0 BY Zenon, <1>6 DEF TypeOK, StopNoise, CleanNoise
  <2> QED BY Zenon, <2>1, <2>2, <1>0, <1>1
<1>7. CASE Signal BY Zenon, <1>7, <1>2 DEF suiteVars
<1>8. ASSUME NEW w \in Noises, NoiseWarms(w) \/ NoiseExits(w)
      PROVE  Alive' \subseteq handle'
  BY Zenon, <1>8 DEF NoiseWarms, NoiseExits, Alive, Running, TypeOK
<1>9. CASE Probe \/ TimePasses
  BY Zenon, <1>9, <1>2 DEF Probe, PublishWarmupReady, wait_for_measurement_gate, ProbeEnds,
       TimePasses, suiteVars
<1>10. CASE Helper \/ Runner
  BY <1>10, <1>2, <1>3, <1>4, <1>5, <1>6, Zenon
     DEF Helper, Runner, suiteVars, wait_for_camera_warmup, LookForReady, CheckProbe,
         PublishGate, publish_error, StartAttempt, CommandReturns, SetProbeDone,
         JoinHelper, NextAttempt, Cleanup
<1>11. CASE UNCHANGED vars BY Zenon, <1>2, <1>11 DEF vars, suiteVars
<1> QED BY Zenon, <1>7, <1>8, <1>9, <1>10, <1>11 DEF Next

\* No step separates the places of the runner, the helper and the probe that go
\* together: finish joins the helper, and an interrupt before the join is a signal.
LEMMA PlacesKept == TypeOK /\ PlacesAgree /\ [Next]_vars => PlacesAgree'
<1> SUFFICES ASSUME TypeOK, PlacesAgree, [Next]_vars PROVE PlacesAgree' BY Zenon
<1> USE DEF PlacesAgree, runnerVars, helperVars, probeVars, answerVars
<1>1. CASE Helper
  <2> USE DEF HelperAt, Abort
  <2>1. CASE wait_for_camera_warmup
    BY <1>1, <2>1, Zenon DEF wait_for_camera_warmup
  <2>2. CASE SpawnNoise BY Zenon, <2>2 DEF SpawnNoise
  <2>3. CASE PollNoise BY Zenon, <2>3 DEF PollNoise
  <2>4. CASE LookForReady BY Zenon, <2>4 DEF LookForReady
  <2>5. CASE ReadyTimeout BY Zenon, <2>5 DEF ReadyTimeout
  <2>6. CASE AbortNoise BY Zenon, <2>6 DEF AbortNoise
  <2>7. CASE CheckProbe BY Zenon, <2>7 DEF CheckProbe
  <2>8. CASE PublishGate BY <2>8 DEF PublishGate
  <2>9. CASE publish_error BY Zenon, <2>9 DEF publish_error
  <2> QED BY Zenon, <1>1, <2>1, <2>2, <2>3, <2>4, <2>5, <2>6, <2>7, <2>8, <2>9 DEF Helper
<1>2. CASE Runner
  <2>1. CASE StartAttempt BY Zenon, <2>1 DEF StartAttempt
  <2>2. CASE CommandReturns BY Zenon, <2>2 DEF CommandReturns
  <2>3. CASE SetProbeDone BY Zenon, <2>3 DEF SetProbeDone
  <2>4. CASE JoinHelper BY Zenon, <2>4 DEF JoinHelper
  <2>5. CASE StopNoise BY Zenon, <2>5 DEF StopNoise
  <2>6. CASE NextAttempt BY Zenon, <2>6 DEF NextAttempt
  <2>7. CASE Cleanup BY Zenon, <2>7 DEF Cleanup
  <2>8. CASE CleanNoise BY Zenon, <2>8 DEF CleanNoise
  <2> QED BY Zenon, <1>2, <2>1, <2>2, <2>3, <2>4, <2>5, <2>6, <2>7, <2>8 DEF Runner
<1>3. CASE Signal
  <2>1. signals' # 0 BY <1>3 DEF Signal, TypeOK
  <2> QED BY Zenon, <1>3, <2>1 DEF Signal
<1>4. CASE Probe
  BY <1>4 DEF Probe, PublishWarmupReady, wait_for_measurement_gate, ProbeEnds
<1>5. CASE TimePasses BY Zenon, <1>5 DEF TimePasses
<1>6. ASSUME NEW w \in Noises, NoiseWarms(w) \/ NoiseExits(w) PROVE PlacesAgree'
  BY <1>6 DEF NoiseWarms, NoiseExits
<1>7. CASE UNCHANGED vars BY Zenon, <1>7 DEF vars
<1> QED BY Zenon, <1>1, <1>2, <1>3, <1>4, <1>5, <1>6, <1>7 DEF Next

\* While the command runs, only the helper touches the handles, and start_all
\* has started every workload before its place.
LEMMA OrderKept ==
    TypeOK /\ PlacesAgree /\ StartedInOrder /\ [Next]_vars => StartedInOrder'
<1> SUFFICES ASSUME TypeOK, PlacesAgree, StartedInOrder, [Next]_vars,
                    pc' = "probing"
             PROVE  StartedInOrder'
  BY Zenon DEF StartedInOrder
<1> USE WorkloadFacts
<1> USE DEF StartedInOrder, Started, runnerVars, helperVars, suiteVars, probeVars,
            answerVars
<1>0. k \in 1..Count /\ Workloads[k] \in Noises BY Zenon DEF TypeOK
<1>1. CASE Helper
  <2>0. pc = "probing" BY Zenon, <1>1, RunnerWaits DEF Elsewhere
  <2> USE DEF HelperAt, Abort
  <2>1. CASE wait_for_camera_warmup
    BY <2>0, <2>1 DEF wait_for_camera_warmup
  <2>2. CASE SpawnNoise BY Zenon, <1>0, <2>0, <2>2 DEF SpawnNoise
  <2>3. CASE PollNoise BY Zenon, <1>0, <2>0, <2>3 DEF PollNoise
  <2>4. CASE LookForReady
    <3>1. /\ helper' \in {"poll", "abort"} \/ Workloads[k] \in readyFile
          /\ helper = "look" /\ UNCHANGED <<handle, readyFile, gateFile>>
      BY Zenon, <2>4 DEF LookForReady
    <3>2. \/ helper' = "poll" /\ k' = k
          \/ helper' = "spawn" /\ k < Count /\ k' = k + 1
          \/ helper' = "check" /\ ~(k < Count)
          \/ helper' = "abort"
      BY <2>4, Zenon DEF LookForReady
    <3> QED BY <1>0, <2>0, <3>1, <3>2
  <2>5. CASE ReadyTimeout BY Zenon, <2>0, <2>5 DEF ReadyTimeout
  <2>6. CASE AbortNoise BY Zenon, <2>0, <2>6 DEF AbortNoise
  <2>7. CASE CheckProbe BY Zenon, <2>0, <2>7 DEF CheckProbe
  <2>8. CASE PublishGate BY Zenon, <2>0, <2>8 DEF PublishGate
  <2>9. CASE publish_error BY Zenon, <2>0, <2>9 DEF publish_error
  <2> QED BY Zenon, <1>1, <2>1, <2>2, <2>3, <2>4, <2>5, <2>6, <2>7, <2>8, <2>9 DEF Helper
<1>2. CASE Runner
  <2>1. StartAttempt
    BY Zenon, <1>2 DEF Runner, CommandReturns, SetProbeDone, JoinHelper, StopNoise,
                NextAttempt, Cleanup, CleanNoise
  <2>2. helper' = "waiting" /\ ~gateFile'
    BY Zenon, <2>1 DEF StartAttempt, PlacesAgree
  <2> QED BY Zenon, <2>2
<1>3. CASE Signal BY Zenon, <1>3 DEF Signal
<1>4. CASE Probe
  BY <1>4 DEF Probe, PublishWarmupReady, wait_for_measurement_gate, ProbeEnds
<1>5. CASE TimePasses BY Zenon, <1>5 DEF TimePasses
<1>6. ASSUME NEW w \in Noises, NoiseWarms(w) \/ NoiseExits(w) PROVE StartedInOrder'
  BY <1>6 DEF NoiseWarms, NoiseExits
<1>7. CASE UNCHANGED vars BY Zenon, <1>7 DEF vars
<1> QED BY Zenon, <1>1, <1>2, <1>3, <1>4, <1>5, <1>6, <1>7 DEF Next

\* One step of a stop_all that nobody works against.
LEMMA Swept ==
    ASSUME TypeOK, at > 0, Alive \subseteq handle,
           \A i \in (at + 1)..Count : Workloads[i] \notin Alive,
           NEW r \in BOOLEAN,
           StopReturns(Workloads[at]) \/ StopRaises(Workloads[at], r)
    PROVE  /\ \A i \in at..Count : Workloads[i] \notin Alive'
           /\ at = 1 => Alive' = {}
<1>0. at \in 1..Count /\ Workloads[at] \in Noises BY WorkloadFacts DEF TypeOK
<1>1. Alive' \subseteq Alive /\ Workloads[at] \notin Alive' BY Zenon, <1>0, StopFacts
<1>2. \A i \in at..Count : Workloads[i] \notin Alive' BY <1>0, <1>1, WorkloadFacts
<1>3. Alive' \subseteq Noises BY Zenon DEF Alive
<1> QED BY <1>2, <1>3, WorkloadFacts

\* Both stop_all of the runner work alone: the helper has ended, or was never
\* started, unless a signal cut the join short.
LEMMA SweepKept ==
    TypeOK /\ PlacesAgree /\ StoppedFromTheEnd /\ [Next]_vars => StoppedFromTheEnd'
<1> SUFFICES ASSUME TypeOK, PlacesAgree, StoppedFromTheEnd, [Next]_vars
             PROVE  StoppedFromTheEnd'
  BY Zenon
<1> USE WorkloadFacts
<1>1. CASE Elsewhere \/ UNCHANGED vars
  <2>1. UNCHANGED runnerVars BY Zenon, <1>1, RunnerWaits DEF vars
  <2>2. Alive \subseteq handle => Alive' \subseteq handle'
    <3>1. Signal => signals' # signals BY DEF Signal, TypeOK
    <3> QED BY Zenon, <2>1, <3>1, HandlesKept DEF runnerVars
  <2>3. helper # "spawn" => Alive' \subseteq Alive
    BY Zenon, AliveShrinks DEF SpawnNoise, HelperAt
  <2> QED BY Zenon, <2>1, <2>2, <2>3 DEF StoppedFromTheEnd, PlacesAgree, runnerVars, Ends
<1>2. CASE Runner
  <2> USE DEF StoppedFromTheEnd, Ends, suiteVars, Alive
  <2>1. CASE StartAttempt BY Zenon, <2>1 DEF StartAttempt
  <2>2. CASE CommandReturns BY Zenon, <2>2 DEF CommandReturns
  <2>3. CASE SetProbeDone BY Zenon, <2>3 DEF SetProbeDone
  <2>4. CASE JoinHelper BY <2>4 DEF JoinHelper, TypeOK
  <2>5. CASE StopNoise
    <3> HIDE DEF Alive
    <3>1. /\ pc = "stopping" /\ signals' = signals
          /\ StopReturns(Workloads[at]) \/ StopRaises(Workloads[at], TRUE)
          /\ \/ pc' = pc /\ at > 1 /\ at' = at - 1
             \/ pc' = "returned" /\ at' = at /\ ~(at > 1)
             \/ pc' = "raised" /\ at' = at
      BY <2>5, Zenon DEF StopNoise
    <3>2. at \in 1..Count BY <3>1 DEF TypeOK
    <3>3. /\ \A i \in at..Count : Workloads[i] \notin Alive'
          /\ at = 1 => Alive' = {}
      <4>1. /\ at > 0 /\ Alive \subseteq handle
            /\ \A i \in (at + 1)..Count : Workloads[i] \notin Alive
        BY <3>1, <3>2
      <4> QED BY <3>1, <4>1, Swept, Zenon
    <3>4. Alive' \subseteq handle'
      <4>1. Signal => signals' # signals BY DEF Signal, TypeOK
      <4> QED BY Zenon, <3>1, <4>1, HandlesKept
    <3> QED BY <3>1, <3>2, <3>3, <3>4
  <2>6. CASE NextAttempt BY Zenon, <2>6 DEF NextAttempt
  <2>7. CASE Cleanup BY <2>7 DEF Cleanup, TypeOK
  <2>8. CASE CleanNoise
    <3> HIDE DEF Alive
    <3>1. /\ pc = "cleaning" /\ signals' = signals
          /\ StopReturns(Workloads[at]) \/ StopRaises(Workloads[at], FALSE)
          /\ \/ pc' = pc /\ at > 1 /\ at' = at - 1
             \/ pc' \in Ends /\ at' = at
      BY <2>8, Zenon DEF CleanNoise
    <3>2. at \in 1..Count BY <3>1 DEF TypeOK
    <3>3. signals = 0 => \A i \in at..Count : Workloads[i] \notin Alive'
      <4>1. signals = 0 =>
              /\ at > 0 /\ Alive \subseteq handle
              /\ \A i \in (at + 1)..Count : Workloads[i] \notin Alive
        BY <3>1, <3>2
      <4> QED BY <3>1, <4>1, Swept, Zenon
    <3>4. signals = 0 => Alive' \subseteq handle'
      <4>1. Signal => signals' # signals BY DEF Signal, TypeOK
      <4> QED BY Zenon, <3>1, <4>1, HandlesKept
    <3> QED BY <3>1, <3>2, <3>3, <3>4
  <2> QED BY Zenon, <1>2, <2>1, <2>2, <2>3, <2>4, <2>5, <2>6, <2>7, <2>8 DEF Runner
<1>3. CASE Signal
  <2>1. signals' # 0 BY <1>3 DEF Signal, TypeOK
  <2>2. \/ pc = "probing" /\ pc' = "finish" /\ UNCHANGED suiteVars
        \/ pc' \in {"raised", "reported"}
    BY Zenon, <1>3 DEF Signal
  <2> QED BY Zenon, <2>1, <2>2 DEF StoppedFromTheEnd, Ends, suiteVars, Alive
<1> QED BY Zenon, <1>1, <1>2, <1>3 DEF Next, Elsewhere

\* An attempt starts in silence, and nothing is spawned before the probe has said
\* that its cameras are warm.
LEMMA WarmingKept ==
    TypeOK /\ PlacesAgree /\ StoppedFromTheEnd /\ NoNoiseWhileWarming /\ [Next]_vars
      => NoNoiseWhileWarming'
<1> SUFFICES ASSUME TypeOK, PlacesAgree, StoppedFromTheEnd, NoNoiseWhileWarming,
                    [Next]_vars, probe' = "warming"
             PROVE  Alive' = {}
  BY Zenon DEF NoNoiseWhileWarming
<1>1. CASE StartAttempt
  BY Zenon, <1>1 DEF StartAttempt, StoppedFromTheEnd, suiteVars, Alive
<1>2. CASE ~StartAttempt
  <2>1. probe = "warming"
    <3>1. CASE Helper
      BY <3>1, Zenon DEF Helper, wait_for_camera_warmup, SpawnNoise, PollNoise,
         LookForReady, ReadyTimeout, AbortNoise, CheckProbe, PublishGate,
         publish_error, probeVars
    <3>2. CASE Runner
      BY Zenon, <1>2, <3>2 DEF Runner, CommandReturns, SetProbeDone, JoinHelper, StopNoise,
         NextAttempt, Cleanup, CleanNoise, probeVars
    <3>3. CASE Signal BY Zenon, <3>3 DEF Signal
    <3>4. CASE ~(Helper \/ Runner \/ Signal)
      BY Zenon, <3>4 DEF Next, vars, Probe, PublishWarmupReady, wait_for_measurement_gate,
         ProbeEnds, TimePasses, NoiseWarms, NoiseExits, probeVars
    <3> QED BY Zenon, <3>1, <3>2, <3>3, <3>4
  <2>2. ~SpawnNoise BY Zenon, <2>1 DEF PlacesAgree, SpawnNoise, HelperAt
  <2> QED BY Zenon, <2>1, <2>2, AliveShrinks DEF NoNoiseWhileWarming
<1> QED BY Zenon, <1>1, <1>2

\* The stop_all of cleanup reaches every workload when it returns.
LEMMA CleanKept ==
    TypeOK /\ PlacesAgree /\ StoppedFromTheEnd /\ NoNoiseLeft /\ [Next]_vars
      => NoNoiseLeft'
<1> SUFFICES ASSUME TypeOK, PlacesAgree, StoppedFromTheEnd, NoNoiseLeft,
                    [Next]_vars, pc' = "over", signals' = 0
             PROVE  Alive' = {}
  BY Zenon DEF NoNoiseLeft
<1>1. CASE CleanNoise
  <2>1. /\ pc = "cleaning" /\ signals = 0 /\ ~(at > 1)
        /\ StopReturns(Workloads[at])
    BY Zenon, <1>1 DEF CleanNoise
  <2>2. at = 1 /\ at > 0 BY <2>1 DEF TypeOK
  <2>3. /\ Alive \subseteq handle
        /\ \A i \in (at + 1)..Count : Workloads[i] \notin Alive
    BY Zenon, <2>1 DEF StoppedFromTheEnd
  <2> QED BY <2>1, <2>2, <2>3, Swept, Zenon
<1>2. CASE ~CleanNoise
  <2>1. pc = "over" /\ signals = 0
    <3>1. CASE Runner
      BY Zenon, <1>2, <3>1 DEF Runner, StartAttempt, CommandReturns, SetProbeDone, JoinHelper,
         StopNoise, NextAttempt, Cleanup
    <3>2. CASE Signal BY Zenon, <3>2 DEF Signal
    <3>3. CASE Elsewhere \/ UNCHANGED vars
      BY Zenon, <3>3, RunnerWaits DEF runnerVars, vars
    <3> QED BY Zenon, <3>1, <3>2, <3>3 DEF Next, Elsewhere
  <2>2. ~SpawnNoise BY Zenon, <2>1 DEF SpawnNoise, HelperAt, Ends
  <2> QED BY Zenon, <2>1, <2>2, AliveShrinks DEF NoNoiseLeft
<1> QED BY Zenon, <1>1, <1>2

\* The invariant of the campaign, for any list of distinct workloads and any
\* numbers of attempts, of stops that raise and of signals.
THEOREM Invariance == Spec => []IInv
<1>1. Init => IInv
  <2> SUFFICES ASSUME Init PROVE IInv BY Zenon
  <2>1. Alive = {} BY Zenon DEF Init, Alive, Running
  <2>2. PlacesAgree /\ StartedInOrder BY Zenon DEF Init, PlacesAgree, StartedInOrder
  <2>3. StoppedFromTheEnd /\ NoNoiseWhileWarming /\ NoNoiseLeft
    BY Zenon, <2>1 DEF Init, StoppedFromTheEnd, NoNoiseWhileWarming, NoNoiseLeft
  <2> QED BY Zenon, <2>2, <2>3, TypesAtFirst DEF IInv
<1>2. IInv /\ [Next]_vars => IInv'
  BY Zenon, TypesKept, PlacesKept, OrderKept, SweepKept, WarmingKept, CleanKept DEF IInv
<1> QED BY <1>1, <1>2, PTL DEF Spec

\* No camera warms up under noise, whatever became of the attempts before
\* (steady_benchmark.py, _run_attempt).
THEOREM WarmupIsQuiet == Spec => []NoNoiseWhileWarming
<1>1. IInv => NoNoiseWhileWarming BY Zenon DEF IInv
<1> QED BY <1>1, Invariance, PTL

\* The gate opens on every workload, and none is stopped while the probe
\* measures (noise_transition.py, _run).
THEOREM MeasurementIsLoud == Spec => []MeasuredUnderNoise
<1>1. IInv => MeasuredUnderNoise
  <2> SUFFICES ASSUME IInv, probe = "measuring"
               PROVE  Noises = readyFile /\ Noises = handle
    BY Zenon DEF MeasuredUnderNoise
  <2>1. pc = "probing" /\ gateFile BY Zenon DEF IInv, PlacesAgree
  <2>2. \A i \in 1..Count : Started(i) BY Zenon, <2>1 DEF IInv, StartedInOrder
  <2>3. handle \subseteq Noises /\ readyFile \subseteq Noises BY Zenon DEF IInv, TypeOK
  <2> QED BY <2>2, <2>3, WorkloadFacts DEF Started
<1> QED BY <1>1, Invariance, PTL

\* A campaign that ends without a signal and without a failed clean-up leaves no
\* workload running (steady_benchmark.py, cleanup).
THEOREM CampaignEndsQuiet == Spec => []NoNoiseLeft
<1>1. IInv => NoNoiseLeft BY Zenon DEF IInv
<1> QED BY <1>1, Invariance, PTL
==============================================================================
