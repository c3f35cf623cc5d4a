---------------------------- MODULE HardwareSync ----------------------------
(***************************************************************************)
(* hardware_sync_session, src/src/hardware_sync.cpp: the constructor sets  *)
(* the Inter Cam Sync Mode of every camera, receivers first; restore puts  *)
(* the previous modes back, source first.  The probe calls restore once,   *)
(* the destructor once more; a failing constructor calls it too.           *)
(*                                                                         *)
(* The devices are external.  Any call on them may throw, a write may be   *)
(* ignored, and a write that throws may have taken effect; a read returns  *)
(* the mode the device is in.  A write and the read that follows it are    *)
(* one step: nobody else uses the option.                                  *)
(***************************************************************************)
EXTENDS Integers, Sequences

CONSTANTS Master, Slaves, Modes

master_mode == 1
slave_mode == 2

\* The roles parse_args lets through when synchronisation is requested.
ASSUME RolesAssumption ==
    /\ Slaves \in Seq({Slaves[i] : i \in DOMAIN Slaves}) /\ Slaves # <<>>
    /\ \A i, j \in DOMAIN Slaves : Slaves[i] = Slaves[j] => i = j
    /\ \A i \in DOMAIN Slaves : Slaves[i] # Master
    /\ {0, master_mode, slave_mode} \subseteq Modes

\* Faulty variant: the pulse source is the first to be configured.
MasterFirst == <<Master>> \o Slaves

\* _assignments, in the order they are pushed.
Assignments == Append(Slaves, Master)
Size == Len(Assignments)
Cameras == {Assignments[i] : i \in 1..Size}
requested_mode(c) == IF c = Master THEN master_mode ELSE slave_mode

VARIABLES
    owner,      \* where the owner of the session is
    next,       \* the assignment the current loop is at
    previous,   \* assignment.previous_mode
    applied,    \* the cameras with assignment.applied
    restored,   \* the cameras with assignment.restored
    errors,     \* the cameras with a restore_error
    attempted,  \* _restore_attempted
    mode,       \* the devices
    initial     \* history: their modes before the session

session == <<owner, next, previous, applied, restored, errors, attempted>>
syncVars == <<session, mode, initial>>

Restoring == {"rollback", "restore", "unwind"}
Ended == {"thrown", "destroyed"}
Pcs == {"make", "configure", "live", "report"} \cup Restoring \cup Ended

SyncInit ==
    /\ owner = "make" /\ next = 1
    /\ initial \in [Cameras -> Modes] /\ mode = initial
    /\ previous = [c \in Cameras |-> 0]
    /\ applied = {} /\ restored = {} /\ errors = {} /\ attempted = FALSE

\* What a write of m to camera c leaves behind.
Write(c, m) == \E now \in {mode[c], m} : mode' = [mode EXCEPT ![c] = now]

\* make_assignment: find the camera and its sensor, read its mode.  A camera
\* that is missing, ambiguous, read-only or silent ends the constructor.
make_assignment ==
    /\ owner = "make"
    /\ LET c == Assignments[next] IN
         \/ /\ previous' = [previous EXCEPT ![c] = mode[c]]
            /\ IF next = Size THEN owner' = "configure" /\ next' = 1
                              ELSE owner' = owner /\ next' = next + 1
         \/ owner' = "thrown" /\ UNCHANGED <<previous, next>>
    /\ UNCHANGED <<applied, restored, errors, attempted, mode, initial>>

\* Faulty variant: a refusal ends the constructor without restore().
ConfigureWithoutRollback ==
    /\ owner = "configure"
    /\ LET c == Assignments[next] IN
         /\ Write(c, requested_mode(c))
         /\ \/ /\ mode'[c] = requested_mode(c)
               /\ applied' = applied \cup {c}
               /\ IF next = Size THEN owner' = "live" /\ next' = next
                                 ELSE owner' = owner /\ next' = next + 1
            \/ owner' = "thrown" /\ UNCHANGED <<applied, next>>
    /\ UNCHANGED <<previous, restored, errors, attempted, initial>>

\* restore() starts with the assignment pushed last.
BeginRestore == next' = Size /\ attempted' = TRUE

\* One round of the configuration loop.  A call that throws, or a mode read
\* back that is not the requested one, goes to the handler, which calls
\* restore for all assignments.
configure ==
    /\ owner = "configure"
    /\ LET c == Assignments[next] IN
         /\ Write(c, requested_mode(c))
         /\ \/ /\ mode'[c] = requested_mode(c)
               /\ applied' = applied \cup {c}
               /\ IF next = Size THEN owner' = "live" /\ next' = next
                                 ELSE owner' = owner /\ next' = next + 1
               /\ UNCHANGED attempted
            \/ owner' = "rollback" /\ BeginRestore /\ UNCHANGED applied
    /\ UNCHANGED <<previous, restored, errors, initial>>

\* The head of restore(): a second call does nothing.
restore ==
    /\ owner = "live"
    /\ ~attempted
    /\ owner' = "restore" /\ BeginRestore
    /\ UNCHANGED <<previous, applied, restored, errors, mode, initial>>

\* One round of restore()'s loop, from the last assignment to the first.  It
\* goes on to the next camera whatever this one does.
restore_assignment ==
    /\ owner \in Restoring
    /\ LET c == Assignments[next] IN
         /\ Write(c, previous[c])
         /\ \/ /\ mode'[c] = previous[c]
               /\ restored' = restored \cup {c} /\ UNCHANGED errors
            \/ errors' = errors \cup {c} /\ UNCHANGED restored
    /\ IF next = 1
         THEN /\ owner' = CASE owner = "rollback" -> "thrown"
                        [] owner = "restore" -> "report"
                        [] owner = "unwind" -> "destroyed"
              /\ UNCHANGED next
         ELSE owner' = owner /\ next' = next - 1
    /\ UNCHANGED <<previous, applied, attempted, initial>>

\* The destructor, after the report or while main unwinds.
destructor ==
    /\ owner \in {"live", "report"}
    /\ IF attempted THEN owner' = "destroyed" /\ UNCHANGED <<next, attempted>>
                    ELSE owner' = "unwind" /\ BeginRestore
    /\ UNCHANGED <<previous, applied, restored, errors, mode, initial>>

Terminated == owner \in Ended /\ UNCHANGED syncVars

SyncNext ==
    \/ make_assignment \/ configure \/ restore \/ restore_assignment
    \/ destructor \/ Terminated

SyncSpec == SyncInit /\ [][SyncNext]_syncVars

-----------------------------------------------------------------------------
SyncTypeOK ==
    /\ owner \in Pcs /\ next \in 1..Size /\ attempted \in BOOLEAN
    /\ {previous, mode, initial} \subseteq [Cameras -> Modes]
    /\ {applied, restored, errors} \subseteq SUBSET Cameras

\* The cameras restore() has dealt with.
Handled == restored \cup errors

\* Once the session is over, or restore() has returned to main, a camera
\* whose mode is not the one it had before is one restore() has an error for;
\* and the report calls a camera restored exactly if there is no such error.
RolledBack ==
    /\ owner \in Ended \cup {"report"} =>
         \A c \in Cameras : mode[c] # initial[c] => c \in errors
    /\ owner = "report" => errors = Cameras \ restored

\* A session that was constructed has every camera in its role's mode.
LiveMeansConfigured ==
    owner = "live" => \A c \in Cameras : mode[c] = requested_mode(c)

\* "Configure receivers before enabling the pulse source", "disable the pulse
\* source before changing receivers back": no receiver changes its mode while
\* the source is in a mode this session gave it, unless restore() has already
\* tried to put the source back.
SourceOffFirst ==
    [][(\E c \in Cameras \ {Master} : mode'[c] # mode[c]) =>
         (mode[Master] = initial[Master] \/ Master \in Handled)]_syncVars

\* What the report says of the modes stays true: once restore() has dealt with
\* every camera nothing, not even the destructor, writes to a camera again.
QuietAfterRestore == [][Handled = Cameras => mode' = mode]_syncVars

\* The inductive invariant: what each loop has done up to its position.
Before(i) == {Assignments[j] : j \in 1..(i - 1)}
After(i) == {Assignments[j] : j \in (i + 1)..Size}
SyncInv ==
    /\ SyncTypeOK
    /\ owner # "thrown" =>
         (attempted <=> owner \in Restoring \cup {"report", "destroyed"})
    /\ owner = "make" => /\ mode = initial
                      /\ \A c \in Before(next) : previous[c] = initial[c]
    /\ owner \notin {"make", "thrown"} => previous = initial
    /\ owner = "configure" =>
         /\ \A c \in Before(next) : mode[c] = requested_mode(c)
         /\ \A c \in Cameras \ Before(next) : mode[c] = initial[c]
    /\ owner = "live" => \A c \in Cameras : mode[c] = requested_mode(c)
    /\ owner \in Restoring => Handled = After(next)
    /\ owner \in {"make", "configure", "live"} => Handled = {}
    /\ owner \in {"report", "destroyed"} => Handled = Cameras
    /\ restored \cap errors = {}
    /\ \A c \in restored : mode[c] = initial[c]
    /\ owner = "thrown" => \A c \in Cameras : mode[c] # initial[c] => c \in errors
=============================================================================
