--------------------------- MODULE SystemControls ---------------------------
(***************************************************************************)
(* The host-wide controls of a campaign: SystemControls of                 *)
(* realsense_bench_common/system_controls.py with its CpuIsolation         *)
(* (cpu_isolation.py) and cache hook (memory.py), driven by the logical    *)
(* runs and attempts of steady_benchmark.py and cleaned up by              *)
(* run_with_cleanup of run_steady_campaign.py.                             *)
(*                                                                         *)
(* host is the machine: what is written under /sys and /proc.  own is what *)
(* the Python objects remember of it.  Every privileged command may fail,  *)
(* a script may fail half way.  A signal (KeyboardInterrupt) may arrive    *)
(* once: between any two steps, or between the effect of a command and     *)
(* the assignment that notes it.                                           *)
(***************************************************************************)
EXTENDS Integers, FiniteSets

CONSTANTS
    Devices,   \* rsusb_usb_devices: the cameras found in sysfs
    Irqs,      \* the xHCI interrupts of the cameras
    Policies,  \* the cpufreq policies
    Isolation, \* cpu_isolation_enabled
    Rsusb,     \* rsusb_backend, with rsusb_prepare_each_attempt
    Runs,      \* bound: logical runs of the campaign
    Attempts   \* --max-attempts-per-run

ASSUME ControlsAssumption ==
    /\ IsFiniteSet(Devices) /\ IsFiniteSet(Irqs) /\ IsFiniteSet(Policies)
    /\ {Isolation, Rsusb} \subseteq BOOLEAN
    /\ Runs \in Nat \ {0} /\ Attempts \in Nat \ {0}
    /\ {"process", "cgroup", "controller", "frequency", "binding"} \cap Irqs = {}

VARIABLES
    host, own, step,
    todo,          \* what the loop in progress has still to visit
    logical_run, run_attempt,
    undoing,       \* who called CpuIsolation.restore
    failed,        \* the step at which the campaign failed, or "no"
    named,         \* what an error raised by a restore names
    signal         \* whether it arrived, and whether it cut a restore short

controlVars == <<host, own, step, todo, logical_run, run_attempt, undoing,
                 failed, named, signal>>

Hosts ==
    [bound    : SUBSET Devices,         \* driven by uvcvideo
     awake    : SUBSET Devices,         \* power/control is on
     freq     : [Policies -> {"original", "locked", "other"}],
     subtree  : BOOLEAN,                \* cpuset is in cgroup.subtree_control
     cgroup   : {"none", "member", "isolated"},
     inside   : BOOLEAN,                \* the process is in the cgroup
     affinity : [Irqs -> {"original", "housekeeping", "other"}],
     had      : BOOLEAN]                \* history: subtree before

Memories ==
    [unbound : BOOLEAN, needed : BOOLEAN, locked : BOOLEAN,
     enabled : BOOLEAN, created : BOOLEAN, moved : BOOLEAN, active : BOOLEAN,
     originals : SUBSET Irqs]

RunningSteps == {"isolate", "controller", "mkdir", "partition", "irqs",
                 "check", "lock", "power", "verify", "unbind",
                 "attempt_power", "caches", "probe", "after"}
RestoringSteps == {"process", "affinities", "controller_off"}

ControlsTypeOK ==
    /\ host \in Hosts /\ own \in Memories
    /\ step \in RunningSteps \cup RestoringSteps \cup {"rebind", "unlock", "over"}
    /\ todo \subseteq Devices \cup Irqs
    /\ logical_run \in 1..Runs /\ run_attempt \in 1..Attempts
    /\ undoing \in {"prepare", "cleanup"}
    /\ failed \in RunningSteps \cup RestoringSteps \cup {"no"}
    /\ named \subseteq {"process", "cgroup", "controller", "frequency", "binding"}
                       \cup Irqs
    /\ signal \in {"none", "taken", "cut"}

\* SystemControls.__init__ and CpuIsolation.__init__.
ControlsInit ==
    /\ \E had \in BOOLEAN :
         host = [bound |-> Devices, awake |-> {},
                 freq |-> [p \in Policies |-> "original"], subtree |-> had,
                 cgroup |-> "none", inside |-> FALSE,
                 affinity |-> [i \in Irqs |-> "original"], had |-> had]
    /\ own = [unbound |-> FALSE, needed |-> FALSE, locked |-> FALSE,
              enabled |-> FALSE, created |-> FALSE, moved |-> FALSE,
              active |-> FALSE, originals |-> {}]
    /\ step = "isolate" /\ todo = {} /\ logical_run = 1 /\ run_attempt = 1
    /\ undoing = "prepare" /\ failed = "no" /\ named = {} /\ signal = "none"

Goto(where, visits) ==
    /\ step' = where /\ todo' = visits
    /\ UNCHANGED <<logical_run, run_attempt, undoing, failed, named, signal>>

\* The campaign fails: run_with_cleanup goes on to cleanup().
Leave ==
    /\ step' = "rebind" /\ todo' = {} /\ failed' = step
    /\ UNCHANGED <<logical_run, run_attempt, undoing, named>>
Raise == Leave /\ UNCHANGED signal
Signalled == signal = "none" /\ signal' = "taken" /\ Leave

-----------------------------------------------------------------------------
\* CpuIsolation.prepare.  An exception inside its try block calls restore().
PrepareFails ==
    /\ step' = "process" /\ todo' = {}
    /\ undoing' = "prepare" /\ failed' = step
    /\ UNCHANGED <<logical_run, run_attempt, named, signal>>

\* The CPU sets, the cgroup files and the interrupts of the cameras may not
\* be what isolation needs; nothing is changed yet.
validate_environment == Raise

prepare ==
    /\ step = "isolate"
    /\ IF Isolation /\ ~own.active
         THEN \/ Goto(IF host.subtree THEN "mkdir" ELSE "controller", {})
              \/ validate_environment
         ELSE Goto("lock", {})
    /\ UNCHANGED <<host, own>>

\* A command with one effect on the host, noted in own when it is back.
Noted(effect, note, where, visits) ==
    \/ host' = effect /\ own' = note /\ Goto(where, visits)
    \/ host' = effect /\ UNCHANGED own /\ Signalled
    \/ PrepareFails /\ UNCHANGED <<host, own>>

enable_controller ==
    /\ step = "controller"
    /\ Noted([host EXCEPT !.subtree = TRUE], [own EXCEPT !.enabled = TRUE],
             "mkdir", {})

make_cgroup ==
    /\ step = "mkdir"
    /\ Noted([host EXCEPT !.cgroup = "member"], [own EXCEPT !.created = TRUE],
             "partition", {})

make_partition ==
    /\ step = "partition"
    /\ Noted([host EXCEPT !.cgroup = "isolated"], own, "irqs", Irqs)

\* Faulty variant: the affinity is remembered once it is changed.
PinThenRemember(i) ==
    /\ step = "irqs" /\ i \in todo
    /\ Noted([host EXCEPT !.affinity[i] = "housekeeping"],
             [own EXCEPT !.originals = @ \cup {i}], "irqs", todo \ {i})

\* The affinity of an interrupt is remembered before it is written.
pin_irq(i) ==
    /\ step = "irqs" /\ i \in todo
    /\ own' = [own EXCEPT !.originals = @ \cup {i}]
    /\ \/ /\ host' = [host EXCEPT !.affinity[i] = "housekeeping"]
          /\ Goto("irqs", todo \ {i}) \/ Signalled
       \/ PrepareFails /\ UNCHANGED host

move_process ==
    /\ step = "irqs" /\ todo = {}
    /\ Noted([host EXCEPT !.inside = TRUE], [own EXCEPT !.moved = TRUE],
             "check", {})

\* The CPUs the kernel reports are compared, _active is set, verify() follows.
check_isolation ==
    /\ step = "check" /\ UNCHANGED host
    /\ \/ own' = [own EXCEPT !.active = TRUE] /\ Goto("lock", {})
       \/ own' \in {own, [own EXCEPT !.active = TRUE]} /\ PrepareFails

-----------------------------------------------------------------------------
\* CpuIsolation.restore: four parts, each tried whatever became of the others.
\* The errors they leave are raised at the end, to prepare() or to cleanup().
Undone(where, visits, names) ==
    /\ step' = where /\ todo' = visits /\ named' = named \cup names
    /\ UNCHANGED <<logical_run, run_attempt, undoing, failed, signal>>

restore_process ==
    /\ step = "process"
    /\ \/ /\ ~own.moved
          /\ Undone("affinities", own.originals, {}) /\ UNCHANGED <<host, own>>
       \/ /\ own.moved
          /\ host' = [host EXCEPT !.inside = FALSE]
          /\ own' = [own EXCEPT !.moved = FALSE]
          /\ Undone("affinities", own.originals, {})
       \/ /\ own.moved /\ UNCHANGED <<host, own>>
          /\ Undone("affinities", own.originals, {"process"})

restore_irq(i) ==
    /\ step = "affinities" /\ i \in todo /\ UNCHANGED own
    /\ \/ /\ host' = [host EXCEPT !.affinity[i] = "original"]
          /\ Undone("affinities", todo \ {i}, {})
       \/ Undone("affinities", todo \ {i}, {i}) /\ UNCHANGED host

\* The remembered affinities are dropped, then the cgroup is removed: the
\* kernel refuses while the process is in it.
remove_cgroup ==
    /\ step = "affinities" /\ todo = {}
    /\ \/ /\ ~own.created /\ own' = [own EXCEPT !.originals = {}]
          /\ Undone("controller_off", {}, {}) /\ UNCHANGED host
       \/ /\ own.created /\ ~host.inside
          /\ host' = [host EXCEPT !.cgroup = "none"]
          /\ own' = [own EXCEPT !.originals = {}, !.created = FALSE]
          /\ Undone("controller_off", {}, {})
       \/ /\ own.created
          /\ host' \in {host, [host EXCEPT !.cgroup = "member"]}
          /\ own' = [own EXCEPT !.originals = {}]
          /\ Undone("controller_off", {}, {"cgroup"})

\* Back to the failed prepare(), or on to the last part of cleanup().
Returned == IF undoing = "prepare" THEN "rebind" ELSE "unlock"

\* The controller is switched off if this object switched it on.
disable_controller ==
    /\ step = "controller_off"
    /\ \/ /\ ~own.enabled /\ own' = [own EXCEPT !.active = FALSE]
          /\ Undone(Returned, {}, {}) /\ UNCHANGED host
       \/ /\ own.enabled
          /\ own' = [own EXCEPT !.active = FALSE, !.enabled = FALSE]
          /\ host' = [host EXCEPT !.subtree = FALSE]
          /\ Undone(Returned, {}, {})
       \/ /\ own.enabled /\ own' = [own EXCEPT !.active = FALSE]
          /\ Undone(Returned, {}, {"controller"}) /\ UNCHANGED host

-----------------------------------------------------------------------------
AllLocked(f) == \A p \in Policies : f[p] = "locked"
Isolated ==
    /\ host.cgroup = "isolated" /\ host.inside
    /\ \A i \in Irqs : host.affinity[i] = "housekeeping"

\* _lock_cpu_once in the first run.  The script may lock some policies only,
\* and the verification that follows may time out.
lock_cpu ==
    /\ step = "lock" /\ ~own.locked
    /\ \E f \in [Policies -> {"original", "locked"}] :
         /\ host' = [host EXCEPT !.freq = f]
         /\ \/ /\ AllLocked(f)
               /\ own' = [own EXCEPT !.needed = TRUE, !.locked = TRUE]
               /\ Goto("power", {})
            \/ own' = [own EXCEPT !.needed = TRUE] /\ (Raise \/ Signalled)

\* _lock_cpu_once in the runs that follow only verifies.
verify_cpu_frequency ==
    /\ step = "lock" /\ own.locked
    /\ IF AllLocked(host.freq) THEN Goto("power", {}) ELSE Raise
    /\ UNCHANGED <<host, own>>

\* _enforce_realsense_autosuspend, for the campaign and for each attempt:
\* every device is written, read back, and an error names the ones not on.
enforce_autosuspend ==
    /\ step \in {"power", "attempt_power"} /\ UNCHANGED own
    /\ \/ /\ host' = [host EXCEPT !.awake = Devices]
          /\ Goto(IF step = "power" THEN "verify" ELSE "caches", {})
       \/ \E on \in SUBSET Devices :
            host' = [host EXCEPT !.awake = @ \cup on] /\ Raise

\* CpuIsolation.verify, first thing in prepare_attempt.
verify ==
    /\ step = "verify"
    /\ IF Isolation /\ ~Isolated THEN Raise
       ELSE Goto(IF Rsusb THEN "unbind" ELSE "attempt_power", Devices)
    /\ UNCHANGED <<host, own>>

\* _run_rsusb_helper("unbind") for one device, retried until its deadline.
unbind(d) ==
    /\ step = "unbind" /\ d \in todo /\ UNCHANGED own
    /\ \/ /\ host' = [host EXCEPT !.bound = @ \ {d}]
          /\ Goto("unbind", todo \ {d})
       \/ host' \in {host, [host EXCEPT !.bound = @ \ {d}]} /\ Raise

\* Faulty variant: devices unbound for an earlier attempt are taken to be so.
UnboundOnce ==
    /\ step = "unbind" /\ (todo = {} \/ own.unbound) /\ UNCHANGED host
    /\ own' = [own EXCEPT !.unbound = TRUE]
    /\ Goto("attempt_power", {})

\* prepare_rsusb_access: the flag is set when every device is unbound.
prepare_rsusb_access ==
    /\ step = "unbind" /\ todo = {} /\ UNCHANGED host
    /\ own' = [own EXCEPT !.unbound = TRUE]
    /\ Goto("attempt_power", {})

\* DropCachesBeforeRun.__call__: sync and drop_caches, either may raise.
drop_caches ==
    /\ step = "caches" /\ (Goto("probe", {}) \/ Raise)
    /\ UNCHANGED <<host, own>>

\* The attempt.  Meanwhile a reset camera comes back bound to uvcvideo and
\* with its default power setting, the kernel may leave the locked frequency,
\* and irqbalance may move an interrupt.
run_probe ==
    /\ step = "probe" /\ UNCHANGED own
    /\ \E back \in SUBSET Devices, slow \in SUBSET Policies, i \in SUBSET Irqs :
         host' = [host EXCEPT
           !.bound = @ \cup back, !.awake = @ \ back,
           !.freq = [p \in Policies |-> IF p \in slow THEN "other" ELSE @[p]],
           !.affinity = [j \in Irqs |-> IF j \in i THEN "other" ELSE @[j]]]
    /\ Goto("after", {}) \/ Raise

\* verify_cpu_isolation after the attempt; then a retry, the next logical
\* run, or the end of the campaign.
after_attempt ==
    /\ step = "after"
    /\ \/ Isolation /\ ~Isolated /\ Raise
       \/ /\ (Isolation => Isolated)
          /\ todo' = {} /\ UNCHANGED <<undoing, failed, named, signal>>
          /\ \/ /\ run_attempt < Attempts /\ step' = "verify"
                /\ run_attempt' = run_attempt + 1 /\ UNCHANGED logical_run
             \/ /\ logical_run < Runs /\ step' = "isolate"
                /\ logical_run' = logical_run + 1 /\ run_attempt' = 1
             \/ /\ logical_run = Runs /\ step' = "rebind"
                /\ UNCHANGED <<logical_run, run_attempt>>
    /\ UNCHANGED <<host, own>>

-----------------------------------------------------------------------------
\* cleanup: the binding, the isolation, the frequency; errors are collected.
\* The helper is run for one device after the other and may give up at any.
restore_v4l2_binding ==
    /\ step = "rebind"
    /\ \/ /\ ~own.unbound /\ UNCHANGED <<host, own, named>>
       \/ /\ own.unbound /\ host' = [host EXCEPT !.bound = Devices]
          /\ own' = [own EXCEPT !.unbound = FALSE] /\ UNCHANGED named
       \/ /\ own.unbound /\ named' = named \cup {"binding"} /\ UNCHANGED own
          /\ \E back \in SUBSET Devices :
               host' = [host EXCEPT !.bound = @ \cup back]
    /\ step' = "process" /\ undoing' = "cleanup"
    /\ UNCHANGED <<todo, logical_run, run_attempt, failed, signal>>

\* The script sets its own defaults, then the settings read before the lock
\* are written back and compared.
restore_cpu_frequency ==
    /\ step = "unlock"
    /\ \/ /\ ~own.needed /\ UNCHANGED <<host, own>> /\ Undone("over", {}, {})
       \/ /\ own.needed
          /\ host' = [host EXCEPT !.freq = [p \in Policies |-> "original"]]
          /\ own' = [own EXCEPT !.needed = FALSE, !.locked = FALSE]
          /\ Undone("over", {}, {})
       \/ /\ own.needed /\ UNCHANGED own /\ Undone("over", {}, {"frequency"})
          /\ \E f \in [Policies -> {"original", "locked", "other"}] :
               host' = [host EXCEPT !.freq = f]

\* The signal between two steps.  It cuts short what restores: then the errors
\* collected so far are lost with it.
interrupt ==
    /\ signal = "none" /\ step # "over" /\ todo' = {}
    /\ IF step \in RunningSteps
         THEN step' = "rebind" /\ failed' = step /\ signal' = "taken"
         ELSE /\ signal' = "cut" /\ UNCHANGED failed
              /\ step' = IF step \in RestoringSteps /\ undoing = "prepare"
                         THEN "rebind" ELSE "over"
    /\ UNCHANGED <<host, own, logical_run, run_attempt, undoing, named>>

Done == step = "over" /\ UNCHANGED controlVars

ControlsNext ==
    \/ prepare \/ enable_controller \/ make_cgroup \/ make_partition
    \/ \E i \in Irqs : pin_irq(i) \/ restore_irq(i)
    \/ move_process \/ check_isolation
    \/ restore_process \/ remove_cgroup \/ disable_controller
    \/ lock_cpu \/ verify_cpu_frequency \/ enforce_autosuspend \/ verify
    \/ \E d \in Devices : unbind(d)
    \/ prepare_rsusb_access \/ drop_caches \/ run_probe \/ after_attempt
    \/ restore_v4l2_binding \/ restore_cpu_frequency \/ interrupt \/ Done

ControlsSpec == ControlsInit /\ [][ControlsNext]_controlVars

-----------------------------------------------------------------------------
\* A probe starts only under the controls the campaign promises: inside the
\* isolated partition with the interrupts elsewhere, with every camera awake
\* and, over RSUSB, released by uvcvideo, whatever an earlier attempt's reset
\* brought back; and at the locked frequency in the first attempt of a run.
InForce ==
    step \in {"caches", "probe"} =>
        /\ Isolation => Isolated /\ own.active
        /\ host.awake = Devices
        /\ Rsusb => host.bound = {}
        /\ run_attempt = 1 => AllLocked(host.freq)

\* What the campaign changed is as it was when it is over, or an error names
\* it, as long as no signal cut a restore short.  The interrupts and the
\* frequency are remembered before they are touched, so a signal does not
\* matter; a signal between a command and its note loses the cgroup and the
\* controller, and a helper that gives up in the first unbind loses the
\* devices before it.  Without isolation the campaign touches no interrupt;
\* whatever irqbalance does to them then is not its to put back.
PutBack ==
    step = "over" /\ signal # "cut" =>
        /\ Isolation =>
             \A i \in Irqs : host.affinity[i] # "original" => i \in named
        /\ (\E p \in Policies : host.freq[p] # "original") => "frequency" \in named
        /\ signal = "none" =>
             /\ host.inside => "process" \in named
             /\ host.cgroup # "none" => "cgroup" \in named
             /\ host.subtree # host.had => "controller" \in named
        /\ failed # "unbind" /\ host.bound # Devices => "binding" \in named

\* What the two rest on.  The course of a campaign: it fails at most once, is
\* cleaned up at most once, and runs only until a signal.
Course ==
    /\ step \in RunningSteps =>
         failed = "no" /\ undoing = "prepare" /\ signal = "none"
    /\ step = "rebind" => undoing = "prepare"
    /\ step \in {"unlock", "over"} /\ signal # "cut" => undoing = "cleanup"

\* The controls, from the step that checks or applies each of them on.
Applied ==
    LET Attempt == {"unbind", "attempt_power", "caches", "probe"} IN
    /\ step \in Attempt \cup {"lock", "power", "verify", "after"} =>
         (Isolation => own.active)
    /\ step \in Attempt => (Isolation => Isolated)
    /\ step = "unbind" => host.bound \subseteq todo
    /\ step \in {"attempt_power", "caches", "probe"} => (Rsusb => host.bound = {})
    /\ step \in {"caches", "probe"} => host.awake = Devices
    /\ step \in Attempt \cup {"power", "verify"} =>
         (run_attempt = 1 => AllLocked(host.freq))

\* What is changed is remembered, and what is forgotten is restored or named.
AffinityKnown ==
    signal # "cut" =>
      /\ Isolation =>
           \A i \in Irqs : host.affinity[i] # "original" =>
             \/ i \in named
             \/ i \in IF step = "affinities" THEN todo ELSE own.originals
      /\ step \in {"controller_off", "unlock", "over"} => own.originals = {}

FrequencyKnown ==
    /\ own.locked => own.needed
    /\ step \in {"power", "verify", "unbind", "attempt_power", "caches", "probe",
                 "after"} => own.needed
    /\ (\E p \in Policies : host.freq[p] # "original") =>
         own.needed \/ "frequency" \in named
    /\ step = "over" /\ signal # "cut" /\ own.needed => "frequency" \in named

IsolationKnown ==
    signal = "none" =>
      /\ host.inside => own.moved
      /\ host.cgroup # "none" => own.created
      /\ host.subtree # host.had => own.enabled
      /\ own.enabled => ~host.had
      /\ step = "controller" => ~host.subtree
      /\ step = "partition" => own.created
      /\ step \in {"affinities", "controller_off", "unlock", "over"} =>
           (own.moved => "process" \in named)
      /\ step \in {"controller_off", "unlock", "over"} =>
           (own.created => "cgroup" \in named)
      /\ step \in {"unlock", "over"} => (own.enabled => "controller" \in named)

BindingKnown ==
    /\ host.bound # Devices =>
         \/ failed = "unbind" \/ step = "unbind"
         \/ own.unbound \/ "binding" \in named
    /\ undoing = "cleanup" /\ own.unbound => "binding" \in named

ControlsIInv ==
    /\ ControlsTypeOK /\ Course /\ Applied /\ AffinityKnown /\ FrequencyKnown
    /\ IsolationKnown /\ BindingKnown

\* The campaign restores each uvcvideo binding during cleanup.
BindingRestored ==
    step = "over" /\ signal # "cut" /\ host.bound # Devices => "binding" \in named

=============================================================================
