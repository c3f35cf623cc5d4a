------------------------------ MODULE Pipeline ------------------------------
(***************************************************************************)
(* The full reproduction of reproduction/pipeline.py: thirteen capture     *)
(* stages that need four kernel configurations and are carried across      *)
(* reboots by a systemd service, with the stage runner and the checks of   *)
(* reproduction/reproduce.py and the boot selection of setup/kernel.py.    *)
(*                                                                         *)
(* disk survives a reboot: pipeline.json, the completion markers, the      *)
(* generated adapters, the boot files and whether the service is enabled.  *)
(* The worker is the service's process, the operator runs stop and resume. *)
(* Power may be lost, a process killed, a command fail and a boot come up  *)
(* with another kernel than the one selected.                              *)
(***************************************************************************)
EXTENDS Integers, Sequences, FiniteSets, SequencesExt

CONSTANTS
    Smoke,       \* --smoke: the supplements are left out
    IrqNumbers,  \* what the cameras' interrupts may be numbered in a boot
    Hasty,       \* resume may be called while the worker still runs
    MaxFaults,   \* bound: crashes, kills and failures of commands
    MaxOrders    \* bound: operator commands

ASSUME PipelineAssumption ==
    /\ {Smoke, Hasty} \subseteq BOOLEAN /\ IrqNumbers # {}
    /\ MaxFaults \in Nat /\ MaxOrders \in Nat

VARIABLES
    disk,
    booted,   \* the kernel that runs: a variant and threadirqs
    wifi,     \* wlan0 is up
    irq,      \* the interrupt numbers of this boot
    obstinate, \* the firmware boots the original kernel whatever is selected
    pc,       \* of the worker; "off" when there is none, "down" when no power
    stage,    \* the stage at hand
    order,    \* what the operator's command is doing
    seen,     \* the active_stage that resume read
    orders, faults,
    started,  \* history: how often each stage was started
    cut       \* history: power was lost in the operator's last stop

vars == <<disk, booted, wifi, irq, obstinate, pc, stage, order, seen, orders,
          faults, started, cut>>

-----------------------------------------------------------------------------
\* PHASES: the order of the stages, grouped by the kernel they are run on.
Phase(variant, threaded, stages) ==
    [variant |-> variant, threaded |-> threaded, stages |-> stages]
\* Faulty variant: the second RT boot is folded into the first.
OneRtPhase ==
    << Phase("rt-urb16", FALSE, <<"e1", "e2-calibrate", "e4-rt-threaded">>),
       Phase("standard-urb16", TRUE,
             <<"ablation", "e3", "e4-calibrate", "e4-standard-threaded">>),
       Phase("standard-urb5", FALSE, <<"e2-urb5">>),
       Phase("standard-urb16", FALSE, <<"startup", "e2-urb16",
             "e4-standard-hardirq", "overhead", "diagnosis">>) >>
PHASES ==
    << Phase("rt-urb16", FALSE, <<"e1", "e2-calibrate">>),
       Phase("standard-urb16", TRUE,
             <<"ablation", "e3", "e4-calibrate", "e4-standard-threaded">>),
       Phase("standard-urb5", FALSE, <<"e2-urb5">>),
       Phase("standard-urb16", FALSE, <<"startup", "e2-urb16",
             "e4-standard-hardirq", "overhead", "diagnosis">>),
       Phase("rt-urb16", FALSE, <<"e4-rt-threaded">>) >>

\* phases(): a smoke run leaves out the supplements.
supplements == {"startup", "ablation", "overhead", "diagnosis"}
phases ==
    [i \in DOMAIN PHASES |-> [PHASES[i] EXCEPT !.stages =
       SelectSeq(@, LAMBDA s : ~(Smoke /\ s \in supplements))]]

\* STAGES and KERNELS of reproduce.py: what check() wants each stage to run on.
KERNELS ==
    [hardirq5   |-> [variant |-> "standard-urb5", threaded |-> FALSE],
     hardirq16  |-> [variant |-> "standard-urb16", threaded |-> FALSE],
     threaded16 |-> [variant |-> "standard-urb16", threaded |-> TRUE],
     rt16       |-> [variant |-> "rt-urb16", threaded |-> TRUE]]
STAGES ==
    LET on(mode, stages) == [s \in stages |-> mode]
        join(f, g) == [s \in DOMAIN f \cup DOMAIN g |->
                         IF s \in DOMAIN f THEN f[s] ELSE g[s]]
    IN  join(on("hardirq16", {"startup", "e2-urb16", "e4-standard-hardirq",
                              "overhead", "diagnosis"}),
        join(on("threaded16", {"ablation", "e3", "e4-calibrate",
                               "e4-standard-threaded"}),
        join(on("rt16", {"e1", "e2-calibrate", "e4-rt-threaded"}),
             on("hardirq5", {"e2-urb5"}))))
Stages == DOMAIN STAGES
Variants == {"standard-urb5", "standard-urb16", "rt-urb16"}

\* The stages whose calibration profiles check() wants to find.
needed_profiles(s) ==
    CASE s \in {"e2-urb5", "e2-urb16"} -> {"e2-calibrate"}
      [] s \in {"e4-standard-hardirq", "e4-standard-threaded",
                "e4-rt-threaded"} -> {"e4-calibrate"}
      [] s = "e3" -> {"e1", "e2-calibrate"}
      [] OTHER -> {}

\* boot_matches: threadirqs does not matter to the RT kernel.
boot_matches(variant, threaded) ==
    /\ booted.variant = variant
    /\ variant = "rt-urb16" \/ booted.threaded = threaded

\* next_phase: the first phase with stages that have no completion marker.
pending(phase) ==
    {i \in DOMAIN phase.stages : phase.stages[i] \notin disk.completed}
unfinished == {i \in DOMAIN phases : pending(phases[i]) # {}}
next_phase == phases[CHOOSE i \in unfinished : \A j \in unfinished : i <= j]

-----------------------------------------------------------------------------
None == "none"
Original == [prefix |-> "standard-urb16",
             threadirqs |-> [v \in Variants |-> FALSE]]
NoBoot == [variant |-> None, threaded |-> FALSE]
Boots == [variant : Variants, threaded : BOOLEAN]

Disks ==
    [status    : {"queued", "running", "rebooting", "complete", "failed",
                  "stopped"},
     active    : Stages \cup {None},         \* active_stage
     pending   : Boots \cup {NoBoot},        \* pending_boot
     rebooted  : BOOLEAN,   \* its boot_id is not the one of this boot
     completed : SUBSET Stages,
     prefix    : Variants,                   \* config.txt
     threadirqs : [Variants -> BOOLEAN],     \* the cmdline.txt of each kernel
     enabled   : BOOLEAN,                    \* the service starts at boot
     derived   : BOOLEAN,
     config    : IrqNumbers,                 \* camera-config.json
     prepared  : IrqNumbers,                 \* prepared.json
     adapters  : IrqNumbers,                 \* the entrypoints
     cameras   : BOOLEAN]                    \* the ones that were selected

TypeOK ==
    /\ disk \in Disks /\ booted \in Boots /\ wifi \in BOOLEAN
    /\ irq \in IrqNumbers /\ {stage, seen} \subseteq Stages \cup {None}
    /\ obstinate \in BOOLEAN
    /\ orders \in 0..MaxOrders /\ faults \in 0..MaxFaults
    /\ started \in [Stages -> Nat] /\ cut \in BOOLEAN

\* full(): prepare, snapshot_system, and pipeline.json is saved; the service is
\* not installed yet.
Init ==
    /\ booted = [variant |-> Original.prefix, threaded |-> FALSE]
    /\ irq \in IrqNumbers /\ obstinate \in BOOLEAN
    /\ disk = [status |-> "queued", active |-> None, pending |-> NoBoot,
               rebooted |-> FALSE, completed |-> {}, prefix |-> Original.prefix,
               threadirqs |-> Original.threadirqs, enabled |-> FALSE,
               derived |-> FALSE, config |-> irq, prepared |-> irq,
               adapters |-> irq, cameras |-> TRUE]
    /\ wifi = TRUE /\ pc = "off" /\ stage = None
    /\ order = "full" /\ seen = None /\ orders = 0 /\ faults = 0
    /\ started = [s \in Stages |-> 0] /\ cut = FALSE

\* The worker alone moves, or a fault is spent on it.
Worker == UNCHANGED <<booted, irq, obstinate, order, seen, orders, cut>>
NoFault == UNCHANGED faults
Fault == faults < MaxFaults /\ faults' = faults + 1

\* An exception in worker()'s try block.
Fail == pc' = "failing" /\ UNCHANGED <<disk, wifi, stage, started>>

Save(d) == disk' = d
Goto(where) == pc' = where /\ UNCHANGED <<wifi, stage, started>>

\* full() writes the unit, enables the service and starts it.
full ==
    /\ order = "full" /\ pc = "off"
    /\ Save([disk EXCEPT !.enabled = TRUE])
    /\ pc' = "start" /\ order' = "idle"
    /\ UNCHANGED <<booted, wifi, irq, obstinate, stage, seen, orders, faults,
                   started, cut>>

\* Faulty variant: that the requested boot took place is not verified.
StartUnverified ==
    /\ pc = "start" /\ Worker /\ NoFault
    /\ IF disk.active # None /\ disk.active \notin disk.completed
         THEN Fail
         ELSE /\ Save([disk EXCEPT !.status = "running", !.active = None,
                                   !.pending = NoBoot])
              /\ Goto("refresh")

\* Faulty variant: a stage that was cut short is taken up again.
StartAgain ==
    /\ pc = "start" /\ Worker /\ NoFault
    /\ IF disk.pending # NoBoot /\
          ~(disk.rebooted /\ boot_matches(disk.pending.variant,
                                          disk.pending.threaded))
         THEN Fail
         ELSE /\ Save([disk EXCEPT !.status = "running", !.active = None,
                                   !.pending = NoBoot])
              /\ Goto("refresh")

\* worker() up to its first save: a stage that was cut short and a reboot that
\* did not take place are errors.
start_worker ==
    /\ pc = "start" /\ Worker /\ NoFault
    /\ IF \/ disk.active # None /\ disk.active \notin disk.completed
          \/ /\ disk.pending # NoBoot
             /\ ~(disk.rebooted /\ boot_matches(disk.pending.variant,
                                                disk.pending.threaded))
         THEN Fail
         ELSE /\ Save([disk EXCEPT !.status = "running", !.active = None,
                                   !.pending = NoBoot])
              /\ Goto("refresh")

\* Faulty variant: the adapters are not compared with prepared.json.
RefreshUnchecked ==
    /\ pc = "refresh" /\ Worker /\ NoFault
    /\ IF ~disk.cameras THEN Fail
       ELSE /\ Goto(IF disk.config # irq THEN "adapters" ELSE "wifi")
            /\ UNCHANGED disk

\* refresh_boot_config: the cameras are looked for again.  Other cameras and
\* changed adapters are errors; other interrupts make prepare() write the
\* adapters anew, then prepared.json, then the configuration.
refresh_boot_config ==
    /\ pc = "refresh" /\ Worker /\ NoFault
    /\ IF ~disk.cameras \/ disk.adapters # disk.prepared THEN Fail
       ELSE /\ Goto(IF disk.config # irq THEN "adapters" ELSE "wifi")
            /\ UNCHANGED disk
prepare_adapters ==
    /\ pc = "adapters" /\ Worker /\ NoFault
    /\ Save([disk EXCEPT !.adapters = irq]) /\ Goto("manifest")
prepare_manifest ==
    /\ pc = "manifest" /\ Worker /\ NoFault
    /\ Save([disk EXCEPT !.prepared = irq]) /\ Goto("config")
copy_config ==
    /\ pc = "config" /\ Worker /\ NoFault
    /\ Save([disk EXCEPT !.config = irq]) /\ Goto("wifi")

wifi_down ==
    /\ pc = "wifi" /\ Worker /\ NoFault
    /\ pc' = "choose" /\ wifi' = FALSE /\ UNCHANGED <<disk, stage, started>>

\* The head of worker()'s loop.
choose ==
    /\ pc = "choose" /\ Worker /\ NoFault
    /\ IF unfinished = {} THEN pc' = "analyze" /\ UNCHANGED stage
       ELSE IF ~boot_matches(next_phase.variant, next_phase.threaded)
         THEN pc' = "cmdline" /\ UNCHANGED stage
         ELSE /\ pc' = "check"
              /\ \E i \in pending(next_phase) :
                   /\ \A j \in pending(next_phase) : i <= j
                   /\ stage' = next_phase.stages[i]
    /\ UNCHANGED <<disk, wifi, started>>

\* kernel.py select --apply: boot_selection, the command line of the kernel,
\* then the prefix.
select_cmdline ==
    /\ pc = "cmdline" /\ Worker /\ NoFault
    /\ Save([disk EXCEPT !.threadirqs[next_phase.variant] = next_phase.threaded])
    /\ Goto("prefix")
select_prefix ==
    /\ pc = "prefix" /\ Worker /\ NoFault
    /\ Save([disk EXCEPT !.prefix = next_phase.variant]) /\ Goto("pending")
save_pending ==
    /\ pc = "pending" /\ Worker /\ NoFault
    /\ Save([disk EXCEPT !.status = "rebooting", !.rebooted = FALSE,
              !.pending = [variant |-> next_phase.variant,
                           threaded |-> next_phase.threaded]])
    /\ Goto("reboot")
reboot ==
    /\ pc = "reboot" /\ Worker /\ NoFault /\ UNCHANGED disk /\ Goto("down")

\* check(): the kernel, the network and the calibrations a stage needs; for
\* e3 also that the configured interrupts exist.
check(s) ==
    LET kernel == KERNELS[STAGES[s]] IN
    /\ ~wifi /\ boot_matches(kernel.variant, kernel.threaded)
    /\ needed_profiles(s) \subseteq disk.completed
    /\ s = "e3" => disk.config = irq

check_stage ==
    /\ pc = "check" /\ Worker /\ NoFault
    /\ IF check(stage)
         THEN Save([disk EXCEPT !.active = stage]) /\ Goto("launch")
         ELSE Fail

\* reproduce.py run: the configuration is the prepared one, and so is the script
\* of the stage (that of e3 does not hold the interrupts: e3-one.sh does).
run_stage ==
    /\ pc = "launch" /\ Worker /\ NoFault
    /\ IF disk.prepared = disk.config
         THEN /\ pc' = "run" /\ started' = [started EXCEPT ![stage] = @ + 1]
              /\ UNCHANGED <<disk, wifi, stage>>
         ELSE Fail
mark_complete ==
    /\ pc = "run" /\ Worker /\ NoFault
    /\ Save([disk EXCEPT !.completed = @ \cup {stage}]) /\ Goto("finished")
clear_active ==
    /\ pc = "finished" /\ Worker /\ NoFault
    /\ Save([disk EXCEPT !.active = None]) /\ Goto("choose")

\* The analysis is made beside the output and renamed; the plots follow.
analyze ==
    /\ pc = "analyze" /\ Worker /\ NoFault
    /\ Save([disk EXCEPT !.derived = TRUE]) /\ Goto("restore_config")

\* restore_system: config.txt, the command lines of the kernels, the network.
After == [restore_config |-> "restore_cmdlines",
          restore_cmdlines |-> "restore_wifi", restore_wifi |-> "restored"]
restore_system(at) ==
    /\ at \in DOMAIN After
    /\ disk' = CASE at = "restore_config" ->
                     [disk EXCEPT !.prefix = Original.prefix]
                [] at = "restore_cmdlines" ->
                     [disk EXCEPT !.threadirqs = Original.threadirqs]
                [] at = "restore_wifi" -> disk
    /\ wifi' = (wifi \/ at = "restore_wifi")
    /\ UNCHANGED <<stage, started>>
worker_restores ==
    /\ restore_system(pc) /\ pc' = After[pc] /\ Worker /\ NoFault

\* The end of worker(): complete, or failed with the handler's restoration.
save_complete ==
    /\ pc = "restored" /\ Worker /\ NoFault
    /\ Save(IF disk.status = "failed" THEN disk
            ELSE [disk EXCEPT !.status = "complete"])
    /\ Goto("disable")
disable_service ==
    /\ pc = "disable" /\ Worker /\ NoFault
    /\ Save([disk EXCEPT !.enabled = FALSE]) /\ Goto("off")

\* Faulty variant: the exception handler only takes the service away.
FailUnrestored ==
    /\ pc = "failing" /\ Worker /\ NoFault
    /\ Save([disk EXCEPT !.status = "failed"]) /\ Goto("disable")

fail ==
    /\ pc = "failing" /\ Worker /\ NoFault
    /\ Save([disk EXCEPT !.status = "failed"]) /\ Goto("restore_config")

-----------------------------------------------------------------------------
(* Faults.                                                                 *)

Handled == DOMAIN After \cup {"restored", "disable"}

\* A command of the worker fails.  In the handler only the network's command
\* can (the service is disabled all the same), or the disabling itself.
command_fails ==
    /\ pc \notin {"off", "down", "failing"} /\ Fault /\ Worker
    /\ IF disk.status # "failed" \/ pc \notin Handled THEN Fail
       ELSE /\ pc \in {"restore_wifi", "disable"}
            /\ Goto(IF pc = "disable" THEN "off" ELSE "disable")
            /\ UNCHANGED disk

worker_killed ==
    /\ pc \notin {"off", "down"} /\ Fault /\ Worker
    /\ Goto("off") /\ UNCHANGED disk

\* An operator's command that loses power half way is cut short.
power_lost ==
    /\ pc # "down" /\ order # "full" /\ Fault
    /\ Goto("down") /\ order' = "idle"
    /\ cut' = (cut \/ order \in DOMAIN After \cup {"restored"})
    /\ UNCHANGED <<disk, booted, irq, obstinate, seen, orders>>

\* The machine comes up with the selected kernel, unless the firmware insists
\* on the original one; systemd starts the service if it is enabled.
selected == [variant |-> disk.prefix, threaded |-> disk.threadirqs[disk.prefix]]
boot ==
    /\ pc = "down"
    /\ booted' = IF obstinate THEN [variant |-> Original.prefix,
                                    threaded |-> FALSE] ELSE selected
    /\ irq' \in IrqNumbers /\ wifi' = TRUE
    /\ \/ NoFault /\ disk' = [disk EXCEPT !.rebooted = TRUE]
       \/ Fault /\ disk' = [disk EXCEPT !.rebooted = TRUE, !.cameras = FALSE]
    /\ pc' = (IF disk.enabled THEN "start" ELSE "off")
    /\ stage' = None
    /\ UNCHANGED <<obstinate, order, seen, orders, started, cut>>

-----------------------------------------------------------------------------
(* The operator: control().                                                *)

Operator == UNCHANGED <<booted, irq, obstinate, faults, started>>
Uncut == UNCHANGED cut
Ready == pc # "down" /\ order = "idle" /\ orders < MaxOrders

\* stop: the service is disabled and its processes are killed, the machine is
\* restored, and then the status is saved.
stop ==
    /\ Ready /\ disk.status # "complete"
    /\ order' = "stop" /\ orders' = orders + 1
    /\ UNCHANGED <<disk, wifi, pc, stage, seen>> /\ Operator /\ Uncut
stop_service ==
    /\ order = "stop"
    /\ disk' = [disk EXCEPT !.enabled = FALSE]
    /\ pc' = (IF pc = "down" THEN "down" ELSE "off") /\ order' = "restore_config"
    /\ UNCHANGED <<wifi, stage, seen, orders>> /\ Operator /\ Uncut
stop_restores ==
    /\ restore_system(order) /\ order' = After[order]
    /\ UNCHANGED <<booted, irq, obstinate, faults, pc, seen, orders, cut>>
stop_saved ==
    /\ order = "restored"
    /\ disk' = [disk EXCEPT !.status = "stopped"] /\ order' = "idle" /\ cut' = FALSE
    /\ UNCHANGED <<wifi, pc, stage, seen, orders>> /\ Operator

\* resume: pipeline.json is read, the service must not be active, a stage that
\* was cut short is refused, and what was read is written back.
resume ==
    /\ Ready /\ disk.status # "complete" /\ (Hasty \/ pc = "off")
    /\ order' = "resume" /\ seen' = disk.active /\ orders' = orders + 1
    /\ UNCHANGED <<disk, wifi, pc, stage>> /\ Operator /\ Uncut
resume_saved ==
    /\ order = "resume" /\ pc = "off"
    /\ seen = None \/ seen \in disk.completed
    /\ disk' = [disk EXCEPT !.status = "queued", !.pending = NoBoot,
                            !.active = seen]
    /\ order' = "enable"
    /\ UNCHANGED <<wifi, pc, stage, seen, orders>> /\ Operator /\ Uncut
resume_refused ==
    /\ order = "resume" /\ pc # "down"
    /\ pc # "off" \/ (seen # None /\ seen \notin disk.completed)
    /\ order' = "idle"
    /\ UNCHANGED <<disk, wifi, pc, stage, seen, orders>> /\ Operator /\ Uncut
resume_starts ==
    /\ order = "enable"
    /\ disk' = [disk EXCEPT !.enabled = TRUE] /\ pc' = "start" /\ order' = "idle"
    /\ UNCHANGED <<wifi, stage, seen, orders>> /\ Operator /\ Uncut

-----------------------------------------------------------------------------
\* One step of the worker.
worker ==
    \/ start_worker \/ refresh_boot_config \/ prepare_adapters
    \/ prepare_manifest \/ copy_config \/ wifi_down \/ choose
    \/ select_cmdline \/ select_prefix \/ save_pending \/ reboot
    \/ check_stage \/ run_stage \/ mark_complete \/ clear_active
    \/ analyze \/ worker_restores \/ save_complete \/ disable_service \/ fail

\* The campaign rests: no worker and no command.
Rest == pc = "off" /\ order = "idle" /\ UNCHANGED vars

Next ==
    \/ full \/ worker \/ boot
    \/ command_fails \/ worker_killed \/ power_lost
    \/ stop \/ stop_service \/ stop_restores \/ stop_saved
    \/ resume \/ resume_saved \/ resume_refused \/ resume_starts
    \/ Rest

\* systemd runs the worker to its end, the machine boots, and a command that
\* the operator has given is carried out.
Fairness ==
    /\ WF_vars(full) /\ WF_vars(worker) /\ WF_vars(boot)
    /\ WF_vars(stop_service \/ stop_restores \/ stop_saved
               \/ resume_saved \/ resume_refused \/ resume_starts)
Spec == Init /\ [][Next]_vars /\ Fairness

-----------------------------------------------------------------------------
(* Properties.                                                             *)

\* While a stage is captured the machine is the one the stage was designed
\* for: the kernel and the threading of its row in STAGES, no Wi-Fi, the
\* calibrations it uses done, the cameras of the campaign, and for e3 adapters
\* that pin the interrupts which the cameras have in this boot
\* (reproduce.py check, pipeline.py refresh_boot_config), whatever was lost or
\* rewritten half way in an earlier boot.
CapturedAsDesigned ==
    pc = "run" =>
      /\ boot_matches(KERNELS[STAGES[stage]].variant,
                      KERNELS[STAGES[stage]].threaded)
      /\ ~wifi /\ disk.cameras
      /\ needed_profiles(stage) \subseteq disk.completed
      /\ stage = "e3" => disk.adapters = irq

\* No stage is started twice in a campaign: data of a capture that was cut
\* short are never mixed with those of a second one (pipeline.py worker and
\* control: "Interrupted acquisition cannot be resumed safely").
StartedOnce == \A s \in Stages : started[s] <= 1

\* When a campaign has come to an end and its service is disabled, the boot
\* files are the ones that were saved before it, unless the operator's stop was
\* itself cut short (restore_system on every path of worker and control).
BootRestored ==
    (/\ disk.status \in {"complete", "failed", "stopped"}
     /\ ~disk.enabled /\ pc = "off" /\ order = "idle" /\ ~cut) =>
      disk.prefix = Original.prefix /\ disk.threadirqs = Original.threadirqs

\* What the three rest on.  A worker runs only while the service is enabled; the
\* operator restores or resumes only when there is none, unless in haste.
RestoringPlaces == {"restore_config", "restore_cmdlines", "restore_wifi", "restored"}

Places ==
    /\ pc \notin {"off", "down"} => disk.enabled
    /\ order \in RestoringPlaces => ~disk.enabled
    /\ ~Hasty /\ order \in {"resume", "enable"} =>
         pc = "off" /\ (order = "resume" => seen = disk.active)

\* How far a restoration has come, and that nothing undoes a finished one.
FilesRestored(at) ==
    /\ at \in {"restore_cmdlines", "restore_wifi", "restored", "disable"} =>
         disk.prefix = Original.prefix
    /\ at \in {"restore_wifi", "restored", "disable"} =>
         disk.threadirqs = Original.threadirqs

Restoration ==
    /\ FilesRestored(pc)
    /\ order \in RestoringPlaces => FilesRestored(order)
    /\ ~disk.enabled /\ order \notin RestoringPlaces /\ ~cut =>
         FilesRestored("restored")

\* A stage that was started is complete or the active one.
Acquisition ==
    /\ \A s \in Stages : /\ started[s] \in 0..1
                         /\ started[s] = 1 => s \in disk.completed \/ s = disk.active
    /\ pc \in {"refresh", "adapters", "manifest", "config", "wifi", "choose"} =>
         disk.active = None
    /\ pc = "check" => disk.active = None /\ stage \notin disk.completed
    /\ pc = "launch" =>
         /\ disk.active = stage /\ stage \notin disk.completed
         /\ stage \in Stages => started[stage] = 0
    /\ pc = "run" => disk.active = stage
    /\ pc = "finished" => stage \in disk.completed /\ disk.active = stage

\* What refresh_boot_config and check have established is still so.
Setting ==
    /\ pc \in {"adapters", "manifest", "config", "wifi", "choose", "check",
               "launch", "run", "finished"} => disk.cameras
    /\ pc \in {"wifi", "choose", "check", "launch", "run", "finished"} =>
         disk.adapters = disk.prepared
    /\ pc \in {"manifest", "config"} => disk.adapters = irq
    /\ pc = "config" => disk.prepared = irq
    /\ pc \in {"launch", "run"} => check(stage)
    /\ pc = "run" => disk.prepared = disk.config

DiskFields ==
    {"status", "active", "pending", "rebooted", "completed", "prefix",
     "threadirqs", "enabled", "derived", "config", "prepared", "adapters",
     "cameras"}

\* Inductive; the last part needs an operator who waits for the worker.
IInv ==
    /\ DOMAIN disk = DiskFields /\ started \in [Stages -> Nat]
    /\ Places /\ Restoration /\ Setting /\ (Hasty \/ Acquisition)

\* The machine does not reboot for ever: even when the firmware never boots the
\* selected kernel the worker comes to rest ("automatic reboot retry
\* disabled").
ComesToRest == <>[](pc = "off")

\* With nothing going wrong every stage is captured, in an order in which each
\* finds its kernel and its calibrations, and the campaign completes with the
\* service disabled.
CampaignCompletes ==
    (~obstinate /\ [](faults = 0 /\ orders = 0)) =>
      <>(disk.status = "complete" /\ ~disk.enabled /\
         disk.completed = UNION {ToSet(phases[i].stages) : i \in DOMAIN phases})
=============================================================================
