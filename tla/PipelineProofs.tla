--------------------------- MODULE PipelineProofs ---------------------------
(* Proofs about Pipeline, for any number of faults and operator commands.  *)
EXTENDS Pipeline, TLAPS

\* "none" is not the name of a stage.
LEMMA NoneIsNoStage == None \notin Stages
BY Zenon DEF None, Stages, STAGES

\* The steps of restore_system.
LEMMA RestoreFacts ==
    ASSUME NEW STATE at, restore_system(at), DOMAIN disk = DiskFields
    PROVE  /\ DOMAIN disk' = DiskFields /\ UNCHANGED <<stage, started>>
           /\ \/ /\ at = "restore_config" /\ After[at] = "restore_cmdlines"
                 /\ disk' = [disk EXCEPT !.prefix = Original.prefix]
              \/ /\ at = "restore_cmdlines" /\ After[at] = "restore_wifi"
                 /\ disk' = [disk EXCEPT !.threadirqs = Original.threadirqs]
              \/ /\ at = "restore_wifi" /\ After[at] = "restored" /\ disk' = disk
<1>1. at \in {"restore_config", "restore_cmdlines", "restore_wifi"}
  BY Zenon DEF restore_system, After
<1>2. CASE at = "restore_config" BY Zenon, <1>2 DEF restore_system, After
<1>3. CASE at = "restore_cmdlines" BY Zenon, <1>3 DEF restore_system, After
<1>4. CASE at = "restore_wifi" BY Zenon, <1>4 DEF restore_system, After
<1> QED BY Zenon, <1>1, <1>2, <1>3, <1>4

\* pipeline.json and the rest of the disk keep their fields.
LEMMA FieldsKept ==
    DOMAIN disk = DiskFields /\ started \in [Stages -> Nat] /\ [Next]_vars
      => (DOMAIN disk = DiskFields /\ started \in [Stages -> Nat])'
<1> SUFFICES ASSUME DOMAIN disk = DiskFields, started \in [Stages -> Nat],
                    [Next]_vars
             PROVE  (DOMAIN disk = DiskFields /\ started \in [Stages -> Nat])'
  BY Zenon
<1> USE DEF Worker, Operator, Uncut, NoFault, Fail, Save, Goto, DiskFields
<1>1. CASE start_worker BY <1>1, Zenon DEF start_worker
<1>2. CASE refresh_boot_config BY Zenon, <1>2 DEF refresh_boot_config
<1>3. CASE prepare_adapters BY Zenon, <1>3 DEF prepare_adapters
<1>4. CASE prepare_manifest BY Zenon, <1>4 DEF prepare_manifest
<1>5. CASE copy_config BY Zenon, <1>5 DEF copy_config
<1>6. CASE wifi_down BY Zenon, <1>6 DEF wifi_down
<1>7. CASE choose BY Zenon, <1>7 DEF choose
<1>8. CASE select_cmdline BY Zenon, <1>8 DEF select_cmdline
<1>9. CASE select_prefix BY Zenon, <1>9 DEF select_prefix
<1>10. CASE save_pending BY Zenon, <1>10 DEF save_pending
<1>11. CASE reboot BY Zenon, <1>11 DEF reboot
<1>12. CASE check_stage BY Zenon, <1>12 DEF check_stage
<1>13. CASE run_stage BY <1>13 DEF run_stage
<1>14. CASE mark_complete BY Zenon, <1>14 DEF mark_complete
<1>15. CASE clear_active BY Zenon, <1>15 DEF clear_active
<1>16. CASE analyze BY Zenon, <1>16 DEF analyze
<1>17. CASE worker_restores BY Zenon, <1>17, RestoreFacts DEF worker_restores
<1>18. CASE save_complete BY Zenon, <1>18 DEF save_complete
<1>19. CASE disable_service BY Zenon, <1>19 DEF disable_service
<1>20. CASE fail BY Zenon, <1>20 DEF fail
<1>21. CASE full BY Zenon, <1>21 DEF full
<1>22. CASE boot BY <1>22, Zenon DEF boot
<1>23. CASE command_fails BY Zenon, <1>23 DEF command_fails
<1>24. CASE worker_killed BY Zenon, <1>24 DEF worker_killed
<1>25. CASE power_lost BY Zenon, <1>25 DEF power_lost
<1>26. CASE stop BY Zenon, <1>26 DEF stop, Ready
<1>27. CASE stop_service BY Zenon, <1>27 DEF stop_service
<1>28. CASE stop_restores BY Zenon, <1>28, RestoreFacts DEF stop_restores
<1>29. CASE stop_saved BY Zenon, <1>29 DEF stop_saved
<1>30. CASE resume BY Zenon, <1>30 DEF resume, Ready
<1>31. CASE resume_saved BY Zenon, <1>31 DEF resume_saved
<1>32. CASE resume_refused BY Zenon, <1>32 DEF resume_refused
<1>33. CASE resume_starts BY Zenon, <1>33 DEF resume_starts
<1>34. CASE UNCHANGED vars BY Zenon, <1>34 DEF vars
<1> HIDE DEF Worker, Operator, Uncut, NoFault, Fail, Save, Goto, DiskFields
<1> QED BY ZenonT(30), <1>1, <1>2, <1>3, <1>4, <1>5, <1>6, <1>7, <1>8, <1>9, <1>10, <1>11,
           <1>12, <1>13, <1>14, <1>15, <1>16, <1>17, <1>18, <1>19, <1>20, <1>21,
           <1>22, <1>23, <1>24, <1>25, <1>26, <1>27, <1>28, <1>29, <1>30, <1>31,
           <1>32, <1>33, <1>34, Zenon
        DEF Next, worker, Rest

\* No worker runs beside a restoration.
LEMMA PlacesKept ==
    DOMAIN disk = DiskFields /\ Places /\ [Next]_vars => Places'
<1> SUFFICES ASSUME DOMAIN disk = DiskFields, Places, [Next]_vars PROVE Places'
  BY Zenon
<1> USE DEF Places, RestoringPlaces,
            Worker, Operator, Uncut, NoFault, Fail, Save, Goto, DiskFields
<1>1. CASE start_worker BY <1>1, Zenon DEF start_worker
<1>2. CASE refresh_boot_config BY Zenon, <1>2 DEF refresh_boot_config
<1>3. CASE prepare_adapters BY Zenon, <1>3 DEF prepare_adapters
<1>4. CASE prepare_manifest BY Zenon, <1>4 DEF prepare_manifest
<1>5. CASE copy_config BY Zenon, <1>5 DEF copy_config
<1>6. CASE wifi_down BY Zenon, <1>6 DEF wifi_down
<1>7. CASE choose BY Zenon, <1>7 DEF choose
<1>8. CASE select_cmdline BY Zenon, <1>8 DEF select_cmdline
<1>9. CASE select_prefix BY Zenon, <1>9 DEF select_prefix
<1>10. CASE save_pending BY Zenon, <1>10 DEF save_pending
<1>11. CASE reboot BY Zenon, <1>11 DEF reboot
<1>12. CASE check_stage BY Zenon, <1>12 DEF check_stage
<1>13. CASE run_stage BY Zenon, <1>13 DEF run_stage
<1>14. CASE mark_complete BY Zenon, <1>14 DEF mark_complete
<1>15. CASE clear_active BY Zenon, <1>15 DEF clear_active
<1>16. CASE analyze BY Zenon, <1>16 DEF analyze
<1>17. CASE worker_restores BY Zenon, <1>17, RestoreFacts DEF worker_restores
<1>18. CASE save_complete BY Zenon, <1>18 DEF save_complete
<1>19. CASE disable_service BY Zenon, <1>19 DEF disable_service
<1>20. CASE fail BY Zenon, <1>20 DEF fail
<1>21. CASE full BY Zenon, <1>21 DEF full
<1>22. CASE boot BY <1>22, Zenon DEF boot
<1>23. CASE command_fails BY Zenon, <1>23 DEF command_fails
<1>24. CASE worker_killed BY Zenon, <1>24 DEF worker_killed
<1>25. CASE power_lost BY Zenon, <1>25 DEF power_lost
<1>26. CASE stop BY Zenon, <1>26 DEF stop, Ready
<1>27. CASE stop_service BY Zenon, <1>27 DEF stop_service
<1>28. CASE stop_restores BY Zenon, <1>28, RestoreFacts DEF stop_restores
<1>29. CASE stop_saved BY Zenon, <1>29 DEF stop_saved
<1>30. CASE resume BY Zenon, <1>30 DEF resume, Ready
<1>31. CASE resume_saved BY Zenon, <1>31 DEF resume_saved
<1>32. CASE resume_refused BY Zenon, <1>32 DEF resume_refused
<1>33. CASE resume_starts BY Zenon, <1>33 DEF resume_starts
<1>34. CASE UNCHANGED vars BY Zenon, <1>34 DEF vars
<1> HIDE DEF Places, RestoringPlaces,
             Worker, Operator, Uncut, NoFault, Fail, Save, Goto, DiskFields
<1> QED BY ZenonT(30), <1>1, <1>2, <1>3, <1>4, <1>5, <1>6, <1>7, <1>8, <1>9, <1>10, <1>11,
           <1>12, <1>13, <1>14, <1>15, <1>16, <1>17, <1>18, <1>19, <1>20, <1>21,
           <1>22, <1>23, <1>24, <1>25, <1>26, <1>27, <1>28, <1>29, <1>30, <1>31,
           <1>32, <1>33, <1>34, Zenon
        DEF Next, worker, Rest

\* A restoration is undone only by a worker, which the service must start.
LEMMA RestorationKept ==
    DOMAIN disk = DiskFields /\ Places /\ Restoration /\ [Next]_vars => Restoration'
<1> SUFFICES ASSUME DOMAIN disk = DiskFields, Places, Restoration, [Next]_vars
             PROVE  Restoration'
  BY Zenon
<1> USE DEF Restoration, FilesRestored, Places, RestoringPlaces,
            Worker, Operator, Uncut, NoFault, Fail, Save, Goto, DiskFields
<1>1. CASE start_worker BY <1>1, Zenon DEF start_worker
<1>2. CASE refresh_boot_config BY Zenon, <1>2 DEF refresh_boot_config
<1>3. CASE prepare_adapters BY Zenon, <1>3 DEF prepare_adapters
<1>4. CASE prepare_manifest BY Zenon, <1>4 DEF prepare_manifest
<1>5. CASE copy_config BY Zenon, <1>5 DEF copy_config
<1>6. CASE wifi_down BY Zenon, <1>6 DEF wifi_down
<1>7. CASE choose BY Zenon, <1>7 DEF choose
<1>8. CASE select_cmdline BY Zenon, <1>8 DEF select_cmdline
<1>9. CASE select_prefix BY Zenon, <1>9 DEF select_prefix
<1>10. CASE save_pending BY Zenon, <1>10 DEF save_pending
<1>11. CASE reboot BY Zenon, <1>11 DEF reboot
<1>12. CASE check_stage BY Zenon, <1>12 DEF check_stage
<1>13. CASE run_stage BY Zenon, <1>13 DEF run_stage
<1>14. CASE mark_complete BY Zenon, <1>14 DEF mark_complete
<1>15. CASE clear_active BY Zenon, <1>15 DEF clear_active
<1>16. CASE analyze BY Zenon, <1>16 DEF analyze
<1>17. CASE worker_restores BY <1>17, RestoreFacts DEF worker_restores
<1>18. CASE save_complete BY Zenon, <1>18 DEF save_complete
<1>19. CASE disable_service BY Zenon, <1>19 DEF disable_service
<1>20. CASE fail BY Zenon, <1>20 DEF fail
<1>21. CASE full BY Zenon, <1>21 DEF full
<1>22. CASE boot BY <1>22, Zenon DEF boot
<1>23. CASE command_fails BY Zenon, <1>23 DEF command_fails
<1>24. CASE worker_killed BY Zenon, <1>24 DEF worker_killed
<1>25. CASE power_lost BY <1>25, Zenon DEF power_lost, After
<1>26. CASE stop BY Zenon, <1>26 DEF stop, Ready
<1>27. CASE stop_service BY Zenon, <1>27 DEF stop_service
<1>28. CASE stop_restores BY <1>28, RestoreFacts DEF stop_restores
<1>29. CASE stop_saved BY Zenon, <1>29 DEF stop_saved
<1>30. CASE resume BY Zenon, <1>30 DEF resume, Ready
<1>31. CASE resume_saved BY Zenon, <1>31 DEF resume_saved
<1>32. CASE resume_refused BY Zenon, <1>32 DEF resume_refused
<1>33. CASE resume_starts BY Zenon, <1>33 DEF resume_starts
<1>34. CASE UNCHANGED vars BY ZenonT(30), <1>34 DEF vars
<1> HIDE DEF Restoration, FilesRestored, Places, RestoringPlaces,
             Worker, Operator, Uncut, NoFault, Fail, Save, Goto, DiskFields
<1> QED BY ZenonT(30), <1>1, <1>2, <1>3, <1>4, <1>5, <1>6, <1>7, <1>8, <1>9, <1>10, <1>11,
           <1>12, <1>13, <1>14, <1>15, <1>16, <1>17, <1>18, <1>19, <1>20, <1>21,
           <1>22, <1>23, <1>24, <1>25, <1>26, <1>27, <1>28, <1>29, <1>30, <1>31,
           <1>32, <1>33, <1>34, Zenon
        DEF Next, worker, Rest

\* What was checked before a stage is so while it runs.
LEMMA SettingKept ==
    DOMAIN disk = DiskFields /\ Places /\ Setting /\ [Next]_vars => Setting'
<1> SUFFICES ASSUME DOMAIN disk = DiskFields, Places, Setting, [Next]_vars
             PROVE  Setting'
  BY Zenon
<1> USE DEF Setting, Places, RestoringPlaces, check, boot_matches,
            Worker, Operator, Uncut, NoFault, Fail, Save, Goto, DiskFields
<1>1. CASE start_worker BY <1>1, Zenon DEF start_worker
<1>2. CASE refresh_boot_config BY Zenon, <1>2 DEF refresh_boot_config
<1>3. CASE prepare_adapters BY Zenon, <1>3 DEF prepare_adapters
<1>4. CASE prepare_manifest BY Zenon, <1>4 DEF prepare_manifest
<1>5. CASE copy_config BY Zenon, <1>5 DEF copy_config
<1>6. CASE wifi_down BY Zenon, <1>6 DEF wifi_down
<1>7. CASE choose BY Zenon, <1>7 DEF choose
<1>8. CASE select_cmdline BY Zenon, <1>8 DEF select_cmdline
<1>9. CASE select_prefix BY Zenon, <1>9 DEF select_prefix
<1>10. CASE save_pending BY Zenon, <1>10 DEF save_pending
<1>11. CASE reboot BY Zenon, <1>11 DEF reboot
<1>12. CASE check_stage BY Zenon, <1>12 DEF check_stage
<1>13. CASE run_stage BY Zenon, <1>13 DEF run_stage
<1>14. CASE mark_complete BY Zenon, <1>14 DEF mark_complete
<1>15. CASE clear_active BY Zenon, <1>15 DEF clear_active
<1>16. CASE analyze BY Zenon, <1>16 DEF analyze
<1>17. CASE worker_restores BY Zenon, <1>17, RestoreFacts DEF worker_restores
<1>18. CASE save_complete BY Zenon, <1>18 DEF save_complete
<1>19. CASE disable_service BY Zenon, <1>19 DEF disable_service
<1>20. CASE fail BY Zenon, <1>20 DEF fail
<1>21. CASE full BY Zenon, <1>21 DEF full
<1>22. CASE boot BY <1>22, Zenon DEF boot
<1>23. CASE command_fails BY Zenon, <1>23 DEF command_fails
<1>24. CASE worker_killed BY Zenon, <1>24 DEF worker_killed
<1>25. CASE power_lost BY Zenon, <1>25 DEF power_lost
<1>26. CASE stop BY Zenon, <1>26 DEF stop, Ready
<1>27. CASE stop_service BY Zenon, <1>27 DEF stop_service
<1>28. CASE stop_restores BY Zenon, <1>28, RestoreFacts DEF stop_restores
<1>29. CASE stop_saved BY Zenon, <1>29 DEF stop_saved
<1>30. CASE resume BY Zenon, <1>30 DEF resume, Ready
<1>31. CASE resume_saved BY Zenon, <1>31 DEF resume_saved
<1>32. CASE resume_refused BY Zenon, <1>32 DEF resume_refused
<1>33. CASE resume_starts BY Zenon, <1>33 DEF resume_starts
<1>34. CASE UNCHANGED vars BY Zenon, <1>34 DEF vars
<1> HIDE DEF Setting, Places, RestoringPlaces, check, boot_matches,
             Worker, Operator, Uncut, NoFault, Fail, Save, Goto, DiskFields
<1> QED BY <1>1, <1>2, <1>3, <1>4, <1>5, <1>6, <1>7, <1>8, <1>9, <1>10, <1>11,
           <1>12, <1>13, <1>14, <1>15, <1>16, <1>17, <1>18, <1>19, <1>20, <1>21,
           <1>22, <1>23, <1>24, <1>25, <1>26, <1>27, <1>28, <1>29, <1>30, <1>31,
           <1>32, <1>33, <1>34, Zenon
        DEF Next, worker, Rest

\* No step forgets a stage that was started and is not complete.
LEMMA AcquisitionKept ==
    DOMAIN disk = DiskFields /\ started \in [Stages -> Nat] /\ ~Hasty /\ Places
        /\ Acquisition /\ [Next]_vars
      => Acquisition'
<1> SUFFICES ASSUME DOMAIN disk = DiskFields, started \in [Stages -> Nat], ~Hasty,
                    Places, Acquisition, [Next]_vars
             PROVE  Acquisition'
  BY Zenon
<1> USE NoneIsNoStage
<1> USE DEF Acquisition, Places,
            Worker, Operator, Uncut, NoFault, Fail, Save, Goto, DiskFields
<1>1. CASE start_worker BY <1>1, Zenon DEF start_worker
<1>2. CASE refresh_boot_config BY Zenon, <1>2 DEF refresh_boot_config
<1>3. CASE prepare_adapters BY Zenon, <1>3 DEF prepare_adapters
<1>4. CASE prepare_manifest BY Zenon, <1>4 DEF prepare_manifest
<1>5. CASE copy_config BY Zenon, <1>5 DEF copy_config
<1>6. CASE wifi_down BY Zenon, <1>6 DEF wifi_down
<1>7. CASE choose BY Zenon, <1>7 DEF choose, pending
<1>8. CASE select_cmdline BY Zenon, <1>8 DEF select_cmdline
<1>9. CASE select_prefix BY Zenon, <1>9 DEF select_prefix
<1>10. CASE save_pending BY Zenon, <1>10 DEF save_pending
<1>11. CASE reboot BY Zenon, <1>11 DEF reboot
<1>12. CASE check_stage BY <1>12 DEF check_stage
<1>13. CASE run_stage BY <1>13 DEF run_stage
<1>14. CASE mark_complete BY Zenon, <1>14 DEF mark_complete
<1>15. CASE clear_active BY Zenon, <1>15 DEF clear_active
<1>16. CASE analyze BY Zenon, <1>16 DEF analyze
<1>17. CASE worker_restores BY <1>17, RestoreFacts DEF worker_restores
<1>18. CASE save_complete BY Zenon, <1>18 DEF save_complete
<1>19. CASE disable_service BY Zenon, <1>19 DEF disable_service
<1>20. CASE fail BY Zenon, <1>20 DEF fail
<1>21. CASE full BY Zenon, <1>21 DEF full
<1>22. CASE boot BY <1>22, Zenon DEF boot
<1>23. CASE command_fails BY Zenon, <1>23 DEF command_fails
<1>24. CASE worker_killed BY Zenon, <1>24 DEF worker_killed
<1>25. CASE power_lost BY Zenon, <1>25 DEF power_lost
<1>26. CASE stop BY Zenon, <1>26 DEF stop, Ready
<1>27. CASE stop_service BY Zenon, <1>27 DEF stop_service
<1>28. CASE stop_restores BY <1>28, RestoreFacts DEF stop_restores
<1>29. CASE stop_saved BY Zenon, <1>29 DEF stop_saved
<1>30. CASE resume BY Zenon, <1>30 DEF resume, Ready
<1>31. CASE resume_saved BY Zenon, <1>31 DEF resume_saved
<1>32. CASE resume_refused BY Zenon, <1>32 DEF resume_refused
<1>33. CASE resume_starts BY Zenon, <1>33 DEF resume_starts
<1>34. CASE UNCHANGED vars BY Zenon, <1>34 DEF vars
<1> HIDE DEF Acquisition, Places,
             Worker, Operator, Uncut, NoFault, Fail, Save, Goto, DiskFields
<1> QED BY ZenonT(30), <1>1, <1>2, <1>3, <1>4, <1>5, <1>6, <1>7, <1>8, <1>9, <1>10, <1>11,
           <1>12, <1>13, <1>14, <1>15, <1>16, <1>17, <1>18, <1>19, <1>20, <1>21,
           <1>22, <1>23, <1>24, <1>25, <1>26, <1>27, <1>28, <1>29, <1>30, <1>31,
           <1>32, <1>33, <1>34, Zenon
        DEF Next, worker, Rest

\* The invariant of the pipeline, for any interrupt numbers and any numbers of
\* crashes, kills, failing commands, unexpected boots and operator commands.
THEOREM PipelineInvariance == Spec => []IInv
<1>1. Init => IInv
  <2> SUFFICES ASSUME Init PROVE IInv OBVIOUS
  <2>1. DOMAIN disk = DiskFields /\ started \in [Stages -> Nat]
    BY Zenon DEF Init, DiskFields
  <2>2. Places /\ Setting BY Zenon DEF Init, Places, RestoringPlaces, Setting
  <2>3. Restoration BY Zenon DEF Init, Restoration, RestoringPlaces, FilesRestored
  <2>4. Acquisition BY DEF Init, Acquisition
  <2> QED BY Zenon, <2>1, <2>2, <2>3, <2>4 DEF IInv
<1>2. IInv /\ [Next]_vars => IInv'
  <2> SUFFICES ASSUME IInv, [Next]_vars PROVE IInv' BY Zenon
  <2> USE DEF IInv
  <2>1. (DOMAIN disk = DiskFields /\ started \in [Stages -> Nat])'
    BY Zenon, FieldsKept
  <2>2. Places' /\ Restoration' /\ Setting'
    BY PlacesKept, RestorationKept, SettingKept
  <2>3. Hasty \/ Acquisition' BY Zenon, AcquisitionKept
  <2> QED BY Zenon, <2>1, <2>2, <2>3
<1> QED BY <1>1, <1>2, PTL DEF Spec

\* A stage is captured only in the setting it was designed for (reproduce.py
\* check, pipeline.py refresh_boot_config and worker).
THEOREM StagesAreSetUp == Spec => []CapturedAsDesigned
<1>1. IInv => CapturedAsDesigned BY Zenon DEF IInv, Setting, check, CapturedAsDesigned
<1> QED BY <1>1, PipelineInvariance, PTL

\* The machine boots as before once a campaign has ended (pipeline.py
\* restore_system, worker and control).
THEOREM MachineIsRestored == Spec => []BootRestored
<1>1. IInv => BootRestored
  BY Zenon DEF IInv, Restoration, RestoringPlaces, FilesRestored, BootRestored
<1> QED BY <1>1, PipelineInvariance, PTL

\* No stage is captured twice, provided that resume is called when the worker
\* has ended (pipeline.py worker and control).
THEOREM NoStageTwice ==
    ASSUME ~Hasty PROVE Spec => []StartedOnce
<1>1. IInv => StartedOnce BY DEF IInv, Acquisition, StartedOnce
<1> QED BY <1>1, PipelineInvariance, PTL

=============================================================================
