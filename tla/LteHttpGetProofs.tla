-------------------------- MODULE LteHttpGetProofs --------------------------
(***************************************************************************)
(* Theorems about samples/lte_http_get.c, for any number of recovery       *)
(* threads, session ids, failing calls and restarts of the modem.          *)
(***************************************************************************)
EXTENDS LteHttpGet, TLAPS

StartReasons == {"user", "version"}
Starting     == {"mq_create", "init", "set_report", "power_on"}

(* The callback thread carries a notification of the modem's start.        *)
Carried == cb_pc \in {"called", "mq_open", "mq_send"} /\ cb_reason \in StartReasons

(* What the callback does with its reason.                                 *)
CarriesOK ==
  /\ cb_pc \in {"mq_open", "mq_send"} => cb_reason \in StartReasons

(* One start, one notification of it: where it is, nothing else is.  A     *)
(* modem that is off has none on its way when main() switches it on.       *)
Undelivered(r) == events[r] > 0
Quiet == ~Undelivered("user") /\ ~Undelivered("version") /\ ~Carried /\ queue = <<>>
OneStart ==
  /\ power = "booting" => Quiet
  /\ pc \in Starting /\ power = "off" => Quiet
  /\ events["user"] + events["version"] <= 1
  /\ Undelivered("user") \/ Undelivered("version") => ~Carried /\ queue = <<>>
  /\ Carried => queue = <<>>

(* While main() waits, what is on its way says how the modem started.      *)
Truthful ==
  pc = "wait" =>
    /\ power # "off"
    /\ power = "on" => /\ ~Undelivered("version")
                       /\ Carried => cb_reason = "user"
                       /\ queue # <<>> => Head(queue) = "user"
    /\ power = "mismatch" => /\ ~Undelivered("user")
                             /\ Carried => cb_reason = "version"
                             /\ queue # <<>> => Head(queue) = "version"

(* main() switches the modem on with the library under it.                 *)
LibraryUp == pc \in {"set_report", "power_on"} => lib

(* main() switches the modem on with its callback registered.              *)
Registered == pc \in {"power_on", "wait"} => registered

(* A main() that has registered its callback comes to its end through      *)
(* lte_finalize, and nothing comes up again after that.                    *)
StaysDown ==
  /\ pc \in {"mq_create", "init", "set_report"} => ~armed
  /\ pc \in {"delete", "end"} /\ armed /\ ~refused =>
       power = "off" /\ ~lib /\ events = NoEvents

HttpInv == /\ TypeOK /\ LibraryUp /\ CarriesOK /\ OneStart /\ Truthful
           /\ HoldsActiveSession /\ StaysDown /\ Registered /\ StartWillBeReported

USE DEF mainVars, queueVars, cbVars, modemVars, historyVars, boundVars,
        Fault, NoFault, Fails, Running, NoSession

(* Before main() runs.                                                     *)
LEMMA HttpInvInit == Init => HttpInv
<1> SUFFICES ASSUME Init PROVE HttpInv
  OBVIOUS
<1>1. session \in Sessions \cup {NoSession} /\ ModemOK
  BY DEF Init, ModemOK
<1>5. queue \in Seq({"user", "version"}) /\ Len(queue) = 0
  BY DEF Init
<1>6. events \in [Reasons -> Nat] /\ recovery \in [Threads -> RecoveryPcs]
  BY DEF Init, NoEvents, RecoveryPcs
<1>7. power \in {"off", "booting", "on", "mismatch"}
  BY DEF Init
<1>8. ValuesOK
  BY <1>1, <1>5, <1>6, <1>7, HttpConstants
     DEF Init, ValuesOK, MainPcs, CbPcs, Reasons, MaxQueueMsg
<1>2. FlagsOK
  BY DEF Init, FlagsOK
<1>3. CarriesOK /\ OneStart /\ Truthful
  BY DEF Init, CarriesOK, OneStart, Truthful, Quiet, Undelivered, Carried, NoEvents,
     Reasons, StartReasons, Starting
<1>4. LibraryUp /\ HoldsActiveSession /\ StaysDown /\ Registered /\ StartWillBeReported
  BY DEF Init, LibraryUp, HoldsActiveSession, StaysDown, Registered, StartWillBeReported
<1> QED
  BY <1>1, <1>2, <1>3, <1>4, <1>8 DEF HttpInv, TypeOK

(* Every step leaves the flags Boolean.                                    *)
LEMMA FlagsKept ==
  ASSUME FlagsOK, [Next]_vars PROVE FlagsOK'
<1> USE DEF FlagsOK
<1>1. CASE app_mq_create
  BY Zenon, <1>1 DEF app_mq_create, Unmoved, AtMain, Goto
<1>2. CASE lte_initialize
  BY Zenon, <1>2 DEF lte_initialize, AtMain, Goto
<1>3. CASE lte_set_report_restart
  BY Zenon, <1>3 DEF lte_set_report_restart, AtMain, Goto
<1>4. CASE lte_power_on
  BY Zenon, <1>4 DEF lte_power_on, AtMain, Goto
<1>5. CASE app_wait_lte_callback
  BY Zenon, <1>5 DEF app_wait_lte_callback, Unmoved, AtMain
<1>6. CASE lte_set_report_localtime
  BY Zenon, <1>6 DEF lte_set_report_localtime, Unmoved, AtMain, Goto
<1>7. CASE lte_radio_on_sync
  BY Zenon, <1>7 DEF lte_radio_on_sync, AtMain, Goto, RadioTurnsOn,
     RadioCanTurnOn
<1>8. CASE app_get_sessionid
  BY Zenon, <1>8 DEF app_get_sessionid, Unmoved, AtMain, Goto
<1>9. CASE lte_activate_pdn_sync
  BY Zenon, <1>9 DEF lte_activate_pdn_sync, AtMain, Goto, Activates,
     CanActivate
<1>10. CASE webclient_perform
  BY Zenon, <1>10 DEF webclient_perform, Unmoved, AtMain, Goto
<1>11. CASE lte_deactivate_pdn_sync
  BY Zenon, <1>11 DEF lte_deactivate_pdn_sync, AtMain, Goto
<1>12. CASE lte_radio_off_sync
  BY Zenon, <1>12 DEF lte_radio_off_sync, AtMain, Goto
<1>13. CASE lte_power_off
  BY Zenon, <1>13 DEF lte_power_off, AtMain, Goto, NoEvents
<1>14. CASE lte_finalize
  BY Zenon, <1>14 DEF lte_finalize, AtMain, Goto, ShutDown, NoEvents
<1>15. CASE GiveUp
  BY Zenon, <1>15 DEF GiveUp, AtMain, Goto, ShutDown, NoEvents
<1>16. CASE app_mq_delete
  BY Zenon, <1>16 DEF app_mq_delete, Unmoved, AtMain, Goto
<1>17. CASE Boot
  BY Zenon, <1>17 DEF Boot, Notify
<1>18. CASE SelfRestart
  BY Zenon, <1>18 DEF SelfRestart, Notify
<1>19. ASSUME NEW r \in Reasons, Deliver(r) PROVE FlagsOK'
  BY Zenon, <1>19 DEF Deliver
<1>20. CASE app_restart_cb
  BY Zenon, <1>20 DEF app_restart_cb, CbUnchanged
<1>21. CASE NotifyOpen
  BY Zenon, <1>21 DEF NotifyOpen, CbUnchanged
<1>22. CASE NotifySend
  BY Zenon, <1>22 DEF NotifySend, CbUnchanged, MaxQueueMsg
<1>23. CASE CreateThread
  BY Zenon, <1>23 DEF CreateThread, CbUnchanged
<1>24. ASSUME NEW t \in Threads, RecoveryLocaltime(t) PROVE FlagsOK'
  BY Zenon, <1>24 DEF RecoveryLocaltime, RecoveryStep
<1>25. ASSUME NEW t \in Threads, RecoveryRadioOn(t) PROVE FlagsOK'
  BY Zenon, <1>25 DEF RecoveryRadioOn, RecoveryStep, RadioTurnsOn,
     RadioCanTurnOn
<1>26. ASSUME NEW t \in Threads, RecoveryActivate(t) PROVE FlagsOK'
  BY Zenon, <1>26 DEF RecoveryActivate, RecoveryStep, Activates, CanActivate
<1>27. CASE UNCHANGED vars
  BY Zenon, <1>27 DEF vars
<1> QED
  BY <1>1, <1>2, <1>3, <1>4, <1>5, <1>6, <1>7, <1>8, <1>9, <1>10, <1>11,
     <1>12, <1>13, <1>14, <1>15, <1>16, <1>17, <1>18, <1>19, <1>20, <1>21,
     <1>22, <1>23, <1>24, <1>25, <1>26, <1>27
     DEF Next, SetUp, Attach, TearDown, Callback, Recovery

(* Every step leaves the other variables of their types.                   *)
LEMMA ValuesKept ==
  ASSUME ValuesOK, CarriesOK, [Next]_vars PROVE ValuesOK'
<1> USE HttpConstants DEF ValuesOK, MainPcs, CbPcs, RecoveryPcs, Reasons, MaxQueueMsg
<1>1. CASE app_mq_create
  BY <1>1 DEF app_mq_create, Unmoved, AtMain, Goto
<1>2. CASE lte_initialize
  BY <1>2 DEF lte_initialize, AtMain, Goto
<1>3. CASE lte_set_report_restart
  BY <1>3 DEF lte_set_report_restart, AtMain, Goto
<1>4. CASE lte_power_on
  BY <1>4 DEF lte_power_on, AtMain, Goto
<1>5. CASE app_wait_lte_callback
  BY <1>5 DEF app_wait_lte_callback, Unmoved, AtMain
<1>6. CASE lte_set_report_localtime
  BY <1>6 DEF lte_set_report_localtime, Unmoved, AtMain, Goto
<1>7. CASE lte_radio_on_sync
  BY <1>7 DEF lte_radio_on_sync, AtMain, Goto, RadioTurnsOn, RadioCanTurnOn
<1>8. CASE app_get_sessionid
  BY <1>8 DEF app_get_sessionid, Unmoved, AtMain, Goto
<1>9. CASE lte_activate_pdn_sync
  BY <1>9 DEF lte_activate_pdn_sync, AtMain, Goto, Activates, CanActivate
<1>10. CASE webclient_perform
  BY <1>10 DEF webclient_perform, Unmoved, AtMain, Goto
<1>11. CASE lte_deactivate_pdn_sync
  BY <1>11 DEF lte_deactivate_pdn_sync, AtMain, Goto
<1>12. CASE lte_radio_off_sync
  BY <1>12 DEF lte_radio_off_sync, AtMain, Goto
<1>13. CASE lte_power_off
  BY <1>13 DEF lte_power_off, AtMain, Goto, NoEvents
<1>14. CASE lte_finalize
  BY <1>14 DEF lte_finalize, AtMain, Goto, ShutDown, NoEvents
<1>15. CASE GiveUp
  BY <1>15 DEF GiveUp, AtMain, Goto, ShutDown, NoEvents
<1>16. CASE app_mq_delete
  BY <1>16 DEF app_mq_delete, Unmoved, AtMain, Goto
<1>17. CASE Boot
  BY <1>17 DEF Boot, Notify
<1>18. CASE SelfRestart
  BY <1>18 DEF SelfRestart, Notify
<1>19. ASSUME NEW r \in Reasons, Deliver(r) PROVE ValuesOK'
  BY <1>19 DEF Deliver
<1>20. CASE app_restart_cb
  BY <1>20 DEF app_restart_cb, CbUnchanged
<1>21. CASE NotifyOpen
  BY <1>21 DEF NotifyOpen, CbUnchanged
<1>22. CASE NotifySend
  <2>1. queue' \in Seq({"user", "version"}) /\ Len(queue') <= MaxQueueMsg
    BY <1>22 DEF NotifySend, CbUnchanged, CarriesOK, StartReasons
  <2> QED
    BY <1>22, <2>1 DEF NotifySend, CbUnchanged
<1>23. CASE CreateThread
  BY <1>23 DEF CreateThread, CbUnchanged
<1>24. ASSUME NEW t \in Threads, RecoveryLocaltime(t) PROVE ValuesOK'
  BY <1>24 DEF RecoveryLocaltime, RecoveryStep
<1>25. ASSUME NEW t \in Threads, RecoveryRadioOn(t) PROVE ValuesOK'
  BY <1>25 DEF RecoveryRadioOn, RecoveryStep, RadioTurnsOn, RadioCanTurnOn
<1>26. ASSUME NEW t \in Threads, RecoveryActivate(t) PROVE ValuesOK'
  BY <1>26 DEF RecoveryActivate, RecoveryStep, Activates, CanActivate
<1>27. CASE UNCHANGED vars
  BY <1>27 DEF vars
<1> QED
  BY <1>1, <1>2, <1>3, <1>4, <1>5, <1>6, <1>7, <1>8, <1>9, <1>10, <1>11,
     <1>12, <1>13, <1>14, <1>15, <1>16, <1>17, <1>18, <1>19, <1>20, <1>21,
     <1>22, <1>23, <1>24, <1>25, <1>26, <1>27
     DEF Next, SetUp, Attach, TearDown, Callback, Recovery

(* The modem keeps the library under it and the radio under its session.   *)
LEMMA ModemKept ==
  ASSUME TypeOK, LibraryUp, [Next]_vars PROVE ModemOK'
<1> USE HttpConstants DEF TypeOK, FlagsOK, ValuesOK, ModemOK, LibraryUp
<1>1. CASE app_mq_create
  BY <1>1 DEF app_mq_create, Unmoved, AtMain, Goto
<1>2. CASE lte_initialize
  BY <1>2 DEF lte_initialize, AtMain, Goto
<1>3. CASE lte_set_report_restart
  BY <1>3 DEF lte_set_report_restart, AtMain, Goto
<1>4. CASE lte_power_on
  BY <1>4 DEF lte_power_on, AtMain, Goto
<1>5. CASE app_wait_lte_callback
  BY <1>5 DEF app_wait_lte_callback, Unmoved, AtMain
<1>6. CASE lte_set_report_localtime
  BY <1>6 DEF lte_set_report_localtime, Unmoved, AtMain, Goto
<1>7. CASE lte_radio_on_sync
  BY <1>7 DEF lte_radio_on_sync, AtMain, Goto, RadioTurnsOn, RadioCanTurnOn
<1>8. CASE app_get_sessionid
  BY <1>8 DEF app_get_sessionid, Unmoved, AtMain, Goto
<1>9. CASE lte_activate_pdn_sync
  BY <1>9 DEF lte_activate_pdn_sync, AtMain, Goto, Activates, CanActivate
<1>10. CASE webclient_perform
  BY <1>10 DEF webclient_perform, Unmoved, AtMain, Goto
<1>11. CASE lte_deactivate_pdn_sync
  BY <1>11 DEF lte_deactivate_pdn_sync, AtMain, Goto
<1>12. CASE lte_radio_off_sync
  BY <1>12 DEF lte_radio_off_sync, AtMain, Goto
<1>13. CASE lte_power_off
  BY <1>13 DEF lte_power_off, AtMain, Goto, NoEvents
<1>14. CASE lte_finalize
  BY <1>14 DEF lte_finalize, AtMain, Goto, ShutDown, NoEvents
<1>15. CASE GiveUp
  BY <1>15 DEF GiveUp, AtMain, Goto, ShutDown, NoEvents
<1>16. CASE app_mq_delete
  BY <1>16 DEF app_mq_delete, Unmoved, AtMain, Goto
<1>17. CASE Boot
  BY <1>17 DEF Boot, Notify
<1>18. CASE SelfRestart
  BY <1>18 DEF SelfRestart, Notify
<1>19. ASSUME NEW r \in Reasons, Deliver(r) PROVE ModemOK'
  BY <1>19 DEF Deliver
<1>20. CASE app_restart_cb
  BY <1>20 DEF app_restart_cb, CbUnchanged
<1>21. CASE NotifyOpen
  BY <1>21 DEF NotifyOpen, CbUnchanged
<1>22. CASE NotifySend
  BY <1>22 DEF NotifySend, CbUnchanged, MaxQueueMsg
<1>23. CASE CreateThread
  BY <1>23 DEF CreateThread, CbUnchanged
<1>24. ASSUME NEW t \in Threads, RecoveryLocaltime(t) PROVE ModemOK'
  BY <1>24 DEF RecoveryLocaltime, RecoveryStep
<1>25. ASSUME NEW t \in Threads, RecoveryRadioOn(t) PROVE ModemOK'
  BY <1>25 DEF RecoveryRadioOn, RecoveryStep, RadioTurnsOn, RadioCanTurnOn
<1>26. ASSUME NEW t \in Threads, RecoveryActivate(t) PROVE ModemOK'
  BY <1>26 DEF RecoveryActivate, RecoveryStep, Activates, CanActivate
<1>27. CASE UNCHANGED vars
  BY <1>27 DEF vars
<1> QED
  BY <1>1, <1>2, <1>3, <1>4, <1>5, <1>6, <1>7, <1>8, <1>9, <1>10, <1>11,
     <1>12, <1>13, <1>14, <1>15, <1>16, <1>17, <1>18, <1>19, <1>20, <1>21,
     <1>22, <1>23, <1>24, <1>25, <1>26, <1>27
     DEF Next, SetUp, Attach, TearDown, Callback, Recovery

(* Only the ends of main() finalise the library.                           *)
LEMMA LibraryUpKept ==
  ASSUME TypeOK, LibraryUp, [Next]_vars PROVE LibraryUp'
<1> USE DEF TypeOK, FlagsOK, ValuesOK, LibraryUp
<1>1. CASE app_mq_create
  BY <1>1 DEF app_mq_create, Unmoved, AtMain, Goto
<1>2. CASE lte_initialize
  BY <1>2 DEF lte_initialize, AtMain, Goto
<1>3. CASE lte_set_report_restart
  BY <1>3 DEF lte_set_report_restart, AtMain, Goto
<1>4. CASE lte_power_on
  BY <1>4 DEF lte_power_on, AtMain, Goto
<1>5. CASE app_wait_lte_callback
  BY <1>5 DEF app_wait_lte_callback, Unmoved, AtMain
<1>6. CASE lte_set_report_localtime
  BY <1>6 DEF lte_set_report_localtime, Unmoved, AtMain, Goto
<1>7. CASE lte_radio_on_sync
  BY <1>7 DEF lte_radio_on_sync, AtMain, Goto, RadioTurnsOn, RadioCanTurnOn
<1>8. CASE app_get_sessionid
  BY <1>8 DEF app_get_sessionid, Unmoved, AtMain, Goto
<1>9. CASE lte_activate_pdn_sync
  BY <1>9 DEF lte_activate_pdn_sync, AtMain, Goto, Activates, CanActivate
<1>10. CASE webclient_perform
  BY <1>10 DEF webclient_perform, Unmoved, AtMain, Goto
<1>11. CASE lte_deactivate_pdn_sync
  BY <1>11 DEF lte_deactivate_pdn_sync, AtMain, Goto
<1>12. CASE lte_radio_off_sync
  BY <1>12 DEF lte_radio_off_sync, AtMain, Goto
<1>13. CASE lte_power_off
  BY <1>13 DEF lte_power_off, AtMain, Goto, NoEvents
<1>14. CASE lte_finalize
  BY <1>14 DEF lte_finalize, AtMain, Goto, ShutDown, NoEvents
<1>15. CASE GiveUp
  BY <1>15 DEF GiveUp, AtMain, Goto, ShutDown, NoEvents
<1>16. CASE app_mq_delete
  BY <1>16 DEF app_mq_delete, Unmoved, AtMain, Goto
<1>17. CASE Boot
  BY <1>17 DEF Boot, Notify
<1>18. CASE SelfRestart
  BY <1>18 DEF SelfRestart, Notify
<1>19. ASSUME NEW r \in Reasons, Deliver(r) PROVE LibraryUp'
  BY <1>19 DEF Deliver
<1>20. CASE app_restart_cb
  BY <1>20 DEF app_restart_cb, CbUnchanged
<1>21. CASE NotifyOpen
  BY <1>21 DEF NotifyOpen, CbUnchanged
<1>22. CASE NotifySend
  BY <1>22 DEF NotifySend, CbUnchanged, MaxQueueMsg
<1>23. CASE CreateThread
  BY <1>23 DEF CreateThread, CbUnchanged
<1>24. ASSUME NEW t \in Threads, RecoveryLocaltime(t) PROVE LibraryUp'
  BY <1>24 DEF RecoveryLocaltime, RecoveryStep
<1>25. ASSUME NEW t \in Threads, RecoveryRadioOn(t) PROVE LibraryUp'
  BY <1>25 DEF RecoveryRadioOn, RecoveryStep, RadioTurnsOn, RadioCanTurnOn
<1>26. ASSUME NEW t \in Threads, RecoveryActivate(t) PROVE LibraryUp'
  BY <1>26 DEF RecoveryActivate, RecoveryStep, Activates, CanActivate
<1>27. CASE UNCHANGED vars
  BY <1>27 DEF vars
<1> QED
  BY <1>1, <1>2, <1>3, <1>4, <1>5, <1>6, <1>7, <1>8, <1>9, <1>10, <1>11,
     <1>12, <1>13, <1>14, <1>15, <1>16, <1>17, <1>18, <1>19, <1>20, <1>21,
     <1>22, <1>23, <1>24, <1>25, <1>26, <1>27
     DEF Next, SetUp, Attach, TearDown, Callback, Recovery

(* app_restart_cb notifies main() of starts only.                          *)
LEMMA CarriesKept ==
  ASSUME TypeOK, CarriesOK, [Next]_vars PROVE CarriesOK'
<1> USE DEF TypeOK, ValuesOK, CarriesOK, StartReasons, Reasons
<1>1. CASE app_mq_create
  BY <1>1 DEF app_mq_create, Unmoved, AtMain, Goto
<1>2. CASE lte_initialize
  BY <1>2 DEF lte_initialize, AtMain, Goto
<1>3. CASE lte_set_report_restart
  BY <1>3 DEF lte_set_report_restart, AtMain, Goto
<1>4. CASE lte_power_on
  BY <1>4 DEF lte_power_on, AtMain, Goto
<1>5. CASE app_wait_lte_callback
  BY <1>5 DEF app_wait_lte_callback, Unmoved, AtMain
<1>6. CASE lte_set_report_localtime
  BY <1>6 DEF lte_set_report_localtime, Unmoved, AtMain, Goto
<1>7. CASE lte_radio_on_sync
  BY <1>7 DEF lte_radio_on_sync, AtMain, Goto, RadioTurnsOn, RadioCanTurnOn
<1>8. CASE app_get_sessionid
  BY <1>8 DEF app_get_sessionid, Unmoved, AtMain, Goto
<1>9. CASE lte_activate_pdn_sync
  BY <1>9 DEF lte_activate_pdn_sync, AtMain, Goto, Activates, CanActivate
<1>10. CASE webclient_perform
  BY <1>10 DEF webclient_perform, Unmoved, AtMain, Goto
<1>11. CASE lte_deactivate_pdn_sync
  BY <1>11 DEF lte_deactivate_pdn_sync, AtMain, Goto
<1>12. CASE lte_radio_off_sync
  BY <1>12 DEF lte_radio_off_sync, AtMain, Goto
<1>13. CASE lte_power_off
  BY <1>13 DEF lte_power_off, AtMain, Goto, NoEvents
<1>14. CASE lte_finalize
  BY <1>14 DEF lte_finalize, AtMain, Goto, ShutDown, NoEvents
<1>15. CASE GiveUp
  BY <1>15 DEF GiveUp, AtMain, Goto, ShutDown, NoEvents
<1>16. CASE app_mq_delete
  BY <1>16 DEF app_mq_delete, Unmoved, AtMain, Goto
<1>17. CASE Boot
  BY <1>17 DEF Boot, Notify
<1>18. CASE SelfRestart
  BY <1>18 DEF SelfRestart, Notify
<1>19. ASSUME NEW r \in Reasons, Deliver(r) PROVE CarriesOK'
  BY <1>19 DEF Deliver
<1>20. CASE app_restart_cb
  BY <1>20 DEF app_restart_cb, CbUnchanged
<1>21. CASE NotifyOpen
  BY <1>21 DEF NotifyOpen, CbUnchanged
<1>22. CASE NotifySend
  BY <1>22 DEF NotifySend, CbUnchanged, MaxQueueMsg
<1>23. CASE CreateThread
  BY <1>23 DEF CreateThread, CbUnchanged
<1>24. ASSUME NEW t \in Threads, RecoveryLocaltime(t) PROVE CarriesOK'
  BY <1>24 DEF RecoveryLocaltime, RecoveryStep
<1>25. ASSUME NEW t \in Threads, RecoveryRadioOn(t) PROVE CarriesOK'
  BY <1>25 DEF RecoveryRadioOn, RecoveryStep, RadioTurnsOn, RadioCanTurnOn
<1>26. ASSUME NEW t \in Threads, RecoveryActivate(t) PROVE CarriesOK'
  BY <1>26 DEF RecoveryActivate, RecoveryStep, Activates, CanActivate
<1>27. CASE UNCHANGED vars
  BY <1>27 DEF vars
<1> QED
  BY <1>1, <1>2, <1>3, <1>4, <1>5, <1>6, <1>7, <1>8, <1>9, <1>10, <1>11,
     <1>12, <1>13, <1>14, <1>15, <1>16, <1>17, <1>18, <1>19, <1>20, <1>21,
     <1>22, <1>23, <1>24, <1>25, <1>26, <1>27
     DEF Next, SetUp, Attach, TearDown, Callback, Recovery

(* The notification of the start moves from the modem to the library, the  *)
(* callback and the queue, and is never joined by another.                 *)
LEMMA OneStartKept ==
  ASSUME TypeOK, CarriesOK, OneStart, [Next]_vars PROVE OneStart'
<1> USE DEF TypeOK, ValuesOK, CarriesOK, OneStart, Quiet, Undelivered, Carried,
            StartReasons, Starting, Reasons
<1>1. CASE app_mq_create
  BY <1>1 DEF app_mq_create, Unmoved, AtMain, Goto
<1>2. CASE lte_initialize
  BY <1>2 DEF lte_initialize, AtMain, Goto
<1>3. CASE lte_set_report_restart
  BY <1>3 DEF lte_set_report_restart, AtMain, Goto
<1>4. CASE lte_power_on
  BY <1>4 DEF lte_power_on, AtMain, Goto
<1>5. CASE app_wait_lte_callback
  BY <1>5 DEF app_wait_lte_callback, Unmoved, AtMain
<1>6. CASE lte_set_report_localtime
  BY <1>6 DEF lte_set_report_localtime, Unmoved, AtMain, Goto
<1>7. CASE lte_radio_on_sync
  BY <1>7 DEF lte_radio_on_sync, AtMain, Goto, RadioTurnsOn, RadioCanTurnOn
<1>8. CASE app_get_sessionid
  BY <1>8 DEF app_get_sessionid, Unmoved, AtMain, Goto
<1>9. CASE lte_activate_pdn_sync
  BY <1>9 DEF lte_activate_pdn_sync, AtMain, Goto, Activates, CanActivate
<1>10. CASE webclient_perform
  BY <1>10 DEF webclient_perform, Unmoved, AtMain, Goto
<1>11. CASE lte_deactivate_pdn_sync
  BY <1>11 DEF lte_deactivate_pdn_sync, AtMain, Goto
<1>12. CASE lte_radio_off_sync
  BY <1>12 DEF lte_radio_off_sync, AtMain, Goto
<1>13. CASE lte_power_off
  BY <1>13 DEF lte_power_off, AtMain, Goto, NoEvents
<1>14. CASE lte_finalize
  BY <1>14 DEF lte_finalize, AtMain, Goto, ShutDown, NoEvents
<1>15. CASE GiveUp
  BY <1>15 DEF GiveUp, AtMain, Goto, ShutDown, NoEvents
<1>16. CASE app_mq_delete
  BY <1>16 DEF app_mq_delete, Unmoved, AtMain, Goto
<1>17. CASE Boot
  BY <1>17 DEF Boot, Notify
<1>18. CASE SelfRestart
  BY <1>18 DEF SelfRestart, Notify
<1>19. ASSUME NEW r \in Reasons, Deliver(r) PROVE OneStart'
  BY <1>19 DEF Deliver
<1>20. CASE app_restart_cb
  BY <1>20 DEF app_restart_cb, CbUnchanged
<1>21. CASE NotifyOpen
  BY <1>21 DEF NotifyOpen, CbUnchanged
<1>22. CASE NotifySend
  BY <1>22 DEF NotifySend, CbUnchanged, MaxQueueMsg
<1>23. CASE CreateThread
  BY <1>23 DEF CreateThread, CbUnchanged
<1>24. ASSUME NEW t \in Threads, RecoveryLocaltime(t) PROVE OneStart'
  BY <1>24 DEF RecoveryLocaltime, RecoveryStep
<1>25. ASSUME NEW t \in Threads, RecoveryRadioOn(t) PROVE OneStart'
  BY <1>25 DEF RecoveryRadioOn, RecoveryStep, RadioTurnsOn, RadioCanTurnOn
<1>26. ASSUME NEW t \in Threads, RecoveryActivate(t) PROVE OneStart'
  BY <1>26 DEF RecoveryActivate, RecoveryStep, Activates, CanActivate
<1>27. CASE UNCHANGED vars
  BY <1>27 DEF vars
<1> QED
  BY <1>1, <1>2, <1>3, <1>4, <1>5, <1>6, <1>7, <1>8, <1>9, <1>10, <1>11,
     <1>12, <1>13, <1>14, <1>15, <1>16, <1>17, <1>18, <1>19, <1>20, <1>21,
     <1>22, <1>23, <1>24, <1>25, <1>26, <1>27
     DEF Next, SetUp, Attach, TearDown, Callback, Recovery

(* The report main() waits for goes from one hand to the next.             *)
LEMMA ReportKept ==
  ASSUME TypeOK, CarriesOK, Registered, StartWillBeReported, [Next]_vars
  PROVE  Registered' /\ StartWillBeReported'
<1> USE DEF TypeOK, ValuesOK, CarriesOK, Registered, StartWillBeReported, StartReasons,
            Reasons
<1>1. CASE app_mq_create
  BY <1>1 DEF app_mq_create, Unmoved, AtMain, Goto
<1>2. CASE lte_initialize
  BY <1>2 DEF lte_initialize, AtMain, Goto
<1>3. CASE lte_set_report_restart
  BY <1>3 DEF lte_set_report_restart, AtMain, Goto
<1>4. CASE lte_power_on
  BY <1>4 DEF lte_power_on, AtMain, Goto
<1>5. CASE app_wait_lte_callback
  BY <1>5 DEF app_wait_lte_callback, Unmoved, AtMain
<1>6. CASE lte_set_report_localtime
  BY <1>6 DEF lte_set_report_localtime, Unmoved, AtMain, Goto
<1>7. CASE lte_radio_on_sync
  BY <1>7 DEF lte_radio_on_sync, AtMain, Goto, RadioTurnsOn, RadioCanTurnOn
<1>8. CASE app_get_sessionid
  BY <1>8 DEF app_get_sessionid, Unmoved, AtMain, Goto
<1>9. CASE lte_activate_pdn_sync
  BY <1>9 DEF lte_activate_pdn_sync, AtMain, Goto, Activates, CanActivate
<1>10. CASE webclient_perform
  BY <1>10 DEF webclient_perform, Unmoved, AtMain, Goto
<1>11. CASE lte_deactivate_pdn_sync
  BY <1>11 DEF lte_deactivate_pdn_sync, AtMain, Goto
<1>12. CASE lte_radio_off_sync
  BY <1>12 DEF lte_radio_off_sync, AtMain, Goto
<1>13. CASE lte_power_off
  BY <1>13 DEF lte_power_off, AtMain, Goto, NoEvents
<1>14. CASE lte_finalize
  BY <1>14 DEF lte_finalize, AtMain, Goto, ShutDown, NoEvents
<1>15. CASE GiveUp
  BY <1>15 DEF GiveUp, AtMain, Goto, ShutDown, NoEvents
<1>16. CASE app_mq_delete
  BY <1>16 DEF app_mq_delete, Unmoved, AtMain, Goto
<1>17. CASE Boot
  BY <1>17 DEF Boot, Notify
<1>18. CASE SelfRestart
  BY <1>18 DEF SelfRestart, Notify
<1>19. ASSUME NEW r \in Reasons, Deliver(r) PROVE Registered' /\ StartWillBeReported'
  BY <1>19 DEF Deliver
<1>20. CASE app_restart_cb
  BY <1>20 DEF app_restart_cb, CbUnchanged
<1>21. CASE NotifyOpen
  BY <1>21 DEF NotifyOpen, CbUnchanged
<1>22. CASE NotifySend
  BY <1>22 DEF NotifySend, CbUnchanged, MaxQueueMsg
<1>23. CASE CreateThread
  BY <1>23 DEF CreateThread, CbUnchanged
<1>24. ASSUME NEW t \in Threads, RecoveryLocaltime(t) PROVE Registered' /\ StartWillBeReported'
  BY <1>24 DEF RecoveryLocaltime, RecoveryStep
<1>25. ASSUME NEW t \in Threads, RecoveryRadioOn(t) PROVE Registered' /\ StartWillBeReported'
  BY <1>25 DEF RecoveryRadioOn, RecoveryStep, RadioTurnsOn, RadioCanTurnOn
<1>26. ASSUME NEW t \in Threads, RecoveryActivate(t) PROVE Registered' /\ StartWillBeReported'
  BY <1>26 DEF RecoveryActivate, RecoveryStep, Activates, CanActivate
<1>27. CASE UNCHANGED vars
  BY <1>27 DEF vars
<1> QED
  BY <1>1, <1>2, <1>3, <1>4, <1>5, <1>6, <1>7, <1>8, <1>9, <1>10, <1>11,
     <1>12, <1>13, <1>14, <1>15, <1>16, <1>17, <1>18, <1>19, <1>20, <1>21,
     <1>22, <1>23, <1>24, <1>25, <1>26, <1>27
     DEF Next, SetUp, Attach, TearDown, Callback, Recovery

(* The notification tells how the modem started, and the modem stays that  *)
(* way while main() waits.                                                 *)
LEMMA TruthfulKept ==
  ASSUME TypeOK, CarriesOK, OneStart, Truthful, [Next]_vars PROVE Truthful'
<1> USE DEF TypeOK, ValuesOK, CarriesOK, OneStart, Truthful, Quiet, Undelivered, Carried,
            StartReasons, Starting, Reasons
<1>1. CASE app_mq_create
  BY <1>1 DEF app_mq_create, Unmoved, AtMain, Goto
<1>2. CASE lte_initialize
  BY <1>2 DEF lte_initialize, AtMain, Goto
<1>3. CASE lte_set_report_restart
  BY <1>3 DEF lte_set_report_restart, AtMain, Goto
<1>4. CASE lte_power_on
  BY <1>4 DEF lte_power_on, AtMain, Goto
<1>5. CASE app_wait_lte_callback
  BY <1>5 DEF app_wait_lte_callback, Unmoved, AtMain
<1>6. CASE lte_set_report_localtime
  BY <1>6 DEF lte_set_report_localtime, Unmoved, AtMain, Goto
<1>7. CASE lte_radio_on_sync
  BY <1>7 DEF lte_radio_on_sync, AtMain, Goto, RadioTurnsOn, RadioCanTurnOn
<1>8. CASE app_get_sessionid
  BY <1>8 DEF app_get_sessionid, Unmoved, AtMain, Goto
<1>9. CASE lte_activate_pdn_sync
  BY <1>9 DEF lte_activate_pdn_sync, AtMain, Goto, Activates, CanActivate
<1>10. CASE webclient_perform
  BY <1>10 DEF webclient_perform, Unmoved, AtMain, Goto
<1>11. CASE lte_deactivate_pdn_sync
  BY <1>11 DEF lte_deactivate_pdn_sync, AtMain, Goto
<1>12. CASE lte_radio_off_sync
  BY <1>12 DEF lte_radio_off_sync, AtMain, Goto
<1>13. CASE lte_power_off
  BY <1>13 DEF lte_power_off, AtMain, Goto, NoEvents
<1>14. CASE lte_finalize
  BY <1>14 DEF lte_finalize, AtMain, Goto, ShutDown, NoEvents
<1>15. CASE GiveUp
  BY <1>15 DEF GiveUp, AtMain, Goto, ShutDown, NoEvents
<1>16. CASE app_mq_delete
  BY <1>16 DEF app_mq_delete, Unmoved, AtMain, Goto
<1>17. CASE Boot
  BY <1>17 DEF Boot, Notify
<1>18. CASE SelfRestart
  BY <1>18 DEF SelfRestart, Notify
<1>19. ASSUME NEW r \in Reasons, Deliver(r) PROVE Truthful'
  BY <1>19 DEF Deliver
<1>20. CASE app_restart_cb
  BY <1>20 DEF app_restart_cb, CbUnchanged
<1>21. CASE NotifyOpen
  BY <1>21 DEF NotifyOpen, CbUnchanged
<1>22. CASE NotifySend
  BY <1>22 DEF NotifySend, CbUnchanged, MaxQueueMsg
<1>23. CASE CreateThread
  BY <1>23 DEF CreateThread, CbUnchanged
<1>24. ASSUME NEW t \in Threads, RecoveryLocaltime(t) PROVE Truthful'
  BY <1>24 DEF RecoveryLocaltime, RecoveryStep
<1>25. ASSUME NEW t \in Threads, RecoveryRadioOn(t) PROVE Truthful'
  BY <1>25 DEF RecoveryRadioOn, RecoveryStep, RadioTurnsOn, RadioCanTurnOn
<1>26. ASSUME NEW t \in Threads, RecoveryActivate(t) PROVE Truthful'
  BY <1>26 DEF RecoveryActivate, RecoveryStep, Activates, CanActivate
<1>27. CASE UNCHANGED vars
  BY <1>27 DEF vars
<1> QED
  BY <1>1, <1>2, <1>3, <1>4, <1>5, <1>6, <1>7, <1>8, <1>9, <1>10, <1>11,
     <1>12, <1>13, <1>14, <1>15, <1>16, <1>17, <1>18, <1>19, <1>20, <1>21,
     <1>22, <1>23, <1>24, <1>25, <1>26, <1>27
     DEF Next, SetUp, Attach, TearDown, Callback, Recovery

(* Nobody but main() and the modem ends a session, and nobody replaces one.*)
LEMMA HoldsKept ==
  ASSUME TypeOK, HoldsActiveSession, [Next]_vars PROVE HoldsActiveSession'
<1> USE HttpConstants DEF TypeOK, ValuesOK, FlagsOK, ModemOK, HoldsActiveSession
<1>1. CASE app_mq_create
  BY <1>1 DEF app_mq_create, Unmoved, AtMain, Goto
<1>2. CASE lte_initialize
  BY <1>2 DEF lte_initialize, AtMain, Goto
<1>3. CASE lte_set_report_restart
  BY <1>3 DEF lte_set_report_restart, AtMain, Goto
<1>4. CASE lte_power_on
  BY <1>4 DEF lte_power_on, AtMain, Goto
<1>5. CASE app_wait_lte_callback
  BY <1>5 DEF app_wait_lte_callback, Unmoved, AtMain
<1>6. CASE lte_set_report_localtime
  BY <1>6 DEF lte_set_report_localtime, Unmoved, AtMain, Goto
<1>7. CASE lte_radio_on_sync
  BY <1>7 DEF lte_radio_on_sync, AtMain, Goto, RadioTurnsOn, RadioCanTurnOn
<1>8. CASE app_get_sessionid
  BY <1>8 DEF app_get_sessionid, Unmoved, AtMain, Goto
<1>9. CASE lte_activate_pdn_sync
  BY <1>9 DEF lte_activate_pdn_sync, AtMain, Goto, Activates, CanActivate
<1>10. CASE webclient_perform
  BY <1>10 DEF webclient_perform, Unmoved, AtMain, Goto
<1>11. CASE lte_deactivate_pdn_sync
  BY <1>11 DEF lte_deactivate_pdn_sync, AtMain, Goto
<1>12. CASE lte_radio_off_sync
  BY <1>12 DEF lte_radio_off_sync, AtMain, Goto
<1>13. CASE lte_power_off
  BY <1>13 DEF lte_power_off, AtMain, Goto, NoEvents
<1>14. CASE lte_finalize
  BY <1>14 DEF lte_finalize, AtMain, Goto, ShutDown, NoEvents
<1>15. CASE GiveUp
  BY <1>15 DEF GiveUp, AtMain, Goto, ShutDown, NoEvents
<1>16. CASE app_mq_delete
  BY <1>16 DEF app_mq_delete, Unmoved, AtMain, Goto
<1>17. CASE Boot
  BY <1>17 DEF Boot, Notify
<1>18. CASE SelfRestart
  BY <1>18 DEF SelfRestart, Notify
<1>19. ASSUME NEW r \in Reasons, Deliver(r) PROVE HoldsActiveSession'
  BY <1>19 DEF Deliver
<1>20. CASE app_restart_cb
  BY <1>20 DEF app_restart_cb, CbUnchanged
<1>21. CASE NotifyOpen
  BY <1>21 DEF NotifyOpen, CbUnchanged
<1>22. CASE NotifySend
  BY <1>22 DEF NotifySend, CbUnchanged, MaxQueueMsg
<1>23. CASE CreateThread
  BY <1>23 DEF CreateThread, CbUnchanged
<1>24. ASSUME NEW t \in Threads, RecoveryLocaltime(t) PROVE HoldsActiveSession'
  BY <1>24 DEF RecoveryLocaltime, RecoveryStep
<1>25. ASSUME NEW t \in Threads, RecoveryRadioOn(t) PROVE HoldsActiveSession'
  BY <1>25 DEF RecoveryRadioOn, RecoveryStep, RadioTurnsOn, RadioCanTurnOn
<1>26. ASSUME NEW t \in Threads, RecoveryActivate(t) PROVE HoldsActiveSession'
  BY <1>26 DEF RecoveryActivate, RecoveryStep, Activates, CanActivate
<1>27. CASE UNCHANGED vars
  BY <1>27 DEF vars
<1> QED
  BY <1>1, <1>2, <1>3, <1>4, <1>5, <1>6, <1>7, <1>8, <1>9, <1>10, <1>11,
     <1>12, <1>13, <1>14, <1>15, <1>16, <1>17, <1>18, <1>19, <1>20, <1>21,
     <1>22, <1>23, <1>24, <1>25, <1>26, <1>27
     DEF Next, SetUp, Attach, TearDown, Callback, Recovery

(* A finalised library notifies of nothing and a modem that is off serves  *)
(* no recovery thread.                                                     *)
LEMMA StaysDownKept ==
  ASSUME TypeOK, StaysDown, [Next]_vars PROVE StaysDown'
<1> USE DEF TypeOK, ValuesOK, FlagsOK, ModemOK, StaysDown, NoEvents
<1>1. CASE app_mq_create
  BY <1>1 DEF app_mq_create, Unmoved, AtMain, Goto
<1>2. CASE lte_initialize
  BY <1>2 DEF lte_initialize, AtMain, Goto
<1>3. CASE lte_set_report_restart
  BY <1>3 DEF lte_set_report_restart, AtMain, Goto
<1>4. CASE lte_power_on
  BY <1>4 DEF lte_power_on, AtMain, Goto
<1>5. CASE app_wait_lte_callback
  BY <1>5 DEF app_wait_lte_callback, Unmoved, AtMain
<1>6. CASE lte_set_report_localtime
  BY <1>6 DEF lte_set_report_localtime, Unmoved, AtMain, Goto
<1>7. CASE lte_radio_on_sync
  BY <1>7 DEF lte_radio_on_sync, AtMain, Goto, RadioTurnsOn, RadioCanTurnOn
<1>8. CASE app_get_sessionid
  BY <1>8 DEF app_get_sessionid, Unmoved, AtMain, Goto
<1>9. CASE lte_activate_pdn_sync
  BY <1>9 DEF lte_activate_pdn_sync, AtMain, Goto, Activates, CanActivate
<1>10. CASE webclient_perform
  BY <1>10 DEF webclient_perform, Unmoved, AtMain, Goto
<1>11. CASE lte_deactivate_pdn_sync
  BY <1>11 DEF lte_deactivate_pdn_sync, AtMain, Goto
<1>12. CASE lte_radio_off_sync
  BY <1>12 DEF lte_radio_off_sync, AtMain, Goto
<1>13. CASE lte_power_off
  BY <1>13 DEF lte_power_off, AtMain, Goto, NoEvents
<1>14. CASE lte_finalize
  BY <1>14 DEF lte_finalize, AtMain, Goto, ShutDown, NoEvents
<1>15. CASE GiveUp
  BY <1>15 DEF GiveUp, AtMain, Goto, ShutDown, NoEvents
<1>16. CASE app_mq_delete
  BY <1>16 DEF app_mq_delete, Unmoved, AtMain, Goto
<1>17. CASE Boot
  BY <1>17 DEF Boot, Notify
<1>18. CASE SelfRestart
  BY <1>18 DEF SelfRestart, Notify
<1>19. ASSUME NEW r \in Reasons, Deliver(r) PROVE StaysDown'
  BY <1>19 DEF Deliver
<1>20. CASE app_restart_cb
  BY <1>20 DEF app_restart_cb, CbUnchanged
<1>21. CASE NotifyOpen
  BY <1>21 DEF NotifyOpen, CbUnchanged
<1>22. CASE NotifySend
  BY <1>22 DEF NotifySend, CbUnchanged, MaxQueueMsg
<1>23. CASE CreateThread
  BY <1>23 DEF CreateThread, CbUnchanged
<1>24. ASSUME NEW t \in Threads, RecoveryLocaltime(t) PROVE StaysDown'
  BY <1>24 DEF RecoveryLocaltime, RecoveryStep
<1>25. ASSUME NEW t \in Threads, RecoveryRadioOn(t) PROVE StaysDown'
  BY <1>25 DEF RecoveryRadioOn, RecoveryStep, RadioTurnsOn, RadioCanTurnOn
<1>26. ASSUME NEW t \in Threads, RecoveryActivate(t) PROVE StaysDown'
  BY <1>26 DEF RecoveryActivate, RecoveryStep, Activates, CanActivate
<1>27. CASE UNCHANGED vars
  BY <1>27 DEF vars
<1> QED
  BY <1>1, <1>2, <1>3, <1>4, <1>5, <1>6, <1>7, <1>8, <1>9, <1>10, <1>11,
     <1>12, <1>13, <1>14, <1>15, <1>16, <1>17, <1>18, <1>19, <1>20, <1>21,
     <1>22, <1>23, <1>24, <1>25, <1>26, <1>27
     DEF Next, SetUp, Attach, TearDown, Callback, Recovery

(* All of it together is inductive.                                        *)
LEMMA HttpInvNext == HttpInv /\ [Next]_vars => HttpInv'
  BY FlagsKept, ValuesKept, ModemKept, LibraryUpKept, CarriesKept, OneStartKept,
     TruthfulKept, HoldsKept, StaysDownKept, ReportKept DEF HttpInv, TypeOK

LEMMA HttpInvAlways == Spec => []HttpInv
  BY HttpInvInit, HttpInvNext, PTL DEF Spec

(* TypeOK of LteHttpGet always holds.                                      *)
THEOREM HttpTypeCorrect == Spec => []TypeOK
<1>1. HttpInv => TypeOK
  BY DEF HttpInv
<1> QED
  BY HttpInvAlways, <1>1, PTL

(* The callback never finds the queue full: one start, one message.        *)
THEOREM CallbackHasRoom == Spec => []CallbackNotBlocked
<1>1. HttpInv => CallbackNotBlocked
  BY DEF HttpInv, CarriesOK, OneStart, Carried, CallbackNotBlocked, MaxQueueMsg
<1> QED
  BY HttpInvAlways, <1>1, PTL

(* main() never waits for a message that nobody will send.                 *)
THEOREM StartIsReported == Spec => []StartWillBeReported
<1>1. HttpInv => StartWillBeReported
  BY DEF HttpInv
<1> QED
  BY HttpInvAlways, <1>1, PTL

(* What main() fetches over is active unless a restart came after it.      *)
THEOREM MainHoldsActiveSession == Spec => []HoldsActiveSession
<1>1. HttpInv => HoldsActiveSession
  BY DEF HttpInv
<1> QED
  BY HttpInvAlways, <1>1, PTL

(* From the registration of its callback on, whichever call fails, main()  *)
(* ends with the modem off, unless lte_finalize itself fails.              *)
THEOREM MainLeavesModemOff == Spec => []LeavesModemOff
<1>1. HttpInv => LeavesModemOff
  BY DEF HttpInv, StaysDown, LeavesModemOff
<1> QED
  BY HttpInvAlways, <1>1, PTL

(* main() goes on only with a modem that has started and is of use.        *)
THEOREM WaitEndsWithModem == Spec => WaitedForModem
<1>1. ASSUME HttpInv, Next, pc = "wait", pc' = "localtime" PROVE power = "on"
  <2>1. app_wait_lte_callback
    BY <1>1 DEF Next, SetUp, Attach, TearDown, Callback, Recovery, Goto,
       app_mq_create, lte_initialize, lte_set_report_restart, lte_power_on,
       lte_set_report_localtime, lte_radio_on_sync, app_get_sessionid,
       lte_activate_pdn_sync, webclient_perform, lte_deactivate_pdn_sync,
       lte_radio_off_sync, lte_power_off, lte_finalize, GiveUp, app_mq_delete, Boot,
       SelfRestart, Deliver, app_restart_cb, CbUnchanged, NotifyOpen, NotifySend,
       CreateThread, RecoveryLocaltime, RecoveryRadioOn, RecoveryActivate,
       RecoveryStep, mainVars
  <2>2. queue # <<>> /\ Head(queue) # "version"
    BY <1>1, <2>1 DEF app_wait_lte_callback
  <2> QED
    BY <1>1, <2>2 DEF HttpInv, TypeOK, ValuesOK, OneStart, Quiet, Truthful
<1>2. ASSUME HttpInv, [Next]_vars
      PROVE  [pc = "wait" /\ pc' = "localtime" => power = "on"]_vars
  BY <1>1, <1>2
<1> QED
  BY <1>2, HttpInvAlways, PTL DEF Spec, WaitedForModem
=============================================================================
