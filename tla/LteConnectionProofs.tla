------------------------ MODULE LteConnectionProofs ------------------------
(***************************************************************************)
(* Theorems about connection.c, for any set of session ids and any number  *)
(* of failing library calls and restarts of the modem.                     *)
(***************************************************************************)
EXTENDS LteConnection, TLAPS

UpPcs   == {"init", "arm", "register", "power_on", "wait", "radio_on", "activate"}
DownPcs == {"deactivate", "radio_off", "power_off", "finalize"}

(* lte_finprocess runs for the caller, or to undo a failed lte_staprocess; *)
(* it never stands at a step below the level it goes down to.              *)
ControlOK ==
  /\ pc \in UpPcs => starting /\ ~failed
  /\ pc \in DownPcs => (failed <=> starting)
  /\ pc \in DownPcs /\ starting => fstop = UNINITIALIZED
  /\ pc \in DownPcs /\ ~starting => fstop = stop
  /\ pc = "finalize"   => fstop = UNINITIALIZED
  /\ pc = "power_off"  => fstop <= INITIALIZED
  /\ pc = "radio_off"  => fstop <= POWER_ON
  /\ pc = "deactivate" => fstop <= RADIO_ON

(* A notification is on its way only while the modem is up, so none is     *)
(* left over when the modem is off.  If no callback was running when       *)
(* cb_status was set, none can be called before the modem has started.     *)
ArmOK ==
  /\ event => power \in {"on", "mismatch"}
  /\ pc = "wait" => power # "off"
  /\ ~late => /\ pc \in {"register", "power_on"} /\ power = "off" =>
                    cb_status = 1 /\ cb_pc = "idle"
              /\ pc = "wait" /\ power = "booting" => cb_status = 1 /\ cb_pc = "idle"

(* A modem that is torn down below POWER_ON is off, not on its way up.     *)
OffOK ==
  pc = "idle" /\ ~lost /\ (failed \/ (~starting /\ stop < POWER_ON)) => power = "off"

(* The session that is active is the one that was stored.                  *)
StoredOK == session # NoSession => my_session_id = session

(* lte_staprocess stands at a step only to reach a level above it.         *)
UpOrderOK ==
  /\ pc = "init"     => stop >= INITIALIZED
  /\ pc \in {"arm", "register", "power_on", "wait"} => stop >= POWER_ON
  /\ pc = "radio_on" => stop >= RADIO_ON
  /\ pc = "activate" => stop = CONNECTED_PDN

(* While nothing fails, the one notification of a start is used up by the  *)
(* wait for it, which ends only then.                                      *)
OneNotification ==
  Undisturbed =>
    /\ pc # "wait" => ~event /\ cb_pc = "idle"
    /\ pc \in {"register", "power_on"} => cb_status = 1
    /\ power = "booting" => ~event /\ cb_pc = "idle" /\ (pc = "wait" => cb_status = 1)
    /\ event => cb_pc = "idle" /\ cb_status = 1
    /\ cb_pc = "called" => cb_status = 1

(* While nothing fails, every step stands at the level it starts from.     *)
StepLevel ==
  CASE pc = "idle" -> level
    [] pc = "init" -> UNINITIALIZED
    [] pc \in {"arm", "register", "power_on", "finalize"} -> INITIALIZED
    [] pc \in {"radio_on", "power_off"} -> POWER_ON
    [] pc \in {"activate", "radio_off"} -> RADIO_ON
    [] pc = "deactivate" -> CONNECTED_PDN
ExactOK ==
  Undisturbed =>
    /\ power = "booting" => pc = "wait"
    /\ pc \in DownPcs => ~starting
    /\ power # "mismatch"
    /\ IF pc = "wait"
         THEN power \in {"booting", "on"} /\ ~radio /\ session = NoSession
         ELSE Level = StepLevel

(* The steps and the levels they have reached.                             *)
LteInv == TypeOK /\ ControlOK /\ ArmOK /\ OffOK /\ StoredOK /\ UpOrderOK

USE DEF UNINITIALIZED, INITIALIZED, POWER_ON, RADIO_ON, CONNECTED_PDN, NoSession

(* Before the first call.                                                  *)
LEMMA LteInvInit == Init => LteInv /\ BringUpReached /\ TearDownReached /\ OneNotification /\ ExactOK
<1>1. Init => ValuesOK /\ ModemOK
  BY LteConstants DEF Init, ValuesOK, ModemOK, Pcs, Levels
<1>2. Init => FlagsOK
  BY Zenon DEF Init, FlagsOK
<1>3. Init => ControlOK /\ ArmOK /\ OffOK /\ StoredOK /\ UpOrderOK
  BY DEF Init, ControlOK, ArmOK, OffOK, StoredOK, UpOrderOK, UpPcs, DownPcs
<1>4. Init => BringUpReached /\ TearDownReached
  BY DEF Init, BringUpReached, TearDownReached, Level
<1>5. Init => OneNotification /\ ExactOK
  BY DEF Init, OneNotification, ExactOK, DownPcs, StepLevel, Level
<1> QED
  BY <1>1, <1>2, <1>3, <1>4, <1>5 DEF LteInv, TypeOK

(* Every step leaves the flags Boolean.                                    *)
LEMMA FlagsKept ==
  ASSUME FlagsOK, [Next]_vars PROVE FlagsOK'
<1> USE DEF FlagsOK, appVars, callVars, modemVars, historyVars, boundVars, Fault, NoFault
<1>1. CASE Boot
  BY Zenon, <1>1 DEF Boot
<1>2. CASE restart_cb
  BY Zenon, <1>2 DEF restart_cb
<1>3. CASE SelfRestart
  BY Zenon, <1>3 DEF SelfRestart
<1>4. CASE lte_staprocess
  BY Zenon, <1>4 DEF lte_staprocess, FirstStep
<1>5. CASE lte_finprocess
  BY Zenon, <1>5 DEF lte_finprocess, FirstUndo
<1>6. CASE modem_init
  BY Zenon, <1>6 DEF modem_init, Reached, Return, FirstStep
<1>7. CASE Arm
  BY Zenon, <1>7 DEF Arm
<1>8. CASE Register
  BY Zenon, <1>8 DEF Register
<1>9. CASE PowerOn
  BY Zenon, <1>9 DEF PowerOn, RollBack, FirstUndo
<1>10. CASE Poll
  BY Zenon, <1>10 DEF Poll, vars
<1>11. CASE Wait
  BY Zenon, <1>11 DEF Wait, Reached, Return, FirstStep
<1>12. CASE modem_radioon
  BY Zenon, <1>12 DEF modem_radioon, Reached, Return, FirstStep, RollBack, FirstUndo
<1>13. CASE modem_activepdn
  BY Zenon, <1>13 DEF modem_activepdn, Reached, Return, FirstStep, RollBack, FirstUndo
<1>14. CASE modem_deacvtivepdn
  BY Zenon, <1>14 DEF modem_deacvtivepdn, WentDown, Return, FirstUndo, Effect, NoEffect
<1>15. CASE modem_radiooff
  BY Zenon, <1>15 DEF modem_radiooff, WentDown, Return, FirstUndo, Effect, NoEffect
<1>16. CASE modem_pwoff
  BY Zenon, <1>16 DEF modem_pwoff, WentDown, Return, FirstUndo, Effect, NoEffect
<1>17. CASE modem_finalize
  BY Zenon, <1>17 DEF modem_finalize, WentDown, Return, Effect, NoEffect
<1>18. CASE UNCHANGED vars
  BY Zenon, <1>18 DEF vars
<1>19. CASE Deliver
  BY Zenon, <1>19 DEF Deliver
<1> QED
  BY <1>1, <1>2, <1>3, <1>4, <1>5, <1>6, <1>7, <1>8, <1>9,
     <1>10, <1>11, <1>12, <1>13, <1>14, <1>15, <1>16, <1>17, <1>18, <1>19
     DEF Next, Modem, Caller, Up, Down

(* Every step leaves the other variables of their types.                   *)
LEMMA ValuesKept ==
  ASSUME ValuesOK, [Next]_vars PROVE ValuesOK'
<1> USE LteConstants DEF ValuesOK, Pcs, Levels, appVars, callVars, modemVars, historyVars, boundVars, Fault, NoFault
<1>1. CASE Boot
  BY <1>1 DEF Boot
<1>2. CASE restart_cb
  BY <1>2 DEF restart_cb
<1>3. CASE SelfRestart
  BY <1>3 DEF SelfRestart
<1>4. CASE lte_staprocess
  BY <1>4 DEF lte_staprocess, FirstStep
<1>5. CASE lte_finprocess
  BY <1>5 DEF lte_finprocess, FirstUndo
<1>6. CASE modem_init
  BY <1>6 DEF modem_init, Reached, Return, FirstStep
<1>7. CASE Arm
  BY <1>7 DEF Arm
<1>8. CASE Register
  BY <1>8 DEF Register
<1>9. CASE PowerOn
  BY <1>9 DEF PowerOn, RollBack, FirstUndo
<1>10. CASE Poll
  BY <1>10 DEF Poll, vars
<1>11. CASE Wait
  BY <1>11 DEF Wait, Reached, Return, FirstStep
<1>12. CASE modem_radioon
  BY <1>12 DEF modem_radioon, Reached, Return, FirstStep, RollBack, FirstUndo
<1>13. CASE modem_activepdn
  BY <1>13 DEF modem_activepdn, Reached, Return, FirstStep, RollBack, FirstUndo
<1>14. CASE modem_deacvtivepdn
  BY <1>14 DEF modem_deacvtivepdn, WentDown, Return, FirstUndo, Effect, NoEffect
<1>15. CASE modem_radiooff
  BY <1>15 DEF modem_radiooff, WentDown, Return, FirstUndo, Effect, NoEffect
<1>16. CASE modem_pwoff
  BY <1>16 DEF modem_pwoff, WentDown, Return, FirstUndo, Effect, NoEffect
<1>17. CASE modem_finalize
  BY <1>17 DEF modem_finalize, WentDown, Return, Effect, NoEffect
<1>18. CASE UNCHANGED vars
  BY <1>18 DEF vars
<1>19. CASE Deliver
  BY <1>19 DEF Deliver
<1> QED
  BY <1>1, <1>2, <1>3, <1>4, <1>5, <1>6, <1>7, <1>8, <1>9,
     <1>10, <1>11, <1>12, <1>13, <1>14, <1>15, <1>16, <1>17, <1>18, <1>19
     DEF Next, Modem, Caller, Up, Down

(* Every step keeps the modem consistent.                                  *)
LEMMA ModemKept ==
  ASSUME ModemOK, [Next]_vars PROVE ModemOK'
<1> USE DEF ModemOK, appVars, callVars, modemVars, historyVars, boundVars, Fault, NoFault
<1>1. CASE Boot
  BY <1>1 DEF Boot
<1>2. CASE restart_cb
  BY <1>2 DEF restart_cb
<1>3. CASE SelfRestart
  BY <1>3 DEF SelfRestart
<1>4. CASE lte_staprocess
  BY <1>4 DEF lte_staprocess, FirstStep
<1>5. CASE lte_finprocess
  BY <1>5 DEF lte_finprocess, FirstUndo
<1>6. CASE modem_init
  BY <1>6 DEF modem_init, Reached, Return, FirstStep
<1>7. CASE Arm
  BY <1>7 DEF Arm
<1>8. CASE Register
  BY <1>8 DEF Register
<1>9. CASE PowerOn
  BY <1>9 DEF PowerOn, RollBack, FirstUndo
<1>10. CASE Poll
  BY <1>10 DEF Poll, vars
<1>11. CASE Wait
  BY <1>11 DEF Wait, Reached, Return, FirstStep
<1>12. CASE modem_radioon
  BY <1>12 DEF modem_radioon, Reached, Return, FirstStep, RollBack, FirstUndo
<1>13. CASE modem_activepdn
  BY <1>13 DEF modem_activepdn, Reached, Return, FirstStep, RollBack, FirstUndo
<1>14. CASE modem_deacvtivepdn
  BY <1>14 DEF modem_deacvtivepdn, WentDown, Return, FirstUndo, Effect, NoEffect
<1>15. CASE modem_radiooff
  BY <1>15 DEF modem_radiooff, WentDown, Return, FirstUndo, Effect, NoEffect
<1>16. CASE modem_pwoff
  BY <1>16 DEF modem_pwoff, WentDown, Return, FirstUndo, Effect, NoEffect
<1>17. CASE modem_finalize
  BY <1>17 DEF modem_finalize, WentDown, Return, Effect, NoEffect
<1>18. CASE UNCHANGED vars
  BY <1>18 DEF vars
<1>19. CASE Deliver
  BY <1>19 DEF Deliver
<1> QED
  BY <1>1, <1>2, <1>3, <1>4, <1>5, <1>6, <1>7, <1>8, <1>9,
     <1>10, <1>11, <1>12, <1>13, <1>14, <1>15, <1>16, <1>17, <1>18, <1>19
     DEF Next, Modem, Caller, Up, Down

(* Every step keeps to the order of the levels.                            *)
LEMMA ControlKept ==
  ASSUME FlagsOK, ValuesOK, ControlOK, [Next]_vars PROVE ControlOK'
<1> USE DEF FlagsOK, ValuesOK, ControlOK, UpPcs, DownPcs, Pcs, Levels,
         appVars, callVars, modemVars, historyVars, boundVars, Fault, NoFault
<1>1. CASE Boot
  BY <1>1 DEF Boot
<1>2. CASE restart_cb
  BY <1>2 DEF restart_cb
<1>3. CASE SelfRestart
  BY <1>3 DEF SelfRestart
<1>4. CASE lte_staprocess
  BY <1>4 DEF lte_staprocess, FirstStep
<1>5. CASE lte_finprocess
  BY <1>5 DEF lte_finprocess, FirstUndo
<1>6. CASE modem_init
  BY <1>6 DEF modem_init, Reached, Return, FirstStep
<1>7. CASE Arm
  BY <1>7 DEF Arm
<1>8. CASE Register
  BY <1>8 DEF Register
<1>9. CASE PowerOn
  BY <1>9 DEF PowerOn, RollBack, FirstUndo
<1>10. CASE Poll
  BY <1>10 DEF Poll, vars
<1>11. CASE Wait
  BY <1>11 DEF Wait, Reached, Return, FirstStep
<1>12. CASE modem_radioon
  BY <1>12 DEF modem_radioon, Reached, Return, FirstStep, RollBack, FirstUndo
<1>13. CASE modem_activepdn
  BY <1>13 DEF modem_activepdn, Reached, Return, FirstStep, RollBack, FirstUndo
<1>14. CASE modem_deacvtivepdn
  BY <1>14 DEF modem_deacvtivepdn, WentDown, Return, FirstUndo, Effect, NoEffect
<1>15. CASE modem_radiooff
  BY <1>15 DEF modem_radiooff, WentDown, Return, FirstUndo, Effect, NoEffect
<1>16. CASE modem_pwoff
  BY <1>16 DEF modem_pwoff, WentDown, Return, FirstUndo, Effect, NoEffect
<1>17. CASE modem_finalize
  BY <1>17 DEF modem_finalize, WentDown, Return, Effect, NoEffect
<1>18. CASE UNCHANGED vars
  BY <1>18 DEF vars
<1>19. CASE Deliver
  BY <1>19 DEF Deliver
<1> QED
  BY <1>1, <1>2, <1>3, <1>4, <1>5, <1>6, <1>7, <1>8, <1>9,
     <1>10, <1>11, <1>12, <1>13, <1>14, <1>15, <1>16, <1>17, <1>18, <1>19
     DEF Next, Modem, Caller, Up, Down

(* Every step keeps what is known of pending notifications.                *)
LEMMA ArmKept ==
  ASSUME ValuesOK, ArmOK, [Next]_vars PROVE ArmOK'
<1> USE DEF ValuesOK, ArmOK, Pcs, Levels, appVars, callVars, modemVars, historyVars, boundVars,
         Fault, NoFault
<1>1. CASE Boot
  BY <1>1 DEF Boot
<1>2. CASE restart_cb
  BY <1>2 DEF restart_cb
<1>3. CASE SelfRestart
  BY <1>3 DEF SelfRestart
<1>4. CASE lte_staprocess
  BY <1>4 DEF lte_staprocess, FirstStep
<1>5. CASE lte_finprocess
  BY <1>5 DEF lte_finprocess, FirstUndo
<1>6. CASE modem_init
  BY <1>6 DEF modem_init, Reached, Return, FirstStep
<1>7. CASE Arm
  BY <1>7 DEF Arm
<1>8. CASE Register
  BY <1>8 DEF Register
<1>9. CASE PowerOn
  BY <1>9 DEF PowerOn, RollBack, FirstUndo
<1>10. CASE Poll
  BY <1>10 DEF Poll, vars
<1>11. CASE Wait
  BY <1>11 DEF Wait, Reached, Return, FirstStep
<1>12. CASE modem_radioon
  BY <1>12 DEF modem_radioon, Reached, Return, FirstStep, RollBack, FirstUndo
<1>13. CASE modem_activepdn
  BY <1>13 DEF modem_activepdn, Reached, Return, FirstStep, RollBack, FirstUndo
<1>14. CASE modem_deacvtivepdn
  BY <1>14 DEF modem_deacvtivepdn, WentDown, Return, FirstUndo, Effect, NoEffect
<1>15. CASE modem_radiooff
  BY <1>15 DEF modem_radiooff, WentDown, Return, FirstUndo, Effect, NoEffect
<1>16. CASE modem_pwoff
  BY <1>16 DEF modem_pwoff, WentDown, Return, FirstUndo, Effect, NoEffect
<1>17. CASE modem_finalize
  BY <1>17 DEF modem_finalize, WentDown, Return, Effect, NoEffect
<1>18. CASE UNCHANGED vars
  BY <1>18 DEF vars
<1>19. CASE Deliver
  BY <1>19 DEF Deliver
<1> QED
  BY <1>1, <1>2, <1>3, <1>4, <1>5, <1>6, <1>7, <1>8, <1>9,
     <1>10, <1>11, <1>12, <1>13, <1>14, <1>15, <1>16, <1>17, <1>18, <1>19
     DEF Next, Modem, Caller, Up, Down

(* Every step leaves a modem torn down below POWER_ON off.                 *)
LEMMA OffKept ==
  ASSUME TypeOK, ControlOK, OffOK, [Next]_vars PROVE OffOK'
<1> USE DEF TypeOK, ValuesOK, ModemOK, ControlOK, UpPcs, DownPcs, OffOK, Pcs, Levels, appVars, callVars, modemVars, historyVars, boundVars,
         Fault, NoFault
<1>1. CASE Boot
  BY <1>1 DEF Boot
<1>2. CASE restart_cb
  BY <1>2 DEF restart_cb
<1>3. CASE SelfRestart
  BY <1>3 DEF SelfRestart
<1>4. CASE lte_staprocess
  BY <1>4 DEF lte_staprocess, FirstStep
<1>5. CASE lte_finprocess
  BY <1>5 DEF lte_finprocess, FirstUndo
<1>6. CASE modem_init
  BY <1>6 DEF modem_init, Reached, Return, FirstStep
<1>7. CASE Arm
  BY <1>7 DEF Arm
<1>8. CASE Register
  BY <1>8 DEF Register
<1>9. CASE PowerOn
  BY <1>9 DEF PowerOn, RollBack, FirstUndo
<1>10. CASE Poll
  BY <1>10 DEF Poll, vars
<1>11. CASE Wait
  BY <1>11 DEF Wait, Reached, Return, FirstStep
<1>12. CASE modem_radioon
  BY <1>12 DEF modem_radioon, Reached, Return, FirstStep, RollBack, FirstUndo
<1>13. CASE modem_activepdn
  BY <1>13 DEF modem_activepdn, Reached, Return, FirstStep, RollBack, FirstUndo
<1>14. CASE modem_deacvtivepdn
  BY <1>14 DEF modem_deacvtivepdn, WentDown, Return, FirstUndo, Effect, NoEffect
<1>15. CASE modem_radiooff
  BY <1>15 DEF modem_radiooff, WentDown, Return, FirstUndo, Effect, NoEffect
<1>16. CASE modem_pwoff
  BY <1>16 DEF modem_pwoff, WentDown, Return, FirstUndo, Effect, NoEffect
<1>17. CASE modem_finalize
  BY <1>17 DEF modem_finalize, WentDown, Return, Effect, NoEffect
<1>18. CASE UNCHANGED vars
  BY <1>18 DEF vars
<1>19. CASE Deliver
  BY <1>19 DEF Deliver
<1> QED
  BY <1>1, <1>2, <1>3, <1>4, <1>5, <1>6, <1>7, <1>8, <1>9,
     <1>10, <1>11, <1>12, <1>13, <1>14, <1>15, <1>16, <1>17, <1>18, <1>19
     DEF Next, Modem, Caller, Up, Down

(* Every step keeps the active session the stored one.                     *)
LEMMA StoredKept ==
  ASSUME StoredOK, [Next]_vars PROVE StoredOK'
<1> USE DEF StoredOK, appVars, callVars, modemVars, historyVars, boundVars, Fault, NoFault
<1>1. CASE Boot
  BY <1>1 DEF Boot
<1>2. CASE restart_cb
  BY <1>2 DEF restart_cb
<1>3. CASE SelfRestart
  BY <1>3 DEF SelfRestart
<1>4. CASE lte_staprocess
  BY <1>4 DEF lte_staprocess, FirstStep
<1>5. CASE lte_finprocess
  BY <1>5 DEF lte_finprocess, FirstUndo
<1>6. CASE modem_init
  BY <1>6 DEF modem_init, Reached, Return, FirstStep
<1>7. CASE Arm
  BY <1>7 DEF Arm
<1>8. CASE Register
  BY <1>8 DEF Register
<1>9. CASE PowerOn
  BY <1>9 DEF PowerOn, RollBack, FirstUndo
<1>10. CASE Poll
  BY <1>10 DEF Poll, vars
<1>11. CASE Wait
  BY <1>11 DEF Wait, Reached, Return, FirstStep
<1>12. CASE modem_radioon
  BY <1>12 DEF modem_radioon, Reached, Return, FirstStep, RollBack, FirstUndo
<1>13. CASE modem_activepdn
  BY <1>13 DEF modem_activepdn, Reached, Return, FirstStep, RollBack, FirstUndo
<1>14. CASE modem_deacvtivepdn
  BY <1>14 DEF modem_deacvtivepdn, WentDown, Return, FirstUndo, Effect, NoEffect
<1>15. CASE modem_radiooff
  BY <1>15 DEF modem_radiooff, WentDown, Return, FirstUndo, Effect, NoEffect
<1>16. CASE modem_pwoff
  BY <1>16 DEF modem_pwoff, WentDown, Return, FirstUndo, Effect, NoEffect
<1>17. CASE modem_finalize
  BY <1>17 DEF modem_finalize, WentDown, Return, Effect, NoEffect
<1>18. CASE UNCHANGED vars
  BY <1>18 DEF vars
<1>19. CASE Deliver
  BY <1>19 DEF Deliver
<1> QED
  BY <1>1, <1>2, <1>3, <1>4, <1>5, <1>6, <1>7, <1>8, <1>9,
     <1>10, <1>11, <1>12, <1>13, <1>14, <1>15, <1>16, <1>17, <1>18, <1>19
     DEF Next, Modem, Caller, Up, Down

(* Every step leaves lte_staprocess short of its goal.                     *)
LEMMA UpOrderKept ==
  ASSUME ValuesOK, UpOrderOK, [Next]_vars PROVE UpOrderOK'
<1> USE DEF ValuesOK, UpOrderOK, Pcs, Levels, appVars, callVars, modemVars, historyVars, boundVars, Fault, NoFault
<1>1. CASE Boot
  BY <1>1 DEF Boot
<1>2. CASE restart_cb
  BY <1>2 DEF restart_cb
<1>3. CASE SelfRestart
  BY <1>3 DEF SelfRestart
<1>4. CASE lte_staprocess
  BY <1>4 DEF lte_staprocess, FirstStep
<1>5. CASE lte_finprocess
  BY <1>5 DEF lte_finprocess, FirstUndo
<1>6. CASE modem_init
  BY <1>6 DEF modem_init, Reached, Return, FirstStep
<1>7. CASE Arm
  BY <1>7 DEF Arm
<1>8. CASE Register
  BY <1>8 DEF Register
<1>9. CASE PowerOn
  BY <1>9 DEF PowerOn, RollBack, FirstUndo
<1>10. CASE Poll
  BY <1>10 DEF Poll, vars
<1>11. CASE Wait
  BY <1>11 DEF Wait, Reached, Return, FirstStep
<1>12. CASE modem_radioon
  BY <1>12 DEF modem_radioon, Reached, Return, FirstStep, RollBack, FirstUndo
<1>13. CASE modem_activepdn
  BY <1>13 DEF modem_activepdn, Reached, Return, FirstStep, RollBack, FirstUndo
<1>14. CASE modem_deacvtivepdn
  BY <1>14 DEF modem_deacvtivepdn, WentDown, Return, FirstUndo, Effect, NoEffect
<1>15. CASE modem_radiooff
  BY <1>15 DEF modem_radiooff, WentDown, Return, FirstUndo, Effect, NoEffect
<1>16. CASE modem_pwoff
  BY <1>16 DEF modem_pwoff, WentDown, Return, FirstUndo, Effect, NoEffect
<1>17. CASE modem_finalize
  BY <1>17 DEF modem_finalize, WentDown, Return, Effect, NoEffect
<1>18. CASE UNCHANGED vars
  BY <1>18 DEF vars
<1>19. CASE Deliver
  BY <1>19 DEF Deliver
<1> QED
  BY <1>1, <1>2, <1>3, <1>4, <1>5, <1>6, <1>7, <1>8, <1>9,
     <1>10, <1>11, <1>12, <1>13, <1>14, <1>15, <1>16, <1>17, <1>18, <1>19
     DEF Next, Modem, Caller, Up, Down

(* Every step keeps a successful bring-up at the level reached.            *)
LEMMA BringUpKept ==
  ASSUME LteInv, BringUpReached, [Next]_vars PROVE BringUpReached'
<1> USE LteConstants DEF LteInv, TypeOK, ValuesOK, ModemOK, ControlOK, ArmOK, UpPcs, DownPcs,
         Pcs, Levels, BringUpReached, Level, appVars, callVars, modemVars, historyVars, boundVars, Fault, NoFault
<1>1. CASE Boot
  BY <1>1 DEF Boot
<1>2. CASE restart_cb
  BY <1>2 DEF restart_cb
<1>3. CASE SelfRestart
  BY <1>3 DEF SelfRestart
<1>4. CASE lte_staprocess
  BY <1>4 DEF lte_staprocess, FirstStep
<1>5. CASE lte_finprocess
  BY <1>5 DEF lte_finprocess, FirstUndo
<1>6. CASE modem_init
  BY <1>6 DEF modem_init, Reached, Return, FirstStep
<1>7. CASE Arm
  BY <1>7 DEF Arm
<1>8. CASE Register
  BY <1>8 DEF Register
<1>9. CASE PowerOn
  BY <1>9 DEF PowerOn, RollBack, FirstUndo
<1>10. CASE Poll
  BY <1>10 DEF Poll, vars
<1>11. CASE Wait
  BY <1>11 DEF Wait, Reached, Return, FirstStep
<1>12. CASE modem_radioon
  BY <1>12 DEF modem_radioon, Reached, Return, FirstStep, RollBack, FirstUndo
<1>13. CASE modem_activepdn
  BY <1>13 DEF modem_activepdn, Reached, Return, FirstStep, RollBack, FirstUndo
<1>14. CASE modem_deacvtivepdn
  BY <1>14 DEF modem_deacvtivepdn, WentDown, Return, FirstUndo, Effect, NoEffect
<1>15. CASE modem_radiooff
  BY <1>15 DEF modem_radiooff, WentDown, Return, FirstUndo, Effect, NoEffect
<1>16. CASE modem_pwoff
  BY <1>16 DEF modem_pwoff, WentDown, Return, FirstUndo, Effect, NoEffect
<1>17. CASE modem_finalize
  BY <1>17 DEF modem_finalize, WentDown, Return, Effect, NoEffect
<1>18. CASE UNCHANGED vars
  BY <1>18 DEF vars
<1>19. CASE Deliver
  BY <1>19 DEF Deliver
<1> QED
  BY <1>1, <1>2, <1>3, <1>4, <1>5, <1>6, <1>7, <1>8, <1>9,
     <1>10, <1>11, <1>12, <1>13, <1>14, <1>15, <1>16, <1>17, <1>18, <1>19
     DEF Next, Modem, Caller, Up, Down

(* Every step keeps a torn down modem at the level reached.                *)
LEMMA TearDownKept ==
  ASSUME LteInv, TearDownReached, [Next]_vars PROVE TearDownReached'
<1> USE DEF LteInv, TypeOK, ValuesOK, ModemOK, ControlOK, ArmOK, OffOK, StoredOK, UpPcs,
         DownPcs, Pcs, Levels, TearDownReached, Level, appVars, callVars, modemVars, historyVars, boundVars, Fault, NoFault
<1>1. CASE Boot
  BY <1>1 DEF Boot
<1>2. CASE restart_cb
  BY <1>2 DEF restart_cb
<1>3. CASE SelfRestart
  BY <1>3 DEF SelfRestart
<1>4. CASE lte_staprocess
  BY <1>4 DEF lte_staprocess, FirstStep
<1>5. CASE lte_finprocess
  BY <1>5 DEF lte_finprocess, FirstUndo
<1>6. CASE modem_init
  BY <1>6 DEF modem_init, Reached, Return, FirstStep
<1>7. CASE Arm
  BY <1>7 DEF Arm
<1>8. CASE Register
  BY <1>8 DEF Register
<1>9. CASE PowerOn
  BY <1>9 DEF PowerOn, RollBack, FirstUndo
<1>10. CASE Poll
  BY <1>10 DEF Poll, vars
<1>11. CASE Wait
  BY <1>11 DEF Wait, Reached, Return, FirstStep
<1>12. CASE modem_radioon
  BY <1>12 DEF modem_radioon, Reached, Return, FirstStep, RollBack, FirstUndo
<1>13. CASE modem_activepdn
  BY <1>13 DEF modem_activepdn, Reached, Return, FirstStep, RollBack, FirstUndo
<1>14. CASE modem_deacvtivepdn
  BY <1>14 DEF modem_deacvtivepdn, WentDown, Return, FirstUndo, Effect, NoEffect
<1>15. CASE modem_radiooff
  BY <1>15 DEF modem_radiooff, WentDown, Return, FirstUndo, Effect, NoEffect
<1>16. CASE modem_pwoff
  BY <1>16 DEF modem_pwoff, WentDown, Return, FirstUndo, Effect, NoEffect
<1>17. CASE modem_finalize
  BY <1>17 DEF modem_finalize, WentDown, Return, Effect, NoEffect
<1>18. CASE UNCHANGED vars
  BY <1>18 DEF vars
<1>19. CASE Deliver
  BY <1>19 DEF Deliver
<1> QED
  BY <1>1, <1>2, <1>3, <1>4, <1>5, <1>6, <1>7, <1>8, <1>9,
     <1>10, <1>11, <1>12, <1>13, <1>14, <1>15, <1>16, <1>17, <1>18, <1>19
     DEF Next, Modem, Caller, Up, Down

(* While nothing fails no notification and no callback is left over.       *)
LEMMA NotificationKept ==
  ASSUME LteInv, OneNotification, ExactOK, [Next]_vars PROVE OneNotification'
<1> USE DEF LteInv, TypeOK, FlagsOK, ValuesOK, Pcs, Levels, ExactOK, OneNotification, Undisturbed,
         appVars, callVars, modemVars, historyVars, boundVars, Fault, NoFault
<1>1. CASE Boot
  BY <1>1 DEF Boot
<1>2. CASE restart_cb
  BY <1>2 DEF restart_cb
<1>3. CASE SelfRestart
  BY <1>3 DEF SelfRestart
<1>4. CASE lte_staprocess
  BY <1>4 DEF lte_staprocess, FirstStep
<1>5. CASE lte_finprocess
  BY <1>5 DEF lte_finprocess, FirstUndo
<1>6. CASE modem_init
  BY <1>6 DEF modem_init, Reached, Return, FirstStep
<1>7. CASE Arm
  BY <1>7 DEF Arm
<1>8. CASE Register
  BY <1>8 DEF Register
<1>9. CASE PowerOn
  BY <1>9 DEF PowerOn, RollBack, FirstUndo
<1>10. CASE Poll
  BY <1>10 DEF Poll, vars
<1>11. CASE Wait
  BY <1>11 DEF Wait, Reached, Return, FirstStep
<1>12. CASE modem_radioon
  BY <1>12 DEF modem_radioon, Reached, Return, FirstStep, RollBack, FirstUndo
<1>13. CASE modem_activepdn
  BY <1>13 DEF modem_activepdn, Reached, Return, FirstStep, RollBack, FirstUndo
<1>14. CASE modem_deacvtivepdn
  BY <1>14 DEF modem_deacvtivepdn, WentDown, Return, FirstUndo, Effect, NoEffect
<1>15. CASE modem_radiooff
  BY <1>15 DEF modem_radiooff, WentDown, Return, FirstUndo, Effect, NoEffect
<1>16. CASE modem_pwoff
  BY <1>16 DEF modem_pwoff, WentDown, Return, FirstUndo, Effect, NoEffect
<1>17. CASE modem_finalize
  BY <1>17 DEF modem_finalize, WentDown, Return, Effect, NoEffect
<1>18. CASE UNCHANGED vars
  BY <1>18 DEF vars
<1>19. CASE Deliver
  BY <1>19 DEF Deliver
<1> QED
  BY <1>1, <1>2, <1>3, <1>4, <1>5, <1>6, <1>7, <1>8, <1>9,
     <1>10, <1>11, <1>12, <1>13, <1>14, <1>15, <1>16, <1>17, <1>18, <1>19
     DEF Next, Modem, Caller, Up, Down

(* While nothing fails every step starts and ends at its level.            *)
LEMMA ExactKept ==
  ASSUME LteInv, OneNotification, ExactOK, [Next]_vars PROVE ExactOK'
<1> USE LteConstants DEF LteInv, TypeOK, ValuesOK, ModemOK, ControlOK, ArmOK, OffOK, StoredOK, UpPcs,
         DownPcs, Pcs, Levels, UpOrderOK, OneNotification, ExactOK, StepLevel, Undisturbed, Level, appVars, callVars, modemVars, historyVars, boundVars, Fault, NoFault
<1>1. CASE Boot
  BY <1>1 DEF Boot
<1>2. CASE restart_cb
  BY <1>2 DEF restart_cb
<1>3. CASE SelfRestart
  BY <1>3 DEF SelfRestart
<1>4. CASE lte_staprocess
  BY <1>4 DEF lte_staprocess, FirstStep
<1>5. CASE lte_finprocess
  BY <1>5 DEF lte_finprocess, FirstUndo
<1>6. CASE modem_init
  BY <1>6 DEF modem_init, Reached, Return, FirstStep
<1>7. CASE Arm
  BY <1>7 DEF Arm
<1>8. CASE Register
  BY <1>8 DEF Register
<1>9. CASE PowerOn
  BY <1>9 DEF PowerOn, RollBack, FirstUndo
<1>10. CASE Poll
  BY <1>10 DEF Poll, vars
<1>11. CASE Wait
  BY <1>11 DEF Wait, Reached, Return, FirstStep
<1>12. CASE modem_radioon
  <2>1. CASE Undisturbed'
    <3>1. Undisturbed /\ pc = "radio_on" /\ power = "on" /\ session = NoSession
      BY <1>12, <2>1 DEF modem_radioon
    <3>2. radio' = TRUE /\ Reached(RADIO_ON) /\ UNCHANGED <<power, session, starting, stop>>
      BY <1>12, <2>1, <3>1 DEF modem_radioon
    <3> QED
      BY <3>1, <3>2 DEF Reached, Return, FirstStep
  <2> QED
    BY <2>1
<1>13. CASE modem_activepdn
  BY <1>13 DEF modem_activepdn, Reached, Return, FirstStep, RollBack, FirstUndo
<1>14. CASE modem_deacvtivepdn
  BY <1>14 DEF modem_deacvtivepdn, WentDown, Return, FirstUndo, Effect, NoEffect
<1>15. CASE modem_radiooff
  BY <1>15 DEF modem_radiooff, WentDown, Return, FirstUndo, Effect, NoEffect
<1>16. CASE modem_pwoff
  BY <1>16 DEF modem_pwoff, WentDown, Return, FirstUndo, Effect, NoEffect
<1>17. CASE modem_finalize
  BY <1>17 DEF modem_finalize, WentDown, Return, Effect, NoEffect
<1>18. CASE UNCHANGED vars
  BY <1>18 DEF vars
<1>19. CASE Deliver
  BY <1>19 DEF Deliver
<1> QED
  BY <1>1, <1>2, <1>3, <1>4, <1>5, <1>6, <1>7, <1>8, <1>9,
     <1>10, <1>11, <1>12, <1>13, <1>14, <1>15, <1>16, <1>17, <1>18, <1>19
     DEF Next, Modem, Caller, Up, Down

(* The invariant holds throughout.                                         *)
LEMMA LteInvAlways == Spec => [](LteInv /\ BringUpReached /\ TearDownReached /\ OneNotification /\ ExactOK)
<1>1. ASSUME LteInv, [Next]_vars PROVE LteInv'
  BY <1>1, FlagsKept, ValuesKept, ModemKept, ControlKept, ArmKept, OffKept, StoredKept, UpOrderKept
     DEF LteInv, TypeOK
<1> QED
  BY <1>1, BringUpKept, TearDownKept, NotificationKept, ExactKept, LteInvInit, PTL DEF Spec

(* The variables keep their types, and the modem stays consistent.         *)
THEOREM LteTypeCorrect == Spec => []TypeOK
<1>1. LteInv => TypeOK
  BY DEF LteInv
<1> QED
  BY <1>1, LteInvAlways, PTL

(* An lte_staprocess that met no error has reached its level, unless the   *)
(* modem restarted meanwhile, or a callback of an earlier start cut the    *)
(* wait short and nothing above STATE_POWER_ON was asked for.              *)
THEOREM BringUpReaches == Spec => []BringUpReached
BY LteInvAlways, PTL

(* A failed lte_staprocess leaves nothing behind, and lte_finprocess goes  *)
(* all the way, unless the last of its calls failed.                       *)
THEOREM TearDownReaches == Spec => []TearDownReached
BY LteInvAlways, PTL

(* With nothing failing, the caller is right after any sequence of calls.  *)
THEOREM CallerIsRight == Spec => []BeliefRight
<1>1. ExactOK => BeliefRight
  BY DEF ExactOK, StepLevel, BeliefRight
<1> QED
  BY <1>1, LteInvAlways, PTL

(* While modem_pwron waits with its callback registered, what ends the     *)
(* wait is still to come, through the failures of other calls and restarts *)
(* of the modem: it starts, or its notification is on its way or came.     *)
AnswerIsComing ==
  pc = "wait" /\ registered => power = "booting" \/ event \/ cb_pc = "called" \/ cb_status = 0

(* The wait for a registered callback always has its end before it: the    *)
(* notification leaves the modem only to be delivered.                     *)
THEOREM AnswerComes == Spec => []AnswerIsComing
<1> USE DEF AnswerIsComing, appVars, callVars, modemVars, historyVars, boundVars
<1>1. Init => AnswerIsComing
  BY DEF Init
<1>2. ASSUME LteInv, AnswerIsComing, Next PROVE AnswerIsComing'
  <2>1. CASE Boot \/ Deliver \/ restart_cb \/ SelfRestart
    <3>1. CASE Boot
      BY Zenon, <1>2, <3>1 DEF Boot
    <3>2. CASE restart_cb
      BY Zenon, <1>2, <3>2 DEF restart_cb
    <3>3. CASE SelfRestart
      BY Zenon, <1>2, <3>3 DEF SelfRestart
    <3>4. CASE Deliver
      BY Zenon, <1>2, <3>4 DEF Deliver
    <3> QED BY <2>1, <3>1, <3>2, <3>3, <3>4
  <2>2. CASE PowerOn
    BY <2>2 DEF PowerOn, RollBack, FirstUndo
  <2>3. CASE Poll
    BY <1>2, <2>3 DEF Poll, vars
  <2>4. CASE Wait \/ modem_init \/ Arm \/ Register \/ modem_radioon \/ modem_activepdn
    <3>1. pc' # "wait"
      BY <2>4 DEF Wait, modem_init, Arm, Register, modem_radioon, modem_activepdn,
         Reached, Return, RollBack, FirstStep, FirstUndo, UNINITIALIZED
    <3> QED BY <3>1
  <2>5. CASE Caller \/ Down
    <3>1. pc' # "wait"
      BY <1>2, <2>5 DEF Caller, Down, lte_staprocess, lte_finprocess, modem_deacvtivepdn,
         modem_radiooff, modem_pwoff, modem_finalize, WentDown, Return, FirstStep, FirstUndo,
         LteInv, TypeOK, ValuesOK, Levels
    <3> QED BY <3>1
  <2> QED
    BY <1>2, <2>1, <2>2, <2>3, <2>4, <2>5 DEF Next, Modem, Up
<1>3. ASSUME LteInv, AnswerIsComing, [Next]_vars PROVE AnswerIsComing'
  BY <1>2, <1>3 DEF vars
<1> QED
  BY <1>1, <1>3, LteInvAlways, PTL DEF Spec

(* The wait ends before the modem has started only if a callback of an     *)
(* earlier start was running when cb_status was set: no notification still *)
(* on its way then, and none that comes before power on, can end it.       *)
THEOREM NoEarlyEndOfWait == Spec => WaitEndsAfterBoot
<1>1. ASSUME LteInv, Next, EndsWait, ~late PROVE power \in {"on", "mismatch"}
  <2>1. Wait
    BY <1>1 DEF EndsWait, Next, Modem, Caller, Up, Down, Boot, Deliver, restart_cb, SelfRestart,
       lte_staprocess, lte_finprocess, modem_init, Arm, Register, PowerOn, Poll,
       modem_radioon, modem_activepdn, modem_deacvtivepdn, modem_radiooff,
       modem_pwoff, modem_finalize, vars
  <2> QED
    BY <1>1, <2>1 DEF Wait, LteInv, TypeOK, ValuesOK, ArmOK
<1>2. ASSUME LteInv, [Next]_vars
      PROVE  [EndsWait /\ ~late => power \in {"on", "mismatch"}]_vars
  BY <1>1, <1>2 DEF EndsWait, vars
<1> QED
  BY <1>2, LteInvAlways, PTL DEF Spec, WaitEndsAfterBoot

(* lte_finprocess never goes further down than asked.                      *)
THEOREM NoFurtherDown == Spec => FinGoesNoFurther
<1> DEFINE Kept == Down /\ ~starting =>
                     /\ stop >= INITIALIZED => lib' = lib
                     /\ stop >= POWER_ON    => power' = power
                     /\ stop >= RADIO_ON    => radio' = radio
<1>1. ASSUME LteInv, [Next]_vars PROVE Kept
  <2> USE DEF LteInv, TypeOK, ValuesOK, Levels, ControlOK, DownPcs, Effect, NoEffect,
              modemVars
  <2>1. CASE modem_deacvtivepdn
    BY <1>1, <2>1 DEF modem_deacvtivepdn
  <2>2. CASE modem_radiooff
    BY <1>1, <2>2 DEF modem_radiooff
  <2>3. CASE modem_pwoff
    BY <1>1, <2>3 DEF modem_pwoff
  <2>4. CASE modem_finalize
    BY <1>1, <2>4 DEF modem_finalize
  <2> QED
    BY <2>1, <2>2, <2>3, <2>4 DEF Down
<1>2. ASSUME LteInv, [Next]_vars PROVE [Kept]_vars
  BY <1>1, <1>2
<1> QED
  BY <1>2, LteInvAlways, PTL DEF Spec, FinGoesNoFurther
=============================================================================
