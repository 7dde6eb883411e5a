--------------------------- MODULE LteConnection ---------------------------
(***************************************************************************)
(* connection.c: bringing the LTE modem up and down level by level with    *)
(* lte_staprocess and lte_finprocess, the restart callback that ends the   *)
(* wait for the modem's start, and a caller that, as both functions return *)
(* nothing, takes every call to have reached the level it asked for.       *)
(*                                                                         *)
(* The LTE library and the modem are not part of the repository.  They are *)
(* modelled as connection.c and samples/lte_http_get.c use and describe    *)
(* them: the restart callback comes after the modem has started if one is  *)
(* registered, lte_power_off cancels the notifications not yet delivered,  *)
(* and lte_finalize shuts the modem down.  A callback that the library's   *)
(* thread has entered is beyond cancelling: it prints before it writes,    *)
(* and anything may happen in between.                                     *)
(***************************************************************************)
EXTENDS Integers

CONSTANTS
  Sessions,     \* ids the network gives to PDN sessions
  MaxFaults,    \* bound: library calls that fail, and unusable starts
  MaxRestarts   \* bound: restarts of the modem by itself

NoSession == 0

ASSUME LteConstants ==
  /\ Sessions \subseteq Nat \ {NoSession}
  /\ MaxFaults \in Nat
  /\ MaxRestarts \in Nat

VARIABLES
  pc,            \* the step the running function is at
  starting,      \* the call running, or returned last, is lte_staprocess
  failed,        \* that lte_staprocess met an error
  stop,          \* the level the caller asked for
  fstop,         \* the level the running lte_finprocess goes down to
  level,         \* the level the caller takes the modem to be at
  cb_status,     \* 1 from before power on until the restart callback
  cb_pc,         \* the library's thread in restart_cb: "idle" or "called"
  my_session_id, \* the session to deactivate
  lib,           \* the library is initialised
  registered,    \* restart_cb is registered
  power,         \* "off", "booting", "on", or "mismatch" (started unusable)
  radio,         \* the radio is on
  session,       \* the active PDN session
  event,         \* restart notifications not yet delivered, if any
  restarted,     \* history: the modem restarted since the call began
  late,          \* history: restart_cb was running when the call set cb_status
  lost,          \* history: the last call of lte_finprocess had no effect
  faults,        \* library calls that have failed, and unusable starts
  restarts       \* restarts of the modem by itself

appVars   == <<cb_status, cb_pc, my_session_id>>
callVars  == <<starting, stop, level>>
modemVars == <<lib, registered, power, radio, session, event>>
boundVars == <<faults, restarts>>
historyVars == <<restarted, late, lost>>
vars == <<pc, failed, fstop, historyVars, appVars, callVars, modemVars, boundVars>>

UNINITIALIZED == 0
INITIALIZED   == 1
POWER_ON      == 2
RADIO_ON      == 3
CONNECTED_PDN == 4
Levels        == UNINITIALIZED..CONNECTED_PDN

Init ==
  /\ pc = "idle" /\ starting = FALSE /\ failed = FALSE
  /\ stop = UNINITIALIZED /\ fstop = UNINITIALIZED /\ level = UNINITIALIZED
  /\ cb_status = 0 /\ cb_pc = "idle" /\ my_session_id = NoSession
  /\ lib = FALSE /\ registered = FALSE /\ power = "off" /\ radio = FALSE
  /\ session = NoSession /\ event = FALSE
  /\ restarted = FALSE /\ late = FALSE /\ lost = FALSE
  /\ faults = 0 /\ restarts = 0

(* What the modem is really at.                                            *)
Level ==
  CASE session # NoSession        -> CONNECTED_PDN
    [] session = NoSession /\ radio -> RADIO_ON
    [] session = NoSession /\ ~radio /\ power \in {"on", "mismatch"} -> POWER_ON
    [] session = NoSession /\ ~radio /\ power \in {"off", "booting"} ->
         IF lib THEN INITIALIZED ELSE UNINITIALIZED

Fault   == faults < MaxFaults /\ faults' = faults + 1 /\ UNCHANGED restarts
NoFault == UNCHANGED boundVars

-----------------------------------------------------------------------------
(* The modem and the library.                                              *)
Boot ==
  /\ power = "booting"
  /\ \/ power' = "on" /\ NoFault
     \/ power' = "mismatch" /\ Fault
  /\ event' = registered
  /\ UNCHANGED <<pc, failed, fstop, historyVars, appVars, callVars, lib,
                 registered, radio, session>>

SelfRestart ==
  /\ power = "on" /\ restarts < MaxRestarts
  /\ restarts' = restarts + 1
  /\ radio' = FALSE /\ session' = NoSession
  /\ event' = (event \/ registered)
  /\ restarted' = TRUE
  /\ UNCHANGED <<pc, failed, fstop, late, lost, appVars, callVars, lib, registered,
                 power, faults>>

(* The library's thread enters the callback.                               *)
Deliver ==
  /\ event /\ cb_pc = "idle"
  /\ event' = FALSE
  /\ cb_pc' = "called"
  /\ UNCHANGED <<pc, failed, fstop, historyVars, cb_status, my_session_id, callVars,
                 lib, registered, power, radio, session, boundVars>>

restart_cbStoringReason ==
  /\ cb_pc = "called" /\ cb_pc' = "idle"
  /\ cb_status' = 2
  /\ UNCHANGED <<pc, failed, fstop, historyVars, my_session_id, callVars, modemVars,
                 boundVars>>

(* What restart_cb does, some time after it was entered: the modem may be  *)
(* off again by then, or starting anew.  The reason is only printed.       *)
restart_cb ==
  /\ cb_pc = "called" /\ cb_pc' = "idle"
  /\ cb_status' = 0
  /\ UNCHANGED <<pc, failed, fstop, historyVars, my_session_id, callVars, modemVars,
                 boundVars>>

-----------------------------------------------------------------------------
(* The caller goes up or down from the level it believes in.               *)
FirstStep(l) == CASE l = UNINITIALIZED -> "init"     [] l = INITIALIZED -> "arm"
                  [] l = POWER_ON      -> "radio_on" [] l = RADIO_ON    -> "activate"
FirstUndo(l) == CASE l = CONNECTED_PDN -> "deactivate" [] l = RADIO_ON    -> "radio_off"
                  [] l = POWER_ON      -> "power_off"  [] l = INITIALIZED -> "finalize"

lte_staprocess ==
  /\ pc = "idle"
  /\ \E s \in Levels : s > level /\ stop' = s
  /\ pc' = FirstStep(level)
  /\ starting' = TRUE /\ failed' = FALSE
  /\ restarted' = FALSE /\ late' = FALSE /\ lost' = FALSE
  /\ UNCHANGED <<fstop, level, appVars, modemVars, boundVars>>

lte_finprocess ==
  /\ pc = "idle"
  /\ \E s \in Levels : s < level /\ stop' = s /\ fstop' = s
  /\ pc' = FirstUndo(level)
  /\ starting' = FALSE /\ failed' = FALSE
  /\ restarted' = FALSE /\ late' = FALSE /\ lost' = FALSE
  /\ UNCHANGED <<level, appVars, modemVars, boundVars>>

Return == pc' = "idle" /\ level' = stop

(* A step that has reached level l falls through to the next one, or stops. *)
Reached(l) ==
  /\ IF l \in {stop, CONNECTED_PDN} THEN Return
                                    ELSE pc' = FirstStep(l) /\ UNCHANGED level
  /\ UNCHANGED <<failed, fstop>>

(* A step that fails undoes what is below it, all the way down.            *)
RollBack(l) ==
  /\ failed' = TRUE
  /\ fstop' = UNINITIALIZED
  /\ pc' = FirstUndo(l)
  /\ UNCHANGED level

-----------------------------------------------------------------------------
(* modem_init: an initialised library is as good, and a failure has        *)
(* nothing to undo.                                                        *)
modem_init ==
  /\ pc = "init"
  /\ \/ NoFault /\ lib' = TRUE /\ Reached(INITIALIZED)
     \/ /\ Fault /\ ~lib
        /\ failed' = TRUE /\ Return
        /\ UNCHANGED <<lib, fstop>>
  /\ UNCHANGED <<starting, stop, appVars, registered, power, radio, session, event,
                 historyVars>>

(* modem_pwron: set cb_status, register the callback, power on, wait.      *)
ArmNothing ==
  /\ pc = "arm"
  /\ late' = (cb_pc = "called")
  /\ pc' = "register"
  /\ UNCHANGED <<failed, fstop, restarted, lost, appVars, callVars, modemVars,
                 boundVars>>

Arm ==
  /\ pc = "arm"
  /\ cb_status' = 1
  /\ late' = (cb_pc = "called")
  /\ pc' = "register"
  /\ UNCHANGED <<failed, fstop, restarted, lost, cb_pc, my_session_id, callVars,
                 modemVars, boundVars>>

(* The result of lte_set_report_restart is overwritten.                    *)
Register ==
  /\ pc = "register"
  /\ pc' = "power_on"
  /\ \/ NoFault /\ registered' = (registered \/ lib)
     \/ Fault /\ UNCHANGED registered
  /\ UNCHANGED <<failed, fstop, historyVars, appVars, callVars, lib, power,
                 radio, session, event>>

(* lte_power_on fails when the modem is on already.                        *)
PowerOn ==
  /\ pc = "power_on"
  /\ \/ /\ lib /\ power = "off" /\ NoFault
        /\ power' = "booting" /\ pc' = "wait"
        /\ UNCHANGED <<failed, fstop, level>>
     \/ /\ lib /\ power = "off" /\ Fault
        /\ RollBack(INITIALIZED) /\ UNCHANGED power
     \/ /\ ~(lib /\ power = "off") /\ NoFault
        /\ RollBack(INITIALIZED) /\ UNCHANGED power
  /\ UNCHANGED <<starting, stop, appVars, lib, registered, radio, session, event,
                 historyVars>>

(* The wait polls cb_status once a second, for as long as it takes.        *)
Poll == pc = "wait" /\ cb_status # 0 /\ UNCHANGED vars

Wait ==
  /\ pc = "wait" /\ cb_status = 0
  /\ Reached(POWER_ON)
  /\ UNCHANGED <<starting, stop, appVars, modemVars, historyVars, boundVars>>

modem_radioonTolerating ==
  /\ pc = "radio_on"
  /\ \/ power = "on" /\ NoFault /\ radio' = TRUE
     \/ power = "on" /\ Fault /\ UNCHANGED radio
     \/ power # "on" /\ NoFault /\ UNCHANGED radio
  /\ Reached(RADIO_ON)
  /\ UNCHANGED <<starting, stop, appVars, lib, registered, power, session, event,
                 historyVars>>

(* modem_radioon: a radio that is on already is as good, if the modem's    *)
(* error says so in the field the code looks at.                           *)
modem_radioon ==
  /\ pc = "radio_on"
  /\ \/ power = "on" /\ NoFault /\ radio' = TRUE /\ Reached(RADIO_ON)
     \/ power = "on" /\ Fault /\ RollBack(POWER_ON) /\ UNCHANGED radio
     \/ power # "on" /\ NoFault /\ RollBack(POWER_ON) /\ UNCHANGED radio
  /\ UNCHANGED <<starting, stop, appVars, lib, registered, power, session, event,
                 historyVars>>

modem_activepdnNoRollBack ==
  /\ pc = "activate"
  /\ \/ /\ radio /\ session = NoSession /\ NoFault
        /\ session' \in Sessions /\ my_session_id' = session'
        /\ Reached(CONNECTED_PDN)
     \/ /\ radio /\ session = NoSession /\ Fault
        /\ failed' = TRUE /\ Return /\ UNCHANGED <<fstop, session, my_session_id>>
     \/ /\ ~(radio /\ session = NoSession) /\ NoFault
        /\ failed' = TRUE /\ Return /\ UNCHANGED <<fstop, session, my_session_id>>
  /\ UNCHANGED <<starting, stop, cb_status, cb_pc, lib, registered, power, radio, event,
                 historyVars>>

modem_activepdn ==
  /\ pc = "activate"
  /\ \/ /\ radio /\ session = NoSession /\ NoFault
        /\ session' \in Sessions /\ my_session_id' = session'
        /\ Reached(CONNECTED_PDN)
     \/ /\ radio /\ session = NoSession /\ Fault
        /\ RollBack(RADIO_ON) /\ UNCHANGED <<session, my_session_id>>
     \/ /\ ~(radio /\ session = NoSession) /\ NoFault
        /\ RollBack(RADIO_ON) /\ UNCHANGED <<session, my_session_id>>
  /\ UNCHANGED <<starting, stop, cb_status, cb_pc, lib, registered, power, radio, event,
                 historyVars>>

-----------------------------------------------------------------------------
(* The steps of lte_finprocess: a failing one is printed, and the next     *)
(* one, if any, follows.  l is the level the step goes down to.            *)
WentDownTooFar(l) ==
  /\ IF l = UNINITIALIZED THEN Return ELSE pc' = FirstUndo(l) /\ UNCHANGED level
  /\ UNCHANGED <<starting, stop, failed, fstop, appVars, restarted, late>>

WentDownTooLittle(l) ==
  /\ IF l \in {fstop + 1, fstop} THEN Return ELSE pc' = FirstUndo(l) /\ UNCHANGED level
  /\ UNCHANGED <<starting, stop, failed, fstop, appVars, restarted, late>>

WentDown(l) ==
  /\ IF l \in {fstop, UNINITIALIZED} THEN Return
                                     ELSE pc' = FirstUndo(l) /\ UNCHANGED level
  /\ UNCHANGED <<starting, stop, failed, fstop, appVars, restarted, late>>

NoEffect == Fault /\ lost' = TRUE /\ UNCHANGED modemVars
Effect   == NoFault /\ lost' = FALSE

(* Only the session that was stored can be deactivated.                    *)
modem_deacvtivepdn ==
  /\ pc = "deactivate" /\ WentDown(RADIO_ON)
  /\ \/ /\ Effect
        /\ session' = IF session = my_session_id THEN NoSession ELSE session
        /\ UNCHANGED <<lib, registered, power, radio, event>>
     \/ NoEffect

modem_radiooff ==
  /\ pc = "radio_off" /\ WentDown(POWER_ON)
  /\ \/ /\ Effect
        /\ radio' = FALSE /\ session' = NoSession
        /\ UNCHANGED <<lib, registered, power, event>>
     \/ NoEffect

modem_pwoff ==
  /\ pc = "power_off" /\ WentDown(INITIALIZED)
  /\ \/ /\ Effect
        /\ power' = "off" /\ radio' = FALSE /\ session' = NoSession /\ event' = FALSE
        /\ UNCHANGED <<lib, registered>>
     \/ NoEffect

modem_finalize ==
  /\ pc = "finalize" /\ WentDown(UNINITIALIZED)
  /\ \/ /\ Effect
        /\ lib' = FALSE /\ registered' = FALSE
        /\ power' = "off" /\ radio' = FALSE /\ session' = NoSession /\ event' = FALSE
     \/ NoEffect

-----------------------------------------------------------------------------
Modem  == Boot \/ Deliver \/ restart_cb
Caller == lte_staprocess \/ lte_finprocess
Up     == \/ modem_init \/ Arm \/ Register \/ PowerOn \/ Poll \/ Wait
          \/ modem_radioon \/ modem_activepdn
Down   == modem_deacvtivepdn \/ modem_radiooff \/ modem_pwoff \/ modem_finalize
Next   == Modem \/ SelfRestart \/ Caller \/ Up \/ Down

(* A running call is scheduled, a modem that is switched on starts, and    *)
(* the library's thread delivers its notifications and runs the callback.  *)
Spec     == Init /\ [][Next]_vars
FairSpec == Spec /\ WF_vars(Up \/ Down) /\ WF_vars(Boot)
            /\ WF_vars(Deliver) /\ WF_vars(restart_cb)

-----------------------------------------------------------------------------
Pcs == {"idle", "init", "arm", "register", "power_on", "wait", "radio_on", "activate",
        "deactivate", "radio_off", "power_off", "finalize"}

FlagsOK ==
  /\ starting \in BOOLEAN /\ failed \in BOOLEAN /\ lib \in BOOLEAN
  /\ registered \in BOOLEAN /\ radio \in BOOLEAN /\ event \in BOOLEAN
  /\ restarted \in BOOLEAN /\ late \in BOOLEAN /\ lost \in BOOLEAN

ValuesOK ==
  /\ pc \in Pcs
  /\ stop \in Levels /\ fstop \in Levels /\ level \in Levels
  /\ cb_status \in {0, 1} /\ cb_pc \in {"idle", "called"}
  /\ power \in {"off", "booting", "on", "mismatch"}
  /\ session \in Sessions \cup {NoSession}
  /\ my_session_id \in Sessions \cup {NoSession}
  /\ faults \in 0..MaxFaults /\ restarts \in 0..MaxRestarts

(* Types, and what the modem cannot be: connected without radio, or on     *)
(* without the library.                                                    *)
ModemOK == /\ session # NoSession => radio
           /\ radio => power = "on"
           /\ power # "off" => lib
TypeOK  == FlagsOK /\ ValuesOK /\ ModemOK

EndsWait == pc = "wait" /\ pc' # "wait"

(* The wait for the restart callback ends before the modem that was just   *)
(* powered on has started only if restart_cb was running when the wait was *)
(* prepared: a notification of an earlier start that is still on its way   *)
(* then, or comes before power on, cannot end it.                          *)
WaitEndsAfterBoot ==
  [][EndsWait /\ ~late => power \in {"on", "mismatch"}]_vars

(* lte_http_get.c:604 of the same wait: "Wait until the modem startup      *)
(* normally and notification comes from the callback": it never ends       *)
(* before the modem that was just powered on has started.                  *)
WaitsForStartup == [][EndsWait => power \in {"on", "mismatch"}]_vars

(* An lte_staprocess that met no error has brought the modem to the level  *)
(* it was asked for, even when the caller was wrong about where it         *)
(* started, unless the modem restarted by itself meanwhile.  After a wait  *)
(* that a callback of an earlier start cut short it may still be starting, *)
(* but only if nothing above STATE_POWER_ON was asked for.                 *)
BringUpReached ==
  pc = "idle" /\ starting /\ ~failed /\ ~restarted =>
    Level >= stop \/ (late /\ stop = POWER_ON /\ power = "booting")

(* An lte_staprocess that failed leaves the modem off and the library      *)
(* finalised, and lte_finprocess leaves the modem no higher than asked,    *)
(* whichever calls failed on the way down, if only the last one worked.    *)
TearDownReached ==
  /\ pc = "idle" /\ starting /\ failed => Level = UNINITIALIZED \/ lost
  /\ pc = "idle" /\ ~starting => Level <= stop \/ lost

(* lte_finprocess never goes further down than asked.                      *)
FinGoesNoFurther ==
  [][Down /\ ~starting =>
       /\ stop >= INITIALIZED => lib' = lib
       /\ stop >= POWER_ON    => power' = power
       /\ stop >= RADIO_ON    => radio' = radio]_vars

(* With nothing failing and no restart, the caller, who is told nothing,   *)
(* is right about the modem after any sequence of calls.                   *)
Undisturbed == faults = 0 /\ restarts = 0
BeliefRight == pc = "idle" /\ Undisturbed => Level = level

(* Every call returns, if its callback could be registered: a modem that   *)
(* is powered on starts, whatever else fails, and the notification that    *)
(* ends the wait is neither lost nor spent on an earlier one.              *)
ReturnsIfRegistered == pc # "idle" ~> (pc = "idle" \/ (pc = "wait" /\ ~registered))

(* lte_http_get.c:604: "Wait until the modem startup normally and          *)
(* notification comes from the callback": every call returns.              *)
CallsReturn == pc # "idle" ~> pc = "idle"
=============================================================================
