----------------------------- MODULE LteHttpGet -----------------------------
(***************************************************************************)
(* samples/lte_http_get.c: a program that attaches to the LTE network,     *)
(* fetches a file and detaches.  Three kinds of threads meet here: main(), *)
(* the library's thread that calls app_restart_cb, and a recovery thread   *)
(* for every restart of the modem by itself, which brings the connection   *)
(* up again while main() may be taking it down.  main() hears of the       *)
(* modem's start through a message queue with room for one message.        *)
(*                                                                         *)
(* The LTE library and the modem are external, as in LteConnection.  The   *)
(* program may find the library initialised and the modem up: main()       *)
(* provides for both.  A call the modem cannot serve fails; one that it    *)
(* can fails by a fault, and then changes nothing.                         *)
(***************************************************************************)
EXTENDS Integers, Sequences

CONSTANTS
  Sessions,     \* ids the network gives to PDN sessions
  Threads,      \* bound: the recovery threads there may be
  MaxRestarts,  \* bound: restarts of the modem by itself
  MaxFaults     \* bound: calls that fail, and unusable starts of the modem

NoSession    == 0   \* LTE_PDN_SESSIONID_INVALID_ID
MaxQueueMsg  == 1   \* APP_MAX_MQUEUE_MSG

ASSUME HttpConstants ==
  /\ Sessions \subseteq Nat \ {NoSession}
  /\ MaxRestarts \in Nat
  /\ MaxFaults \in Nat

VARIABLES
  pc,            \* the call main() is about to make
  ret,           \* what main() will return
  data_pdn_sid,  \* the session main() is to deactivate
  named,         \* the message queue exists under its name
  queue,         \* the messages in it
  cb_pc,         \* where the library's callback thread is
  cb_reason,     \* what it was called with
  recovery,      \* where each recovery thread is
  lib,           \* the library is initialised
  registered,    \* app_restart_cb is registered
  power,         \* "off", "booting", "on", or "mismatch" (started unusable)
  radio,         \* the radio is on
  session,       \* the active PDN session
  events,        \* notifications not yet delivered, by reason
  restarted,     \* history: the modem restarted since main() learned its session
  unnotified,    \* history: a notification did not reach the queue
  armed,         \* history: main() has registered its callback
  refused,       \* history: lte_finalize failed
  faults,        \* calls that have failed, and unusable starts
  restarts       \* restarts of the modem by itself

mainVars    == <<pc, ret, data_pdn_sid>>
queueVars   == <<named, queue>>
cbVars      == <<cb_pc, cb_reason>>
modemVars   == <<lib, registered, power, radio, session, events>>
historyVars == <<restarted, unnotified, armed, refused>>
boundVars   == <<faults, restarts>>
vars == <<mainVars, queueVars, cbVars, recovery, modemVars, historyVars, boundVars>>

Reasons  == {"user", "self", "version"}   \* LTE_RESTART_...
NoEvents == [r \in Reasons |-> 0]

Init ==
  /\ pc = "mq_create" /\ ret = -1 /\ data_pdn_sid = NoSession
  /\ named = FALSE /\ queue = <<>>
  /\ cb_pc = "idle" /\ cb_reason = "user"
  /\ recovery = [t \in Threads |-> "unused"]
  /\ lib \in BOOLEAN /\ registered = FALSE
  /\ power \in (IF lib THEN {"off", "booting", "on", "mismatch"} ELSE {"off"})
  /\ radio \in (IF power = "on" THEN BOOLEAN ELSE {FALSE})
  /\ session \in (IF radio THEN Sessions \cup {NoSession} ELSE {NoSession})
  /\ events = NoEvents
  /\ restarted = FALSE /\ unnotified = FALSE /\ armed = FALSE /\ refused = FALSE
  /\ faults = 0 /\ restarts = 0

Fault   == faults < MaxFaults /\ faults' = faults + 1 /\ UNCHANGED restarts
NoFault == UNCHANGED boundVars

(* A call that the modem could have served fails by a fault only.          *)
Fails(possible) == IF possible THEN Fault ELSE NoFault

Running == pc # "end"

-----------------------------------------------------------------------------
(* The modem and the library.                                              *)
Notify(reason) == events' = IF registered THEN [events EXCEPT ![reason] = @ + 1] ELSE events

Boot ==
  /\ Running /\ power = "booting"
  /\ \/ power' = "on" /\ Notify("user") /\ NoFault
     \/ power' = "mismatch" /\ Notify("version") /\ Fault
  /\ UNCHANGED <<mainVars, queueVars, cbVars, recovery, lib, registered, radio,
                 session, historyVars>>

SelfRestart ==
  /\ Running /\ power = "on" /\ restarts < MaxRestarts
  /\ restarts' = restarts + 1
  /\ radio' = FALSE /\ session' = NoSession
  /\ Notify("self")
  /\ restarted' = TRUE
  /\ UNCHANGED <<mainVars, queueVars, cbVars, recovery, lib, registered, power,
                 unnotified, armed, refused, faults>>

(* The library calls back, one notification after the other.               *)
Deliver(reason) ==
  /\ Running /\ cb_pc = "idle" /\ events[reason] > 0
  /\ events' = [events EXCEPT ![reason] = @ - 1]
  /\ cb_pc' = "called" /\ cb_reason' = reason
  /\ UNCHANGED <<mainVars, queueVars, recovery, lib, registered, power, radio,
                 session, historyVars, boundVars>>

(* lte_radio_on_sync turns the radio of a modem that is on on.             *)
RadioCanTurnOn == power = "on" /\ ~radio
RadioTurnsOn   == RadioCanTurnOn /\ radio' = TRUE /\ NoFault

(* lte_activate_pdn_sync attaches.  What it says of a session that is      *)
(* active already is not known: its id, or an error.                       *)
CanActivate == radio /\ session = NoSession
Activates   == /\ radio /\ NoFault
               /\ session' \in IF session = NoSession THEN Sessions ELSE {session}

(* lte_finalize shuts the modem down and cancels what was not delivered.   *)
ShutDown ==
  /\ lib' = FALSE /\ registered' = FALSE /\ power' = "off" /\ radio' = FALSE
  /\ session' = NoSession /\ events' = NoEvents

-----------------------------------------------------------------------------
(* app_restart_cb, in the library's thread.                                *)
CbUnchanged == UNCHANGED <<mainVars, named, modemVars, restarted, armed, refused>>

app_restart_cbNotifyingAlways ==
  /\ Running /\ cb_pc = "called"
  /\ cb_pc' = "mq_open"
  /\ NoFault /\ UNCHANGED <<cb_reason, queue, recovery, unnotified>> /\ CbUnchanged

app_restart_cbVersionRecovers ==
  /\ Running /\ cb_pc = "called"
  /\ cb_pc' = IF cb_reason = "user" THEN "mq_open" ELSE "create"
  /\ NoFault /\ UNCHANGED <<cb_reason, queue, recovery, unnotified>> /\ CbUnchanged

(* The reason decides: tell main(), or start a recovery.                   *)
app_restart_cb ==
  /\ Running /\ cb_pc = "called"
  /\ cb_pc' = IF cb_reason \in {"user", "version"} THEN "mq_open" ELSE "create"
  /\ NoFault /\ UNCHANGED <<cb_reason, queue, recovery, unnotified>> /\ CbUnchanged

(* app_mq_notify_result: opening the queue, which may be gone by now.      *)
NotifyOpen ==
  /\ Running /\ cb_pc = "mq_open"
  /\ \/ named /\ NoFault /\ cb_pc' = "mq_send" /\ UNCHANGED unnotified
     \/ Fails(named) /\ cb_pc' = "idle" /\ unnotified' = TRUE
  /\ UNCHANGED <<cb_reason, queue, recovery>> /\ CbUnchanged

(* Sending waits for room in the queue.                                    *)
NotifySend ==
  /\ Running /\ cb_pc = "mq_send"
  /\ cb_pc' = "idle"
  /\ \/ /\ Len(queue) < MaxQueueMsg /\ NoFault
        /\ queue' = Append(queue, cb_reason) /\ UNCHANGED unnotified
     \/ Fault /\ unnotified' = TRUE /\ UNCHANGED queue
  /\ UNCHANGED <<cb_reason, recovery>> /\ CbUnchanged

CreateThread ==
  /\ Running /\ cb_pc = "create"
  /\ cb_pc' = "idle"
  /\ \/ /\ NoFault
        /\ \E t \in Threads : /\ recovery[t] = "unused"
                              /\ recovery' = [recovery EXCEPT ![t] = "localtime"]
     \/ Fails(\E t \in Threads : recovery[t] = "unused") /\ UNCHANGED recovery
  /\ UNCHANGED <<cb_reason, queue, unnotified>> /\ CbUnchanged

Callback == app_restart_cb \/ NotifyOpen \/ NotifySend \/ CreateThread

-----------------------------------------------------------------------------
(* app_modem_recovery.  Any error ends the thread; a radio that another    *)
(* thread has turned on is one.                                            *)
RecoveryStep(t, from, to) ==
  /\ Running
  /\ recovery[t] = from /\ recovery' = [recovery EXCEPT ![t] = to]
  /\ UNCHANGED <<mainVars, queueVars, cbVars, lib, registered, power, events,
                 historyVars>>

RecoveryLocaltime(t) ==
  /\ \/ power = "on" /\ NoFault /\ RecoveryStep(t, "localtime", "radio_on")
     \/ Fails(power = "on") /\ RecoveryStep(t, "localtime", "exited")
  /\ UNCHANGED <<radio, session>>

RecoveryRadioOnSkipped(t) ==
  /\ NoFault /\ RecoveryStep(t, "radio_on", "activate")
  /\ UNCHANGED <<radio, session>>

RecoveryRadioOn(t) ==
  /\ \/ RadioTurnsOn /\ RecoveryStep(t, "radio_on", "activate")
     \/ Fails(RadioCanTurnOn) /\ RecoveryStep(t, "radio_on", "exited") /\ UNCHANGED radio
  /\ UNCHANGED session

RecoveryActivate(t) ==
  /\ RecoveryStep(t, "activate", "exited")
  /\ \/ Activates
     \/ Fails(CanActivate) /\ UNCHANGED session
  /\ UNCHANGED radio

Recovery(t) == RecoveryLocaltime(t) \/ RecoveryRadioOn(t) \/ RecoveryActivate(t)

-----------------------------------------------------------------------------
(* main(), one action per call.                                            *)
Goto(from, to) == pc = from /\ pc' = to
AtMain == UNCHANGED <<cbVars, recovery, unnotified>>

(* The calls that change nothing the modem keeps, or only what is named.   *)
Unmoved == UNCHANGED modemVars /\ AtMain

app_mq_create ==
  /\ \/ Goto("mq_create", "init") /\ NoFault /\ named' = TRUE
     \/ Goto("mq_create", "end") /\ Fault /\ UNCHANGED named
  /\ Unmoved /\ UNCHANGED <<ret, data_pdn_sid, queue, restarted, armed, refused>>

lte_initializeIgnoringErrors ==
  /\ Goto("init", "set_report")
  /\ \/ NoFault /\ lib' = TRUE
     \/ Fault /\ UNCHANGED lib
  /\ AtMain
  /\ UNCHANGED <<ret, data_pdn_sid, queueVars, registered, power, radio, session,
                 events, restarted, armed, refused>>

(* An initialised library (-EALREADY) is as good.                          *)
lte_initialize ==
  /\ \/ Goto("init", "set_report") /\ NoFault /\ lib' = TRUE
     \/ Goto("init", "delete") /\ Fault /\ ~lib /\ UNCHANGED lib
  /\ AtMain
  /\ UNCHANGED <<ret, data_pdn_sid, queueVars, registered, power, radio, session,
                 events, restarted, armed, refused>>

(* A failure leaves the library as it is.                                  *)
lte_set_report_restart ==
  /\ \/ Goto("set_report", "power_on") /\ NoFault /\ registered' = TRUE /\ armed' = TRUE
     \/ Goto("set_report", "delete") /\ Fault /\ UNCHANGED <<registered, armed>>
  /\ AtMain
  /\ UNCHANGED <<ret, data_pdn_sid, queueVars, lib, power, radio, session, events,
                 restarted, refused>>

(* A modem that is on (-EALREADY) needs no waiting for.                    *)
lte_power_on ==
  /\ \/ /\ Goto("power_on", "wait") /\ power = "off" /\ NoFault /\ power' = "booting"
     \/ /\ Goto("power_on", "localtime") /\ power # "off" /\ NoFault /\ UNCHANGED power
     \/ /\ Goto("power_on", "give_up") /\ Fault /\ UNCHANGED power
  /\ AtMain
  /\ UNCHANGED <<ret, data_pdn_sid, queueVars, lib, registered, radio, session,
                 events, restarted, armed, refused>>

WaitForAnyReason ==
  /\ pc = "wait"
  /\ \/ /\ queue # <<>> /\ NoFault
        /\ queue' = Tail(queue) /\ pc' = "localtime"
     \/ Fault /\ pc' = "give_up" /\ UNCHANGED queue
  /\ Unmoved /\ UNCHANGED <<ret, data_pdn_sid, named, restarted, armed, refused>>

(* app_wait_lte_callback, and what main() does with the reason: a modem of *)
(* another version is of no use.                                           *)
app_wait_lte_callback ==
  /\ pc = "wait"
  /\ \/ /\ queue # <<>> /\ NoFault
        /\ queue' = Tail(queue)
        /\ pc' = IF Head(queue) = "version" THEN "give_up" ELSE "localtime"
     \/ Fault /\ pc' = "give_up" /\ UNCHANGED queue
  /\ Unmoved /\ UNCHANGED <<ret, data_pdn_sid, named, restarted, armed, refused>>

lte_set_report_localtime ==
  /\ \/ Goto("localtime", "radio_on") /\ power = "on" /\ NoFault
     \/ Goto("localtime", "give_up") /\ Fails(power = "on")
  /\ Unmoved /\ UNCHANGED <<ret, data_pdn_sid, queueVars, restarted, armed, refused>>

(* A radio that is on already (-EALREADY) is as good.                      *)
lte_radio_on_sync ==
  /\ \/ Goto("radio_on", "get_session") /\ RadioTurnsOn
     \/ Goto("radio_on", "get_session") /\ radio /\ NoFault /\ UNCHANGED radio
     \/ Goto("radio_on", "give_up") /\ Fails(power = "on") /\ UNCHANGED radio
  /\ AtMain
  /\ UNCHANGED <<ret, data_pdn_sid, queueVars, lib, registered, power, session,
                 events, restarted, armed, refused>>

(* The session of a modem that is attached, or none, or an error.          *)
app_get_sessionid ==
  /\ \/ /\ Goto("get_session", "fetch") /\ session # NoSession /\ NoFault
        /\ data_pdn_sid' = session /\ restarted' = FALSE
     \/ /\ Goto("get_session", "activate") /\ Fails(session # NoSession)
        /\ UNCHANGED <<data_pdn_sid, restarted>>
  /\ Unmoved /\ UNCHANGED <<ret, queueVars, armed, refused>>

ActivateKeepingId ==
  /\ \/ Goto("activate", "fetch") /\ Activates /\ restarted' = FALSE /\ UNCHANGED data_pdn_sid
     \/ /\ Goto("activate", "give_up") /\ Fails(CanActivate)
        /\ UNCHANGED <<session, data_pdn_sid, restarted>>
  /\ AtMain
  /\ UNCHANGED <<ret, queueVars, lib, registered, power, radio, events, armed, refused>>

lte_activate_pdn_sync ==
  /\ \/ /\ Goto("activate", "fetch") /\ Activates
        /\ data_pdn_sid' = session' /\ restarted' = FALSE
     \/ /\ Goto("activate", "give_up") /\ Fails(CanActivate)
        /\ UNCHANGED <<session, data_pdn_sid, restarted>>
  /\ AtMain
  /\ UNCHANGED <<ret, queueVars, lib, registered, power, radio, events, armed, refused>>

(* The transfer; main() goes on whatever comes of it.                      *)
webclient_perform ==
  /\ Goto("fetch", "deactivate")
  /\ NoFault /\ Unmoved
  /\ UNCHANGED <<ret, data_pdn_sid, queueVars, restarted, armed, refused>>

(* Only the session main() knows is deactivated; a recovery may have got   *)
(* another id.                                                             *)
lte_deactivate_pdn_sync ==
  /\ \/ /\ Goto("deactivate", "radio_off") /\ session = data_pdn_sid /\ NoFault
        /\ session' = NoSession
     \/ Goto("deactivate", "give_up") /\ Fails(session = data_pdn_sid) /\ UNCHANGED session
  /\ AtMain
  /\ UNCHANGED <<ret, data_pdn_sid, queueVars, lib, registered, power, radio, events,
                 restarted, armed, refused>>

(* Of a radio that is off nothing is known.                                *)
lte_radio_off_sync ==
  /\ \/ /\ Goto("radio_off", "power_off") /\ NoFault
        /\ radio' = FALSE /\ session' = NoSession
     \/ Goto("radio_off", "give_up") /\ Fails(radio) /\ UNCHANGED <<radio, session>>
  /\ AtMain
  /\ UNCHANGED <<ret, data_pdn_sid, queueVars, lib, registered, power, events,
                 restarted, armed, refused>>

(* Switching off cancels what was not delivered.                           *)
lte_power_off ==
  /\ \/ /\ Goto("power_off", "finalize") /\ NoFault
        /\ power' = "off" /\ radio' = FALSE /\ session' = NoSession /\ events' = NoEvents
     \/ Goto("power_off", "give_up") /\ Fault /\ UNCHANGED <<power, radio, session, events>>
  /\ AtMain
  /\ UNCHANGED <<ret, data_pdn_sid, queueVars, lib, registered, restarted, armed, refused>>

lte_finalize ==
  /\ Goto("finalize", "delete")
  /\ \/ ShutDown /\ NoFault /\ ret' = 0 /\ UNCHANGED refused
     \/ Fault /\ refused' = TRUE /\ UNCHANGED <<modemVars, ret>>
  /\ AtMain /\ UNCHANGED <<data_pdn_sid, queueVars, restarted, armed>>

GiveUpWithoutFinalize ==
  /\ Goto("give_up", "delete")
  /\ NoFault /\ Unmoved
  /\ UNCHANGED <<ret, data_pdn_sid, queueVars, restarted, armed, refused>>

(* errout_with_lte_fin, which does not look at the result.                 *)
GiveUp ==
  /\ Goto("give_up", "delete")
  /\ \/ ShutDown /\ NoFault /\ UNCHANGED refused
     \/ Fault /\ refused' = TRUE /\ UNCHANGED modemVars
  /\ AtMain /\ UNCHANGED <<ret, data_pdn_sid, queueVars, restarted, armed>>

(* The last thing main() does; its threads end with it.                    *)
app_mq_delete ==
  /\ Goto("delete", "end")
  /\ named' = FALSE
  /\ NoFault /\ Unmoved
  /\ UNCHANGED <<ret, data_pdn_sid, queue, restarted, armed, refused>>

SetUp    == \/ app_mq_create \/ lte_initialize \/ lte_set_report_restart \/ lte_power_on
            \/ app_wait_lte_callback \/ lte_set_report_localtime
Attach   == lte_radio_on_sync \/ app_get_sessionid \/ lte_activate_pdn_sync
TearDown == \/ lte_deactivate_pdn_sync \/ lte_radio_off_sync \/ lte_power_off
            \/ lte_finalize \/ GiveUp \/ app_mq_delete

Next == \/ SetUp \/ Attach \/ webclient_perform \/ TearDown
        \/ Boot \/ SelfRestart \/ (\E r \in Reasons : Deliver(r)) \/ Callback
        \/ \E t \in Threads : Recovery(t)

(* Threads that can run do run, a modem that is switched on starts, and    *)
(* its notifications are delivered; nothing has to fail.  A transfer may   *)
(* last for ever.                                                          *)
Fairness ==
  /\ WF_vars((SetUp \/ Attach \/ TearDown) /\ NoFault)
  /\ WF_vars(Boot /\ NoFault)
  /\ WF_vars(\E r \in Reasons : Deliver(r))
  /\ WF_vars(Callback /\ NoFault)
  /\ \A t \in Threads : WF_vars(Recovery(t) /\ NoFault)

Spec     == Init /\ [][Next]_vars
FairSpec == Spec /\ Fairness

-----------------------------------------------------------------------------
MainPcs     == {"mq_create", "init", "set_report", "power_on", "wait", "localtime",
                "radio_on", "get_session", "activate", "fetch", "deactivate",
                "radio_off", "power_off", "finalize", "give_up", "delete", "end"}
CbPcs       == {"idle", "called", "mq_open", "mq_send", "create"}
RecoveryPcs == {"unused", "localtime", "radio_on", "activate", "exited"}

FlagsOK ==
  /\ named \in BOOLEAN /\ lib \in BOOLEAN /\ registered \in BOOLEAN /\ radio \in BOOLEAN
  /\ restarted \in BOOLEAN /\ unnotified \in BOOLEAN /\ armed \in BOOLEAN /\ refused \in BOOLEAN

ValuesOK ==
  /\ pc \in MainPcs /\ ret \in {0, -1}
  /\ data_pdn_sid \in Sessions \cup {NoSession}
  /\ queue \in Seq({"user", "version"}) /\ Len(queue) <= MaxQueueMsg
  /\ cb_pc \in CbPcs /\ cb_reason \in Reasons
  /\ recovery \in [Threads -> RecoveryPcs]
  /\ power \in {"off", "booting", "on", "mismatch"}
  /\ session \in Sessions \cup {NoSession}
  /\ events \in [Reasons -> Nat]
  /\ faults \in 0..MaxFaults /\ restarts \in 0..MaxRestarts

(* Types, and what the modem cannot be: connected without radio, or up     *)
(* without the library.                                                    *)
ModemOK == /\ session # NoSession => radio
           /\ radio => power = "on"
           /\ power # "off" => lib
TypeOK  == FlagsOK /\ ValuesOK /\ ModemOK

(* The queue has room for one message (:61), and the library's thread      *)
(* would be stuck in app_restart_cb with a second one: whatever main()     *)
(* does or no longer does with its messages, there is always room.         *)
CallbackNotBlocked == cb_pc = "mq_send" => Len(queue) < MaxQueueMsg

(* While main() waits, the message it waits for is still to come: the      *)
(* modem starts, or the report of its start is with the library, in the    *)
(* callback or in the queue, and no thread drops it on the way, unless one *)
(* of its calls on the queue failed.                                       *)
StartWillBeReported ==
  pc = "wait" /\ ~unnotified =>
    \/ power = "booting" \/ queue # <<>>
    \/ events["user"] + events["version"] > 0
    \/ cb_pc \in {"called", "mq_open", "mq_send"} /\ cb_reason # "self"

(* main() leaves the wait for the start with success only when the modem   *)
(* has started, and is of use.                                             *)
WaitedForModem == [][pc = "wait" /\ pc' = "localtime" => power = "on"]_vars

(* main() fetches over, and then deactivates, the session that is active,  *)
(* whoever brought it up, though recovery threads may be attaching at the  *)
(* same time and app_get_sessionid may fail: the id it holds goes stale    *)
(* only by a restart that comes after it was learned.                      *)
HoldsActiveSession ==
  pc \in {"fetch", "deactivate"} /\ ~restarted => session = data_pdn_sid /\ session # NoSession

(* From the registration of its callback on, main() ends with the modem    *)
(* off and the library finalised, whichever calls fail but lte_finalize    *)
(* itself, and no recovery thread brings the modem up again behind its     *)
(* back.  Of the exits before, that of a failed registration (:595) leaves *)
(* an initialised library behind.                                          *)
LeavesModemOff ==
  pc = "end" /\ armed /\ ~refused => power = "off" /\ ~lib /\ events = NoEvents

(* main() ends, unless a notification could not be put in the queue (the   *)
(* wait has no timeout) or the transfer does not end.                      *)
MainEnds == <>(pc = "end") \/ <>unnotified \/ <>[](pc = "fetch")

(* While main() fetches, a modem that restarts is attached again, however  *)
(* often it does and however the recovery threads meet, if no call fails.  *)
RecoveryReattaches ==
  pc = "fetch" /\ session = NoSession ~> session # NoSession \/ pc # "fetch" \/ faults > 0
=============================================================================
