--------------------------- MODULE LocationLogger ---------------------------
(***************************************************************************)
(* location_logger_main.c: initialise the receiver, wait for a first       *)
(* position, then report a position every time gnss_get hands one out and  *)
(* sleep.  The loop has no way out; gnss_stop and gnss_finalize after it   *)
(* are never called.                                                       *)
(***************************************************************************)
EXTENDS Gnss

VARIABLES
  main_pc,   \* where main() is: "exit" after its return -1
  reported   \* the position last printed

vars == <<gnssVars, main_pc, reported>>

Init == GnssInit /\ main_pc = "start" /\ reported = NoPosition

Goto(from, to) == main_pc = from /\ main_pc' = to

Initialize ==
  /\ Goto("start", "initializing")
  /\ Enter("initialize", "init_open")
  /\ UNCHANGED reported

InitializeFails ==
  /\ Goto("initializing", "exit")
  /\ pc = "idle" /\ ret < 0
  /\ UNCHANGED <<gnssVars, reported>>

FirstContact ==
  /\ Goto("initializing", "contacting")
  /\ pc = "idle" /\ ret >= 0
  /\ Enter("first_contact", "contact_wait")
  /\ UNCHANGED reported

(* The first gnss_get follows whatever gnss_first_contact returned.        *)
FirstGet ==
  /\ Goto("contacting", "getting")
  /\ Enter("get", "get_wait")
  /\ UNCHANGED reported

ReportAnyway ==
  /\ Goto("getting", "sleeping")
  /\ pc = "idle"
  /\ reported' = position_data
  /\ UNCHANGED gnssVars

Report ==
  /\ Goto("getting", "sleeping")
  /\ pc = "idle" /\ ret = OK
  /\ reported' = position_data
  /\ UNCHANGED gnssVars

(* Without a position, for whatever reason, the loop goes on at once.      *)
GetAgain ==
  /\ main_pc = "getting" /\ ret # OK
  /\ Enter("get", "get_wait")
  /\ UNCHANGED <<main_pc, reported>>

WakeUp ==
  /\ Goto("sleeping", "getting")
  /\ Enter("get", "get_wait")
  /\ UNCHANGED reported

MainStep == \/ Initialize \/ InitializeFails \/ FirstContact \/ FirstGet
            \/ Report \/ GetAgain \/ WakeUp

Idle      == UNCHANGED <<main_pc, reported>>
GnssCall  == SystemCall /\ Idle
Receiver  == Measure /\ Idle

Next == MainStep \/ GnssCall \/ Receiver

(* The task is scheduled, and a receiver that positions keeps measuring.   *)
Spec     == Init /\ [][Next]_vars
FairSpec == Spec /\ WF_vars(MainStep \/ GnssCall) /\ WF_vars(Receiver)

-----------------------------------------------------------------------------
(* Types of the variables of the program.                                  *)
TypeOK ==
  /\ GnssTypeOK
  /\ main_pc \in {"start", "initializing", "contacting", "getting", "sleeping", "exit"}
  /\ reported \in Positions \cup {NoPosition}

(* What is printed is the position of one measurement that had a fix, the  *)
(* one the last read() met: never a zeroed structure, the remains of an    *)
(* earlier measurement, or half of one, though gnss_get fails halfway at   *)
(* any call and main ignores what gnss_first_contact returned.             *)
ReportsAMeasurement ==
  main_pc = "sleeping" => taken.fix /\ reported = taken.pos

(* Once the receiver has a lasting fix the program keeps reporting, unless *)
(* its initialisation failed: calls that fail (finitely often) never leave *)
(* it waiting for a signal that does not come.                             *)
KeepsReporting ==
  <>[](current.fix) => []<>(main_pc = "sleeping") \/ <>(main_pc = "exit")
=============================================================================
