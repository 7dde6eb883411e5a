-------------------------------- MODULE Gnss --------------------------------
(***************************************************************************)
(* gnss.c: the functions the logger calls to use the GNSS receiver.  Each  *)
(* of them is a chain of system calls, one action per call, between which  *)
(* the receiver may take a measurement.  Who calls what is left to the     *)
(* modules that extend this one: LocationLogger (the program) and GnssApi  *)
(* (any caller that keeps to the documented order).                        *)
(*                                                                         *)
(* The receiver, its driver and the signals of NuttX are not part of the   *)
(* repository.  They are modelled as gnss.c uses them: the driver holds    *)
(* the latest measurement only, and a blocked signal that is pending is    *)
(* not queued again.                                                       *)
(***************************************************************************)
EXTENDS Integers

CONSTANTS Positions,   \* positions the receiver can report
          NoPosition,  \* an uninitialised or zeroed position
          MaxFaults    \* bound: system calls that fail in one run

ASSUME GnssConstants == NoPosition \notin Positions /\ MaxFaults \in Nat

VARIABLES
  pc,            \* the system call the current function is about to make
  call,          \* the function being called, or called last
  ret,           \* what it returned, meaningful when pc = "idle"
  fd_open,       \* the receiver's device file is open
  blocked,       \* MY_GNSS_SIG is in the signal mask
  notify,        \* the driver sends MY_GNSS_SIG on a measurement
  running,       \* the receiver is positioning
  current,       \* the receiver's latest measurement
  pending,       \* MY_GNSS_SIG is pending
  posdat,        \* the static buffer that read() fills
  position_data, \* the caller's structure that gnss_get fills
  taken,         \* history: the measurement the last read() found
  uses,          \* history: times gnss_get has returned the current one
  faults         \* system calls that have failed

deviceVars == <<fd_open, blocked, notify, running>>
signalVars == <<current, pending, uses>>
dataVars   == <<posdat, position_data, taken>>
gnssVars   == <<pc, call, ret, deviceVars, signalVars, dataVars, faults>>

(* fix is pos_fixmode # CXD56_GNSS_PVT_POSFIX_INVALID.                     *)
Measurement   == [pos : Positions \cup {NoPosition}, fix : BOOLEAN]
NoMeasurement == [pos |-> NoPosition, fix |-> FALSE]

OK    == 0
ERROR == -1
NoFix == 1
Fd    == 3   \* open() returns the lowest free descriptor after stdio

GnssInit ==
  /\ pc = "idle" /\ call = "none" /\ ret = OK
  /\ fd_open = FALSE /\ blocked = FALSE /\ notify = FALSE /\ running = FALSE
  /\ current = NoMeasurement /\ pending = FALSE /\ uses = 0
  /\ posdat = NoMeasurement /\ position_data = NoPosition
  /\ taken = NoMeasurement
  /\ faults = 0

(* The caller enters function f at its first system call.                  *)
Enter(f, first) ==
  /\ pc = "idle"
  /\ call' = f
  /\ pc' = first
  /\ UNCHANGED <<ret, deviceVars, signalVars, dataVars, faults>>

Return(value) == pc' = "idle" /\ ret' = value
Fault         == faults < MaxFaults /\ faults' = faults + 1
NoFault       == UNCHANGED faults

-----------------------------------------------------------------------------
(* The receiver takes a measurement, once a second while positioning.      *)
Measure ==
  /\ running
  /\ current' \in [pos : Positions, fix : BOOLEAN]
  /\ pending' = (pending \/ notify)
  /\ uses' = 0
  /\ UNCHANGED <<pc, call, ret, deviceVars, dataVars, faults>>

-----------------------------------------------------------------------------
(* gnss_initialize.  A failure after the open goes through gnss_finalize,  *)
(* with the error to return already in ret.                                *)
Open ==
  /\ pc = "init_open"
  /\ \/ NoFault /\ fd_open' = TRUE /\ pc' = "init_mask" /\ UNCHANGED ret
     \/ Fault /\ Return(ERROR) /\ UNCHANGED fd_open
  /\ UNCHANGED <<call, blocked, notify, running, signalVars, dataVars>>

FailInit == Fault /\ ret' = ERROR /\ pc' = "fin_signal"

BlockSignal ==
  /\ pc = "init_mask"
  /\ \/ NoFault /\ blocked' = TRUE /\ pc' = "init_signal" /\ UNCHANGED ret
     \/ FailInit /\ UNCHANGED blocked
  /\ UNCHANGED <<call, fd_open, notify, running, signalVars, dataVars>>

EnableSignalTurnedOff ==
  /\ pc = "init_signal"
  /\ \/ NoFault /\ notify' = FALSE /\ pc' = "init_params" /\ UNCHANGED ret
     \/ FailInit /\ UNCHANGED notify
  /\ UNCHANGED <<call, fd_open, blocked, running, signalVars, dataVars>>

EnableSignal ==
  /\ pc = "init_signal"
  /\ \/ NoFault /\ notify' = TRUE /\ pc' = "init_params" /\ UNCHANGED ret
     \/ FailInit /\ UNCHANGED notify
  /\ UNCHANGED <<call, fd_open, blocked, running, signalVars, dataVars>>

(* gnss_setparams: both of its ioctls, either of which may fail.           *)
SetParams ==
  /\ pc = "init_params"
  /\ \/ NoFault /\ pc' = "init_start" /\ UNCHANGED ret
     \/ FailInit
  /\ UNCHANGED <<call, deviceVars, signalVars, dataVars>>

StartWithoutFinalize ==
  /\ pc = "init_start"
  /\ \/ NoFault /\ running' = TRUE /\ Return(Fd)
     \/ Fault /\ Return(ERROR) /\ UNCHANGED running
  /\ UNCHANGED <<call, fd_open, blocked, notify, signalVars, dataVars>>

Start ==
  /\ pc = "init_start"
  /\ \/ NoFault /\ running' = TRUE /\ Return(Fd)
     \/ FailInit /\ UNCHANGED running
  /\ UNCHANGED <<call, fd_open, blocked, notify, signalVars, dataVars>>

-----------------------------------------------------------------------------
(* gnss_finalize.  A failing ioctl is printed and otherwise ignored.       *)
DisableSignal ==
  /\ pc = "fin_signal"
  /\ pc' = "fin_mask"
  /\ \/ NoFault /\ notify' = FALSE
     \/ Fault /\ UNCHANGED notify
  /\ UNCHANGED <<call, ret, fd_open, blocked, running, signalVars, dataVars>>

(* Unblocking lets a pending signal through.                               *)
UnblockSignal ==
  /\ pc = "fin_mask"
  /\ pc' = "fin_close"
  /\ blocked' = FALSE
  /\ pending' = FALSE
  /\ UNCHANGED <<call, ret, fd_open, notify, running, current, uses, dataVars, faults>>

(* The driver may or may not forget the notification when its file closes. *)
Close ==
  /\ pc = "fin_close"
  /\ pc' = "idle"
  /\ fd_open' = FALSE
  /\ notify' \in {notify, FALSE}
  /\ UNCHANGED <<call, ret, blocked, running, signalVars, dataVars, faults>>

(* gnss_stop.                                                              *)
Stop ==
  /\ pc = "stop"
  /\ \/ NoFault /\ running' = FALSE /\ Return(OK)
     \/ Fault /\ UNCHANGED running /\ Return(ERROR)
  /\ UNCHANGED <<call, fd_open, blocked, notify, signalVars, dataVars>>

-----------------------------------------------------------------------------
(* sigwaitinfo, in gnss_get and gnss_first_contact: consumes the pending   *)
(* signal, or is interrupted.                                              *)
Wait(at, next) ==
  /\ pc = at
  /\ \/ NoFault /\ pending /\ pending' = FALSE /\ pc' = next /\ UNCHANGED ret
     \/ Fault /\ UNCHANGED pending /\ Return(ERROR)
  /\ UNCHANGED <<call, deviceVars, current, uses, dataVars>>

(* A read that fails leaves posdat alone; a short one overwrites a part.   *)
Torn == {[pos |-> p, fix |-> f] : p \in {posdat.pos, current.pos},
                                  f \in {posdat.fix, current.fix}}

ReadFails == /\ Fault
             /\ taken' = current
             /\ posdat' \in Torn
             /\ Return(ERROR)
             /\ UNCHANGED <<position_data, uses>>

HandOutReturningSize(m) ==
  IF m.fix
    THEN /\ position_data' = m.pos
         /\ uses' = uses + 1
         /\ Return(200)
    ELSE /\ Return(NoFix)
         /\ UNCHANGED <<position_data, uses>>

(* gnss_get hands out a fix, and says so when there is none.               *)
HandOut(m) ==
  IF m.fix
    THEN /\ position_data' = m.pos
         /\ uses' = uses + 1
         /\ Return(OK)
    ELSE /\ Return(NoFix)
         /\ UNCHANGED <<position_data, uses>>

GetReadIgnoringSize ==
  /\ pc = "get_read"
  /\ \/ /\ NoFault
        /\ posdat' \in Torn
        /\ taken' = current
        /\ HandOut(posdat')
     \/ ReadFails
  /\ UNCHANGED <<call, deviceVars, current, pending>>

GetRead ==
  /\ pc = "get_read"
  /\ \/ /\ NoFault
        /\ posdat' = current
        /\ taken' = current
        /\ HandOut(current)
     \/ ReadFails
  /\ UNCHANGED <<call, deviceVars, current, pending>>

(* gnss_first_contact reads until a measurement has a fix.                 *)
ContactRead ==
  /\ pc = "contact_read"
  /\ \/ /\ NoFault
        /\ posdat' = current
        /\ taken' = current
        /\ IF current.fix THEN Return(OK) ELSE pc' = "contact_wait" /\ UNCHANGED ret
        /\ UNCHANGED <<position_data, uses>>
     \/ ReadFails
  /\ UNCHANGED <<call, deviceVars, current, pending>>

GetWaitKeepingSignal ==
  /\ pc = "get_wait"
  /\ \/ NoFault /\ pending /\ UNCHANGED pending /\ pc' = "get_read" /\ UNCHANGED ret
     \/ Fault /\ UNCHANGED pending /\ Return(ERROR)
  /\ UNCHANGED <<call, deviceVars, current, uses, dataVars>>

GetWait     == Wait("get_wait", "get_read")
ContactWait == Wait("contact_wait", "contact_read")

SystemCall == \/ Open \/ BlockSignal \/ EnableSignal \/ SetParams \/ Start
              \/ DisableSignal \/ UnblockSignal \/ Close \/ Stop
              \/ GetWait \/ GetRead \/ ContactWait \/ ContactRead

-----------------------------------------------------------------------------
Locations == {"idle", "init_open", "init_mask", "init_signal", "init_params",
              "init_start", "fin_signal", "fin_mask", "fin_close", "stop",
              "get_wait", "get_read", "contact_wait", "contact_read"}
Functions == {"none", "initialize", "first_contact", "get", "stop", "finalize"}

FlagsOK ==
  /\ fd_open \in BOOLEAN /\ blocked \in BOOLEAN
  /\ notify \in BOOLEAN /\ running \in BOOLEAN /\ pending \in BOOLEAN

ValuesOK ==
  /\ pc \in Locations
  /\ call \in Functions
  /\ ret \in {ERROR, OK, NoFix, Fd}
  /\ current \in Measurement /\ posdat \in Measurement /\ taken \in Measurement
  /\ position_data \in Positions \cup {NoPosition}
  /\ uses \in Nat
  /\ faults \in 0..MaxFaults

(* Types of the variables.                                                 *)
GnssTypeOK == FlagsOK /\ ValuesOK

(* gnss_initialize does all of its work or none: when it succeeds the      *)
(* receiver is positioning and its signals are caught; when it fails, at   *)
(* whichever call and even if undoing fails too, the file is closed and    *)
(* the signal is not left blocked.                                         *)
InitAllOrNothing ==
  pc = "idle" /\ call = "initialize" =>
    IF ret >= 0 THEN fd_open /\ blocked /\ notify /\ running
                ELSE ~fd_open /\ ~blocked

(* One measurement is handed out by gnss_get at most twice, though the     *)
(* signal and the data it announces are fetched in separate calls and the  *)
(* receiver may measure in between.                                        *)
HandedOutAtMostTwice == uses <= 2
=============================================================================
