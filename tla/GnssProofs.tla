----------------------------- MODULE GnssProofs -----------------------------
(***************************************************************************)
(* Theorems about gnss.c under any caller that keeps to the documented     *)
(* order, and about the location logger, for any number of positions and   *)
(* failing calls.  Both rest on what every system call, every measurement  *)
(* of the receiver and every correct entry into one of the functions       *)
(* preserves.                                                              *)
(***************************************************************************)
EXTENDS GnssApi, LocationLogger, TLAPS

(* A signal not yet waited for, and one waited for and not yet read, can   *)
(* each still lead to a use of the current measurement.                    *)
Count(b)  == IF b THEN 1 ELSE 0
HandedInv == uses + Count(pending) + Count(pc = "get_read") <= 2

(* How far gnss_initialize or its undoing has come.                        *)
InitPcs == {"init_open", "init_mask", "init_signal", "init_params", "init_start"}
FinPcs  == {"fin_signal", "fin_mask", "fin_close"}
InitInv ==
  /\ pc \in InitPcs => call = "initialize"
  /\ call = "initialize" => pc \in InitPcs \cup FinPcs \cup {"idle"}
  /\ call = "initialize" /\ pc \in FinPcs => ret < 0
  /\ call = "initialize" /\ pc = "fin_close" => ~blocked
  /\ pc = "init_open" => ~fd_open /\ ~blocked
  /\ pc \in {"init_mask", "init_signal", "init_params", "init_start"} => fd_open
  /\ pc \in {"init_signal", "init_params", "init_start"} => blocked
  /\ pc \in {"init_params", "init_start"} => notify
  /\ InitAllOrNothing

GnssInv == GnssTypeOK /\ HandedInv /\ InitInv

(* The functions and the system call each of them begins with.             *)
Entries == {<<"initialize", "init_open">>, <<"first_contact", "contact_wait">>,
            <<"get", "get_wait">>, <<"stop", "stop">>, <<"finalize", "fin_signal">>}

USE DEF OK, ERROR, NoFix, Fd

(* Nothing has been called yet.                                            *)
LEMMA GnssInvInit == GnssInit => GnssInv
<1>1. NoPosition \in Positions \cup {NoPosition} /\ MaxFaults \in Nat
  BY GnssConstants
<1>2. GnssInit => ValuesOK
  <2>1. NoMeasurement \in Measurement
    BY DEF Measurement, NoMeasurement
  <2> QED
    BY <1>1, <2>1, GnssConstants DEF GnssInit, ValuesOK, Locations, Functions
<1>3. GnssInit => HandedInv
  BY DEF GnssInit, HandedInv, Count
<1>4. GnssInit => InitInv
  BY DEF GnssInit, InitInv, InitPcs, FinPcs, InitAllOrNothing
<1>5. GnssInit => FlagsOK
  BY Zenon DEF GnssInit, FlagsOK
<1> QED
  BY <1>2, <1>3, <1>4, <1>5 DEF GnssInv, GnssTypeOK

(* A new measurement may come between any two calls.                       *)
LEMMA MeasureKeepsInv == ASSUME GnssInv, Measure PROVE GnssInv'
<1>1. GnssTypeOK'
  BY DEF GnssInv, GnssTypeOK, FlagsOK, ValuesOK, Measure, Measurement, deviceVars, dataVars
<1>2. HandedInv'
  BY DEF GnssInv, GnssTypeOK, FlagsOK, ValuesOK, HandedInv, Measure, Count
<1>3. InitInv'
  BY DEF GnssInv, InitInv, InitAllOrNothing, InitPcs, FinPcs, Measure, deviceVars
<1> QED
  BY <1>1, <1>2, <1>3 DEF GnssInv

(* A caller may enter any function when none is running, gnss_initialize   *)
(* only with the receiver's file closed and the signal not blocked.        *)
LEMMA EnterKeepsInv ==
  ASSUME GnssInv, NEW f, NEW first, <<f, first>> \in Entries, Enter(f, first),
         f = "initialize" => ~fd_open /\ ~blocked
  PROVE  GnssInv'
<1>1. GnssTypeOK'
  BY DEF GnssInv, GnssTypeOK, FlagsOK, ValuesOK, Enter, Entries, Locations, Functions, deviceVars,
         signalVars, dataVars
<1>2. HandedInv'
  BY DEF GnssInv, GnssTypeOK, FlagsOK, ValuesOK, HandedInv, Enter, Entries, Count, signalVars
<1>3. InitInv'
  BY DEF GnssInv, InitInv, InitAllOrNothing, InitPcs, FinPcs, Enter, Entries, deviceVars
<1> QED
  BY <1>1, <1>2, <1>3 DEF GnssInv

(* A short read leaves a value of the right type in the buffer.            *)
LEMMA TornIsMeasurement == ValuesOK => Torn \subseteq Measurement
BY DEF ValuesOK, Torn, Measurement

(* Every system call leaves the flags Boolean.                             *)
LEMMA SystemCallKeepsFlags == ASSUME FlagsOK, SystemCall PROVE FlagsOK'
<1> USE DEF FlagsOK, Return, Fault, NoFault, FailInit, deviceVars, signalVars
<1>1. CASE Open
  BY Zenon, <1>1 DEF Open
<1>2. CASE BlockSignal
  BY Zenon, <1>2 DEF BlockSignal
<1>3. CASE EnableSignal
  BY Zenon, <1>3 DEF EnableSignal
<1>4. CASE SetParams
  BY Zenon, <1>4 DEF SetParams
<1>5. CASE Start
  BY Zenon, <1>5 DEF Start
<1>6. CASE DisableSignal
  BY Zenon, <1>6 DEF DisableSignal
<1>7. CASE UnblockSignal
  BY Zenon, <1>7 DEF UnblockSignal
<1>8. CASE Close
  BY Zenon, <1>8 DEF Close
<1>9. CASE Stop
  BY Zenon, <1>9 DEF Stop
<1>10. CASE GetWait \/ ContactWait
  BY Zenon, <1>10 DEF GetWait, ContactWait, Wait
<1>11. CASE GetRead
  BY Zenon, <1>11 DEF GetRead
<1>12. CASE ContactRead
  BY Zenon, <1>12 DEF ContactRead
<1> QED
  BY <1>1, <1>2, <1>3, <1>4, <1>5, <1>6, <1>7, <1>8, <1>9, <1>10, <1>11,
     <1>12 DEF SystemCall

(* Every system call leaves the other variables of their types.            *)
LEMMA SystemCallKeepsValues == ASSUME ValuesOK, SystemCall PROVE ValuesOK'
<1> USE GnssConstants DEF ValuesOK, Locations, Functions, Return, Fault, NoFault, FailInit,
            deviceVars, signalVars, dataVars
<1>1. CASE Open
  BY <1>1 DEF Open
<1>2. CASE BlockSignal
  BY <1>2 DEF BlockSignal
<1>3. CASE EnableSignal
  BY <1>3 DEF EnableSignal
<1>4. CASE SetParams
  BY <1>4 DEF SetParams
<1>5. CASE Start
  BY <1>5 DEF Start
<1>6. CASE DisableSignal
  BY <1>6 DEF DisableSignal
<1>7. CASE UnblockSignal
  BY <1>7 DEF UnblockSignal
<1>8. CASE Close
  BY <1>8 DEF Close
<1>9. CASE Stop
  BY <1>9 DEF Stop
<1>10. CASE GetWait \/ ContactWait
  BY <1>10 DEF GetWait, ContactWait, Wait
<1>11. CASE GetRead
  <2>1. posdat' \in Measurement
    BY <1>11, TornIsMeasurement DEF GetRead, ReadFails
  <2>2. current.pos \in Positions \cup {NoPosition}
    BY DEF Measurement
  <2> QED
    BY <1>11, <2>1, <2>2 DEF GetRead, ReadFails, HandOut
<1>12. CASE ContactRead
  <2>1. posdat' \in Measurement
    BY <1>12, TornIsMeasurement DEF ContactRead, ReadFails
  <2> QED
    BY <1>12, <2>1 DEF ContactRead, ReadFails
<1> QED
  BY <1>1, <1>2, <1>3, <1>4, <1>5, <1>6, <1>7, <1>8, <1>9, <1>10, <1>11,
     <1>12 DEF SystemCall

(* Every system call keeps the bound on the uses of a measurement: waiting *)
(* turns a pending signal into a read, reading turns it into a use.        *)
LEMMA SystemCallKeepsHanded ==
  ASSUME GnssTypeOK, HandedInv, SystemCall PROVE HandedInv'
<1> USE DEF GnssTypeOK, FlagsOK, ValuesOK, HandedInv, Count, Return, Fault, NoFault, FailInit, signalVars
<1>1. CASE Open
  BY <1>1 DEF Open
<1>2. CASE BlockSignal
  BY <1>2 DEF BlockSignal
<1>3. CASE EnableSignal
  BY <1>3 DEF EnableSignal
<1>4. CASE SetParams
  BY <1>4 DEF SetParams
<1>5. CASE Start
  BY <1>5 DEF Start
<1>6. CASE DisableSignal
  BY <1>6 DEF DisableSignal
<1>7. CASE UnblockSignal
  BY <1>7 DEF UnblockSignal
<1>8. CASE Close
  BY <1>8 DEF Close
<1>9. CASE Stop
  BY <1>9 DEF Stop
<1>10. CASE GetWait \/ ContactWait
  BY <1>10 DEF GetWait, ContactWait, Wait
<1>11. CASE GetRead
  BY <1>11 DEF GetRead, ReadFails, HandOut
<1>12. CASE ContactRead
  BY <1>12 DEF ContactRead, ReadFails
<1> QED
  BY <1>1, <1>2, <1>3, <1>4, <1>5, <1>6, <1>7, <1>8, <1>9, <1>10, <1>11,
     <1>12 DEF SystemCall

(* Every system call keeps what is known of gnss_initialize's progress.    *)
LEMMA SystemCallKeepsInit ==
  ASSUME GnssTypeOK, InitInv, SystemCall PROVE InitInv'
<1> USE DEF GnssTypeOK, FlagsOK, ValuesOK, InitInv, InitAllOrNothing, InitPcs, FinPcs, Return, Fault,
            NoFault, FailInit, deviceVars
<1>1. CASE Open
  BY <1>1 DEF Open
<1>2. CASE BlockSignal
  BY <1>2 DEF BlockSignal
<1>3. CASE EnableSignal
  BY <1>3 DEF EnableSignal
<1>4. CASE SetParams
  BY <1>4 DEF SetParams
<1>5. CASE Start
  BY <1>5 DEF Start
<1>6. CASE DisableSignal
  BY <1>6 DEF DisableSignal
<1>7. CASE UnblockSignal
  BY <1>7 DEF UnblockSignal
<1>8. CASE Close
  BY <1>8 DEF Close
<1>9. CASE Stop
  BY <1>9 DEF Stop
<1>10. CASE GetWait \/ ContactWait
  BY <1>10 DEF GetWait, ContactWait, Wait
<1>11. CASE GetRead
  BY <1>11 DEF GetRead, ReadFails, HandOut
<1>12. CASE ContactRead
  BY <1>12 DEF ContactRead, ReadFails
<1> QED
  BY <1>1, <1>2, <1>3, <1>4, <1>5, <1>6, <1>7, <1>8, <1>9, <1>10, <1>11,
     <1>12 DEF SystemCall

(* The three together.                                                     *)
LEMMA SystemCallKeepsInv == ASSUME GnssInv, SystemCall PROVE GnssInv'
BY SystemCallKeepsFlags, SystemCallKeepsValues, SystemCallKeepsHanded,
   SystemCallKeepsInit DEF GnssInv, GnssTypeOK

(* The invariant is about the variables of Gnss only.                      *)
LEMMA StutterKeepsInv == ASSUME GnssInv, UNCHANGED gnssVars PROVE GnssInv'
<1> USE DEF gnssVars, deviceVars, signalVars, dataVars
<1>1. GnssTypeOK'
  BY DEF GnssInv, GnssTypeOK, FlagsOK, ValuesOK
<1>2. HandedInv'
  BY DEF GnssInv, HandedInv, Count
<1>3. InitInv'
  BY DEF GnssInv, InitInv, InitAllOrNothing, InitPcs, FinPcs
<1> QED
  BY <1>1, <1>2, <1>3 DEF GnssInv

(* The bound that is wanted follows.                                       *)
LEMMA HandedInvBounds == GnssInv => HandedOutAtMostTwice
BY DEF GnssInv, GnssTypeOK, FlagsOK, ValuesOK, HandedInv, HandedOutAtMostTwice, Count

-----------------------------------------------------------------------------
(* Any caller.                                                             *)

(* Between two functions, the signal is blocked only while the file is     *)
(* open: that is why gnss_initialize may be called again.                  *)
ClosedUnblocked == pc = "idle" /\ ~fd_open => ~blocked
FinUnblocked    == pc = "fin_close" => ~blocked
OpenInside      == pc \in Locations \ ({"idle", "init_open"} \cup FinPcs) => fd_open
ApiInv          == GnssInv /\ ClosedUnblocked /\ FinUnblocked /\ OpenInside

(* The caller's invariant is kept by every call, measurement and entry.    *)
LEMMA ApiInvNext == ASSUME ApiInv, [ApiNext]_gnssVars PROVE ApiInv'
<1> USE DEF ApiInv, GnssInv, GnssTypeOK, ValuesOK
<1> DEFINE Rest == ClosedUnblocked /\ FinUnblocked /\ OpenInside
<1>1. CASE Measure
  <2>1. Rest'
    BY <1>1 DEF ClosedUnblocked, FinUnblocked, OpenInside, Measure, deviceVars
  <2> QED
    BY <1>1, <2>1, MeasureKeepsInv
<1>2. CASE SystemCall
  <2> USE DEF ClosedUnblocked, FinUnblocked, OpenInside, Locations, FinPcs, Return,
              FailInit, deviceVars
  <2>1. CASE Open \/ BlockSignal \/ EnableSignal \/ SetParams \/ Start
    <3>1. pc = "init_open" => ~blocked
      BY DEF InitInv
    <3>2. Rest'
      BY <2>1, <3>1 DEF Open, BlockSignal, EnableSignal, SetParams, Start
    <3> QED
      BY <1>2, <3>2, SystemCallKeepsInv
  <2>2. CASE DisableSignal \/ UnblockSignal \/ Close \/ Stop
    <3>1. CASE DisableSignal \/ Stop
      BY <1>2, <3>1, SystemCallKeepsInv DEF DisableSignal, Stop
    <3>2. CASE UnblockSignal
      BY <1>2, <3>2, SystemCallKeepsInv DEF UnblockSignal
    <3>3. CASE Close
      BY <1>2, <3>3, SystemCallKeepsInv DEF Close
    <3> QED
      BY <2>2, <3>1, <3>2, <3>3
  <2>3. CASE GetWait \/ ContactWait \/ GetRead \/ ContactRead
    <3>1. Rest'
      BY <2>3 DEF GetWait, ContactWait, Wait, GetRead, ContactRead, ReadFails, HandOut
    <3> QED
      BY <1>2, <3>1, SystemCallKeepsInv
  <2> QED
    BY <1>2, <2>1, <2>2, <2>3 DEF SystemCall
<1>3. CASE CallInitialize
  <2>1. ~fd_open /\ ~blocked
    BY <1>3 DEF CallInitialize, Enter, ClosedUnblocked
  <2>2. GnssInv'
    BY <1>3, <2>1, EnterKeepsInv DEF CallInitialize, Entries
  <2>3. Rest'
    BY <1>3, <2>1 DEF CallInitialize, Enter, ClosedUnblocked, FinUnblocked, OpenInside
  <2> QED
    BY <2>2, <2>3
<1>4. CASE CallFirstContact \/ CallGet \/ CallStop \/ CallFinalize
  <2> USE DEF CallFirstContact, CallGet, CallStop, CallFinalize
  <2>1. GnssInv'
    BY <1>4, EnterKeepsInv DEF Entries
  <2>2. Rest'
    BY <1>4 DEF Enter, ClosedUnblocked, FinUnblocked, OpenInside, deviceVars
  <2> QED
    BY <2>1, <2>2
<1>5. CASE UNCHANGED gnssVars
  <2>1. Rest'
    BY <1>5 DEF gnssVars, deviceVars, ClosedUnblocked, FinUnblocked, OpenInside
  <2> QED
    BY <1>5, <2>1, StutterKeepsInv
<1> QED
  BY <1>1, <1>2, <1>3, <1>4, <1>5 DEF ApiNext

(* It holds throughout.                                                    *)
LEMMA ApiInvAlways == ApiSpec => []ApiInv
<1>1. GnssInit => ApiInv
  BY GnssInvInit DEF GnssInit, ApiInv, ClosedUnblocked, FinUnblocked, OpenInside, FinPcs
<1> QED
  BY <1>1, ApiInvNext, PTL DEF ApiSpec

(* Whatever the caller does and whichever calls fail, the variables of     *)
(* gnss.c and of the receiver keep their types.                            *)
THEOREM ApiTypeCorrect == ApiSpec => []GnssTypeOK
<1>1. ApiInv => GnssTypeOK
  BY DEF ApiInv, GnssInv
<1> QED
  BY <1>1, ApiInvAlways, PTL

(* gnss_initialize is all or nothing: a failed one leaves neither the file *)
(* open nor the signal blocked, a successful one has the receiver running  *)
(* with its signals caught.                                                *)
THEOREM InitIsAllOrNothing == ApiSpec => []InitAllOrNothing
<1>1. ApiInv => InitAllOrNothing
  BY DEF ApiInv, GnssInv, InitInv
<1> QED
  BY <1>1, ApiInvAlways, PTL

(* No caller is handed one measurement more than twice.                    *)
THEOREM ApiHandsOutAtMostTwice == ApiSpec => []HandedOutAtMostTwice
<1>1. ApiInv => HandedOutAtMostTwice
  BY HandedInvBounds DEF ApiInv
<1> QED
  BY <1>1, ApiInvAlways, PTL

-----------------------------------------------------------------------------
(* The location logger.                                                    *)

MainPcs == {"start", "initializing", "contacting", "getting", "sleeping", "exit"}
MainTypeOK == main_pc \in MainPcs /\ reported \in Positions \cup {NoPosition}

(* Where gnss.c can be while main() is at each place, and what gnss_get    *)
(* leaves for main() to print.                                             *)
AtRest    == main_pc \in {"start", "sleeping", "exit"} => pc = "idle"
AtStart   == main_pc = "start" => ~fd_open /\ ~blocked
InGet     == main_pc = "getting" => pc \in {"idle", "get_wait", "get_read"}
GotFix    == main_pc = "getting" /\ pc = "idle" /\ ret = OK =>
               taken.fix /\ position_data = taken.pos
LoggerInv == /\ GnssInv /\ MainTypeOK
             /\ AtRest /\ AtStart /\ InGet /\ GotFix
             /\ ReportsAMeasurement

(* Which function runs, or ran last, while main() initialises and waits.   *)
InInit    == main_pc = "initializing" => call = "initialize"
InContact == main_pc = "contacting" => pc \in {"idle", "contact_wait", "contact_read"}

(* Before the program starts.                                              *)
LEMMA LoggerInvInit == Init => LoggerInv
<1>1. Init => GnssInv
  BY GnssInvInit DEF Init
<1>2. Init => MainTypeOK /\ AtRest /\ AtStart /\ InGet /\ GotFix /\ ReportsAMeasurement
  BY DEF Init, GnssInit, MainTypeOK, MainPcs, AtRest, AtStart, InGet, GotFix,
         ReportsAMeasurement
<1> QED
  BY <1>1, <1>2 DEF LoggerInv

(* The receiver's measurements concern main() only once they are read.     *)
LEMMA ReceiverKeepsInv == ASSUME LoggerInv, Receiver PROVE LoggerInv'
<1>1. GnssInv'
  BY MeasureKeepsInv DEF LoggerInv, Receiver
<1>2. (MainTypeOK /\ AtRest /\ InGet /\ GotFix /\ ReportsAMeasurement)'
  BY DEF LoggerInv, Receiver, Measure, Idle, MainTypeOK, AtRest, InGet, GotFix,
         ReportsAMeasurement, dataVars
<1>3. AtStart'
  BY DEF LoggerInv, Receiver, Measure, Idle, AtStart, deviceVars
<1> QED
  BY <1>1, <1>2, <1>3 DEF LoggerInv

(* While main() waits in gnss_get only its two system calls happen, and    *)
(* the last of them leaves a fix to print whenever it returns OK.          *)
LEMMA GnssCallKeepsInv == ASSUME LoggerInv, GnssCall PROVE LoggerInv'
<1> USE DEF GnssCall, Idle
<1>1. GnssInv'
  BY SystemCallKeepsInv DEF LoggerInv
<1>2. MainTypeOK'
  BY DEF LoggerInv, MainTypeOK
<1>3. pc # "idle"
  BY DEF SystemCall, Open, BlockSignal, EnableSignal, SetParams, Start, DisableSignal,
         UnblockSignal, Close, Stop, GetWait, ContactWait, Wait, GetRead, ContactRead
<1>4. main_pc \notin {"start", "sleeping", "exit"}
  BY <1>3 DEF LoggerInv, AtRest
<1>5. (AtRest /\ AtStart /\ ReportsAMeasurement)'
  BY <1>4 DEF AtRest, AtStart, ReportsAMeasurement
<1>6. (InGet /\ GotFix)'
  <2>1. CASE main_pc # "getting"
    BY <2>1 DEF InGet, GotFix
  <2>2. CASE main_pc = "getting"
    <3>1. GetWait \/ GetRead
      BY <1>3, <2>2 DEF LoggerInv, InGet, SystemCall, Open, BlockSignal, EnableSignal,
         SetParams, Start, DisableSignal, UnblockSignal, Close, Stop, ContactWait, Wait,
         ContactRead
    <3>2. CASE GetWait
      BY <3>2 DEF GetWait, Wait, InGet, GotFix, Return, OK, ERROR
    <3>3. CASE GetRead
      BY <3>3 DEF GetRead, ReadFails, HandOut, InGet, GotFix, Return, OK, ERROR, NoFix
    <3> QED
      BY <3>1, <3>2, <3>3
  <2> QED
    BY <2>1, <2>2
<1> QED
  BY <1>1, <1>2, <1>5, <1>6 DEF LoggerInv

(* Each step of main() prints only what gnss_get returned with OK.         *)
LEMMA MainStepKeepsInv == ASSUME LoggerInv, MainStep PROVE LoggerInv'
<1> USE DEF Goto
<1> DEFINE Rest == /\ MainTypeOK /\ AtRest /\ AtStart /\ InGet /\ GotFix
                   /\ ReportsAMeasurement
<1>1. CASE Initialize
  <2>1. GnssInv'
    BY <1>1, EnterKeepsInv DEF Initialize, LoggerInv, AtStart, Entries
  <2>2. Rest'
    BY <1>1 DEF Initialize, Enter, LoggerInv, MainTypeOK, MainPcs, AtRest, AtStart,
       InGet, GotFix, ReportsAMeasurement
  <2> QED
    BY <2>1, <2>2 DEF LoggerInv
<1>2. CASE FirstContact \/ FirstGet \/ GetAgain \/ WakeUp
  <2> USE DEF FirstContact, FirstGet, GetAgain, WakeUp
  <2>1. GnssInv'
    BY <1>2, EnterKeepsInv DEF LoggerInv, Entries
  <2>2. Rest'
    BY <1>2 DEF Enter, LoggerInv, MainTypeOK, MainPcs, AtRest, AtStart, InGet, GotFix,
       ReportsAMeasurement
  <2> QED
    BY <2>1, <2>2 DEF LoggerInv
<1>3. CASE InitializeFails \/ Report
  <2> USE DEF InitializeFails, Report
  <2>1. GnssInv'
    BY <1>3, StutterKeepsInv DEF LoggerInv
  <2>2. position_data \in Positions \cup {NoPosition}
    BY DEF LoggerInv, GnssInv, GnssTypeOK, ValuesOK
  <2>3. Rest'
    BY <1>3, <2>2 DEF LoggerInv, MainTypeOK, MainPcs, AtRest, AtStart, InGet, GotFix,
       ReportsAMeasurement, gnssVars, dataVars, deviceVars
  <2> QED
    BY <2>1, <2>3 DEF LoggerInv
<1> QED
  BY <1>1, <1>2, <1>3 DEF MainStep

(* It holds throughout.                                                    *)
LEMMA LoggerInvAlways == Spec => []LoggerInv
<1>1. ASSUME LoggerInv, UNCHANGED vars PROVE LoggerInv'
  <2>1. GnssInv'
    BY <1>1, StutterKeepsInv DEF LoggerInv, vars
  <2> QED
    BY <1>1, <2>1 DEF LoggerInv, vars, gnssVars, dataVars, deviceVars, MainTypeOK, AtRest,
       AtStart, InGet, GotFix, ReportsAMeasurement
<1>2. ASSUME LoggerInv, [Next]_vars PROVE LoggerInv'
  BY <1>1, <1>2, ReceiverKeepsInv, GnssCallKeepsInv, MainStepKeepsInv DEF Next
<1> QED
  BY <1>2, LoggerInvInit, PTL DEF Spec

(* The variables of the program keep their types.                          *)
THEOREM LoggerTypeCorrect == Spec => []TypeOK
<1>1. LoggerInv => TypeOK
  BY DEF LoggerInv, GnssInv, MainTypeOK, MainPcs, TypeOK
<1> QED
  BY <1>1, LoggerInvAlways, PTL

(* Every position printed is that of one measurement with a fix, the one   *)
(* the last read() met.                                                    *)
THEOREM OnlyMeasurementsReported == Spec => []ReportsAMeasurement
<1>1. LoggerInv => ReportsAMeasurement
  BY DEF LoggerInv
<1> QED
  BY <1>1, LoggerInvAlways, PTL

(* Whenever main() waits for the signal, or is about to, the receiver is   *)
(* positioning, notifies, and finds its signal blocked, whichever calls    *)
(* failed before: gnss_initialize is not taken for a success halfway, and  *)
(* no failure of the loop turns anything off.                              *)
SignalsStayOn ==
  main_pc \in {"contacting", "getting", "sleeping"} =>
    fd_open /\ blocked /\ notify /\ running

(* Nothing main() calls after gnss_initialize turns the receiver off, and  *)
(* it goes on only when that left everything on.                           *)
LEMMA SignalsKept ==
  ASSUME LoggerInv, InInit, InContact, SignalsStayOn, [Next]_vars
  PROVE  InInit' /\ InContact' /\ SignalsStayOn'
<1> USE DEF InInit, InContact, SignalsStayOn
<1>1. CASE Receiver
  BY <1>1 DEF Receiver, Measure, Idle, deviceVars
<1>2. CASE GnssCall
  <2>1. call' = call /\ main_pc' = main_pc
    BY <1>2 DEF GnssCall, Idle, SystemCall, Open, BlockSignal, EnableSignal, SetParams,
       Start, DisableSignal, UnblockSignal, Close, Stop, GetWait, ContactWait, Wait,
       GetRead, ContactRead
  <2>2. CASE main_pc \in {"contacting", "getting"}
    <3>1. GetWait \/ GetRead \/ ContactWait \/ ContactRead
      BY <1>2, <2>2 DEF LoggerInv, InGet, GnssCall, SystemCall, Open, BlockSignal,
         EnableSignal, SetParams, Start, DisableSignal, UnblockSignal, Close, Stop
    <3>2. UNCHANGED deviceVars
      BY <3>1 DEF GetWait, ContactWait, Wait, GetRead, ContactRead
    <3>3. InContact'
      BY <2>1, <2>2, <3>1 DEF GetWait, ContactWait, Wait, GetRead, ContactRead, Return,
         HandOut, ReadFails, LoggerInv, InGet
    <3> QED
      BY <2>1, <2>2, <3>2, <3>3 DEF deviceVars
  <2>3. main_pc # "sleeping"
    BY <1>2 DEF LoggerInv, AtRest, GnssCall, SystemCall, Open, BlockSignal, EnableSignal,
       SetParams, Start, DisableSignal, UnblockSignal, Close, Stop, GetWait, ContactWait,
       Wait, GetRead, ContactRead
  <2> QED
    BY <2>1, <2>2, <2>3
<1>3. CASE MainStep
  <2> USE DEF Goto, Enter, deviceVars
  <2>1. CASE Initialize
    BY <2>1 DEF Initialize
  <2>2. CASE InitializeFails
    BY <2>2 DEF InitializeFails
  <2>3. CASE FirstContact
    <3>1. fd_open /\ blocked /\ notify /\ running
      BY <2>3 DEF FirstContact, LoggerInv, GnssInv, InitInv, InitAllOrNothing
    <3> QED
      BY <2>3, <3>1 DEF FirstContact
  <2>4. CASE FirstGet \/ GetAgain \/ WakeUp
    BY <2>4 DEF FirstGet, GetAgain, WakeUp
  <2>5. CASE Report
    BY <2>5 DEF Report, gnssVars
  <2> QED
    BY <1>3, <2>1, <2>2, <2>3, <2>4, <2>5 DEF MainStep
<1>4. CASE UNCHANGED vars
  BY <1>4 DEF vars, gnssVars, deviceVars
<1> QED
  BY <1>1, <1>2, <1>3, <1>4 DEF Next

(* main() never waits for a signal that nothing would raise.               *)
THEOREM LoggerKeepsSignals == Spec => []SignalsStayOn
<1>1. Init => InInit /\ InContact /\ SignalsStayOn
  BY DEF Init, InInit, InContact, SignalsStayOn
<1> QED
  BY <1>1, SignalsKept, LoggerInvAlways, PTL DEF Spec
=============================================================================
