----------------------------- MODULE GnssSample -----------------------------
(***************************************************************************)
(* samples/gnss_event.c and samples/gnss_poll.c: start the GNSS receiver,  *)
(* print what it measures, and count down, from the first fix on, to the   *)
(* end of the program.  The one waits for a signal, the other polls; they  *)
(* make the same calls but for that, each in its own order.                *)
(*                                                                         *)
(* The receiver and its driver are external: the driver keeps the latest   *)
(* measurement only.  A signal announces a measurement and is not queued   *)
(* twice; a poll returns when there is a measurement nobody has read.      *)
(***************************************************************************)
EXTENDS Integers

CONSTANTS Period,     \* measurements to count down, 200 in the code
          MaxFaults   \* bound: system calls that fail

ASSUME SampleConstants == Period \in Nat \ {0} /\ MaxFaults \in Nat

VARIABLES
  sample,      \* which of the two programs runs: "event" or "poll"
  pc,          \* the system call main() is about to make
  ret,         \* what main() returns
  fd_open,     \* the receiver's device file is open
  blocked,     \* MY_GNSS_SIG is blocked
  notify,      \* the driver sends MY_GNSS_SIG
  running,     \* the receiver is positioning
  second,      \* the second of its latest measurement, modulo 2
  fix,         \* that measurement has a fix
  announced,   \* a signal is pending, or a measurement unread
  posfixflag,  \* a fix has been read
  posperiod,   \* the countdown
  uses,        \* history: times the latest measurement was read
  told,        \* history: different measurements counted down
  refused,     \* history: the calls of the tear-down that failed
  faults       \* system calls that have failed

callVars     == <<ret, fd_open, blocked, notify, running>>
receiverVars == <<second, fix, announced, uses>>
countVars    == <<posfixflag, posperiod, told>>
vars == <<sample, pc, callVars, receiverVars, countVars, refused, faults>>

OK    == 0
ERROR == -1

Init ==
  /\ sample \in {"event", "poll"}
  /\ pc = "open" /\ ret = OK
  /\ fd_open = FALSE /\ blocked = FALSE /\ notify = FALSE /\ running = FALSE
  /\ second = 0 /\ fix = FALSE /\ announced = FALSE /\ uses = 0
  /\ posfixflag = FALSE /\ posperiod = Period /\ told = 0
  /\ refused = {} /\ faults = 0

Fault   == faults < MaxFaults /\ faults' = faults + 1
NoFault == UNCHANGED faults

(* The receiver measures, once a second.                                   *)
Measure ==
  /\ running
  /\ second' = 1 - second /\ fix' \in BOOLEAN
  /\ announced' = (announced \/ notify \/ sample = "poll")
  /\ uses' = 0
  /\ UNCHANGED <<sample, pc, callVars, countVars, refused, faults>>

-----------------------------------------------------------------------------
(* The order of the calls, and where an error leads: behind the start of   *)
(* the receiver to its stop, before it to what follows the stop.           *)
EventOrder  == [open |-> "block", block |-> "enable", enable |-> "params",
                params |-> "start", start |-> "wait", wait |-> "read",
                stop |-> "disable", disable |-> "unblock", unblock |-> "close"]
EventErrorsSkippingStop ==
               [open |-> "end", block |-> "disable", enable |-> "disable",
                params |-> "disable", start |-> "disable", wait |-> "disable",
                read |-> "disable"]
EventErrors == [open |-> "end", block |-> "disable", enable |-> "disable",
                params |-> "disable", start |-> "disable", wait |-> "stop",
                read |-> "stop"]
PollOrder   == [open |-> "params", params |-> "start", start |-> "wait",
                wait |-> "read", stop |-> "close"]
PollErrors  == [open |-> "end", params |-> "close", start |-> "close",
                wait |-> "stop", read |-> "stop"]

Proceeds == NoFault /\ pc' = IF sample = "event" THEN EventOrder[pc] ELSE PollOrder[pc]
Fails    == Fault /\ pc' = IF sample = "event" THEN EventErrors[pc] ELSE PollErrors[pc]
Same     == UNCHANGED sample

(* -ENODEV, and a failing close, are ERROR here.                           *)
Open ==
  /\ pc = "open"
  /\ \/ Proceeds /\ fd_open' = TRUE /\ UNCHANGED ret
     \/ Fails /\ ret' = ERROR /\ UNCHANGED fd_open
  /\ Same /\ UNCHANGED <<blocked, notify, running, receiverVars, countVars, refused>>

Block ==
  /\ pc = "block"
  /\ \/ Proceeds /\ blocked' = TRUE
     \/ Fails /\ UNCHANGED blocked
  /\ Same /\ UNCHANGED <<ret, fd_open, notify, running, receiverVars, countVars, refused>>

EnableTurnedOff ==
  /\ pc = "enable"
  /\ \/ Proceeds /\ notify' = FALSE
     \/ Fails /\ UNCHANGED notify
  /\ Same /\ UNCHANGED <<ret, fd_open, blocked, running, receiverVars, countVars, refused>>

Enable ==
  /\ pc = "enable"
  /\ \/ Proceeds /\ notify' = TRUE
     \/ Fails /\ UNCHANGED notify
  /\ Same /\ UNCHANGED <<ret, fd_open, blocked, running, receiverVars, countVars, refused>>

(* gnss_setparams: either of its ioctls may fail.                          *)
SetParams ==
  /\ pc = "params"
  /\ Proceeds \/ Fails
  /\ Same /\ UNCHANGED <<callVars, receiverVars, countVars, refused>>

Start ==
  /\ pc = "start"
  /\ \/ Proceeds /\ running' = TRUE
     \/ Fails /\ UNCHANGED running
  /\ Same /\ UNCHANGED <<ret, fd_open, blocked, notify, receiverVars, countVars, refused>>

WaitKeepingSignal ==
  /\ pc = "wait"
  /\ \/ Proceeds /\ announced /\ UNCHANGED announced
     \/ Fails /\ UNCHANGED announced
  /\ Same /\ UNCHANGED <<callVars, second, fix, uses, countVars, refused>>

(* sigwaitinfo takes the pending signal, poll leaves the measurement.      *)
Wait ==
  /\ pc = "wait"
  /\ \/ /\ Proceeds /\ announced
        /\ announced' = IF sample = "poll" THEN TRUE ELSE FALSE
     \/ Fails /\ UNCHANGED announced
  /\ Same /\ UNCHANGED <<callVars, second, fix, uses, countVars, refused>>

CountWithoutFix == posperiod' = posperiod - 1
Count           == posperiod' = IF posfixflag' THEN posperiod - 1 ELSE posperiod

MoreOffByOne == posperiod' >= 0
More         == posperiod' > 0

(* read_and_print, the countdown and the test of the loop.  A short read   *)
(* fails like another.                                                     *)
Read ==
  /\ pc = "read"
  /\ \/ /\ NoFault
        /\ uses' = uses + 1
        /\ announced' = IF sample = "poll" THEN FALSE ELSE announced
        /\ posfixflag' = IF fix THEN TRUE ELSE posfixflag
        /\ Count
        /\ told' = IF posfixflag' /\ uses = 0 THEN told + 1 ELSE told
        /\ pc' = IF More THEN "wait" ELSE "stop"
     \/ Fails /\ UNCHANGED <<announced, uses, countVars>>
  /\ Same /\ UNCHANGED <<callVars, second, fix, refused>>

(* The tear-down goes on whatever its calls return.                        *)
Refused(done) ==
  \/ done /\ NoFault /\ UNCHANGED refused
  \/ Fault /\ refused' = refused \cup {pc} /\ UNCHANGED <<notify, running>>

GoesOn == pc' = IF sample = "event" THEN EventOrder[pc] ELSE PollOrder[pc]

Stop ==
  /\ pc = "stop" /\ GoesOn
  /\ Refused(running' = FALSE /\ UNCHANGED notify)
  /\ Same /\ UNCHANGED <<ret, fd_open, blocked, receiverVars, countVars>>

Disable ==
  /\ pc = "disable" /\ GoesOn
  /\ Refused(notify' = FALSE /\ UNCHANGED running)
  /\ Same /\ UNCHANGED <<ret, fd_open, blocked, receiverVars, countVars>>

(* Unblocking lets a pending signal through.                               *)
Unblock ==
  /\ pc = "unblock" /\ GoesOn /\ NoFault
  /\ blocked' = FALSE /\ announced' = FALSE
  /\ Same /\ UNCHANGED <<ret, fd_open, notify, running, second, fix, uses, countVars,
                         refused>>

(* What close() says is what main() returns, whatever failed before.       *)
Close ==
  /\ pc = "close" /\ pc' = "end"
  /\ \/ NoFault /\ fd_open' = FALSE /\ ret' = OK
     \/ Fault /\ fd_open' \in BOOLEAN /\ ret' = ERROR
  /\ Same /\ UNCHANGED <<blocked, notify, running, receiverVars, countVars, refused>>

SystemCall == \/ Open \/ Block \/ Enable \/ SetParams \/ Start \/ Wait \/ Read
              \/ Stop \/ Disable \/ Unblock \/ Close

Next == Measure \/ SystemCall

(* The task is scheduled and a receiver that positions keeps measuring.    *)
Spec     == Init /\ [][Next]_vars
FairSpec == Spec /\ WF_vars(SystemCall /\ NoFault) /\ WF_vars(Measure)

-----------------------------------------------------------------------------
Pcs == {"open", "block", "enable", "params", "start", "wait", "read", "stop",
        "disable", "unblock", "close", "end"}

FlagsOK ==
  /\ fd_open \in BOOLEAN /\ blocked \in BOOLEAN /\ notify \in BOOLEAN
  /\ running \in BOOLEAN /\ fix \in BOOLEAN /\ announced \in BOOLEAN
  /\ posfixflag \in BOOLEAN

ValuesOK ==
  /\ sample \in {"event", "poll"}
  /\ pc \in Pcs
  /\ sample = "poll" => pc \notin {"block", "enable", "disable", "unblock"}
  /\ ret \in {OK, ERROR}
  /\ second \in 0..1
  /\ posperiod \in 0..Period
  /\ uses \in Nat /\ told \in Nat
  /\ refused \in SUBSET {"stop", "disable"}
  /\ faults \in 0..MaxFaults

(* Types of the variables.                                                 *)
TypeOK == FlagsOK /\ ValuesOK

(* Though a measurement is announced and read in two calls, and the next   *)
(* may come in between, none is printed more than once by the sample that  *)
(* polls, nor more than twice by the one that waits for a signal.          *)
Reads == IF sample = "poll" THEN 1 ELSE 2
PrintedSeldom == uses <= Reads

(* The samples run for "the specified seconds" after the first fix         *)
(* (gnss_event.c:349): the countdown goes down for measurements, each a    *)
(* second after the other.  It is right for poll; for the signal at least  *)
(* half of the seconds have passed.                                        *)
CountsSeconds == Period - posperiod <= Reads * told

(* Wherever main() fails, what it started is stopped when it ends, unless  *)
(* the very call that stops it fails; and a return value of zero says that *)
(* the file is closed.                                                     *)
LeavesReceiverOff ==
  pc = "end" =>
    /\ running => "stop" \in refused
    /\ notify => "disable" \in refused
    /\ ~blocked
    /\ ret = OK => ~fd_open

(* A sample ends if the receiver has a fix at some time and keeps it: no   *)
(* announcement is lost between two calls.                                 *)
SampleEnds == <>(pc = "end") \/ []<>~fix
=============================================================================
