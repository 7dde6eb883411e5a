-------------------------- MODULE GnssSampleProofs --------------------------
(***************************************************************************)
(* What is proved of both samples for every countdown and any number of    *)
(* failing calls: their types, how often a measurement is printed, how     *)
(* many measurements the countdown stands for, and what they leave behind. *)
(***************************************************************************)
EXTENDS GnssSample, TLAPS

(* A signal pending, a read about to be made and the reads already made of *)
(* the latest measurement: together no more than the reads there may be.   *)
One(condition) == IF condition THEN 1 ELSE 0
UseInv ==
  IF sample = "poll"
    THEN uses + One(announced) <= 1 /\ (pc = "read" => announced)
    ELSE uses + One(announced) + One(pc = "read") <= 2

(* The countdown in terms of the measurements told; until a fix has been   *)
(* read, what has been read had none.                                      *)
Counted == Period - posperiod
CountInv ==
  /\ pc \in {"open", "block", "enable", "params", "start", "wait", "read"} => posperiod > 0
  /\ ~posfixflag => Counted = 0 /\ (uses > 0 => ~fix)
  /\ posfixflag /\ uses > 0 => told > 0 /\ Counted <= Reads * (told - 1) + uses
  /\ posfixflag /\ uses = 0 => Counted <= Reads * told

(* What is on is what has still to be turned off, or would not be.         *)
OffInv ==
  /\ running => pc \in {"wait", "read", "stop"} \/ "stop" \in refused
  /\ notify  => \/ pc \in {"params", "start", "wait", "read", "stop", "disable"}
                \/ "disable" \in refused
  /\ blocked => pc \notin {"open", "block", "close", "end"}
  /\ sample = "poll" => ~blocked /\ ~notify
  /\ pc = "open" => ~fd_open
  /\ pc = "end" /\ ret = OK => ~fd_open

SampleInv == TypeOK /\ UseInv /\ CountInv /\ OffInv

(* What is on by the time of each call, and that the latest measurement is *)
(* not forgotten before it is read.                                        *)
OnInv ==
  /\ pc \in {"block", "enable", "params", "start", "wait", "read"} => fd_open
  /\ sample = "event" /\ pc \in {"enable", "params", "start", "wait", "read"} => blocked
  /\ sample = "event" /\ pc \in {"params", "start", "wait", "read"} => notify
  /\ pc \in {"wait", "read"} => running
  /\ pc \in {"open", "block", "enable", "params", "start"} => ~running /\ ~fix
  /\ pc = "wait" /\ fix /\ uses = 0 => announced

-----------------------------------------------------------------------------
(* The calls that follow a call.                                           *)
LEMMA Calls ==
  /\ EventOrder["open"] = "block" /\ EventOrder["block"] = "enable"
  /\ EventOrder["enable"] = "params" /\ EventOrder["params"] = "start"
  /\ EventOrder["start"] = "wait" /\ EventOrder["wait"] = "read"
  /\ EventOrder["stop"] = "disable" /\ EventOrder["disable"] = "unblock"
  /\ EventOrder["unblock"] = "close"
  /\ PollOrder["open"] = "params" /\ PollOrder["params"] = "start"
  /\ PollOrder["start"] = "wait" /\ PollOrder["wait"] = "read"
  /\ PollOrder["stop"] = "close"
  /\ EventErrors["open"] = "end" /\ EventErrors["block"] = "disable"
  /\ EventErrors["enable"] = "disable" /\ EventErrors["params"] = "disable"
  /\ EventErrors["start"] = "disable" /\ EventErrors["wait"] = "stop"
  /\ EventErrors["read"] = "stop"
  /\ PollErrors["open"] = "end" /\ PollErrors["params"] = "close"
  /\ PollErrors["start"] = "close" /\ PollErrors["wait"] = "stop"
  /\ PollErrors["read"] = "stop"
BY DEF EventOrder, PollOrder, EventErrors, PollErrors

(* What the wait changes, and where it leads.                              *)
LEMMA WaitEffect ==
  ASSUME TypeOK, Wait
  PROVE  /\ pc = "wait"
         /\ UNCHANGED <<sample, callVars, fix, second, refused, uses, posfixflag, posperiod, told>>
         /\ announced' \in BOOLEAN /\ posfixflag' \in BOOLEAN
         /\ faults' \in {faults, faults + 1}
         /\ faults' # faults => faults < MaxFaults
         /\ \/ announced /\ pc' = "read" /\ (announced' <=> sample = "poll")
            \/ pc' = "stop" /\ (announced' <=> announced)
<1>1. /\ pc = "wait"
      /\ UNCHANGED <<sample, callVars, fix, second, refused, uses, posfixflag, posperiod, told>>
  <2> USE DEF Wait, callVars, countVars, Same
  <2>1. UNCHANGED <<sample, fix, uses>>
    OBVIOUS
  <2>2. pc = "wait" /\ UNCHANGED <<posfixflag, posperiod, told>>
    OBVIOUS
  <2>3. UNCHANGED <<callVars, second, refused>>
    OBVIOUS
  <2> QED BY <2>1, <2>2, <2>3
<1>2. faults' \in {faults, faults + 1} /\ (faults' # faults => faults < MaxFaults)
  BY DEF Wait, Proceeds, Fails, Fault, NoFault
<1>3. \/ announced /\ pc' = "read" /\ (announced' <=> sample = "poll")
      \/ pc' = "stop" /\ (announced' <=> announced)
  <2> USE DEF Wait, Proceeds, Fails, EventOrder, EventErrors, PollOrder, PollErrors,
              TypeOK, ValuesOK, FlagsOK
  <2>1. CASE Proceeds /\ announced /\ announced' = IF sample = "poll" THEN TRUE ELSE FALSE
    BY <2>1
  <2>2. CASE Fails /\ UNCHANGED announced
    BY <2>2
  <2> QED BY <2>1, <2>2
<1>4. announced' \in BOOLEAN /\ posfixflag' \in BOOLEAN
  BY <1>1 DEF Wait, TypeOK, FlagsOK
<1> QED BY <1>1, <1>2, <1>3, <1>4

(* What the read changes, and where it leads.                              *)
LEMMA ReadEffect ==
  ASSUME TypeOK, Read
  PROVE  /\ pc = "read" /\ UNCHANGED <<sample, callVars, fix, second, refused>>
         /\ announced' \in BOOLEAN /\ posfixflag' \in BOOLEAN
         /\ faults' \in {faults, faults + 1}
         /\ faults' # faults => faults < MaxFaults
         /\ \/ /\ uses' = uses + 1
               /\ announced' <=> (sample = "event" /\ announced)
               /\ posfixflag' <=> (fix \/ posfixflag)
               /\ posperiod' = IF posfixflag' THEN posperiod - 1 ELSE posperiod
               /\ told' = IF posfixflag' /\ uses = 0 THEN told + 1 ELSE told
               /\ pc' = IF posperiod' > 0 THEN "wait" ELSE "stop"
            \/ /\ UNCHANGED <<announced, uses, posfixflag, posperiod, told>>
               /\ pc' = "stop"
<1>1. pc = "read" /\ UNCHANGED <<sample, callVars, fix, second, refused>>
  BY DEF Read, Same
<1>2. CASE Fails /\ UNCHANGED <<announced, uses, countVars>>
  <2>1. pc' = "stop"
    BY <1>1, <1>2 DEF Fails, EventErrors, PollErrors
  <2>2. faults < MaxFaults /\ faults' = faults + 1
    BY <1>2 DEF Fails, Fault
  <2>3. announced' \in BOOLEAN /\ posfixflag' \in BOOLEAN
    BY <1>2 DEF countVars, TypeOK, FlagsOK
  <2> QED BY <1>1, <1>2, <2>1, <2>2, <2>3 DEF countVars
<1>3. CASE ~(Fails /\ UNCHANGED <<announced, uses, countVars>>)
  <2>1. /\ NoFault
        /\ uses' = uses + 1
        /\ announced' = IF sample = "poll" THEN FALSE ELSE announced
        /\ posfixflag' = IF fix THEN TRUE ELSE posfixflag
        /\ Count
        /\ told' = IF posfixflag' /\ uses = 0 THEN told + 1 ELSE told
        /\ pc' = IF More THEN "wait" ELSE "stop"
    BY <1>3 DEF Read
  <2>2. announced' <=> (sample = "event" /\ announced)
    BY <2>1 DEF TypeOK, ValuesOK, FlagsOK
  <2>3. posfixflag' <=> (fix \/ posfixflag)
    BY <2>1 DEF TypeOK, FlagsOK
  <2>4. faults' = faults
    BY <2>1 DEF NoFault
  <2>5. pc' = IF posperiod' > 0 THEN "wait" ELSE "stop"
    BY <2>1 DEF More
  <2>6. announced' \in BOOLEAN /\ posfixflag' \in BOOLEAN
    BY <2>1 DEF TypeOK, FlagsOK
  <2> QED BY <1>1, <2>1, <2>2, <2>3, <2>4, <2>5, <2>6 DEF Count
<1> QED BY <1>2, <1>3

(* The wait trades an announcement for a read.                             *)
LEMMA WaitKeeps ==
  ASSUME SampleInv, Wait
  PROVE  FlagsOK' /\ ValuesOK' /\ UseInv' /\ CountInv' /\ OffInv'
<1>1. TypeOK /\ UseInv /\ CountInv /\ OffInv
  BY DEF SampleInv
<1>2. /\ pc = "wait"
      /\ UNCHANGED <<sample, callVars, fix, second, refused, uses, posfixflag, posperiod, told>>
      /\ announced' \in BOOLEAN /\ posfixflag' \in BOOLEAN
      /\ faults' \in {faults, faults + 1}
      /\ faults' # faults => faults < MaxFaults
      /\ \/ announced /\ pc' = "read" /\ (announced' <=> sample = "poll")
         \/ pc' = "stop" /\ (announced' <=> announced)
  BY <1>1, WaitEffect
<1>3. ValuesOK'
  BY <1>1, <1>2, SampleConstants DEF TypeOK, ValuesOK, Pcs, callVars
<1>4. UseInv'
  BY <1>1, <1>2 DEF TypeOK, ValuesOK, FlagsOK, UseInv, One
<1>5. CountInv'
  BY <1>1, <1>2 DEF TypeOK, ValuesOK, CountInv, Counted, Reads
<1>6. FlagsOK' /\ OffInv'
  <2>1. FlagsOK'
    BY <1>1, <1>2 DEF TypeOK, FlagsOK, callVars
  <2>2. OffInv'
    BY <1>1, <1>2 DEF OffInv, callVars
  <2> QED BY <2>1, <2>2
<1> QED BY <1>3, <1>4, <1>5, <1>6

(* The read counts itself, and tells a measurement when it is the first.   *)
LEMMA ReadKeeps ==
  ASSUME SampleInv, Read
  PROVE  FlagsOK' /\ ValuesOK' /\ UseInv' /\ CountInv' /\ OffInv'
<1>1. TypeOK /\ UseInv /\ CountInv /\ OffInv
  BY DEF SampleInv
<1>2. /\ pc = "read" /\ UNCHANGED <<sample, callVars, fix, second, refused>>
      /\ announced' \in BOOLEAN /\ posfixflag' \in BOOLEAN
      /\ faults' \in {faults, faults + 1}
      /\ faults' # faults => faults < MaxFaults
      /\ \/ /\ uses' = uses + 1
            /\ announced' <=> (sample = "event" /\ announced)
            /\ posfixflag' <=> (fix \/ posfixflag)
            /\ posperiod' = IF posfixflag' THEN posperiod - 1 ELSE posperiod
            /\ told' = IF posfixflag' /\ uses = 0 THEN told + 1 ELSE told
            /\ pc' = IF posperiod' > 0 THEN "wait" ELSE "stop"
         \/ /\ UNCHANGED <<announced, uses, posfixflag, posperiod, told>>
            /\ pc' = "stop"
  BY <1>1, ReadEffect
<1>3. posperiod > 0
  BY <1>1, <1>2 DEF CountInv
<1>4. ValuesOK'
  BY <1>1, <1>2, <1>3, SampleConstants DEF TypeOK, ValuesOK, Pcs, callVars
<1>5. UseInv'
  BY <1>1, <1>2 DEF TypeOK, ValuesOK, FlagsOK, UseInv, One
<1>6. uses \in 0..2 /\ (sample = "poll" => uses = 0)
  BY <1>1, <1>2 DEF TypeOK, ValuesOK, FlagsOK, UseInv, One
<1>7. CountInv'
  <2>1. Reads' = Reads /\ Reads \in {1, 2} /\ (uses > 0 => Reads = 2)
    BY <1>1, <1>2, <1>6 DEF TypeOK, ValuesOK, Reads
  <2>2. CASE UNCHANGED <<uses, posfixflag, posperiod, told>> /\ pc' = "stop"
    BY <1>1, <1>2, <2>1, <2>2 DEF CountInv, Counted
  <2>3. CASE /\ uses' = uses + 1
             /\ posfixflag' <=> (fix \/ posfixflag)
             /\ posperiod' = IF posfixflag' THEN posperiod - 1 ELSE posperiod
             /\ told' = IF posfixflag' /\ uses = 0 THEN told + 1 ELSE told
             /\ pc' = IF posperiod' > 0 THEN "wait" ELSE "stop"
    <3>1. /\ pc' \in {"wait", "stop"} /\ (pc' = "wait" => posperiod' > 0)
          /\ fix' = fix /\ uses' > 0 /\ uses' # 0
      BY <1>2, <1>6, <2>3
    <3>2. CASE posfixflag /\ uses = 0
      <4>1. posfixflag' /\ Counted' = Counted + 1 /\ told' = told + 1 /\ uses' = 1
        BY <1>1, <2>3, <3>2, SampleConstants DEF Counted, TypeOK, ValuesOK
      <4>2. Counted <= Reads * told /\ told \in Nat /\ Counted \in Int
        BY <1>1, <3>2, SampleConstants DEF CountInv, Counted, TypeOK, ValuesOK
      <4>3. told' > 0 /\ Counted' <= Reads * (told' - 1) + uses'
        BY <2>1, <4>1, <4>2
      <4> QED BY <2>1, <3>1, <4>1, <4>3 DEF CountInv
    <3>3. CASE posfixflag /\ uses > 0
      <4>1. posfixflag' /\ Counted' = Counted + 1 /\ told' = told /\ uses' = uses + 1
        BY <1>1, <2>3, <3>3, SampleConstants DEF Counted, TypeOK, ValuesOK
      <4>2. /\ told > 0 /\ Counted <= Reads * (told - 1) + uses
            /\ told \in Nat /\ Counted \in Int /\ uses \in Nat
        BY <1>1, <3>3, SampleConstants DEF CountInv, Counted, TypeOK, ValuesOK
      <4>3. told' > 0 /\ Counted' <= Reads * (told' - 1) + uses'
        BY <2>1, <4>1, <4>2
      <4> QED BY <2>1, <3>1, <4>1, <4>3 DEF CountInv
    <3>4. CASE ~posfixflag /\ fix
      <4>1. Counted = 0 /\ uses = 0 /\ told \in Nat
        BY <1>1, <1>6, <3>4 DEF CountInv, TypeOK, ValuesOK
      <4>2. posfixflag' /\ Counted' = 1 /\ told' = told + 1 /\ uses' = 1
        BY <1>1, <2>3, <3>4, <4>1, SampleConstants DEF Counted, TypeOK, ValuesOK
      <4>3. told' > 0 /\ Counted' <= Reads * (told' - 1) + uses'
        BY <2>1, <4>1, <4>2
      <4> QED BY <2>1, <3>1, <4>2, <4>3 DEF CountInv
    <3>5. CASE ~posfixflag /\ ~fix
      <4>1. ~posfixflag' /\ Counted' = 0
        BY <1>1, <2>3, <3>5 DEF Counted, CountInv
      <4> QED BY <3>1, <3>5, <4>1 DEF CountInv
    <3> QED BY <1>6, <3>2, <3>3, <3>4, <3>5
  <2> QED BY <1>2, <2>2, <2>3
<1>8. FlagsOK' /\ OffInv'
  <2>1. FlagsOK'
    BY <1>1, <1>2 DEF TypeOK, FlagsOK, callVars
  <2>2. OffInv'
    BY <1>1, <1>2 DEF OffInv, callVars
  <2> QED BY <2>1, <2>2
<1> QED BY <1>4, <1>5, <1>7, <1>8

(* Nothing is on at first and nothing has been read.                       *)
LEMMA SampleInvInit == Init => SampleInv
<1> SUFFICES ASSUME Init PROVE SampleInv
  OBVIOUS
<1> USE SampleConstants DEF Init
<1>1. FlagsOK
  BY DEF FlagsOK
<1>2. ValuesOK
  BY DEF ValuesOK, Pcs, OK, ERROR
<1>3. UseInv /\ OffInv
  BY DEF UseInv, OffInv, One
<1>4. CountInv
  BY DEF CountInv, Counted, Reads
<1> QED BY <1>1, <1>2, <1>3, <1>4 DEF SampleInv, TypeOK

(* The flags stay flags.                                                   *)
LEMMA FlagsKept == SampleInv /\ [Next]_vars => FlagsOK'
<1> SUFFICES ASSUME SampleInv, [Next]_vars, ~Wait, ~Read PROVE FlagsOK'
  BY WaitKeeps, ReadKeeps
<1> USE SampleConstants, Calls DEF SampleInv, TypeOK, FlagsOK, ValuesOK,
           callVars, receiverVars, countVars, Proceeds, Fails, Same,
           Fault, NoFault
<1>1. CASE Measure
  BY <1>1 DEF Measure
<1>2. CASE Open
  BY <1>2 DEF Open
<1>3. CASE Block
  BY <1>3 DEF Block
<1>4. CASE Enable
  BY <1>4 DEF Enable
<1>5. CASE SetParams
  BY <1>5 DEF SetParams
<1>6. CASE Start
  BY <1>6 DEF Start
<1>7. CASE Stop
  BY <1>7 DEF Stop, GoesOn, Refused
<1>8. CASE Disable
  BY <1>8 DEF Disable, GoesOn, Refused
<1>9. CASE Unblock
  BY <1>9 DEF Unblock, GoesOn
<1>10. CASE Close
  BY <1>10 DEF Close
<1>11. CASE UNCHANGED vars
  BY <1>11 DEF vars
<1> QED
  BY <1>1, <1>2, <1>3, <1>4, <1>5, <1>6, <1>7, <1>8, <1>9, <1>10, <1>11
     DEF Next, SystemCall

(* Every call leads to another, and the countdown ends at zero.            *)
LEMMA ValuesKept == SampleInv /\ [Next]_vars => ValuesOK'
<1> SUFFICES ASSUME SampleInv, [Next]_vars, ~Wait, ~Read PROVE ValuesOK'
  BY WaitKeeps, ReadKeeps
<1> USE SampleConstants, Calls DEF SampleInv, TypeOK, ValuesOK, CountInv, Pcs, OK, ERROR,
           callVars, receiverVars, countVars, Proceeds, Fails, Same,
           Fault, NoFault
<1>1. CASE Measure
  BY <1>1 DEF Measure
<1>2. CASE Open
  BY <1>2 DEF Open
<1>3. CASE Block
  BY <1>3 DEF Block
<1>4. CASE Enable
  BY <1>4 DEF Enable
<1>5. CASE SetParams
  BY <1>5 DEF SetParams
<1>6. CASE Start
  BY <1>6 DEF Start
<1>7. CASE Stop
  <2>1. refused' \in SUBSET {"stop", "disable"}
    BY <1>7 DEF Stop, Refused
  <2> QED BY <1>7, <2>1 DEF Stop, GoesOn, Refused
<1>8. CASE Disable
  <2>1. refused' \in SUBSET {"stop", "disable"}
    BY <1>8 DEF Disable, Refused
  <2> QED BY <1>8, <2>1 DEF Disable, GoesOn, Refused
<1>9. CASE Unblock
  BY <1>9 DEF Unblock, GoesOn
<1>10. CASE Close
  BY <1>10 DEF Close
<1>11. CASE UNCHANGED vars
  BY <1>11 DEF vars
<1> QED
  BY <1>1, <1>2, <1>3, <1>4, <1>5, <1>6, <1>7, <1>8, <1>9, <1>10, <1>11
     DEF Next, SystemCall

(* The wait trades an announcement for a read, the read counts itself.     *)
LEMMA UseKept == SampleInv /\ [Next]_vars => UseInv'
<1> SUFFICES ASSUME SampleInv, [Next]_vars, ~Wait, ~Read PROVE UseInv'
  BY WaitKeeps, ReadKeeps
<1> USE SampleConstants, Calls DEF SampleInv, TypeOK, FlagsOK, ValuesOK, UseInv, Pcs, One,
           callVars, receiverVars, countVars, Proceeds, Fails, Same,
           Fault, NoFault
<1>1. CASE Measure
  BY <1>1 DEF Measure
<1>2. CASE Open
  BY <1>2 DEF Open
<1>3. CASE Block
  BY <1>3 DEF Block
<1>4. CASE Enable
  BY <1>4 DEF Enable
<1>5. CASE SetParams
  BY <1>5 DEF SetParams
<1>6. CASE Start
  BY <1>6 DEF Start
<1>7. CASE Stop
  BY <1>7 DEF Stop, GoesOn, Refused
<1>8. CASE Disable
  BY <1>8 DEF Disable, GoesOn, Refused
<1>9. CASE Unblock
  BY <1>9 DEF Unblock, GoesOn
<1>10. CASE Close
  BY <1>10 DEF Close
<1>11. CASE UNCHANGED vars
  BY <1>11 DEF vars
<1> QED
  BY <1>1, <1>2, <1>3, <1>4, <1>5, <1>6, <1>7, <1>8, <1>9, <1>10, <1>11
     DEF Next, SystemCall

(* A measurement is told at its first read, counted at most Reads times.   *)
LEMMA CountKept == SampleInv /\ [Next]_vars => CountInv'
<1> SUFFICES ASSUME SampleInv, [Next]_vars, ~Wait, ~Read PROVE CountInv'
  BY WaitKeeps, ReadKeeps
<1> USE SampleConstants, Calls DEF SampleInv, TypeOK, FlagsOK, ValuesOK, CountInv, Counted, Reads,
           callVars, receiverVars, countVars, Proceeds, Fails, Same,
           Fault, NoFault
<1>1. CASE Measure
  <2>1. uses <= Reads
    BY DEF UseInv, One
  <2>2. posfixflag => Counted <= Reads * told
    BY <2>1
  <2> QED BY <1>1, <2>2 DEF Measure
<1>2. CASE Open
  BY <1>2 DEF Open
<1>3. CASE Block
  BY <1>3 DEF Block
<1>4. CASE Enable
  BY <1>4 DEF Enable
<1>5. CASE SetParams
  BY <1>5 DEF SetParams
<1>6. CASE Start
  BY <1>6 DEF Start
<1>7. CASE Stop
  BY <1>7 DEF Stop, GoesOn, Refused
<1>8. CASE Disable
  BY <1>8 DEF Disable, GoesOn, Refused
<1>9. CASE Unblock
  BY <1>9 DEF Unblock, GoesOn
<1>10. CASE Close
  BY <1>10 DEF Close
<1>11. CASE UNCHANGED vars
  BY <1>11 DEF vars
<1> QED
  BY <1>1, <1>2, <1>3, <1>4, <1>5, <1>6, <1>7, <1>8, <1>9, <1>10, <1>11
     DEF Next, SystemCall

(* Every way to the end passes the calls that turn off what is on.         *)
LEMMA OffKept == SampleInv /\ [Next]_vars => OffInv'
<1> SUFFICES ASSUME SampleInv, [Next]_vars, ~Wait, ~Read PROVE OffInv'
  BY WaitKeeps, ReadKeeps
<1> USE SampleConstants, Calls DEF SampleInv, TypeOK, FlagsOK, ValuesOK, OffInv, Pcs, OK, ERROR,
           callVars, receiverVars, countVars, Proceeds, Fails, Same,
           Fault, NoFault
<1>1. CASE Measure
  BY <1>1 DEF Measure
<1>2. CASE Open
  BY <1>2 DEF Open
<1>3. CASE Block
  BY <1>3 DEF Block
<1>4. CASE Enable
  BY <1>4 DEF Enable
<1>5. CASE SetParams
  BY <1>5 DEF SetParams
<1>6. CASE Start
  BY <1>6 DEF Start
<1>7. CASE Stop
  BY <1>7 DEF Stop, GoesOn, Refused
<1>8. CASE Disable
  BY <1>8 DEF Disable, GoesOn, Refused
<1>9. CASE Unblock
  BY <1>9 DEF Unblock, GoesOn
<1>10. CASE Close
  BY <1>10 DEF Close
<1>11. CASE UNCHANGED vars
  BY <1>11 DEF vars
<1> QED
  BY <1>1, <1>2, <1>3, <1>4, <1>5, <1>6, <1>7, <1>8, <1>9, <1>10, <1>11
     DEF Next, SystemCall

(* Nothing the sample waits for is turned off before the wait is over, and *)
(* every measurement announces itself.                                     *)
LEMMA OnKept == SampleInv /\ OnInv /\ [Next]_vars => OnInv'
<1> SUFFICES ASSUME SampleInv, OnInv, [Next]_vars PROVE OnInv'
  OBVIOUS
<1> USE SampleConstants, Calls DEF SampleInv, TypeOK, FlagsOK, ValuesOK, OnInv, Pcs,
           callVars, receiverVars, countVars, Proceeds, Fails, Same,
           Fault, NoFault
<1>1. CASE Measure
  BY <1>1 DEF Measure
<1>2. CASE Open
  BY <1>2 DEF Open
<1>3. CASE Block
  BY <1>3 DEF Block
<1>4. CASE Enable
  BY <1>4 DEF Enable
<1>5. CASE SetParams
  BY <1>5 DEF SetParams
<1>6. CASE Start
  BY <1>6 DEF Start
<1>7. CASE Stop
  BY <1>7 DEF Stop, GoesOn, Refused
<1>8. CASE Disable
  BY <1>8 DEF Disable, GoesOn, Refused
<1>9. CASE Unblock
  BY <1>9 DEF Unblock, GoesOn
<1>10. CASE Close
  BY <1>10 DEF Close
<1>11. CASE Wait
  <2>1. /\ pc = "wait" /\ pc' \in {"read", "stop"}
        /\ UNCHANGED <<sample, callVars>>
    BY <1>11, WaitEffect DEF SampleInv
  <2> QED BY <2>1
<1>12. CASE Read
  <2>1. /\ pc = "read" /\ UNCHANGED <<sample, callVars>>
        /\ pc' \in {"wait", "stop"}
        /\ pc' = "wait" => uses' = uses + 1
    BY <1>12, ReadEffect DEF SampleInv
  <2> QED BY <2>1
<1>13. CASE UNCHANGED vars
  BY <1>13 DEF vars
<1> QED
  BY <1>1, <1>2, <1>3, <1>4, <1>5, <1>6, <1>7, <1>8, <1>9, <1>10, <1>11,
     <1>12, <1>13 DEF Next, SystemCall

(* The invariants hold throughout.                                         *)
LEMMA SampleInvAlways == Spec => [](SampleInv /\ OnInv)
<1>1. SampleInv /\ [Next]_vars => SampleInv'
  BY FlagsKept, ValuesKept, UseKept, CountKept, OffKept DEF SampleInv, TypeOK
<1>2. Init => OnInv
  BY DEF Init, OnInv
<1> QED BY SampleInvInit, <1>1, <1>2, OnKept, PTL DEF Spec

-----------------------------------------------------------------------------
(* Every variable of the two samples keeps its type.                       *)
THEOREM SampleTypeCorrect == Spec => []TypeOK
<1>1. SampleInv => TypeOK
  BY DEF SampleInv
<1> QED BY SampleInvAlways, <1>1, PTL

(* A measurement is printed once by the sample that polls, and at most     *)
(* twice by the one that waits for a signal.                               *)
THEOREM PrintsSeldom == Spec => []PrintedSeldom
<1>1. SampleInv => PrintedSeldom
  BY DEF SampleInv, UseInv, TypeOK, FlagsOK, ValuesOK, PrintedSeldom, Reads, One
<1> QED BY SampleInvAlways, <1>1, PTL

(* The countdown of either sample stands for enough measurements.          *)
THEOREM CountdownTakesItsTime == Spec => []CountsSeconds
<1>1. SampleInv => CountsSeconds
  BY SampleConstants
     DEF SampleInv, UseInv, CountInv, TypeOK, FlagsOK, ValuesOK, CountsSeconds, Counted, Reads, One
<1> QED BY SampleInvAlways, <1>1, PTL

(* Wherever main() fails, the receiver is off and the file closed at the   *)
(* end, or the call that should have seen to it failed.                    *)
THEOREM SampleLeavesReceiverOff == Spec => []LeavesReceiverOff
<1>1. SampleInv => LeavesReceiverOff
  BY DEF SampleInv, OffInv, LeavesReceiverOff
<1> QED BY SampleInvAlways, <1>1, PTL

(* A sample never waits in vain: the receiver is positioning on an open    *)
(* file and will announce what it measures, whichever calls failed before, *)
(* and the latest measurement, taken between any two calls, is announced   *)
(* still if it has a fix nobody has read.                                  *)
WaitsForAReceiver ==
  pc = "wait" =>
    /\ fd_open /\ running
    /\ sample = "event" => blocked /\ notify
    /\ fix /\ uses = 0 => announced

(* Whatever the sample waits for can come, and has not been forgotten.     *)
THEOREM SampleWaitsForAReceiver == Spec => []WaitsForAReceiver
<1>1. SampleInv /\ OnInv => WaitsForAReceiver
  BY DEF OnInv, WaitsForAReceiver
<1> QED BY SampleInvAlways, <1>1, PTL
=============================================================================
