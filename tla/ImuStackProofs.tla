--------------------------- MODULE ImuStackProofs ---------------------------
(***************************************************************************)
(* What is proved of ImuStack for every number of clients and every size   *)
(* of the stack: its types, that the slot written after the unlocked room  *)
(* check exists, that a calibration divides by enough samples, and that    *)
(* the stack implements BoundedLog.                                        *)
(***************************************************************************)
EXTENDS ImuStack, SequenceTheorems, TLAPS

(* Who owns the mutex is inside the code that will release it, and nobody  *)
(* else is: the mutex is neither shared nor left locked by a thread that   *)
(* ends, fails or returns, so that no waiter waits for an owner gone.      *)
OwnerInside ==
  /\ imu_pc \in {"write_acc", "write_gyr"} <=> data_mutex = ImuThread
  /\ \A c \in Clients :
       client_pc[c] \in {"read_loop", "calib_loop"} <=> data_mutex = c

(* A client in its loop has visited a prefix of what the stack holds.      *)
SeenInv ==
  \A c \in Clients : client_pc[c] \in {"read_loop", "calib_loop"} =>
    /\ Len(seen[c]) <= data_stack_pos
    /\ \A i \in 1..Len(seen[c]) : seen[c][i] = data_stack[i - 1]

(* Outside its loop a client has visited nothing yet.                      *)
FreshInv ==
  \A c \in Clients : client_pc[c] \notin {"read_loop", "calib_loop"} => seen[c] = <<>>

(* Half-written slots hold the thread's own copy.                          *)
HalfInv ==
  imu_pc = "write_gyr" => data_stack[data_stack_pos].acc = acc_data

-----------------------------------------------------------------------------
(* A table stays a table when frames are pushed: the decoder's guard.      *)
LEMMA DecodeType ==
  ASSUME NEW t \in Table, NEW n \in 0..MaxFrames, NEW b \in Batches
  PROVE  Decode(t, n, b) \in Table
BY ConstantsOK DEF Table, Decode, Axis

(* Fetching the latest frame yields an axis value.                         *)
LEMMA GetLatestType ==
  ASSUME NEW t \in Table, NEW old \in Axis
  PROVE  GetLatest(t, old) \in Axis
BY DEF Table, GetLatest, Axis

(* An emptied table is a table.                                            *)
LEMMA EmptyTableType == EmptyTable \in Table
BY ConstantsOK DEF EmptyTable, Table, Axis

(* Types together with the room that the unlocked check found: the check   *)
(* is what keeps data_stack_pos within the stack when it grows.            *)
TypeRoom == TypeOK /\ RoomWhenWriting

(* The stack starts empty, with room.                                      *)
LEMMA TypeRoomInit == Init => TypeRoom
<1> SUFFICES ASSUME Init PROVE TypeRoom
  OBVIOUS
<1>1. TypeOK
  BY ConstantsOK, EmptyTableType
     DEF Init, TypeOK, ImuLocations, ClientLocations, Axis, Entry, Bias
<1>2. RoomWhenWriting
  BY DEF Init, RoomWhenWriting
<1> QED BY <1>1, <1>2 DEF TypeRoom

(* The thread's own steps: only CheckRoom enters the writing locations,    *)
(* and only WriteGyr, which leaves them, advances the position.            *)
LEMMA TypeRoomImu == TypeRoom /\ ImuStep => TypeRoom'
<1> SUFFICES ASSUME TypeOK, RoomWhenWriting, ImuStep PROVE TypeOK' /\ RoomWhenWriting'
  BY DEF TypeRoom
<1> USE ConstantsOK DEF ImuLocations, stackVars, clientVars
<1>1. CASE OpenBus
  BY <1>1 DEF OpenBus, TypeOK, RoomWhenWriting
<1>2. CASE InitSensor
  BY <1>2 DEF InitSensor, TypeOK, RoomWhenWriting
<1>3. CASE Dequeue
  <2>1. acc_table' \in Table /\ gyr_table' \in Table
    BY <1>3, DecodeType DEF Dequeue, TypeOK
  <2> QED BY <1>3, <2>1 DEF Dequeue, TypeOK, RoomWhenWriting
<1>4. CASE CheckRoom
  BY <1>4, GetLatestType, EmptyTableType DEF CheckRoom, TypeOK, RoomWhenWriting
<1>5. CASE SkipFull
  BY <1>5 DEF SkipFull, TypeOK, RoomWhenWriting
<1>6. CASE ImuLock
  BY <1>6 DEF ImuLock, TypeOK, RoomWhenWriting
<1>7. CASE WriteAcc
  <2>1. data_stack' \in [0..(StackSize - 1) -> Entry]
    BY <1>7 DEF WriteAcc, TypeOK, Entry, RoomWhenWriting
  <2> QED BY <1>7, <2>1 DEF WriteAcc, TypeOK, RoomWhenWriting
<1>8. CASE WriteGyr
  <2>1. data_stack' \in [0..(StackSize - 1) -> Entry]
    BY <1>8 DEF WriteGyr, TypeOK, Entry, RoomWhenWriting
  <2>2. data_stack_pos' \in 0..StackSize
    BY <1>8 DEF WriteGyr, TypeOK, RoomWhenWriting
  <2> QED BY <1>8, <2>1, <2>2 DEF WriteGyr, TypeOK, RoomWhenWriting
<1>9. CASE Shutdown
  BY <1>9, EmptyTableType DEF Shutdown, TypeOK, RoomWhenWriting
<1> QED BY <1>1, <1>2, <1>3, <1>4, <1>5, <1>6, <1>7, <1>8, <1>9 DEF ImuStep

(* The clients' steps: the position only ever falls to zero.               *)
LEMMA TypeRoomClient ==
  ASSUME NEW c \in Clients, TypeRoom, ClientCall(c) \/ ClientStep(c) PROVE TypeRoom'
<1> SUFFICES TypeOK' /\ RoomWhenWriting'
  BY DEF TypeRoom
<1> USE ConstantsOK DEF TypeRoom, ClientLocations, imuVars, stackVars
<1>1. CASE CallRead(c)
  BY <1>1 DEF CallRead, TypeOK, RoomWhenWriting
<1>2. CASE CallCalibrate(c)
  BY <1>2 DEF CallCalibrate, TypeOK, RoomWhenWriting
<1>3. CASE CalibrateEnough(c)
  BY <1>3 DEF CalibrateEnough, TypeOK, RoomWhenWriting
<1>4. CASE ClientLock(c)
  BY <1>4 DEF ClientLock, TypeOK, RoomWhenWriting
<1>5. CASE VisitEntry(c)
  <2>1. seen[c] \in Seq(Entry) /\ Len(seen[c]) \in 0..(StackSize - 1)
    BY <1>5, LenProperties DEF VisitEntry, TypeOK
  <2>2. data_stack[Len(seen[c])] \in Entry
    BY <2>1 DEF TypeOK
  <2>3. seen' \in [Clients -> Seq(Entry)]
    BY <1>5, <2>1, <2>2 DEF VisitEntry, TypeOK
  <2> QED BY <1>5, <2>3 DEF VisitEntry, TypeOK, RoomWhenWriting
<1>6. CASE FinishRead(c)
  <2>1. seen' \in [Clients -> Seq(Entry)] /\ delivered' \in Seq(Entry)
    BY <1>6 DEF FinishRead, TypeOK
  <2> QED BY <1>6, <2>1 DEF FinishRead, Overtake, TypeOK, RoomWhenWriting
<1>7. CASE FinishCalibrate(c)
  <2>1. seen' \in [Clients -> Seq(Entry)] /\ delivered' \in Seq(Entry)
    BY <1>7 DEF FinishCalibrate, TypeOK
  <2>2. imu_sensor_bias' \in Bias
    BY <1>7 DEF FinishCalibrate, TypeOK, Bias
  <2> QED BY <1>7, <2>1, <2>2 DEF FinishCalibrate, Overtake, TypeOK, RoomWhenWriting
<1> QED BY <1>1, <1>2, <1>3, <1>4, <1>5, <1>6, <1>7 DEF ClientCall, ClientStep

(* Whoever takes a step, types and room are kept.                          *)
LEMMA TypeRoomNext == TypeRoom /\ [Next]_vars => TypeRoom'
<1> SUFFICES ASSUME TypeRoom, [Next]_vars PROVE TypeRoom'
  OBVIOUS
<1>1. CASE ImuStep
  BY <1>1, TypeRoomImu
<1>2. CASE \E c \in Clients : ClientCall(c) \/ ClientStep(c)
  BY <1>2, TypeRoomClient
<1>3. CASE UNCHANGED vars
  BY <1>3 DEF vars, imuVars, stackVars, clientVars, TypeRoom, TypeOK, RoomWhenWriting
<1> QED BY <1>1, <1>2, <1>3 DEF Next

(* They hold throughout.                                                   *)
LEMMA TypeRoomAlways == Spec => []TypeRoom
BY TypeRoomInit, TypeRoomNext, PTL DEF Spec

(* Every variable keeps its type, the tables within the store length.      *)
THEOREM TypeCorrect == Spec => []TypeOK
<1>1. TypeRoom => TypeOK
  BY DEF TypeRoom
<1> QED BY TypeRoomAlways, <1>1, PTL

(* The room check of bmi270_ctrl.c:80 still holds at the writes of :87-92. *)
THEOREM WritesInsideStack == Spec => []RoomWhenWriting
<1>1. TypeRoom => RoomWhenWriting
  BY DEF TypeRoom
<1> QED BY TypeRoomAlways, <1>1, PTL

-----------------------------------------------------------------------------
(* The inductive invariant behind the implementation proof.                *)
StackInv == TypeRoom /\ OwnerInside /\ FreshInv /\ SeenInv /\ HalfInv

(* Nobody owns the mutex at first, and nothing has been visited.           *)
LEMMA StackInvInit == Init => StackInv
<1> SUFFICES ASSUME Init PROVE OwnerInside /\ FreshInv /\ SeenInv /\ HalfInv
  BY TypeRoomInit DEF StackInv
<1> QED BY ConstantsOK DEF Init, OwnerInside, FreshInv, SeenInv, HalfInv

(* The thread's steps: the stack changes only while the thread owns it.    *)
LEMMA StackInvImu == StackInv /\ ImuStep => StackInv'
<1> SUFFICES ASSUME StackInv, ImuStep PROVE (OwnerInside /\ FreshInv /\ SeenInv /\ HalfInv)'
  BY TypeRoomImu DEF StackInv
<1> USE ConstantsOK DEF StackInv, TypeRoom, OwnerInside, FreshInv, SeenInv, HalfInv,
                        stackVars, clientVars
<1>1. CASE OpenBus \/ InitSensor \/ Dequeue \/ SkipFull \/ Shutdown
  BY <1>1 DEF OpenBus, InitSensor, Dequeue, SkipFull, Shutdown, TypeOK
<1>2. CASE CheckRoom
  BY <1>2 DEF CheckRoom, TypeOK
<1>3. CASE ImuLock
  BY <1>3 DEF ImuLock, TypeOK
<1>4. CASE WriteAcc
  <2>1. \A c \in Clients : client_pc[c] \notin {"read_loop", "calib_loop"}
    BY <1>4 DEF WriteAcc
  <2>2. data_stack'[data_stack_pos].acc = acc_data
    BY <1>4 DEF WriteAcc, TypeOK, Entry, RoomWhenWriting
  <2> QED BY <1>4, <2>1, <2>2 DEF WriteAcc
<1>5. CASE WriteGyr
  <2>1. \A c \in Clients : client_pc[c] \notin {"read_loop", "calib_loop"}
    BY <1>5 DEF WriteGyr
  <2> QED BY <1>5, <2>1 DEF WriteGyr
<1> QED BY <1>1, <1>2, <1>3, <1>4, <1>5 DEF ImuStep

(* A client's steps: it walks the stack, or empties it, only as the owner. *)
LEMMA StackInvClient ==
  ASSUME NEW c \in Clients, StackInv, ClientCall(c) \/ ClientStep(c) PROVE StackInv'
<1> SUFFICES (OwnerInside /\ FreshInv /\ SeenInv /\ HalfInv)'
  BY TypeRoomClient DEF StackInv
<1> USE ConstantsOK DEF StackInv, TypeRoom, OwnerInside, FreshInv, SeenInv, HalfInv,
                        imuVars, stackVars
<1>1. CASE CallRead(c) \/ CallCalibrate(c) \/ CalibrateEnough(c)
  <2>1. /\ \A d \in Clients : client_pc'[d] \in {"read_loop", "calib_loop"}
                               <=> client_pc[d] \in {"read_loop", "calib_loop"}
        /\ UNCHANGED <<imu_pc, acc_data, data_stack, data_stack_pos, data_mutex, seen>>
    BY <1>1 DEF CallRead, CallCalibrate, CalibrateEnough, TypeOK
  <2>2. OwnerInside' /\ FreshInv'
    BY <2>1
  <2>3. SeenInv' /\ HalfInv'
    BY <2>1
  <2> QED BY <2>2, <2>3
<1>2. CASE ClientLock(c)
  <2>1. OwnerInside' /\ FreshInv' /\ HalfInv'
    BY <1>2 DEF ClientLock, TypeOK
  <2>2. seen[c] = <<>>
    BY <1>2 DEF ClientLock
  <2>3. SeenInv'
    BY <1>2, <2>2 DEF ClientLock, TypeOK
  <2> QED BY <2>1, <2>3
<1>3. CASE VisitEntry(c)
  <2>1. OwnerInside' /\ FreshInv' /\ HalfInv'
    BY <1>3 DEF VisitEntry, TypeOK
  <2>2. seen[c] \in Seq(Entry) /\ Len(seen[c]) \in 0..(StackSize - 1)
    BY <1>3, LenProperties DEF VisitEntry, TypeOK
  <2>3. seen'[c] = Append(seen[c], data_stack[Len(seen[c])])
    BY <1>3 DEF VisitEntry, TypeOK
  <2>4. Len(seen'[c]) <= data_stack_pos
    BY <1>3, <2>2, <2>3 DEF VisitEntry, TypeOK
  <2>5. \A i \in 1..Len(seen'[c]) : seen'[c][i] = data_stack[i - 1]
    <3>1. Len(seen'[c]) = Len(seen[c]) + 1
      BY <2>2, <2>3
    <3>2. \A i \in 1..Len(seen[c]) : seen'[c][i] = data_stack[i - 1]
      BY <1>3, <2>2, <2>3 DEF VisitEntry
    <3>3. seen'[c][Len(seen[c]) + 1] = data_stack[Len(seen[c])]
      BY <2>2, <2>3
    <3> SUFFICES ASSUME NEW i \in 1..Len(seen'[c]) PROVE seen'[c][i] = data_stack[i - 1]
      OBVIOUS
    <3>4. i \in 1..Len(seen[c]) \/ i = Len(seen[c]) + 1
      BY <2>2, <3>1
    <3>5. Len(seen[c]) + 1 - 1 = Len(seen[c])
      BY <2>2
    <3> QED BY <3>2, <3>3, <3>4, <3>5
  <2>6. \A d \in Clients \ {c} : seen'[d] = seen[d]
    BY <1>3 DEF VisitEntry, TypeOK
  <2>7. SeenInv'
    BY <1>3, <2>4, <2>5, <2>6 DEF VisitEntry
  <2> QED BY <2>1, <2>7
<1>4. CASE FinishRead(c) \/ FinishCalibrate(c)
  <2>1. \A d \in Clients \ {c} : client_pc[d] \notin {"read_loop", "calib_loop"}
    BY <1>4 DEF FinishRead, FinishCalibrate
  <2>2. data_mutex = c /\ imu_pc \notin {"write_acc", "write_gyr"}
    BY <1>4 DEF FinishRead, FinishCalibrate
  <2>3. /\ client_pc' = [client_pc EXCEPT ![c] = "idle"]
        /\ seen' = [seen EXCEPT ![c] = <<>>]
        /\ data_mutex' = Nobody
        /\ imu_pc' = imu_pc
    BY <1>4 DEF FinishRead, FinishCalibrate
  <2>4. \A d \in Clients : client_pc'[d] \notin {"read_loop", "calib_loop"}
    BY <2>1, <2>3 DEF TypeOK
  <2>5. OwnerInside'
    BY <2>2, <2>3, <2>4
  <2>6. FreshInv'
    BY <2>1, <2>3 DEF TypeOK
  <2>7. SeenInv' /\ HalfInv'
    BY <2>2, <2>3, <2>4
  <2> QED BY <2>5, <2>6, <2>7
<1> QED BY <1>1, <1>2, <1>3, <1>4 DEF ClientCall, ClientStep

(* Whoever takes a step, the invariant of the stack is kept.               *)
LEMMA StackInvNext == StackInv /\ [Next]_vars => StackInv'
<1> SUFFICES ASSUME StackInv, [Next]_vars PROVE StackInv'
  OBVIOUS
<1>1. CASE ImuStep
  BY <1>1, StackInvImu
<1>2. CASE \E c \in Clients : ClientCall(c) \/ ClientStep(c)
  BY <1>2, StackInvClient
<1>3. CASE UNCHANGED vars
  <2>1. TypeRoom'
    BY <1>3, TypeRoomNext DEF StackInv
  <2> QED BY <1>3, <2>1 DEF vars, imuVars, stackVars, clientVars, StackInv, OwnerInside,
                            FreshInv, SeenInv, HalfInv
<1> QED BY <1>1, <1>2, <1>3 DEF Next

(* It holds throughout.                                                    *)
LEMMA StackInvAlways == Spec => []StackInv
BY StackInvInit, StackInvNext, PTL DEF Spec

-----------------------------------------------------------------------------
(* The mutex is neither shared nor abandoned.                              *)
THEOREM OwnersAreInside == Spec => []OwnerInside
<1>1. StackInv => OwnerInside
  BY DEF StackInv
<1> QED BY StackInvAlways, <1>1, PTL

-----------------------------------------------------------------------------
(* A client that nobody overtook finds, under the mutex, at least the      *)
(* entries it counted without it: only clients take entries away.          *)
EnoughInv ==
  \A c \in Clients \ overtaken :
    client_pc[c] \in {"calib_lock", "calib_loop"} => data_stack_pos >= CalibSize

(* The sensor thread only adds entries.                                    *)
LEMMA EnoughImu == TypeRoom /\ EnoughInv /\ ImuStep => EnoughInv'
<1> SUFFICES ASSUME TypeRoom, EnoughInv, ImuStep PROVE EnoughInv'
  OBVIOUS
<1>1. client_pc' = client_pc /\ overtaken' = overtaken
  BY DEF ImuStep, OpenBus, InitSensor, Dequeue, CheckRoom, SkipFull, ImuLock,
         WriteAcc, WriteGyr, Shutdown, clientVars
<1>2. data_stack_pos' >= data_stack_pos
  BY ConstantsOK DEF ImuStep, OpenBus, InitSensor, Dequeue, CheckRoom, SkipFull,
     ImuLock, WriteAcc, WriteGyr, Shutdown, stackVars, TypeOK, TypeRoom
<1>3. data_stack_pos \in Nat /\ data_stack_pos' \in Nat /\ CalibSize \in Nat
  BY TypeRoomImu, ConstantsOK DEF TypeRoom, TypeOK
<1> QED BY <1>1, <1>2, <1>3 DEF EnoughInv

(* A client that empties the stack overtakes all that have counted; nobody *)
(* else is in the loop then, for it owns the mutex.                        *)
LEMMA EnoughClient ==
  ASSUME NEW c \in Clients, StackInv, EnoughInv, ClientCall(c) \/ ClientStep(c)
  PROVE  EnoughInv'
<1> USE ConstantsOK DEF StackInv, TypeRoom, EnoughInv, stackVars
<1>1. CASE CallRead(c) \/ CallCalibrate(c)
  BY <1>1 DEF CallRead, CallCalibrate, TypeOK
<1>2. CASE CalibrateEnough(c)
  BY <1>2 DEF CalibrateEnough, TypeOK
<1>3. CASE ClientLock(c)
  BY <1>3 DEF ClientLock, TypeOK
<1>4. CASE VisitEntry(c)
  BY <1>4 DEF VisitEntry, TypeOK
<1>5. CASE FinishRead(c) \/ FinishCalibrate(c)
  <2>1. client_pc' = [client_pc EXCEPT ![c] = "idle"] /\ Overtake(c)
    BY <1>5 DEF FinishRead, FinishCalibrate
  <2>2. \A d \in Clients \ {c} : client_pc[d] # "calib_loop"
    BY <1>5 DEF FinishRead, FinishCalibrate, OwnerInside
  <2> QED BY <2>1, <2>2 DEF Overtake, TypeOK
<1> QED BY <1>1, <1>2, <1>3, <1>4, <1>5 DEF ClientCall, ClientStep

(* Whoever takes a step, what was counted is still there.                  *)
LEMMA EnoughNext == StackInv /\ EnoughInv /\ [Next]_vars => EnoughInv'
<1> SUFFICES ASSUME StackInv, EnoughInv, [Next]_vars PROVE EnoughInv'
  OBVIOUS
<1>1. CASE ImuStep
  BY <1>1, EnoughImu DEF StackInv
<1>2. CASE \E c \in Clients : ClientCall(c) \/ ClientStep(c)
  BY <1>2, EnoughClient
<1>3. CASE UNCHANGED vars
  BY <1>3 DEF vars, stackVars, clientVars, EnoughInv
<1> QED BY <1>1, <1>2, <1>3 DEF Next

(* calibrate_bmi270 divides by at least the CalibSize samples it waited    *)
(* for, and so never by zero, unless another thread took them meanwhile.   *)
THEOREM CalibrationDividesByEnough == Spec => []CalibrationHasSamples
<1>1. Init => EnoughInv
  BY DEF Init, EnoughInv
<1>2. EnoughInv => CalibrationHasSamples
  BY DEF EnoughInv, CalibrationHasSamples
<1> QED BY <1>1, <1>2, EnoughNext, StackInvAlways, PTL DEF Spec

-----------------------------------------------------------------------------
(* The abstract log is a sequence of entries as long as data_stack_pos.    *)
LEMMA ContentsSeq ==
  ASSUME TypeOK PROVE Contents \in Seq(Entry) /\ Len(Contents) = data_stack_pos
<1>1. data_stack_pos \in Nat /\ data_stack_pos <= StackSize
  BY ConstantsOK DEF TypeOK
<1>2. \A i \in 1..data_stack_pos : data_stack[i - 1] \in Entry
  BY <1>1, ConstantsOK DEF TypeOK
<1> QED BY <1>1, <1>2 DEF Contents

(* Storing: the slot completed by WriteGyr extends the log by the reading. *)
LEMMA StoreStep ==
  ASSUME StackInv, WriteGyr PROVE Log!Store
<1> USE DEF StackInv, TypeRoom
<1>1. data_stack_pos \in 0..(StackSize - 1)
  BY ConstantsOK DEF WriteGyr, TypeOK, RoomWhenWriting
<1>2. data_stack'[data_stack_pos] = [acc |-> acc_data, gyr |-> gyr_data]
  BY <1>1 DEF WriteGyr, TypeOK, Entry, HalfInv
<1>3. \A i \in 0..(data_stack_pos - 1) : data_stack'[i] = data_stack[i]
  BY <1>1, ConstantsOK DEF WriteGyr, TypeOK
<1>4. Contents' = Append(Contents, [acc |-> acc_data, gyr |-> gyr_data])
  <2>1. Contents' = [i \in 1..(data_stack_pos + 1) |-> data_stack'[i - 1]]
    BY DEF Contents, WriteGyr
  <2>2. Contents \in Seq(Entry) /\ Len(Contents) = data_stack_pos
    BY ContentsSeq
  <2>3. \A i \in 1..data_stack_pos : data_stack'[i - 1] = Contents[i]
    BY <1>1, <1>3 DEF Contents
  <2> QED BY <1>1, <1>2, <2>1, <2>2, <2>3
<1>5. Len(Contents) < StackSize
  BY <1>1, ContentsSeq, ConstantsOK
<1> QED BY <1>4, <1>5 DEF Log!Store, WriteGyr, clientVars

(* Taking: what a client has visited when its loop ends is the whole log.  *)
LEMMA TakeStep ==
  ASSUME NEW c \in Clients, StackInv, FinishRead(c) \/ FinishCalibrate(c) PROVE Log!Take
<1> USE DEF StackInv, TypeRoom, FinishRead, FinishCalibrate
<1>1. seen[c] \in Seq(Entry) /\ Len(seen[c]) = data_stack_pos
  BY LenProperties, ConstantsOK DEF SeenInv, TypeOK
<1>2. \A i \in 1..data_stack_pos : seen[c][i] = Contents[i]
  BY <1>1 DEF SeenInv, Contents
<1>3. Contents = seen[c]
  BY <1>1, <1>2, ContentsSeq, SeqEqual
<1>4. Contents' = <<>>
  BY DEF Contents
<1> QED BY <1>3, <1>4 DEF Log!Take, imuVars

(* Every step is a step of the log, or invisible to it.                    *)
LEMMA LogStep == StackInv /\ [Next]_vars => [Log!Next]_(Log!logVars)
<1> SUFFICES ASSUME StackInv, [Next]_vars PROVE [Log!Next]_(Log!logVars)
  OBVIOUS
<1> USE DEF Log!logVars, stackVars, clientVars
<1>1. CASE OpenBus \/ InitSensor \/ Dequeue \/ SkipFull \/ ImuLock \/ Shutdown
  BY <1>1 DEF OpenBus, InitSensor, Dequeue, SkipFull, ImuLock, Shutdown, Contents
<1>2. CASE CheckRoom
  <2>1. Len(Contents) < StackSize
    BY <1>2, ContentsSeq DEF CheckRoom, StackInv, TypeRoom
  <2>2. [acc |-> acc_data', gyr |-> gyr_data'] \in Entry
    BY TypeRoomNext DEF StackInv, TypeRoom, TypeOK, Entry
  <2>3. Contents' = Contents
    BY <1>2 DEF CheckRoom, Contents
  <2> QED BY <1>2, <2>1, <2>2, <2>3 DEF CheckRoom, Log!Accept, Log!Next
<1>3. CASE WriteAcc
  <2>1. \A i \in 1..data_stack_pos : data_stack'[i - 1] = data_stack[i - 1]
    BY <1>3, ConstantsOK DEF WriteAcc, StackInv, TypeRoom, TypeOK
  <2>2. Contents' = Contents
    BY <1>3, <2>1 DEF WriteAcc, Contents
  <2> QED BY <1>3, <2>2 DEF WriteAcc
<1>4. CASE WriteGyr
  BY <1>4, StoreStep DEF Log!Next
<1>5. ASSUME NEW c \in Clients, ClientCall(c) \/ ClientStep(c)
      PROVE  [Log!Next]_(Log!logVars)
  <2>1. CASE CallRead(c) \/ CallCalibrate(c) \/ CalibrateEnough(c) \/ ClientLock(c) \/ VisitEntry(c)
    BY <2>1 DEF CallRead, CallCalibrate, CalibrateEnough, ClientLock, VisitEntry, imuVars, Contents
  <2>2. CASE FinishRead(c) \/ FinishCalibrate(c)
    BY <2>2, TakeStep DEF Log!Next
  <2> QED BY <1>5, <2>1, <2>2 DEF ClientCall, ClientStep
<1>6. CASE UNCHANGED vars
  BY <1>6 DEF vars, imuVars, Contents
<1> QED BY <1>1, <1>2, <1>3, <1>4, <1>5, <1>6 DEF Next, ImuStep

(* The shared stack implements the bounded log: every reading accepted is  *)
(* stored once, whole and in order, and a client takes all that is stored. *)
THEOREM StackImplementsLog == Spec => ImplementsLog
<1>1. Init => Log!Init
  <2> SUFFICES ASSUME Init PROVE Log!Init
    OBVIOUS
  <2>1. Contents = <<>>
    BY DEF Init, Contents
  <2> QED BY <2>1 DEF Init, Log!Init, Entry, Axis
<1> QED BY <1>1, LogStep, StackInvAlways, PTL DEF Spec, ImplementsLog, Log!Spec
=============================================================================
