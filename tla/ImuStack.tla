------------------------------ MODULE ImuStack ------------------------------
(***************************************************************************)
(* The IMU side of the logger, bmi270_ctrl.c: a thread that drains the     *)
(* sensor's FIFO every 50 ms and pushes one reading on a stack shared with *)
(* the client threads, and the two client operations that empty the stack, *)
(* read_bmi270 and calibrate_bmi270.                                       *)
(*                                                                         *)
(* A step of an action is a stretch of code that touches shared state      *)
(* once.  What is released together with the mutex (data_stack_pos, and    *)
(* the bias) changes in the step that releases it: nobody can tell, for    *)
(* whoever sees the new position unlocked must still take the mutex.       *)
(*                                                                         *)
(* Axis values are abstracted to the batch they were measured in: the      *)
(* frames decoded in one dequeue carry the label of that dequeue.  A label *)
(* may be used again, so the state space is finite without a counter.      *)
(***************************************************************************)
EXTENDS Naturals, Sequences

CONSTANTS Readers,      \* threads that call read_bmi270
          Calibrators,  \* threads that call calibrate_bmi270
          ImuThread,    \* the thread running thread_imu_bmi270_main
          Nobody,       \* the owner of a free mutex
          StackSize,    \* IMU_DATA_STACK_SIZE
          CalibSize,    \* IMU_CALIBRATION_STACK_SIZE
          TableLength,  \* BMI270_STORE_TABLE_LENGTH
          MaxFrames,    \* bound: frames of one sensor decoded in a dequeue
          Batches,      \* labels of dequeues
          NoBatch       \* an axis never measured: zeroed or uninitialised

Clients == Readers \cup Calibrators

ASSUME ConstantsOK ==
  /\ StackSize \in Nat \ {0}
  /\ CalibSize \in 1..StackSize
  /\ TableLength \in Nat \ {0}
  /\ MaxFrames \in Nat \ {0}
  /\ Batches # {}
  /\ NoBatch \notin Batches
  /\ ImuThread \notin Clients
  /\ Nobody \notin Clients \cup {ImuThread}

VARIABLES
  imu_pc,          \* where the sensor thread is
  held,            \* what the sensor thread owns: the bus, the buffers
  acc_table,       \* accelerometer frames decoded and not yet fetched
  gyr_table,       \* the same for the gyroscope
  acc_data,        \* the thread's local copy of the latest acceleration
  gyr_data,        \* the thread's local copy of the latest rotation
  data_stack,      \* the shared stack
  data_stack_pos,  \* how many entries of it are in use
  data_mutex,      \* who owns the mutex of the stack
  imu_sensor_bias, \* the last calibration
  client_pc,       \* where each client is
  seen,            \* entries a client has visited inside its loop
  delivered,       \* history: the entries the last client took
  overtaken        \* history: clients whose entries another took after their wait

imuVars    == <<imu_pc, held, acc_table, gyr_table, acc_data, gyr_data>>
clientVars == <<client_pc, seen, delivered, overtaken, imu_sensor_bias>>
stackVars  == <<data_stack, data_stack_pos, data_mutex>>
vars       == <<imuVars, stackVars, clientVars>>

Axis  == Batches \cup {NoBatch}
Entry == [acc : Axis, gyr : Axis]
Table == [pos : 0..TableLength, last : Axis]
Bias  == {"none", "mean", "carried"}   \* carried: with an earlier bias inside

EmptyTable == [pos |-> 0, last |-> NoBatch]

Init ==
  /\ imu_pc = "open"
  /\ held = {}
  /\ acc_table = EmptyTable
  /\ gyr_table = EmptyTable
  /\ acc_data = NoBatch
  /\ gyr_data = NoBatch
  /\ data_stack = [i \in 0..(StackSize - 1) |-> [acc |-> NoBatch, gyr |-> NoBatch]]
  /\ data_stack_pos = 0
  /\ data_mutex = Nobody
  /\ imu_sensor_bias = "none"
  /\ client_pc = [c \in Clients |-> "idle"]
  /\ seen = [c \in Clients |-> <<>>]
  /\ delivered = <<>>
  /\ overtaken = {}

-----------------------------------------------------------------------------
(* The sensor thread.                                                      *)

(* Opening the bus; on failure the thread returns with nothing to release. *)
OpenBus ==
  /\ imu_pc = "open"
  /\ \/ imu_pc' = "init" /\ held' = {"bus"}
     \/ imu_pc' = "exited" /\ UNCHANGED held
  /\ UNCHANGED <<acc_table, gyr_table, acc_data, gyr_data, stackVars, clientVars>>

(* init_bmi270 allocates the buffers first, so a failure may leave them.   *)
InitSensor ==
  /\ imu_pc = "init"
  /\ \/ imu_pc' = "dequeue" /\ held' = held \cup {"buffers"}
     \/ imu_pc' = "error" /\ held' \in {held, held \cup {"buffers"}}
  /\ UNCHANGED <<acc_table, gyr_table, acc_data, gyr_data, stackVars, clientVars>>

(* The decoder's push of n frames of batch b: frames beyond the store      *)
(* length are dropped ("store overflow"), the earlier ones kept.           *)
DecodeUnguarded(table, n, b) ==
  [pos |-> table.pos + n, last |-> IF n > 0 THEN b ELSE table.last]

Decode(table, n, b) ==
  LET room == TableLength - table.pos
      kept == IF n <= room THEN n ELSE room
  IN  [pos |-> table.pos + kept, last |-> IF kept > 0 THEN b ELSE table.last]

(* exec_dequeue_fifo: both I2C reads precede the decoder, so a failure     *)
(* leaves the tables alone; it ends the thread.  The decoder may stay at a *)
(* byte that is no frame for ever (FifoDecoder).                           *)
Dequeue ==
  /\ imu_pc = "dequeue"
  /\ \/ /\ imu_pc' \in {"check", "spinning"}
        /\ \E b \in Batches, accFrames, gyrFrames \in 0..MaxFrames :
             /\ acc_table' = Decode(acc_table, accFrames, b)
             /\ gyr_table' = Decode(gyr_table, gyrFrames, b)
     \/ imu_pc' = "error" /\ UNCHANGED <<acc_table, gyr_table>>
  /\ UNCHANGED <<held, acc_data, gyr_data, stackVars, clientVars>>

(* get_latest_acc and get_latest_gyr: the newest frame if there is one,    *)
(* otherwise the caller's variable keeps what it had; the table empties.   *)
GetLatest(table, old) == IF table.pos > 0 THEN table.last ELSE old

CheckRoomOffByOne ==
  /\ imu_pc = "check"
  /\ data_stack_pos <= StackSize
  /\ imu_pc' = "lock"
  /\ acc_data' = GetLatest(acc_table, acc_data)
  /\ gyr_data' = GetLatest(gyr_table, gyr_data)
  /\ acc_table' = EmptyTable
  /\ gyr_table' = EmptyTable
  /\ UNCHANGED <<held, stackVars, clientVars>>

(* The room check reads data_stack_pos without the mutex, then the latest  *)
(* frames are fetched into the thread's locals, still without it.          *)
CheckRoom ==
  /\ imu_pc = "check"
  /\ data_stack_pos < StackSize
  /\ imu_pc' = "lock"
  /\ acc_data' = GetLatest(acc_table, acc_data)
  /\ gyr_data' = GetLatest(gyr_table, gyr_data)
  /\ acc_table' = EmptyTable
  /\ gyr_table' = EmptyTable
  /\ UNCHANGED <<held, stackVars, clientVars>>

(* A full stack: the thread sleeps 50 ms, leaving the frames in the tables.*)
SkipFull ==
  /\ imu_pc = "check"
  /\ data_stack_pos >= StackSize
  /\ imu_pc' = "dequeue"
  /\ UNCHANGED <<held, acc_table, gyr_table, acc_data, gyr_data, stackVars, clientVars>>

ImuLockIgnoringOwner ==
  /\ imu_pc = "lock"
  /\ data_mutex' = ImuThread
  /\ imu_pc' = "write_acc"
  /\ UNCHANGED <<held, acc_table, gyr_table, acc_data, gyr_data,
                 data_stack, data_stack_pos, clientVars>>

ImuLock ==
  /\ imu_pc = "lock"
  /\ data_mutex = Nobody
  /\ data_mutex' = ImuThread
  /\ imu_pc' = "write_acc"
  /\ UNCHANGED <<held, acc_table, gyr_table, acc_data, gyr_data,
                 data_stack, data_stack_pos, clientVars>>

(* The three acceleration fields of the free slot.                         *)
WriteAcc ==
  /\ imu_pc = "write_acc"
  /\ data_stack' = [data_stack EXCEPT ![data_stack_pos].acc = acc_data]
  /\ imu_pc' = "write_gyr"
  /\ UNCHANGED <<held, acc_table, gyr_table, acc_data, gyr_data,
                 data_stack_pos, data_mutex, clientVars>>

(* The three rotation fields, the new position, the unlock, the sleep.     *)
WriteGyr ==
  /\ imu_pc = "write_gyr"
  /\ data_stack' = [data_stack EXCEPT ![data_stack_pos].gyr = gyr_data]
  /\ data_stack_pos' = data_stack_pos + 1
  /\ data_mutex' = Nobody
  /\ imu_pc' = "dequeue"
  /\ UNCHANGED <<held, acc_table, gyr_table, acc_data, gyr_data, clientVars>>

(* error_on_using_bmi270: close the bus, free the buffers, return.         *)
Shutdown ==
  /\ imu_pc = "error"
  /\ held' = {}
  /\ acc_table' = EmptyTable
  /\ gyr_table' = EmptyTable
  /\ imu_pc' = "exited"
  /\ UNCHANGED <<acc_data, gyr_data, stackVars, clientVars>>

ImuStep == \/ OpenBus \/ InitSensor \/ Dequeue \/ CheckRoom \/ SkipFull
           \/ ImuLock \/ WriteAcc \/ WriteGyr \/ Shutdown

-----------------------------------------------------------------------------
(* The client threads.                                                     *)

CallRead(c) ==
  /\ c \in Readers
  /\ client_pc[c] = "idle"
  /\ client_pc' = [client_pc EXCEPT ![c] = "read_lock"]
  /\ UNCHANGED <<imuVars, stackVars, seen, delivered, overtaken, imu_sensor_bias>>

CallCalibrate(c) ==
  /\ c \in Calibrators
  /\ client_pc[c] = "idle"
  /\ client_pc' = [client_pc EXCEPT ![c] = "calib_wait"]
  /\ UNCHANGED <<imuVars, stackVars, seen, delivered, overtaken, imu_sensor_bias>>

CalibrateEnoughOffByOne(c) ==
  /\ client_pc[c] = "calib_wait"
  /\ data_stack_pos + 1 >= CalibSize
  /\ client_pc' = [client_pc EXCEPT ![c] = "calib_lock"]
  /\ UNCHANGED <<imuVars, stackVars, seen, delivered, overtaken, imu_sensor_bias>>

(* The wait polls data_stack_pos once a second without the mutex; the      *)
(* sleeps in between change nothing and are not steps.                     *)
CalibrateEnough(c) ==
  /\ client_pc[c] = "calib_wait"
  /\ data_stack_pos >= CalibSize
  /\ client_pc' = [client_pc EXCEPT ![c] = "calib_lock"]
  /\ UNCHANGED <<imuVars, stackVars, seen, delivered, overtaken, imu_sensor_bias>>

ClientLock(c) ==
  /\ data_mutex = Nobody
  /\ \/ client_pc[c] = "read_lock" /\ client_pc' = [client_pc EXCEPT ![c] = "read_loop"]
     \/ client_pc[c] = "calib_lock" /\ client_pc' = [client_pc EXCEPT ![c] = "calib_loop"]
  /\ data_mutex' = c
  /\ UNCHANGED <<imuVars, data_stack, data_stack_pos, seen, delivered, overtaken,
                 imu_sensor_bias>>

(* One round of either loop: entry i is printed, or added to the bias.     *)
VisitEntry(c) ==
  /\ client_pc[c] \in {"read_loop", "calib_loop"}
  /\ Len(seen[c]) < data_stack_pos
  /\ seen' = [seen EXCEPT ![c] = Append(@, data_stack[Len(@)])]
  /\ UNCHANGED <<imuVars, stackVars, client_pc, delivered, overtaken, imu_sensor_bias>>

(* Clients between their wait and their lock lose what they counted.       *)
Overtake(c) ==
  overtaken' = (overtaken \cup {d \in Clients : client_pc[d] = "calib_lock"}) \ {c}

FinishReadKeepingPos(c) ==
  /\ client_pc[c] = "read_loop"
  /\ Len(seen[c]) >= data_stack_pos
  /\ delivered' = seen[c] /\ Overtake(c)
  /\ seen' = [seen EXCEPT ![c] = <<>>]
  /\ data_mutex' = Nobody
  /\ client_pc' = [client_pc EXCEPT ![c] = "idle"]
  /\ UNCHANGED <<imuVars, data_stack, data_stack_pos, imu_sensor_bias>>

FinishRead(c) ==
  /\ client_pc[c] = "read_loop"
  /\ Len(seen[c]) >= data_stack_pos
  /\ delivered' = seen[c] /\ Overtake(c)
  /\ seen' = [seen EXCEPT ![c] = <<>>]
  /\ data_stack_pos' = 0
  /\ data_mutex' = Nobody
  /\ client_pc' = [client_pc EXCEPT ![c] = "idle"]
  /\ UNCHANGED <<imuVars, data_stack, imu_sensor_bias>>

FinishCalibrateKeepingMutex(c) ==
  /\ client_pc[c] = "calib_loop"
  /\ Len(seen[c]) >= data_stack_pos
  /\ imu_sensor_bias' = IF imu_sensor_bias = "none" THEN "mean" ELSE "carried"
  /\ delivered' = seen[c] /\ Overtake(c)
  /\ seen' = [seen EXCEPT ![c] = <<>>]
  /\ data_stack_pos' = 0
  /\ client_pc' = [client_pc EXCEPT ![c] = "idle"]
  /\ UNCHANGED <<imuVars, data_stack, data_mutex>>

(* The sums, divided by data_stack_pos, were added to whatever the bias    *)
(* held before.                                                            *)
FinishCalibrate(c) ==
  /\ client_pc[c] = "calib_loop"
  /\ Len(seen[c]) >= data_stack_pos
  /\ imu_sensor_bias' = IF imu_sensor_bias = "none" THEN "mean" ELSE "carried"
  /\ delivered' = seen[c] /\ Overtake(c)
  /\ seen' = [seen EXCEPT ![c] = <<>>]
  /\ data_stack_pos' = 0
  /\ data_mutex' = Nobody
  /\ client_pc' = [client_pc EXCEPT ![c] = "idle"]
  /\ UNCHANGED <<imuVars, data_stack>>

ClientCall(c) == CallRead(c) \/ CallCalibrate(c)

ClientStep(c) == \/ CalibrateEnough(c) \/ ClientLock(c) \/ VisitEntry(c)
                 \/ FinishRead(c) \/ FinishCalibrate(c)

Next == ImuStep \/ \E c \in Clients : ClientCall(c) \/ ClientStep(c)

Spec == Init /\ [][Next]_vars

(* Threads that can run do run.  The waiters of a NuttX mutex queue on its *)
(* semaphore, so a thread waiting for it is served in the end: strong      *)
(* fairness of the two lock steps.  Nothing makes a client call again.     *)
Fairness ==
  /\ WF_vars(ImuStep)
  /\ SF_vars(ImuLock)
  /\ \A c \in Clients : WF_vars(ClientStep(c)) /\ SF_vars(ClientLock(c))

FairSpec == Spec /\ Fairness

-----------------------------------------------------------------------------
(* Types of the variables, with each table within the store length.        *)
ImuLocations    == {"open", "init", "dequeue", "check", "lock", "write_acc",
                    "write_gyr", "error", "exited", "spinning"}
ClientLocations == {"idle", "read_lock", "read_loop", "calib_wait", "calib_lock",
                    "calib_loop"}
TypeOK ==
  /\ imu_pc \in ImuLocations
  /\ held \in SUBSET {"bus", "buffers"}
  /\ acc_table \in Table
  /\ gyr_table \in Table
  /\ acc_data \in Axis
  /\ gyr_data \in Axis
  /\ data_stack \in [0..(StackSize - 1) -> Entry]
  /\ data_stack_pos \in 0..StackSize
  /\ data_mutex \in Clients \cup {ImuThread, Nobody}
  /\ imu_sensor_bias \in Bias
  /\ client_pc \in [Clients -> ClientLocations]
  /\ seen \in [Clients -> Seq(Entry)]
  /\ delivered \in Seq(Entry)
  /\ overtaken \in SUBSET Clients

(* The thread tests for room without the mutex and writes much later: the  *)
(* slot it then writes is still inside data_stack, whatever the clients    *)
(* did in between (bmi270_ctrl.c:80 against :87-92).                       *)
RoomWhenWriting ==
  imu_pc \in {"lock", "write_acc", "write_gyr"} => data_stack_pos < StackSize

(* calibrate_bmi270 counts the entries without the mutex and divides by    *)
(* the count under it: the divisor is still the ten seconds of samples it  *)
(* waited for, and never zero, unless another thread's call took them in   *)
(* between (bmi270_ctrl.c:141 against :156).                               *)
CalibrationHasSamples ==
  \A c \in Clients \ overtaken : client_pc[c] = "calib_loop" => data_stack_pos >= CalibSize

(* The stack behaves as the bounded log: no reading accepted is lost,      *)
(* torn, duplicated or reordered, and a client takes all of them, once.    *)
Contents == [i \in 1..data_stack_pos |-> data_stack[i - 1]]
Log == INSTANCE BoundedLog WITH
         Capacity  <- StackSize,
         Readings  <- Entry,
         reading   <- [acc |-> acc_data, gyr |-> gyr_data],
         accepted  <- imu_pc \in {"lock", "write_acc", "write_gyr"},
         stored    <- Contents,
         delivered <- delivered
ImplementsLog == Log!Spec

(* A reading for which there was room does reach the stack: the clients,   *)
(* however often they take the mutex, cannot keep the sensor thread out.   *)
AcceptedIsStored ==
  imu_pc = "lock" ~> imu_pc = "dequeue"

(* A calibration finishes, unless the sensor thread has ended or hangs in  *)
(* the decoder, which the wait for CalibSize entries does not notice, or   *)
(* other threads call again and again and take the entries first.          *)
ImuGone == imu_pc \in {"error", "exited", "spinning"}
CalibrationReturns ==
  \A c \in Clients :
    \/ client_pc[c] = "calib_wait" ~> client_pc[c] = "idle" \/ ImuGone
    \/ []<><<\E d \in Clients \ {c} : ClientCall(d)>>_vars

(* get_latest_acc and get_latest_gyr say "return int success == 0"         *)
(* (i2c_bmi270.c:484 and :507): an entry holds values they returned with   *)
(* success, not what happened to be in the caller's variables.             *)
EntriesMeasured ==
  \A i \in 0..(data_stack_pos - 1) :
    data_stack[i].acc # NoBatch /\ data_stack[i].gyr # NoBatch

(* The tables are sized in bytes and used in entries of AxisBytes bytes    *)
(* (i2c_bmi270.c:305 and :315 against :199 and :221): what is stored fits  *)
(* in what was allocated.                                                  *)
AxisBytes == 6
AllocatedEntries == TableLength \div AxisBytes
TablesFit == acc_table.pos <= AllocatedEntries /\ gyr_table.pos <= AllocatedEntries
=============================================================================
