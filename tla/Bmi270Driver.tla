---------------------------- MODULE Bmi270Driver ----------------------------
(***************************************************************************)
(* i2c_bmi270.c as thread_imu_bmi270_main drives it: the allocation of the *)
(* buffers, the register sequence of init_bmi270, the two transfers of a   *)
(* dequeue and the getters, one step per I2C transfer, with the sensor     *)
(* measuring in between.                                                   *)
(*                                                                         *)
(* The sensor is external: it is what the register writes, the frames the  *)
(* decoder knows and the words of the code ask for.  It keeps its settings *)
(* and its FIFO when only the board is reset.  The decoder is taken as a   *)
(* whole; FifoDecoder shows what it does with whole frames.                *)
(***************************************************************************)
EXTENDS FrameTables, SequencesExt

CONSTANTS Capacity,    \* bytes of the sensor's FIFO
          MaxSamples,  \* bound: data frames the sensor produces
          MaxFaults,   \* bound: allocations and transfers that fail
          MaxResets    \* bound: resets of the board

ASSUME BoundsOK ==
  /\ Capacity \in Nat /\ Capacity >= 2   \* there is room for a skip frame
  /\ MaxSamples \in Nat
  /\ MaxFaults \in Nat
  /\ MaxResets \in Nat

VARIABLES
  pc,           \* the transfer about to be made, or where the thread is
  allocated,    \* which of fifo, acc_table and gyr_table are not NULL
  acc_table,
  gyr_table,
  fifo_depth,
  acc_data,     \* the thread's local copies
  gyr_data,
  sensor,       \* the settings of the sensor
  sensor_fifo,  \* the frames in the sensor
  made,         \* how many data frames the sensor has produced
  faults,       \* failed calls so far
  resets,       \* resets of the board so far
  newest,       \* history: the newest samples decoded, or dropped by a full table,
                \* since the getters were last called, or 0
  shifted,      \* history: a read did not end at the end of a frame
  overrun,      \* history: the sensor dropped frames between length and data
  overflowed    \* history: a table dropped a sample since then

driverVars  == <<pc, allocated, acc_table, gyr_table, fifo_depth, acc_data, gyr_data>>
sensorVars  == <<sensor, sensor_fifo, made>>
historyVars == <<newest, shifted, overrun, overflowed>>
vars        == <<driverVars, sensorVars, faults, resets, historyVars>>

(* A sample: its number, whether it was measured in the ranges that        *)
(* ACC_RANGE_G and GYR_RANGE_DPS stand for, and since the last reset of    *)
(* the board.                                                              *)
Sample     == [n : 1..MaxSamples, ranged : BOOLEAN, current : BOOLEAN]
NoSample   == [n |-> 0, ranged |-> TRUE, current |-> TRUE]
TornSample == [n |-> 0, ranged |-> FALSE, current |-> FALSE]

Skip      == [kind |-> "skip"]
DataFrame == [kind : {"gyr", "both"}, sample : Sample]

FrameBytes == [skip |-> 2, gyr |-> 7, both |-> 13]
Bytes(f)   == [n \in 1..FrameBytes[f.kind] |-> f.kind]
IsData(f)  == f.kind # "skip"
HasAcc(f)  == f.kind = "both"

Size(fs)   == Len(FlattenSeq([k \in DOMAIN fs |-> Bytes(fs[k])]))
DataOf(fs) == FlattenSeq([k \in DOMAIN fs |-> IF IsData(fs[k]) THEN <<fs[k]>> ELSE <<>>])
AccOf(fs)  == FlattenSeq([k \in DOMAIN fs |-> IF HasAcc(fs[k]) THEN <<fs[k].sample>> ELSE <<>>])
GyrOf(fs)  == FlattenSeq([k \in DOMAIN fs |-> IF IsData(fs[k]) THEN <<fs[k].sample>> ELSE <<>>])

Sensor == [loaded   : BOOLEAN,   \* the configuration file is in
           started  : BOOLEAN,   \* internal status 1
           sampling : BOOLEAN,
           rates    : SUBSET {"acc", "gyr"},
           ranges   : SUBSET {"acc", "gyr"},
           fifo_on  : BOOLEAN]
PoweredOn == [loaded |-> FALSE, started |-> FALSE, sampling |-> FALSE,
              rates |-> {}, ranges |-> {}, fifo_on |-> FALSE]

Init ==
  /\ pc = "alloc"
  /\ allocated = {}
  /\ acc_table = <<>> /\ gyr_table = <<>>
  /\ fifo_depth = 0
  /\ acc_data = NoSample /\ gyr_data = NoSample
  /\ sensor = PoweredOn
  /\ sensor_fifo = <<>>
  /\ made = 0
  /\ faults = 0 /\ resets = 0
  /\ newest = [acc |-> 0, gyr |-> 0]
  /\ shifted = FALSE /\ overrun = FALSE /\ overflowed = FALSE

Fault == faults < MaxFaults /\ faults' = faults + 1

-----------------------------------------------------------------------------
(* The sensor produces a data frame.  A full FIFO drops its oldest frames  *)
(* and begins with a frame that says so.                                   *)
Longest(fs, bytes) ==
  CHOOSE k \in 0..Len(fs) : /\ Size(SubSeq(fs, 1, k)) <= bytes
                            /\ k = Len(fs) \/ Size(SubSeq(fs, 1, k + 1)) > bytes
AfterDrop(fs) ==
  LET data == DataOf(fs)
      from == CHOOSE k \in 1..(Len(data) + 1) :
                /\ Size(SubSeq(data, k, Len(data))) + FrameBytes.skip <= Capacity
                /\ k = 1 \/ Size(SubSeq(data, k - 1, Len(data))) + FrameBytes.skip > Capacity
  IN  <<Skip>> \o SubSeq(data, from, Len(data))

Produce ==
  /\ sensor.sampling /\ sensor.fifo_on
  /\ made < MaxSamples
  /\ made' = made + 1
  /\ \E kind \in {"gyr", "both"} :
       LET sample == [n |-> made + 1, ranged |-> sensor.ranges = {"acc", "gyr"},
                      current |-> TRUE]
           fs == Append(sensor_fifo, [kind |-> kind, sample |-> sample])
       IN  /\ sensor_fifo' = IF Size(fs) <= Capacity THEN fs ELSE AfterDrop(fs)
           /\ overrun' = (overrun \/ (pc = "data" /\ Size(fs) > Capacity))
  /\ UNCHANGED <<driverVars, sensor, faults, resets, newest, shifted, overflowed>>

(* The board is reset and the program starts anew; the sensor goes on.     *)
Aged(f) == IF IsData(f) THEN [f EXCEPT !.sample.current = FALSE] ELSE f
BoardReset ==
  /\ resets < MaxResets
  /\ resets' = resets + 1
  /\ pc' = "alloc"
  /\ allocated' = {}
  /\ acc_table' = <<>> /\ gyr_table' = <<>>
  /\ fifo_depth' = 0
  /\ acc_data' = NoSample /\ gyr_data' = NoSample
  /\ sensor_fifo' = [k \in DOMAIN sensor_fifo |-> Aged(sensor_fifo[k])]
  /\ newest' = [acc |-> 0, gyr |-> 0]
  /\ shifted' = FALSE /\ overrun' = FALSE /\ overflowed' = FALSE
  /\ UNCHANGED <<sensor, made, faults>>

-----------------------------------------------------------------------------
(* init_bmi270.                                                            *)

(* The three allocations.  The last test looks at the second pointer, so   *)
(* the failure of the third goes unnoticed.                                *)
Allocate ==
  /\ pc = "alloc"
  /\ \/ /\ allocated' = {"fifo", "acc_table", "gyr_table"}
        /\ pc' = "chip_id" /\ UNCHANGED faults
     \/ allocated' = {} /\ pc' = "error" /\ Fault
     \/ allocated' = {"fifo"} /\ pc' = "error" /\ Fault
     \/ allocated' = {"fifo", "acc_table"} /\ pc' = "chip_id" /\ Fault
  /\ UNCHANGED <<acc_table, gyr_table, fifo_depth, acc_data, gyr_data,
                 sensorVars, resets, historyVars>>

(* The transfers in their order, each with the next.                       *)
After == [chip_id         |-> "soft_reset",    \* CHIPID reads 0x24
          soft_reset      |-> "wake",          \* CMD 0xb6
          wake            |-> "begin_load",    \* PWR_CONF 0x00
          begin_load      |-> "load",          \* INIT_CTRL 0x00
          load            |-> "end_load",      \* INIT_DATA, the file
          end_load        |-> "status",        \* INIT_CTRL 0x01
          status          |-> "power",         \* INTERNAL_STATUS reads 1
          power           |-> "acc_rate",      \* PWR_CTRL 0x0e
          acc_rate        |-> "gyr_rate",      \* ACC_CONF
          gyr_rate        |-> "fifo_wake",     \* GYR_CONF
          fifo_wake       |-> "acc_range",     \* PWR_CONF 0x02
          acc_range       |-> "gyr_range",     \* ACC_RANGE
          gyr_range       |-> "fifo_frames",   \* GYR_RANGE
          fifo_frames     |-> "fifo_mode",     \* FIFO_CONFIG_1 0xd0
          fifo_mode       |-> "fifo_flush",    \* FIFO_CONFIG_0 0x02
          fifo_flush      |-> "length"]        \* CMD 0xb0

(* What a write does to the sensor's settings.                             *)
Effect(register) ==
  CASE register = "soft_reset"  -> PoweredOn
    [] register = "begin_load"  -> [sensor EXCEPT !.loaded = FALSE, !.started = FALSE]
    [] register = "load"        -> [sensor EXCEPT !.loaded = TRUE]
    [] register = "end_load"    -> [sensor EXCEPT !.started = sensor.loaded]
    [] register = "power"       -> [sensor EXCEPT !.sampling = TRUE]
    [] register = "acc_rate"    -> [sensor EXCEPT !.rates = @ \cup {"acc"}]
    [] register = "gyr_rate"    -> [sensor EXCEPT !.rates = @ \cup {"gyr"}]
    [] register = "acc_range"   -> [sensor EXCEPT !.ranges = @ \cup {"acc"}]
    [] register = "gyr_range"   -> [sensor EXCEPT !.ranges = @ \cup {"gyr"}]
    [] register = "fifo_frames" -> [sensor EXCEPT !.fifo_on = TRUE]
    [] OTHER                    -> sensor

FlushesAtResetOnly(register) == register = "soft_reset"
Flushes(register) == register \in {"soft_reset", "fifo_flush"}

Reads  == {"chip_id", "status"}
Writes == DOMAIN After \ Reads

(* The error of the reset command alone is passed over.                    *)
ToleratedRange == {"soft_reset", "acc_range"}
Tolerated      == {"soft_reset"}

Obeyed(register) ==
  /\ sensor' = Effect(register)
  /\ sensor_fifo' = IF Flushes(register) THEN <<>> ELSE sensor_fifo

(* i2c_reg_write and i2c_reg_write_burst.  A transfer reported as failed   *)
(* may have reached the sensor or not.                                     *)
WriteRegister ==
  /\ pc \in Writes
  /\ \/ Obeyed(pc) /\ pc' = After[pc] /\ UNCHANGED faults
     \/ /\ Obeyed(pc) \/ UNCHANGED <<sensor, sensor_fifo>>
        /\ pc' = IF pc \in Tolerated THEN After[pc] ELSE "error"
        /\ Fault
  /\ UNCHANGED <<allocated, acc_table, gyr_table, fifo_depth, acc_data, gyr_data,
                 made, resets, historyVars>>

(* The chip is the expected one; the internal status says that the loaded  *)
(* file works.  Another value ends the initialisation like a failed read.  *)
ReadRegister ==
  /\ pc \in Reads
  /\ \/ /\ pc' = IF pc = "status" /\ ~sensor.started THEN "error" ELSE After[pc]
        /\ UNCHANGED faults
     \/ pc' = "error" /\ Fault
  /\ UNCHANGED <<allocated, acc_table, gyr_table, fifo_depth, acc_data, gyr_data,
                 sensorVars, resets, historyVars>>

-----------------------------------------------------------------------------
(* exec_dequeue_fifo.                                                      *)
LengthOffByOne ==
  /\ pc = "length"
  /\ \/ pc' = "data" /\ fifo_depth' = Size(sensor_fifo) + 1 /\ UNCHANGED faults
     \/ pc' = "error" /\ UNCHANGED fifo_depth /\ Fault
  /\ UNCHANGED <<allocated, acc_table, gyr_table, acc_data, gyr_data,
                 sensorVars, resets, historyVars>>

Length ==
  /\ pc = "length"
  /\ \/ pc' = "data" /\ fifo_depth' = Size(sensor_fifo) /\ UNCHANGED faults
     \/ pc' = "error" /\ UNCHANGED fifo_depth /\ Fault
  /\ UNCHANGED <<allocated, acc_table, gyr_table, acc_data, gyr_data,
                 sensorVars, resets, historyVars>>

NewestOf(samples, otherwise) == IF samples = <<>> THEN otherwise ELSE samples[Len(samples)].n

(* The decoder on whole frames, followed by samples of other bytes.        *)
Decoded(fs, accs, gyrs) ==
  /\ acc_table' = Kept(acc_table, AccOf(fs) \o accs)
  /\ gyr_table' = Kept(gyr_table, GyrOf(fs) \o gyrs)
  /\ newest' = [acc |-> NewestOf(AccOf(fs), newest.acc),
                 gyr |-> NewestOf(GyrOf(fs), newest.gyr)]
  /\ overflowed' = (\/ overflowed
                    \/ Len(acc_table) + Len(AccOf(fs) \o accs) > TableLength
                    \/ Len(gyr_table) + Len(GyrOf(fs) \o gyrs) > TableLength)
  /\ UNCHANGED overrun

(* The transfer of fifo_depth bytes and the decoder.  Since the length was *)
(* read the sensor may have gone on: frames behind that length wait for    *)
(* the next dequeue.  But if it dropped its oldest frames, the length may  *)
(* end inside a frame, which it will send again, or behind the last one.   *)
Whole  == Longest(sensor_fifo, fifo_depth)
Excess == fifo_depth - Size(SubSeq(sensor_fifo, 1, Whole))

DataWhole ==
  /\ Excess = 0
  /\ Decoded(SubSeq(sensor_fifo, 1, Whole), <<>>, <<>>)
  /\ sensor_fifo' = SubSeq(sensor_fifo, Whole + 1, Len(sensor_fifo))
  /\ pc' = "fetch"
  /\ UNCHANGED shifted

(* What is missing of the last frame is read from an earlier dequeue.      *)
DataCut ==
  /\ Excess > 0 /\ Whole < Len(sensor_fifo)
  /\ LET f == sensor_fifo[Whole + 1]
         gyr == IF Excess >= FrameBytes.gyr THEN f.sample ELSE TornSample
     IN  Decoded(SubSeq(sensor_fifo, 1, Whole),
                 IF HasAcc(f) THEN <<TornSample>> ELSE <<>>, <<gyr>>)
  /\ sensor_fifo' = SubSeq(sensor_fifo, Whole + 1, Len(sensor_fifo))
  /\ pc' = "fetch"
  /\ shifted' = TRUE

(* What the sensor sends behind its last frame is not known; a byte with   *)
(* neither mode bit keeps the decoder for ever.                            *)
DataBeyond ==
  /\ Excess > 0 /\ Whole = Len(sensor_fifo)
  /\ \E accs, gyrs \in {<<>>, <<TornSample>>} : Decoded(sensor_fifo, accs, gyrs)
  /\ sensor_fifo' = <<>>
  /\ pc' \in {"fetch", "spinning"}
  /\ shifted' = TRUE

Data ==
  /\ pc = "data"
  /\ \/ (DataWhole \/ DataCut \/ DataBeyond) /\ UNCHANGED faults
     \/ /\ pc' = "error" /\ Fault
        /\ UNCHANGED <<acc_table, gyr_table, sensor_fifo, historyVars>>
  /\ UNCHANGED <<allocated, fifo_depth, acc_data, gyr_data, sensor, made, resets>>

-----------------------------------------------------------------------------
(* The thread: get_latest_acc and get_latest_gyr when the data stack has   *)
(* room, and the push; otherwise neither.                                  *)
GetOldest(table, old) == IF table = <<>> THEN old ELSE Head(table)
GetLatest(table, old) == IF table = <<>> THEN old ELSE table[Len(table)]

Fetch ==
  /\ pc = "fetch"
  /\ acc_data' = GetLatest(acc_table, acc_data)
  /\ gyr_data' = GetLatest(gyr_table, gyr_data)
  /\ acc_table' = <<>> /\ gyr_table' = <<>>
  /\ pc' = "fetched"
  /\ newest' = [acc |-> 0, gyr |-> 0] /\ overflowed' = FALSE
  /\ UNCHANGED <<allocated, fifo_depth, sensorVars, faults, resets, shifted, overrun>>

PushEntry ==
  /\ pc = "fetched"
  /\ pc' = "length"
  /\ UNCHANGED <<allocated, acc_table, gyr_table, fifo_depth, acc_data, gyr_data,
                 sensorVars, faults, resets, historyVars>>

StackFull ==
  /\ pc = "fetch"
  /\ pc' = "length"
  /\ UNCHANGED <<allocated, acc_table, gyr_table, fifo_depth, acc_data, gyr_data,
                 sensorVars, faults, resets, historyVars>>

(* fini_bmi270, after any error; the thread returns.                       *)
Finalize ==
  /\ pc = "error"
  /\ allocated' = allocated \ {"acc_table", "gyr_table", "fifo"}
  /\ pc' = "exited"
  /\ UNCHANGED <<acc_table, gyr_table, fifo_depth, acc_data, gyr_data,
                 sensorVars, faults, resets, historyVars>>

ThreadStep == \/ Allocate \/ WriteRegister \/ ReadRegister
              \/ Length \/ Data \/ Fetch \/ PushEntry \/ StackFull \/ Finalize

Next == ThreadStep \/ Produce \/ BoardReset

Spec == Init /\ [][Next]_vars

-----------------------------------------------------------------------------
Dequeuing == {"length", "data", "fetch", "fetched", "spinning"}

(* Types of the variables, with each table within the store length.        *)
Read == Sample \cup {NoSample, TornSample}
TypeOK ==
  /\ pc \in DOMAIN After \cup Dequeuing \cup {"alloc", "error", "exited"}
  /\ allocated \in SUBSET {"fifo", "acc_table", "gyr_table"}
  /\ acc_table \in Seq(Read) /\ Len(acc_table) <= TableLength
  /\ gyr_table \in Seq(Read) /\ Len(gyr_table) <= TableLength
  /\ fifo_depth \in 0..Capacity
  /\ acc_data \in Read /\ gyr_data \in Read
  /\ sensor \in Sensor
  /\ sensor_fifo \in Seq({Skip} \cup DataFrame)
  /\ made \in 0..MaxSamples
  /\ faults \in 0..MaxFaults
  /\ resets \in 0..MaxResets
  /\ newest \in [acc : 0..MaxSamples, gyr : 0..MaxSamples]
  /\ shifted \in BOOLEAN /\ overrun \in BOOLEAN /\ overflowed \in BOOLEAN

(* When init_bmi270 has returned 0 the sensor measures as the thread will  *)
(* take it to: file loaded, both rates and ranges set, the FIFO filling,   *)
(* whatever state an earlier run left it in, and though the error of the   *)
(* reset command is passed over (i2c_bmi270.c:332-336).  The buffers whose *)
(* allocation it tested are there; gyr_table is not one of them (:316).    *)
MeasuresAfterInit ==
  pc \in Dequeuing =>
    /\ {"fifo", "acc_table"} \subseteq allocated
    /\ sensor.loaded /\ sensor.started /\ sensor.sampling /\ sensor.fifo_on
    /\ sensor.rates = {"acc", "gyr"}
    /\ sensor.ranges = {"acc", "gyr"}

(* Everything the thread gets out of whole frames was measured in the      *)
(* ranges it scales by and after the program started: frames an earlier    *)
(* run left in a sensor that went on, or that were measured before the     *)
(* ranges were set, never reach it.                                        *)
SamplesOfThisRun ==
  ~shifted =>
    \A sample \in {acc_data, gyr_data} \cup ToSet(acc_table) \cup ToSet(gyr_table) :
      sample.ranged /\ sample.current

(* Each of get_latest_acc and get_latest_gyr hands out the newest frame    *)
(* with its sensor of all the dequeues since it was last called, however   *)
(* many the full data stack let pass, unless a table was too full for one. *)
(* If they brought none it leaves the thread's value alone, so that the    *)
(* two values need not be of the same dequeue.                             *)
HandsOut(value, new, frame) == IF frame = 0 THEN new = value ELSE new.n = frame
LatestUnlessFull ==
  [][Fetch /\ ~shifted /\ ~overflowed =>
       /\ HandsOut(acc_data, acc_data', newest.acc)
       /\ HandsOut(gyr_data, gyr_data', newest.gyr)]_vars

(* The length of the FIFO and its contents are two transfers, and the       *)
(* sensor measures in between (i2c_bmi270.c:460 against :469): the bytes   *)
(* read are still whole frames, unless it dropped frames there.            *)
ReadsWholeFrames == shifted => overrun
=============================================================================
