# Verification of the Spresense location logger

TLA+ modules, TLC configurations and TLAPS proofs for the program under `src/`:
a logger for the Sony Spresense board that reads positions from a GNSS receiver
and accelerations from a BMI270 sensor, and is to send them over LTE.

All line numbers are of `src/location_logger/` at the modelled commit.

## The system

| Part | Code | State it keeps | Operations |
|---|---|---|---|
| Location logger | `location_logger_main.c` | the last position, the descriptor | `main`: initialise the receiver, first contact, then report and sleep for ever |
| GNSS functions | `modules/gnss.c` | the static buffer `posdat`, the notification `setting`, the task's signal mask, the receiver behind the file | `gnss_initialize`, `gnss_first_contact`, `gnss_get`, `gnss_stop`, `gnss_finalize` |
| IMU stack | `modules/bmi270_ctrl.c` | `data_stack`, `data_stack_pos`, `data_mutex`, `imu_sensor_bias` | the thread `thread_imu_bmi270_main`; `read_bmi270`, `calibrate_bmi270` |
| BMI270 driver | `modules/bmi270lib/i2c_bmi270.c` | FIFO buffer, two frame tables and their positions | `init_bmi270`, `exec_dequeue_fifo`, `get_latest_acc`, `get_latest_gyr`, `fini_bmi270` |
| I2C transfers | `modules/bmi270lib/i2c_common.c` | none | register read, write, burst write |
| LTE connection | `modules/connection.c` | `cb_status`, `my_session_id`; the library and the modem behind it | `lte_staprocess`, `lte_finprocess`, `restart_cb`, HTTP posts |
| LTE sample | `modules/samples/lte_http_get.c` | `data_pdn_sid`, a message queue; the library and the modem | `main`: attach, fetch a file, detach; `app_restart_cb` on the library's thread; `app_modem_recovery` on a thread of its own for each restart of the modem |
| GNSS samples | `modules/samples/gnss_event.c`, `gnss_poll.c` | `posfixflag`, `posdat`, the countdown; the receiver behind the file | `main`: set up, print what is measured until some time after the first fix, tear down |
| Fusion sample | `modules/fusion_sample.c` | two structures under one mutex | two writers and a reader of dummy data |

How they interact. `main` calls the GNSS functions, one after the other, in one
task; the receiver measures once a second on its own and raises a signal that
`gnss_get` waits for. The IMU thread and its clients share the stack under a
mutex, with two tests of the position outside it. The LTE functions are called
by one task; the modem starts, restarts and calls back from the LTE library's
own thread. The samples are programs of their own, beside the logger, whose
functions follow them. In the commit modelled, `main` has the creation of the
IMU thread and the LTE calls commented out (lines 16-21, 34-35, 47, 55): each
of the three parts is complete and is modelled as its header offers it, and
there is no composition of them in the code to model beyond logger and
receiver.

What is hard in it, part by part, is listed with its lines in `PROJECT.json`
under `hazards`: unlocked tests, signals separate from the data they announce,
partial failures of call chains and of their undoing, waits without timeout, a
callback that can be lost or come from an earlier start, and functions that
return nothing to callers that must know.

## Modules

| Module | Models | Refines / extends |
|---|---|---|
| `BoundedLog` | what the IMU stack promises: a bounded log of whole readings, taken all at once | abstract specification |
| `ImuStack` | `bmi270_ctrl.c` and the frame tables of the driver | implements `BoundedLog` |
| `MCImuStack` | small instances of `ImuStack` | extends `ImuStack` |
| `FrameTables` | the driver's two tables of samples | |
| `FifoDecoder` | `bmi270_fifo_decoder`, on bytes | extends `FrameTables` |
| `MCFifoDecoder` | small instances of `FifoDecoder` | extends `FifoDecoder` |
| `Bmi270Driver` | `i2c_bmi270.c` on `i2c_common.c`, with the sensor | extends `FrameTables` |
| `Gnss` | the functions of `gnss.c`, one action per system call | |
| `GnssApi` | any caller of `gnss.c` in the documented order | extends `Gnss` |
| `LocationLogger` | `main` | extends `Gnss` |
| `LteConnection` | `connection.c` and a caller of it | |
| `LteHttpGet` | `samples/lte_http_get.c`: three kinds of threads and the modem | |
| `GnssSample` | `samples/gnss_event.c` and `samples/gnss_poll.c` with the receiver | |
| `ImuStackProofs`, `FifoDecoderProofs`, `Bmi270DriverProofs`, `LteConnectionProofs`, `LteHttpGetProofs`, `GnssSampleProofs` | theorems | extend the module of their name |
| `GnssProofs` | theorems about `GnssApi` and `LocationLogger` | extends both |
| `FrameTheorems` | lemmas on numbers, sequences and `FrameTables` | used by `FifoDecoderProofs`, `Bmi270DriverProofs` |

An operator whose name describes a mistake (`DecodeUnguarded`, `ArmNothing`,
`WentDownTooFar`, `KeptAll`, `CountWithoutFix`, ...) stands before the
definition it is a faulty variant of. No specification uses it. Putting it in
the place of its neighbour makes the property named in `PROJECT.json` fail: each
property is shown to depend on the code it is about.

### ImuStack

A step is a stretch of code that touches shared state once. The thread's pass is
`Dequeue`, `CheckRoom` or `SkipFull` (the unlocked test at `bmi270_ctrl.c:80`
and the getters), `ImuLock`, `WriteAcc`, `WriteGyr` (the entry is written in two
halves, so a torn entry would be seen), and `Shutdown` from any failure. A
client's `read_bmi270` is `CallRead`, `ClientLock`, one `VisitEntry` per round
of the loop, `FinishRead`; `calibrate_bmi270` has the unlocked wait
`CalibrateEnough` before it and `FinishCalibrate` at its end. Who reads and who
calibrates is a parameter (`Readers`, `Calibrators`). Axis values are abstracted
to the dequeue they were decoded in (`Batches`), the bias to whether there is
one and whether an earlier one is inside. A dequeue may stay in the decoder for
ever (`spinning`), as `FifoDecoder` shows. `CalibSize` is ten seconds and
`StackSize` thirty seconds of samples in the code (200 and 600).

The abstract specification: a reading is accepted only when there is room, is
stored once, whole, in order, and a client takes all that is stored, once.
`ImplementsLog` maps the log to the first `data_stack_pos` entries, and the
moment of acceptance to the unlocked test.

`overtaken` remembers the clients whose samples another call took between their
unlocked wait and their lock: for them the divisor of the calibration may be
zero. `CalibrationHasSamples` says that this is the only way it can be.

The guard of the frame tables is modelled as the code has it, in entries.
`TablesFit` compares it with the allocation. The other properties hold of a
model in which storing past the allocation changes nothing else; in the code it
corrupts the heap, so they hold of the code as long as `TablesFit` does.

### FrameTables, FifoDecoder, Bmi270Driver

`FifoDecoder` runs the decoder's loop, one step per round (`ControlFrame`,
`DataFrame`, `Spin`), on a buffer of bytes. `frames` and `before` remember what
the sensor wrote and what the tables held, so that `DecodesFrames` can compare
the tables with `Kept`: the old samples, then those of the frames, cut at
`BMI270_STORE_TABLE_LENGTH`. Samples keep all 16 bits of an axis: `Conv` is the
macro, `Encoded` what the sensor does. `TypeOK` says of the buffer that the
decoder never looks further than one frame behind the bytes dequeued. What the
bytes of a frame look like is external and is what the decoder's comments and
lengths say. In a debug build the decoder also prints payload bytes; that is
left out.

`Bmi270Driver` takes the decoder as a whole (`Decoded`, with the same `Kept`)
and has one step per I2C transfer: `Allocate`, then the sixteen transfers of
`After` (`WriteRegister`, `ReadRegister`), `Length` and `Data` of a dequeue, and
the thread's `Fetch` or `StackFull`, `PushEntry`, `Finalize`. A failed write may
or may not have reached the sensor. The sensor keeps a few settings and a FIFO of
frames; it measures between any two transfers (`Produce`), drops its oldest
frames when full, and goes on when only the board is reset (`BoardReset`), so
the next run meets the state the last one left. A sample has a number and says
whether it was measured in the right ranges and since the reset.

The length of the FIFO and its contents are read in two transfers. If the FIFO
overflows in between, the length may end inside a frame (`DataCut`: the decoder
takes the rest from what an earlier dequeue left in the buffer) or behind the
last one (`DataBeyond`: it meets bytes nobody documents, and may stay at one for
ever). `shifted` records that, and the properties about samples exclude it;
`ReadsWholeFrames` says that nothing but such an overflow (`overrun`) brings it
about.

### Gnss, GnssApi, LocationLogger

`pc` is the system call about to be made, `call` the function, `ret` what it
returned. Each action makes its call succeed or fail (`Fault`), and `Measure`
may come between any two. `gnss_initialize` is `Open`, `BlockSignal`,
`EnableSignal`, `SetParams` (both ioctls), `Start`, with every failure after
the first going through the actions of `gnss_finalize` (`DisableSignal`,
`UnblockSignal`, `Close`). `gnss_get` is `GetWait`, `GetRead`;
`gnss_first_contact` loops over `ContactWait`, `ContactRead`. A failing read may
leave `posdat` half written (`Torn`). `-ENODEV` and `-1` are both `ERROR`.

External, and modelled as the code uses it: the driver keeps the latest
measurement only; a blocked signal that is pending is not queued again; closing
the file may or may not end the notifications. After `gnss_stop` a caller that
waits for a position waits for ever; the run of `GnssApi` does not check
deadlock for that reason, that of `LocationLogger` because `main` ends when
`gnss_initialize` fails.

`LocationLogger` adds `main_pc` and the position printed. It never reaches
`gnss_stop` and `gnss_finalize` (the loop at `location_logger_main.c:37-51` has
no exit), so these are checked through `GnssApi`.

### LteConnection

`lte_staprocess(level, stop)` enters the chain `init`, `arm`, `register`,
`power_on`, `wait`, `radio_on`, `activate` at the caller's level and leaves it
when `stop` is reached (`Reached`: the fall-through and the breaks of the
switch); an error runs `lte_finprocess` down to `STATE_UNINITIALIZED`
(`RollBack`). `lte_finprocess` is `deactivate`, `radio_off`, `power_off`,
`finalize` with the same fall-through (`WentDown`), each step ignoring its
result. `modem_pwron` is four steps, because the callback and the modem move
between them. The callback is two: `Deliver` takes what the library has to
notify and enters it (`cb_pc`), `restart_cb` is its write of `cb_status`, which
follows a `printf` (`connection.c:72`) and may come after any number of other
steps, a tear-down and a new start among them. `late` remembers that such a
callback was running when a call set `cb_status`. Notifications that pile up
while the callback runs are one (`event`): a second one writes the same 0. The
caller takes every call to have reached `stop`: the functions return nothing.
Calls with a level out of range only print, and a `stop` on the wrong side of
the level is not a use the headers or `main` show; both are left out.

External, from how `connection.c` and `samples/lte_http_get.c` use and describe
the library: the restart callback comes when the modem has started after
`lte_power_on` (:586-589), `lte_power_off` cancels notifications not delivered
(:766-768), `lte_finalize` shuts the modem down (:777-779), the modem may
restart by itself and then needs radio and session anew (:374-430), and
`lte_initialize`, `lte_power_on` and `lte_radio_on_sync` report `EALREADY` when
there is nothing to do. An active session is not activated again but looked up
(:669-678), so activating one again is an error here. `lte_radio_on_sync` on a
radio that is on may or may not be tolerated: `connection.c:222` looks at
`err_result_code`, the sample at `err_no` (:656), and what the library fills
in is not known.

### LteHttpGet

`main` is one action per call, named after it, in the order of the code, with
the three ways out: through `errout_with_lte_fin` (`GiveUp`), through
`errout_with_fin`, which leaves out `lte_finalize`, and from the queue's
creation to the end. `app_restart_cb`, `NotifyOpen`, `NotifySend`,
`CreateThread` are the library's thread in the callback: it opens the queue, may
wait for room in it, and creates a recovery thread when the modem has restarted
by itself. `RecoveryLocaltime`, `RecoveryRadioOn`, `RecoveryActivate` are that
thread. All of them and the modem (`Boot`, `SelfRestart`, `Deliver`) interleave.
The modem and the library are external, as in `LteConnection`; the program may
find both up, since `main` provides for `EALREADY`. `armed` remembers that the
callback was registered and `refused` that `lte_finalize` failed:
`LeavesModemOff` is about the runs that were armed and not refused. Of the
others, the exit of a failed registration (`lte_http_get.c:595`) leaves the
library initialised. `unnotified` marks those in which a call of the callback on
the queue failed; `restarted` that the id `main` holds may be stale.

### GnssSample

One module for both programs, `sample` says which: `EventOrder` and `PollOrder`
are the order of their calls, `EventErrors` and `PollErrors` where a failing call
leads (`goto _err`, `break`). `Wait` is `sigwaitinfo`, which takes the pending
signal, or `poll`, which takes nothing; `Read` is `read_and_print` with the
countdown and the test of the loop. `Measure` may come between any two calls.
`uses` counts the reads of the latest measurement and `told` the measurements
that were counted, so that `CountsSeconds` can compare the countdown with time.

## Runs

| Run | Module, bounds | Checks |
|---|---|---|
| `imu_shared` | 2 readers, one of which also calibrates, 2 entries, calibration at 1, fairness | `TypeOK`, `RoomWhenWriting`, `CalibrationHasSamples`, `ImplementsLog`, `AcceptedIsStored`, `CalibrationReturns` |
| `imu_measured` | 1 client | finds `EntriesMeasured` violated |
| `imu_tables` | tables of 12 bytes (2 entries) | finds `TablesFit` violated |
| `decoder` | 3 frames or 4 bytes, tables of 2 | `TypeOK`, `DecodesFrames`, `DecoderReturns`, `ReturnsOrSpins` |
| `driver` | 5 samples, FIFO of 22 bytes, tables of 3, 2 failing calls, 1 reset | `TypeOK`, `MeasuresAfterInit`, `SamplesOfThisRun`, `LatestUnlessFull`, `ReadsWholeFrames` |
| `gnss_api` | 2 positions, 2 failing calls | `GnssTypeOK`, `InitAllOrNothing`, `HandedOutAtMostTwice` |
| `logger` | 2 positions, 2 failing calls, fairness | `ReportsAMeasurement`, `KeepsReporting` |
| `lte` | 2 sessions, 2 failing calls, 2 restarts, fairness | `TypeOK`, `BringUpReached`, `TearDownReached`, `BeliefRight`, `WaitEndsAfterBoot`, `FinGoesNoFurther`, `ReturnsIfRegistered` |
| `lte_unregistered` | 1 failing call, fairness | finds `CallsReturn` violated |
| `lte_late_callback` | 1 restart, no failing call | finds `WaitsForStartup` violated |
| `lte_http` | 2 sessions, 2 recovery threads, 2 restarts, 2 failing calls, fairness | `TypeOK`, `CallbackNotBlocked`, `StartWillBeReported`, `HoldsActiveSession`, `LeavesModemOff`, `WaitedForModem`, `MainEnds`, `RecoveryReattaches` |
| `gnss_sample` | a countdown of 4, 3 failing calls, fairness | `TypeOK`, `PrintedSeldom`, `CountsSeconds`, `LeavesReceiverOff`, `SampleEnds` |

Why the bounds are enough. The stack of two entries is empty, partly full and
full, and two clients meet at every lock; a second one is enough to overtake a
calibration. Two failing calls are one in
a function and one in its undoing. Two positions tell an old measurement from a
new one; two sessions an old session from a new one. One label of dequeues is
enough for order and loss, which `ImplementsLog` sees in the lengths and in the
halves of an entry that are not measured. Three frames put every
kind before and after every other, on tables that are empty, nearly full and
full. A FIFO of 22 bytes holds three frames of a gyroscope sample, or two of
both kinds, so that lengths that do not match occur; the tables of three hold
what one dequeue can bring, as in the code (1024 entries against a FIFO of
hundreds of frames), and overflow over several. Two restarts of the modem make
two recovery threads meet each other and `main`. A countdown of four is longer
than the two reads a measurement may have; three failing calls are one that
makes a sample give up and both of its tear-down. The theorems below remove the
bounds for safety.

Bounds, by name: `MaxFrames` (frames of a sensor in a dequeue), `Batches`,
`MaxFaults` (failing calls in a run), `MaxRestarts`, `Threads` (recovery
threads); `MaxFrames` and `MaxBytes` of the decoder, `MaxSamples`,
`MaxResets`. `uses` in `Gnss` needs no
bound: `HandedOutAtMostTwice` is one; nor do `uses` and `told` in `GnssSample`,
bounded by `PrintedSeldom` and the countdown.

### What the violations say

- `EntriesMeasured`: the thread ignores the results of `get_latest_acc` and
  `get_latest_gyr` (`bmi270_ctrl.c:83-84`), documented as 0 on success. A
  dequeue without a frame pushes the previous values again, and the first may
  push uninitialised ones.
- `TablesFit`: the frame tables are allocated 1024 *bytes*
  (`i2c_bmi270.c:305`, `:315`) and guarded at 1024 *entries* of six bytes
  (`:199`, `:221`). They are emptied only while the data stack has room, so
  after thirty seconds without a reader they begin to fill.
- `CallsReturn`: the result of the registration is overwritten
  (`connection.c:191`), and without the callback the wait at `:202` has no end.
  `ReturnsIfRegistered` is what holds.
- `WaitsForStartup`: `restart_cb` prints (`connection.c:72`) before it clears
  `cb_status` (`:67`). `lte_power_off` cancels what was not delivered, not a
  callback that runs. One of a restart before the tear-down, still printing, may
  clear `cb_status` after the next `modem_pwron` has set it (`:188`), and the wait
  at `:202` ends while the modem starts. `WaitEndsAfterBoot` is what holds: a
  notification that is still on its way cannot do that. So does `BringUpReached`:
  asked for more than `STATE_POWER_ON`, the call turns the radio on too early,
  fails and undoes what it did, or finds the modem started after all; asked for
  no more, it returns without an error and without a started modem.

Disagreements read off the code, without a run: after allocating `gyr_table`
`init_bmi270` tests `acc_table` (`i2c_bmi270.c:316`), so that it may return 0,
success by `:281`, with a NULL table (`MeasuresAfterInit` says what holds: the
other two buffers are there); a full table drops the newest
samples (`i2c_bmi270.c:221`) and nothing drains the tables while the data stack
is full (`bmi270_ctrl.c:80`), so that the next value the getters call latest is
from before (`LatestUnlessFull` is what holds: of each sensor the newest frame
since the getters were last called, or the value the caller had; the two values
of an entry may thus be of different dequeues, as the callers at
`bmi270_ctrl.c:83-84` ignore which getter found nothing); `gnss.c:208` says that
`gnss_finalize` stops GNSS, and it makes no such call; `gnss.c:246` says that
the initialisation returns zero, and it returns the descriptor, which `main`
relies on; `restart_cb` ignores the reason it is given (`connection.c:70`), so
that an unusable start ends the wait too; the comments at `i2c_bmi270.c:425` and
`:432` name ranges of 2 g and 2000 degrees per second for the values 8 g and 500
of `i2c_bmi270.h:46-49`, which are what is written; in `lte_http_get.c` a failing
registration leaves through `errout_with_fin` (`:595`) and so without the
`lte_finalize` that the other exits make, and a failing `pthread_create`, whose
errors are positive, is not noticed by `ret < 0` (`:471`); the GNSS samples
document `main` as returning zero on success and a negative value on error, and
return what `close` says (`gnss_event.c:401`), whatever failed before.

### Fairness

`imu_shared`: the thread and a client inside a call keep running (weak
fairness); a NuttX mutex serves its waiters, which queue on a semaphore, so the
lock steps get strong fairness. No client is obliged to call. A calibration need
not return if the sensor thread is gone or hangs, or if other calls take the
samples first again and again; `CalibrationReturns` says so. `logger`: the task
is scheduled, a positioning receiver keeps measuring. `lte`: the running call is
scheduled, a modem switched on starts, the library delivers its notification and
its thread gets through the callback; neither failures nor restarts are fair.
`lte_http`: the same for `main`, the callback and the recovery threads, but the
transfer of the file may last for ever. `gnss_sample`: the program is scheduled
and a receiver that positions keeps measuring; a sample ends if the receiver has
a fix from some time on, and a failing call is never obliged to happen. Waiting
and sleeping are not steps, except the poll of `cb_status`, which keeps a wait
without end from looking like a deadlock.

## Theorems

All are checked by TLAPS for every value of the constants that satisfies the
`ASSUME` of its module (sizes positive and in order, sets disjoint, bounds
natural numbers). Nothing is assumed about how many calls fail. The assumptions
that say something about the code: `Capacity >= 2` in `Bmi270Driver`, the length
of the shortest frame (the sensor's FIFO holds 2048 bytes), and `BufferOK` in
`FifoDecoder`, samples of three `int16_t` (`axis_t`) and a buffer of `uint8_t`.

- `ImuStackProofs`. `TypeCorrect` and `WritesInsideStack` from
  `TypeOK /\ RoomWhenWriting`, which is inductive: between the test and the
  write the position can only fall. `CalibrationDividesByEnough`, for any number
  of clients, adds that one past the wait that nobody overtook still finds
  `CalibSize` entries. `StackImplementsLog` adds who holds the mutex
  (`OwnerInside`, by itself the theorem `OwnersAreInside`), that what a client
  has visited is a prefix of the stack (`SeenInv`), and that the half-written
  slot has the reading's acceleration (`HalfInv`).
- `FrameTheorems` has what the two modules below need of data of any length.
  Induction is over the least element of a set of numbers (`LeastNat`, `AllNat`,
  `AllSeq`): the principle is stated with sets, as the provers cannot
  instantiate one stated with a predicate. From it: what `FlattenSeq` yields of
  a sequence that grows by one, of two joined, of a prefix (`FlattenAppend`,
  `FlattenConcat`, `FlattenPrefix`), and that pushing samples one by one is
  keeping them all up to the table's length (`KeptPush`, `KeptMore`).
- `FifoDecoderProofs`. `DecoderTypeCorrect` (on any bytes) is inductive by
  itself. `DecoderRecovers` says that from any number of whole frames of any
  16-bit samples the decoder recovers exactly the samples. It rests on
  `WholeInv`: the decoder is behind the first `k` frames, for some `k`, and the
  tables are the old ones with the samples of those `k` kept. The step is
  `RoundTakes`: a round at the head of a frame (`HoldsAt`) goes to its end and
  pushes what it holds, which comes down to the headers' bits (`HeadBits`), the
  layout of each frame (`FrameShapes`) and `CONV` undoing the sensor's encoding
  (`LittleEndianIs`, `AxisDecodes`). The same invariant gives `NoSpinOnFrames`:
  on whole frames the decoder never meets the byte at which it would stay for
  ever. `RoundsGoForward`: on any bytes, a round that moves goes forward by at
  most the longest frame. With `NoSpinOnFrames` this is the safety half of
  `DecoderReturns`: what is left only shrinks, and there is always a round that
  moves; that the rounds are taken is fairness, left to TLC.
- `Bmi270DriverProofs`. `InitMeasures` from `SensorInv`: at each transfer of the
  initialisation, what the sensor has been told so far; `BuffersInv` says which
  buffers are there by then. `DriverTypeCorrect` adds
  that the FIFO never holds more than its capacity (`FitInv`), without which a
  length read would not be bounded. `OnlyThisRun` from `FreshInv`: once the
  initialisation is over the FIFO holds only samples of this run in the right
  ranges, and as long as no read was torn so do the tables and the thread.
  `WholeFramesRead` from `WholeInv`: between the two transfers of a dequeue the
  length read is that of the first so many frames, until the FIFO overflows; what
  the sensor appends meanwhile does not change that. `LatestAreHandedOut` from
  `LatestInv`: as long as no table overflowed and no read was cut, the newest
  sample since the getters were last called is the last of its table, and there
  is none if the table is empty. All for any FIFO and any number of
  samples, failures and resets.
- `GnssProofs` has the lemmas that every system call, measurement and entry
  preserves `GnssInv`: a pending signal and a read in progress count as uses to
  come (`HandedInv`), and each step of `gnss_initialize` knows what is set up
  (`InitInv`). On them rest the theorems about any caller (`ApiTypeCorrect`,
  `InitIsAllOrNothing`, `ApiHandsOutAtMostTwice`; the caller's part is that the
  signal is not blocked while the file is closed) and about the logger
  (`LoggerTypeCorrect`, `OnlyMeasurementsReported`; the logger's part is that
  in `gnss_get` an `OK` comes with the fix just read). `LoggerKeepsSignals` adds
  that `main` gets past the initialisation only when `InitAllOrNothing` says that
  everything is on, and that nothing it calls later turns anything off.
- `LteConnectionProofs`. `LteTypeCorrect`, `BringUpReaches`, `TearDownReaches`,
  `NoEarlyEndOfWait`, `NoFurtherDown`, `CallerIsRight` from `LteInv`: where
  `lte_finprocess` may stand (`ControlOK`), that a notification is pending only
  while the modem is up and that a modem being started still has `cb_status` set
  unless the callback was running when the call set it (`ArmOK`), that a modem
  torn down below `STATE_POWER_ON` is off (`OffOK`), that the active session is
  the stored one (`StoredOK`), and what `lte_staprocess` still has to reach
  (`UpOrderOK`); `ExactOK` and `OneNotification` follow the level, the
  notification and the callback through a run in which nothing fails.
  `AnswerComes` is inductive with nothing else: the notification leaves the
  modem only to be delivered, and the callback only with its write.
- `LteHttpGetProofs`. `HttpTypeCorrect`, `CallbackHasRoom`, `StartIsReported`,
  `MainHoldsActiveSession`, `MainLeavesModemOff`, `WaitEndsWithModem` from
  `HttpInv`, for any number of recovery threads: one start of the modem has one
  notification, which is at one place only, with the library, in the callback or
  in the queue (`OneStart`), so there is room for it; it says how the modem
  started (`Truthful`); the library stays initialised until `main` switches the
  modem on (`LibraryUp`) and nothing comes up after `lte_finalize` (`StaysDown`);
  its callback is registered when `main` switches it on (`Registered`), so the
  report goes from one hand to the next until `main` has it.
- `GnssSampleProofs`. `SampleTypeCorrect`, `PrintsSeldom`,
  `CountdownTakesItsTime`, `SampleLeavesReceiverOff` from `SampleInv`: a pending
  signal and a read about to be made count as reads to come (`UseInv`), the
  countdown stays within `Reads` times what was told, of which the latest
  measurement has its part only (`CountInv`), and what is on still has the call
  before it that turns it off, unless that failed (`OffInv`).
  `SampleWaitsForAReceiver` from `OnInv`: what is on by the time of each call.

Only model-checked: the liveness properties `AcceptedIsStored`,
`CalibrationReturns`, `DecoderReturns`, `ReturnsOrSpins`, `KeepsReporting`,
`ReturnsIfRegistered`, `MainEnds`, `RecoveryReattaches` and `SampleEnds`, as the
prover does not handle `ENABLED`; and the violations. Where such a property is
about a wait without timeout, the part of it that is safety is a theorem:
whoever waits, what ends the wait is still to come (`OwnerInside`,
`SignalsStayOn`, `AnswerIsComing`, `WaitsForAReceiver`, stated in the proof
modules, and `StartWillBeReported`, which the run `lte_http` checks too). What
is left to fairness is that it comes. `LoggerTypeCorrect` has no run of its own:
`gnss_api` checks the types of all that `gnss.c` touches. Every invariant, action
property and refinement that a passing run checks is a theorem.

## Not modelled

- `bmi270.c` (a constant table), `debug_printf.h`, the build files.
- Formatting and printing (`read_and_print`, `double_to_dmf`, `err_msg`), the
  HTTP posts, `get_imsi`, the network reports: no state.
- `main_bmi270`, which is commented out.
- In `lte_http_get.c`, setting the clock from a local time report, the web
  client's context and its callback, which prints what it gets.
- `fusion_sample.c`, a stand-alone example in no makefile: two threads that store
  constants and one that prints them, each holding one mutex over all it does.
  No order of its steps shows anything but whole values.

## Plan

In order:

1. `ImuStack` composed with the driver: `InitSensor` and `Dequeue` as
   abstractions of `Bmi270Driver`, shown by a refinement mapping.
2. That composition as a theorem, on the lemmas of `Bmi270DriverProofs`.
