------------------------- MODULE Bmi270DriverProofs -------------------------
(***************************************************************************)
(* What holds of the driver for any FIFO, any number of samples, failing   *)
(* calls and resets of the board.                                          *)
(***************************************************************************)
EXTENDS Bmi270Driver, FrameTheorems

Locations == DOMAIN After \cup Dequeuing \cup {"alloc", "error", "exited"}

(* The locations of init_bmi270 behind a given register write, and those   *)
(* of the loop after it.                                                   *)
BehindFrames  == Dequeuing \cup {"fifo_mode", "fifo_flush"}
BehindGyrRange == BehindFrames \cup {"fifo_frames"}
BehindAccRange == BehindGyrRange \cup {"gyr_range"}
BehindGyrRate == BehindAccRange \cup {"fifo_wake", "acc_range"}
BehindAccRate == BehindGyrRate \cup {"gyr_rate"}
BehindPower   == BehindAccRate \cup {"acc_rate"}
BehindEndLoad == BehindPower \cup {"status", "power"}
BehindLoad    == BehindEndLoad \cup {"end_load"}

(* What the sensor has been told at each point of the initialisation.      *)
SensorInv ==
  /\ pc \in Locations
  /\ sensor \in Sensor
  /\ pc \in BehindLoad => sensor.loaded
  /\ pc \in BehindEndLoad => sensor.started
  /\ pc \in BehindPower => sensor.sampling
  /\ pc \in BehindAccRate => "acc" \in sensor.rates
  /\ pc \in BehindGyrRate => "gyr" \in sensor.rates
  /\ pc \in BehindAccRange => "acc" \in sensor.ranges
  /\ pc \in BehindGyrRange => "gyr" \in sensor.ranges
  /\ pc \in BehindFrames => sensor.fifo_on

(* At first nothing is asked of the sensor.                                *)
LEMMA InitSensorInv == Init => SensorInv
BY DEF Init, SensorInv, PoweredOn, Sensor, Locations, Dequeuing,
       BehindFrames, BehindGyrRange, BehindAccRange, BehindGyrRate, BehindAccRate,
       BehindPower, BehindEndLoad, BehindLoad

(* The registers written.                                                  *)
LEMMA WritesAre ==
  Writes = {"soft_reset", "wake", "begin_load", "load", "end_load",
            "power", "acc_rate", "gyr_rate", "fifo_wake", "acc_range",
            "gyr_range", "fifo_frames", "fifo_mode", "fifo_flush"}
BY DEF Writes, Reads, After

(* A register write, done or not, leaves what the next location needs: one *)
(* case for each setting, then the writes the model gives no effect.       *)
LEMMA WriteKeepsSensorInv == SensorInv /\ WriteRegister => SensorInv'
<1> SUFFICES ASSUME SensorInv, WriteRegister PROVE SensorInv'
  OBVIOUS
<1> USE DEF SensorInv, Locations, Dequeuing,
       BehindFrames, BehindGyrRange, BehindAccRange, BehindGyrRate, BehindAccRate,
       BehindPower, BehindEndLoad, BehindLoad
<1>1. sensor' = Effect(pc) \/ sensor' = sensor
  BY DEF WriteRegister, Obeyed
<1>2. \/ pc' = After[pc] /\ (sensor' = Effect(pc) \/ pc = "soft_reset")
      \/ pc' = "error"
  BY DEF WriteRegister, Obeyed, Tolerated
<1>3. CASE pc = "soft_reset"
  <2>1. Effect(pc) = PoweredOn
    BY <1>3 DEF Effect
  <2>2. sensor' \in Sensor
    <3>1. PoweredOn \in Sensor
      BY DEF Sensor, PoweredOn
    <3>2. QED
      BY <1>1, <2>1, <3>1
  <2>3. QED
    BY <1>1, <1>2, <2>1, <2>2, <1>3 DEF After, Sensor, PoweredOn
<1>4. CASE pc = "wake"
  BY <1>1, <1>2, <1>4 DEF Effect, After, Sensor
<1>5. CASE pc = "begin_load"
  <2>1. Effect(pc) = [sensor EXCEPT !.loaded = FALSE, !.started = FALSE]
    BY <1>5 DEF Effect
  <2>2. sensor' \in Sensor
    BY <1>1, <2>1 DEF Sensor
  <2>3. QED
    BY <1>1, <1>2, <2>1, <2>2, <1>5 DEF After, Sensor
<1>6. CASE pc = "load"
  <2>1. Effect(pc) = [sensor EXCEPT !.loaded = TRUE]
    BY <1>6 DEF Effect
  <2>2. sensor' \in Sensor
    BY <1>1, <2>1 DEF Sensor
  <2>3. QED
    BY <1>1, <1>2, <2>1, <2>2, <1>6 DEF After, Sensor
<1>7. CASE pc = "end_load"
  BY <1>1, <1>2, <1>7 DEF Effect, After, Sensor
<1>8. CASE pc = "power"
  <2>1. Effect(pc) = [sensor EXCEPT !.sampling = TRUE]
    BY <1>8 DEF Effect
  <2>2. sensor' \in Sensor
    BY <1>1, <2>1 DEF Sensor
  <2>3. QED
    BY <1>1, <1>2, <2>1, <2>2, <1>8 DEF After, Sensor
<1>9. CASE pc = "acc_rate"
  BY <1>1, <1>2, <1>9 DEF Effect, After, Sensor
<1>10. CASE pc = "gyr_rate"
  BY <1>1, <1>2, <1>10 DEF Effect, After, Sensor
<1>11. CASE pc = "fifo_wake"
  BY <1>1, <1>2, <1>11 DEF Effect, After, Sensor
<1>12. CASE pc = "acc_range"
  BY <1>1, <1>2, <1>12 DEF Effect, After, Sensor
<1>13. CASE pc = "gyr_range"
  BY <1>1, <1>2, <1>13 DEF Effect, After, Sensor
<1>14. CASE pc = "fifo_frames"
  BY <1>1, <1>2, <1>14 DEF Effect, After, Sensor
<1>15. CASE pc = "fifo_mode"
  BY <1>1, <1>2, <1>15 DEF Effect, After, Sensor
<1>16. CASE pc = "fifo_flush"
  BY <1>1, <1>2, <1>16 DEF Effect, After, Sensor
<1>17. QED
  BY <1>3, <1>4, <1>5, <1>6, <1>7, <1>8, <1>9, <1>10, <1>11, <1>12, <1>13, <1>14, <1>15, <1>16, WritesAre DEF WriteRegister

(* Reading leaves the sensor alone, and the status is looked at.           *)
LEMMA ReadKeepsSensorInv == SensorInv /\ ReadRegister => SensorInv'
BY DEF ReadRegister, Reads, After, sensorVars, SensorInv, Locations, Dequeuing,
       BehindFrames, BehindGyrRange, BehindAccRange, BehindGyrRate, BehindAccRate,
       BehindPower, BehindEndLoad, BehindLoad

(* In the loop nothing writes to the sensor; before and after it nothing   *)
(* is asked of it.                                                         *)
LEMMA LoopKeepsSensorInv ==
  SensorInv /\ (Length \/ Data \/ Fetch \/ PushEntry \/ StackFull) => SensorInv'
<1> USE DEF SensorInv, Locations, Dequeuing, sensorVars,
       BehindFrames, BehindGyrRange, BehindAccRange, BehindGyrRate, BehindAccRate,
       BehindPower, BehindEndLoad, BehindLoad
<1>1. SensorInv /\ Length => SensorInv'
  BY DEF Length
<1>2. SensorInv /\ Data => SensorInv'
  BY DEF Data, DataWhole, DataCut, DataBeyond
<1>3. SensorInv /\ (Fetch \/ PushEntry \/ StackFull) => SensorInv'
  BY DEF Fetch, PushEntry, StackFull
<1>4. QED
  BY <1>1, <1>2, <1>3

LEMMA OthersKeepSensorInv ==
  SensorInv /\ (Allocate \/ Finalize \/ Produce \/ BoardReset \/ UNCHANGED vars) => SensorInv'
<1> USE DEF SensorInv, Locations, Dequeuing, sensorVars, driverVars, After,
       BehindFrames, BehindGyrRange, BehindAccRange, BehindGyrRate, BehindAccRate,
       BehindPower, BehindEndLoad, BehindLoad
<1>1. SensorInv /\ Allocate => SensorInv'
  BY DEF Allocate
<1>2. SensorInv /\ (Finalize \/ Produce \/ BoardReset) => SensorInv'
  BY DEF Finalize, Produce, BoardReset
<1>3. SensorInv /\ UNCHANGED vars => SensorInv'
  BY DEF vars
<1>4. QED
  BY <1>1, <1>2, <1>3

(* The invariant holds throughout.                                         *)
LEMMA DriverInvariant == Spec => []SensorInv
<1>1. Init => SensorInv
  BY InitSensorInv
<1>2. SensorInv /\ [Next]_vars => SensorInv'
  BY WriteKeepsSensorInv, ReadKeepsSensorInv, LoopKeepsSensorInv, OthersKeepSensorInv
     DEF Next, ThreadStep
<1>3. QED
  BY <1>1, <1>2, PTL DEF Spec

(* Behind the allocations the two buffers that were tested are there.      *)
BuffersInv == pc \notin {"alloc", "error", "exited"} => {"fifo", "acc_table"} \subseteq allocated

LEMMA BuffersInvariant == Spec => []BuffersInv
<1>1. Init => BuffersInv
  BY DEF Init, BuffersInv
<1>2. BuffersInv /\ [Next]_vars => BuffersInv'
  <2> SUFFICES ASSUME BuffersInv, [Next]_vars PROVE BuffersInv'
    OBVIOUS
  <2> USE DEF BuffersInv
  <2>1. CASE Allocate
    BY <2>1 DEF Allocate
  <2>2. CASE WriteRegister \/ ReadRegister
    BY <2>2 DEF WriteRegister, ReadRegister, Writes, Reads, After
  <2>3. CASE Length \/ Fetch \/ PushEntry \/ StackFull
    BY <2>3 DEF Length, Fetch, PushEntry, StackFull
  <2>4. CASE Data
    <3>1. pc = "data" /\ UNCHANGED allocated
      BY <2>4 DEF Data, DataWhole, DataCut, DataBeyond
    <3>2. QED
      BY <3>1
  <2>5. CASE Finalize \/ BoardReset
    BY <2>5 DEF Finalize, BoardReset
  <2>6. CASE Produce \/ UNCHANGED vars
    BY <2>6 DEF Produce, driverVars, vars
  <2>7. QED
    BY <2>1, <2>2, <2>3, <2>4, <2>5, <2>6 DEF Next, ThreadStep
<1>3. QED
  BY <1>1, <1>2, PTL DEF Spec

(* Once init_bmi270 has returned 0 the sensor measures as the thread takes *)
(* it to, whichever earlier transfers failed, in this run or before it,    *)
(* and the buffers whose allocation was tested are there.                  *)
THEOREM InitMeasures == Spec => []MeasuresAfterInit
<1>1. SensorInv /\ BuffersInv => MeasuresAfterInit
  BY DEF SensorInv, BuffersInv, MeasuresAfterInit, Sensor, Dequeuing,
         BehindFrames, BehindGyrRange, BehindAccRange, BehindGyrRate, BehindAccRate,
         BehindPower, BehindEndLoad, BehindLoad
<1>2. QED
  BY <1>1, DriverInvariant, BuffersInvariant, PTL

-----------------------------------------------------------------------------
(* Frames whose samples are of some set.                                   *)
Frames(S) == {Skip} \cup [kind : {"gyr", "both"}, sample : S]
Kinds     == {"skip", "gyr", "both"}

LEMMA FrameFacts ==
  ASSUME NEW S, NEW f \in Frames(S)
  PROVE  /\ f.kind \in Kinds
         /\ IsData(f) => f.kind \in {"gyr", "both"} /\ f.sample \in S /\ f = [kind |-> f.kind, sample |-> f.sample]
         /\ ~IsData(f) => f = Skip
         /\ HasAcc(f) => IsData(f)
         /\ Bytes(f) \in Seq(Kinds)
         /\ Len(Bytes(f)) = FrameBytes[f.kind]
         /\ FrameBytes[f.kind] \in 2..13
<1>1. /\ f.kind \in Kinds
      /\ IsData(f) => f.kind \in {"gyr", "both"} /\ f.sample \in S /\ f = [kind |-> f.kind, sample |-> f.sample]
      /\ ~IsData(f) => f = Skip
      /\ HasAcc(f) => IsData(f)
  BY DEF Frames, Skip, Kinds, IsData, HasAcc
<1>2. FrameBytes[f.kind] \in 2..13
  BY <1>1 DEF FrameBytes, Kinds
<1>3. Bytes(f) \in Seq(Kinds) /\ Len(Bytes(f)) = FrameBytes[f.kind]
  BY <1>1, <1>2 DEF Bytes
<1> QED
  BY <1>1, <1>2, <1>3

(* What is taken of each frame, put together.                              *)
ByteRuns(fs) == [k \in DOMAIN fs |-> Bytes(fs[k])]
DataRuns(fs) == [k \in DOMAIN fs |-> IF IsData(fs[k]) THEN <<fs[k]>> ELSE <<>>]
AccRuns(fs)  == [k \in DOMAIN fs |-> IF HasAcc(fs[k]) THEN <<fs[k].sample>> ELSE <<>>]
GyrRuns(fs)  == [k \in DOMAIN fs |-> IF IsData(fs[k]) THEN <<fs[k].sample>> ELSE <<>>]

LEMMA RunTypes ==
  ASSUME NEW S, NEW fs \in Seq(Frames(S))
  PROVE  /\ ByteRuns(fs) \in Seq(Seq(Kinds))
         /\ DataRuns(fs) \in Seq(Seq([kind : {"gyr", "both"}, sample : S]))
         /\ AccRuns(fs) \in Seq(Seq(S))
         /\ GyrRuns(fs) \in Seq(Seq(S))
<1> DEFINE D == [kind : {"gyr", "both"}, sample : S]
<1>1. DOMAIN fs = 1..Len(fs) /\ Len(fs) \in Nat
  OBVIOUS
<1>2. ASSUME NEW k \in 1..Len(fs)
      PROVE  /\ Bytes(fs[k]) \in Seq(Kinds)
             /\ (IF IsData(fs[k]) THEN <<fs[k]>> ELSE <<>>) \in Seq(D)
             /\ (IF HasAcc(fs[k]) THEN <<fs[k].sample>> ELSE <<>>) \in Seq(S)
             /\ (IF IsData(fs[k]) THEN <<fs[k].sample>> ELSE <<>>) \in Seq(S)
  <2>1. fs[k] \in Frames(S)
    OBVIOUS
  <2>2. IsData(fs[k]) => fs[k] \in D
    BY <2>1 DEF Frames, Skip, IsData
  <2> HIDE DEF D
  <2>3. (IF IsData(fs[k]) THEN <<fs[k]>> ELSE <<>>) \in Seq(D)
    BY <2>2
  <2>4. HasAcc(fs[k]) => IsData(fs[k])
    BY DEF HasAcc, IsData
  <2>5. IsData(fs[k]) => fs[k].sample \in S
    BY <2>1, FrameFacts
  <2>6. Bytes(fs[k]) \in Seq(Kinds)
    BY <2>1, FrameFacts
  <2> QED
    BY <2>3, <2>4, <2>5, <2>6
<1> HIDE DEF D
<1>3. ByteRuns(fs) \in Seq(Seq(Kinds))
  BY <1>1, <1>2 DEF ByteRuns
<1>4. DataRuns(fs) \in Seq(Seq(D))
  BY <1>1, <1>2 DEF DataRuns
<1>5. AccRuns(fs) \in Seq(Seq(S))
  BY <1>1, <1>2 DEF AccRuns
<1>6. GyrRuns(fs) \in Seq(Seq(S))
  BY <1>1, <1>2 DEF GyrRuns
<1> QED
  BY <1>3, <1>4, <1>5, <1>6 DEF D

LEMMA SamplesOfFrames ==
  ASSUME NEW S, NEW fs \in Seq(Frames(S))
  PROVE  /\ DataOf(fs) \in Seq([kind : {"gyr", "both"}, sample : S])
         /\ AccOf(fs) \in Seq(S)
         /\ GyrOf(fs) \in Seq(S)
         /\ Size(fs) \in Nat
<1>1. Size(fs) = Len(FlattenSeq(ByteRuns(fs))) /\ DataOf(fs) = FlattenSeq(DataRuns(fs))
      /\ AccOf(fs) = FlattenSeq(AccRuns(fs)) /\ GyrOf(fs) = FlattenSeq(GyrRuns(fs))
  BY Zenon DEF Size, DataOf, AccOf, GyrOf, ByteRuns, DataRuns, AccRuns, GyrRuns
<1>2. FlattenSeq(ByteRuns(fs)) \in Seq(Kinds)
  BY RunTypes, FlattenType
<1>3. DataOf(fs) \in Seq([kind : {"gyr", "both"}, sample : S])
  BY <1>1, RunTypes, FlattenType
<1>4. AccOf(fs) \in Seq(S) /\ GyrOf(fs) \in Seq(S)
  BY <1>1, RunTypes, FlattenType
<1> QED
  BY <1>1, <1>2, <1>3, <1>4

LEMMA SizeConcat ==
  ASSUME NEW S, NEW fs \in Seq(Frames(S)), NEW gs \in Seq(Frames(S))
  PROVE  Size(fs \o gs) = Size(fs) + Size(gs)
<1>1. ByteRuns(fs) \in Seq(Seq(Kinds)) /\ ByteRuns(gs) \in Seq(Seq(Kinds))
  BY RunTypes
<1>2. ByteRuns(fs \o gs) = ByteRuns(fs) \o ByteRuns(gs)
  BY DEF ByteRuns
<1>3. FlattenSeq(ByteRuns(fs)) \in Seq(Kinds) /\ FlattenSeq(ByteRuns(gs)) \in Seq(Kinds)
  BY <1>1, FlattenType
<1>4. FlattenSeq(ByteRuns(fs \o gs)) = FlattenSeq(ByteRuns(fs)) \o FlattenSeq(ByteRuns(gs))
  BY <1>1, <1>2, FlattenConcat
<1>5. \A hs : Size(hs) = Len(FlattenSeq(ByteRuns(hs)))
  BY DEF Size, ByteRuns
<1> QED
  BY <1>3, <1>4, <1>5

LEMMA SizeSmall ==
  ASSUME NEW S, NEW f \in Frames(S)
  PROVE  Size(<<f>>) = FrameBytes[f.kind] /\ Size(<<>>) = 0
<1>1. ByteRuns(<<f>>) = <<Bytes(f)>>
  BY DEF ByteRuns
<1>2. ByteRuns(<<>>) = <<>>
  BY DEF ByteRuns
<1>3. \A hs : Size(hs) = Len(FlattenSeq(ByteRuns(hs)))
  BY DEF Size, ByteRuns
<1>4. Size(<<f>>) = Len(Bytes(f))
  BY <1>1, <1>3, FlattenOne
<1>5. Size(<<>>) = 0
  BY <1>2, <1>3, FlattenEmpty
<1> QED
  BY <1>4, <1>5, FrameFacts

(* The first frames and the others.                                        *)
LEMMA PrefixSizes ==
  ASSUME NEW S, NEW fs \in Seq(Frames(S)), NEW j \in 0..Len(fs), NEW i \in 0..j
  PROVE  /\ SubSeq(fs, 1, i) \in Seq(Frames(S))
         /\ SubSeq(fs, i + 1, j) \in Seq(Frames(S))
         /\ Size(SubSeq(fs, 1, j)) = Size(SubSeq(fs, 1, i)) + Size(SubSeq(fs, i + 1, j))
         /\ Size(SubSeq(fs, 1, i)) \in Nat /\ Size(SubSeq(fs, i + 1, j)) \in Nat
<1>1. SubSeq(fs, 1, i) \in Seq(Frames(S)) /\ SubSeq(fs, i + 1, j) \in Seq(Frames(S))
  OBVIOUS
<1>2. SubSeq(fs, 1, j) = SubSeq(fs, 1, i) \o SubSeq(fs, i + 1, j)
  OBVIOUS
<1> QED
  BY <1>1, <1>2, SizeConcat, SamplesOfFrames

LEMMA OneMore ==
  ASSUME NEW S, NEW fs \in Seq(Frames(S)), NEW i \in 0..(Len(fs) - 1)
  PROVE  Size(SubSeq(fs, 1, i + 1)) = Size(SubSeq(fs, 1, i)) + FrameBytes[fs[i + 1].kind]
<1>1. PICK j \in 1..Len(fs) : j = i + 1 /\ i \in 0..j /\ j \in 0..Len(fs)
  OBVIOUS
<1>2. PICK f \in Frames(S) : f = fs[j]
  OBVIOUS
<1>3. SubSeq(fs, j, j) = <<f>>
  <2>1. SubSeq(fs, j, j) = [x \in 1..1 |-> fs[j]]
    OBVIOUS
  <2>2. <<f>> = [x \in 1..1 |-> fs[j]]
    BY <1>2
  <2> QED
    BY <2>1, <2>2
<1>4. Size(<<f>>) = FrameBytes[f.kind]
  BY SizeSmall
<1>5. Size(SubSeq(fs, 1, j)) = Size(SubSeq(fs, 1, i)) + Size(SubSeq(fs, i + 1, j))
  BY <1>1, PrefixSizes
<1> QED
  BY <1>1, <1>2, <1>3, <1>4, <1>5

(* The frames that a number of bytes holds: there is a last of them.       *)
LEMMA LongestIs ==
  ASSUME NEW S, NEW fs \in Seq(Frames(S)), NEW bytes \in Nat
  PROVE  /\ Longest(fs, bytes) \in 0..Len(fs)
         /\ Size(SubSeq(fs, 1, Longest(fs, bytes))) <= bytes
         /\ \/ Longest(fs, bytes) = Len(fs)
            \/ Size(SubSeq(fs, 1, Longest(fs, bytes) + 1)) > bytes
<1> DEFINE Past(k) == k = Len(fs) \/ Size(SubSeq(fs, 1, k + 1)) > bytes
           T == {k \in 0..Len(fs) : Past(k)}
<1>1. PICK k \in T : \A m \in T : k <= m
  <2>1. Len(fs) \in T /\ T \subseteq Nat
    OBVIOUS
  <2> HIDE DEF T
  <2> QED
    BY <2>1, LeastNat
<1>2. Size(SubSeq(fs, 1, k)) <= bytes
  <2>1. CASE k = 0
    <3>1. SubSeq(fs, 1, 0) = <<>> /\ Skip \in Frames(S)
      BY DEF Frames
    <3>2. Size(<<>>) = 0
      BY <3>1, SizeSmall
    <3>3. Size(SubSeq(fs, 1, 0)) = 0
      BY <3>1, <3>2, Zenon
    <3>4. Size(SubSeq(fs, 1, k)) = 0
      BY <2>1, <3>3, Zenon
    <3> QED
      BY <3>4
  <2>2. CASE k # 0
    <3>1. PICK j \in 0..Len(fs) : k = j + 1
      BY <2>2
    <3>2. j \notin T
      BY <1>1, <3>1
    <3>3. ~ (Size(SubSeq(fs, 1, j + 1)) > bytes)
      BY <3>2
    <3>4. Size(SubSeq(fs, 1, k)) \in Nat
      <4>1. k \in 0..Len(fs) /\ k \in 0..k
        OBVIOUS
      <4> QED
        BY <4>1, PrefixSizes
    <3> QED
      BY <3>1, <3>3, <3>4
  <2> QED
    BY <2>1, <2>2
<1>3. \E m \in 0..Len(fs) : /\ Size(SubSeq(fs, 1, m)) <= bytes
                            /\ m = Len(fs) \/ Size(SubSeq(fs, 1, m + 1)) > bytes
  BY <1>1, <1>2
<1> QED
  BY <1>3, Zenon DEF Longest

(* If the bytes are those of the first frames, it is these.                *)
LEMMA LongestExact ==
  ASSUME NEW S, NEW fs \in Seq(Frames(S)), NEW k \in 0..Len(fs)
  PROVE  Longest(fs, Size(SubSeq(fs, 1, k))) = k
<1>1. PICK bytes \in Nat : bytes = Size(SubSeq(fs, 1, k))
  <2>1. k \in 0..k
    OBVIOUS
  <2> QED
    BY <2>1, PrefixSizes
<1>2. PICK m \in 0..Len(fs) : /\ m = Longest(fs, bytes)
                              /\ Size(SubSeq(fs, 1, m)) <= bytes
                              /\ m = Len(fs) \/ Size(SubSeq(fs, 1, m + 1)) > bytes
  BY LongestIs
<1>3. CASE m < k
  <2>1. PICK j \in 0..k : j = m + 1
    BY <1>3
  <2>2. Size(SubSeq(fs, 1, k)) = Size(SubSeq(fs, 1, j)) + Size(SubSeq(fs, j + 1, k))
        /\ Size(SubSeq(fs, 1, j)) \in Nat /\ Size(SubSeq(fs, j + 1, k)) \in Nat
    BY PrefixSizes
  <2>3. m # Len(fs) /\ Size(SubSeq(fs, 1, j)) > bytes
    BY <1>2, <1>3, <2>1
  <2> QED
    BY <1>1, <2>2, <2>3
<1>4. CASE m > k
  <2>1. PICK j \in 0..m : j = k + 1 /\ k \in 0..(Len(fs) - 1)
    BY <1>4
  <2>2. PICK f \in Frames(S) : f = fs[j]
    BY <2>1
  <2>3. Size(SubSeq(fs, 1, j)) = bytes + FrameBytes[f.kind]
    BY <1>1, <2>1, <2>2, OneMore
  <2>4. FrameBytes[f.kind] \in 2..13
    BY FrameFacts
  <2>5. Size(SubSeq(fs, 1, m)) = Size(SubSeq(fs, 1, j)) + Size(SubSeq(fs, j + 1, m))
        /\ Size(SubSeq(fs, 1, j)) \in Nat /\ Size(SubSeq(fs, j + 1, m)) \in Nat
    BY PrefixSizes
  <2> QED
    <3>1. PICK b \in 2..13 : b = FrameBytes[f.kind]
      BY <2>4
    <3>2. PICK x \in Nat, y \in Nat : /\ x = Size(SubSeq(fs, 1, j))
                                     /\ y = Size(SubSeq(fs, j + 1, m))
      BY <2>5
    <3>3. x = bytes + b /\ Size(SubSeq(fs, 1, m)) = x + y
      BY <2>3, <2>5, <3>1, <3>2
    <3>4. x + y <= bytes
      BY <1>2, <3>3
    <3> QED
      BY <3>3, <3>4
<1> QED
  BY <1>1, <1>2, <1>3, <1>4

(* A full FIFO keeps its newest frames, as many as fit.                    *)
LEMMA AfterDropFits ==
  ASSUME NEW S, NEW fs \in Seq(Frames(S))
  PROVE  AfterDrop(fs) \in Seq(Frames(S)) /\ Size(AfterDrop(fs)) <= Capacity
<1> DEFINE D == [kind : {"gyr", "both"}, sample : S]
<1>1. PICK data \in Seq(D) : data = DataOf(fs)
  BY SamplesOfFrames
<1>2. data \in Seq(Frames(S)) /\ Skip \in Frames(S)
  <2>1. D \subseteq Frames(S) /\ Skip \in Frames(S)
    BY DEF Frames
  <2> HIDE DEF D
  <2> QED
    BY <2>1
<1> DEFINE n == Len(data) + 1
           Fits(k) == Size(SubSeq(data, k, Len(data))) + FrameBytes.skip <= Capacity
           T == {k \in 1..n : Fits(k)}
           From(k) == /\ Size(SubSeq(data, k, Len(data))) + FrameBytes.skip <= Capacity
                      /\ k = 1 \/ Size(SubSeq(data, k - 1, Len(data))) + FrameBytes.skip > Capacity
<1>3. PICK k \in T : \A m \in T : k <= m
  <2>1. SubSeq(data, n, Len(data)) = <<>>
    OBVIOUS
  <2>2. Fits(n)
    <3>1. Size(<<>>) = 0
      BY <1>2, SizeSmall
    <3>2. FrameBytes.skip = 2
      BY DEF FrameBytes
    <3>3. Size(<<>>) + FrameBytes.skip <= Capacity
      BY <3>1, <3>2, BoundsOK
    <3> QED
      BY <2>1, <3>3
  <2>3. n \in T /\ T \subseteq Nat
    BY <2>2
  <2> HIDE DEF T
  <2> QED
    BY <2>3, LeastNat
<1>4. k = 1 \/ Size(SubSeq(data, k - 1, Len(data))) + FrameBytes.skip > Capacity
  <2> SUFFICES ASSUME k # 1
               PROVE  Size(SubSeq(data, k - 1, Len(data))) + FrameBytes.skip > Capacity
    OBVIOUS
  <2>1. k - 1 \in 1..n /\ k - 1 \notin T
    BY <1>3
  <2>2. ~ Fits(k - 1)
    BY <2>1
  <2>3. Size(SubSeq(data, k - 1, Len(data))) \in Nat
    <3>1. SubSeq(data, k - 1, Len(data)) \in Seq(Frames(S))
      BY <1>2, <2>1
    <3> QED
      BY <3>1, SamplesOfFrames
  <2> QED
    BY <2>2, <2>3, BoundsOK DEF FrameBytes
<1>5. PICK from \in 1..n : From(from) /\ AfterDrop(fs) = <<Skip>> \o SubSeq(data, from, Len(data))
  <2>1. \E m \in 1..n : From(m)
    BY <1>3, <1>4
  <2>2. (CHOOSE m \in 1..n : From(m)) \in 1..n /\ From(CHOOSE m \in 1..n : From(m))
    BY <2>1, Zenon
  <2>3. AfterDrop(fs) = <<Skip>> \o SubSeq(data, CHOOSE m \in 1..n : From(m), Len(data))
    BY <1>1, Zenon DEF AfterDrop
  <2> HIDE DEF From
  <2> QED
    BY <2>2, <2>3
<1>6. SubSeq(data, from, Len(data)) \in Seq(Frames(S)) /\ <<Skip>> \in Seq(Frames(S))
  BY <1>2
<1>7. Size(AfterDrop(fs)) = Size(<<Skip>>) + Size(SubSeq(data, from, Len(data)))
  BY <1>5, <1>6, SizeConcat
<1>8. Size(<<Skip>>) = FrameBytes.skip
  BY <1>2, SizeSmall DEF Skip
<1>9. Size(SubSeq(data, from, Len(data))) \in Nat
  BY <1>6, SamplesOfFrames
<1> QED
  BY <1>5, <1>6, <1>7, <1>8, <1>9, BoundsOK DEF FrameBytes

(* The samples the thread should get: measured in the ranges it scales by, *)
(* since the program started.                                              *)
Fresh == {s \in Sample : s.ranged /\ s.current}

(* The FIFO never holds more bytes than it has.                            *)
FitInv == Size(sensor_fifo) <= Capacity

(* In the loop the FIFO holds only those, and without a torn read so do    *)
(* the tables and the thread.                                              *)
FreshInv ==
  /\ pc \in Dequeuing => sensor_fifo \in Seq(Frames(Fresh))
  /\ ~shifted => /\ acc_table \in Seq(Fresh) /\ gyr_table \in Seq(Fresh)
                 /\ acc_data \in Fresh \cup {NoSample}
                 /\ gyr_data \in Fresh \cup {NoSample}

(* Between the two transfers the length read is that of the first frames.  *)
WholeInv ==
  /\ shifted => overrun
  /\ pc = "data" /\ ~overrun =>
       \E k \in 0..Len(sensor_fifo) : Size(SubSeq(sensor_fifo, 1, k)) = fifo_depth

(* The newest sample decoded since the getters were called is the last of  *)
(* its table; a table without one is empty.                                *)
LatestInv ==
  ~shifted /\ ~overflowed =>
    /\ acc_table \in Seq(Sample) /\ gyr_table \in Seq(Sample)
    /\ newest.acc = NewestOf(acc_table, 0) /\ newest.gyr = NewestOf(gyr_table, 0)

-----------------------------------------------------------------------------
(* What single steps do to the FIFO.                                       *)
Made == [n |-> made + 1, ranged |-> sensor.ranges = {"acc", "gyr"}, current |-> TRUE]

LEMMA ProduceFrames ==
  ASSUME NEW S, sensor_fifo \in Seq(Frames(S)), Made \in S, Produce
  PROVE  /\ sensor_fifo' \in Seq(Frames(S))
         /\ Size(sensor_fifo') <= Capacity
         /\ overrun => overrun'
         /\ pc = "data" /\ ~overrun' =>
              \E f \in Frames(S) : sensor_fifo' = Append(sensor_fifo, f)
<1>1. PICK kind \in {"gyr", "both"}, f \in Frames(S), fs \in Seq(Frames(S)) :
         /\ f = [kind |-> kind, sample |-> Made]
         /\ fs = Append(sensor_fifo, f)
         /\ sensor_fifo' = IF Size(fs) <= Capacity THEN fs ELSE AfterDrop(fs)
         /\ overrun' = (overrun \/ (pc = "data" /\ Size(fs) > Capacity))
  <2>1. PICK kind \in {"gyr", "both"} :
           LET fs == Append(sensor_fifo, [kind |-> kind, sample |-> Made])
           IN  /\ sensor_fifo' = IF Size(fs) <= Capacity THEN fs ELSE AfterDrop(fs)
               /\ overrun' = (overrun \/ (pc = "data" /\ Size(fs) > Capacity))
    BY Zenon DEF Produce, Made
  <2>2. [kind |-> kind, sample |-> Made] \in Frames(S)
    BY DEF Frames
  <2>3. Append(sensor_fifo, [kind |-> kind, sample |-> Made]) \in Seq(Frames(S))
    BY <2>2
  <2> QED
    BY <2>1, <2>2, <2>3, Zenon
<1>2. Size(fs) \in Nat
  BY SamplesOfFrames
<1>3. AfterDrop(fs) \in Seq(Frames(S)) /\ Size(AfterDrop(fs)) <= Capacity
  BY AfterDropFits
<1>4. CASE Size(fs) <= Capacity
  <2>1. sensor_fifo' = fs
    BY <1>1, <1>4, Zenon
  <2> QED
    BY <1>1, <1>4, <2>1
<1>5. CASE ~ (Size(fs) <= Capacity)
  <2>1. sensor_fifo' = AfterDrop(fs)
    BY <1>1, <1>5, Zenon
  <2>2. Size(fs) > Capacity
    BY <1>2, <1>5, BoundsOK
  <2> QED
    BY <1>1, <1>3, <2>1, <2>2
<1> QED
  BY <1>4, <1>5

(* A reset of the board changes what the frames stand for, not their size. *)
LEMMA AgedFrames ==
  ASSUME NEW fs \in Seq(Frames(Sample)), NEW gs, gs = [k \in DOMAIN fs |-> Aged(fs[k])]
  PROVE  gs \in Seq(Frames(Sample)) /\ Size(gs) = Size(fs)
<1>1. ASSUME NEW f \in Frames(Sample)
      PROVE  Aged(f) \in Frames(Sample) /\ Aged(f).kind = f.kind
  <2>1. CASE IsData(f)
    <3>1. f \in [kind : {"gyr", "both"}, sample : Sample]
      BY <2>1 DEF Frames, Skip, IsData
    <3>2. PICK s \in Sample : s = [f.sample EXCEPT !.current = FALSE]
      <4>1. f.sample \in Sample
        BY <3>1
      <4> QED
        BY <4>1 DEF Sample
    <3>3. [f EXCEPT !.sample.current = FALSE] = [f EXCEPT !.sample = s]
      BY <3>2, Zenon
    <3>4. /\ [f EXCEPT !.sample = s] \in [kind : {"gyr", "both"}, sample : Sample]
          /\ [f EXCEPT !.sample = s].kind = f.kind
      BY <3>1
    <3>5. Aged(f) = [f EXCEPT !.sample = s]
      BY <2>1, <3>3, Zenon DEF Aged
    <3> QED
      BY <3>4, <3>5 DEF Frames
  <2>2. CASE ~IsData(f)
    BY <2>2 DEF Aged
  <2> QED
    BY <2>1, <2>2
<1>2. DOMAIN fs = 1..Len(fs) /\ Len(fs) \in Nat
  OBVIOUS
<1>3. gs \in Seq(Frames(Sample)) /\ Len(gs) = Len(fs)
  BY <1>1, <1>2
<1>4. ByteRuns(gs) = ByteRuns(fs)
  <2>1. \A k \in 1..Len(fs) : gs[k].kind = fs[k].kind
    BY <1>1, <1>2
  <2>2. \A k \in 1..Len(fs) : Bytes(gs[k]) = Bytes(fs[k])
    BY <2>1 DEF Bytes
  <2>3. DOMAIN gs = 1..Len(fs)
    BY <1>2
  <2> QED
    BY <1>2, <2>2, <2>3, Zenon DEF ByteRuns
<1> QED
  BY <1>3, <1>4, Zenon DEF Size, ByteRuns

(* The rest of the FIFO after its first frames were read.                  *)
LEMMA RestFits ==
  ASSUME NEW S, NEW fs \in Seq(Frames(S)), NEW k \in 0..Len(fs)
  PROVE  /\ SubSeq(fs, k + 1, Len(fs)) \in Seq(Frames(S))
         /\ Size(SubSeq(fs, k + 1, Len(fs))) <= Size(fs)
<1>1. PICK n \in 0..Len(fs) : n = Len(fs) /\ k \in 0..n /\ SubSeq(fs, 1, n) = fs
  OBVIOUS
<1>2. /\ SubSeq(fs, k + 1, n) \in Seq(Frames(S))
      /\ Size(SubSeq(fs, 1, n)) = Size(SubSeq(fs, 1, k)) + Size(SubSeq(fs, k + 1, n))
      /\ Size(SubSeq(fs, 1, k)) \in Nat /\ Size(SubSeq(fs, k + 1, n)) \in Nat
  BY <1>1, PrefixSizes
<1>3. Size(SubSeq(fs, k + 1, n)) <= Size(SubSeq(fs, 1, n))
  BY <1>2
<1> QED
  BY <1>1, <1>2, <1>3

(* The decoder's two tables, whatever it reads of them is of.              *)
LEMMA DecodedTables ==
  ASSUME NEW S, NEW R, S \subseteq R,
         acc_table \in Seq(R), gyr_table \in Seq(R),
         NEW fs \in Seq(Frames(S)), NEW accs \in Seq(R), NEW gyrs \in Seq(R),
         Decoded(fs, accs, gyrs)
  PROVE  /\ acc_table' \in Seq(R) /\ Len(acc_table') <= TableLength
         /\ gyr_table' \in Seq(R) /\ Len(gyr_table') <= TableLength
         /\ overflowed' \in BOOLEAN /\ overrun' = overrun
<1>1. PICK a \in Seq(R), g \in Seq(R) : a = AccOf(fs) \o accs /\ g = GyrOf(fs) \o gyrs
  <2>1. PICK a \in Seq(S), g \in Seq(S) : a = AccOf(fs) /\ g = GyrOf(fs)
    BY SamplesOfFrames
  <2>2. a \in Seq(R) /\ g \in Seq(R)
    OBVIOUS
  <2>3. a \o accs \in Seq(R) /\ g \o gyrs \in Seq(R)
    BY <2>2
  <2> QED
    BY <2>1, <2>3, Zenon
<1>2. /\ acc_table' = Kept(acc_table, a) /\ gyr_table' = Kept(gyr_table, g)
      /\ overflowed' \in BOOLEAN /\ overrun' = overrun
  BY <1>1, Zenon DEF Decoded
<1> QED
  BY <1>2, KeptType

LEMMA DecodedNewest ==
  ASSUME newest \in [acc : 0..MaxSamples, gyr : 0..MaxSamples],
         NEW fs \in Seq(Frames(Sample)), NEW accs, NEW gyrs, Decoded(fs, accs, gyrs)
  PROVE  newest' \in [acc : 0..MaxSamples, gyr : 0..MaxSamples]
<1>1. ASSUME NEW s \in Seq(Sample), NEW n \in 0..MaxSamples
      PROVE  NewestOf(s, n) \in 0..MaxSamples
  <2>1. CASE s = <<>>
    BY <2>1 DEF NewestOf
  <2>2. CASE s # <<>>
    <3>1. s[Len(s)] \in Sample
      BY <2>2
    <3>2. s[Len(s)].n \in 1..MaxSamples
      BY <3>1 DEF Sample
    <3> QED
      BY <2>2, <3>2 DEF NewestOf
  <2> QED
    BY <2>1, <2>2
<1>2. newest.acc \in 0..MaxSamples /\ newest.gyr \in 0..MaxSamples
  OBVIOUS
<1>3. AccOf(fs) \in Seq(Sample) /\ GyrOf(fs) \in Seq(Sample)
  BY SamplesOfFrames
<1>4. newest' = [acc |-> NewestOf(AccOf(fs), newest.acc), gyr |-> NewestOf(GyrOf(fs), newest.gyr)]
  BY DEF Decoded
<1> QED
  BY <1>1, <1>2, <1>3, <1>4

(* What is read in one dequeue: the first frames of the FIFO, and perhaps  *)
(* torn samples, after which it is known to be out of step.                *)
LEMMA DataReads ==
  ASSUME NEW S, sensor_fifo \in Seq(Frames(S)), fifo_depth \in Nat,
         DataWhole \/ DataCut \/ DataBeyond
  PROVE  \E k \in 0..Len(sensor_fifo), accs \in Seq(S \cup {TornSample}), gyrs \in Seq(S \cup {TornSample}) :
           /\ k = Whole
           /\ Decoded(SubSeq(sensor_fifo, 1, k), accs, gyrs)
           /\ sensor_fifo' = SubSeq(sensor_fifo, k + 1, Len(sensor_fifo))
           /\ pc' \in {"fetch", "spinning"}
           /\ \/ accs = <<>> /\ gyrs = <<>> /\ shifted' = shifted /\ pc' = "fetch"
              \/ shifted' = TRUE /\ Excess > 0
<1>1. PICK k \in 0..Len(sensor_fifo) : k = Whole
  BY LongestIs DEF Whole
<1> DEFINE R == S \cup {TornSample}
           Comes(accs, gyrs) ==
             /\ k = Whole
             /\ Decoded(SubSeq(sensor_fifo, 1, k), accs, gyrs)
             /\ sensor_fifo' = SubSeq(sensor_fifo, k + 1, Len(sensor_fifo))
             /\ pc' \in {"fetch", "spinning"}
             /\ \/ accs = <<>> /\ gyrs = <<>> /\ shifted' = shifted /\ pc' = "fetch"
                \/ shifted' = TRUE /\ Excess > 0
<1>2. TornSample \in R /\ S \subseteq R
  OBVIOUS
<1> HIDE DEF R
<1>3. <<>> \in Seq(R) /\ <<TornSample>> \in Seq(R)
  BY <1>2
<1>4. CASE DataWhole
  <2>1. Comes(<<>>, <<>>)
    BY <1>1, <1>4, Zenon DEF DataWhole
  <2> QED
    BY <1>3, <2>1, Zenon DEF R
<1>5. CASE DataCut
  <2>1. PICK m \in 1..Len(sensor_fifo) : m = k + 1
    BY <1>1, <1>5 DEF DataCut
  <2>2. PICK f \in Frames(S) : f = sensor_fifo[m]
    OBVIOUS
  <2>3. PICK accs \in Seq(R) : accs = IF HasAcc(f) THEN <<TornSample>> ELSE <<>>
    BY <1>3, Zenon
  <2>4. IsData(f) => f.sample \in R
    BY <1>2, FrameFacts
  <2>5. PICK gyr : /\ gyr = IF Excess >= FrameBytes.gyr THEN f.sample ELSE TornSample
                   /\ Decoded(SubSeq(sensor_fifo, 1, k), accs, <<gyr>>)
    BY <1>1, <1>5, <2>1, <2>2, <2>3, Zenon DEF DataCut
  <2>6. Excess >= FrameBytes.gyr => HasAcc(f)
    <3>1. PICK i \in 0..(Len(sensor_fifo) - 1) : i = k
      BY <2>1
    <3>2. PICK b \in 2..13 : b = FrameBytes[f.kind]
      BY FrameFacts
    <3>3. Size(SubSeq(sensor_fifo, 1, m)) = Size(SubSeq(sensor_fifo, 1, k)) + b
      BY <2>1, <2>2, <3>1, <3>2, OneMore
    <3>4. PICK x \in Nat : x = Size(SubSeq(sensor_fifo, 1, k))
      <4>1. k \in 0..k
        OBVIOUS
      <4> QED
        BY <4>1, PrefixSizes
    <3>5. Size(SubSeq(sensor_fifo, 1, m)) > fifo_depth
      BY <1>1, <2>1, <3>1, LongestIs DEF Whole
    <3>6. Excess = fifo_depth - x
      BY <1>1, <3>4, Zenon DEF Excess
    <3>7. Excess < b
      BY <3>3, <3>4, <3>5, <3>6
    <3>8. Excess >= FrameBytes.gyr => b > FrameBytes.gyr
      BY <3>4, <3>6, <3>7 DEF FrameBytes
    <3>9. b > FrameBytes.gyr => f.kind = "both"
      BY <3>2, FrameFacts DEF Kinds, FrameBytes
    <3> QED
      BY <3>8, <3>9 DEF HasAcc
  <2>7. gyr \in R
    BY <1>2, <2>4, <2>5, <2>6, FrameFacts
  <2>8. <<gyr>> \in Seq(R)
    BY <2>7
  <2>9. Comes(accs, <<gyr>>)
    <3>1. /\ sensor_fifo' = SubSeq(sensor_fifo, Whole + 1, Len(sensor_fifo))
          /\ pc' = "fetch" /\ shifted' = TRUE /\ Excess > 0
      BY <1>5 DEF DataCut
    <3> QED
      BY <1>1, <2>5, <3>1, Zenon
  <2> QED
    BY <2>3, <2>8, <2>9, Zenon DEF R
<1>6. CASE DataBeyond
  <2>1. PICK accs \in Seq(R), gyrs \in Seq(R) : Decoded(sensor_fifo, accs, gyrs)
    BY <1>3, <1>6, Zenon DEF DataBeyond
  <2>2. Whole = Len(sensor_fifo) /\ Excess > 0 /\ sensor_fifo' = <<>> /\ shifted' = TRUE /\ pc' \in {"fetch", "spinning"}
    BY <1>6 DEF DataBeyond
  <2>3. SubSeq(sensor_fifo, 1, k) = sensor_fifo /\ SubSeq(sensor_fifo, k + 1, Len(sensor_fifo)) = <<>>
    BY <1>1, <2>2
  <2>4. Comes(accs, gyrs)
    BY <1>1, <2>1, <2>2, <2>3, Zenon
  <2> QED
    BY <2>4, Zenon DEF R
<1> QED
  BY <1>4, <1>5, <1>6

-----------------------------------------------------------------------------
(* Type correctness, with the bytes in the FIFO bounded.                   *)
TypeInv == TypeOK /\ FitInv

LEMMA SensorInvStep == SensorInv /\ [Next]_vars => SensorInv'
BY WriteKeepsSensorInv, ReadKeepsSensorInv, LoopKeepsSensorInv, OthersKeepSensorInv
   DEF Next, ThreadStep

LEMMA FramesAre == Frames(Sample) = {Skip} \cup DataFrame
BY DEF Frames, DataFrame

LEMMA ReadIs == NoSample \in Read /\ TornSample \in Read /\ Sample \subseteq Read
BY DEF Read

LEMMA InitTypeInv == Init => TypeInv
<1> SUFFICES ASSUME Init PROVE TypeInv
  OBVIOUS
<1>1. sensor \in Sensor /\ pc \in Locations
  BY InitSensorInv DEF SensorInv
<1>2. Size(sensor_fifo) = 0
  <2>1. Skip \in Frames(Sample) /\ sensor_fifo = <<>>
    BY DEF Frames, Init
  <2>2. Size(<<>>) = 0
    BY <2>1, SizeSmall
  <2> QED
    BY <2>1, <2>2
<1>3. <<>> \in Seq(Read) /\ <<>> \in Seq({Skip} \cup DataFrame) /\ Len(<<>>) = 0
  OBVIOUS
<1>4. newest \in [acc : 0..MaxSamples, gyr : 0..MaxSamples]
  BY BoundsOK DEF Init
<1>5. /\ 0 \in 0..MaxSamples /\ 0 \in 0..MaxFaults /\ 0 \in 0..MaxResets /\ 0 \in 0..Capacity
      /\ 0 <= TableLength /\ 0 <= Capacity
  BY BoundsOK, TableLengthOK
<1>6. {} \in SUBSET {"fifo", "acc_table", "gyr_table"}
  OBVIOUS
<1> QED
  BY <1>1, <1>2, <1>3, <1>4, <1>5, <1>6, ReadIs DEF Init, TypeInv, TypeOK, FitInv, Locations

(* The reads and writes of init_bmi270; a write may empty the FIFO.        *)
LEMMA InitStepsKeepTypeInv ==
  TypeInv /\ SensorInv' /\ (Allocate \/ WriteRegister \/ ReadRegister) => TypeInv'
<1> SUFFICES ASSUME TypeInv, SensorInv', Allocate \/ WriteRegister \/ ReadRegister
             PROVE  TypeInv'
  OBVIOUS
<1>1. pc' \in Locations /\ sensor' \in Sensor
  BY DEF SensorInv
<1>2. sensor_fifo' \in Seq({Skip} \cup DataFrame) /\ Size(sensor_fifo') <= Capacity
  <2>1. sensor_fifo' = sensor_fifo \/ sensor_fifo' = <<>>
    BY DEF Allocate, ReadRegister, WriteRegister, Obeyed, sensorVars
  <2>2. <<>> \in Seq({Skip} \cup DataFrame)
    OBVIOUS
  <2>3. Size(<<>>) = 0
    <3>1. Skip \in Frames(Sample)
      BY DEF Frames
    <3> QED
      BY <3>1, SizeSmall
  <2>4. Size(<<>>) <= Capacity
    BY <2>3, BoundsOK
  <2> QED
    BY <2>1, <2>2, <2>4 DEF TypeInv, TypeOK, FitInv
<1>3. faults' \in 0..MaxFaults
  BY BoundsOK DEF TypeInv, TypeOK, Allocate, ReadRegister, WriteRegister, Fault
<1>4. allocated' \in SUBSET {"fifo", "acc_table", "gyr_table"}
  BY DEF TypeInv, TypeOK, Allocate, ReadRegister, WriteRegister
<1>5. UNCHANGED <<acc_table, gyr_table, fifo_depth, acc_data, gyr_data, made, resets, historyVars>>
  BY DEF Allocate, ReadRegister, WriteRegister, sensorVars
<1> QED
  BY <1>1, <1>2, <1>3, <1>4, <1>5 DEF TypeInv, TypeOK, FitInv, Locations, historyVars

(* The steps of a dequeue but the transfer of the data.                    *)
LEMMA LoopStepsKeepTypeInv ==
  TypeInv /\ SensorInv' /\ (Length \/ Fetch \/ PushEntry \/ StackFull \/ Finalize) => TypeInv'
<1> SUFFICES ASSUME TypeInv, SensorInv', Length \/ Fetch \/ PushEntry \/ StackFull \/ Finalize
             PROVE  TypeInv'
  OBVIOUS
<1>1. pc' \in Locations /\ sensor' \in Sensor
  BY DEF SensorInv
<1>2. UNCHANGED <<sensorVars, resets, shifted, overrun>>
  BY DEF Length, Fetch, PushEntry, StackFull, Finalize, historyVars
<1>3. fifo_depth' \in 0..Capacity /\ faults' \in 0..MaxFaults
  <2>1. Size(sensor_fifo) \in Nat
    BY FramesAre, SamplesOfFrames DEF TypeInv, TypeOK
  <2>2. Size(sensor_fifo) \in 0..Capacity
    BY <2>1, BoundsOK DEF TypeInv, FitInv
  <2> QED
    BY <2>2, BoundsOK DEF TypeInv, TypeOK, Length, Fetch, PushEntry, StackFull, Finalize, Fault
<1>4. /\ acc_table' \in Seq(Read) /\ Len(acc_table') <= TableLength
      /\ gyr_table' \in Seq(Read) /\ Len(gyr_table') <= TableLength
  <2>1. /\ acc_table' = acc_table \/ acc_table' = <<>>
        /\ gyr_table' = gyr_table \/ gyr_table' = <<>>
    BY DEF Length, Fetch, PushEntry, StackFull, Finalize
  <2>2. <<>> \in Seq(Read) /\ Len(<<>>) <= TableLength
    BY TableLengthOK
  <2> QED
    BY <2>1, <2>2 DEF TypeInv, TypeOK
<1>5. acc_data' \in Read /\ gyr_data' \in Read
  <2>1. ASSUME NEW table \in Seq(Read), NEW old \in Read
        PROVE  GetLatest(table, old) \in Read
    BY DEF GetLatest
  <2>2. \/ acc_data' = acc_data /\ gyr_data' = gyr_data
        \/ acc_data' = GetLatest(acc_table, acc_data) /\ gyr_data' = GetLatest(gyr_table, gyr_data)
    BY DEF Length, Fetch, PushEntry, StackFull, Finalize
  <2> QED
    BY <2>1, <2>2 DEF TypeInv, TypeOK
<1>6. allocated' \in SUBSET {"fifo", "acc_table", "gyr_table"}
  BY DEF TypeInv, TypeOK, Length, Fetch, PushEntry, StackFull, Finalize
<1>7. newest' \in [acc : 0..MaxSamples, gyr : 0..MaxSamples] /\ overflowed' \in BOOLEAN
  <2>1. 0 \in 0..MaxSamples
    BY BoundsOK
  <2>2. \/ UNCHANGED <<newest, overflowed>>
        \/ newest' = [acc |-> 0, gyr |-> 0] /\ overflowed' = FALSE
    BY DEF Length, Fetch, PushEntry, StackFull, Finalize, historyVars
  <2>3. newest' \in [acc : 0..MaxSamples, gyr : 0..MaxSamples]
    BY <2>1, <2>2 DEF TypeInv, TypeOK
  <2>4. overflowed \in BOOLEAN
    BY DEF TypeInv, TypeOK
  <2>5. overflowed' \in BOOLEAN
    BY <2>2, <2>4, Zenon
  <2> QED
    BY <2>3, <2>5
<1> QED
  BY <1>1, <1>2, <1>3, <1>4, <1>5, <1>6, <1>7 DEF TypeInv, TypeOK, FitInv, Locations, sensorVars

(* The transfer of the data.                                               *)
LEMMA DataKeepsTypeInv == TypeInv /\ SensorInv' /\ Data => TypeInv'
<1> SUFFICES ASSUME TypeInv, SensorInv', Data PROVE TypeInv'
  OBVIOUS
<1>1. pc' \in Locations /\ sensor' \in Sensor
  BY DEF SensorInv
<1>2. UNCHANGED <<allocated, fifo_depth, acc_data, gyr_data, sensor, made, resets>>
  BY DEF Data
<1>3. CASE DataWhole \/ DataCut \/ DataBeyond
  <2>1. sensor_fifo \in Seq(Frames(Sample)) /\ fifo_depth \in Nat
    BY FramesAre, BoundsOK DEF TypeInv, TypeOK
  <2>2. PICK k \in 0..Len(sensor_fifo), accs \in Seq(Sample \cup {TornSample}),
             gyrs \in Seq(Sample \cup {TornSample}) :
           /\ Decoded(SubSeq(sensor_fifo, 1, k), accs, gyrs)
           /\ sensor_fifo' = SubSeq(sensor_fifo, k + 1, Len(sensor_fifo))
           /\ shifted' = shifted \/ shifted' = TRUE
    BY <1>3, <2>1, DataReads
  <2>3. PICK fs \in Seq(Frames(Sample)) : fs = SubSeq(sensor_fifo, 1, k)
    <3>1. SubSeq(sensor_fifo, 1, k) \in Seq(Frames(Sample))
      BY <2>1
    <3> QED
      BY <3>1
  <2>4. accs \in Seq(Read) /\ gyrs \in Seq(Read)
    <3>1. Sample \cup {TornSample} \subseteq Read
      BY ReadIs
    <3> QED
      BY <3>1
  <2>5. acc_table \in Seq(Read) /\ gyr_table \in Seq(Read)
    BY DEF TypeInv, TypeOK
  <2>6. /\ acc_table' \in Seq(Read) /\ Len(acc_table') <= TableLength
        /\ gyr_table' \in Seq(Read) /\ Len(gyr_table') <= TableLength
        /\ overflowed' \in BOOLEAN /\ overrun' = overrun
    BY <2>2, <2>3, <2>4, <2>5, ReadIs, DecodedTables
  <2>7. newest' \in [acc : 0..MaxSamples, gyr : 0..MaxSamples]
    BY <2>2, <2>3, DecodedNewest DEF TypeInv, TypeOK
  <2>8. sensor_fifo' \in Seq({Skip} \cup DataFrame) /\ Size(sensor_fifo') <= Capacity
    <3>1. PICK x \in Nat, y \in Nat :
             /\ x = Size(sensor_fifo)
             /\ y = Size(SubSeq(sensor_fifo, k + 1, Len(sensor_fifo)))
      <4>1. SubSeq(sensor_fifo, k + 1, Len(sensor_fifo)) \in Seq(Frames(Sample))
        BY <2>1, RestFits
      <4> QED
        BY <2>1, <4>1, SamplesOfFrames
    <3>2. y <= x /\ x <= Capacity
      BY <2>1, <3>1, RestFits DEF TypeInv, FitInv
    <3>3. SubSeq(sensor_fifo, k + 1, Len(sensor_fifo)) \in Seq({Skip} \cup DataFrame)
      BY <2>1, RestFits, FramesAre
    <3> QED
      BY <2>2, <3>1, <3>2, <3>3, BoundsOK
  <2>9. faults' = faults
    BY <1>3 DEF Data, DataWhole, DataCut, DataBeyond
  <2> QED
    BY <1>1, <1>2, <2>2, <2>6, <2>7, <2>8, <2>9 DEF TypeInv, TypeOK, FitInv, Locations
<1>4. CASE /\ pc' = "error" /\ Fault
           /\ UNCHANGED <<acc_table, gyr_table, sensor_fifo, historyVars>>
  BY <1>1, <1>2, <1>4, BoundsOK DEF TypeInv, TypeOK, FitInv, Locations, historyVars, Fault
<1> QED
  BY <1>3, <1>4 DEF Data

(* The sensor measures, the board is reset, nothing happens.               *)
LEMMA ProduceKeepsTypeInv == TypeInv /\ SensorInv' /\ Produce => TypeInv'
<1> SUFFICES ASSUME TypeInv, SensorInv', Produce PROVE TypeInv'
  OBVIOUS
<1>1. pc' \in Locations /\ sensor' \in Sensor
  BY DEF SensorInv
<1>2. Made \in Sample /\ made' \in 0..MaxSamples
  BY BoundsOK DEF TypeInv, TypeOK, Produce, Made, Sample
<1>3. sensor_fifo \in Seq(Frames(Sample))
  BY FramesAre DEF TypeInv, TypeOK
<1>4. sensor_fifo' \in Seq({Skip} \cup DataFrame) /\ Size(sensor_fifo') <= Capacity
  BY <1>2, <1>3, ProduceFrames, FramesAre
<1>5. overrun' \in BOOLEAN
  BY DEF Produce, TypeInv, TypeOK
<1>6. UNCHANGED <<driverVars, faults, resets, newest, shifted, overflowed>>
  BY DEF Produce
<1> QED
  BY <1>1, <1>2, <1>4, <1>5, <1>6 DEF TypeInv, TypeOK, FitInv, Locations, driverVars

LEMMA ResetKeepsTypeInv == TypeInv /\ SensorInv' /\ BoardReset => TypeInv'
<1> SUFFICES ASSUME TypeInv, SensorInv', BoardReset PROVE TypeInv'
  OBVIOUS
<1>1. pc' \in Locations /\ sensor' \in Sensor
  BY DEF SensorInv
<1>2. sensor_fifo' \in Seq({Skip} \cup DataFrame) /\ Size(sensor_fifo') <= Capacity
  <2>1. sensor_fifo \in Seq(Frames(Sample))
    BY FramesAre DEF TypeInv, TypeOK
  <2>2. sensor_fifo' = [k \in DOMAIN sensor_fifo |-> Aged(sensor_fifo[k])]
    BY DEF BoardReset
  <2>3. sensor_fifo' \in Seq(Frames(Sample)) /\ Size(sensor_fifo') = Size(sensor_fifo)
    BY <2>1, <2>2, AgedFrames
  <2> QED
    BY <2>3, FramesAre DEF TypeInv, FitInv
<1>3. <<>> \in Seq(Read) /\ Len(<<>>) <= TableLength
  BY TableLengthOK
<1>4. newest' \in [acc : 0..MaxSamples, gyr : 0..MaxSamples]
  BY BoundsOK DEF BoardReset
<1>5. 0 \in 0..Capacity /\ resets' \in 0..MaxResets
  BY BoundsOK DEF BoardReset, TypeInv, TypeOK
<1>6. {} \in SUBSET {"fifo", "acc_table", "gyr_table"}
  OBVIOUS
<1> QED
  BY <1>1, <1>2, <1>3, <1>4, <1>5, <1>6, ReadIs DEF BoardReset, TypeInv, TypeOK, FitInv, Locations

LEMMA StutterKeepsTypeInv == TypeInv /\ UNCHANGED vars => TypeInv'
BY DEF vars, driverVars, sensorVars, historyVars, TypeInv, TypeOK, FitInv

(* The invariants that say what the sensor was told and what is where.     *)
LEMMA DriverTypes == Spec => [](SensorInv /\ TypeInv)
<1>1. Init => SensorInv /\ TypeInv
  BY InitSensorInv, InitTypeInv
<1>2. SensorInv /\ TypeInv /\ [Next]_vars => (SensorInv /\ TypeInv)'
  <2>1. SensorInv /\ [Next]_vars => SensorInv'
    BY SensorInvStep
  <2>2. TypeInv /\ SensorInv' /\ [Next]_vars => TypeInv'
    BY InitStepsKeepTypeInv, LoopStepsKeepTypeInv, DataKeepsTypeInv, ProduceKeepsTypeInv,
       ResetKeepsTypeInv, StutterKeepsTypeInv DEF Next, ThreadStep
  <2> QED
    BY <2>1, <2>2
<1> QED
  BY <1>1, <1>2, PTL DEF Spec

(* Every variable has its type in every state: no table outgrows the store *)
(* length, and no length read exceeds the sensor's FIFO.                   *)
THEOREM DriverTypeCorrect == Spec => []TypeOK
<1>1. SensorInv /\ TypeInv => TypeOK
  BY DEF TypeInv
<1> QED
  BY <1>1, DriverTypes, PTL

-----------------------------------------------------------------------------
(* What comes to the thread is fresh: the initialisation ends by emptying  *)
(* the FIFO, and behind that the ranges stay set.                          *)
(* The loop begins with an empty FIFO.                                     *)
LEMMA EntersEmpty ==
  ASSUME Allocate \/ WriteRegister \/ ReadRegister, pc' \in Dequeuing
  PROVE  sensor_fifo' = <<>>
<1>1. ~ Allocate
  BY DEF Allocate, Dequeuing
<1>2. ~ ReadRegister
  <2>1. ASSUME ReadRegister PROVE FALSE
    <3>1. pc \in {"chip_id", "status"} /\ (pc' = "error" \/ pc' = After[pc])
      BY <2>1 DEF ReadRegister, Reads
    <3>2. pc' \in {"error", "soft_reset", "power"}
      BY <3>1 DEF After
    <3> QED
      BY <3>2 DEF Dequeuing
  <2> QED
    BY <2>1
<1>3. WriteRegister
  BY <1>1, <1>2
<1>4. pc \in Writes /\ ((Obeyed(pc) /\ pc' = After[pc]) \/ (pc = "soft_reset" /\ pc' = After[pc]) \/ pc' = "error")
  BY <1>3 DEF WriteRegister, Tolerated
<1>5. pc' # "error"
  BY DEF Dequeuing
<1>6. pc' = After[pc]
  BY <1>4, <1>5
<1>7. pc = "fifo_flush"
  BY <1>4, <1>6, WritesAre DEF After, Dequeuing
<1>8. Obeyed(pc)
  BY <1>4, <1>5, <1>7
<1> QED
  BY <1>7, <1>8 DEF Obeyed, Flushes

LEMMA InitStepsKeepFreshInv ==
  FreshInv /\ (Allocate \/ WriteRegister \/ ReadRegister) => FreshInv'
<1> SUFFICES ASSUME FreshInv, Allocate \/ WriteRegister \/ ReadRegister PROVE FreshInv'
  OBVIOUS
<1>1. UNCHANGED <<acc_table, gyr_table, acc_data, gyr_data, shifted>>
  BY DEF Allocate, WriteRegister, ReadRegister, historyVars
<1>2. pc' \in Dequeuing => sensor_fifo' \in Seq(Frames(Fresh))
  <2>1. <<>> \in Seq(Frames(Fresh))
    OBVIOUS
  <2> QED
    BY <2>1, EntersEmpty
<1> QED
  BY <1>1, <1>2 DEF FreshInv

LEMMA LoopStepsKeepFreshInv ==
  FreshInv /\ (Length \/ Fetch \/ PushEntry \/ StackFull \/ Finalize) => FreshInv'
<1> SUFFICES ASSUME FreshInv, Length \/ Fetch \/ PushEntry \/ StackFull \/ Finalize
             PROVE  FreshInv'
  OBVIOUS
<1>1. /\ pc' \in Dequeuing => pc \in Dequeuing
      /\ sensor_fifo' = sensor_fifo /\ shifted' = shifted
  BY DEF Length, Fetch, PushEntry, StackFull, Finalize, Dequeuing, sensorVars, historyVars
<1>2. \/ UNCHANGED <<acc_table, gyr_table, acc_data, gyr_data>>
      \/ /\ acc_table' = <<>> /\ gyr_table' = <<>>
         /\ acc_data' = GetLatest(acc_table, acc_data)
         /\ gyr_data' = GetLatest(gyr_table, gyr_data)
  BY DEF Length, Fetch, PushEntry, StackFull, Finalize
<1>3. <<>> \in Seq(Fresh)
  OBVIOUS
<1>4. ASSUME NEW table \in Seq(Fresh), NEW old \in Fresh \cup {NoSample}
      PROVE  GetLatest(table, old) \in Fresh \cup {NoSample}
  <2>1. table # <<>> => table[Len(table)] \in Fresh
    OBVIOUS
  <2> QED
    BY <2>1, Zenon DEF GetLatest
<1> QED
  BY <1>1, <1>2, <1>3, <1>4 DEF FreshInv

LEMMA DataKeepsFreshInv == TypeInv /\ FreshInv /\ Data => FreshInv'
<1> SUFFICES ASSUME TypeInv, FreshInv, Data PROVE FreshInv'
  OBVIOUS
<1>1. pc = "data" /\ UNCHANGED <<acc_data, gyr_data>>
  BY DEF Data
<1>2. CASE DataWhole \/ DataCut \/ DataBeyond
  <2>1. sensor_fifo \in Seq(Frames(Fresh)) /\ fifo_depth \in Nat
    BY <1>1, BoundsOK DEF FreshInv, Dequeuing, TypeInv, TypeOK
  <2>2. PICK k \in 0..Len(sensor_fifo), accs \in Seq(Fresh \cup {TornSample}),
             gyrs \in Seq(Fresh \cup {TornSample}) :
           /\ Decoded(SubSeq(sensor_fifo, 1, k), accs, gyrs)
           /\ sensor_fifo' = SubSeq(sensor_fifo, k + 1, Len(sensor_fifo))
           /\ \/ accs = <<>> /\ gyrs = <<>> /\ shifted' = shifted
              \/ shifted' = TRUE
    BY <1>2, <2>1, DataReads
  <2>3. sensor_fifo' \in Seq(Frames(Fresh))
    BY <2>1, <2>2, RestFits
  <2>4. ~shifted' => acc_table' \in Seq(Fresh) /\ gyr_table' \in Seq(Fresh)
    <3> SUFFICES ASSUME ~shifted' PROVE acc_table' \in Seq(Fresh) /\ gyr_table' \in Seq(Fresh)
      OBVIOUS
    <3>1. PICK fs \in Seq(Frames(Fresh)) : fs = SubSeq(sensor_fifo, 1, k)
      <4>1. SubSeq(sensor_fifo, 1, k) \in Seq(Frames(Fresh))
        BY <2>1
      <4> QED
        BY <4>1
    <3>2. accs \in Seq(Fresh) /\ gyrs \in Seq(Fresh) /\ ~shifted
      <4>1. <<>> \in Seq(Fresh)
        OBVIOUS
      <4>2. shifted' # TRUE
        OBVIOUS
      <4>3. accs = <<>> /\ gyrs = <<>> /\ shifted' = shifted
        BY <2>2, <4>2
      <4>4. ~shifted
        BY <4>3
      <4> QED
        BY <4>1, <4>3, <4>4, Zenon
    <3>3. acc_table \in Seq(Fresh) /\ gyr_table \in Seq(Fresh)
      BY <3>2 DEF FreshInv
    <3> QED
      BY <2>2, <3>1, <3>2, <3>3, DecodedTables
  <2>5. ~shifted' => ~shifted
    BY <2>2
  <2> QED
    BY <1>1, <2>3, <2>4, <2>5 DEF FreshInv
<1>3. CASE /\ pc' = "error"
           /\ UNCHANGED <<acc_table, gyr_table, sensor_fifo, historyVars>>
  BY <1>1, <1>3 DEF FreshInv, historyVars, Dequeuing
<1> QED
  BY <1>2, <1>3 DEF Data

LEMMA OthersKeepFreshInv ==
  TypeInv /\ SensorInv /\ FreshInv /\ (Produce \/ BoardReset \/ UNCHANGED vars) => FreshInv'
<1>1. ASSUME TypeInv, SensorInv, FreshInv, Produce PROVE FreshInv'
  <2>1. UNCHANGED <<pc, shifted, acc_table, gyr_table, acc_data, gyr_data>>
    BY <1>1 DEF Produce, driverVars
  <2>2. ASSUME pc \in Dequeuing PROVE sensor_fifo' \in Seq(Frames(Fresh))
    <3>1. sensor.ranges = {"acc", "gyr"}
      BY <1>1, <2>2 DEF SensorInv, Sensor, BehindFrames, BehindGyrRange, BehindAccRange
    <3>2. made + 1 \in 1..MaxSamples
      BY <1>1, BoundsOK DEF TypeInv, TypeOK, Produce
    <3>3. Made \in Fresh
      BY <3>1, <3>2 DEF Made, Fresh, Sample
    <3>4. sensor_fifo \in Seq(Frames(Fresh))
      BY <1>1, <2>2 DEF FreshInv
    <3> QED
      BY <1>1, <3>3, <3>4, ProduceFrames
  <2> QED
    BY <1>1, <2>1, <2>2 DEF FreshInv
<1>2. ASSUME BoardReset PROVE FreshInv'
  <2>1. <<>> \in Seq(Fresh)
    OBVIOUS
  <2> QED
    BY <1>2, <2>1 DEF BoardReset, FreshInv, Dequeuing
<1>3. ASSUME FreshInv, UNCHANGED vars PROVE FreshInv'
  BY <1>3 DEF FreshInv, vars, driverVars, sensorVars, historyVars
<1> QED
  BY <1>1, <1>2, <1>3

LEMMA DriverFresh == Spec => []FreshInv
<1>1. Init => FreshInv
  <2>1. <<>> \in Seq(Fresh)
    OBVIOUS
  <2> QED
    BY <2>1 DEF Init, FreshInv, Dequeuing
<1>2. SensorInv /\ TypeInv /\ FreshInv /\ [Next]_vars => FreshInv'
  BY InitStepsKeepFreshInv, LoopStepsKeepFreshInv, DataKeepsFreshInv, OthersKeepFreshInv
     DEF Next, ThreadStep
<1> QED
  BY <1>1, <1>2, DriverTypes, PTL DEF Spec

(* What the thread gets out of whole frames was measured in the ranges it  *)
(* scales by and after the program started, whatever the sensor held when  *)
(* the board was reset.                                                    *)
THEOREM OnlyThisRun == Spec => []SamplesOfThisRun
<1>1. FreshInv => SamplesOfThisRun
  <2> SUFFICES ASSUME FreshInv, ~shifted,
                      NEW s \in {acc_data, gyr_data} \cup ToSet(acc_table) \cup ToSet(gyr_table)
               PROVE  s.ranged /\ s.current
    BY DEF SamplesOfThisRun
  <2>1. s \in Fresh \cup {NoSample}
    BY DEF FreshInv, ToSet
  <2> QED
    BY <2>1 DEF Fresh, NoSample
<1> QED
  BY <1>1, DriverFresh, PTL

-----------------------------------------------------------------------------
(* The length read is that of the first frames, until some are dropped;    *)
(* only then can a read end inside a frame.                                *)
LEMMA DataKeepsWholeInv == TypeInv /\ WholeInv /\ Data => WholeInv'
<1> SUFFICES ASSUME TypeInv, WholeInv, Data PROVE WholeInv'
  OBVIOUS
<1>1. pc = "data" /\ pc' # "data"
  BY DEF Data, DataWhole, DataCut, DataBeyond
<1>2. shifted' => overrun'
  <2>1. CASE /\ pc' = "error" /\ Fault
             /\ UNCHANGED <<acc_table, gyr_table, sensor_fifo, historyVars>>
    BY <2>1 DEF WholeInv, historyVars
  <2>2. CASE DataWhole \/ DataCut \/ DataBeyond
    <3>1. sensor_fifo \in Seq(Frames(Sample)) /\ fifo_depth \in Nat
      BY FramesAre, BoundsOK DEF TypeInv, TypeOK
    <3>2. overrun' = overrun /\ (shifted' = shifted \/ Excess > 0)
      BY <2>2 DEF DataWhole, DataCut, DataBeyond, Decoded
    <3>3. ASSUME ~overrun PROVE ~ (Excess > 0)
      <4>1. PICK k \in 0..Len(sensor_fifo) : Size(SubSeq(sensor_fifo, 1, k)) = fifo_depth
        BY <1>1, <3>3 DEF WholeInv
      <4>2. Whole = k
        BY <3>1, <4>1, LongestExact DEF Whole
      <4>3. Excess = fifo_depth - fifo_depth
        BY <4>1, <4>2, Zenon DEF Excess
      <4> QED
        BY <3>1, <4>3
    <3> QED
      BY <3>2, <3>3 DEF WholeInv
  <2> QED
    BY <2>1, <2>2 DEF Data
<1> QED
  BY <1>1, <1>2 DEF WholeInv

LEMMA ProduceKeepsWholeInv == TypeInv /\ WholeInv /\ Produce => WholeInv'
<1> SUFFICES ASSUME TypeInv, WholeInv, Produce PROVE WholeInv'
  OBVIOUS
<1>1. UNCHANGED <<pc, shifted, fifo_depth>>
  BY DEF Produce, driverVars
<1>2. Made \in Sample /\ sensor_fifo \in Seq(Frames(Sample))
  <2>1. Made \in Sample
    BY BoundsOK DEF TypeInv, TypeOK, Produce, Made, Sample
  <2>2. sensor_fifo \in Seq(Frames(Sample))
    BY FramesAre DEF TypeInv, TypeOK
  <2> QED
    BY <2>1, <2>2
<1>3. /\ overrun => overrun'
      /\ pc = "data" /\ ~overrun' =>
           \E f \in Frames(Sample) : sensor_fifo' = Append(sensor_fifo, f)
  BY <1>2, ProduceFrames
<1>4. ASSUME pc = "data", ~overrun'
      PROVE  \E k \in 0..Len(sensor_fifo') : Size(SubSeq(sensor_fifo', 1, k)) = fifo_depth
  <2>1. PICK k \in 0..Len(sensor_fifo) : Size(SubSeq(sensor_fifo, 1, k)) = fifo_depth
    BY <1>3, <1>4 DEF WholeInv
  <2>2. PICK f \in Frames(Sample) : sensor_fifo' = Append(sensor_fifo, f)
    BY <1>3, <1>4
  <2>3. k \in 0..Len(sensor_fifo') /\ SubSeq(sensor_fifo', 1, k) = SubSeq(sensor_fifo, 1, k)
    BY <1>2, <2>2
  <2> QED
    BY <2>1, <2>3
<1> QED
  BY <1>1, <1>3, <1>4 DEF WholeInv

LEMMA OthersKeepWholeInv ==
  TypeInv /\ WholeInv /\ [Next]_vars /\ ~Data /\ ~Produce => WholeInv'
<1>1. ASSUME TypeInv, WholeInv, Length PROVE WholeInv'
  <2>1. UNCHANGED <<sensor_fifo, shifted, overrun>>
    BY <1>1 DEF Length, sensorVars, historyVars
  <2>2. pc' = "data" => fifo_depth' = Size(sensor_fifo)
    BY <1>1 DEF Length
  <2>3. Len(sensor_fifo) \in 0..Len(sensor_fifo) /\ SubSeq(sensor_fifo, 1, Len(sensor_fifo)) = sensor_fifo
    BY <1>1 DEF TypeInv, TypeOK
  <2> QED
    BY <1>1, <2>1, <2>2, <2>3 DEF WholeInv
<1>2. ASSUME WholeInv, Fetch \/ PushEntry \/ StackFull \/ Finalize PROVE WholeInv'
  BY <1>2 DEF Fetch, PushEntry, StackFull, Finalize, sensorVars, historyVars, WholeInv
<1>3. ASSUME WholeInv, Allocate \/ WriteRegister \/ ReadRegister PROVE WholeInv'
  <2>1. pc' # "data"
    BY <1>3, WritesAre DEF Allocate, WriteRegister, ReadRegister, Reads, After, Tolerated
  <2>2. UNCHANGED <<shifted, overrun>>
    BY <1>3 DEF Allocate, WriteRegister, ReadRegister, historyVars
  <2> QED
    BY <1>3, <2>1, <2>2 DEF WholeInv
<1>4. ASSUME BoardReset PROVE WholeInv'
  BY <1>4 DEF BoardReset, WholeInv
<1>5. ASSUME WholeInv, UNCHANGED vars PROVE WholeInv'
  BY <1>5 DEF vars, driverVars, sensorVars, historyVars, WholeInv
<1> QED
  BY <1>1, <1>2, <1>3, <1>4, <1>5 DEF Next, ThreadStep

(* Though the length of the FIFO and its contents are two transfers, with  *)
(* the sensor measuring in between, whole frames are read unless the       *)
(* sensor dropped frames there.                                            *)
THEOREM WholeFramesRead == Spec => []ReadsWholeFrames
<1>1. Init => WholeInv
  BY DEF Init, WholeInv
<1>2. TypeInv /\ WholeInv /\ [Next]_vars => WholeInv'
  BY DataKeepsWholeInv, ProduceKeepsWholeInv, OthersKeepWholeInv
<1>3. WholeInv => ReadsWholeFrames
  BY DEF WholeInv, ReadsWholeFrames
<1> QED
  BY <1>1, <1>2, <1>3, DriverTypes, PTL DEF Spec

-----------------------------------------------------------------------------
(* The newest of two runs of samples is the newest of the second, if any.  *)
LEMMA NewestConcat ==
  ASSUME NEW R, NEW t \in Seq(R), NEW a \in Seq(R), NEW n
  PROVE  NewestOf(t \o a, n) = NewestOf(a, NewestOf(t, n))
<1>1. CASE a = <<>>
  <2>1. t \o a = t
    BY <1>1
  <2>2. NewestOf(a, NewestOf(t, n)) = NewestOf(t, n)
    BY <1>1, Zenon DEF NewestOf
  <2> QED
    BY <2>1, <2>2
<1>2. CASE a # <<>>
  <2>1. t \o a # <<>> /\ (t \o a)[Len(t \o a)] = a[Len(a)]
    BY <1>2
  <2>2. NewestOf(t \o a, n) = (t \o a)[Len(t \o a)].n /\ NewestOf(a, NewestOf(t, n)) = a[Len(a)].n
    BY <1>2, <2>1, Zenon DEF NewestOf
  <2> QED
    BY <2>1, <2>2
<1> QED
  BY <1>1, <1>2

LEMMA DataKeepsLatestInv == TypeInv /\ LatestInv /\ Data => LatestInv'
<1> SUFFICES ASSUME TypeInv, LatestInv, Data PROVE LatestInv'
  OBVIOUS
<1>2. CASE /\ pc' = "error" /\ Fault
           /\ UNCHANGED <<acc_table, gyr_table, sensor_fifo, historyVars>>
  BY <1>2 DEF LatestInv, historyVars
<1>3. CASE DataWhole \/ DataCut \/ DataBeyond
  <2> SUFFICES ASSUME ~shifted', ~overflowed'
               PROVE  /\ acc_table' \in Seq(Sample) /\ gyr_table' \in Seq(Sample)
                      /\ newest'.acc = NewestOf(acc_table', 0)
                      /\ newest'.gyr = NewestOf(gyr_table', 0)
    BY DEF LatestInv
  <2>1. sensor_fifo \in Seq(Frames(Sample)) /\ fifo_depth \in Nat
    BY FramesAre, BoundsOK DEF TypeInv, TypeOK
  <2>2. PICK k \in 0..Len(sensor_fifo), accs \in Seq(Sample \cup {TornSample}),
             gyrs \in Seq(Sample \cup {TornSample}) :
           /\ Decoded(SubSeq(sensor_fifo, 1, k), accs, gyrs)
           /\ \/ accs = <<>> /\ gyrs = <<>> /\ shifted' = shifted
              \/ shifted' = TRUE
    BY <1>3, <2>1, DataReads
  <2>3. accs = <<>> /\ gyrs = <<>> /\ ~shifted
    <3>1. shifted' # TRUE
      OBVIOUS
    <3>2. accs = <<>> /\ gyrs = <<>> /\ shifted' = shifted
      BY <2>2, <3>1
    <3>3. ~shifted
      BY <3>2
    <3> QED
      BY <3>2, <3>3
  <2>4. PICK fs \in Seq(Frames(Sample)) : fs = SubSeq(sensor_fifo, 1, k)
    <3>1. SubSeq(sensor_fifo, 1, k) \in Seq(Frames(Sample))
      BY <2>1
    <3> QED
      BY <3>1
  <2>5. PICK a \in Seq(Sample), g \in Seq(Sample) : a = AccOf(fs) /\ g = GyrOf(fs)
    BY SamplesOfFrames
  <2>6. a \o <<>> = a /\ g \o <<>> = g /\ a \in Seq(Read) /\ g \in Seq(Read)
    BY ReadIs
  <2>7. /\ acc_table' = Kept(acc_table, a) /\ gyr_table' = Kept(gyr_table, g)
        /\ newest' = [acc |-> NewestOf(a, newest.acc), gyr |-> NewestOf(g, newest.gyr)]
        /\ overflowed' = (\/ overflowed
                          \/ Len(acc_table) + Len(a) > TableLength
                          \/ Len(gyr_table) + Len(g) > TableLength)
    <3>1. Decoded(fs, <<>>, <<>>)
      BY <2>2, <2>3, <2>4, Zenon
    <3> QED
      BY <2>5, <2>6, <3>1, Zenon DEF Decoded
  <2>8. ~overflowed /\ Len(acc_table) + Len(a) <= TableLength /\ Len(gyr_table) + Len(g) <= TableLength
    BY <2>7, TableLengthOK DEF TypeInv, TypeOK
  <2>9. /\ acc_table \in Seq(Sample) /\ gyr_table \in Seq(Sample)
        /\ newest.acc = NewestOf(acc_table, 0) /\ newest.gyr = NewestOf(gyr_table, 0)
    BY <2>3, <2>8 DEF LatestInv
  <2>10. acc_table' = acc_table \o a /\ gyr_table' = gyr_table \o g
    BY <2>7, <2>8, <2>9, KeptType
  <2>11. acc_table \o a \in Seq(Sample) /\ gyr_table \o g \in Seq(Sample)
    BY <2>9
  <2>12. newest'.acc = NewestOf(a, newest.acc) /\ newest'.gyr = NewestOf(g, newest.gyr)
    BY <2>7
  <2> QED
    BY <2>9, <2>10, <2>11, <2>12, NewestConcat
<1> QED
  BY <1>2, <1>3 DEF Data

LEMMA FetchKeepsLatestInv == Fetch => LatestInv'
<1> SUFFICES ASSUME Fetch PROVE LatestInv'
  OBVIOUS
<1>1. NewestOf(<<>>, 0) = 0 /\ <<>> \in Seq(Sample)
  BY DEF NewestOf
<1>2. /\ acc_table' = <<>> /\ gyr_table' = <<>>
      /\ newest' = [acc |-> 0, gyr |-> 0]
  BY DEF Fetch
<1> QED
  BY <1>1, <1>2 DEF LatestInv

LEMMA OthersKeepLatestInv ==
  LatestInv /\ [Next]_vars /\ ~Data /\ ~Fetch => LatestInv'
<1>1. ASSUME LatestInv, Length \/ PushEntry \/ StackFull \/ Finalize PROVE LatestInv'
  BY <1>1 DEF Length, PushEntry, StackFull, Finalize, historyVars, LatestInv
<1>2. ASSUME LatestInv, Allocate \/ WriteRegister \/ ReadRegister PROVE LatestInv'
  BY <1>2 DEF Allocate, WriteRegister, ReadRegister, historyVars, LatestInv
<1>3. ASSUME BoardReset PROVE LatestInv'
  BY <1>3 DEF BoardReset, LatestInv, NewestOf
<1>4. ASSUME LatestInv, Produce \/ UNCHANGED vars PROVE LatestInv'
  BY <1>4 DEF Produce, vars, driverVars, historyVars, LatestInv
<1> QED
  BY <1>1, <1>2, <1>3, <1>4 DEF Next, ThreadStep

(* A getter hands out the last sample of a table, or nothing.              *)
LEMMA LatestOfTable ==
  ASSUME NEW t \in Seq(Sample), NEW value
  PROVE  HandsOut(value, GetLatest(t, value), NewestOf(t, 0))
<1>1. CASE t = <<>>
  BY <1>1 DEF HandsOut, GetLatest, NewestOf
<1>2. CASE t # <<>>
  <2>1. t[Len(t)] \in Sample
    BY <1>2
  <2>2. t[Len(t)].n # 0
    BY <2>1 DEF Sample
  <2> QED
    BY <1>2, <2>2, Zenon DEF HandsOut, GetLatest, NewestOf
<1> QED
  BY <1>1, <1>2

(* Each getter hands out the newest frame with its sensor that any of the  *)
(* dequeues since it was last called brought, unless a table was too full  *)
(* for one, and leaves the thread's value alone if they brought none.      *)
THEOREM LatestAreHandedOut == Spec => LatestUnlessFull
<1> DEFINE Right == Fetch /\ ~shifted /\ ~overflowed =>
                      /\ HandsOut(acc_data, acc_data', newest.acc)
                      /\ HandsOut(gyr_data, gyr_data', newest.gyr)
<1>1. Init => LatestInv
  BY DEF Init, LatestInv, NewestOf
<1>2. TypeInv /\ LatestInv /\ [Next]_vars => LatestInv'
  BY DataKeepsLatestInv, FetchKeepsLatestInv, OthersKeepLatestInv
<1>3. ASSUME LatestInv PROVE Right
  <2> SUFFICES ASSUME Fetch, ~shifted, ~overflowed
               PROVE  /\ HandsOut(acc_data, acc_data', newest.acc)
                      /\ HandsOut(gyr_data, gyr_data', newest.gyr)
    OBVIOUS
  <2>1. acc_data' = GetLatest(acc_table, acc_data) /\ gyr_data' = GetLatest(gyr_table, gyr_data)
    BY DEF Fetch
  <2>2. /\ acc_table \in Seq(Sample) /\ gyr_table \in Seq(Sample)
        /\ newest.acc = NewestOf(acc_table, 0) /\ newest.gyr = NewestOf(gyr_table, 0)
    BY <1>3 DEF LatestInv
  <2>3. /\ HandsOut(acc_data, GetLatest(acc_table, acc_data), NewestOf(acc_table, 0))
        /\ HandsOut(gyr_data, GetLatest(gyr_table, gyr_data), NewestOf(gyr_table, 0))
    BY <2>2, LatestOfTable
  <2> QED
    BY <2>1, <2>2, <2>3, Zenon
<1>4. LatestInv => [Right]_vars
  BY <1>3
<1> QED
  BY <1>1, <1>2, <1>4, DriverTypes, PTL DEF Spec, LatestUnlessFull
=============================================================================
