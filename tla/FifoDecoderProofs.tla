------------------------- MODULE FifoDecoderProofs -------------------------
(***************************************************************************)
(* What holds of the decoder for any number of frames, of any samples, and *)
(* on any bytes.                                                           *)
(***************************************************************************)
EXTENDS FifoDecoder, FrameTheorems

AllFrames == ControlFrames \cup DataFrames

(* Every byte the decoder looks at is in the buffer, and what it pushes is *)
(* a sample.                                                               *)
LEMMA Int16Is == \A v : v \in Int16 <=> v \in Int /\ -32768 <= v /\ v <= 32767
<1>1. \A v : v \in Int16 <=> v \in Int /\ INT16_MIN <= v /\ v <= INT16_MAX
  <2>1. INT16_MIN \in Int /\ INT16_MAX \in Int
    BY DEF INT16_MIN, INT16_MAX
  <2> QED
    BY <2>1 DEF Int16
<1> QED
  BY <1>1 DEF INT16_MIN, INT16_MAX

LEMMA ConvType ==
  ASSUME NEW n \in Nat, fifo[n] \in Byte, fifo[n + 1] \in Byte
  PROVE  Conv(n) \in Int16
<1>1. PICK lo \in Byte, hi \in Byte : lo = fifo[n] /\ hi = fifo[n + 1]
  OBVIOUS
<1>2. PICK u \in Int : u = hi * 256 + lo /\ 0 <= u /\ u <= 65535
  BY DEF Byte
<1>3. Conv(n) = Signed(u)
  BY <1>1, <1>2 DEF Conv
<1> QED
  BY <1>2, <1>3, Int16Is DEF Signed

LEMMA AxisType ==
  ASSUME NEW n \in Nat, \A m \in n..(n + 5) : fifo[m] \in Byte
  PROVE  Axis(n) \in Axes
<1>1. PICK a \in Nat, b \in Nat : a = n + 2 /\ b = n + 4
  OBVIOUS
<1>2. /\ fifo[n] \in Byte /\ fifo[n + 1] \in Byte /\ fifo[a] \in Byte
      /\ fifo[a + 1] \in Byte /\ fifo[b] \in Byte /\ fifo[b + 1] \in Byte
  BY <1>1
<1>3. Conv(n) \in Int16 /\ Conv(a) \in Int16 /\ Conv(b) \in Int16
  BY <1>2, ConvType
<1> QED
  BY <1>1, <1>3 DEF Axis, Axes

LEMMA PushType ==
  ASSUME NEW S, NEW table \in Seq(S), Len(table) <= TableLength, NEW s \in S
  PROVE  Push(table, s) \in Seq(S) /\ Len(Push(table, s)) <= TableLength
BY TableLengthOK DEF Push

(* How far a round goes, and what it pushes.                               *)
LEMMA RoundIs ==
  ASSUME DataFrame
  PROVE  LET enable == Parameter(fifo[i])
         IN  /\ gyr_table' = IF HasBit(enable, 2) THEN Push(gyr_table, Axis(i + 1)) ELSE gyr_table
             /\ acc_table' = IF HasBit(enable, 1) THEN Push(acc_table, Axis(Behind(i + 1, HasBit(enable, 2)))) ELSE acc_table
             /\ i' = Behind(Behind(i + 1, HasBit(enable, 2)), HasBit(enable, 1))
BY Zenon DEF DataFrame

LEMMA BehindType ==
  ASSUME NEW n \in Nat, NEW p
  PROVE  Behind(n, p) \in {n, n + 6}
BY DEF Behind

LEMMA DataFrameKeepsTypes == TypeOK /\ DataFrame => TypeOK'
<1> SUFFICES ASSUME TypeOK, DataFrame PROVE TypeOK'
  OBVIOUS
<1>1. i \in Nat /\ i < fifo_depth /\ fifo_depth \in Nat
  BY DEF DataFrame, More, TypeOK, LongestFrame
<1> DEFINE enable == Parameter(fifo[i])
<1>2. PICK n \in Nat : n = i + 1
  BY <1>1
<1> DEFINE accAt == Behind(n, HasBit(enable, 2))
<1>3. accAt \in {n, n + 6} /\ accAt \in Nat
  BY BehindType
<1>4. /\ gyr_table' = IF HasBit(enable, 2) THEN Push(gyr_table, Axis(n)) ELSE gyr_table
      /\ acc_table' = IF HasBit(enable, 1) THEN Push(acc_table, Axis(accAt)) ELSE acc_table
      /\ i' = Behind(accAt, HasBit(enable, 1))
  BY <1>2, RoundIs, Zenon
<1> HIDE DEF enable, accAt
<1>5. Axis(n) \in Axes /\ Axis(accAt) \in Axes
  <2>1. \A m \in 0..(fifo_depth + LongestFrame) : fifo[m] \in Byte
    BY DEF TypeOK
  <2>2. /\ \A m \in n..(n + 5) : m \in 0..(fifo_depth + LongestFrame)
        /\ \A m \in accAt..(accAt + 5) : m \in 0..(fifo_depth + LongestFrame)
    BY <1>1, <1>2, <1>3 DEF LongestFrame
  <2> QED
    BY <1>3, <2>1, <2>2, AxisType
<1>6. /\ Push(gyr_table, Axis(n)) \in Seq(Axes) /\ Len(Push(gyr_table, Axis(n))) <= TableLength
      /\ Push(acc_table, Axis(accAt)) \in Seq(Axes) /\ Len(Push(acc_table, Axis(accAt))) <= TableLength
  BY <1>5, PushType DEF TypeOK
<1>7. /\ gyr_table' = gyr_table \/ gyr_table' = Push(gyr_table, Axis(n))
      /\ acc_table' = acc_table \/ acc_table' = Push(acc_table, Axis(accAt))
  BY <1>4, Zenon
<1>8. i' \in 0..(fifo_depth + LongestFrame)
  <2>1. i' \in {accAt, accAt + 6}
    BY <1>3, <1>4, BehindType
  <2> QED
    BY <1>1, <1>2, <1>3, <2>1 DEF LongestFrame
<1>9. UNCHANGED <<fifo, fifo_depth>>
  BY DEF DataFrame
<1> QED
  BY <1>6, <1>7, <1>8, <1>9 DEF TypeOK

LEMMA ControlFrameKeepsTypes == TypeOK /\ ControlFrame => TypeOK'
<1> SUFFICES ASSUME TypeOK, ControlFrame PROVE TypeOK'
  OBVIOUS
<1>1. \A type : ControlLength(type) \in {1, 2, 3, 5}
  BY DEF ControlLength
<1>2. PICK step \in {1, 2, 3, 5} : i' = i + step
  BY <1>1 DEF ControlFrame
<1>3. i' \in 0..(fifo_depth + LongestFrame)
  BY <1>2 DEF ControlFrame, More, TypeOK, LongestFrame
<1> QED
  BY <1>3 DEF ControlFrame, TypeOK

(* The buffer of a call: bytes of which decoding begins.                   *)
LEMMA BufferType ==
  ASSUME NEW bytes \in Seq(Byte)
  PROVE  /\ BufferOf(bytes) \in [0..(Len(bytes) + LongestFrame) -> Byte]
         /\ \A n \in 0..(Len(bytes) - 1) : BufferOf(bytes)[n] = bytes[n + 1]
<1>1. ASSUME NEW n \in 0..(Len(bytes) + LongestFrame)
      PROVE  (IF n < Len(bytes) THEN bytes[n + 1] ELSE Filler) \in Byte
  <2>1. n < Len(bytes) => bytes[n + 1] \in Byte
    BY DEF LongestFrame
  <2> QED
    BY <2>1, BufferOK
<1>2. BufferOf(bytes) \in [0..(Len(bytes) + LongestFrame) -> Byte]
  BY <1>1 DEF BufferOf
<1>3. ASSUME NEW n \in 0..(Len(bytes) - 1) PROVE BufferOf(bytes)[n] = bytes[n + 1]
  BY DEF BufferOf, LongestFrame
<1> QED
  BY <1>2, <1>3

LEMMA TablesBeforeType ==
  ASSUME NEW table \in TablesBefore
  PROVE  table \in Seq(Samples) /\ Len(table) <= TableLength
<1>1. PICK n \in 0..TableLength : table = [k \in 1..n |-> CHOOSE s \in Samples : TRUE]
  BY DEF TablesBefore
<1>2. (CHOOSE s \in Samples : TRUE) \in Samples
  BY BufferOK
<1>3. table \in Seq(Samples) /\ Len(table) = n
  BY <1>1, <1>2, TableLengthOK
<1> QED
  BY <1>3, TableLengthOK

LEMMA CalledTypes ==
  ASSUME NEW bytes \in Seq(Byte), Called(bytes)
  PROVE  TypeOK
<1>1. fifo_depth = Len(bytes) /\ fifo = BufferOf(bytes) /\ i = 0 /\ Len(bytes) \in Nat
  BY DEF Called
<1>2. fifo \in [0..(fifo_depth + LongestFrame) -> Byte]
  BY <1>1, BufferType
<1>3. /\ acc_table \in Seq(Samples) /\ Len(acc_table) <= TableLength
      /\ gyr_table \in Seq(Samples) /\ Len(gyr_table) <= TableLength
  BY TablesBeforeType DEF Called
<1>4. acc_table \in Seq(Axes) /\ gyr_table \in Seq(Axes)
  BY <1>3, BufferOK
<1> QED
  BY <1>1, <1>2, <1>3, <1>4 DEF TypeOK, LongestFrame

-----------------------------------------------------------------------------
(* The bytes of a frame.                                                   *)
LEMMA LittleEndianIs ==
  ASSUME NEW v \in Int16
  PROVE  /\ Low(v) \in Byte /\ High(v) \in Byte
         /\ Signed(High(v) * 256 + Low(v)) = v
<1>1. PICK lo \in Byte, q \in -128..127 : lo = v % 256 /\ q = v \div 256 /\ v = 256 * q + lo
  <2>1. v \in Int /\ -32768 <= v /\ v <= 32767
    BY Int16Is
  <2>2. v % 256 \in 0..255 /\ v = 256 * (v \div 256) + (v % 256)
    BY <2>1
  <2>3. v \div 256 \in -128..127
    BY <2>1
  <2> QED
    BY <2>2, <2>3 DEF Byte
<1>2. PICK hi \in Byte : hi = q % 256 /\ hi = IF q < 0 THEN q + 256 ELSE q
  <2>1. CASE q < 0
    <3>1. q \in -128..(-1)
      BY <2>1
    <3>2. q % 256 = q + 256
      BY <3>1
    <3> QED
      BY <3>1, <3>2 DEF Byte
  <2>2. CASE ~ (q < 0)
    <3>1. q \in 0..127
      BY <2>2
    <3>2. q % 256 = q
      BY <3>1
    <3> QED
      BY <3>1, <3>2 DEF Byte
  <2> QED
    BY <2>1, <2>2
<1>3. Low(v) = lo /\ High(v) = hi
  BY <1>1, <1>2 DEF Low, High
<1>4. Signed(hi * 256 + lo) = v
  BY <1>1, <1>2 DEF Signed, Byte
<1> QED
  BY <1>3, <1>4

(* Two sequences joined, and one of a single element.                      *)
LEMMA Joined ==
  ASSUME NEW S, NEW s \in Seq(S), NEW t \in Seq(S)
  PROVE  /\ s \o t \in Seq(S)
         /\ Len(s \o t) = Len(s) + Len(t)
         /\ \A k \in 1..Len(s) : (s \o t)[k] = s[k]
         /\ \A k \in 1..Len(t) : (s \o t)[Len(s) + k] = t[k]
OBVIOUS

LEMMA HeadAnd ==
  ASSUME NEW S, NEW h \in S, NEW t \in Seq(S)
  PROVE  /\ <<h>> \o t \in Seq(S)
         /\ Len(<<h>> \o t) = 1 + Len(t)
         /\ (<<h>> \o t)[1] = h
         /\ \A k \in 1..Len(t) : (<<h>> \o t)[1 + k] = t[k]
OBVIOUS

(* The six bytes of a sample, and what the decoder makes of them.          *)
LEMMA EncodedIs ==
  ASSUME NEW s \in Axes
  PROVE  /\ Encoded(s) \in Seq(Byte) /\ Len(Encoded(s)) = 6
         /\ Signed(Encoded(s)[2] * 256 + Encoded(s)[1]) = s.x
         /\ Signed(Encoded(s)[4] * 256 + Encoded(s)[3]) = s.y
         /\ Signed(Encoded(s)[6] * 256 + Encoded(s)[5]) = s.z
<1>1. s.x \in Int16 /\ s.y \in Int16 /\ s.z \in Int16
  BY DEF Axes
<1>2. Encoded(s) \in Seq(Byte) /\ Len(Encoded(s)) = 6
  BY <1>1, LittleEndianIs DEF Encoded
<1>3. /\ Encoded(s)[1] = Low(s.x) /\ Encoded(s)[2] = High(s.x)
      /\ Encoded(s)[3] = Low(s.y) /\ Encoded(s)[4] = High(s.y)
      /\ Encoded(s)[5] = Low(s.z) /\ Encoded(s)[6] = High(s.z)
  BY DEF Encoded
<1> QED
  BY <1>1, <1>2, <1>3, LittleEndianIs

LEMMA AxisDecodes ==
  ASSUME NEW s \in Axes, NEW n \in Nat, \A m \in 1..6 : fifo[n + m - 1] = Encoded(s)[m]
  PROVE  Axis(n) = s
<1>1. PICK e \in Seq(Byte) : e = Encoded(s)
  BY EncodedIs
<1>2. /\ fifo[n] = e[1] /\ fifo[n + 1] = e[2] /\ fifo[n + 2] = e[3]
      /\ fifo[n + 3] = e[4] /\ fifo[n + 4] = e[5] /\ fifo[n + 5] = e[6]
  <2>1. /\ fifo[n + 1 - 1] = e[1] /\ fifo[n + 2 - 1] = e[2] /\ fifo[n + 3 - 1] = e[3]
        /\ fifo[n + 4 - 1] = e[4] /\ fifo[n + 5 - 1] = e[5] /\ fifo[n + 6 - 1] = e[6]
    BY <1>1
  <2> QED
    BY <2>1
<1>3. Conv(n) = s.x /\ Conv(n + 2) = s.y /\ Conv(n + 4) = s.z
  <2>1. (n + 2) + 1 = n + 3 /\ (n + 4) + 1 = n + 5
    OBVIOUS
  <2> QED
    BY <1>1, <1>2, <2>1, EncodedIs DEF Conv
<1>4. s = [x |-> s.x, y |-> s.y, z |-> s.z]
  BY DEF Axes
<1> QED
  BY <1>3, <1>4 DEF Axis

LEMMA EncodedAllIs ==
  /\ EncodedAll(<<>>) = <<>>
  /\ \A s : EncodedAll(<<s>>) = Encoded(s)
<1>1. EncodedAll(<<>>) = FlattenSeq(<<>>)
  <2>1. [k \in DOMAIN <<>> |-> Encoded(<<>>[k])] = <<>>
    OBVIOUS
  <2> QED
    BY <2>1 DEF EncodedAll
<1>2. ASSUME NEW s PROVE EncodedAll(<<s>>) = Encoded(s)
  <2>1. [k \in DOMAIN <<s>> |-> Encoded(<<s>>[k])] = <<Encoded(s)>>
    OBVIOUS
  <2>2. EncodedAll(<<s>>) = FlattenSeq(<<Encoded(s)>>)
    BY <2>1 DEF EncodedAll
  <2> QED
    BY <2>2, FlattenOne
<1> QED
  BY <1>1, <1>2, FlattenEmpty

(* Bytes that begin with a head, and where they hold a sample.             *)
HeadedBy(b, h, n) == b \in Seq(Byte) /\ Len(b) = n /\ b[1] = h
Carries(b, n, s)  == \A k \in 1..6 : b[n + k] = Encoded(s)[k]

(* The frames, one by one.                                                 *)
LEMMA FramesAre ==
  ASSUME NEW f \in AllFrames
  PROVE  \/ f = Frame(64, <<>>, <<>>, 1)
         \/ f = Frame(72, <<>>, <<>>, 4)
         \/ \E a \in Samples : f = Frame(132, <<>>, <<a>>, 0)
         \/ \E g \in Samples : f = Frame(136, <<g>>, <<>>, 0)
         \/ \E g \in Samples, a \in Samples : f = Frame(140, <<g>>, <<a>>, 0)
<1>1. CASE f \in ControlFrames
  BY <1>1 DEF ControlFrames
<1>2. CASE f \in DataFrames
  BY <1>2 DEF DataFrames
<1> QED
  BY <1>1, <1>2 DEF AllFrames

(* Its bytes: the head, then the samples it holds.                         *)
LEMMA BytesAre ==
  \A h, g, a, n : Bytes(Frame(h, g, a, n)) = <<h>> \o EncodedAll(g) \o EncodedAll(a) \o Unused(n)
<1> TAKE h, g, a, n
<1>1. /\ Frame(h, g, a, n).head = h /\ Frame(h, g, a, n).gyr = g
      /\ Frame(h, g, a, n).acc = a /\ Frame(h, g, a, n).fill = n
  BY DEF Frame
<1> QED
  BY <1>1, Zenon DEF Bytes

LEMMA DataBytesAre ==
  ASSUME NEW h, NEW g, NEW a
  PROVE  Bytes(Frame(h, g, a, 0)) = <<h>> \o EncodedAll(g) \o EncodedAll(a) \o Unused(0)
BY BytesAre

LEMMA UnusedIs ==
  ASSUME NEW n \in Nat
  PROVE  Unused(n) \in Seq(Byte) /\ Len(Unused(n)) = n /\ Unused(0) = <<>>
BY BufferOK DEF Unused

LEMMA ControlBytes ==
  ASSUME NEW h \in Byte, NEW n \in Nat
  PROVE  HeadedBy(Bytes(Frame(h, <<>>, <<>>, n)), h, 1 + n)
<1>1. PICK fill \in Seq(Byte) : fill = Unused(n) /\ Len(fill) = n
  BY UnusedIs
<1>2. Bytes(Frame(h, <<>>, <<>>, n)) = <<h>> \o fill
  <2>1. <<h>> \o <<>> = <<h>>
    OBVIOUS
  <2>2. Bytes(Frame(h, <<>>, <<>>, n)) = <<h>> \o EncodedAll(<<>>) \o EncodedAll(<<>>) \o Unused(n)
    BY BytesAre
  <2>3. EncodedAll(<<>>) = <<>>
    BY EncodedAllIs, Zenon
  <2> QED
    BY <1>1, <2>1, <2>2, <2>3, Zenon
<1>3. /\ <<h>> \o fill \in Seq(Byte) /\ Len(<<h>> \o fill) = 1 + n
      /\ (<<h>> \o fill)[1] = h
  BY <1>1, HeadAnd
<1>4. HeadedBy(<<h>> \o fill, h, 1 + n)
  BY <1>3 DEF HeadedBy
<1> QED
  BY <1>2, <1>4, Zenon

LEMMA OneSampleBytes ==
  ASSUME NEW h \in Byte, NEW s \in Samples, NEW g, NEW a,
         (g = <<s>> /\ a = <<>>) \/ (g = <<>> /\ a = <<s>>)
  PROVE  /\ HeadedBy(Bytes(Frame(h, g, a, 0)), h, 7)
         /\ Carries(Bytes(Frame(h, g, a, 0)), 1, s)
<1>1. PICK e \in Seq(Byte) : e = Encoded(s)
  BY BufferOK, EncodedIs
<1>2. PICK b \in Seq(Byte) :
        /\ b = <<h>> \o e /\ Len(b) = 1 + Len(e) /\ b[1] = h
        /\ \A k \in 1..Len(e) : b[1 + k] = e[k]
  <2>1. /\ <<h>> \o e \in Seq(Byte)
        /\ Len(<<h>> \o e) = 1 + Len(e)
        /\ (<<h>> \o e)[1] = h
        /\ \A k \in 1..Len(e) : (<<h>> \o e)[1 + k] = e[k]
    BY ONLY h \in Byte, e \in Seq(Byte), HeadAnd
  <2> QED
    BY ONLY <2>1
<1>3. Bytes(Frame(h, g, a, 0)) = b
  <2>1. Bytes(Frame(h, g, a, 0)) = <<h>> \o EncodedAll(g) \o EncodedAll(a) \o Unused(0)
    BY ONLY DataBytesAre, Zenon
  <2>2. Unused(0) = <<>>
    BY UnusedIs
  <2>3. EncodedAll(<<>>) = <<>> /\ EncodedAll(<<s>>) = e
    BY <1>1, EncodedAllIs, Zenon
  <2>4. <<h>> \o <<>> = <<h>> /\ b \o <<>> = b
    OBVIOUS
  <2> QED
    BY <1>2, <2>1, <2>2, <2>3, <2>4, Zenon
<1>4. Len(e) = 6
  BY <1>1, BufferOK, EncodedIs
<1>5. Len(b) = 7 /\ \A k \in 1..6 : b[1 + k] = e[k]
  BY <1>2, <1>4
<1>6. HeadedBy(b, h, 7) /\ Carries(b, 1, s)
  BY <1>1, <1>2, <1>5 DEF HeadedBy, Carries
<1> QED
  BY <1>3, <1>6, Zenon

LEMMA TwoSampleBytes ==
  ASSUME NEW h \in Byte, NEW g \in Samples, NEW a \in Samples
  PROVE  /\ HeadedBy(Bytes(Frame(h, <<g>>, <<a>>, 0)), h, 13)
         /\ Carries(Bytes(Frame(h, <<g>>, <<a>>, 0)), 1, g)
         /\ Carries(Bytes(Frame(h, <<g>>, <<a>>, 0)), 7, a)
<1>1. PICK d \in Seq(Byte), e \in Seq(Byte) : d = Encoded(g) /\ e = Encoded(a)
  BY BufferOK, EncodedIs
<1>2. PICK c \in Seq(Byte) :
        /\ c = <<h>> \o d /\ Len(c) = 1 + Len(d) /\ c[1] = h
        /\ \A k \in 1..Len(d) : c[1 + k] = d[k]
  <2>1. /\ <<h>> \o d \in Seq(Byte)
        /\ Len(<<h>> \o d) = 1 + Len(d)
        /\ (<<h>> \o d)[1] = h
        /\ \A k \in 1..Len(d) : (<<h>> \o d)[1 + k] = d[k]
    BY ONLY h \in Byte, d \in Seq(Byte), HeadAnd
  <2> QED
    BY ONLY <2>1
<1>3. PICK b \in Seq(Byte) :
        /\ b = c \o e /\ Len(b) = Len(c) + Len(e)
        /\ \A k \in 1..Len(c) : b[k] = c[k]
        /\ \A k \in 1..Len(e) : b[Len(c) + k] = e[k]
  <2>1. /\ c \o e \in Seq(Byte)
        /\ Len(c \o e) = Len(c) + Len(e)
        /\ \A k \in 1..Len(c) : (c \o e)[k] = c[k]
        /\ \A k \in 1..Len(e) : (c \o e)[Len(c) + k] = e[k]
    BY ONLY c \in Seq(Byte), e \in Seq(Byte), Joined
  <2> QED
    BY ONLY <2>1
<1>4. Bytes(Frame(h, <<g>>, <<a>>, 0)) = b
  <2>1. Bytes(Frame(h, <<g>>, <<a>>, 0)) = <<h>> \o EncodedAll(<<g>>) \o EncodedAll(<<a>>) \o Unused(0)
    BY ONLY DataBytesAre, Zenon
  <2>2. Unused(0) = <<>>
    BY UnusedIs
  <2>3. EncodedAll(<<g>>) = d /\ EncodedAll(<<a>>) = e
    BY <1>1, EncodedAllIs, Zenon
  <2>4. b \o <<>> = b
    OBVIOUS
  <2> QED
    BY <1>2, <1>3, <2>1, <2>2, <2>3, <2>4, Zenon
<1>5. Len(d) = 6 /\ Len(e) = 6
  BY <1>1, BufferOK, EncodedIs
<1>6. Len(c) = 7 /\ \A k \in 1..6 : c[1 + k] = d[k]
  BY <1>2, <1>5
<1>7. /\ Len(b) = 13 /\ b[1] = h
      /\ \A k \in 1..6 : b[7 + k] = e[k]
  BY <1>2, <1>3, <1>5, <1>6
<1>8. ASSUME NEW k \in 1..6 PROVE b[1 + k] = d[k]
  <2>1. PICK m \in 1..7 : m = 1 + k
    OBVIOUS
  <2>2. b[m] = c[m]
    BY <1>3, <1>6
  <2> QED
    BY <1>6, <2>1, <2>2
<1>9. HeadedBy(b, h, 13) /\ Carries(b, 1, g) /\ Carries(b, 7, a)
  BY <1>1, <1>3, <1>7, <1>8 DEF HeadedBy, Carries
<1> QED
  BY <1>4, <1>9, Zenon

(* A frame: how its bytes begin, how many they are, and its samples in     *)
(* them.                                                                   *)
IsControl(f) ==
  /\ f.gyr = <<>> /\ f.acc = <<>>
  /\ \/ HeadedBy(Bytes(f), 64, 2)
     \/ HeadedBy(Bytes(f), 72, 5)
IsAcc(f, a) ==
  /\ f.gyr = <<>> /\ f.acc = <<a>>
  /\ HeadedBy(Bytes(f), 132, 7) /\ Carries(Bytes(f), 1, a)
IsGyr(f, g) ==
  /\ f.gyr = <<g>> /\ f.acc = <<>>
  /\ HeadedBy(Bytes(f), 136, 7) /\ Carries(Bytes(f), 1, g)
IsBoth(f, g, a) ==
  /\ f.gyr = <<g>> /\ f.acc = <<a>>
  /\ HeadedBy(Bytes(f), 140, 13) /\ Carries(Bytes(f), 1, g) /\ Carries(Bytes(f), 7, a)

LEMMA FrameFields ==
  \A h, g, a, n : Frame(h, g, a, n).gyr = g /\ Frame(h, g, a, n).acc = a
BY DEF Frame

LEMMA ControlShape ==
  ASSUME NEW f, f = Frame(64, <<>>, <<>>, 1) \/ f = Frame(72, <<>>, <<>>, 4)
  PROVE  IsControl(f)
<1>1. f.gyr = <<>> /\ f.acc = <<>>
  BY FrameFields
<1>2. HeadedBy(Bytes(Frame(64, <<>>, <<>>, 1)), 64, 2)
  <2>1. 64 \in Byte /\ 1 \in Nat /\ 1 + 1 = 2
    BY DEF Byte
  <2> QED
    BY <2>1, ControlBytes
<1>3. HeadedBy(Bytes(Frame(72, <<>>, <<>>, 4)), 72, 5)
  <2>1. 72 \in Byte /\ 4 \in Nat /\ 1 + 4 = 5
    BY DEF Byte
  <2> QED
    BY <2>1, ControlBytes
<1> QED
  BY <1>1, <1>2, <1>3 DEF IsControl

LEMMA DataShapes ==
  ASSUME NEW f, NEW g \in Samples, NEW a \in Samples
  PROVE  /\ f = Frame(132, <<>>, <<a>>, 0) => IsAcc(f, a)
         /\ f = Frame(136, <<g>>, <<>>, 0) => IsGyr(f, g)
         /\ f = Frame(140, <<g>>, <<a>>, 0) => IsBoth(f, g, a)
<1>1. 132 \in Byte /\ 136 \in Byte /\ 140 \in Byte
  BY DEF Byte
<1>2. /\ HeadedBy(Bytes(Frame(132, <<>>, <<a>>, 0)), 132, 7)
      /\ Carries(Bytes(Frame(132, <<>>, <<a>>, 0)), 1, a)
  BY <1>1, OneSampleBytes
<1>3. /\ HeadedBy(Bytes(Frame(136, <<g>>, <<>>, 0)), 136, 7)
      /\ Carries(Bytes(Frame(136, <<g>>, <<>>, 0)), 1, g)
  BY <1>1, OneSampleBytes
<1>4. /\ HeadedBy(Bytes(Frame(140, <<g>>, <<a>>, 0)), 140, 13)
      /\ Carries(Bytes(Frame(140, <<g>>, <<a>>, 0)), 1, g)
      /\ Carries(Bytes(Frame(140, <<g>>, <<a>>, 0)), 7, a)
  BY <1>1, TwoSampleBytes
<1>6. f = Frame(132, <<>>, <<a>>, 0) => IsAcc(f, a)
  BY <1>2, FrameFields DEF IsAcc
<1>7. f = Frame(136, <<g>>, <<>>, 0) => IsGyr(f, g)
  BY <1>3, FrameFields DEF IsGyr
<1>8. f = Frame(140, <<g>>, <<a>>, 0) => IsBoth(f, g, a)
  <2> SUFFICES ASSUME f = Frame(140, <<g>>, <<a>>, 0) PROVE IsBoth(f, g, a)
    OBVIOUS
  <2>1. f.gyr = <<g>> /\ f.acc = <<a>>
    <3>1. PICK h, n, gyr, acc : h = 140 /\ n = 0 /\ gyr = <<g>> /\ acc = <<a>> /\ f = Frame(h, gyr, acc, n)
      OBVIOUS
    <3>2. Frame(h, gyr, acc, n).gyr = gyr /\ Frame(h, gyr, acc, n).acc = acc
      BY ONLY TRUE DEF Frame
    <3> QED
      BY <3>1, <3>2, Zenon
  <2>2. HeadedBy(Bytes(f), 140, 13) /\ Carries(Bytes(f), 1, g) /\ Carries(Bytes(f), 7, a)
    BY <1>4
  <2> QED
    BY <2>1, <2>2 DEF IsBoth
<1> QED
  BY <1>6, <1>7, <1>8

LEMMA FrameShapes ==
  ASSUME NEW f \in AllFrames
  PROVE  \/ IsControl(f)
         \/ \E a \in Samples : IsAcc(f, a)
         \/ \E g \in Samples : IsGyr(f, g)
         \/ \E g \in Samples, a \in Samples : IsBoth(f, g, a)
<1>1. CASE f = Frame(64, <<>>, <<>>, 1) \/ f = Frame(72, <<>>, <<>>, 4)
  BY <1>1, ControlShape
<1>2. CASE \E a \in Samples : f = Frame(132, <<>>, <<a>>, 0)
  BY <1>2, DataShapes
<1>3. CASE \E g \in Samples : f = Frame(136, <<g>>, <<>>, 0)
  BY <1>3, DataShapes
<1>4. CASE \E g \in Samples, a \in Samples : f = Frame(140, <<g>>, <<a>>, 0)
  <2>1. PICK g \in Samples, a \in Samples : f = Frame(140, <<g>>, <<a>>, 0)
    BY <1>4
  <2>2. IsBoth(f, g, a)
    BY <2>1, DataShapes
  <2> QED
    BY <2>2
<1> QED
  BY <1>1, <1>2, <1>3, <1>4, FramesAre

LEMMA FrameTypes ==
  ASSUME NEW f \in AllFrames
  PROVE  /\ Bytes(f) \in Seq(Byte) /\ Len(Bytes(f)) >= 1
         /\ f.acc = <<>> \/ \E s \in Samples : f.acc = <<s>>
         /\ f.gyr = <<>> \/ \E s \in Samples : f.gyr = <<s>>
BY FrameShapes DEF IsControl, IsAcc, IsGyr, IsBoth, HeadedBy

-----------------------------------------------------------------------------
(* A round of the loop at the head of a frame.                             *)
HoldsAt(f) == \A k \in 1..Len(Bytes(f)) : fifo[i + k - 1] = Bytes(f)[k]

LEMMA HeadBits ==
  /\ HasBit(64, 64) /\ HasBit(72, 64)
  /\ ~HasBit(132, 64) /\ ~HasBit(136, 64) /\ ~HasBit(140, 64)
  /\ HasBit(132, 128) /\ HasBit(136, 128) /\ HasBit(140, 128)
  /\ Parameter(64) = 0 /\ Parameter(72) = 2
  /\ Parameter(132) = 1 /\ Parameter(136) = 2 /\ Parameter(140) = 3
  /\ ~HasBit(1, 2) /\ HasBit(1, 1) /\ HasBit(2, 2) /\ ~HasBit(2, 1)
  /\ HasBit(3, 2) /\ HasBit(3, 1)
BY DEF HasBit, Parameter

LEMMA RoundOnControl ==
  ASSUME fifo[i] \in {64, 72}, ControlFrame \/ DataFrame
  PROVE  /\ acc_table' = acc_table /\ gyr_table' = gyr_table
         /\ fifo[i] = 64 => i' = i + 2
         /\ fifo[i] = 72 => i' = i + 5
<1>1. ControlFrame
  BY HeadBits DEF DataFrame
<1>2. ControlLength(Parameter(64)) = 2 /\ ControlLength(Parameter(72)) = 5
  BY HeadBits DEF ControlLength
<1> QED
  BY <1>1, <1>2 DEF ControlFrame

LEMMA RoundOnData ==
  ASSUME i \in Nat, fifo[i] \in {132, 136, 140}, ControlFrame \/ DataFrame
  PROVE  /\ fifo[i] = 132 => /\ gyr_table' = gyr_table
                             /\ acc_table' = Push(acc_table, Axis(i + 1))
                             /\ i' = i + 7
         /\ fifo[i] = 136 => /\ gyr_table' = Push(gyr_table, Axis(i + 1))
                             /\ acc_table' = acc_table
                             /\ i' = i + 7
         /\ fifo[i] = 140 => /\ gyr_table' = Push(gyr_table, Axis(i + 1))
                             /\ acc_table' = Push(acc_table, Axis(i + 7))
                             /\ i' = i + 13
<1>1. DataFrame
  BY HeadBits DEF ControlFrame
<1> DEFINE enable == Parameter(fifo[i])
<1>2. /\ gyr_table' = IF HasBit(enable, 2) THEN Push(gyr_table, Axis(i + 1)) ELSE gyr_table
      /\ acc_table' = IF HasBit(enable, 1) THEN Push(acc_table, Axis(Behind(i + 1, HasBit(enable, 2)))) ELSE acc_table
      /\ i' = Behind(Behind(i + 1, HasBit(enable, 2)), HasBit(enable, 1))
  BY <1>1, RoundIs, Zenon
<1> HIDE DEF enable
<1>3. ASSUME NEW n \in Nat, NEW p
      PROVE  (p => Behind(n, p) = n + 6) /\ (~p => Behind(n, p) = n)
  BY DEF Behind
<1>4. CASE fifo[i] = 132
  <2>1. ~HasBit(enable, 2) /\ HasBit(enable, 1)
    <3>1. enable = 1
      BY <1>4, HeadBits DEF enable
    <3> QED
      BY <3>1, HeadBits
  <2>2. Behind(i + 1, HasBit(enable, 2)) = i + 1 /\ Behind(i + 1, HasBit(enable, 1)) = i + 7
    BY <1>3, <2>1
  <2>3. gyr_table' = gyr_table /\ acc_table' = Push(acc_table, Axis(i + 1)) /\ i' = i + 7
    BY <1>2, <2>1, <2>2, Zenon
  <2> QED
    BY <1>4, <2>3
<1>5. CASE fifo[i] = 136
  <2>1. HasBit(enable, 2) /\ ~HasBit(enable, 1)
    <3>1. enable = 2
      BY <1>5, HeadBits DEF enable
    <3> QED
      BY <3>1, HeadBits
  <2>2. Behind(i + 1, HasBit(enable, 2)) = i + 7 /\ Behind(i + 7, HasBit(enable, 1)) = i + 7
    BY <1>3, <2>1
  <2>3. gyr_table' = Push(gyr_table, Axis(i + 1)) /\ acc_table' = acc_table /\ i' = i + 7
    BY <1>2, <2>1, <2>2, Zenon
  <2> QED
    BY <1>5, <2>3
<1>6. CASE fifo[i] = 140
  <2>1. HasBit(enable, 2) /\ HasBit(enable, 1)
    <3>1. enable = 3
      BY <1>6, HeadBits DEF enable
    <3> QED
      BY <3>1, HeadBits
  <2>2. Behind(i + 1, HasBit(enable, 2)) = i + 7 /\ Behind(i + 7, HasBit(enable, 1)) = i + 13
    BY <1>3, <2>1
  <2>3. /\ gyr_table' = Push(gyr_table, Axis(i + 1)) /\ acc_table' = Push(acc_table, Axis(i + 7))
        /\ i' = i + 13
    BY <1>2, <2>1, <2>2, Zenon
  <2> QED
    BY <1>6, <2>3
<1> QED
  BY <1>4, <1>5, <1>6

(* A frame at the position is taken whole, and its samples are pushed.     *)
Takes(f) ==
  /\ i' = i + Len(Bytes(f))
  /\ acc_table' = Kept(acc_table, f.acc)
  /\ gyr_table' = Kept(gyr_table, f.gyr)

LEMMA HeldSample ==
  ASSUME i \in Nat, NEW f, NEW n \in Nat, NEW m \in Nat, NEW s \in Samples, HoldsAt(f),
         m = Len(Bytes(f)), n + 6 <= m, Carries(Bytes(f), n, s), Bytes(f) \in Seq(Byte)
  PROVE  Axis(i + n) = s
<1>1. PICK b \in Seq(Byte) : b = Bytes(f)
  OBVIOUS
<1>2. PICK p \in Nat : p = i + n
  OBVIOUS
<1>3. ASSUME NEW k \in 1..6 PROVE fifo[p + k - 1] = Encoded(s)[k]
  <2>1. PICK q \in 1..m : q = n + k
    OBVIOUS
  <2>2. fifo[i + q - 1] = b[q]
    BY <1>1, <2>1 DEF HoldsAt
  <2>3. b[q] = Encoded(s)[k]
    BY <1>1, <2>1 DEF Carries
  <2>4. i + q - 1 = p + k - 1
    BY <1>2, <2>1
  <2> QED
    BY <2>2, <2>3, <2>4
<1>4. Axis(p) = s
  BY <1>3, AxisDecodes, BufferOK
<1> QED
  BY <1>2, <1>4

LEMMA RoundTakes ==
  ASSUME TypeOK, NEW f \in AllFrames, HoldsAt(f)
  PROVE  /\ ~Unknown(fifo[i])
         /\ ControlFrame \/ DataFrame => Takes(f)
<1>1. i \in Nat /\ acc_table \in Seq(Axes) /\ gyr_table \in Seq(Axes)
      /\ Len(acc_table) <= TableLength /\ Len(gyr_table) <= TableLength
  BY DEF TypeOK, LongestFrame
<1>2. /\ Kept(acc_table, <<>>) = acc_table /\ Kept(gyr_table, <<>>) = gyr_table
      /\ \A s \in Samples : /\ Kept(acc_table, <<s>>) = Push(acc_table, s)
                            /\ Kept(gyr_table, <<s>>) = Push(gyr_table, s)
  BY <1>1, KeptNothing, KeptOne, BufferOK
<1>3. ASSUME NEW h, NEW n \in Nat \ {0}, HeadedBy(Bytes(f), h, n)
      PROVE  fifo[i] = h /\ Bytes(f) \in Seq(Byte) /\ Len(Bytes(f)) = n
  <2>1. Bytes(f) \in Seq(Byte) /\ Len(Bytes(f)) = n /\ Bytes(f)[1] = h
    BY <1>3 DEF HeadedBy
  <2>2. fifo[i + 1 - 1] = Bytes(f)[1]
    BY <2>1 DEF HoldsAt
  <2>3. i + 1 - 1 = i
    BY <1>1
  <2> QED
    BY <2>1, <2>2, <2>3
<1>4. CASE IsControl(f)
  <2>1. PICK h \in {64, 72}, n \in Nat \ {0} :
          HeadedBy(Bytes(f), h, n) /\ (h = 64 => n = 2) /\ (h = 72 => n = 5)
    BY <1>4 DEF IsControl
  <2>2. fifo[i] = h /\ Len(Bytes(f)) = n
    BY <1>3, <2>1
  <2>3. ~Unknown(fifo[i])
    BY <2>1, <2>2, HeadBits DEF Unknown
  <2>4. ASSUME ControlFrame \/ DataFrame PROVE Takes(f)
    <3>1. /\ acc_table' = acc_table /\ gyr_table' = gyr_table
          /\ fifo[i] = 64 => i' = i + 2
          /\ fifo[i] = 72 => i' = i + 5
      BY <2>1, <2>2, <2>4, RoundOnControl
    <3>2. i' = i + n
      BY <2>1, <2>2, <3>1
    <3> QED
      BY <1>2, <1>4, <2>2, <3>1, <3>2 DEF Takes, IsControl
  <2> QED
    BY <2>3, <2>4
<1>5. ASSUME NEW h \in {132, 136, 140}, fifo[i] = h PROVE ~Unknown(fifo[i])
  BY <1>5, HeadBits DEF Unknown
<1>6. CASE \E a \in Samples : IsAcc(f, a)
  <2>1. PICK a \in Samples : IsAcc(f, a)
    BY <1>6
  <2>2. fifo[i] = 132 /\ Bytes(f) \in Seq(Byte) /\ Len(Bytes(f)) = 7
    <3>1. PICK h, n \in Nat \ {0} : h = 132 /\ n = 7 /\ HeadedBy(Bytes(f), h, n)
      BY <2>1 DEF IsAcc
    <3> QED
      BY <1>3, <3>1
  <2>3. Axis(i + 1) = a
    <3>1. PICK n \in Nat, m \in Nat : n = 1 /\ m = 7 /\ Carries(Bytes(f), n, a)
      BY <2>1 DEF IsAcc
    <3>2. m = Len(Bytes(f)) /\ n + 6 <= m
      BY <2>2, <3>1
    <3>3. Axis(i + n) = a
      BY <1>1, <2>2, <3>1, <3>2, HeldSample
    <3> QED
      BY <3>1, <3>3
  <2>4. ASSUME ControlFrame \/ DataFrame PROVE Takes(f)
    <3>1. i' = i + 7 /\ acc_table' = Push(acc_table, a) /\ gyr_table' = gyr_table
      BY <1>1, <2>2, <2>3, <2>4, RoundOnData
    <3> QED
      BY <1>2, <2>1, <2>2, <3>1 DEF Takes, IsAcc
  <2> QED
    BY <1>5, <2>2, <2>4
<1>7. CASE \E g \in Samples : IsGyr(f, g)
  <2>1. PICK g \in Samples : IsGyr(f, g)
    BY <1>7
  <2>2. fifo[i] = 136 /\ Bytes(f) \in Seq(Byte) /\ Len(Bytes(f)) = 7
    <3>1. PICK h, n \in Nat \ {0} : h = 136 /\ n = 7 /\ HeadedBy(Bytes(f), h, n)
      BY <2>1 DEF IsGyr
    <3> QED
      BY <1>3, <3>1
  <2>3. Axis(i + 1) = g
    <3>1. PICK n \in Nat, m \in Nat : n = 1 /\ m = 7 /\ Carries(Bytes(f), n, g)
      BY <2>1 DEF IsGyr
    <3>2. m = Len(Bytes(f)) /\ n + 6 <= m
      BY <2>2, <3>1
    <3>3. Axis(i + n) = g
      BY <1>1, <2>2, <3>1, <3>2, HeldSample
    <3> QED
      BY <3>1, <3>3
  <2>4. ASSUME ControlFrame \/ DataFrame PROVE Takes(f)
    <3>1. i' = i + 7 /\ acc_table' = acc_table /\ gyr_table' = Push(gyr_table, g)
      BY <1>1, <2>2, <2>3, <2>4, RoundOnData
    <3> QED
      BY <1>2, <2>1, <2>2, <3>1 DEF Takes, IsGyr
  <2> QED
    BY <1>5, <2>2, <2>4
<1>8. CASE \E g \in Samples, a \in Samples : IsBoth(f, g, a)
  <2>1. PICK g \in Samples, a \in Samples : IsBoth(f, g, a)
    BY <1>8
  <2>2. fifo[i] = 140 /\ Bytes(f) \in Seq(Byte) /\ Len(Bytes(f)) = 13
    <3>1. PICK h, n \in Nat \ {0} : h = 140 /\ n = 13 /\ HeadedBy(Bytes(f), h, n)
      BY <2>1 DEF IsBoth
    <3> QED
      BY <1>3, <3>1
  <2>3. Axis(i + 1) = g /\ Axis(i + 7) = a
    <3>1. PICK n \in Nat, p \in Nat, m \in Nat :
            n = 1 /\ p = 7 /\ m = 13 /\ Carries(Bytes(f), n, g) /\ Carries(Bytes(f), p, a)
      BY <2>1 DEF IsBoth
    <3>2. m = Len(Bytes(f)) /\ n + 6 <= m /\ p + 6 <= m
      BY <2>2, <3>1
    <3>3. Axis(i + n) = g /\ Axis(i + p) = a
      BY <1>1, <2>2, <3>1, <3>2, HeldSample
    <3> QED
      BY <3>1, <3>3
  <2>4. ASSUME ControlFrame \/ DataFrame PROVE Takes(f)
    <3>1. i' = i + 13 /\ acc_table' = Push(acc_table, a) /\ gyr_table' = Push(gyr_table, g)
      BY <1>1, <2>2, <2>3, <2>4, RoundOnData
    <3> QED
      BY <1>2, <2>1, <2>2, <3>1 DEF Takes, IsBoth
  <2> QED
    BY <1>5, <2>2, <2>4
<1> QED
  BY <1>4, <1>6, <1>7, <1>8, FrameShapes

-----------------------------------------------------------------------------
(* What the first frames come to, and one more: of their bytes, and of     *)
(* their samples, which are given as a function of a frame.                *)
Flat(fs, g)    == FlattenSeq([j \in DOMAIN fs |-> g[fs[j]]])
Gives(g, T, S) == \A f \in T : g[f] \in Seq(S)

FlatGrows(g, S, fs, m, k) ==
  /\ Flat(SubSeq(fs, 1, m), g) = Flat(SubSeq(fs, 1, k), g) \o g[fs[m]]
  /\ Flat(SubSeq(fs, 1, k), g) \in Seq(S)
  /\ Flat(fs, g) \in Seq(S)
  /\ \E rest \in Seq(S) : Flat(fs, g) = Flat(SubSeq(fs, 1, m), g) \o rest

LEMMA FlatPrefix ==
  ASSUME NEW T, NEW S, NEW g, Gives(g, T, S), NEW fs \in Seq(T),
         NEW m \in 1..Len(fs), NEW k \in 0..Len(fs), k = m - 1
  PROVE  FlatGrows(g, S, fs, m, k)
<1>1. PICK runs \in Seq(Seq(S)) :
        /\ runs = [j \in DOMAIN fs |-> g[fs[j]]] /\ Len(runs) = Len(fs)
        /\ runs[m] = g[fs[m]]
  <2>1. PICK R : R = Seq(S)
    OBVIOUS
  <2>2. /\ [j \in DOMAIN fs |-> g[fs[j]]] \in Seq(R)
        /\ Len([j \in DOMAIN fs |-> g[fs[j]]]) = Len(fs)
        /\ [j \in DOMAIN fs |-> g[fs[j]]][m] = g[fs[m]]
    BY <2>1 DEF Gives
  <2> QED
    BY <2>1, <2>2, Zenon
<1>2. ASSUME NEW n \in 0..Len(fs)
      PROVE  [j \in DOMAIN SubSeq(fs, 1, n) |-> g[SubSeq(fs, 1, n)[j]]] = SubSeq(runs, 1, n)
  BY <1>1
<1>3. /\ Flat(fs, g) = FlattenSeq(runs)
      /\ Flat(SubSeq(fs, 1, m), g) = FlattenSeq(SubSeq(runs, 1, m))
      /\ Flat(SubSeq(fs, 1, k), g) = FlattenSeq(SubSeq(runs, 1, k))
  <2>1. m \in 0..Len(fs)
    OBVIOUS
  <2> QED
    BY <1>1, <1>2, <2>1, Zenon DEF Flat
<1>4. /\ FlattenSeq(SubSeq(runs, 1, m)) = FlattenSeq(SubSeq(runs, 1, k)) \o runs[m]
      /\ FlattenSeq(runs) = FlattenSeq(SubSeq(runs, 1, m))
                              \o FlattenSeq(SubSeq(runs, m + 1, Len(runs)))
      /\ FlattenSeq(SubSeq(runs, 1, k)) \in Seq(S)
      /\ FlattenSeq(SubSeq(runs, m + 1, Len(runs))) \in Seq(S)
  <2>1. m \in 1..Len(runs) /\ k \in 0..Len(runs)
    BY <1>1
  <2> QED
    BY <1>1, <2>1, FlattenPrefix
<1>5. FlattenSeq(runs) \in Seq(S)
  BY <1>1, FlattenType
<1> QED
  BY <1>1, <1>3, <1>4, <1>5, Zenon DEF FlatGrows

LEMMA FramesPrefix ==
  ASSUME NEW fs \in Seq(AllFrames), NEW m \in 1..Len(fs), NEW k \in 0..Len(fs), k = m - 1
  PROVE  /\ Written(SubSeq(fs, 1, m)) = Written(SubSeq(fs, 1, k)) \o Bytes(fs[m])
         /\ Written(SubSeq(fs, 1, k)) \in Seq(Byte)
         /\ \E rest \in Seq(Byte) : Written(fs) = Written(SubSeq(fs, 1, m)) \o rest
         /\ AccSamples(SubSeq(fs, 1, m)) = AccSamples(SubSeq(fs, 1, k)) \o fs[m].acc
         /\ AccSamples(SubSeq(fs, 1, k)) \in Seq(Axes)
         /\ GyrSamples(SubSeq(fs, 1, m)) = GyrSamples(SubSeq(fs, 1, k)) \o fs[m].gyr
         /\ GyrSamples(SubSeq(fs, 1, k)) \in Seq(Axes)
<1>b. PICK b : b = [f \in AllFrames |-> Bytes(f)]
  OBVIOUS
<1>a. PICK a : a = [f \in AllFrames |-> f.acc]
  OBVIOUS
<1>g. PICK g : g = [f \in AllFrames |-> f.gyr]
  OBVIOUS
<1>1. Gives(b, AllFrames, Byte) /\ Gives(a, AllFrames, Axes) /\ Gives(g, AllFrames, Axes)
  <2>1. ASSUME NEW f \in AllFrames
        PROVE  Bytes(f) \in Seq(Byte) /\ f.acc \in Seq(Axes) /\ f.gyr \in Seq(Axes)
    <3>1. <<>> \in Seq(Axes) /\ \A s \in Samples : <<s>> \in Seq(Axes)
      BY BufferOK
    <3> QED
      BY <3>1, FrameTypes
  <2> QED
    BY <1>b, <1>a, <1>g, <2>1 DEF Gives
<1>2. ASSUME NEW ff \in Seq(AllFrames)
      PROVE  Written(ff) = Flat(ff, b) /\ AccSamples(ff) = Flat(ff, a) /\ GyrSamples(ff) = Flat(ff, g)
  <2>1. /\ [j \in DOMAIN ff |-> b[ff[j]]] = [j \in DOMAIN ff |-> Bytes(ff[j])]
        /\ [j \in DOMAIN ff |-> a[ff[j]]] = [j \in DOMAIN ff |-> ff[j].acc]
        /\ [j \in DOMAIN ff |-> g[ff[j]]] = [j \in DOMAIN ff |-> ff[j].gyr]
    BY <1>b, <1>a, <1>g
  <2> QED
    BY <2>1, Zenon DEF Written, AccSamples, GyrSamples, Flat
<1>3. PICK f \in AllFrames : f = fs[m]
  OBVIOUS
<1>4. b[fs[m]] = Bytes(fs[m]) /\ a[fs[m]] = fs[m].acc /\ g[fs[m]] = fs[m].gyr
  BY <1>b, <1>a, <1>g, <1>3
<1>5. SubSeq(fs, 1, m) \in Seq(AllFrames) /\ SubSeq(fs, 1, k) \in Seq(AllFrames)
  OBVIOUS
<1>6. FlatGrows(b, Byte, fs, m, k) /\ FlatGrows(a, Axes, fs, m, k) /\ FlatGrows(g, Axes, fs, m, k)
  BY <1>1, FlatPrefix
<1> QED
  BY <1>2, <1>4, <1>5, <1>6, Zenon DEF FlatGrows

(* Where the next frame is among the bytes written.                        *)
IsNext(fs, m, p, b) ==
  /\ p \in Seq(Byte) /\ b \in Seq(Byte) /\ Len(b) >= 1
  /\ Len(Written(SubSeq(fs, 1, m))) = Len(p) + Len(b)
  /\ Len(p) + Len(b) <= Len(Written(fs))
  /\ \A j \in 1..Len(b) : Written(fs)[Len(p) + j] = b[j]

LEMMA NextFrame ==
  ASSUME NEW fs \in Seq(AllFrames), NEW m \in 1..Len(fs), NEW k \in 0..Len(fs), k = m - 1,
         NEW p, p = Written(SubSeq(fs, 1, k)), NEW b, b = Bytes(fs[m])
  PROVE  IsNext(fs, m, p, b)
<1>1. p \in Seq(Byte) /\ b \in Seq(Byte) /\ Len(b) >= 1
  <2>1. fs[m] \in AllFrames
    OBVIOUS
  <2> QED
    BY <2>1, FrameTypes, FramesPrefix
<1>2. PICK rest \in Seq(Byte) : Written(fs) = (p \o b) \o rest
  BY FramesPrefix, Zenon
<1>3. Written(SubSeq(fs, 1, m)) = p \o b
  BY FramesPrefix, Zenon
<1>4. PICK q \in Seq(Byte) :
        /\ q = p \o b /\ Len(q) = Len(p) + Len(b)
        /\ \A j \in 1..Len(b) : q[Len(p) + j] = b[j]
  <2>1. /\ p \o b \in Seq(Byte) /\ Len(p \o b) = Len(p) + Len(b)
        /\ \A j \in 1..Len(b) : (p \o b)[Len(p) + j] = b[j]
    BY <1>1, Joined
  <2> QED
    BY <2>1
<1>5. PICK w \in Seq(Byte) :
        /\ w = q \o rest /\ Len(w) = Len(q) + Len(rest)
        /\ \A j \in 1..Len(q) : w[j] = q[j]
  <2>1. /\ q \o rest \in Seq(Byte) /\ Len(q \o rest) = Len(q) + Len(rest)
        /\ \A j \in 1..Len(q) : (q \o rest)[j] = q[j]
    BY ONLY q \in Seq(Byte), rest \in Seq(Byte), Joined
  <2> QED
    BY <2>1
<1>6. Written(fs) = w
  BY <1>2, <1>4, <1>5, Zenon
<1>7. Len(p) + Len(b) <= Len(w) /\ \A j \in 1..Len(b) : w[Len(p) + j] = b[j]
  <2>1. Len(p) \in Nat /\ Len(b) \in Nat /\ Len(rest) \in Nat
    BY <1>1
  <2>2. ASSUME NEW j \in 1..Len(b) PROVE w[Len(p) + j] = b[j]
    <3>1. PICK n \in 1..Len(q) : n = Len(p) + j
      BY <1>4, <2>1
    <3> QED
      BY <1>4, <1>5, <3>1
  <2> QED
    BY <1>4, <1>5, <2>1, <2>2
<1> QED
  BY <1>1, <1>3, <1>4, <1>6, <1>7, Zenon DEF IsNext

-----------------------------------------------------------------------------
(* The inductive invariant of a call on whole frames: the buffer holds     *)
(* their bytes, and the decoder is behind the first k of them, with their  *)
(* samples pushed.                                                         *)
HoldsWritten ==
  /\ fifo_depth = Len(Written(frames))
  /\ \A n \in 1..fifo_depth : fifo[n - 1] = Written(frames)[n]

TablesWere ==
  /\ before.acc \in Seq(Axes) /\ Len(before.acc) <= TableLength
  /\ before.gyr \in Seq(Axes) /\ Len(before.gyr) <= TableLength

BehindFrames(k) ==
  /\ i = Len(Written(SubSeq(frames, 1, k)))
  /\ acc_table = Kept(before.acc, AccSamples(SubSeq(frames, 1, k)))
  /\ gyr_table = Kept(before.gyr, GyrSamples(SubSeq(frames, 1, k)))

WholeInv ==
  whole => /\ frames \in Seq(AllFrames)
           /\ HoldsWritten
           /\ TablesWere
           /\ \E k \in 0..Len(frames) : BehindFrames(k)

(* Bytes left to decode begin with a frame.                                *)
LEMMA FrameAhead ==
  ASSUME TypeOK, frames \in Seq(AllFrames), HoldsWritten,
         NEW k \in 0..Len(frames), BehindFrames(k), NEW m, m = k + 1, k < Len(frames)
  PROVE  /\ m \in 1..Len(frames) /\ k = m - 1
         /\ frames[m] \in AllFrames
         /\ HoldsAt(frames[m])
         /\ i + Len(Bytes(frames[m])) = Len(Written(SubSeq(frames, 1, m)))
         /\ i < fifo_depth
<1>1. m \in 1..Len(frames) /\ k = m - 1 /\ frames[m] \in AllFrames
  OBVIOUS
<1>2. PICK p, b : p = Written(SubSeq(frames, 1, k)) /\ b = Bytes(frames[m])
  OBVIOUS
<1>3. /\ p \in Seq(Byte) /\ b \in Seq(Byte) /\ Len(b) >= 1
      /\ Len(Written(SubSeq(frames, 1, m))) = Len(p) + Len(b)
      /\ Len(p) + Len(b) <= Len(Written(frames))
      /\ \A j \in 1..Len(b) : Written(frames)[Len(p) + j] = b[j]
  <2>1. IsNext(frames, m, p, b)
    BY <1>1, <1>2, NextFrame
  <2> QED
    BY <2>1, Zenon DEF IsNext
<1>4. i = Len(p) /\ fifo_depth = Len(Written(frames)) /\ fifo_depth \in Nat
  BY <1>2 DEF BehindFrames, HoldsWritten, TypeOK
<1>5. ASSUME NEW j \in 1..Len(b) PROVE fifo[i + j - 1] = b[j]
  <2>1. Len(p) \in Nat /\ Len(b) \in Nat
    BY <1>3
  <2>2. PICK n \in 1..fifo_depth : n = Len(p) + j
    BY <1>3, <1>4, <2>1
  <2>3. fifo[n - 1] = Written(frames)[n]
    BY DEF HoldsWritten
  <2>4. Written(frames)[n] = b[j]
    BY <1>3, <2>2
  <2>5. i + j - 1 = n - 1
    BY <1>4, <2>1, <2>2
  <2> QED
    BY <2>3, <2>4, <2>5
<1>6. HoldsAt(frames[m])
  BY <1>2, <1>5, Zenon DEF HoldsAt
<1>7. i + Len(b) = Len(Written(SubSeq(frames, 1, m))) /\ i < fifo_depth
  <2>1. Len(p) \in Nat /\ Len(b) \in Nat
    BY <1>3
  <2> QED
    BY <1>3, <1>4, <2>1
<1> QED
  BY <1>1, <1>2, <1>6, <1>7

LEMMA FramesLeft ==
  ASSUME TypeOK, frames \in Seq(AllFrames), HoldsWritten,
         NEW k \in 0..Len(frames), BehindFrames(k), More
  PROVE  k < Len(frames)
<1>1. ASSUME k = Len(frames) PROVE FALSE
  <2>1. SubSeq(frames, 1, k) = frames
    BY <1>1
  <2>2. i = fifo_depth
    BY <2>1 DEF BehindFrames, HoldsWritten
  <2> QED
    BY <2>2 DEF More, TypeOK
<1> QED
  BY <1>1

LEMMA EndsBehindAll ==
  ASSUME TypeOK, WholeInv, whole, ~More
  PROVE  /\ i = fifo_depth
         /\ acc_table = Kept(before.acc, AccSamples(frames))
         /\ gyr_table = Kept(before.gyr, GyrSamples(frames))
<1>1. frames \in Seq(AllFrames) /\ HoldsWritten
  BY DEF WholeInv
<1>2. PICK k \in 0..Len(frames) : BehindFrames(k)
  BY DEF WholeInv
<1>3. ASSUME k < Len(frames) PROVE FALSE
  <2>1. PICK m : m = k + 1
    OBVIOUS
  <2>2. i < fifo_depth
    BY <1>1, <1>2, <1>3, <2>1, FrameAhead
  <2> QED
    BY <2>2 DEF More
<1>4. SubSeq(frames, 1, k) = frames
  <2>1. k = Len(frames)
    BY <1>1, <1>3
  <2> QED
    BY <1>1, <2>1
<1> QED
  BY <1>1, <1>2, <1>4 DEF BehindFrames, HoldsWritten

(* At the call, it is behind none.                                         *)
LEMMA SeqOfType ==
  ASSUME NEW S, NEW n \in Nat, NEW s \in SeqOf(S, n)
  PROVE  s \in Seq(S)
BY DEF SeqOf

LEMMA NoFrames ==
  /\ Written(<<>>) = <<>> /\ AccSamples(<<>>) = <<>> /\ GyrSamples(<<>>) = <<>>
<1>1. /\ [k \in DOMAIN <<>> |-> Bytes(<<>>[k])] = <<>>
      /\ [k \in DOMAIN <<>> |-> <<>>[k].acc] = <<>>
      /\ [k \in DOMAIN <<>> |-> <<>>[k].gyr] = <<>>
  OBVIOUS
<1> QED
  BY <1>1, FlattenEmpty, Zenon DEF Written, AccSamples, GyrSamples

LEMMA WrittenType ==
  ASSUME NEW fs \in Seq(AllFrames)
  PROVE  Written(fs) \in Seq(Byte)
<1>1. [k \in DOMAIN fs |-> Bytes(fs[k])] \in Seq(Seq(Byte))
  <2>1. PICK R : R = Seq(Byte)
    OBVIOUS
  <2>2. ASSUME NEW k \in DOMAIN fs PROVE Bytes(fs[k]) \in R
    <3>1. fs[k] \in AllFrames
      OBVIOUS
    <3> QED
      BY <2>1, <3>1, FrameTypes
  <2> QED
    BY <2>1, <2>2
<1> QED
  BY <1>1, FlattenType DEF Written

LEMMA InitTypes == Init => TypeOK /\ WholeInv
<1> SUFFICES ASSUME Init PROVE TypeOK /\ WholeInv
  OBVIOUS
<1>1. CASE whole = TRUE /\ frames \in SeqOf(AllFrames, MaxFrames) /\ Called(Written(frames))
  <2>1. frames \in Seq(AllFrames)
    BY <1>1, SeqOfType, BufferOK
  <2>2. PICK w \in Seq(Byte) : w = Written(frames)
    BY <2>1, WrittenType
  <2>3. Called(w)
    BY <1>1, <2>2
  <2>4. TypeOK
    BY <2>3, CalledTypes
  <2>5. HoldsWritten
    <3>1. fifo_depth = Len(w) /\ fifo = BufferOf(w)
      BY <2>3 DEF Called
    <3>2. ASSUME NEW n \in 1..fifo_depth PROVE fifo[n - 1] = w[n]
      <4>1. PICK j \in 0..(Len(w) - 1) : j = n - 1
        BY <3>1
      <4>2. BufferOf(w)[j] = w[j + 1]
        BY BufferType
      <4> QED
        BY <3>1, <4>1, <4>2
    <3> QED
      BY <2>2, <3>1, <3>2 DEF HoldsWritten
  <2>6. TablesWere /\ before.acc = acc_table /\ before.gyr = gyr_table
    <3>1. before.acc = acc_table /\ before.gyr = gyr_table
      BY <2>3 DEF Called
    <3> QED
      BY <2>4, <3>1 DEF TablesWere, TypeOK
  <2>7. BehindFrames(0)
    <3>1. SubSeq(frames, 1, 0) = <<>>
      BY <2>1
    <3>2. i = Len(Written(SubSeq(frames, 1, 0)))
      <4>1. i = 0 /\ Len(<<>>) = 0
        BY <2>3 DEF Called
      <4> QED
        BY <3>1, <4>1, NoFrames, Zenon
    <3>3. Kept(before.acc, <<>>) = before.acc /\ Kept(before.gyr, <<>>) = before.gyr
      BY <2>6, KeptNothing DEF TablesWere
    <3>4. /\ acc_table = Kept(before.acc, AccSamples(SubSeq(frames, 1, 0)))
          /\ gyr_table = Kept(before.gyr, GyrSamples(SubSeq(frames, 1, 0)))
      BY <2>6, <3>1, <3>3, NoFrames, Zenon
    <3> QED
      BY <3>2, <3>4, Zenon DEF BehindFrames
  <2>8. \E k \in 0..Len(frames) : BehindFrames(k)
    <3>1. PICK z \in 0..Len(frames) : z = 0
      BY <2>1
    <3> QED
      BY <2>7, <3>1
  <2> QED
    BY <2>1, <2>4, <2>5, <2>6, <2>8 DEF WholeInv
<1>2. CASE whole = FALSE /\ \E bytes \in SeqOf(AnyBytes, MaxBytes) : Called(bytes)
  <2>1. PICK bytes \in SeqOf(AnyBytes, MaxBytes) : Called(bytes)
    BY <1>2
  <2>2. bytes \in Seq(Byte)
    <3>1. bytes \in Seq(AnyBytes)
      BY SeqOfType, BufferOK
    <3> QED
      BY <3>1, BufferOK
  <2> QED
    BY <1>2, <2>1, <2>2, CalledTypes DEF WholeInv
<1> QED
  BY <1>1, <1>2 DEF Init, AllFrames

(* A round takes the frame ahead, and never meets a byte without a mode    *)
(* bit.                                                                    *)
LEMMA RoundKeepsWhole ==
  ASSUME TypeOK, WholeInv, ControlFrame \/ DataFrame
  PROVE  WholeInv'
<1>1. UNCHANGED <<fifo, fifo_depth, whole, frames, before>> /\ More
  BY DEF ControlFrame, DataFrame
<1> SUFFICES ASSUME whole PROVE WholeInv'
  BY <1>1 DEF WholeInv
<1>2. frames \in Seq(AllFrames) /\ HoldsWritten /\ TablesWere
  BY DEF WholeInv
<1>3. PICK k \in 0..Len(frames) : BehindFrames(k)
  BY DEF WholeInv
<1>4. k < Len(frames)
  BY <1>1, <1>2, <1>3, FramesLeft
<1>5. PICK m : m = k + 1
  OBVIOUS
<1>6. /\ m \in 1..Len(frames) /\ k = m - 1
      /\ frames[m] \in AllFrames /\ HoldsAt(frames[m])
      /\ i + Len(Bytes(frames[m])) = Len(Written(SubSeq(frames, 1, m)))
  BY <1>2, <1>3, <1>4, <1>5, FrameAhead
<1>7. PICK f \in AllFrames : f = frames[m]
  BY <1>6
<1>8. Takes(f)
  BY <1>6, <1>7, RoundTakes
<1>9. i' = Len(Written(SubSeq(frames, 1, m)))
  BY <1>6, <1>7, <1>8, Zenon DEF Takes
<1>10. AtMostOne(f.acc, Axes) /\ AtMostOne(f.gyr, Axes)
  BY FrameTypes, BufferOK DEF AtMostOne
<1>11. acc_table' = Kept(before.acc, AccSamples(SubSeq(frames, 1, m)))
  <2>1. PICK ss \in Seq(Axes) : ss = AccSamples(SubSeq(frames, 1, k))
    BY <1>2, <1>6, FramesPrefix, Zenon
  <2>2. AccSamples(SubSeq(frames, 1, m)) = ss \o f.acc
    BY <1>2, <1>6, <1>7, <2>1, FramesPrefix, Zenon
  <2>3. acc_table' = Kept(Kept(before.acc, ss), f.acc)
    BY <1>3, <1>8, <2>1, Zenon DEF Takes, BehindFrames
  <2>4. Kept(Kept(before.acc, ss), f.acc) = Kept(before.acc, ss \o f.acc)
    <3>1. before.acc \in Seq(Axes)
      BY <1>2 DEF TablesWere
    <3>2. KeepsMore(before.acc, ss, f.acc)
      BY <1>10, <3>1, KeptMore
    <3> QED
      BY <3>2, Zenon DEF KeepsMore
  <2> QED
    BY <2>2, <2>3, <2>4, Zenon
<1>12. gyr_table' = Kept(before.gyr, GyrSamples(SubSeq(frames, 1, m)))
  <2>1. PICK ss \in Seq(Axes) : ss = GyrSamples(SubSeq(frames, 1, k))
    BY <1>2, <1>6, FramesPrefix, Zenon
  <2>2. GyrSamples(SubSeq(frames, 1, m)) = ss \o f.gyr
    BY <1>2, <1>6, <1>7, <2>1, FramesPrefix, Zenon
  <2>3. gyr_table' = Kept(Kept(before.gyr, ss), f.gyr)
    BY <1>3, <1>8, <2>1, Zenon DEF Takes, BehindFrames
  <2>4. Kept(Kept(before.gyr, ss), f.gyr) = Kept(before.gyr, ss \o f.gyr)
    <3>1. before.gyr \in Seq(Axes)
      BY <1>2 DEF TablesWere
    <3>2. KeepsMore(before.gyr, ss, f.gyr)
      BY <1>10, <3>1, KeptMore
    <3> QED
      BY <3>2, Zenon DEF KeepsMore
  <2> QED
    BY <2>2, <2>3, <2>4, Zenon
<1>13. BehindFrames(m)'
  BY <1>1, <1>9, <1>11, <1>12 DEF BehindFrames
<1>14. (\E n \in 0..Len(frames) : BehindFrames(n))'
  <2>1. m \in 0..Len(frames)
    BY <1>6
  <2> QED
    BY <1>1, <1>13, <2>1
<1>15. HoldsWritten' /\ TablesWere' /\ frames' \in Seq(AllFrames)
  BY <1>1, <1>2 DEF HoldsWritten, TablesWere
<1> QED
  BY <1>14, <1>15 DEF WholeInv

LEMMA StutterKeepsAll == TypeOK /\ WholeInv /\ UNCHANGED vars => TypeOK' /\ WholeInv'
<1> SUFFICES ASSUME TypeOK, WholeInv, UNCHANGED vars PROVE TypeOK' /\ WholeInv'
  OBVIOUS
<1>1. TypeOK'
  BY DEF vars, TypeOK
<1>2. WholeInv'
  BY DEF vars, WholeInv, HoldsWritten, TablesWere, BehindFrames
<1> QED
  BY <1>1, <1>2

LEMMA NextKeepsAll == TypeOK /\ WholeInv /\ [Next]_vars => TypeOK' /\ WholeInv'
<1> SUFFICES ASSUME TypeOK, WholeInv, [Next]_vars PROVE TypeOK' /\ WholeInv'
  OBVIOUS
<1>1. CASE ControlFrame \/ DataFrame
  BY <1>1, ControlFrameKeepsTypes, DataFrameKeepsTypes, RoundKeepsWhole
<1>2. CASE Spin
  BY <1>2, StutterKeepsAll DEF Spin
<1>3. CASE UNCHANGED vars
  BY <1>3, StutterKeepsAll
<1> QED
  BY <1>1, <1>2, <1>3 DEF Next

(* bmi270_fifo_decoder reads no byte behind the longest frame that may     *)
(* begin within those dequeued, on any bytes, and fills no table beyond    *)
(* its length.                                                             *)
THEOREM DecoderTypeCorrect == Spec => []TypeOK
<1>1. Init => TypeOK /\ WholeInv
  BY InitTypes
<1>2. TypeOK /\ WholeInv /\ [Next]_vars => (TypeOK /\ WholeInv)'
  BY NextKeepsAll
<1> QED
  BY <1>1, <1>2, PTL DEF Spec

(* Called on the bytes of any number of whole frames, of any 16-bit        *)
(* samples, bmi270_fifo_decoder ends just behind the last one, with        *)
(* exactly the samples of the frames pushed, in order.                     *)
THEOREM DecoderRecovers == Spec => []DecodesFrames
<1>1. Init => TypeOK /\ WholeInv
  BY InitTypes
<1>2. TypeOK /\ WholeInv /\ [Next]_vars => (TypeOK /\ WholeInv)'
  BY NextKeepsAll
<1>3. TypeOK /\ WholeInv => DecodesFrames
  BY EndsBehindAll DEF DecodesFrames
<1> QED
  BY <1>1, <1>2, <1>3, PTL DEF Spec

(* On whole frames it never meets a byte with neither mode bit, so that    *)
(* the round that goes nowhere is never taken.                             *)
THEOREM NoSpinOnFrames == Spec => [](whole /\ More => ~Unknown(fifo[i]))
<1>1. Init => TypeOK /\ WholeInv
  BY InitTypes
<1>2. TypeOK /\ WholeInv /\ [Next]_vars => (TypeOK /\ WholeInv)'
  BY NextKeepsAll
<1>3. ASSUME TypeOK, WholeInv, whole, More PROVE ~Unknown(fifo[i])
  <2>1. frames \in Seq(AllFrames) /\ HoldsWritten
    BY <1>3 DEF WholeInv
  <2>2. PICK k \in 0..Len(frames) : BehindFrames(k)
    BY <1>3 DEF WholeInv
  <2>3. k < Len(frames)
    BY <1>3, <2>1, <2>2, FramesLeft
  <2>4. PICK m : m = k + 1
    OBVIOUS
  <2>5. PICK f \in AllFrames : HoldsAt(f)
    BY <1>3, <2>1, <2>2, <2>3, <2>4, FrameAhead
  <2> QED
    BY <1>3, <2>5, RoundTakes
<1> QED
  BY <1>1, <1>2, <1>3, PTL DEF Spec

(* On any bytes a round that moves goes forward, by no more than the       *)
(* longest frame.                                                          *)
Forward == i < i' /\ i' <= i + LongestFrame

THEOREM RoundsGoForward == Spec => [][Forward]_vars
<1>1. Init => TypeOK /\ WholeInv
  BY InitTypes
<1>2. TypeOK /\ WholeInv /\ [Next]_vars => (TypeOK /\ WholeInv)'
  BY NextKeepsAll
<1>3. ASSUME TypeOK, [Next]_vars PROVE [Forward]_vars
  <2>1. i \in Nat
    BY <1>3 DEF TypeOK, LongestFrame
  <2>2. CASE ControlFrame
    <3>1. \A type : ControlLength(type) \in {1, 2, 3, 5}
      BY DEF ControlLength
    <3>2. PICK step \in {1, 2, 3, 5} : i' = i + step
      BY <2>2, <3>1 DEF ControlFrame
    <3> QED
      BY <2>1, <3>2 DEF Forward, LongestFrame
  <2>3. CASE DataFrame
    <3>1. PICK n \in Nat : n = i + 1
      BY <2>1
    <3>2. PICK p, q : i' = Behind(Behind(n, p), q)
      BY <2>3, <3>1, RoundIs, Zenon
    <3>3. Behind(n, p) \in {n, n + 6}
      BY BehindType
    <3>4. PICK at \in Nat : at = Behind(n, p) /\ at \in {n, n + 6}
      BY <3>3
    <3>5. i' \in {at, at + 6}
      BY <3>2, <3>4, BehindType
    <3> QED
      BY <2>1, <3>1, <3>4, <3>5 DEF Forward, LongestFrame
  <2>4. CASE Spin
    BY <2>4 DEF Spin
  <2> QED
    BY <1>3, <2>2, <2>3, <2>4 DEF Next
<1> QED
  BY <1>1, <1>2, <1>3, PTL DEF Spec
=============================================================================
