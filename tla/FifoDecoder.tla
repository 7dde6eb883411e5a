---------------------------- MODULE FifoDecoder ----------------------------
(***************************************************************************)
(* bmi270_fifo_decoder, one step per round of its loop, on bytes.          *)
(*                                                                         *)
(* It is started on what a dequeue may have put in the buffer: the bytes   *)
(* of whole frames, as the sensor writes them, or any bytes at all, as     *)
(* after a read that did not end with a frame.                             *)
(***************************************************************************)
EXTENDS FrameTables, SequencesExt

CONSTANTS Samples,    \* what the sensor may have measured: records x, y, z
          MaxFrames,  \* bound: frames in the buffer
          AnyBytes,   \* bytes of a buffer that holds no frames
          MaxBytes,   \* bound: how many of them
          Filler      \* the bytes of frames that the decoder does not use,
                      \* and what an earlier dequeue left behind fifo_depth

INT16_MIN == -32768
INT16_MAX == 32767
Int16 == INT16_MIN..INT16_MAX
Axes  == [x : Int16, y : Int16, z : Int16]
Byte  == 0..255

ASSUME BufferOK ==
  /\ Samples \subseteq Axes /\ Samples # {}
  /\ AnyBytes \subseteq Byte /\ Filler \in Byte
  /\ MaxFrames \in Nat /\ MaxBytes \in Nat

VARIABLES
  fifo,        \* pctrl->fifo
  fifo_depth,  \* pctrl->fifo_depth
  i,           \* the decoder's position
  acc_table,
  gyr_table,
  whole,       \* history: the buffer holds whole frames
  frames,      \* history: the frames the sensor wrote
  before       \* history: the tables when the decoder was called

vars == <<fifo, fifo_depth, i, acc_table, gyr_table, whole, frames, before>>

-----------------------------------------------------------------------------
(* The sensor.  A sample is three 16-bit two's complement numbers, low     *)
(* byte first; a data frame has the rotation before the acceleration.  (A  *)
(* time frame comes only to a reader that reads on behind the last frame.) *)
Low(v)         == v % 256
High(v)        == (v \div 256) % 256
Encoded(s)     == <<Low(s.x), High(s.x), Low(s.y), High(s.y), Low(s.z), High(s.z)>>
EncodedAll(ss) == FlattenSeq([k \in DOMAIN ss |-> Encoded(ss[k])])

Frame(head, gyr, acc, fill) == [head |-> head, gyr |-> gyr, acc |-> acc, fill |-> fill]

ControlFrames == {Frame(64, <<>>, <<>>, 1),    \* frames skipped on overflow
                  Frame(72, <<>>, <<>>, 4)}    \* a change of configuration
DataFrames == {Frame(132, <<>>, <<a>>, 0) : a \in Samples}
              \cup {Frame(136, <<g>>, <<>>, 0) : g \in Samples}
              \cup {Frame(140, <<g>>, <<a>>, 0) : g \in Samples, a \in Samples}

Unused(n) == [k \in 1..n |-> Filler]
Bytes(f)  == <<f.head>> \o EncodedAll(f.gyr) \o EncodedAll(f.acc) \o Unused(f.fill)

Written(fs)     == FlattenSeq([k \in DOMAIN fs |-> Bytes(fs[k])])
AccSamples(fs)  == FlattenSeq([k \in DOMAIN fs |-> fs[k].acc])
GyrSamples(fs)  == FlattenSeq([k \in DOMAIN fs |-> fs[k].gyr])

LongestFrame == 13
BufferOf(bytes) == [n \in 0..(Len(bytes) + LongestFrame) |->
                      IF n < Len(bytes) THEN bytes[n + 1] ELSE Filler]

TablesBefore == {[k \in 1..n |-> CHOOSE s \in Samples : TRUE] : n \in 0..TableLength}

Called(bytes) ==
  /\ fifo = BufferOf(bytes)
  /\ fifo_depth = Len(bytes)
  /\ i = 0
  /\ acc_table \in TablesBefore
  /\ gyr_table \in TablesBefore
  /\ before = [acc |-> acc_table, gyr |-> gyr_table]

Init ==
  \/ /\ whole = TRUE
     /\ frames \in SeqOf(ControlFrames \cup DataFrames, MaxFrames)
     /\ Called(Written(frames))
  \/ /\ whole = FALSE
     /\ frames = <<>>
     /\ \E bytes \in SeqOf(AnyBytes, MaxBytes) : Called(bytes)

-----------------------------------------------------------------------------
(* The decoder.                                                            *)
HasBit(byte, mask) == (byte \div mask) % 2 = 1
Parameter(byte)    == (byte \div 4) % 16

(* CONV: two bytes to an int16_t, low byte first.                          *)
Signed(u)      == IF u >= 32768 THEN u - 65536 ELSE u
ConvSwapped(n) == Signed(fifo[n] * 256 + fifo[n + 1])
Conv(n)        == Signed(fifo[n + 1] * 256 + fifo[n])
Axis(n) == [x |-> Conv(n), y |-> Conv(n + 2), z |-> Conv(n + 4)]

(* The length of a control frame, by its type.                             *)
ControlLengthStuck(type) == CASE type = 0 -> 2 [] type = 1 -> 3 [] type = 2 -> 5 [] OTHER -> 0
ControlLength(type)      == CASE type = 0 -> 2 [] type = 1 -> 3 [] type = 2 -> 5 [] OTHER -> 1

More == i < fifo_depth

ControlFrame ==
  /\ More /\ HasBit(fifo[i], 64)
  /\ i' = i + ControlLength(Parameter(fifo[i]))
  /\ UNCHANGED <<fifo, fifo_depth, acc_table, gyr_table, whole, frames, before>>

(* Where the decoder is after a sample at n, if there is one.              *)
BehindShort(n, present) == IF present THEN n + 5 ELSE n
Behind(n, present)      == IF present THEN n + 6 ELSE n

DataFrame ==
  /\ More /\ ~HasBit(fifo[i], 64) /\ HasBit(fifo[i], 128)
  /\ LET enable == Parameter(fifo[i])
         gyr    == HasBit(enable, 2)
         acc    == HasBit(enable, 1)
         accAt  == Behind(i + 1, gyr)
     IN  /\ gyr_table' = IF gyr THEN Push(gyr_table, Axis(i + 1)) ELSE gyr_table
         /\ acc_table' = IF acc THEN Push(acc_table, Axis(accAt)) ELSE acc_table
         /\ i' = Behind(accAt, acc)
  /\ UNCHANGED <<fifo, fifo_depth, whole, frames, before>>

(* Neither mode bit: the loop goes round without moving.                   *)
Unknown(byte) == ~HasBit(byte, 64) /\ ~HasBit(byte, 128)
Spin == More /\ Unknown(fifo[i]) /\ UNCHANGED vars

Next == ControlFrame \/ DataFrame \/ Spin

Spec == Init /\ [][Next]_vars /\ WF_vars(Next)

-----------------------------------------------------------------------------
(* Types of the variables of the decoder: it reads nothing behind the      *)
(* longest frame that may begin within the bytes dequeued.                 *)
TypeOK ==
  /\ fifo_depth \in Nat
  /\ fifo \in [0..(fifo_depth + LongestFrame) -> Byte]
  /\ i \in 0..(fifo_depth + LongestFrame)
  /\ acc_table \in Seq(Axes) /\ Len(acc_table) <= TableLength
  /\ gyr_table \in Seq(Axes) /\ Len(gyr_table) <= TableLength

(* bmi270_fifo_decoder, called on whole frames, ends just behind the last  *)
(* of them, and the tables have received exactly the samples of the        *)
(* frames, each axis with its sign, in order, up to their length: no       *)
(* payload is taken for a header, whatever its bytes look like.            *)
DecodesFrames ==
  whole /\ ~More =>
    /\ i = fifo_depth
    /\ acc_table = Kept(before.acc, AccSamples(frames))
    /\ gyr_table = Kept(before.gyr, GyrSamples(frames))

(* On whole frames the loop ends.                                          *)
DecoderReturns == whole ~> ~More

(* On any bytes it ends, except at a byte with neither mode bit, where it  *)
(* stays for ever (i2c_bmi270.c:165-239).                                  *)
ReturnsOrSpins == <>[](~More \/ Unknown(fifo[i]))
=============================================================================
