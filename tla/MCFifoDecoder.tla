--------------------------- MODULE MCFifoDecoder ---------------------------
(* Small instances of FifoDecoder.  One sample is negative; the bytes of   *)
(* the other look like headers, as those of any sample may.                *)
EXTENDS FifoDecoder

MCSamples == {[x |-> -2, y |-> -32768, z |-> 32767],
              [x |-> 136, y |-> 16512, z |-> 0]}

(* The header of every kind of frame, and a byte that is none.             *)
MCBytes == {0, 64, 68, 72, 76, 128, 132, 136, 140}
=============================================================================
