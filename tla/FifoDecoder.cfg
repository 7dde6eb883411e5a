\* Up to three whole frames, or any four bytes that may stand for headers,
\* on tables from empty to full.  The decoder returns, and that is the end.
SPECIFICATION Spec
CONSTANTS
  TableLength = 2
  Samples     <- MCSamples
  MaxFrames   = 3
  AnyBytes    <- MCBytes
  MaxBytes    = 4
  Filler      = 136
INVARIANTS TypeOK DecodesFrames
PROPERTIES DecoderReturns ReturnsOrSpins
CHECK_DEADLOCK FALSE
