\* Two failing calls, one reset of the board, a FIFO of up to three frames.
\* The thread ends after a failure, or never leaves the decoder.
SPECIFICATION Spec
CONSTANTS
  TableLength = 3
  Capacity    = 22
  MaxSamples  = 5
  MaxFaults   = 2
  MaxResets   = 1
INVARIANTS TypeOK MeasuresAfterInit SamplesOfThisRun ReadsWholeFrames
PROPERTY LatestUnlessFull
CHECK_DEADLOCK FALSE
