SPECIFICATION WSpec
CONSTANTS
  HighWaterMark = 3
  Lens = {0, 1, 2}
  MaxChunks = 6
  EofMarks = {0, 2}
  WriteAfterEnd = FALSE
INVARIANTS ByteOrder Backpressure NothingStranded FinishMeansFlushed
PROPERTIES ImplementsPipe
CHECK_DEADLOCK FALSE
