SPECIFICATION RSpec
CONSTANTS
  Lens = {0, 1, 2}
  MaxChunks = 4
  MaxDepth = 3
  Sizes = {0, 2, 9}
INVARIANTS
  DataOrder
  AssertionHolds
  EndIsLast
PROPERTY EndComes
CHECK_DEADLOCK FALSE
