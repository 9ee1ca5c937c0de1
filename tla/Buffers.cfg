CONSTANTS
  CharSigned = TRUE
  Bytes = {0, 65, 200}
  MaxLength = 3
  MaxShort = 2
  MaxCalls = 3
SPECIFICATION BSpec
INVARIANTS BufferOpsExact StringSound
CHECK_DEADLOCK FALSE
