CONSTANTS
  CharSigned = TRUE
  Ops = {1, 2}
  Paths = {"p", "q"}
  Kinds = {"readFile", "writeFile", "readFileSync", "writeFileSync", "stat", "statSync", "readdir"}
  Segment = 2
  Lengths = {0, 3}
  MaxTries = 1
  Faults = {"open", "read", "write", "close", "short", "refuse"}
SPECIFICATION Spec
INVARIANTS TransferWhole DescriptorsOwned NeverForgotten
CHECK_DEADLOCK FALSE
