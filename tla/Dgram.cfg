SPECIFICATION DSpec
CONSTANTS
  Messages = {m1, m2}
  Listened = {m1}
  MaxCalls = 2
  Faults = {"bind", "lookup", "refuse", "send", "recv", "listener"}
INVARIANTS
  SendsConserved
  ClosedOnce
PROPERTIES
  CloseCompletes
