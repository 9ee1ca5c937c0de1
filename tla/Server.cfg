SPECIFICATION Spec
CONSTANTS
  Sockets = {s1, s2, s3}
  MaxCalls = 3
  Relisten = FALSE
PROPERTIES
  CloseMeansDrained
  CloseCalledBack
