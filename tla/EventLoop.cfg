SPECIFICATION Spec
CONSTANTS
  Reqs = {r1}
  Handles = {h1}
  MaxTicks = 2
  MaxDepth = 2
INVARIANTS TicksConserved
PROPERTIES ExitEmittedOnce LoopProgresses WorkServed
