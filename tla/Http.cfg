SPECIFICATION WebSpec
CONSTANTS
  MaxChunks = 2
  Habits = {}
  MaxMessages = 2
  MaxCallbacks = 4
INVARIANTS
  ClientTold
  ServerSound
PROPERTIES
  HttpCloses
