SPECIFICATION SSpec
CONSTANTS
  MaxChunks = 2
  Habits = {"pause", "writeAfterEnd"}
INVARIANTS
  NoDataCut
  DestroyedIsQuiet
  HalfCloseSent
PROPERTIES
  SocketCloses
