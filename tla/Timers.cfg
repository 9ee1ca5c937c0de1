SPECIFICATION TSpec
CONSTANTS
  Timer = {t1, t2}
  TimeoutMax = 2
  Delays = {0, 2, 3, NaN}
  NaN = NaN
  MaxJump = 2
  NoTimer = NoTimer
  IoCallback = IoCallback
INVARIANTS HandleSafe OneShotOnce
PROPERTIES TimersServed
