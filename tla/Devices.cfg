CONSTANTS
  Modules = {"gpio", "i2c", "pwm"}
  Pins = {1, 2}
  Threads = 2
  MaxRequests = 4
  CountLimit = 1
  Faulty = TRUE
  UsedPins = {1}
  MaxBusRequests = 3
  Modes = {0, 1}
  Buses = {1, 2}
  Present = {0, 1}
  Addresses = {0, 1, 5}
  MaxAddress = 2
  AddrModulus = 3
  MaxFiles = 3
  Lengths = {1, 5}
  BlockMax = 1
  LenModulus = 3
  IntMax = 15000
  Periods = {200, 400}
  Percents = {50, 100}
SPECIFICATION Spec
INVARIANTS GpioSound I2cSound PwmSound
CHECK_DEADLOCK FALSE
