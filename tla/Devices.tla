------------------------------- MODULE Devices --------------------------------
(***************************************************************************)
(* The device modules gpio, i2c and pwm on the thread pool that they share *)
(* with each other.  A process uses one of them, which bounds the states   *)
(* and loses nothing: they share no state but the threads, and a thread    *)
(* that is busy for another module is one that takes its time.             *)
(***************************************************************************)
EXTENDS Gpio, I2c, Pwm

CONSTANTS
  Modules,         \* the modules that are looked at
  MaxBusRequests   \* a lower bound on the requests of i2c and of pwm

ASSUME DevicesAssumption == Modules \subseteq {"gpio", "i2c", "pwm"} /\ MaxBusRequests \in Nat

VARIABLE module

devvars == <<sysvars, gpio, i2c, pwm, module>>

Init ==
  /\ SysInit /\ GpioInit /\ I2cInit /\ PwmInit
  /\ module \in Modules

Next ==
  /\ ~aborted
  /\ \/ module = "gpio" /\ GpioNext /\ UNCHANGED <<i2c, pwm, module>>
     \/ module = "i2c" /\ I2cNext /\ asked' <= MaxBusRequests /\ UNCHANGED <<gpio, pwm, module>>
     \/ module = "pwm" /\ PwmNext /\ asked' <= MaxBusRequests /\ UNCHANGED <<gpio, i2c, module>>

Spec == Init /\ [][Next]_devvars

-----------------------------------------------------------------------------

\* gpio: the assertions hold and the pins are as the calls have left them.
GpioSound == module = "gpio" => GpioAsserts /\ PinAsWanted

\* i2c: a transfer that reports success was made with the right device, and the files
\* of others are left alone.
I2cSound == module = "i2c" => I2cTruth /\ OthersKeepFiles

\* pwm: the device has the period and the duty cycle that were asked for.
PwmSound == module = "pwm" => PwmTruth
=============================================================================
