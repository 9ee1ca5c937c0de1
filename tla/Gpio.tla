--------------------------------- MODULE Gpio ---------------------------------
(***************************************************************************)
(* The gpio module: src/src/js/gpio.js, src/src/module/iotjs_module_gpio.c *)
(* and the workers for Linux in                                            *)
(* src/src/platform/iotjs_module_gpio-linux-general.inl.h.                 *)
(*                                                                         *)
(* gpio.js checks its flag and queues a request; GPIO_ASYNC asserts the    *)
(* flag of the native object, and so does the worker when it starts, in    *)
(* another thread.  Directions and modes have the numbers of the source.   *)
(***************************************************************************)
EXTENDS SystemIo

CONSTANT Modes   \* the modes that open() is called with

kGpioDirectionNone == 0
kGpioDirectionIn == 1
kGpioDirectionOut == 2
kGpioModeNone == 0
kGpioModeOpendrain == 5

ASSUME GpioAssumption == Modes \subseteq kGpioModeNone..kGpioModeOpendrain

VARIABLE gpio   \* the flags of gpio.js, and of iotjs_gpio_t

\* iotjs_gpio_create.  The last two are history: a call was made while
\* release() was underway or the other way round, and a mode was given that
\* SetPinMode does not take.
GpioInit ==
  gpio = [initializing |-> FALSE, initialized |-> FALSE, native |-> FALSE,
          overlapped |-> FALSE, badMode |-> FALSE]

-----------------------------------------------------------------------------
(* The calls.  What they throw changes nothing and is left out.            *)

releasing == \E i \in 1..Len(Underway) : Underway[i].op = "release"

\* GPIO_ASYNC
GPIO_ASYNC(r, initialized) ==
  /\ IOTJS_ASSERT(gpio.native = initialized)
  /\ uv_queue_work(r)
  /\ raced' = [p \in Pins |-> raced[p] \/ Collides(r, p)]
  /\ UNCHANGED <<node, attr, want>>

\* initialize() of a GPIO that is not initialized and never was asked to be.
Initialize ==
  /\ ~gpio.initialized /\ ~gpio.initializing
  /\ gpio' = [gpio EXCEPT !.initializing = TRUE]
  /\ GPIO_ASYNC(Request("initialize", All), FALSE)

Release ==
  /\ gpio.initialized
  /\ gpio' = [gpio EXCEPT !.overlapped = @ \/ Underway # <<>>]
  /\ GPIO_ASYNC(Request("release", All), TRUE)

gpioOpen(pin, dir, mode) ==
  /\ gpio.initialized
  /\ gpio' = [gpio EXCEPT !.overlapped = @ \/ releasing,
                          !.badMode = @ \/ (dir # kGpioDirectionNone /\
                                            mode \in {kGpioModeNone, kGpioModeOpendrain})]
  /\ GPIO_ASYNC([Request("open", pin) EXCEPT !.x = dir, !.y = mode], TRUE)

gpioWrite(pin, value) ==
  /\ gpio.initialized
  /\ gpio' = [gpio EXCEPT !.overlapped = @ \/ releasing]
  /\ GPIO_ASYNC([Request("write", pin) EXCEPT !.x = value], TRUE)

gpioRead(pin) ==
  /\ gpio.initialized
  /\ gpio' = [gpio EXCEPT !.overlapped = @ \/ releasing]
  /\ GPIO_ASYNC(Request("read", pin), TRUE)

-----------------------------------------------------------------------------
(* The workers.                                                            *)

\* GPIO_WORKER_INIT_TEMPLATE, with which a worker begins.
WORKER_INIT(i, op) ==
  Begins(i, op) /\ IOTJS_ASSERT(gpio.native = (op # "initialize"))

InitializeGpioWorker(i) ==
  /\ WORKER_INIT(i, "initialize")
  /\ \E there \in {TRUE, ~Faulty} : Return(i, IF there THEN "ok" ELSE "initialize")
  /\ UNCHANGED sysfs

\* The directory is read, and then each pin that was in it is unexported.
ReleaseGpioWorker(i) ==
  LET r == work[i] IN
  \/ /\ WORKER_INIT(i, "release")
     /\ Continue(i, [r EXCEPT !.pc = "unexport", !.rest = {p \in Pins : DeviceCheckPath(p)}])
     /\ UNCHANGED sysfs
  \/ /\ At(i, "unexport") /\ r.rest # {}
     /\ \E p \in r.rest : \E w \in DeviceUnexport(p) :
          /\ node' = IF w.wrote THEN Unexported(p) ELSE node
          /\ Continue(i, [r EXCEPT !.rest = @ \ {p}, !.result = IF w.ok THEN @ ELSE "sys"])
     /\ UNCHANGED <<attr, aborted>>
  \/ /\ At(i, "unexport") /\ r.rest = {} /\ Return(i, r.result)
     /\ UNCHANGED <<node, attr, aborted>>

\* Writing the direction `out` also drives the pin low.
SetPinDirection(i) ==
  LET r == work[i] IN
  WriteStep(i, node[r.pin] = "ready", node,
            [attr EXCEPT ![r.pin].dir = r.x,
                         ![r.pin].value = IF r.x = kGpioDirectionOut THEN 0 ELSE @],
            "mode", "sys")

SetPinMode(i) ==
  /\ IOTJS_ASSERT(work[i].y \notin {kGpioModeNone, kGpioModeOpendrain})
  /\ Return(i, "ok") /\ UNCHANGED sysfs

\* Mutant: no result is set when the direction cannot be.
OpenGpioWorker_NoResult(i) ==
  LET r == work[i] IN
  \/ /\ r.x # kGpioDirectionNone /\ WORKER_INIT(i, "open")
     /\ Goto(i, "check") /\ UNCHANGED sysfs
  \/ /\ DeviceExport(i, "direction", "sys") /\ UNCHANGED aborted
  \/ /\ At(i, "direction")
     /\ WriteStep(i, node[r.pin] = "ready", node, [attr EXCEPT ![r.pin].dir = r.x], "mode", "ok")
     /\ UNCHANGED aborted
  \/ At(i, "mode") /\ SetPinMode(i)

OpenGpioWorker(i) ==
  LET r == work[i] IN
  \/ /\ r.x = kGpioDirectionNone /\ WORKER_INIT(i, "open")   \* UnexportPin
     /\ WriteStep(i, node[r.pin] # "absent", Unexported(r.pin), attr, "end", "sys")
  \/ /\ r.x # kGpioDirectionNone /\ WORKER_INIT(i, "open")
     /\ Goto(i, "check") /\ UNCHANGED sysfs
  \/ /\ DeviceExport(i, "direction", "sys") /\ UNCHANGED aborted
  \/ /\ At(i, "direction") /\ SetPinDirection(i) /\ UNCHANGED aborted
  \/ At(i, "mode") /\ SetPinMode(i)

\* The kernel refuses a value for a pin that is an input.
WriteGpioWorker(i) ==
  LET r == work[i] IN
  /\ WORKER_INIT(i, "write")
  /\ WriteStep(i, node[r.pin] = "ready" /\ attr[r.pin].dir = kGpioDirectionOut, node,
               [attr EXCEPT ![r.pin].value = r.x], "end", "sys")

\* The value of an output is what was written to it.
ReadGpioWorker(i) ==
  LET r == work[i] IN
  /\ WORKER_INIT(i, "read")
  /\ \E readable \in DeviceOpenReadClose(r.pin) :
       \/ ~readable /\ Return(i, "sys")
       \/ /\ readable
          /\ \E value \in {0, 1} :
               /\ attr[r.pin].dir = kGpioDirectionOut => value = attr[r.pin].value
               /\ work' = RemoveAt(work, i)
               /\ done' = Append(done, [r EXCEPT !.x = value, !.pc = "done"])
          /\ UNCHANGED asked
  /\ UNCHANGED sysfs

GpioWorker(i) ==
  /\ \/ InitializeGpioWorker(i) \/ ReleaseGpioWorker(i) \/ OpenGpioWorker(i)
     \/ WriteGpioWorker(i) \/ ReadGpioWorker(i)
  /\ UNCHANGED <<want, raced, gpio>>

-----------------------------------------------------------------------------

\* What AfterGPIOWork and the callback of gpio.js make of the flags.
gpioFlags(r) ==
  CASE r.op = "initialize" -> [gpio EXCEPT !.native = r.result = "ok", !.initialized = r.result = "ok"]
    [] r.op = "release" /\ r.result = "ok" -> [gpio EXCEPT !.native = FALSE, !.initialized = FALSE]
    [] OTHER -> gpio

\* What is known of a pin when the call r has called back.
gpioLearn(r, w) ==
  IF w = Spoiled \/ (r.op # "read" /\ r.result # "ok") THEN Spoiled
  ELSE CASE r.op = "release" -> [Unknown EXCEPT !.exported = 0]
         [] r.op = "open" ->
              [Unknown EXCEPT !.exported = IF r.x = kGpioDirectionNone THEN 0 ELSE 1,
                              !.dir = IF r.x = kGpioDirectionNone THEN None ELSE r.x,
                              !.value = IF r.x = kGpioDirectionOut THEN 0 ELSE None]
         [] r.op = "write" -> [w EXCEPT !.value = r.x]
         [] OTHER -> w

AfterGPIOWork ==
  LET r == Head(done) IN
  /\ Dispatch
  /\ gpio' = gpioFlags(r)
  /\ want' = [p \in Pins |-> IF Touches(r, p) THEN gpioLearn(r, want[p]) ELSE want[p]]
  /\ UNCHANGED <<node, attr, raced, aborted>>

\* The pins are alike: the first call after initialize() may be for pin 1.
MayUse(pin) == asked = 1 => pin = 1

GpioNext ==
  \/ Initialize \/ Release
  \/ \E pin \in Pins :
       /\ MayUse(pin)
       /\ \/ \E dir \in {kGpioDirectionIn, kGpioDirectionOut}, mode \in Modes : gpioOpen(pin, dir, mode)
          \/ gpioOpen(pin, kGpioDirectionNone, kGpioModeNone)
          \/ \E value \in {0, 1} : gpioWrite(pin, value)
          \/ gpioRead(pin)
  \/ \E i \in 1..Len(work) : GpioWorker(i)
  \/ AfterGPIOWork
  \/ (\E pin \in Pins : Appear(pin)) /\ UNCHANGED gpio

-----------------------------------------------------------------------------

\* The assertions on the flag, in JavaScript's thread and in the workers, hold
\* unless a call overlapped a release(); that of SetPinMode unless open() was
\* called with a mode that it refuses, as it is without a mode.
GpioAsserts == aborted => gpio.overlapped \/ gpio.badMode

\* As long as no call for a pin failed, it is as the last ones have left it when
\* they did not overlap: exported and ready with the direction and the value, or not exported after release()
\* and open() with `none`; and a read() of an output got that value.
PinAsWanted ==
  \A p \in Pins :
    /\ Settled(p) =>
         /\ want[p].exported = 0 => node[p] = "absent"
         /\ want[p].exported = 1 => node[p] = "ready" /\ attr[p].dir = want[p].dir
         /\ want[p].value # None => attr[p].value = want[p].value
    /\ \A i \in 1..Len(done) :
         (~raced[p] /\ done[i].op = "read" /\ done[i].pin = p /\ done[i].result = "ok"
          /\ want[p].value # None) => done[i].x = want[p].value
=============================================================================
