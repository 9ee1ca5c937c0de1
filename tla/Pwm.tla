--------------------------------- MODULE Pwm ----------------------------------
(***************************************************************************)
(* The pwm module: src/src/js/pwm.js, src/src/module/iotjs_module_pwm.c    *)
(* and the workers for Linux in                                            *)
(* src/src/platform/iotjs_module_pwm-linux-general.inl.h.                  *)
(*                                                                         *)
(* A PWM object keeps its options in JavaScript and hands a copy to every  *)
(* request.  The kernel holds the period and the duty cycle of a pin in    *)
(* nanoseconds and refuses a duty cycle that is longer than the period; a  *)
(* call gives the duty cycle in percent.                                   *)
(***************************************************************************)
EXTENDS SystemIo

CONSTANTS
  IntMax,              \* the largest int32_t: 2147483647 in the code
  Periods, Percents,   \* the numbers that the calls are made with
  UsedPins             \* the pins that are used: they do not affect each other

ASSUME PwmAssumption ==
  /\ IntMax \in Nat /\ Periods \subseteq 0..IntMax /\ Percents \subseteq 0..IntMax
  /\ UsedPins \subseteq Pins

VARIABLE pwm   \* per pin: the _options of its object

PwmInit ==
  pwm = [p \in Pins |-> [made |-> FALSE, period |-> Undefined, dutyCycle |-> Undefined]]

\* The constructor's options.  dutyCycle becomes -1 when a period, or when a
\* frequency is missing, and a missing period stays undefined.
Options(period, dutyCycle, frequency) ==
  [made |-> TRUE,
   period |-> IF frequency # Undefined THEN frequency ELSE period,
   dutyCycle |-> IF Undefined \in {period, dutyCycle, frequency} THEN -1 ELSE dutyCycle]

\* What callers pass: a function or nothing in place of the options, or an
\* object that has some of them.
OptionsGiven ==
  {[made |-> TRUE, period |-> -1, dutyCycle |-> -1],
   [made |-> TRUE, period |-> Undefined, dutyCycle |-> Undefined]} \cup
  {Options(n, d, f) : n \in Periods \cup {Undefined}, d \in Percents \cup {Undefined},
                      f \in Periods \cup {Undefined}}

-----------------------------------------------------------------------------
(* The calls.                                                              *)

PWM_ASYNC(r) ==
  /\ uv_queue_work(r)
  /\ raced' = [p \in Pins |-> raced[p] \/ Collides(r, p)]
  /\ UNCHANGED <<node, attr, want, aborted>>

\* iotjs_pwm_set_pwmdata: an undefined option is 0 in the request.
set_pwmdata(op, pin, options) ==
  [Request(op, pin) EXCEPT
     !.x = IF options.period = Undefined THEN 0 ELSE options.period,
     !.y = IF options.dutyCycle = Undefined THEN 0 ELSE options.dutyCycle]

Export(pin, options) ==
  /\ ~pwm[pin].made
  /\ pwm' = [pwm EXCEPT ![pin] = options]
  /\ PWM_ASYNC(set_pwmdata("export", pin, options))

SetPeriod(pin, period) ==
  LET options == [pwm[pin] EXCEPT !.period = period] IN
  /\ pwm[pin].made
  /\ pwm' = [pwm EXCEPT ![pin] = options]
  /\ PWM_ASYNC(set_pwmdata("setPeriod", pin, options))

SetFrequency(pin, frequency) ==
  LET options == [pwm[pin] EXCEPT !.period = frequency] IN
  /\ pwm[pin].made
  /\ pwm' = [pwm EXCEPT ![pin] = options]
  /\ PWM_ASYNC(set_pwmdata("setFrequency", pin, options))

\* It throws as long as no period was given.
SetDutyCycle(pin, percent) ==
  LET options == [pwm[pin] EXCEPT !.dutyCycle = percent] IN
  /\ pwm[pin].made /\ pwm[pin].period # Undefined
  /\ pwm' = [pwm EXCEPT ![pin] = options]
  /\ PWM_ASYNC(set_pwmdata("setDutyCycle", pin, options))

\* Which of the two it is plays no part in what follows.
SetEnable(pin) ==
  /\ pwm[pin].made
  /\ PWM_ASYNC(Request("setEnable", pin))
  /\ UNCHANGED pwm

Unexport(pin) ==
  /\ pwm[pin].made
  /\ PWM_ASYNC(Request("unexport", pin))
  /\ UNCHANGED pwm

-----------------------------------------------------------------------------
(* The workers.                                                            *)

\* The kernel refuses no period at all, and one shorter than the duty cycle.
SetPwmPeriod(i, pc) ==
  LET r == work[i] IN
  WriteStep(i, node[r.pin] = "ready" /\ r.x > 0 /\ r.x >= attr[r.pin].duty, node,
            [attr EXCEPT ![r.pin].period = r.x], pc, "write")

\* The product of two int32_t, which wraps around where it does not fit.
int32(n) == ((n + IntMax + 1) % (2 * (IntMax + 1))) - (IntMax + 1)

\* duty_cycle * period * 0.01, as an unsigned number.  For a negative one C
\* defines nothing: it is 0, or a large one that is printed as a negative one
\* and that the kernel refuses.
duty_cycle(r) ==
  LET product == int32(r.y * r.x)
  IN IF product < 0 THEN {-1, 0} ELSE {product \div 100}

\* Mutant: the percentage is written as it is.
SetPwmDutyCycle_Percent(i) ==
  LET r == work[i] IN
  WriteStep(i, node[r.pin] = "ready" /\ r.y \in 0..attr[r.pin].period, node,
            [attr EXCEPT ![r.pin].duty = r.y], "end", "write")

SetPwmDutyCycle(i) ==
  LET r == work[i] IN
  \E duty \in duty_cycle(r) :
    WriteStep(i, node[r.pin] = "ready" /\ duty \in 0..attr[r.pin].period, node,
              [attr EXCEPT ![r.pin].duty = duty], "end", "write")

\* It looks for the directory, exports the pin, and sets what options say.
ExportWorker(i) ==
  LET r == work[i]
      skip(pc) == GoOn(i, pc) /\ UNCHANGED sysfs
  IN \/ Begins(i, "export") /\ Goto(i, IF DeviceCheckPath(r.pin) THEN "period" ELSE "check")
        /\ UNCHANGED sysfs
     \/ DeviceExport(i, "period", "export")
     \/ At(i, "period") /\ IF r.x >= 0 THEN SetPwmPeriod(i, "duty") ELSE skip("duty")
     \/ At(i, "duty") /\ IF r.y >= 0 THEN SetPwmDutyCycle(i) ELSE skip("end")

SetPeriodWorker(i) == Begins(i, "setPeriod") /\ SetPwmPeriod(i, "end")
SetDutyCycleWorker(i) == Begins(i, "setDutyCycle") /\ SetPwmDutyCycle(i)

\* snprintf with room for the NUL alone leaves an empty string, and the kernel
\* does nothing when it is written.
SetEnableWorker(i) ==
  LET r == work[i] IN
  /\ Begins(i, "setEnable")
  /\ WriteStep(i, node[r.pin] = "ready", node, attr, "end", "write")

\* What DeviceUnexport returns is not looked at.
UnexportWorker(i) ==
  LET p == work[i].pin IN
  /\ Begins(i, "unexport")
  /\ \/ ~DeviceCheckPath(p) /\ UNCHANGED node
     \/ DeviceCheckPath(p) /\ \E w \in DeviceUnexport(p) :
          node' = IF w.wrote THEN Unexported(p) ELSE node
  /\ Return(i, "ok") /\ UNCHANGED attr

\* SetFrequencyWorker only asserts that it is not called.
SetFrequencyWorker(i) ==
  /\ Begins(i, "setFrequency") /\ IOTJS_ASSERT(FALSE) /\ Return(i, "ok") /\ UNCHANGED sysfs

PwmWorker(i) ==
  /\ \/ /\ \/ ExportWorker(i) \/ SetPeriodWorker(i) \/ SetDutyCycleWorker(i)
           \/ SetEnableWorker(i) \/ UnexportWorker(i)
        /\ UNCHANGED aborted
     \/ SetFrequencyWorker(i)
  /\ UNCHANGED <<want, raced, pwm>>

-----------------------------------------------------------------------------

\* What is known of a pin when the call r has called back.  After a failed call
\* nothing is any more: it may have changed the options and not the device.
pwmLearn(r, w) ==
  IF r.result # "ok" \/ w = Spoiled THEN Spoiled
  ELSE CASE r.op = "export" -> [w EXCEPT !.exported = 1,
                                         !.period = IF r.x >= 0 THEN r.x ELSE @,
                                         !.percent = IF r.y >= 0 THEN r.y ELSE @]
         [] r.op = "setPeriod" -> [w EXCEPT !.period = r.x, !.percent = None]
         [] r.op = "setDutyCycle" -> [w EXCEPT !.percent = r.y]
         [] r.op = "unexport" -> Unknown
         [] OTHER -> w

AfterPwmWork ==
  LET r == Head(done) IN
  /\ Dispatch
  /\ want' = [want EXCEPT ![r.pin] = pwmLearn(r, @)]
  /\ UNCHANGED <<node, attr, raced, aborted, pwm>>

PwmNext ==
  \/ \E pin \in UsedPins :
       \/ \E options \in OptionsGiven : Export(pin, options)
       \/ \E period \in Periods : SetPeriod(pin, period) \/ SetFrequency(pin, period)
       \/ \E percent \in Percents : SetDutyCycle(pin, percent)
       \/ SetEnable(pin) \/ Unexport(pin)
  \/ \E i \in 1..Len(work) : PwmWorker(i)
  \/ AfterPwmWork
  \/ (\E pin \in UsedPins : Appear(pin)) /\ UNCHANGED pwm

-----------------------------------------------------------------------------

\* The device can have a duty cycle of so many percent: where the product of the two
\* numbers does not fit an int32_t, the code writes another one, if it is no longer than
\* the period, and reports success (pwm-linux:82).  50 % of 50 ms are too much.
Fits(percent, period) == percent * period <= IntMax

\* When the calls for a pin did not overlap and none has failed, the device has
\* the period that was set last, and after setDutyCycle(d) a duty cycle of d
\* percent of it, if that Fits; and at any time a pin that is ready has a duty cycle
\* that is not longer than its period.
PwmTruth ==
  \A p \in Pins :
    /\ Settled(p) =>
         /\ want[p].exported = 1 => node[p] = "ready"
         /\ want[p].period # None => attr[p].period = want[p].period
         /\ (want[p].percent # None /\ want[p].period # None
             /\ Fits(want[p].percent, attr[p].period)) =>
              attr[p].duty = (want[p].percent * attr[p].period) \div 100
    /\ attr[p].duty <= attr[p].period
=============================================================================
