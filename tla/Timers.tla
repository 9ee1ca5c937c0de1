------------------------------- MODULE Timers -------------------------------
(***************************************************************************)
(* setTimeout, setInterval and their clear functions (src/src/js/          *)
(* timers.js), the Timer objects behind them (src/src/module/              *)
(* iotjs_module_timer.c) and the life of their handles                     *)
(* (src/src/iotjs_handlewrap.c, src/src/iotjs_objectwrap.c).               *)
(*                                                                         *)
(* A timer t stands for a Timeout object, its Timer object and the uv      *)
(* handle in the Timer's wrapper.  libuv is external: its timers expire in *)
(* the order of their due times, equal ones in the order in which they     *)
(* were started; one that repeats is started again before its callback     *)
(* runs; closed handles are reported at the end of an iteration.  Times    *)
(* are relative to the loop's clock, so the model never runs out of time.  *)
(***************************************************************************)
EXTENDS Integers, Sequences, SequencesExt

CONSTANTS Timer,       \* timers that exist at the same time
          TimeoutMax,  \* TIMEOUT_MAX
          Delays,      \* the delays that are passed, in and out of range
          MaxJump,     \* bound on the time that passes in one poll
          NaN,         \* a delay that is not a number
          NoTimer, IoCallback   \* model values

Never == TimeoutMax + 1   \* a due time that is not reached: later than any other

ASSUME TimersAssumption ==
  /\ TimeoutMax \in Nat \ {0}
  /\ Delays \subseteq Int \cup {NaN} /\ NaN \notin Int
  /\ MaxJump \in Nat \ {0}
  /\ NoTimer \notin Timer /\ IoCallback \notin Timer

VARIABLES
  phase,     \* of the loop's iteration: "timers", "poll" or "closing"
  running,   \* whose callback runs: a timer's, IoCallback (or main), or NoTimer
  callback,  \* Timeout.callback is set
  attached,  \* Timeout.handler is set (and the Timer's timeoutObj)
  isrepeat,  \* Timeout.isrepeat
  after,     \* the delay given to uv
  uv,        \* the handle: "none", "active", "idle", "closing", "closed"
  heap,      \* the active timers in the order of expiry
  left,      \* time until a timer is due; negative when it is overdue
  ref,       \* the wrapper holds a reference to the Timer object
  held,      \* the application holds the Timeout object
  object,    \* the Timer object: "none", "live", "freed"
  fired      \* history: the last callback of t: "no", "called", "returned", "threw"

tvars == <<phase, running, callback, attached, isrepeat, after, uv, heap, left, ref,
           held, object, fired>>

js   == <<callback, attached, isrepeat, after, held>>
gc   == <<ref, object>>

TTypeOK ==
  /\ phase \in {"timers", "poll", "closing"}
  /\ running \in Timer \cup {NoTimer, IoCallback}
  /\ callback \in [Timer -> BOOLEAN] /\ attached \in [Timer -> BOOLEAN]
  /\ isrepeat \in [Timer -> BOOLEAN] /\ held \in [Timer -> BOOLEAN]
  /\ after \in [Timer -> 0 .. TimeoutMax \cup {Never}]
  /\ uv \in [Timer -> {"none", "active", "idle", "closing", "closed"}]
  /\ heap \in Seq(Timer)
  /\ left \in [Timer -> -MaxJump .. TimeoutMax \cup {Never}]
  /\ ref \in [Timer -> BOOLEAN]
  /\ object \in [Timer -> {"none", "live", "freed"}]
  /\ fired \in [Timer -> {"no", "called", "returned", "threw"}]

\* The main script runs, as an I/O callback would.
TInit ==
  /\ phase = "poll" /\ running = IoCallback
  /\ callback = [t \in Timer |-> FALSE] /\ attached = [t \in Timer |-> FALSE]
  /\ isrepeat = [t \in Timer |-> FALSE] /\ held = [t \in Timer |-> FALSE]
  /\ after = [t \in Timer |-> 0] /\ left = [t \in Timer |-> 0]
  /\ uv = [t \in Timer |-> "none"] /\ heap = <<>>
  /\ ref = [t \in Timer |-> FALSE] /\ object = [t \in Timer |-> "none"]
  /\ fired = [t \in Timer |-> "no"]

-----------------------------------------------------------------------------
(* libuv.                                                                  *)

\* uv_timer_start: t is put behind the last timer that is due no later.
Insert(h, t, due) ==
  LET last == CHOOSE k \in 0 .. Len(h) :
                /\ k > 0 => left[h[k]] <= due
                /\ \A i \in k + 1 .. Len(h) : left[h[i]] > due
  IN  InsertAt(h, last + 1, t)

\* uv_close stops the timer; uv reports it closed later.
Without(h, t) ==
  IF t \in Range(h) THEN RemoveAt(h, CHOOSE k \in 1 .. Len(h) : h[k] = t) ELSE h

-----------------------------------------------------------------------------
(* What JavaScript calls.                                                  *)

\* The delay after the range check of setTimeout and setInterval.
inRange(delay) == IF delay # NaN /\ (delay < 1 \/ delay > TimeoutMax) THEN 1 ELSE delay

\* The conversion to int64_t in Start.  That of NaN is undefined in C: 0 on ARM,
\* the smallest int64_t on x86, which libuv takes for a huge delay.
toInt64(x) == IF x = NaN THEN {0, Never} ELSE {x}

\* The wrapper takes a reference to the Timer object for as long as the handle
\* is not closed.
timerwrap_create(t) ==
  /\ ref' = [ref EXCEPT ![t] = TRUE] /\ object' = [object EXCEPT ![t] = "live"]

\* setTimeout and setInterval: Timeout(), activate() with Timer() and start().
Set(t, delay, repeat) ==
  /\ running # NoTimer /\ object[t] \in {"none", "freed"} /\ ~held[t]
  /\ \E a \in toInt64(inRange(delay)) :
       /\ after' = [after EXCEPT ![t] = a]
       /\ left' = [left EXCEPT ![t] = a]
       /\ heap' = Insert(heap, t, a)
  /\ callback' = [callback EXCEPT ![t] = TRUE]
  /\ attached' = [attached EXCEPT ![t] = TRUE]
  /\ isrepeat' = [isrepeat EXCEPT ![t] = repeat]
  /\ held' = [held EXCEPT ![t] = TRUE]
  /\ uv' = [uv EXCEPT ![t] = "active"]
  /\ timerwrap_create(t)
  /\ fired' = [fired EXCEPT ![t] = "no"]
  /\ UNCHANGED <<phase, running>>

\* Stop, with iotjs_timerwrap_stop and iotjs_handlewrap_close.
Stop(t) ==
  IF uv[t] \notin {"closing", "closed"}
  THEN uv' = [uv EXCEPT ![t] = "closing"] /\ heap' = Without(heap, t)
  ELSE UNCHANGED <<uv, heap>>

\* Timeout.close()
close(t) ==
  /\ callback' = [callback EXCEPT ![t] = FALSE]
  /\ attached' = [attached EXCEPT ![t] = FALSE]
  /\ IF attached[t] THEN Stop(t) ELSE UNCHANGED <<uv, heap>>

\* clearTimeout throws when the callback is gone, clearInterval when the timer
\* is not an interval; then nothing changes.
clearTimeout(t) ==
  /\ running # NoTimer /\ held[t] /\ callback[t]
  /\ close(t)
  /\ UNCHANGED <<phase, running, isrepeat, after, held, left, gc, fired>>

clearInterval(t) ==
  /\ running # NoTimer /\ held[t] /\ isrepeat[t]
  /\ close(t)
  /\ UNCHANGED <<phase, running, isrepeat, after, held, left, gc, fired>>

\* The application drops the object that setTimeout returned.
Drop(t) ==
  /\ running # NoTimer /\ held[t]
  /\ held' = [held EXCEPT ![t] = FALSE]
  /\ UNCHANGED <<phase, running, callback, attached, isrepeat, after, uv, heap, left, gc,
                 fired>>

-----------------------------------------------------------------------------
(* The loop.                                                               *)

\* The first timer of the heap is due.
Expired == IF heap = <<>> THEN FALSE ELSE left[Head(heap)] <= 0

\* Mutant: every timer is started with a repeat time.
onTimeout_AlwaysRepeats ==
  /\ phase = "timers" /\ running = NoTimer
  /\ Expired
  /\ LET t       == Head(heap)
         again   == after[t] > 0
     IN  /\ heap' = IF again THEN Insert(Tail(heap), t, after[t]) ELSE Tail(heap)
         /\ left' = [left EXCEPT ![t] = IF again THEN after[t] ELSE 0]
         /\ uv' = IF again THEN uv ELSE [uv EXCEPT ![t] = "idle"]
         /\ IF attached[t] /\ callback[t]
            THEN running' = t /\ fired' = [fired EXCEPT ![t] = "called"]
            ELSE UNCHANGED <<running, fired>>
  /\ UNCHANGED <<phase, js, gc>>

\* Mutant: a timer calls back only if the application kept the Timeout object.
onTimeout_OnlyHeld ==
  /\ phase = "timers" /\ running = NoTimer
  /\ Expired
  /\ LET t       == Head(heap)
         again   == isrepeat[t] /\ after[t] > 0
     IN  /\ heap' = IF again THEN Insert(Tail(heap), t, after[t]) ELSE Tail(heap)
         /\ left' = [left EXCEPT ![t] = IF again THEN after[t] ELSE 0]
         /\ uv' = IF again THEN uv ELSE [uv EXCEPT ![t] = "idle"]
         /\ IF attached[t] /\ callback[t] /\ held[t]
            THEN running' = t /\ fired' = [fired EXCEPT ![t] = "called"]
            ELSE UNCHANGED <<running, fired>>
  /\ UNCHANGED <<phase, js, gc>>

\* TimeoutHandler: the first timer of the heap is due.  libuv stops it, or
\* starts it again, and handleTimeout calls back unless the Timeout is closed.
onTimeout ==
  /\ phase = "timers" /\ running = NoTimer
  /\ Expired
  /\ LET t       == Head(heap)
         again   == isrepeat[t] /\ after[t] > 0
     IN  /\ heap' = IF again THEN Insert(Tail(heap), t, after[t]) ELSE Tail(heap)
         /\ left' = [left EXCEPT ![t] = IF again THEN after[t] ELSE 0]
         /\ uv' = IF again THEN uv ELSE [uv EXCEPT ![t] = "idle"]
         /\ IF attached[t] /\ callback[t]
            THEN running' = t /\ fired' = [fired EXCEPT ![t] = "called"]
            ELSE UNCHANGED <<running, fired>>
  /\ UNCHANGED <<phase, js, gc>>

\* The rest of handleTimeout when the callback returned.
handleTimeoutReturns(t) ==
  /\ running = t /\ running' = NoTimer
  /\ fired' = [fired EXCEPT ![t] = "returned"]
  /\ IF isrepeat[t] THEN UNCHANGED <<callback, attached, uv, heap>> ELSE close(t)
  /\ UNCHANGED <<phase, isrepeat, after, held, left, gc>>

\* The callback threw and the exception was handled: the rest is skipped.
handleTimeoutThrows(t) ==
  /\ running = t /\ running' = NoTimer
  /\ fired' = [fired EXCEPT ![t] = "threw"]
  /\ UNCHANGED <<phase, js, uv, heap, left, gc>>

TimersDone ==
  /\ phase = "timers" /\ running = NoTimer
  /\ ~Expired
  /\ phase' = "poll"
  /\ UNCHANGED <<running, js, uv, heap, left, gc, fired>>

\* An event of the poll calls back into the application.
IoBegins ==
  /\ phase = "poll" /\ running = NoTimer
  /\ running' = IoCallback
  /\ UNCHANGED <<phase, js, uv, heap, left, gc, fired>>

IoEnds ==
  /\ running = IoCallback /\ running' = NoTimer
  /\ UNCHANGED <<phase, js, uv, heap, left, gc, fired>>

\* d milliseconds have passed when the loop reads its clock again.
Poll(d) ==
  /\ phase = "poll" /\ running = NoTimer
  /\ left' = [t \in Timer |-> IF uv[t] = "active" /\ left[t] # Never
                              THEN left[t] - d ELSE left[t]]
  /\ phase' = "closing"
  /\ UNCHANGED <<running, js, uv, heap, gc, fired>>

\* iotjs_handlewrap_on_close: the handle is NULL from now on and the reference
\* of the wrapper is given up.
onClose(t) ==
  /\ phase = "closing" /\ uv[t] = "closing"
  /\ uv' = [uv EXCEPT ![t] = "closed"]
  /\ ref' = [ref EXCEPT ![t] = FALSE]
  /\ left' = [left EXCEPT ![t] = 0] /\ after' = [after EXCEPT ![t] = 0]
  /\ UNCHANGED <<phase, running, callback, attached, isrepeat, held, heap, object, fired>>

ClosingDone ==
  /\ phase = "closing" /\ \A t \in Timer : uv[t] # "closing"
  /\ phase' = "timers"
  /\ UNCHANGED <<running, js, uv, heap, left, gc, fired>>

\* Mutant: the wrapper's reference does not count.
collect_IgnoresRef(t) ==
  /\ object[t] = "live" /\ running # t
  /\ ~(attached[t] /\ held[t])
  /\ object' = [object EXCEPT ![t] = "freed"]
  /\ UNCHANGED <<phase, running, js, uv, heap, left, ref, fired>>

\* The garbage collector may free a Timer object that neither the wrapper nor a
\* Timeout of the application refers to; this destroys the wrapper.
collect(t) ==
  /\ object[t] = "live" /\ running # t
  /\ ~ref[t] /\ ~(attached[t] /\ held[t])
  /\ object' = [object EXCEPT ![t] = "freed"]
  /\ UNCHANGED <<phase, running, js, uv, heap, left, ref, fired>>

-----------------------------------------------------------------------------
Loop == \/ onTimeout \/ TimersDone \/ ClosingDone
        \/ \E d \in 1 .. MaxJump : Poll(d)
        \/ \E t \in Timer : onClose(t)

CallbackEnds == \/ IoEnds
                \/ \E t \in Timer : handleTimeoutReturns(t) \/ handleTimeoutThrows(t)

TNext ==
  \/ Loop \/ CallbackEnds \/ IoBegins
  \/ \E t \in Timer, delay \in Delays, repeat \in BOOLEAN : Set(t, delay, repeat)
  \/ \E t \in Timer : clearTimeout(t) \/ clearInterval(t) \/ Drop(t) \/ collect(t)

\* The loop goes on and callbacks come to their end; I/O does not keep the loop
\* in one poll for ever.
TFairness == SF_tvars(Loop) /\ WF_tvars(CallbackEnds)

TSpec == TInit /\ [][TNext]_tvars /\ TFairness

-----------------------------------------------------------------------------
(* Properties.                                                             *)

\* libuv never reports a timer that was cleared: a timer in the heap still has
\* its callback.
ArmedIsLive == \A i \in DOMAIN heap : callback[heap[i]] /\ attached[heap[i]]

\* The wrapper outlives the handle, and has not lost it.
HandleLifetime ==
  /\ \A t \in Timer : object[t] = "freed" => uv[t] = "closed"
  /\ \A t \in Timer : uv[t] \in {"active", "idle", "closing"} => object[t] = "live"

\* The test of handleTimeout always succeeds, also when the callback of one of
\* several expired timers clears another; the garbage collector frees a Timer
\* object only when its handle is closed (the assertion of
\* iotjs_handlewrap_destroy), however early the application drops it; and a
\* Timeout that still has its handler has one that is not closed, so close()
\* never stops a handle whose pointer is NULL already.
HandleSafe ==
  /\ ArmedIsLive /\ HandleLifetime
  /\ \A t \in Timer : attached[t] => uv[t] \in {"active", "idle"}

\* A one-shot timer calls back at most once, although it can stay armed in
\* JavaScript after its callback threw.
OneShotOnce == \A t \in Timer : fired[t] # "no" /\ ~isrepeat[t] => uv[t] # "active"

\* A timer that was set with a number calls back, unless it is cleared, even
\* when the application has dropped the object that setTimeout returned; and a
\* one-shot timer whose callback returned is closed and its wrapper gives up the
\* Timer object.
TimersServed ==
  \A t \in Timer :
    /\ (uv[t] = "active" /\ left[t] # Never) ~> (fired[t] # "no" \/ ~callback[t])
    /\ (fired[t] = "returned" /\ ~isrepeat[t]) ~> ~ref[t]

=============================================================================
