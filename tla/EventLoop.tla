----------------------------- MODULE EventLoop -----------------------------
(***************************************************************************)
(* The process life cycle of IoT.js: the main script, the libuv loop of    *)
(* iotjs_start (src/src/iotjs.c), the next tick queue, uncaught exceptions *)
(* and 'exit' (src/src/js/iotjs.js), and the callbacks from C into         *)
(* JavaScript (src/src/iotjs_binding_helper.c).                            *)
(*                                                                         *)
(* JavaScript runs to completion, so the state of the interpreter is a     *)
(* stack of frames.  A frame is a call of user code by the runtime:        *)
(*   main      the application's module, loaded by runMain                 *)
(*   cb        a function called through iotjs_make_callback               *)
(*   tick      a next tick callback; rest is what remains of the array     *)
(*             that _onNextTick cloned                                     *)
(*   uncaught  the listeners of 'uncaughtException'                        *)
(*   exit      the listeners of 'exit'                                     *)
(* While the stack is not empty only its top frame runs: it makes calls of *)
(* the API and finally returns or throws.  A cb frame may lie on top of    *)
(* another frame: http_parser and the failing uv_fs calls invoke           *)
(* iotjs_make_callback while JavaScript is still running.                  *)
(***************************************************************************)
EXTENDS Naturals, Sequences

CONSTANTS Reqs,      \* one-shot requests of the loop (a timer, a read, a lookup)
          Handles,   \* handles that stay active until stopped (a listening server)
          MaxTicks,  \* bound on the calls of process.nextTick
          MaxDepth   \* bound on the depth of the stack

ASSUME LoopAssumption == /\ Reqs \cap Handles = {}
                         /\ MaxTicks \in Nat
                         /\ MaxDepth \in Nat \ {0}

VARIABLES
  pc,        \* where the runtime's own code is when the stack is empty
  stack,     \* the frames, the running one last
  queue,     \* nextTickQueue
  active,    \* the requests and handles that keep the loop alive
  ready,     \* those of them with an event the poll will report
  closing,   \* a handle is being closed
  delivered, \* this uv_run has called back
  more,      \* the variable of iotjs_start
  catcher,   \* 'uncaughtException' has a listener
  exiting,   \* process._exiting
  exitCode,  \* process.exitCode
  status,    \* what the process returned to the system
  \* history
  issued,    \* calls of process.nextTick so far; the n-th queues tick n
  ran,       \* the ticks that have been started
  late,      \* ticks queued by a tick, or by a main script that threw
  crash      \* an exception that nobody caught was thrown before 'exit'

vars == <<pc, stack, queue, active, ready, closing, delivered, more,
          catcher, exiting, exitCode, status, issued, ran, late, crash>>

user  == <<issued, late>>              \* changed by nextTick (and by Throw)
ticks == <<queue, ran>>                \* changed by nextTick and _onNextTick
loop  == <<active, ready, closing, delivered, more>>
proc  == <<exiting, exitCode, status, crash>>

NoStatus == 256                       \* still running
Aborted  == 134                       \* abort(): an assertion of a debug build
Ticks    == 1 .. MaxTicks
Frame    == [fn : {"main", "cb", "tick", "uncaught", "exit"}, rest : Seq(Ticks)]

Call(f)    == [fn |-> f, rest |-> <<>>]
Running    == stack # <<>>
Top        == stack[Len(stack)]
Pop        == SubSeq(stack, 1, Len(stack) - 1)
InTick     == \E i \in 1 .. Len(stack) : stack[i].fn = "tick"
SeqSet(s)  == {s[i] : i \in 1 .. Len(s)}

TypeOK ==
  /\ pc \in {"main", "uv", "loopTicks", "loopTest", "exitEmit", "drain",
             "hardExit", "exited"}
  /\ stack \in Seq(Frame)
  /\ queue \in Seq(Ticks)
  /\ active \in SUBSET (Reqs \cup Handles) /\ ready \in SUBSET active
  /\ closing \in BOOLEAN /\ delivered \in BOOLEAN /\ more \in BOOLEAN
  /\ catcher \in BOOLEAN
  /\ exiting \in BOOLEAN /\ exitCode \in {0, 1}
  /\ status \in {0, 1, 2, NoStatus, Aborted}
  /\ issued \in 0 .. MaxTicks
  /\ ran \in SUBSET Ticks /\ late \in SUBSET Ticks
  /\ crash \in BOOLEAN

\* iotjs_start has initialised the process module and iotjs_run has called the
\* entry, which loads the application.
Init ==
  /\ pc = "main" /\ stack = <<Call("main")>>
  /\ queue = <<>> /\ ran = {}
  /\ active = {} /\ ready = {} /\ closing = FALSE /\ delivered = FALSE /\ more = TRUE
  /\ catcher = FALSE
  /\ exiting = FALSE /\ exitCode = 0 /\ status = NoStatus /\ crash = FALSE
  /\ issued = 0 /\ late = {}

-----------------------------------------------------------------------------
(* What the running user code may call.                                    *)

\* process.nextTick(callback)
nextTick ==
  /\ Running /\ issued < MaxTicks
  /\ issued' = issued + 1
  /\ queue' = Append(queue, issued + 1)
  /\ late' = IF InTick THEN late \cup {issued + 1} ELSE late
  /\ UNCHANGED <<pc, stack, ran, loop, catcher, proc>>

\* A call of the API that leaves a request or an active handle in the loop.
StartIO(r) ==
  /\ Running /\ r \notin active
  /\ active' = active \cup {r}
  /\ UNCHANGED <<pc, stack, ticks, ready, closing, delivered, more, catcher, proc, user>>

\* A call that stops a handle: close of a server, clearInterval.
StopIO(h) ==
  /\ Running /\ h \in active
  /\ active' = active \ {h} /\ ready' = ready \ {h}
  /\ closing' = TRUE
  /\ UNCHANGED <<pc, stack, ticks, delivered, more, catcher, proc, user>>

\* process.on('uncaughtException', ...) and its removal.
SetCatcher(b) ==
  /\ Running /\ catcher # b
  /\ catcher' = b
  /\ UNCHANGED <<pc, stack, ticks, loop, proc, user>>

\* A call of the API that runs its callback before it returns: C code called
\* from JavaScript that reaches iotjs_make_callback.
SyncCallback ==
  /\ Running /\ Len(stack) < MaxDepth
  /\ stack' = Append(stack, Call("cb"))
  /\ UNCHANGED <<pc, ticks, loop, catcher, proc, user>>

-----------------------------------------------------------------------------
(* process.exit and the end of the process.                                *)

\* exit(code) of the C library: nothing below returns.
doExit(code) ==
  /\ status' = code
  /\ pc' = "exited" /\ stack' = <<>>

\* Mutant: emitExit does not look at _exiting.
exit_EmitsAgain(code) ==
  /\ exiting' = TRUE /\ exitCode' = code
  /\ pc' = "hardExit" /\ stack' = <<Call("exit")>>
  /\ UNCHANGED status

\* process.exit(code).  emitExit runs the listeners of 'exit' the first time;
\* the finally clause then ends the process, so no frame below is resumed.
exit(code) ==
  IF exiting
  THEN doExit(exitCode) /\ UNCHANGED <<exiting, exitCode>>
  ELSE /\ exiting' = TRUE /\ exitCode' = code
       /\ pc' = "hardExit" /\ stack' = <<Call("exit")>>
       /\ UNCHANGED status

UserExit(code) ==
  /\ Running
  /\ exit(code)
  /\ UNCHANGED <<ticks, loop, catcher, crash, user>>

\* The end of process.exit after the listeners of 'exit' returned.
HardExit ==
  /\ pc = "hardExit" /\ ~Running
  /\ doExit(exitCode)
  /\ UNCHANGED <<ticks, loop, catcher, exiting, exitCode, crash, user>>

-----------------------------------------------------------------------------
(* The next tick queue.                                                    *)

\* The for loop of _onNextTick at the rest of the cloned array; st is the
\* stack below it.
NextOfBatch(st, rest) ==
  IF rest = <<>>
  THEN stack' = st /\ UNCHANGED ran
  ELSE /\ stack' = Append(st, [fn |-> "tick", rest |-> Tail(rest)])
       /\ ran' = ran \cup {Head(rest)}

\* Mutant: the queue is not emptied when it is cloned.
onNextTick_KeepsQueue(st) == UNCHANGED queue /\ NextOfBatch(st, queue)

\* _onNextTick clones the queue, empties it and calls the clone's callbacks.
onNextTick(st) == queue' = <<>> /\ NextOfBatch(st, queue)

-----------------------------------------------------------------------------
(* The running frame returns or throws.                                    *)

\* What follows the frame f called above st: iotjs_make_callback and a runMain
\* that did not throw process the next ticks, a tick is followed by the rest
\* of its batch.
AfterFrame(st, f) ==
  CASE f.fn \in {"main", "cb"} -> onNextTick(st)
    [] f.fn = "tick"           -> NextOfBatch(st, f.rest) /\ UNCHANGED queue
    [] f.fn = "exit"           -> stack' = st /\ UNCHANGED ticks

Return ==
  /\ Running /\ Top.fn # "uncaught"
  /\ AfterFrame(Pop, Top)
  /\ UNCHANGED <<pc, loop, catcher, proc, user>>

\* The listeners of 'uncaughtException' return: the frame below them is the
\* one that threw.  The exception has left runMain without its _onNextTick.
Handled ==
  /\ Running /\ Top.fn = "uncaught"
  /\ LET thrower == stack[Len(stack) - 1]
         below   == SubSeq(stack, 1, Len(stack) - 2)
     IN  IF thrower.fn = "main"
         THEN /\ stack' = below /\ UNCHANGED ticks
              /\ late' = late \cup SeqSet(queue)
         ELSE AfterFrame(below, thrower) /\ UNCHANGED late
  /\ UNCHANGED <<pc, loop, catcher, proc, issued>>

\* _onUncaughtExcecption: the listeners run, or the process exits.
onUncaughtException ==
  IF catcher
  THEN stack' = Append(stack, Call("uncaught")) /\ UNCHANGED <<pc, proc>>
  ELSE exit(1) /\ crash' = (crash \/ ~exiting)

\* The running frame throws.
Throw ==
  /\ Running
  /\ CASE Top.fn \in {"main", "cb", "tick"} -> onUncaughtException
       [] Top.fn = "uncaught" -> exit(1) /\ crash' = (crash \/ ~exiting)
       \* the catch clause of process.exit
       [] Top.fn = "exit" /\ pc = "hardExit" ->
            /\ exitCode' = 1
            /\ IF catcher
               THEN /\ stack' = Append(stack, Call("uncaught"))
                    /\ UNCHANGED <<pc, status>>
               ELSE doExit(1)
            /\ UNCHANGED <<exiting, crash>>
       \* iotjs_process_emit_exit
       [] Top.fn = "exit" /\ pc = "exitEmit" ->
            doExit(2) /\ UNCHANGED <<exiting, exitCode, crash>>
  /\ UNCHANGED <<ticks, loop, catcher, user>>

-----------------------------------------------------------------------------
(* The runtime, when no JavaScript runs.                                   *)

\* iotjs_run is over and the do loop of iotjs_start begins.
MainDone ==
  /\ pc = "main" /\ ~Running
  /\ pc' = "uv" /\ delivered' = FALSE
  /\ UNCHANGED <<stack, ticks, active, ready, closing, more, catcher, proc, user>>

\* The environment: a request completes, a connection arrives.
EventReady(r) ==
  /\ r \in active \ ready /\ pc # "exited"
  /\ ready' = ready \cup {r}
  /\ UNCHANGED <<pc, stack, ticks, active, closing, delivered, more, catcher, proc,
                 user>>

\* uv_run reports an event through iotjs_make_callback.
Deliver(r) ==
  /\ pc \in {"uv", "drain"} /\ ~Running /\ r \in ready
  /\ stack' = <<Call("cb")>> /\ delivered' = TRUE
  /\ ready' = ready \ {r}
  /\ active' = IF r \in Reqs THEN active \ {r} ELSE active
  /\ UNCHANGED <<pc, ticks, closing, more, catcher, proc, user>>

\* Mutant: `more` accumulates over the iterations.
UvReturn_MoreSticks ==
  /\ pc = "uv" /\ ~Running /\ (delivered \/ closing \/ active = {})
  /\ closing' = FALSE
  /\ more' = (more \/ active # {})
  /\ pc' = "loopTicks"
  /\ UNCHANGED <<stack, ticks, active, ready, delivered, catcher, proc, user>>

\* uv_run(UV_RUN_ONCE) blocks until something was delivered or nothing is left;
\* handles that are being closed keep it from blocking, and it closes them.
UvReturn ==
  /\ pc = "uv" /\ ~Running /\ (delivered \/ closing \/ active = {})
  /\ closing' = FALSE
  /\ more' = (active # {})
  /\ pc' = "loopTicks"
  /\ UNCHANGED <<stack, ticks, active, ready, delivered, catcher, proc, user>>

\* iotjs_process_next_tick() of the do loop.
LoopTicks ==
  /\ pc = "loopTicks" /\ ~Running
  /\ onNextTick(<<>>)
  /\ pc' = "loopTest"
  /\ UNCHANGED <<loop, catcher, proc, user>>

\* Mutant: uv_loop_alive is not asked again after the ticks.
LoopTest_NotAsked ==
  /\ pc = "loopTest" /\ ~Running
  /\ IF more \/ queue # <<>>
     THEN /\ pc' = "uv" /\ delivered' = FALSE
          /\ UNCHANGED <<stack, exiting, exitCode>>
     ELSE /\ pc' = "exitEmit" /\ stack' = <<Call("exit")>>
          /\ exiting' = TRUE /\ exitCode' = 0
          /\ UNCHANGED delivered
  /\ UNCHANGED <<ticks, active, ready, closing, more, catcher, status, crash, user>>

\* more |= what _onNextTick returned; uv_loop_alive is asked when that is
\* false.  When the loop ends, iotjs_process_emit_exit(0) runs the listeners.
LoopTest ==
  /\ pc = "loopTest" /\ ~Running
  /\ LET again == more \/ queue # <<>> \/ active # {} \/ closing
     IN  IF again
         THEN /\ pc' = "uv" /\ delivered' = FALSE
              /\ UNCHANGED <<stack, exiting, exitCode>>
         ELSE /\ pc' = "exitEmit" /\ stack' = <<Call("exit")>>
              /\ exiting' = TRUE /\ exitCode' = 0
              /\ UNCHANGED delivered
  /\ UNCHANGED <<ticks, active, ready, closing, more, catcher, status, crash, user>>

\* The listeners of 'exit' returned.  iotjs_entry closes every handle and runs
\* the loop until the requests that the listeners started are over.
WalkToClose ==
  /\ pc = "exitEmit" /\ ~Running
  /\ pc' = "drain"
  /\ active' = active \cap Reqs /\ ready' = ready \cap Reqs
  /\ closing' = TRUE
  /\ UNCHANGED <<stack, ticks, delivered, more, catcher, proc, user>>

\* A callback in that last run uses the process module and the constants that
\* iotjs_start has released already.  Either it still finds them (Deliver) or
\* the check of a released value fails.
UseAfterRelease ==
  /\ pc = "drain" /\ ~Running /\ ready # {}
  /\ doExit(Aborted)
  /\ UNCHANGED <<ticks, loop, catcher, exiting, exitCode, crash, user>>

\* uv_loop_close and the return of iotjs_entry.
ReturnFromEntry ==
  /\ pc = "drain" /\ ~Running /\ active = {}
  /\ doExit(0)
  /\ UNCHANGED <<ticks, loop, catcher, exiting, exitCode, crash, user>>

-----------------------------------------------------------------------------
Runtime == \/ HardExit \/ MainDone \/ UvReturn \/ LoopTicks \/ LoopTest
           \/ WalkToClose \/ ReturnFromEntry

JavaScript == \/ nextTick \/ SyncCallback \/ Return \/ Handled \/ Throw
              \/ \E r \in Reqs \cup Handles : StartIO(r)
              \/ \E h \in Handles : StopIO(h)
              \/ \E b \in BOOLEAN : SetCatcher(b)
              \/ \E c \in {0, 1} : UserExit(c)

\* The process has ended.
Ended == pc = "exited" /\ UNCHANGED vars

Next == \/ Runtime \/ JavaScript \/ UseAfterRelease
        \/ \E r \in Reqs \cup Handles : EventReady(r) \/ Deliver(r)
        \/ Ended

\* The runtime's code and libuv go on, and every function of the application
\* comes to its end: one at depth d does so even if it makes calls that run
\* callbacks above it.  What is ready is reported by one of the next polls; nothing
\* is assumed of the arrival of I/O.
FrameEnds(d) == Len(stack) = d /\ (Return \/ Handled \/ Throw)

Fairness == /\ WF_vars(Runtime)
            /\ \A d \in 1 .. MaxDepth + 1 : SF_vars(FrameEnds(d))
            /\ \A r \in Reqs \cup Handles : SF_vars(Deliver(r))

Spec == Init /\ [][Next]_vars /\ Fairness

-----------------------------------------------------------------------------
(* Properties.                                                             *)

\* The ticks that wait in the batches under way.
Waiting == UNION {SeqSet(stack[i].rest) : i \in 1 .. Len(stack)}

\* Each tick is in exactly one of the queue, one cloned batch and the ticks
\* that ran; process.exit is the one way to drop them.
TickInOnePlace ==
  /\ ran \cup SeqSet(queue) \subseteq 1 .. issued
  /\ ran \cap SeqSet(queue) = {} /\ Waiting \cap (ran \cup SeqSet(queue)) = {}
  /\ \A i, j \in 1 .. Len(stack) :
        i # j => SeqSet(stack[i].rest) \cap SeqSet(stack[j].rest) = {}
  /\ pc \notin {"hardExit", "exited"} =>
        ran \cup SeqSet(queue) \cup Waiting = 1 .. issued

\* No next tick callback is lost and none runs twice, however callbacks,
\* exceptions and nested calls of _onNextTick interleave (its clone-and-empty,
\* iotjs.js); and when the loop is about to wait for I/O, the ticks queued by
\* the main script or by an I/O callback have all run: only ticks that were
\* queued by a tick, or by a main script that threw, can still be waiting.
TicksConserved ==
  /\ TickInOnePlace
  /\ pc \in {"uv", "loopTest"} /\ ~Running => SeqSet(queue) \subseteq late

\* 'exit' is emitted once on every way out of the process: listeners of 'exit'
\* start only when the process was not exiting, and no process ends without
\* having been exiting; and one that threw an exception nobody caught before
\* 'exit' never reports success, whatever its 'exit' listeners do.
ExitEmittedOnce ==
  [][/\ (stack' # <<>> /\ stack'[1].fn = "exit" /\ ~(stack # <<>> /\ stack[1].fn = "exit"))
          => ~exiting
     /\ pc' = "exited" => exiting /\ (crash' => status' # 0)]_vars

\* A tick queued by the main script or by a callback is started, unless the
\* process exits first: it never waits for I/O to arrive; and an application
\* with nothing left to wait for terminates.
LoopProgresses ==
  /\ \A t \in Ticks : (t <= issued /\ t \notin late)
                        ~> (t \in ran \/ t \in late \/ exiting)
  /\ <>[](active = {}) => <>(pc = "exited")

\* The loop of iotjs_start does not end while there is work, although `more` was
\* computed by uv_run before the ticks ran (iotjs.c asks uv_loop_alive again).  A
\* tick that was queued by a tick, or by a main script that threw, runs as well,
\* unless the process exits by process.exit or an exception, or uv_run waits for
\* ever; and an event that the poll will report is delivered, or its handle
\* stopped, before the loop gives way to 'exit'.
WorkServed ==
  /\ (ran # 1 .. issued /\ ~exiting)
        ~> (ran = 1 .. issued \/ pc = "hardExit" \/ [](pc = "uv" /\ ~Running))
  /\ \A r \in Reqs \cup Handles : (r \in ready /\ ~exiting)
                        ~> ((r \notin ready /\ ~exiting) \/ pc = "hardExit")

=============================================================================
