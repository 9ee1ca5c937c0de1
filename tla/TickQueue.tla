------------------------------ MODULE TickQueue ------------------------------
(***************************************************************************)
(* What a component sees of the event loop and of process.nextTick (the    *)
(* module EventLoop models them in full).  JavaScript runs in a frame,     *)
(* which is the main script or a callback of the loop; when the frame      *)
(* ends, _onNextTick clones the queue and runs the clone.  A tick that is  *)
(* queued meanwhile waits for the next _onNextTick, and the loop may       *)
(* report an event before that.                                            *)
(***************************************************************************)
EXTENDS Sequences

VARIABLES
  js,      \* "frame", "ticks" (in _onNextTick), or "idle" (in uv_run)
  queue,   \* nextTickQueue, of the component's own ticks
  batch    \* what is left of the clone

tickVars == <<js, queue, batch>>

\* User code makes a call that queues the ticks `asked`.
CallStep(asked) == /\ js # "idle"
                   /\ queue' = queue \o asked
                   /\ UNCHANGED <<js, batch>>

\* The loop calls back (iotjs_make_callback).
EventStep(asked) == /\ js = "idle" /\ js' = "frame"
                    /\ queue' = queue \o asked
                    /\ UNCHANGED batch

\* The next callback of the clone runs.
TickStep(asked) == /\ js = "ticks" /\ batch # <<>>
                   /\ batch' = Tail(batch)
                   /\ queue' = queue \o asked
                   /\ UNCHANGED js

\* _onNextTick, at the end of a frame or when uv_run returns.
RunTicks == /\ js # "ticks" /\ js' = "ticks"
            /\ batch' = queue /\ queue' = <<>>

\* A frame ends.  When the loop is idle, _onNextTick runs only after an event of
\* some component, for which uv_run may wait for ever; a queued tick waits as long.
FrameEnds == js = "frame" /\ RunTicks
TicksWait == js = "idle" /\ queue # <<>>

\* The loop goes on.
TicksDone == /\ js = "ticks" /\ batch = <<>> /\ js' = "idle"
             /\ UNCHANGED <<queue, batch>>

=============================================================================
