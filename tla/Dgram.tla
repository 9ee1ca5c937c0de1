-------------------------------- MODULE Dgram --------------------------------
(***************************************************************************)
(* dgram.Socket (src/src/js/dgram.js over src/src/module/iotjs_module_udp.c): *)
(* binding, the queue of what was called before the socket was bound,      *)
(* sending, receiving and closing.  A message is a model value; what is    *)
(* kept of it is where it is: in _queue, being resolved, underway in       *)
(* libuv, or answered.                                                     *)
(*                                                                         *)
(* As in Socket, a function of the source is an operator from the socket   *)
(* before the call to the socket after it, and an action applies one.      *)
(* What a listener calls when the emission is the last thing that a        *)
(* function does is a step of its own in the same frame; where it is not,  *)
(* the listener's call is a parameter.  The platform is not NuttX.         *)
(***************************************************************************)
EXTENDS Naturals, FiniteSets, TickQueue

CONSTANTS
  Messages,   \* the messages that may be sent, each once
  Listened,   \* those that are sent with a callback
  MaxCalls,   \* bound on the calls of bind() and on those of close()
  Faults      \* what goes wrong, of "bind", "lookup" (it fails), "refuse" (libuv does
              \* not begin it), "send", "recv", "listener"

ASSUME DgramAssumption ==
  /\ Listened \subseteq Messages /\ MaxCalls \in Nat
  /\ Faults \subseteq {"bind", "lookup", "refuse", "send", "recv", "listener"}
  /\ {"bind", "close"} \cap Messages = {}

VARIABLE udp   \* the socket, its handle and its requests

dvars == <<udp, tickVars>>

UdpRecord ==
  [ open : BOOLEAN,                       \* _handle is not null
    bindState : {"unbound", "binding", "bound"}, receiving : BOOLEAN,
    queueing : BOOLEAN,                   \* _queue is an array
    calls : Seq(Messages \cup {"close"}), \* its elements: bound calls of send and close
    lookups : SUBSET (Messages \cup {"bind"}),  \* names being resolved
    underway : SUBSET Messages,           \* requests of uv_udp_send
    sent : SUBSET Messages, answered : [Messages -> Nat],
    refused : SUBSET (Messages \cup {"bind"}),  \* by libuv, at once
    failed : BOOLEAN,                     \* a bind has failed
    threw : BOOLEAN,                      \* this call has thrown
    crashed : BOOLEAN,                    \* an exception has left a callback of the loop
    nullUsed : BOOLEAN,                   \* a method of the null handle was called
    closing : BOOLEAN, closed : Nat,      \* close() was called; 'close' events
    asked : Seq({"close"}), binds : Nat, closes : Nat ]

\* Socket()
New ==
  [open |-> TRUE, bindState |-> "unbound", receiving |-> FALSE, queueing |-> FALSE,
   calls |-> <<>>, lookups |-> {}, underway |-> {}, sent |-> {},
   answered |-> [m \in Messages |-> 0], refused |-> {}, failed |-> FALSE,
   threw |-> FALSE, crashed |-> FALSE,
   nullUsed |-> FALSE, closing |-> FALSE, closed |-> 0, asked |-> <<>>,
   binds |-> 0, closes |-> 0]

-----------------------------------------------------------------------------
(* The functions of dgram.js, innermost first.                             *)

\* A method of the handle: a TypeError when that is null.
native(u, done) ==
  IF u.open THEN done ELSE [u EXCEPT !.threw = TRUE, !.nullUsed = TRUE]

\* RecvStart, RecvStop, Send and Close of the UDP object.
recvStart(u) == native(u, [u EXCEPT !.receiving = TRUE])
recvStop(u) == native(u, [u EXCEPT !.receiving = FALSE])
udpSend(u, m) == native(u, [u EXCEPT !.underway = @ \cup {m}])
udpClose(u) == native(u, [u EXCEPT !.open = FALSE])

\* What healthCheck lets pass; 'Not running' is thrown otherwise.
healthCheck(u, done) == IF u.open THEN done ELSE [u EXCEPT !.threw = TRUE]

\* Socket.bind of an unbound socket, up to the lookup.
bind(u) == [u EXCEPT !.bindState = "binding", !.lookups = @ \cup {"bind"}]

\* enqueue, which installs clearQueue with the first call.
enqueue(u, call) == [u EXCEPT !.queueing = TRUE, !.calls = Append(@, call)]

\* Socket.send with valid arguments: an unbound socket is bound first.
send(u, m) ==
  healthCheck(u,
    LET b == IF u.bindState = "unbound" THEN bind(u) ELSE u
    IN  IF b.bindState # "bound" THEN enqueue(b, m)
        ELSE native(b, [b EXCEPT !.lookups = @ \cup {m}]))

\* _stopReceiving
stopReceiving(u) == IF u.receiving THEN recvStop(u) ELSE u

\* The part of close() that closes.
closeNow(u) == [udpClose(stopReceiving(u)) EXCEPT !.asked = Append(@, "close")]

\* Mutant: close() is forgotten while there is a queue.
close_Forgotten(u) == IF u.queueing THEN u ELSE healthCheck(u, closeNow(u))

\* Socket.close: queued like a send as long as there is a queue.
close(u) ==
  IF u.queueing THEN enqueue(u, "close")
  ELSE healthCheck(u, closeNow(u))

\* A call of the queue, unless an earlier one has thrown.
runCall(u, call) ==
  IF u.threw THEN u ELSE IF call = "close" THEN close(u) ELSE send(u, call)

\* The calls of the queue, in their order.
runCalls(u, calls) ==
  LET after[k \in 0..Len(calls)] == IF k = 0 THEN u ELSE runCall(after[k - 1], calls[k])
  IN  after[Len(calls)]

\* Mutant: the queue is still there while its calls are made.
clearQueue_NotReset(u) == runCalls(u, u.calls)

\* clearQueue, once the socket is bound.
clearQueue(u) ==
  IF u.queueing THEN runCalls([u EXCEPT !.queueing = FALSE, !.calls = <<>>], u.calls) ELSE u

\* What a listener does: nothing, a send, a close, or it throws.
ListenerCalls(u) ==
  {u} \cup {close([u EXCEPT !.closing = TRUE])}
      \cup {send([u EXCEPT !.sent = @ \cup {m}], m) : m \in Messages \ u.sent}
      \cup {[u EXCEPT !.threw = TRUE] : f \in Faults \cap {"listener"}}

\* startListening: clearQueue is one of the listeners, and one that the user has
\* registered may come before it.
startListening(u) ==
  {IF v.threw THEN v ELSE clearQueue(v) :
     v \in ListenerCalls([recvStart(u) EXCEPT !.bindState = "bound"])}

\* The native bind, which may fail.
udpBind == {TRUE} \cup {FALSE : f \in Faults \cap {"bind"}}

\* The failure of the native bind: the state is reset after the 'error' listeners
\* have run, and not at all if there are none, as emit() throws then.
bindFailed(u) ==
  {IF v.threw THEN v ELSE [v EXCEPT !.bindState = "unbound"] :
     v \in ListenerCalls([u EXCEPT !.failed = TRUE])}

\* doSend once the name is resolved; a request that is refused leads to a
\* ReferenceError when there is a callback (exceptionWithHostPort), and to nothing
\* when there is none.
doSend(u, m) ==
  IF ~u.open THEN {u}
  ELSE {udpSend(u, m)}
       \cup {[u EXCEPT !.threw = m \in Listened, !.refused = @ \cup {m}]
               : f \in Faults \cap {"send"}}

\* The end of a send, where its callback is called if there is one.
answer(u, m) == [u EXCEPT !.answered[m] = @ + 1]

-----------------------------------------------------------------------------
(* Actions.                                                                *)

Becomes(u) == udp' = [u EXCEPT !.asked = <<>>, !.threw = FALSE]

\* User code calls a function, or the loop calls back.  An exception of user
\* code's own call is for the user to handle.
Call(u) == Becomes(u) /\ CallStep(u.asked)
Event(u) == Becomes([u EXCEPT !.crashed = @ \/ u.threw]) /\ EventStep(u.asked)

DInit == udp = New /\ js = "frame" /\ queue = <<>> /\ batch = <<>>

\* A second bind() throws before it has changed anything.
Bind == /\ udp.open /\ udp.bindState = "unbound" /\ udp.binds < MaxCalls
        /\ Call(bind([udp EXCEPT !.binds = @ + 1]))

Send == /\ udp.open
        /\ \E m \in Messages \ udp.sent : Call(send([udp EXCEPT !.sent = @ \cup {m}], m))

Close == /\ udp.open /\ udp.closes < MaxCalls
         /\ Call(close([udp EXCEPT !.closes = @ + 1, !.closing = TRUE]))

\* Mutant: it is not looked whether the handle is still there.
BindLookup_NoCheck ==
  /\ "bind" \in udp.lookups
  /\ LET u == [udp EXCEPT !.lookups = @ \ {"bind"}]
     IN  \E v \in startListening(u) : Event(v)

\* The answer of the lookup of bind(): an error, a handle that was closed in the
\* mean time, a bind that fails, or one that succeeds.
BindLookup ==
  /\ "bind" \in udp.lookups
  /\ LET u == [udp EXCEPT !.lookups = @ \ {"bind"}]
     IN  \/ /\ "lookup" \in Faults
            /\ \E none \in BOOLEAN :
                 Event([u EXCEPT !.bindState = "unbound", !.failed = TRUE,
                                 !.threw = none])
         \/ ~u.open /\ Event(u)
         \/ /\ u.open
            /\ \E bound \in udpBind :
                 \E v \in IF bound THEN startListening(u) ELSE bindFailed(u) : Event(v)

\* The answer of the lookup of a send (afterDns).
SendLookup(m) ==
  /\ m \in udp.lookups
  /\ LET u == [udp EXCEPT !.lookups = @ \ {m}]
     IN  \/ \E v \in doSend(u, m) : Event(v)
         \/ /\ "lookup" \in Faults
            /\ \E none \in BOOLEAN :
                 Event([answer(u, m) EXCEPT !.threw = none /\ m \notin Listened])

\* libuv has refused to look up the name of a bind or of a send: the callback never
\* comes.  Nobody looks at the error that GetAddrInfo returns, so it makes no
\* difference when, from the call on, this is decided.
LookupRefused(name) ==
  /\ "refuse" \in Faults /\ name \in udp.lookups
  /\ udp' = [udp EXCEPT !.lookups = @ \ {name}, !.refused = @ \cup {name}]
  /\ UNCHANGED tickVars

\* OnSend: the message is sent, has failed, or was cancelled by close().
OnSend(m) ==
  m \in udp.underway /\ Event([answer(udp, m) EXCEPT !.underway = @ \ {m}])

\* OnRecv: a message is emitted; an error leads to a ReferenceError (errnoException).
OnRecv ==
  /\ udp.receiving
  /\ \E bad \in {FALSE} \cup {TRUE : f \in Faults \cap {"recv"}} :
       Event([udp EXCEPT !.threw = bad])

Tick == /\ TickStep(<<>>) /\ udp' = [udp EXCEPT !.closed = @ + 1]

\* _onNextTick, the end of its loop, and callbacks that are not the socket's.
Loop == (RunTicks \/ TicksDone \/ EventStep(<<>>)) /\ UNCHANGED udp

DNext == Bind \/ Send \/ Close \/ BindLookup \/ OnRecv \/ Tick \/ Loop
         \/ (\E name \in Messages \cup {"bind"} : LookupRefused(name))
         \/ \E m \in Messages : SendLookup(m) \/ OnSend(m)

\* Frames end and ticks run; lookups and requests that libuv has accepted are answered.
DFairness == /\ WF_dvars(Tick) /\ WF_dvars(FrameEnds /\ Loop) /\ WF_dvars(TicksDone /\ Loop)
             /\ SF_dvars(BindLookup)
             /\ \A m \in Messages : SF_dvars(SendLookup(m)) /\ SF_dvars(OnSend(m))

DSpec == DInit /\ [][DNext]_dvars /\ DFairness

-----------------------------------------------------------------------------
(* Properties.                                                             *)

DTypeOK == udp \in UdpRecord

\* Where a message is that has been sent.
Places(m) == Cardinality({i \in DOMAIN udp.calls : udp.calls[i] = m})
             + (IF m \in udp.lookups THEN 1 ELSE 0)
             + (IF m \in udp.underway THEN 1 ELSE 0)

\* As long as the socket is open and no exception was thrown, a send is in exactly one
\* place until it is answered, and in none afterwards: neither the queue nor its
\* flush, with listeners that send or close before and after it, loses or
\* repeats one.  One that libuv refuses at once, its lookup or the sending itself, is
\* never answered.
SendsConserved ==
  \A m \in Messages :
    /\ Places(m) + udp.answered[m] <= 1
    /\ (m \in udp.sent \ udp.refused /\ udp.open /\ ~udp.crashed)
         => Places(m) + udp.answered[m] = 1

\* 'close' is emitted once, for a socket that has stopped receiving; and no
\* answer that comes after close() makes use of the handle, which is null then:
\* not that of bind's lookup, and not that of a send's.
ClosedOnce ==
  /\ udp.closed + Len(queue) + Len(batch) = (IF udp.open THEN 0 ELSE 1)
  /\ ~udp.open => ~udp.receiving
  /\ ~udp.nullUsed

\* close() is followed by the 'close' event, even when it had to wait in the queue
\* for the bind; unless that fails, or its lookup is refused, which the socket is not
\* told: it binds for ever.  The tick of the event may wait as long as the loop.
CloseCompletes ==
  udp.closing ~> (udp.closed = 1 \/ udp.failed \/ udp.crashed
                  \/ "bind" \in udp.refused \/ []TicksWait)

=============================================================================
