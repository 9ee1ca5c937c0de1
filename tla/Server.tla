------------------------------- MODULE Server -------------------------------
(***************************************************************************)
(* net.Server (src/src/js/net.js over src/src/module/iotjs_module_tcp.c):  *)
(* listening, accepting connections, counting the sockets they gave, and   *)
(* the 'close' event that waits for the last of them.  Of a socket only    *)
(* its own close() and its reference to the server are seen here.          *)
(***************************************************************************)
EXTENDS Naturals, FiniteSets, TickQueue

CONSTANTS
  Sockets,   \* the connections that clients may open
  MaxCalls,  \* bound on the calls of listen() and on those of close()
  Relisten   \* may listen() be called before the 'close' of every close()?

ASSUME ServerAssumption ==
  IsFiniteSet(Sockets) /\ MaxCalls \in Nat /\ Relisten \in BOOLEAN

VARIABLES
  handle,    \* server._handle: "none", or the state of the handle it refers to
  count,     \* server._socketCount
  served,    \* the sockets whose _server is this server
  conn,      \* the state of each connection
  listens, closes,   \* the calls of listen() and close() so far
  waiting,   \* listeners that once('close') has registered for close()
  emitted    \* 'close' events so far

vars == <<handle, count, served, conn, listens, closes, waiting, emitted, tickVars>>

Live == {s \in Sockets : conn[s] = "open"}

TypeOK ==
  /\ handle \in {"none", "listening", "closed"}
  /\ count \in 0 .. Cardinality(Sockets) /\ served \in SUBSET Sockets
  /\ conn \in [Sockets -> {"none", "open", "closed"}]
  /\ queue \in Seq({"listening", "close"}) /\ batch \in Seq({"listening", "close"})
  /\ js \in {"frame", "ticks", "idle"}
  /\ listens \in 0 .. MaxCalls /\ closes \in 0 .. MaxCalls
  /\ waiting \in 0 .. MaxCalls /\ emitted \in Nat

\* Server()
Init ==
  /\ handle = "none" /\ count = 0 /\ served = {} /\ conn = [s \in Sockets |-> "none"]
  /\ listens = 0 /\ closes = 0 /\ waiting = 0 /\ emitted = 0
  /\ js = "frame" /\ queue = <<>> /\ batch = <<>>

\* Mutant: the sockets are not waited for.
emitCloseIfDrained_NoCount == IF handle' = "none" THEN <<"close">> ELSE <<>>

\* The tick that _emitCloseIfDrained queues, with the handle and the count that
\* its caller leaves.
emitCloseIfDrained == IF handle' = "none" /\ count' = 0 THEN <<"close">> ELSE <<>>

\* A 'close' has been queued and not delivered.
CloseQueued == \/ \E i \in 1 .. Len(queue) : queue[i] = "close"
               \/ \E i \in 1 .. Len(batch) : batch[i] = "close"

\* The user's discipline: no second attempt after a listen() that failed (the
\* closed handle would be bound, which is undefined), and no listen() before the
\* 'close' of every close().
MayListen ==
  /\ handle # "closed"
  /\ Relisten \/ (waiting = 0 /\ ~CloseQueued)

\* Server.listen.  A failed bind or listen closes the handle, but the server
\* keeps referring to it; a server that listens already cannot bind again.
listen ==
  /\ listens < MaxCalls /\ listens' = listens + 1 /\ MayListen
  /\ \/ handle = "none" /\ handle' = "listening" /\ CallStep(<<"listening">>)
     \/ handle' = "closed" /\ CallStep(<<>>)
  /\ UNCHANGED <<count, served, conn, closes, waiting, emitted>>

\* Mutant: 'close' is not checked for when close() is called.
closeServer_OnlyHandle ==
  /\ closes < MaxCalls /\ closes' = closes + 1
  /\ waiting' = waiting + 1
  /\ handle' = "none"
  /\ CallStep(<<>>)
  /\ UNCHANGED <<count, served, conn, listens, emitted>>

\* Server.close, with a callback.
closeServer ==
  /\ closes < MaxCalls /\ closes' = closes + 1
  /\ waiting' = waiting + 1
  /\ handle' = "none"
  /\ UNCHANGED count /\ CallStep(emitCloseIfDrained)
  /\ UNCHANGED <<served, conn, listens, emitted>>

\* onconnection: the socket is created, refers to the server and is counted.
onconnection(s) ==
  /\ conn[s] = "none" /\ conn' = [conn EXCEPT ![s] = "open"]
  /\ served' = served \cup {s} /\ count' = count + 1

\* OnConnection: a client connects.  A failed accept (status, or uv_accept) is
\* reported or dropped, and the server goes on.
OnConnection ==
  /\ handle = "listening" /\ EventStep(<<>>)
  /\ \E s \in Sockets : onconnection(s)
  /\ UNCHANGED <<handle, listens, closes, waiting, emitted>>

\* The socket is taken off the count the first time, when its _server is cleared.
leaveServer(s) ==
  IF s \in served THEN count' = count - 1 /\ served' = served \ {s}
  ELSE UNCHANGED <<count, served>>

\* close() of an accepted socket, by a call, or by a tick or an event of its own.
\* It is not relied on here that the socket calls it once.
SocketClose(s) ==
  /\ conn[s] # "none" /\ conn' = [conn EXCEPT ![s] = "closed"]
  /\ leaveServer(s)
  /\ UNCHANGED handle
  /\ LET asked == IF s \in served THEN emitCloseIfDrained ELSE <<>>
     IN  CallStep(asked) \/ EventStep(asked)
  /\ UNCHANGED <<listens, closes, waiting, emitted>>

\* A tick of the server runs: 'listening' or 'close', whose listeners are called.
ServerTick ==
  /\ TickStep(<<>>)
  /\ IF Head(batch) = "close" THEN waiting' = 0 /\ emitted' = emitted + 1
     ELSE UNCHANGED <<waiting, emitted>>
  /\ UNCHANGED <<handle, count, served, conn, listens, closes>>

\* _onNextTick, the end of its loop, and callbacks that are not the server's.
ServerLoop ==
  /\ RunTicks \/ TicksDone \/ EventStep(<<>>)
  /\ UNCHANGED <<handle, count, served, conn, listens, closes, waiting, emitted>>

Next == listen \/ closeServer \/ OnConnection \/ ServerTick \/ ServerLoop
        \/ \E s \in Sockets : SocketClose(s)

\* Frames end and ticks run; every connection is closed by one of its ends.
Fairness == /\ WF_vars(ServerTick)
            /\ WF_vars(FrameEnds /\ ServerLoop) /\ WF_vars(TicksDone /\ ServerLoop)
            /\ \A s \in Sockets : WF_vars(s \in Live /\ SocketClose(s))

Spec == Init /\ [][Next]_vars /\ Fairness

-----------------------------------------------------------------------------
(* Properties.                                                             *)

\* 'close' is emitted only for a server that is closed and has no connection
\* left, when the event is delivered and not only when it was queued.
\* docs/IoT.js-API-Net.md: "Note that this event will be emitted after all
\* existing connections are closed."
CloseMeansDrained ==
  [][emitted' > emitted => handle = "none" /\ Live = {}]_vars

\* The callback of close() is called in the end, unless the tick that would call
\* it was queued by a tick and waits for an event of the loop that never comes.
CloseCalledBack == waiting > 0 ~> (waiting = 0 \/ []TicksWait)

=============================================================================
