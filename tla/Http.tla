-------------------------------- MODULE Http --------------------------------
(***************************************************************************)
(* One end of an HTTP connection: a request of http.request()              *)
(* (src/src/js/http_client.js), or a connection of an http server          *)
(* (http_server.js), with their outgoing messages (http_outgoing.js), on   *)
(* the socket of Socket, whose operators are used as they are.  What the   *)
(* handlers of http add to an event of the socket is applied where the     *)
(* event is emitted.                                                       *)
(*                                                                         *)
(* http-parser is reduced to the callbacks that reach the http modules     *)
(* (HttpParser models the wrapper): the headers are complete, a piece of   *)
(* the body, the message is complete, or an error.  The callbacks come     *)
(* while execute() runs, and _onNextTick runs after each of them, so that  *)
(* ticks of the socket come between the callbacks for one chunk of data.   *)
(***************************************************************************)
EXTENDS Socket

CONSTANTS
  MaxMessages,   \* bound on the messages that come in on the connection
  MaxCallbacks   \* bound on the callbacks of http-parser

ASSUME HttpAssumption == MaxMessages \in Nat \ {0} /\ MaxCallbacks \in Nat

VARIABLE http

webvars == <<http, svars>>

\* An OutgoingMessage: it has a socket, its header was sent, end() was called.
Outgoing(socket) == [attached |-> socket, sentHeader |-> FALSE, finished |-> FALSE]

\* setupConnection and connectionListener.
NewHttp(role, handled) ==
  [role |-> role,
   handled |-> handled,   \* the user handles 'timeout' (of a server)
   parser |-> TRUE,       \* socket.parser is not null
   \* http-parser: what it reads, the messages whose headers are complete,
   \* whether the body lasts until the end, and whether the chunk goes on
   phase |-> "idle", msg |-> 0, untilEof |-> FALSE, more |-> FALSE,
   \* the response that a client gets (a Readable), and 'close' of it
   flowing |-> FALSE, buffered |-> FALSE, eof |-> FALSE, endEmitted |-> FALSE,
   complete |-> FALSE, tellClose |-> FALSE, closeTold |-> FALSE,
   \* the request of a client, or the responses of a server
   out |-> [m \in 1..MaxMessages |-> Outgoing(role = "client")],
   errors |-> 0,          \* 'error' events of the request
   closed |-> FALSE,      \* the 'close' of the socket was handled
   late |-> FALSE,        \* the user wrote when the socket was ending already
   threw |-> FALSE]       \* a handler of http threw a TypeError

\* The handlers work on the socket and on the state of http.
Both == [s |-> sock, h |-> http]
IsClient(x) == x.h.role = "client"
Throw(x) == [x EXCEPT !.h.threw = TRUE]

-----------------------------------------------------------------------------
(* The incoming message of a client.                                       *)

\* responseOnEnd, and the listener that socketOnClose adds.
emitIncomingEnd(x) ==
  IF x.h.endEmitted THEN x
  ELSE [s |-> IF x.s.writable THEN destroySoon(x.s) ELSE x.s,
        h |-> [x.h EXCEPT !.endEmitted = TRUE, !.closeTold = x.h.tellClose]]

\* push(null)
onEof(x) ==
  LET y == [x EXCEPT !.h.eof = TRUE] IN IF y.h.buffered THEN y ELSE emitIncomingEnd(y)

\* push() of a piece of the body.
pushBody(x) == [x EXCEPT !.h.buffered = @ \/ ~x.h.flowing]

\* The parser is at the response that the request has got: a second one has an
\* IncomingMessage of its own, which nobody has a reference to.
AtResponse(x) == IsClient(x) /\ x.h.msg = 1

parserOnBody(x) == IF AtResponse(x) THEN pushBody(x) ELSE x

\* The socket is flowing, so that its resume() does nothing.
parserOnMessageComplete(x) ==
  LET y == [x EXCEPT !.h.phase = "idle"]
  IN  IF AtResponse(x) THEN onEof([y EXCEPT !.h.complete = TRUE]) ELSE y

\* Finish: http-parser is told that the input has ended.
finishFails(h) == h.phase = "head" \/ (h.phase = "body" /\ ~h.untilEof)
parserFinish(x) ==
  CASE finishFails(x.h) -> [x EXCEPT !.h.phase = "dead"]
    [] x.h.phase = "body" /\ x.h.untilEof -> parserOnMessageComplete(x)
    [] OTHER -> x

\* The client finishes its parser, if it still has one, and gives it up.
dropParser(x) == IF x.h.parser THEN [parserFinish(x) EXCEPT !.h.parser = FALSE] ELSE x

-----------------------------------------------------------------------------
(* The listeners of the socket's events.  Once the socket is closed, its   *)
(* _server is null.                                                        *)

\* Mutant: a client does not destroy the socket.
socketOnError_OnlyParser(x) ==
  IF IsClient(x) THEN dropParser(x)
  ELSE IF x.s.destroyed THEN Throw(x) ELSE [x EXCEPT !.s = destroy(@)]

\* The listener of a server emits 'clientError', whose listener destroys.
socketOnError(x) ==
  IF IsClient(x) THEN LET y == dropParser(x) IN [y EXCEPT !.s = destroy(@)]
  ELSE IF x.s.destroyed THEN Throw(x) ELSE [x EXCEPT !.s = destroy(@)]

clientOnEnd(x) == LET y == dropParser(x) IN [y EXCEPT !.s = destroy(@)]

\* httpAllowHalfOpen is false: the server ends as well, answered or not.
serverOnEnd(x) ==
  LET y == [parserFinish(x) EXCEPT !.h.parser = FALSE] IN
  CASE ~x.h.parser -> Throw(x)
    [] x.h.parser /\ finishFails(x.h) -> [x EXCEPT !.s = destroy(@), !.h.phase = "dead"]
    [] OTHER -> IF y.s.writable THEN [y EXCEPT !.s = end(@)] ELSE y

socketOnEnd(x) == IF IsClient(x) THEN clientOnEnd(x) ELSE serverOnEnd(x)

\* Mutant: a response that was cut off is not ended.
clientOnClose_NoEnd(x) ==
  LET y == [x EXCEPT !.h.closed = TRUE] IN
  dropParser(IF x.h.msg > 0 THEN [y EXCEPT !.h.tellClose = TRUE]
             ELSE [y EXCEPT !.h.errors = @ + 1])

\* The response ends, and tells 'close' when it ends now or later; without one
\* the request gets the error `socket hang up`.
clientOnClose(x) ==
  LET y == [x EXCEPT !.h.closed = TRUE] IN
  dropParser(IF x.h.msg > 0 THEN onEof([y EXCEPT !.h.tellClose = TRUE])
             ELSE [y EXCEPT !.h.errors = @ + 1])

socketOnClose(x) ==
  IF IsClient(x) THEN clientOnClose(x) ELSE [x EXCEPT !.h.closed = TRUE, !.h.parser = FALSE]

\* A client only tells the user.
socketOnTimeout(x) ==
  CASE IsClient(x) -> x
    [] ~IsClient(x) /\ x.s.destroyed -> Throw(x)
    [] OTHER -> IF x.h.handled THEN x ELSE [x EXCEPT !.s = destroy(@)]

\* What socketOnData does with an error that execute() returned.
parseError(x) ==
  LET y == [x EXCEPT !.s = destroy(@), !.h.phase = "dead"]
  IN  IF IsClient(x) THEN [y EXCEPT !.h.parser = FALSE, !.h.errors = @ + 1] ELSE y

-----------------------------------------------------------------------------
(* Messages.                                                               *)

\* parserOnIncomingClient: 'response', or the second one.  parserOnIncoming of
\* the server: a response is made for the request.
parserOnIncoming(x) ==
  LET m == x.h.msg IN
  CASE IsClient(x) -> IF m > 1 THEN [x EXCEPT !.s = destroy(@)] ELSE x
    [] OTHER -> [x EXCEPT !.h.out[m] = Outgoing(TRUE)]

\* _send: the header goes with the first chunk.  A write after the end of the
\* socket is an error of the socket.
send(x, m) ==
  LET y == [x EXCEPT !.h.out[m].sentHeader = TRUE, !.h.late = @ \/ x.s.ending] IN
  CASE ~x.h.out[m].attached -> Throw(x)
    [] x.h.out[m].attached /\ x.s.ended -> socketOnError(y)
    [] OTHER -> [y EXCEPT !.s = write(@)]

\* resOnFinish, with detachSocket.
resOnFinish(x, m) == [x EXCEPT !.h.out[m].attached = FALSE, !.s = destroySoon(@)]

\* Mutant: 'prefinish' is emitted before the last chunk is sent.
outgoingEnd_FinishFirst(x, m, data) ==
  LET y == IF data THEN send(x, m) ELSE x
      z == [y EXCEPT !.h.out[m].finished = TRUE]
  IN  send(IF IsClient(x) THEN z ELSE resOnFinish(z, m), m)

\* OutgoingMessage.end, with data or without; 'prefinish' is emitted last.
outgoingEnd(x, m, data) ==
  LET y == IF data THEN send(x, m) ELSE x
      z == IF y.h.threw THEN y ELSE send(y, m)
      f == [z EXCEPT !.h.out[m].finished = TRUE]
  IN  IF z.h.threw THEN z ELSE IF IsClient(x) THEN f ELSE resOnFinish(f, m)

-----------------------------------------------------------------------------
(* Steps.                                                                  *)

UserCall(y) == http' = y.h /\ Call(y.s)
WebEvent(y) == http' = y.h /\ Event(y.s)

\* http.request() was called, or a connection accepted.
WebInit ==
  /\ js = "frame" /\ batch = <<>>
  /\ \/ /\ http = NewHttp("client", FALSE) /\ queue = <<>>
        /\ \E accepted \in BOOLEAN :
             sock = GetAddrInfo([resetSocketTimeout(New(FALSE, TRUE)) EXCEPT
                                   !.connecting = TRUE, !.handle = "open"], accepted)
     \/ /\ \E handled \in BOOLEAN : http = NewHttp("server", handled)
        /\ LET s == onSocketConnect([New(TRUE, TRUE) EXCEPT !.handle = "open"])
           IN  sock = [s EXCEPT !.asked = {}] /\ queue = Queue(s)

\* The messages that the user may write to: a server's when it got the request.
\* One call on a connection that is ending is enough to see what it does.
Open(m) ==
  ~http.late /\ ~http.out[m].finished /\ m <= (IF IsClient(Both) THEN 1 ELSE http.msg)

\* OutgoingMessage.write; for a message without a body it does nothing.
OutgoingWrite(m) == Open(m) /\ sock.sent < MaxChunks /\ UserCall(send(Both, m))
OutgoingEnd(m) ==
  /\ Open(m) /\ sock.sent < MaxChunks + 2
  /\ \E data \in BOOLEAN : UserCall(outgoingEnd(Both, m, data))

\* The user listens for 'data' of the response: resume().
ReadResponse ==
  /\ IsClient(Both) /\ http.msg > 0 /\ ~http.flowing
  /\ LET y == [Both EXCEPT !.h.flowing = TRUE, !.h.buffered = FALSE]
     IN  UserCall(IF http.buffered /\ http.eof THEN emitIncomingEnd(y) ELSE y)

\* What http-parser may report next (external).
Callbacks ==
  (CASE http.phase \in {"idle", "head"} /\ http.msg < MaxMessages -> {"head", "headers"}
     [] http.phase = "body" -> {"body", "complete"}
     [] OTHER -> {}) \cup {"error"}

\* A callback of http-parser, on_headers_complete with parserOnHeadersComplete
\* among them, and the end of socketOnData.
OnCallback(x, callback) ==
  CASE callback = "head" -> {[x EXCEPT !.h.phase = "head"]}
    [] callback = "headers" ->
         {parserOnIncoming([x EXCEPT !.h.phase = "body", !.h.msg = @ + 1, !.h.untilEof = u]) :
            u \in {FALSE, IsClient(x)}}
    [] callback = "body" -> {parserOnBody(x)}
    [] callback = "complete" -> {parserOnMessageComplete(x)}
    [] callback = "error" -> {parseError(x)}

\* Data arrive, or the rest of a chunk is parsed.  Without a parser socketOnData
\* throws.
OnData ==
  LET x == [Both EXCEPT !.s = IF http.more THEN sock
                              ELSE [resetSocketTimeout(sock) EXCEPT !.received = @ + 1],
                        !.h.more = FALSE]
  IN  /\ http.more \/ (sock.reading /\ sock.received < MaxCallbacks)
      /\ \/ ~http.parser /\ ~http.more /\ WebEvent(Throw(x))
         \/ /\ http.parser \/ http.more
            /\ \E callback \in Callbacks, more \in BOOLEAN : \E y \in OnCallback(x, callback) :
                 /\ more => /\ callback \notin {"head", "error"}
                            /\ sock.received < MaxCallbacks
                 /\ WebEvent([y EXCEPT !.h.more = more,
                                       !.s.received = IF http.more THEN @ + 1 ELSE @])

\* onread at the end: onSocketEnd of the socket is its first listener.
readEnd(x) ==
  LET y == socketOnEnd([x EXCEPT !.s = emitEnd([@ EXCEPT !.eof = TRUE, !.reading = FALSE])])
  IN  [y EXCEPT !.s = maybeDestroy([@ EXCEPT !.readable = FALSE])]

OnEnd == sock.reading /\ WebEvent(readEnd([Both EXCEPT !.s = resetSocketTimeout(@)]))

OnError ==
  /\ sock.reading
  /\ WebEvent(socketOnError([Both EXCEPT !.s = [resetSocketTimeout(@) EXCEPT !.reading = FALSE]]))

\* AfterConnect; a failed connect emits 'error' when the socket is destroyed.
OnConnect ==
  /\ sock.connectReq = "pending"
  /\ \E failed \in BOOLEAN :
       LET y == [Both EXCEPT !.s = afterConnect([@ EXCEPT !.connectReq = "done"], failed)]
       IN  WebEvent(IF failed /\ ~sock.destroyed THEN socketOnError(y) ELSE y)

\* The idle timer fires; it is cleared when the listeners have returned.
OnTimeout ==
  sock.timer /\ LET y == socketOnTimeout(Both) IN WebEvent([y EXCEPT !.s.timer = FALSE])

\* AfterClose
OnClose ==
  AllAnswered /\ WebEvent(socketOnClose([Both EXCEPT !.s = [@ EXCEPT !.handle = "closed"]]))

\* The next tick.  A failed lookup is reported as an 'error' first.
WebTick ==
  /\ js = "ticks" /\ batch # <<>>
  /\ LET name == Head(batch)
         x == IF name = "lookupFailed" THEN socketOnError(Both) ELSE Both
         s == runTick(x.s, name)
     IN  http' = x.h /\ Becomes(s) /\ TickStep(Queue(s))

WebUser == \E m \in 1..MaxMessages : OutgoingWrite(m) \/ OutgoingEnd(m)

\* The callbacks of the loop, which come when the chunk of data is parsed; the
\* handlers of http have no part in the second group.
WebLoop == ~http.more /\ (OnEnd \/ OnError \/ OnConnect \/ OnTimeout \/ OnClose)
SocketLoop(A) == ~http.more /\ A /\ UNCHANGED http
OtherEvent == EventStep(<<>>) /\ UNCHANGED sock

WebTicks(A) == A /\ UNCHANGED <<sock, http>>

WebNext ==
  \/ WebUser \/ ReadResponse \/ OnData \/ WebLoop \/ WebTick
  \/ SocketLoop(LookupDone) \/ SocketLoop(AfterWrite) \/ SocketLoop(AfterShutdown)
  \/ SocketLoop(OtherEvent) \/ (WriteRefused /\ UNCHANGED http)
  \/ WebTicks(RunTicks) \/ WebTicks(TicksDone)

\* What is due when the loop is idle: the rest of a chunk, the answers of libuv, and
\* the idle timer.
Due == \/ http.more /\ OnData
       \/ SocketLoop(AfterWrite) \/ SocketLoop(AfterShutdown)
       \/ ~http.more /\ (OnClose \/ OnTimeout)

\* As in Socket; the user reads the response.  Each thing that is due happens a
\* bounded number of times, so one condition is enough for all.
WebFairness ==
  /\ WF_webvars(WebTick) /\ WF_webvars(WebTicks(FrameEnds)) /\ WF_webvars(WebTicks(TicksDone))
  /\ SF_webvars(Due) /\ SF_webvars(ReadResponse)

WebSpec == WebInit /\ [][WebNext]_webvars /\ WebFairness

-----------------------------------------------------------------------------
(* Properties.                                                             *)

\* When the connection of a request is gone, the user was told: without a response
\* there was an error, and a response has ended, once it was read.  A response
\* that ends before the message is complete also tells 'close', so that it is not
\* taken for a whole one.  The handlers throw nothing, unless data follow a
\* parse error, when the parser is gone (http_client.js:147).
ClientTold ==
  http.role = "client" =>
    /\ http.closed => IF http.msg = 0 THEN http.errors > 0
                      ELSE http.eof /\ (http.endEmitted \/ http.buffered)
    /\ (http.endEmitted /\ ~http.complete) => http.closeTold
    /\ http.threw => http.phase = "dead"

\* A server's response that is ended was sent with its header, and is flushed
\* before the connection closes, whatever made it close; no handler uses the
\* parser or the server when they are gone.  Both are promised to a user who
\* does not write to a connection that is ending already.
ServerSound ==
  (http.role = "server" /\ ~http.late) =>
    /\ \A m \in 1..MaxMessages : http.out[m].finished => http.out[m].sentHeader
    /\ sock.destroyed => sock.out = 0
    /\ ~http.threw /\ ~sock.misused

\* A server's connection closes in the end, by the answer, the end of the input, an
\* error or the idle time, unless the user handles 'timeout'; and so does that of
\* a client when the response has ended or the parser was given up.  As for the
\* socket, this is not promised when libuv has refused to write, or when a tick
\* that a tick has queued waits for an event that never comes.
HttpCloses ==
  (IF http.role = "server" THEN ~http.handled
   ELSE sock.connected /\ (http.endEmitted \/ ~http.parser))
     ~> (http.closed \/ sock.stuck \/ []TicksWait)
=============================================================================
