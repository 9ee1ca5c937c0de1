------------------------------- MODULE Socket -------------------------------
(***************************************************************************)
(* net.Socket (src/src/js/net.js over src/src/module/iotjs_module_tcp.c):  *)
(* the life of one socket, from connect() or a server's accept to the      *)
(* 'close' event.  The socket is a Duplex: of its two streams only what    *)
(* net.js reads is kept (Writable and Readable model them in full), and a  *)
(* chunk is counted, not described.                                        *)
(*                                                                         *)
(* The handlers of net.js call each other (onread -> push -> 'end' ->      *)
(* onSocketEnd -> destroySoon -> end -> ...) without giving up control, so *)
(* each is an operator from the socket before the call to the socket after *)
(* it, and an action applies one of them.  What a listener of the user     *)
(* calls is a step of its own, after the handler that emitted the event.   *)
(* The platform is not NuttX.                                              *)
(***************************************************************************)
EXTENDS Naturals, TickQueue

CONSTANTS
  MaxChunks,  \* bound on the chunks that are written, and on those received
  Habits      \* what the user does beyond the discipline of a careful one:
              \*   "destroyInLookup": destroy() or end() before the name is resolved
              \*   "endEarly":  end() before the connection is established
              \*   "reconnect": connect() of a socket whose connect has failed
              \*   "pause":     data are left in the buffer for a while
              \*   "writeAfterEnd": write() between end() and 'finish'
              \*   "timeoutAfterDestroy": setTimeout() of a destroyed socket

ASSUME SocketAssumption ==
  /\ MaxChunks \in Nat
  /\ Habits \subseteq {"destroyInLookup", "endEarly", "reconnect", "pause",
                      "writeAfterEnd", "timeoutAfterDestroy"}

VARIABLE
  sock      \* the socket, its streams, its handle and its requests

svars == <<sock, tickVars>>

HandleStates == {"none", "open", "closing", "closed"}
RequestStates == {"none", "pending", "done"}
TickNames == {"readStart", "finish", "lookupFailed"}

SocketRecord ==
  [ \* SocketState and the timer
    connecting : BOOLEAN, connected : BOOLEAN, writable : BOOLEAN, readable : BOOLEAN,
    destroyed : BOOLEAN, allowHalfOpen : BOOLEAN, timer : BOOLEAN,
    doomed : BOOLEAN,                      \* destroy() was called
    \* the writable stream: chunks accepted and not flushed, and its flags
    out : Nat, ready : BOOLEAN, writing : BOOLEAN, ending : BOOLEAN, ended : BOOLEAN,
    tail : Nat,                            \* those of `out` that followed end()
    stuck : BOOLEAN,                       \* uv_write has refused the one underway
    onFinish : BOOLEAN,                    \* once('finish', destroy) is registered
    \* the readable stream: chunks buffered, and its flags
    buffered : Nat, flowing : BOOLEAN, eof : BOOLEAN, endEmitted : BOOLEAN,
    \* the native handle and its requests
    handle : HandleStates, reading : BOOLEAN,
    lookup : RequestStates, connectReq : RequestStates, shutdownReq : RequestStates,
    misused : BOOLEAN,                     \* a closed handle was operated on
    threw : BOOLEAN,                       \* a handler threw a TypeError
    asked : SUBSET TickNames,              \* queued by this call
    sent : Nat, received : Nat ]           \* chunks so far, for the bounds

\* A new socket of net.connect(), or one that a server has accepted.
New(half, flow) ==
  [connecting |-> FALSE, connected |-> FALSE, writable |-> TRUE, readable |-> TRUE,
   destroyed |-> FALSE, allowHalfOpen |-> half, timer |-> FALSE, doomed |-> FALSE,
   out |-> 0, ready |-> FALSE, writing |-> FALSE, ending |-> FALSE, ended |-> FALSE,
   tail |-> 0, stuck |-> FALSE, onFinish |-> FALSE,
   buffered |-> 0, flowing |-> flow, eof |-> FALSE, endEmitted |-> FALSE,
   handle |-> "none", reading |-> FALSE,
   lookup |-> "none", connectReq |-> "none", shutdownReq |-> "none",
   misused |-> FALSE, threw |-> FALSE, asked |-> {}, sent |-> 0, received |-> 0]

-----------------------------------------------------------------------------
(* The functions of net.js, innermost first.                               *)

\* resetSocketTimeout
resetSocketTimeout(s) == IF s.destroyed THEN s ELSE [s EXCEPT !.timer = TRUE]

\* An operation of the native handle that leads from s to done: undefined when
\* the handle has been closed, a TypeError when there is none.
native(s, done) == CASE s.handle = "none" -> [s EXCEPT !.threw = TRUE]
                     [] s.handle = "open" -> done
                     [] OTHER -> [s EXCEPT !.misused = TRUE]

\* Connect of the Tcp object.  uv_ip4_addr or uv_tcp_connect may refuse: then
\* there is no request, and no callback.
tcpConnect(s, refused) ==
  native(s, IF refused THEN s ELSE [s EXCEPT !.connectReq = "pending"])

\* Write of the Tcp object.  uv_write refuses a handle that is closing (and may
\* refuse an open one, see WriteRefused): the stream waits for a callback that
\* never comes.
tcpWrite(s) ==
  IF s.handle = "closing" THEN [s EXCEPT !.writing = TRUE, !.stuck = TRUE]
  ELSE native(s, [s EXCEPT !.writing = TRUE])

\* ReadStart of the Tcp object.  uv_read_start refuses a handle that is closing.
tcpReadStart(s) ==
  IF s.handle = "closing" THEN s ELSE native(s, [s EXCEPT !.reading = TRUE])

\* Shutdown of the Tcp object.  uv_shutdown refuses a handle that is not connected.
tcpShutdown(s) ==
  native(s, IF s.connected THEN [s EXCEPT !.shutdownReq = "pending"] ELSE s)

\* close: the handle closes at once, 'close' comes with the loop.  A handle
\* that is closing already is left alone (iotjs_handlewrap_close).
close(s) == CASE s.handle = "none" -> [s EXCEPT !.threw = TRUE]
              [] s.handle = "open" -> [s EXCEPT !.handle = "closing", !.reading = FALSE,
                                                !.destroyed = TRUE]
              [] OTHER -> [s EXCEPT !.destroyed = TRUE]

\* Socket.end: the writable stream finishes now or after its last chunk.
end(s) ==
  [s EXCEPT !.writable = FALSE,
            !.ending = TRUE,
            !.asked = IF ~s.ending /\ s.out = 0 THEN @ \cup {"finish"} ELSE @]

\* Mutant: the handle is closed without waiting for 'finish'.
destroy_AtOnce(s) ==
  IF s.destroyed THEN s
  ELSE close([IF s.writable THEN end(s) ELSE s EXCEPT !.timer = FALSE, !.doomed = TRUE])

\* Mutant: the idle timer is left running.
destroy_KeepsTimer(s) ==
  LET t == [IF s.writable THEN end(s) ELSE s EXCEPT !.doomed = TRUE]
  IN  CASE s.destroyed -> s
        [] ~s.destroyed /\ t.ended -> close(t)
        [] OTHER -> [t EXCEPT !.onFinish = TRUE]

\* Socket.destroy
destroy(s) ==
  LET t == [IF s.writable THEN end(s) ELSE s EXCEPT !.timer = FALSE, !.doomed = TRUE]
  IN  CASE s.destroyed -> s
        [] ~s.destroyed /\ t.ended -> close(t)
        [] OTHER -> [t EXCEPT !.onFinish = TRUE]

\* Socket.destroySoon.  _writableState has no member `finished`, so that the
\* socket always waits for 'finish'.
destroySoon(s) == [IF s.writable THEN end(s) ELSE s EXCEPT !.onFinish = TRUE]

maybeDestroy(s) ==
  IF ~s.connecting /\ ~s.writable /\ ~s.readable THEN destroy(s) ELSE s

\* Mutant: the outgoing half is not shut down.
onSocketFinish_NoShutdown(s) == IF ~s.readable \/ s.eof THEN destroy(s) ELSE s

\* The listener of 'finish'.  An error of the shutdown is ignored.
onSocketFinish(s) ==
  IF ~s.readable \/ s.eof THEN destroy(s)
  ELSE tcpShutdown(s)

\* emitFinish of the writable stream: onSocketFinish, which throws without a
\* handle, then the listeners that destroy() and destroySoon() have left.
emitFinish(s) ==
  LET t == onSocketFinish([s EXCEPT !.ended = TRUE])
  IN  CASE s.ended -> s
        [] ~s.ended /\ t.onFinish /\ s.handle # "none" -> destroy(t)
        [] OTHER -> t

\* writeBuffered of the writable stream, and Socket._write.
writeBuffered(s) ==
  CASE s.out > 0 -> tcpWrite(resetSocketTimeout(s))
    [] s.out = 0 /\ s.ending -> emitFinish(s)
    [] OTHER -> s

\* The listener of 'end'.
onSocketEnd(s) ==
  LET t == maybeDestroy(s) IN IF s.allowHalfOpen THEN t ELSE destroySoon(t)

\* emitEnd of the readable stream.
emitEnd(s) == IF s.endEmitted THEN s ELSE onSocketEnd([s EXCEPT !.endEmitted = TRUE])

\* onSocketConnect: reading starts at the next tick.
onSocketConnect(s) ==
  LET t == resetSocketTimeout([s EXCEPT !.connecting = FALSE, !.connected = TRUE,
                                        !.ready = TRUE])
      u == writeBuffered(t)
  IN  [u EXCEPT !.asked = @ \cup {"readStart"}]

-----------------------------------------------------------------------------
(* Steps.  A call leaves in `asked` what it has queued for the next tick;  *)
(* a handler queues at most one tick of a name.                            *)

\* readStart is queued by onSocketConnect before anything its listeners queue.
Queue(s) == (IF "readStart" \in s.asked THEN <<"readStart">> ELSE <<>>)
            \o (IF "finish" \in s.asked THEN <<"finish">> ELSE <<>>)
            \o (IF "lookupFailed" \in s.asked THEN <<"lookupFailed">> ELSE <<>>)

\* The socket becomes s.
Becomes(s) == sock' = [s EXCEPT !.asked = {}]

\* A call that the user makes, from the main script, a callback or a tick.
Call(s) == Becomes(s) /\ CallStep(Queue(s))

\* A callback of the loop.
Event(s) == EventStep(Queue(s)) /\ Becomes(s)

\* net.connect() of the program, or a socket that was just accepted (onconnection).
SInit ==
  /\ js = "frame" /\ batch = <<>>
  /\ \E half, flow \in BOOLEAN : (flow \/ "pause" \in Habits) /\
       \/ sock = New(half, flow) /\ queue = <<>>
       \/ LET s == onSocketConnect([New(half, flow) EXCEPT !.handle = "open"])
          IN  sock = [s EXCEPT !.asked = {}] /\ queue = Queue(s)

\* GetAddrInfo: the request is underway, or libuv has refused it; nobody looks
\* at the error that the handler returns then.
GetAddrInfo(s, accepted) == IF accepted THEN [s EXCEPT !.lookup = "pending"] ELSE s

\* Socket.connect, up to the lookup; a port out of range throws when the
\* socket has been marked as connecting, which leaves it as a lookup that is
\* refused does.
connect ==
  /\ ~sock.connecting /\ ~sock.connected
  /\ sock.handle = "none" \/ "reconnect" \in Habits
  /\ LET s == [resetSocketTimeout(sock) EXCEPT !.connecting = TRUE,
                  !.handle = IF @ = "none" THEN "open" ELSE @]
     IN  \E accepted \in BOOLEAN : Call(GetAddrInfo(s, accepted))

\* The callback of dns.lookup.  That the address was refused is ignored.
LookupDone ==
  /\ sock.lookup = "pending"
  /\ LET s == [sock EXCEPT !.lookup = "done"]
     IN  \/ Event([s EXCEPT !.asked = {"lookupFailed"}])
         \/ \E refused \in BOOLEAN : Event(tcpConnect(resetSocketTimeout(s), refused))

\* afterConnect, the callback of connect in net.js.
afterConnect(s, failed) ==
  LET t == [s EXCEPT !.connecting = FALSE]
  IN  CASE t.destroyed -> t
        [] ~t.destroyed /\ failed -> destroy(t)
        [] OTHER -> onSocketConnect(t)

\* AfterConnect.  The request of a handle that is closing is cancelled.
AfterConnect ==
  /\ sock.connectReq = "pending"
  /\ \E failed \in BOOLEAN : Event(afterConnect([sock EXCEPT !.connectReq = "done"], failed))

\* The user's discipline for end() and destroy().
MayDestroy == /\ sock.handle # "none"
              /\ sock.lookup # "pending" \/ "destroyInLookup" \in Habits
MayEnd == MayDestroy /\ (sock.connected \/ "endEarly" \in Habits)

\* Socket.write of a stream that has not ended: the chunk is written or buffered.
write(s) ==
  LET t == [s EXCEPT !.out = @ + 1, !.sent = @ + 1,
                     !.tail = IF s.ending THEN @ + 1 ELSE @]
  IN  IF t.ready /\ ~t.writing /\ s.out = 0 THEN writeBuffered(t) ELSE t

\* Socket.write; when the stream has ended it only reports 'write after end'.
Write == /\ sock.ending /\ ~sock.ended => "writeAfterEnd" \in Habits
         /\ sock.sent < MaxChunks
         /\ Call(IF sock.ended THEN sock ELSE write(sock))

End == MayEnd /\ ~sock.ending /\ Call(end(sock))

Destroy == MayDestroy /\ Call(destroy(sock))

\* Socket.setTimeout, with and without a time.  Unlike resetSocketTimeout it does
\* not ask whether the socket is destroyed.
setTimeout == /\ sock.destroyed => "timeoutAfterDestroy" \in Habits
              /\ \E on \in BOOLEAN : Call([sock EXCEPT !.timer = on])

\* pause and resume of the readable stream.
Pause == "pause" \in Habits /\ sock.flowing /\ Call([sock EXCEPT !.flowing = FALSE])

Resume ==
  /\ ~sock.flowing
  /\ LET s == [sock EXCEPT !.flowing = TRUE, !.buffered = 0]
     IN  Call(IF sock.buffered > 0 /\ s.eof THEN emitEnd(s) ELSE s)

\* A request to write is with libuv.
Underway(s) == s.writing /\ ~s.stuck

\* libuv has refused that request: there will be no callback.  Nobody looks at the
\* error that Write of the Tcp object returns, so it makes no difference when,
\* from the call on, this is decided.
WriteRefused == Underway(sock) /\ sock' = [sock EXCEPT !.stuck = TRUE] /\ UNCHANGED tickVars

\* The chunk underway is gone; when only chunks that followed end() were left, it
\* was one of them.
afterWrite(s) == [s EXCEPT !.writing = FALSE, !.out = @ - 1,
                           !.tail = IF s.tail = s.out THEN @ - 1 ELSE @]

\* The chunk underway is written, or has failed: the status is ignored.
AfterWrite == Underway(sock) /\ Event(writeBuffered(afterWrite(sock)))

\* onread: a chunk.
OnReadData ==
  /\ sock.reading /\ sock.received < MaxChunks
  /\ LET s == [resetSocketTimeout(sock) EXCEPT !.received = @ + 1]
     IN  Event(IF s.flowing THEN s ELSE [s EXCEPT !.buffered = @ + 1])

\* Mutant: the socket is not destroyed when it has become unreadable.
readEof_NoDestroy(s) ==
  LET t == [s EXCEPT !.eof = TRUE, !.reading = FALSE]
  IN  IF t.buffered = 0 THEN [emitEnd(t) EXCEPT !.readable = FALSE] ELSE t

\* onread at the end of the stream: push(null), then the socket's own flags.
readEof(s) ==
  LET t == [s EXCEPT !.eof = TRUE, !.reading = FALSE]
  IN  IF t.buffered = 0
      THEN maybeDestroy([emitEnd(t) EXCEPT !.readable = FALSE])
      ELSE t

OnReadEof == sock.reading /\ Event(readEof(resetSocketTimeout(sock)))

\* onread with an error: it is emitted, and that is all.
OnReadError == sock.reading /\ Event([resetSocketTimeout(sock) EXCEPT !.reading = FALSE])

\* The callback of shutdown, once everything is written.
AfterShutdown ==
  /\ sock.shutdownReq = "pending" /\ ~Underway(sock)
  /\ LET s == [sock EXCEPT !.shutdownReq = "done"]
     IN  Event(IF s.eof THEN destroy(s) ELSE s)

\* The idle timer fires and is cleared.
Timeout == sock.timer /\ Event([sock EXCEPT !.timer = FALSE])

\* The last callback of a handle comes after those of its cancelled requests.
AllAnswered ==
  /\ sock.handle = "closing"
  /\ "pending" \notin {sock.connectReq, sock.shutdownReq} /\ ~Underway(sock)

AfterClose == AllAnswered /\ Event([sock EXCEPT !.handle = "closed"])

\* A tick of the socket.  A failed lookup ends in a call of the method _destroy,
\* which no socket has.
runTick(s, name) ==
  CASE name = "finish" -> emitFinish(s)
    [] name = "readStart" -> tcpReadStart(s)
    [] name = "lookupFailed" -> [s EXCEPT !.threw = TRUE]

\* The next one runs.
Tick ==
  /\ js = "ticks" /\ batch # <<>>
  /\ LET s == runTick(sock, Head(batch)) IN Becomes(s) /\ TickStep(Queue(s))

UserStep == connect \/ Write \/ End \/ Destroy \/ setTimeout \/ Pause
LoopStep == LookupDone \/ AfterConnect \/ AfterWrite \/ OnReadData \/ OnReadEof
            \/ OnReadError \/ AfterShutdown \/ Timeout \/ AfterClose

\* _onNextTick, the end of its loop, and callbacks that are not the socket's.
Loop == (RunTicks \/ TicksDone \/ EventStep(<<>>)) /\ UNCHANGED sock

SNext == UserStep \/ Resume \/ WriteRefused \/ LoopStep \/ Tick \/ Loop

\* Frames end and ticks run.  libuv answers every request that it has accepted (the
\* peer reads on, or the connection fails) and closes what is closing.  No event
\* is taken for granted: while the loop is idle, ticks may wait for ever.
SFairness == /\ WF_svars(Tick) /\ WF_svars(FrameEnds /\ Loop) /\ WF_svars(TicksDone /\ Loop)
             /\ SF_svars(AfterWrite) /\ SF_svars(AfterShutdown) /\ SF_svars(AfterClose)
             /\ SF_svars(AfterConnect)

SSpec == SInit /\ [][SNext]_svars /\ SFairness

-----------------------------------------------------------------------------
(* Properties.                                                             *)

STypeOK == /\ sock \in SocketRecord
           /\ js \in {"frame", "ticks", "idle"}
           /\ queue \in Seq(TickNames) /\ batch \in Seq(TickNames)

\* Whatever path led to destroy(), it closes the handle only when every chunk
\* that write() accepted before end() is flushed.  What is cut off then was written
\* between end() and 'finish', which write() accepts (stream_writable.js:95).
NoDataCut == sock.destroyed => sock.ended /\ sock.out = sock.tail

\* A destroyed socket is quiet: its idle timer is gone for good, and its handle
\* is closing or closed; a live one has not lost its handle.  No native operation
\* is made on a handle that was closed in the meantime: not by the tick that
\* starts reading, the shutdown at 'finish', a buffered write or the answer of
\* the lookup.
DestroyedIsQuiet ==
  /\ IF sock.destroyed THEN ~sock.timer /\ sock.handle \in {"closing", "closed"}
     ELSE sock.handle \in {"none", "open"}
  /\ ~sock.misused

\* A socket that has finished writing tells its peer, by a shutdown or by closing.
HalfCloseSent == sock.connected /\ sock.ended /\ ~sock.destroyed
                 => sock.shutdownReq # "none"

\* The input ended when the shutdown was answered already, with data in the buffer:
\* `readable` stays set, and destroySoon waits for a 'finish' that is past.
Overlooked == sock.readable /\ sock.shutdownReq = "done"

\* The writable stream has finished and the peer has ended as well.
BothEnded == sock.ended /\ sock.eof /\ ~Overlooked

\* When both directions have ended, the socket closes by itself, whichever was the
\* first: at 'finish', at the end of the input or at the callback of the shutdown
\* (onSocketFinish, onread, maybeDestroy), except in the case `Overlooked`; and
\* destroy() of a connected socket closes it in the end, whatever is unwritten.
\* Neither is promised when libuv has refused to write, or when a tick that a
\* tick has queued waits for an event of the loop that never comes: a destroy()
\* in a tick has cleared the timer that could wake it.
SocketCloses ==
  (BothEnded \/ (sock.connected /\ sock.doomed))
     ~> (sock.handle = "closed" \/ sock.stuck \/ []TicksWait)

=============================================================================
