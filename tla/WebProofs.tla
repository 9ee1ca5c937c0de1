----------------------------- MODULE WebProofs ------------------------------
(***************************************************************************)
(* Proofs about Http, for every bound and every user.                      *)
(*                                                                         *)
(* Http works on the socket of Socket, but not as a user of net does: its  *)
(* own handlers write to, end and destroy the connection.  So what         *)
(* NetProofs shows is used in two strengths.  Sane and Follows hold of     *)
(* every user, also of one that writes to a connection that is ending;     *)
(* Good and Leads, of NetProofs, hold until then.  Each handler of http is *)
(* a function of the pair of socket and http state, and each has a lemma   *)
(* that says what it preserves: Web (what every handler does), Goes (what  *)
(* a client's does), Serves (what a server's does).  WebInv puts them      *)
(* together: Base, and ClientInv or ServerSide.                            *)
(***************************************************************************)
EXTENDS NetProofs, Http

-----------------------------------------------------------------------------
(* The socket, whoever uses it.                                            *)

\* The facts about the socket that hold of every user of http, also of one that
\* writes to a connection that is ending.
Sane(s) ==
  /\ s \in SocketRecord
  /\ s.writing => s.out > 0
  /\ s.reading => s.handle = "open"
  /\ s.handle # "none"
  /\ s.ended => s.ending
  /\ s.handle # "open" => s.ended
  /\ s.destroyed => s.handle # "open" /\ ~s.timer
  /\ s.shutdownReq = "pending" => s.ending
  /\ "finish" \in s.asked => s.ending

\* A call that leads from s to t starts no reading, no lookup and no connection, opens
\* no handle again, and asks for no tick but 'finish'.
Follows(s, t) ==
  /\ t.reading => s.reading
  /\ s.handle # "open" => t.handle # "open"
  /\ s.handle = "closed" => t.handle = "closed"
  /\ s.ending => t.ending
  /\ s.ended => t.ended
  /\ s.connected => t.connected
  /\ t.lookup = s.lookup /\ t.connectReq = s.connectReq
  /\ t.asked \subseteq s.asked \cup {"finish"}

\* Calls follow each other.
LEMMA FollowsOn ==
  ASSUME NEW s, NEW t, NEW u, Follows(s, t), Follows(t, u)
  PROVE  Follows(s, u)
BY DEF Follows

\* A call that does nothing.
LEMMA FollowsNothing == ASSUME NEW s PROVE Follows(s, s)
BY DEF Follows

\* Socket.end
LEMMA EndSane ==
  ASSUME NEW s, Sane(s)
  PROVE  Sane(end(s)) /\ Follows(s, end(s)) /\ end(s).ending
<1>1. end(s) \in SocketRecord BY EndType DEF Sane
<1>2. Sane(end(s)) BY <1>1 DEF Sane, end, SocketRecord
<1>3. Follows(s, end(s)) BY DEF Sane, Follows, end, SocketRecord
<1>4. end(s).ending BY DEF Sane, end, SocketRecord
<1> QED BY <1>2, <1>3, <1>4

\* close() of a socket that has ended.
LEMMA CloseSane ==
  ASSUME NEW s, Sane(s), s.ended, ~s.timer
  PROVE  Sane(close(s)) /\ Follows(s, close(s)) /\ ~close(s).reading /\ close(s).handle # "open"
<1>1. close(s) \in SocketRecord BY CloseType DEF Sane
<1>2. Sane(close(s)) BY <1>1 DEF Sane, close, SocketRecord, HandleStates
<1>3. Follows(s, close(s)) BY DEF Sane, Follows, close, SocketRecord, HandleStates
<1>4. ~close(s).reading /\ close(s).handle # "open"
  BY DEF Sane, close, SocketRecord, HandleStates
<1> QED BY <1>2, <1>3, <1>4

\* Socket.destroy
LEMMA DestroySane ==
  ASSUME NEW s, Sane(s)
  PROVE  Sane(destroy(s)) /\ Follows(s, destroy(s))
<1>1. CASE s.destroyed
  <2>1. destroy(s) = s BY <1>1 DEF destroy
  <2> QED BY <2>1, FollowsNothing
<1>2. CASE ~s.destroyed
  <2> DEFINE e == IF s.writable THEN end(s) ELSE s
             t == [e EXCEPT !.timer = FALSE, !.doomed = TRUE]
             u == [t EXCEPT !.onFinish = TRUE]
  <2>1. Sane(e) /\ Follows(s, e) BY EndSane, FollowsNothing
  <2>2. destroy(s) = IF t.ended THEN close(t) ELSE u BY <1>2 DEF destroy
  <2> HIDE DEF e
  <2>3. t \in SocketRecord BY <2>1 DEF Sane, SocketRecord
  <2>4. Sane(t) /\ Follows(e, t) /\ ~t.timer BY <2>1, <2>3 DEF Sane, Follows, SocketRecord
  <2> HIDE DEF t
  <2>5. u \in SocketRecord BY <2>3 DEF SocketRecord
  <2>6. Sane(u) /\ Follows(t, u) BY <2>3, <2>4, <2>5 DEF Sane, Follows, SocketRecord
  <2>7. t.ended => Sane(close(t)) /\ Follows(t, close(t)) BY <2>4, CloseSane
  <2> QED BY <2>1, <2>2, <2>4, <2>6, <2>7, FollowsOn
<1> QED BY <1>1, <1>2

\* A socket that has ended is closed at once by destroy().
LEMMA DestroyEnded ==
  ASSUME NEW s, Sane(s), s.ended
  PROVE  ~destroy(s).reading /\ destroy(s).handle # "open"
<1>1. CASE s.destroyed BY <1>1 DEF destroy, Sane
<1>2. CASE ~s.destroyed
  <2> DEFINE e == IF s.writable THEN end(s) ELSE s
             t == [e EXCEPT !.timer = FALSE, !.doomed = TRUE]
  <2>1. Sane(e) /\ e.ended
    <3>1. end(s).ended = s.ended BY DEF Sane, end, SocketRecord
    <3> QED BY <3>1, EndSane
  <2> HIDE DEF e
  <2>2. t \in SocketRecord BY <2>1 DEF Sane, SocketRecord
  <2>3. Sane(t) /\ t.ended /\ ~t.timer BY <2>1, <2>2 DEF Sane, SocketRecord
  <2>4. destroy(s) = close(t) BY <1>2, <2>3 DEF destroy, e
  <2> QED BY <2>3, <2>4, CloseSane
<1> QED BY <1>1, <1>2

\* Socket.destroySoon
LEMMA DestroySoonSane ==
  ASSUME NEW s, Sane(s)
  PROVE  Sane(destroySoon(s)) /\ Follows(s, destroySoon(s))
<1> DEFINE e == IF s.writable THEN end(s) ELSE s
           u == [e EXCEPT !.onFinish = TRUE]
<1>1. Sane(e) /\ Follows(s, e) BY EndSane, FollowsNothing
<1>2. destroySoon(s) = u BY DEF destroySoon
<1> HIDE DEF e
<1>3. u \in SocketRecord BY <1>1 DEF Sane, SocketRecord
<1>4. Sane(u) /\ Follows(e, u) BY <1>1, <1>3 DEF Sane, Follows, SocketRecord
<1> QED BY <1>1, <1>2, <1>4, FollowsOn

\* maybeDestroy
LEMMA MaybeDestroySane ==
  ASSUME NEW s, Sane(s)
  PROVE  Sane(maybeDestroy(s)) /\ Follows(s, maybeDestroy(s))
BY DestroySane, FollowsNothing DEF maybeDestroy

\* resetSocketTimeout
LEMMA ResetSane ==
  ASSUME NEW s, Sane(s)
  PROVE  LET t == resetSocketTimeout(s)
         IN  Sane(t) /\ Follows(s, t) /\ t.ending = s.ending /\ t.out = s.out
             /\ t.reading = s.reading /\ t.handle = s.handle
<1>1. CASE s.destroyed BY <1>1, FollowsNothing DEF resetSocketTimeout
<1>2. CASE ~s.destroyed
  <2> DEFINE t == [s EXCEPT !.timer = TRUE]
  <2>1. resetSocketTimeout(s) = t BY <1>2 DEF resetSocketTimeout
  <2>2. t \in SocketRecord BY DEF Sane, SocketRecord
  <2>3. Sane(t) /\ Follows(s, t) BY <1>2, <2>2 DEF Sane, Follows, SocketRecord
  <2>4. t.ending = s.ending /\ t.out = s.out /\ t.reading = s.reading /\ t.handle = s.handle
    BY DEF Sane, SocketRecord
  <2> QED BY <2>1, <2>3, <2>4
<1> QED BY <1>1, <1>2

\* emitFinish
LEMMA EmitFinishSane ==
  ASSUME NEW s, Sane(s), s.ending
  PROVE  Sane(emitFinish(s)) /\ Follows(s, emitFinish(s))
<1>1. CASE s.ended
  <2>1. emitFinish(s) = s BY <1>1 DEF emitFinish
  <2> QED BY <2>1, FollowsNothing
<1>2. CASE ~s.ended
  <2> DEFINE u == [s EXCEPT !.ended = TRUE]
             d == [u EXCEPT !.shutdownReq = "pending"]
             t == onSocketFinish(u)
  <2>1. u \in SocketRecord BY DEF Sane, SocketRecord
  <2>2. Sane(u) /\ Follows(s, u) /\ u.handle = "open"
    BY <1>2, <2>1 DEF Sane, Follows, SocketRecord
  <2>3. emitFinish(s) = IF t.onFinish /\ s.handle # "none" THEN destroy(t) ELSE t
    BY <1>2 DEF emitFinish
  <2> HIDE DEF u
  <2>4. d \in SocketRecord BY <2>1 DEF SocketRecord, RequestStates
  <2>5. Sane(d) /\ Follows(u, d) BY <2>1, <2>2, <2>4 DEF Sane, Follows, SocketRecord
  <2>6. t = destroy(u) \/ t = d \/ t = u
    BY <2>2 DEF onSocketFinish, tcpShutdown, native
  <2> HIDE DEF t, d
  <2>7. Sane(t) /\ Follows(u, t) BY <2>2, <2>5, <2>6, DestroySane, FollowsNothing
  <2>8. Sane(destroy(t)) /\ Follows(t, destroy(t)) BY <2>7, DestroySane
  <2> QED BY <2>2, <2>3, <2>7, <2>8, FollowsOn
<1> QED BY <1>1, <1>2

\* An operation on the handle.
LEMMA MisuseSane ==
  ASSUME NEW s, Sane(s), NEW t, Sane(t), Follows(s, t)
  PROVE  Sane(native(s, t)) /\ Follows(s, native(s, t))
<1> DEFINE u == [s EXCEPT !.misused = TRUE]
<1>1. u \in SocketRecord BY DEF Sane, SocketRecord
<1>2. Sane(u) /\ Follows(s, u) BY <1>1 DEF Sane, Follows, SocketRecord
<1>3. native(s, t) = t \/ native(s, t) = u BY DEF Sane, native
<1> QED BY <1>2, <1>3

\* writeBuffered and Socket._write
LEMMA WriteBufferedSane ==
  ASSUME NEW s, Sane(s)
  PROVE  Sane(writeBuffered(s)) /\ Follows(s, writeBuffered(s))
<1> s.out \in Nat BY DEF Sane, SocketRecord
<1>1. CASE s.out > 0
  <2> DEFINE r == resetSocketTimeout(s)
             w == [r EXCEPT !.writing = TRUE]
             k == [r EXCEPT !.writing = TRUE, !.stuck = TRUE]
  <2>1. Sane(r) /\ Follows(s, r) /\ r.out > 0 BY <1>1, ResetSane
  <2>2. writeBuffered(s) = k \/ writeBuffered(s) = native(r, w)
    BY <1>1 DEF writeBuffered, tcpWrite
  <2> HIDE DEF r
  <2>3. w \in SocketRecord /\ k \in SocketRecord BY <2>1 DEF Sane, SocketRecord
  <2>4. Sane(w) /\ Follows(r, w) BY <2>1, <2>3 DEF Sane, Follows, SocketRecord
  <2>5. Sane(k) /\ Follows(r, k) BY <2>1, <2>3 DEF Sane, Follows, SocketRecord
  <2> HIDE DEF w, k
  <2> QED BY <2>1, <2>2, <2>4, <2>5, MisuseSane, FollowsOn
<1>2. CASE s.out = 0 /\ s.ending
  <2>1. writeBuffered(s) = emitFinish(s) BY <1>2 DEF writeBuffered
  <2> QED BY <1>2, <2>1, EmitFinishSane
<1>3. CASE s.out = 0 /\ ~s.ending
  <2>1. writeBuffered(s) = s BY <1>3 DEF writeBuffered
  <2> QED BY <2>1, FollowsNothing
<1> QED BY <1>1, <1>2, <1>3

\* Socket.write
LEMMA WriteSane ==
  ASSUME NEW s, Sane(s)
  PROVE  Sane(write(s)) /\ Follows(s, write(s))
<1> DEFINE n == IF s.ending THEN s.tail + 1 ELSE s.tail
           t == [s EXCEPT !.out = @ + 1, !.sent = @ + 1,
                          !.tail = IF s.ending THEN @ + 1 ELSE @]
<1>1. /\ s.out \in Nat /\ s.sent \in Nat /\ s.out + 1 \in Nat /\ s.sent + 1 \in Nat
      /\ n \in Nat
  BY DEF Sane, SocketRecord
<1>2. t \in SocketRecord
  <2> DEFINE u == [s EXCEPT !.out = @ + 1, !.sent = @ + 1, !.tail = n]
  <2>1. t = u OBVIOUS
  <2> HIDE DEF n, t
  <2>2. u \in SocketRecord BY <1>1, Zenon DEF Sane, SocketRecord
  <2> QED BY <2>1, <2>2
<1>3. t.out > 0 BY <1>1 DEF Sane, SocketRecord
<1>4. Sane(t) /\ Follows(s, t) BY <1>2, <1>3 DEF Sane, Follows, SocketRecord
<1>5. write(s) = t \/ write(s) = writeBuffered(t) BY DEF write
<1> HIDE DEF t
<1> QED BY <1>4, <1>5, WriteBufferedSane, FollowsOn

\* emitEnd
LEMMA EmitEndSane ==
  ASSUME NEW s, Sane(s)
  PROVE  Sane(emitEnd(s)) /\ Follows(s, emitEnd(s))
<1> DEFINE u == [s EXCEPT !.endEmitted = TRUE]
           m == maybeDestroy(u)
<1>1. u \in SocketRecord BY DEF Sane, SocketRecord
<1>2. Sane(u) /\ Follows(s, u) BY <1>1 DEF Sane, Follows, SocketRecord
<1>3. emitEnd(s) = s \/ emitEnd(s) = m \/ emitEnd(s) = destroySoon(m)
  BY DEF emitEnd, onSocketEnd
<1> HIDE DEF u
<1>4. Sane(m) /\ Follows(u, m) BY <1>2, MaybeDestroySane
<1> HIDE DEF m
<1>5. Sane(destroySoon(m)) /\ Follows(m, destroySoon(m)) BY <1>4, DestroySoonSane
<1> QED BY <1>2, <1>3, <1>4, <1>5, FollowsOn, FollowsNothing

\* onSocketConnect, which asks for the tick that starts reading.
LEMMA ConnectSane ==
  ASSUME NEW s, Sane(s)
  PROVE  LET v == onSocketConnect(s)
         IN  /\ Sane(v) /\ (v.reading => s.reading)
             /\ v.lookup = s.lookup /\ v.connectReq = s.connectReq
             /\ (s.ending => v.ending)
             /\ v.asked \subseteq s.asked \cup {"finish", "readStart"}
<1> DEFINE c == [s EXCEPT !.connecting = FALSE, !.connected = TRUE, !.ready = TRUE]
           t == resetSocketTimeout(c)
           u == writeBuffered(t)
           v == [u EXCEPT !.asked = @ \cup {"readStart"}]
<1>1. c \in SocketRecord BY DEF Sane, SocketRecord
<1>2. Sane(c) /\ Follows(s, c) BY <1>1 DEF Sane, Follows, SocketRecord
<1> HIDE DEF c
<1>3. Sane(t) /\ Follows(c, t) BY <1>2, ResetSane
<1> HIDE DEF t
<1>4. Sane(u) /\ Follows(t, u) BY <1>3, WriteBufferedSane
<1>5. Follows(s, u) BY <1>2, <1>3, <1>4, FollowsOn
<1>6. onSocketConnect(s) = v BY DEF onSocketConnect, c, t
<1> HIDE DEF u
<1>7. v \in SocketRecord
  <2>1. u.asked \cup {"readStart"} \in SUBSET TickNames
    BY <1>4 DEF Sane, SocketRecord, TickNames
  <2> QED BY <1>4, <2>1 DEF Sane, SocketRecord
<1>8. Sane(v) BY <1>4, <1>7 DEF Sane, SocketRecord
<1>9. /\ v.reading => s.reading
      /\ v.lookup = s.lookup /\ v.connectReq = s.connectReq
      /\ s.ending => v.ending
      /\ v.asked \subseteq s.asked \cup {"finish", "readStart"}
  BY <1>4, <1>5 DEF Sane, Follows, SocketRecord
<1> QED BY <1>6, <1>8, <1>9

-----------------------------------------------------------------------------
(* The state of http, and what its handlers do to it.                      *)

\* The types of an outgoing message and of the state of http.
OutgoingRecord == [attached : BOOLEAN, sentHeader : BOOLEAN, finished : BOOLEAN]
HttpRecord ==
  [role : {"client", "server"}, handled : BOOLEAN, parser : BOOLEAN,
   phase : {"idle", "head", "body", "dead"}, msg : Nat, untilEof : BOOLEAN, more : BOOLEAN,
   flowing : BOOLEAN, buffered : BOOLEAN, eof : BOOLEAN, endEmitted : BOOLEAN,
   complete : BOOLEAN, tellClose : BOOLEAN, closeTold : BOOLEAN,
   out : [1..MaxMessages -> OutgoingRecord],
   errors : Nat, closed : BOOLEAN, late : BOOLEAN, threw : BOOLEAN]

\* The pair of the socket and the state of http that a handler works on.
Fit(x) == x \in [s : SocketRecord, h : HttpRecord] /\ Sane(x.s)

\* A handler leads from x to y.
Web(x, y) == /\ Fit(y) /\ Follows(x.s, y.s)
             /\ y.h.role = x.h.role /\ (x.h.late => y.h.late)

\* The response of a client ends for a reason, which is told.
Reason(h) == /\ h.eof => h.complete \/ h.tellClose
             /\ h.endEmitted /\ ~h.complete => h.closeTold

\* The user of a request whose connection has closed knows.
Closes(h) == h.closed => IF h.msg = 0 THEN h.errors > 0
                         ELSE h.eof /\ (h.endEmitted \/ h.buffered)

\* What the end of a message leaves alone, from h to k.
Keep(h, k) ==
  /\ k.msg = h.msg /\ k.more = h.more /\ k.closed = h.closed /\ k.errors = h.errors
  /\ k.threw = h.threw /\ k.buffered = h.buffered /\ k.out = h.out
  /\ h.eof => k.eof
  /\ h.endEmitted => k.endEmitted
  /\ h.phase = "dead" => k.phase = "dead"

\* Handlers follow each other.
LEMMA WebOn ==
  ASSUME NEW x, NEW y, NEW z, Web(x, y), Web(y, z)
  PROVE  Web(x, z)
BY FollowsOn DEF Web

\* A handler that does nothing.
LEMMA WebNothing == ASSUME NEW x, Fit(x) PROVE Web(x, x)
BY FollowsNothing DEF Web

\* The same of what is left alone.
LEMMA KeepOn ==
  ASSUME NEW h, NEW j, NEW k, Keep(h, j), Keep(j, k)
  PROVE  Keep(h, k)
BY DEF Keep

\* A handler that changes nothing but the socket.
LEMMA SocketOnly ==
  ASSUME NEW x, Fit(x), NEW t, Sane(t), Follows(x.s, t)
  PROVE  LET y == [x EXCEPT !.s = t] IN Web(x, y) /\ y.h = x.h /\ y.s = t
<1> DEFINE y == [x EXCEPT !.s = t]
<1>1. t \in SocketRecord BY DEF Sane
<1>2. y.s = t /\ y.h = x.h BY <1>1 DEF Fit
<1>3. y \in [s : SocketRecord, h : HttpRecord] BY <1>1 DEF Fit
<1> QED BY <1>2, <1>3 DEF Fit, Web

\* A handler that changes nothing but the state of http.
LEMMA HttpOnly ==
  ASSUME NEW x, Fit(x), NEW k, k \in HttpRecord, k.role = x.h.role, x.h.late => k.late
  PROVE  LET y == [x EXCEPT !.h = k] IN Web(x, y) /\ y.s = x.s /\ y.h = k
<1> DEFINE y == [x EXCEPT !.h = k]
<1>1. y \in [s : SocketRecord, h : HttpRecord] BY DEF Fit
<1>2. y.s = x.s /\ y.h = k BY DEF Fit
<1> QED BY <1>1, <1>2, FollowsNothing DEF Fit, Web

\* The 'end' of the response, which may end the socket.
LEMMA IncomingEnd ==
  ASSUME NEW x, Fit(x), Reason(x.h), x.h.complete \/ x.h.tellClose
  PROVE  LET y == emitIncomingEnd(x)
         IN  Web(x, y) /\ Reason(y.h) /\ Keep(x.h, y.h) /\ y.h.endEmitted
             /\ y.h.parser = x.h.parser /\ y.h.phase = x.h.phase /\ y.h.eof = x.h.eof
             /\ y.h.complete = x.h.complete /\ y.h.tellClose = x.h.tellClose
<1>1. CASE x.h.endEmitted
  <2>1. emitIncomingEnd(x) = x BY <1>1 DEF emitIncomingEnd
  <2> QED BY <1>1, <2>1, WebNothing DEF Keep
<1>2. CASE ~x.h.endEmitted
  <2> DEFINE t == IF x.s.writable THEN destroySoon(x.s) ELSE x.s
             k == [x.h EXCEPT !.endEmitted = TRUE, !.closeTold = x.h.tellClose]
  <2>1. emitIncomingEnd(x) = [s |-> t, h |-> k] BY <1>2 DEF emitIncomingEnd
  <2>2. Sane(t) /\ Follows(x.s, t) BY DestroySoonSane, FollowsNothing DEF Fit
  <2> HIDE DEF t
  <2>3. x.h \in HttpRecord BY DEF Fit
  <2>4. k \in HttpRecord BY <2>3 DEF HttpRecord
  <2>5. /\ k.role = x.h.role /\ k.late = x.h.late /\ k.endEmitted /\ Keep(x.h, k)
        /\ k.parser = x.h.parser /\ k.phase = x.h.phase /\ k.eof = x.h.eof
        /\ k.complete = x.h.complete /\ k.tellClose = x.h.tellClose
        /\ k.closeTold = x.h.tellClose
    BY <2>3 DEF HttpRecord, Keep
  <2>6. Reason(k) BY <2>5 DEF Reason
  <2> HIDE DEF k
  <2>7. [s |-> t, h |-> k] \in [s : SocketRecord, h : HttpRecord] BY <2>2, <2>4 DEF Sane
  <2> QED BY <2>1, <2>2, <2>5, <2>6, <2>7 DEF Web, Fit
<1> QED BY <1>1, <1>2

\* push(null): the response ends now, or when what is buffered was read.
LEMMA OnEof ==
  ASSUME NEW x, Fit(x), Reason(x.h), x.h.complete \/ x.h.tellClose
  PROVE  LET y == onEof(x)
         IN  Web(x, y) /\ Reason(y.h) /\ Keep(x.h, y.h)
             /\ y.h.eof /\ (y.h.endEmitted \/ y.h.buffered)
             /\ y.h.parser = x.h.parser /\ y.h.phase = x.h.phase
<1> DEFINE k == [x.h EXCEPT !.eof = TRUE]
           y == [x EXCEPT !.h.eof = TRUE]
<1>1. x.h \in HttpRecord BY DEF Fit
<1>2. k \in HttpRecord BY <1>1 DEF HttpRecord
<1>3. /\ k.role = x.h.role /\ k.late = x.h.late /\ k.eof /\ Keep(x.h, k)
      /\ k.parser = x.h.parser /\ k.phase = x.h.phase /\ Reason(k)
      /\ (k.complete \/ k.tellClose) /\ k.buffered = x.h.buffered
  BY <1>1 DEF HttpRecord, Keep, Reason
<1>4. y = [x EXCEPT !.h = k] OBVIOUS
<1>5. onEof(x) = IF y.h.buffered THEN y ELSE emitIncomingEnd(y) BY DEF onEof
<1> HIDE DEF k
<1>6. Web(x, y) /\ y.h = k BY <1>2, <1>3, <1>4, HttpOnly
<1> HIDE DEF y
<1>7. CASE y.h.buffered BY <1>3, <1>5, <1>6, <1>7
<1>8. CASE ~y.h.buffered
  <2> DEFINE z == emitIncomingEnd(y)
  <2>1. /\ Web(y, z) /\ Reason(z.h) /\ Keep(y.h, z.h) /\ z.h.endEmitted
        /\ z.h.parser = y.h.parser /\ z.h.phase = y.h.phase /\ z.h.eof = y.h.eof
    BY <1>3, <1>6, IncomingEnd DEF Web
  <2>2. Web(x, z) /\ Keep(x.h, z.h) BY <1>3, <1>6, <2>1, WebOn, KeepOn
  <2> QED BY <1>3, <1>5, <1>6, <1>8, <2>1, <2>2
<1> QED BY <1>7, <1>8

\* The message is complete.
LEMMA MessageComplete ==
  ASSUME NEW x, Fit(x), x.h.phase # "dead", IsClient(x) => Reason(x.h)
  PROVE  LET y == parserOnMessageComplete(x)
         IN  Web(x, y) /\ (IsClient(x) => Reason(y.h)) /\ Keep(x.h, y.h)
             /\ y.h.parser = x.h.parser
             /\ (~IsClient(x) => y.s = x.s)
<1> DEFINE k == [x.h EXCEPT !.phase = "idle"]
           l == [k EXCEPT !.complete = TRUE]
           y == [x EXCEPT !.h.phase = "idle"]
           z == [y EXCEPT !.h.complete = TRUE]
<1>1. x.h \in HttpRecord BY DEF Fit
<1>2. k \in HttpRecord /\ l \in HttpRecord BY <1>1 DEF HttpRecord
<1>3. /\ k.role = x.h.role /\ k.late = x.h.late /\ Keep(x.h, k) /\ k.parser = x.h.parser
      /\ Reason(x.h) => Reason(k)
  BY <1>1 DEF HttpRecord, Keep, Reason
<1>4. /\ l.role = x.h.role /\ l.late = x.h.late /\ Keep(x.h, l) /\ l.parser = x.h.parser
      /\ l.complete /\ Reason(l)
  BY <1>1 DEF HttpRecord, Keep, Reason
<1>5. y = [x EXCEPT !.h = k] /\ z = [x EXCEPT !.h = l]
  <2>1. y = [x EXCEPT !.h = k] OBVIOUS
  <2>2. z = [y EXCEPT !.h = [y.h EXCEPT !.complete = TRUE]] OBVIOUS
  <2>3. y.h = k BY DEF Fit
  <2> QED BY <2>1, <2>2, <2>3, Zenon DEF Fit
<1>6. parserOnMessageComplete(x) = IF AtResponse(x) THEN onEof(z) ELSE y
  BY DEF parserOnMessageComplete
<1>7. AtResponse(x) => IsClient(x) BY DEF AtResponse
<1> HIDE DEF k, l, y, z
<1>8. Web(x, y) /\ y.h = k /\ y.s = x.s BY <1>2, <1>3, <1>5, HttpOnly
<1>9. Web(x, z) /\ z.h = l BY <1>2, <1>4, <1>5, HttpOnly
<1>10. CASE AtResponse(x)
  <2> DEFINE w == onEof(z)
  <2>1. Web(z, w) /\ Reason(w.h) /\ Keep(z.h, w.h) /\ w.h.parser = z.h.parser
    BY <1>4, <1>9, OnEof DEF Web
  <2>2. Web(x, w) /\ Keep(x.h, w.h) BY <1>4, <1>9, <2>1, WebOn, KeepOn
  <2> QED BY <1>4, <1>6, <1>7, <1>9, <1>10, <2>1, <2>2
<1>11. CASE ~AtResponse(x) BY <1>3, <1>6, <1>8, <1>11
<1> QED BY <1>10, <1>11

\* http-parser is told that the input has ended.
LEMMA FinishParser ==
  ASSUME NEW x, Fit(x), IsClient(x) => Reason(x.h)
  PROVE  LET y == parserFinish(x)
         IN  Web(x, y) /\ (IsClient(x) => Reason(y.h)) /\ Keep(x.h, y.h)
             /\ (~IsClient(x) => y.s = x.s)
<1> DEFINE k == [x.h EXCEPT !.phase = "dead"]
           y == [x EXCEPT !.h.phase = "dead"]
<1>1. x.h \in HttpRecord BY DEF Fit
<1>2. k \in HttpRecord BY <1>1 DEF HttpRecord
<1>3. /\ k.role = x.h.role /\ k.late = x.h.late /\ Keep(x.h, k)
      /\ Reason(x.h) => Reason(k)
  BY <1>1 DEF HttpRecord, Keep, Reason
<1>4. y = [x EXCEPT !.h = k] OBVIOUS
<1>4a. finishFails(x.h) => parserFinish(x) = y BY DEF parserFinish, finishFails
<1> HIDE DEF k, y
<1>5. Web(x, y) /\ y.h = k /\ y.s = x.s BY <1>2, <1>3, <1>4, HttpOnly
<1>6. CASE finishFails(x.h)
  <2>1. parserFinish(x) = y BY <1>6, <1>4a
  <2> QED BY <1>3, <1>5, <2>1
<1>7. CASE x.h.phase = "body" /\ x.h.untilEof
  <2>1. parserFinish(x) = parserOnMessageComplete(x) BY <1>7 DEF parserFinish, finishFails
  <2> QED BY <1>7, <2>1, MessageComplete
<1>8. CASE ~finishFails(x.h) /\ ~(x.h.phase = "body" /\ x.h.untilEof)
  <2>1. parserFinish(x) = x BY <1>8 DEF parserFinish
  <2> QED BY <2>1, WebNothing DEF Keep
<1> QED BY <1>6, <1>7, <1>8

\* The parser is given up.
LEMMA ParserGone ==
  ASSUME NEW x, Fit(x)
  PROVE  LET y == [x EXCEPT !.h.parser = FALSE]
         IN  Web(x, y) /\ Keep(x.h, y.h) /\ y.s = x.s /\ ~y.h.parser
             /\ (Reason(x.h) => Reason(y.h)) /\ y.h.phase = x.h.phase
<1> DEFINE k == [x.h EXCEPT !.parser = FALSE]
           y == [x EXCEPT !.h.parser = FALSE]
<1>1. x.h \in HttpRecord BY DEF Fit
<1>2. k \in HttpRecord BY <1>1 DEF HttpRecord
<1>3. /\ k.role = x.h.role /\ k.late = x.h.late /\ Keep(x.h, k) /\ ~k.parser
      /\ (Reason(x.h) => Reason(k)) /\ k.phase = x.h.phase
  BY <1>1 DEF HttpRecord, Keep, Reason
<1>4. y = [x EXCEPT !.h = k] OBVIOUS
<1> HIDE DEF k, y
<1>5. Web(x, y) /\ y.s = x.s /\ y.h = k BY <1>2, <1>3, <1>4, HttpOnly
<1> QED BY <1>3, <1>5 DEF y

\* The client finishes its parser and gives it up.
LEMMA DropParser ==
  ASSUME NEW x, Fit(x), IsClient(x), Reason(x.h)
  PROVE  LET y == dropParser(x)
         IN  Web(x, y) /\ Reason(y.h) /\ Keep(x.h, y.h) /\ ~y.h.parser
<1> DEFINE y == parserFinish(x)
           z == [y EXCEPT !.h.parser = FALSE]
<1>1. CASE x.h.parser
  <2>1. dropParser(x) = z BY <1>1 DEF dropParser
  <2>2. Web(x, y) /\ Reason(y.h) /\ Keep(x.h, y.h) BY FinishParser
  <2> HIDE DEF y
  <2>3. Web(y, z) /\ Keep(y.h, z.h) /\ ~z.h.parser /\ Reason(z.h)
    BY <2>2, ParserGone DEF Web
  <2> QED BY <2>1, <2>2, <2>3, WebOn, KeepOn
<1>2. CASE ~x.h.parser
  <2>1. dropParser(x) = x BY <1>2 DEF dropParser
  <2> QED BY <1>2, <2>1, WebNothing DEF Keep
<1> QED BY <1>1, <1>2

\* The listeners of a client for 'error' and 'end' of the socket.
LEMMA ClientDrops ==
  ASSUME NEW x, Fit(x), IsClient(x), Reason(x.h)
  PROVE  LET y == dropParser(x)
             z == [y EXCEPT !.s = destroy(@)]
         IN  /\ socketOnError(x) = z /\ clientOnEnd(x) = z
             /\ Web(x, z) /\ Reason(z.h) /\ Keep(x.h, z.h) /\ ~z.h.parser
<1> DEFINE y == dropParser(x)
           z == [y EXCEPT !.s = destroy(@)]
<1>1. Web(x, y) /\ Reason(y.h) /\ Keep(x.h, y.h) /\ ~y.h.parser BY DropParser
<1>2. socketOnError(x) = z /\ clientOnEnd(x) = z BY DEF socketOnError, clientOnEnd
<1> HIDE DEF y
<1>3. z = [y EXCEPT !.s = destroy(y.s)] BY <1>1 DEF Web, Fit
<1>4. Sane(destroy(y.s)) /\ Follows(y.s, destroy(y.s)) BY <1>1, DestroySane DEF Web, Fit
<1>5. Web(y, z) /\ z.h = y.h BY <1>1, <1>3, <1>4, SocketOnly DEF Web
<1> QED BY <1>1, <1>2, <1>5, WebOn DEF y

-----------------------------------------------------------------------------
(* The steps: what a handler leaves becomes the state.                     *)

\* A tick waits to be run.
Waits(tick) == \/ \E i \in 1..Len(queue) : queue[i] = tick
               \/ \E i \in 1..Len(batch) : batch[i] = tick

\* The ticks that wait, for every user.
TickSane ==
  /\ js \in {"frame", "ticks", "idle"}
  /\ queue \in Seq(TickNames) /\ batch \in Seq(TickNames)
  /\ js # "frame" => \A i \in 1..Len(queue) : queue[i] # "readStart"
  /\ js # "ticks" => batch = <<>>
  /\ Waits("finish") => sock.ending

\* What holds of clients and servers.
Base == http \in HttpRecord /\ Sane(sock) /\ sock.asked = {} /\ TickSane

\* A socket before and after its ticks have been queued.
Alike(s, t) ==
  /\ t.reading = s.reading /\ t.handle = s.handle /\ t.ending = s.ending
  /\ t.connected = s.connected /\ t.lookup = s.lookup /\ t.connectReq = s.connectReq

\* The pair y becomes the state.
Then(y) ==
  /\ Base' /\ http' = y.h /\ Alike(y.s, sock')
  /\ \A tick \in TickNames : Waits(tick)' => Waits(tick) \/ tick \in y.s.asked

\* A pair that a handler starts with.
LEMMA BothFit == ASSUME Base PROVE Fit(Both) /\ Both.s = sock /\ Both.h = http
BY DEF Base, Both, Fit, Sane

\* Reading starts at the end of the frame that has connected the socket.
LEMMA IdleStarts == ASSUME Base, js = "idle" PROVE ~Waits("readStart")
BY DEF Base, TickSane, Waits

\* The socket and the queues after a call, a callback of the loop or a tick.
LEMMA StepSane ==
  ASSUME Base, NEW s, Sane(s), sock.ending => s.ending, Becomes(s),
         \/ CallStep(Queue(s)) /\ "readStart" \notin s.asked
         \/ EventStep(Queue(s))
         \/ TickStep(Queue(s)) /\ "readStart" \notin s.asked
  PROVE  /\ Sane(sock)' /\ sock'.asked = {} /\ TickSane' /\ Alike(s, sock')
         /\ \A tick \in TickNames : Waits(tick)' => Waits(tick) \/ tick \in s.asked
<1> DEFINE t == [s EXCEPT !.asked = {}]
           r == Queue(s)
<1>1. t \in SocketRecord /\ t.asked = {} BY DEF Sane, SocketRecord
<1>2. Sane(t) /\ Alike(s, t) BY <1>1 DEF Sane, Alike, SocketRecord
<1>3. sock' = t BY DEF Becomes
<1> HIDE DEF t
<1>4. r \in Seq(TickNames) /\ \A i \in 1..Len(r) : r[i] \in s.asked BY QueueAsked
<1>5. /\ queue \in Seq(TickNames) /\ batch \in Seq(TickNames)
      /\ js \in {"frame", "ticks", "idle"}
      /\ js # "frame" => \A i \in 1..Len(queue) : queue[i] # "readStart"
      /\ js # "ticks" => batch = <<>>
      /\ Waits("finish") => sock.ending
  BY DEF Base, TickSane
<1>6. /\ queue' = queue \o r
      /\ \/ js' = js /\ batch' = batch /\ "readStart" \notin s.asked
         \/ js' = "frame" /\ batch' = batch /\ batch = <<>>
         \/ /\ js' = js /\ js = "ticks" /\ batch # <<>> /\ batch' = Tail(batch)
            /\ "readStart" \notin s.asked
  BY <1>5 DEF CallStep, EventStep, TickStep
<1> HIDE DEF r
<1>7. /\ queue' \in Seq(TickNames)
      /\ \A i \in 1..Len(queue') : \/ queue'[i] \in s.asked
                                   \/ \E j \in 1..Len(queue) : queue'[i] = queue[j]
  <2>1. queue \o r \in Seq(TickNames) BY <1>4, <1>5
  <2>2. ASSUME NEW i \in 1..Len(queue \o r)
        PROVE  \/ i \in 1..Len(queue) /\ (queue \o r)[i] = queue[i]
               \/ i - Len(queue) \in 1..Len(r) /\ (queue \o r)[i] = r[i - Len(queue)]
    BY <1>4, <1>5
  <2> QED BY <1>4, <1>6, <2>1, <2>2
<1>8. /\ batch' \in Seq(TickNames)
      /\ \A i \in 1..Len(batch') : \E j \in 1..Len(batch) : batch'[i] = batch[j]
  <2>1. ASSUME batch # <<>>
        PROVE  /\ Tail(batch) \in Seq(TickNames)
               /\ \A i \in 1..Len(Tail(batch)) :
                    i + 1 \in 1..Len(batch) /\ Tail(batch)[i] = batch[i + 1]
    BY <1>5, <2>1
  <2> QED BY <1>5, <1>6, <2>1
<1>9. \A tick \in TickNames : Waits(tick)' => Waits(tick) \/ tick \in s.asked
  BY <1>7, <1>8 DEF Waits
<1>10. "finish" \in s.asked => s.ending BY DEF Sane
<1>11. Waits("finish")' => t.ending
  BY <1>2, <1>5, <1>9, <1>10 DEF TickNames, Alike
<1>12. TickSane'
  <2>1. js' # "frame" => \A i \in 1..Len(queue') : queue'[i] # "readStart"
    BY <1>5, <1>6, <1>7
  <2>2. js' \in {"frame", "ticks", "idle"} BY <1>5, <1>6
  <2>3. js' # "ticks" => batch' = <<>> BY <1>5, <1>6
  <2> QED BY <1>3, <1>7, <1>8, <1>11, <2>1, <2>2, <2>3 DEF TickSane
<1> QED BY <1>1, <1>2, <1>3, <1>9, <1>12

\* A call of the user, a callback of the loop or a tick makes the pair y.
Steps(y) == /\ http' = y.h /\ Becomes(y.s)
            /\ CallStep(Queue(y.s)) \/ EventStep(Queue(y.s)) \/ TickStep(Queue(y.s))

\* Which is what the state becomes.
LEMMA WebSteps ==
  ASSUME Base, NEW y, Web(Both, y), Steps(y)
  PROVE  Then(y) /\ y.s.asked \subseteq {"finish"}
<1>1. /\ Fit(Both) /\ Both.s = sock /\ Both.h = http BY BothFit
<1>2. /\ Sane(y.s) /\ y.h \in HttpRecord /\ y.s.asked \subseteq {"finish"}
      /\ sock.ending => y.s.ending
  BY <1>1 DEF Web, Fit, Follows, Base
<1>3. /\ Sane(sock)' /\ sock'.asked = {} /\ TickSane' /\ Alike(y.s, sock')
      /\ \A tick \in TickNames : Waits(tick)' => Waits(tick) \/ tick \in y.s.asked
  BY <1>2, StepSane DEF Steps
<1> QED BY <1>2, <1>3 DEF Steps, Then, Base

-----------------------------------------------------------------------------
(* The outgoing messages.                                                  *)

\* All but the outgoing messages is left alone.
Beside(h, k) ==
  /\ k.role = h.role /\ k.msg = h.msg /\ k.more = h.more /\ k.closed = h.closed
  /\ k.errors = h.errors /\ k.threw = h.threw /\ k.parser = h.parser /\ k.phase = h.phase
  /\ k.buffered = h.buffered /\ k.eof = h.eof /\ k.endEmitted = h.endEmitted
  /\ k.complete = h.complete /\ k.tellClose = h.tellClose /\ k.closeTold = h.closeTold

\* One outgoing message is changed.
LEMMA OutOnly ==
  ASSUME NEW h \in HttpRecord, NEW m \in 1..MaxMessages, NEW r \in OutgoingRecord
  PROVE  LET k == [h EXCEPT !.out = [h.out EXCEPT ![m] = r]]
         IN  /\ k \in HttpRecord /\ Beside(h, k) /\ k.late = h.late /\ k.out[m] = r
             /\ \A n \in 1..MaxMessages : n # m => k.out[n] = h.out[n]
<1> DEFINE o == [h.out EXCEPT ![m] = r]
           k == [h EXCEPT !.out = o]
<1>1. h.out \in [1..MaxMessages -> OutgoingRecord] BY DEF HttpRecord
<1>2. o \in [1..MaxMessages -> OutgoingRecord] BY <1>1
<1>3. o[m] = r /\ \A n \in 1..MaxMessages : n # m => o[n] = h.out[n] BY <1>1
<1> HIDE DEF o
<1>4. k \in HttpRecord BY <1>2 DEF HttpRecord
<1>5. k.out = o /\ k.late = h.late /\ Beside(h, k) BY DEF HttpRecord, Beside
<1> HIDE DEF k
<1> QED BY <1>3, <1>4, <1>5 DEF o, k

\* The header of message m is sent.
LEMMA HeaderSent ==
  ASSUME NEW x, Fit(x), NEW m \in 1..MaxMessages
  PROVE  LET y == [x EXCEPT !.h.out[m].sentHeader = TRUE, !.h.late = @ \/ x.s.ending]
         IN  /\ Web(x, y) /\ y.s = x.s /\ Beside(x.h, y.h)
             /\ y.h.late = (x.h.late \/ x.s.ending)
             /\ y.h.out[m].sentHeader
             /\ y.h.out[m].attached = x.h.out[m].attached
             /\ y.h.out[m].finished = x.h.out[m].finished
             /\ \A n \in 1..MaxMessages : n # m => y.h.out[n] = x.h.out[n]
<1> DEFINE r == [x.h.out[m] EXCEPT !.sentHeader = TRUE]
           j == [x.h EXCEPT !.out = [x.h.out EXCEPT ![m] = r]]
           b == x.h.late \/ x.s.ending
           k == [j EXCEPT !.late = b]
           y == [x EXCEPT !.h.out[m].sentHeader = TRUE, !.h.late = @ \/ x.s.ending]
<1>1. x.h \in HttpRecord /\ x.s \in SocketRecord BY DEF Fit
<1>2. x.h.out[m] \in OutgoingRecord BY <1>1 DEF HttpRecord
<1>3. /\ r \in OutgoingRecord /\ r.sentHeader /\ r.attached = x.h.out[m].attached
      /\ r.finished = x.h.out[m].finished
  BY <1>2 DEF OutgoingRecord
<1>4. y.s = x.s /\ y.h = k BY DEF Fit, HttpRecord
<1> HIDE DEF r
<1>5. /\ j \in HttpRecord /\ Beside(x.h, j) /\ j.late = x.h.late /\ j.out[m] = r
      /\ \A n \in 1..MaxMessages : n # m => j.out[n] = x.h.out[n]
  BY <1>1, <1>3, OutOnly
<1> HIDE DEF j
<1>6. b \in BOOLEAN BY <1>1, Zenon DEF HttpRecord
<1>7. k \in HttpRecord BY <1>5, <1>6 DEF HttpRecord
<1>8. k.late = b /\ k.out = j.out /\ Beside(j, k) BY <1>5 DEF HttpRecord, Beside
<1>9. y \in [s : SocketRecord, h : HttpRecord]
  <2>1. y = [x EXCEPT !.h = k]
    <3>1. y = [x EXCEPT !.h = [j EXCEPT !.late = j.late \/ x.s.ending]]
      BY <1>1, <1>4 DEF j, r, Fit, HttpRecord
    <3> QED BY <3>1, <1>5
  <2> QED BY <2>1, <1>7, <1>1 DEF Fit
<1> HIDE DEF k, y
<1>10. Web(x, y) BY <1>4, <1>5, <1>8, <1>9, FollowsNothing DEF Web, Fit, Beside
<1> QED BY <1>3, <1>4, <1>5, <1>8, <1>10 DEF Beside, y

\* end() of message m was called.
LEMMA MessageEnded ==
  ASSUME NEW x, Fit(x), NEW m \in 1..MaxMessages
  PROVE  LET y == [x EXCEPT !.h.out[m].finished = TRUE]
         IN  /\ Web(x, y) /\ y.s = x.s /\ Beside(x.h, y.h) /\ y.h.late = x.h.late
             /\ y.h.out[m].sentHeader = x.h.out[m].sentHeader
             /\ y.h.out[m].attached = x.h.out[m].attached
             /\ y.h.out[m].finished
             /\ \A n \in 1..MaxMessages : n # m => y.h.out[n] = x.h.out[n]
<1> DEFINE r == [x.h.out[m] EXCEPT !.finished = TRUE]
           k == [x.h EXCEPT !.out = [x.h.out EXCEPT ![m] = r]]
           y == [x EXCEPT !.h.out[m].finished = TRUE]
<1>1. x.h \in HttpRecord BY DEF Fit
<1>2. x.h.out[m] \in OutgoingRecord BY <1>1 DEF HttpRecord
<1>3. /\ r \in OutgoingRecord /\ r.finished /\ r.attached = x.h.out[m].attached
      /\ r.sentHeader = x.h.out[m].sentHeader
  BY <1>2 DEF OutgoingRecord
<1>4. y = [x EXCEPT !.h = k] OBVIOUS
<1> HIDE DEF r
<1>5. /\ k \in HttpRecord /\ Beside(x.h, k) /\ k.late = x.h.late /\ k.out[m] = r
      /\ \A n \in 1..MaxMessages : n # m => k.out[n] = x.h.out[n]
  BY <1>1, <1>3, OutOnly
<1> HIDE DEF k, y
<1>6. Web(x, y) /\ y.h = k /\ y.s = x.s BY <1>4, <1>5, HttpOnly DEF Beside
<1> QED BY <1>3, <1>5, <1>6 DEF y

\* A server's response gives up the socket, which closes when all is written.
LEMMA ResponseFinished ==
  ASSUME NEW x, Fit(x), NEW m \in 1..MaxMessages
  PROVE  LET y == resOnFinish(x, m)
         IN  /\ Web(x, y) /\ y.s = destroySoon(x.s) /\ Beside(x.h, y.h) /\ y.h.late = x.h.late
             /\ y.h.out[m].sentHeader = x.h.out[m].sentHeader
             /\ y.h.out[m].finished = x.h.out[m].finished
             /\ \A n \in 1..MaxMessages : n # m => y.h.out[n] = x.h.out[n]
<1> DEFINE r == [x.h.out[m] EXCEPT !.attached = FALSE]
           k == [x.h EXCEPT !.out = [x.h.out EXCEPT ![m] = r]]
           z == [x EXCEPT !.h = k]
           t == destroySoon(x.s)
           y == [z EXCEPT !.s = t]
<1>1. x.h \in HttpRecord /\ x.s \in SocketRecord BY DEF Fit
<1>2. x.h.out[m] \in OutgoingRecord BY <1>1 DEF HttpRecord
<1>3. /\ r \in OutgoingRecord /\ r.finished = x.h.out[m].finished
      /\ r.sentHeader = x.h.out[m].sentHeader
  BY <1>2 DEF OutgoingRecord
<1>4. resOnFinish(x, m) = y BY DEF resOnFinish, Fit
<1> HIDE DEF r
<1>5. /\ k \in HttpRecord /\ Beside(x.h, k) /\ k.late = x.h.late /\ k.out[m] = r
      /\ \A n \in 1..MaxMessages : n # m => k.out[n] = x.h.out[n]
  BY <1>1, <1>3, OutOnly
<1>6. Sane(t) /\ Follows(x.s, t) BY DestroySoonSane DEF Fit
<1> HIDE DEF k, t
<1>7. Web(x, z) /\ z.h = k /\ z.s = x.s BY <1>5, HttpOnly DEF Beside
<1> HIDE DEF z
<1>8. Web(z, y) /\ y.h = z.h /\ y.s = t BY <1>6, <1>7, SocketOnly DEF Web
<1> HIDE DEF y
<1>9. Web(x, y) BY <1>7, <1>8, WebOn
<1> QED BY <1>3, <1>4, <1>5, <1>7, <1>8, <1>9 DEF t

-----------------------------------------------------------------------------
(* A client.                                                               *)

\* No lookup and no connect is underway.
Calm(s) == s.lookup # "pending" /\ s.connectReq # "pending"

\* Data that arrive meet a parser, or follow a parse error.
Fed(h) == h.parser \/ h.phase = "dead"

\* Whether the user of a client knows what has happened to the request.
Told(h) == Reason(h) /\ Closes(h) /\ (h.threw => h.phase = "dead")

\* A client and its socket.
Client(x) ==
  /\ IsClient(x) /\ Told(x.h)
  /\ \A m \in 1..MaxMessages : x.h.out[m].attached
  /\ ~Calm(x.s) => x.h.parser /\ ~x.h.more /\ x.h.msg = 0 /\ ~x.s.ending
  /\ x.h.closed => x.s.handle = "closed" /\ ~x.h.more

\* A call of the user or of a tick leads from one to the next; if the parser is given
\* up, reading has stopped for good.
Goes(x, y) == /\ Web(x, y) /\ Client(y)
              /\ Fed(x.h) => Fed(y.h) \/ (~y.s.reading /\ y.s.handle # "open")

\* A client and the ticks that wait: as long as the socket is read, or will be, its
\* data meet a parser.
ClientInv ==
  /\ Client(Both)
  /\ ~Calm(sock) => ~sock.reading /\ ~Waits("readStart") /\ ~Waits("lookupFailed")
  /\ sock.lookup = "pending" => sock.connectReq = "none"
  /\ Waits("lookupFailed") => ~Waits("readStart") /\ ~sock.reading
  /\ sock.reading => Fed(http)
  /\ Waits("readStart") => Fed(http) \/ sock.handle # "open"

\* Calls follow each other.
LEMMA GoesOn ==
  ASSUME NEW x, NEW y, NEW z, Goes(x, y), Goes(y, z)
  PROVE  Goes(x, z)
<1>1. Web(x, z) BY WebOn DEF Goes
<1> QED BY <1>1 DEF Goes, Web, Follows

\* A change of the outgoing messages, to which the socket stays attached.
LEMMA ClientBeside ==
  ASSUME NEW x, Fit(x), Client(x), NEW y, Web(x, y), Beside(x.h, y.h), y.s = x.s,
         \A m \in 1..MaxMessages : y.h.out[m].attached
  PROVE  Goes(x, y)
<1>1. IsClient(y) BY DEF Client, IsClient, Beside
<1>2. Told(y.h) BY DEF Client, Told, Reason, Closes, Beside
<1>3. Client(y) BY <1>1, <1>2 DEF Client, Beside
<1> QED BY <1>3 DEF Goes, Fed, Beside

\* What the user does leaves a socket that is not ending as it is.
LEMMA BufferedEnding ==
  ASSUME NEW s, Sane(s), ~s.ending
  PROVE  ~writeBuffered(s).ending
<1>1. CASE s.out > 0
  <2> DEFINE r == resetSocketTimeout(s)
  <2>1. r \in SocketRecord /\ ~r.ending BY ResetSane DEF Sane
  <2>2. writeBuffered(s) = tcpWrite(r) BY <1>1 DEF writeBuffered
  <2> HIDE DEF r
  <2> QED BY <2>1, <2>2 DEF tcpWrite, native, SocketRecord
<1>2. CASE ~(s.out > 0)
  <2>1. s.out = 0 BY <1>2 DEF Sane, SocketRecord
  <2>2. writeBuffered(s) = s BY <2>1 DEF writeBuffered
  <2> QED BY <2>2
<1> QED BY <1>1, <1>2

\* The same of write().
LEMMA WriteEnding ==
  ASSUME NEW s, Sane(s), ~s.ending
  PROVE  ~write(s).ending
<1> DEFINE n == IF s.ending THEN s.tail + 1 ELSE s.tail
           t == [s EXCEPT !.out = @ + 1, !.sent = @ + 1,
                          !.tail = IF s.ending THEN @ + 1 ELSE @]
<1>1. /\ s.out \in Nat /\ s.sent \in Nat /\ s.out + 1 \in Nat /\ s.sent + 1 \in Nat
      /\ n \in Nat
  BY DEF Sane, SocketRecord
<1>2. t \in SocketRecord
  <2> DEFINE u == [s EXCEPT !.out = @ + 1, !.sent = @ + 1, !.tail = n]
  <2>1. t = u OBVIOUS
  <2> HIDE DEF n, t
  <2>2. u \in SocketRecord BY <1>1, Zenon DEF Sane, SocketRecord
  <2> QED BY <2>1, <2>2
<1>3. t.out > 0 BY <1>1 DEF Sane, SocketRecord
<1>4. Sane(t) /\ ~t.ending BY <1>2, <1>3 DEF Sane, SocketRecord
<1>5. write(s) = t \/ write(s) = writeBuffered(t) BY DEF write
<1> HIDE DEF t
<1> QED BY <1>4, <1>5, BufferedEnding

\* The parser of a client is dropped, because of an error or of the end.
LEMMA ClientDropped ==
  ASSUME NEW x, Fit(x), Client(x), Calm(x.s)
  PROVE  LET y == socketOnError(x) IN Web(x, y) /\ Client(y) /\ clientOnEnd(x) = y
<1> DEFINE y == dropParser(x)
           z == [y EXCEPT !.s = destroy(@)]
<1>1. /\ socketOnError(x) = z /\ clientOnEnd(x) = z
      /\ Web(x, z) /\ Reason(z.h) /\ Keep(x.h, z.h)
  BY ClientDrops DEF Client, Told
<1> HIDE DEF z
<1>2. IsClient(z) BY <1>1 DEF Web, Client, IsClient
<1>3. Told(z.h) BY <1>1 DEF Client, Told, Closes, Keep
<1>4. Client(z) BY <1>1, <1>2, <1>3 DEF Client, Web, Follows, Calm, Keep
<1> QED BY <1>1, <1>4

\* _send of a client's request.
LEMMA ClientSends ==
  ASSUME NEW x, Fit(x), Client(x), NEW m \in 1..MaxMessages
  PROVE  Goes(x, send(x, m))
<1> DEFINE y == [x EXCEPT !.h.out[m].sentHeader = TRUE, !.h.late = @ \/ x.s.ending]
<1>1. x.h.out[m].attached BY DEF Client
<1>2. send(x, m) = IF x.s.ended THEN socketOnError(y) ELSE [y EXCEPT !.s = write(@)]
  BY <1>1 DEF send
<1>3. /\ Web(x, y) /\ y.s = x.s /\ Beside(x.h, y.h)
      /\ y.h.out[m].attached = x.h.out[m].attached
      /\ \A n \in 1..MaxMessages : n # m => y.h.out[n] = x.h.out[n]
  BY HeaderSent
<1> HIDE DEF y
<1>4. Goes(x, y) BY <1>1, <1>3, ClientBeside DEF Client
<1>5. Fit(y) /\ Client(y) BY <1>4 DEF Goes, Web
<1>6. CASE x.s.ended
  <2> DEFINE z == socketOnError(y)
  <2>1. Calm(y.s) BY <1>3, <1>5, <1>6 DEF Client, Fit, Sane
  <2>2. Web(y, z) /\ Client(z) BY <1>5, <2>1, ClientDropped
  <2>3. ~z.s.reading /\ z.s.handle # "open"
    <3> DEFINE d == dropParser(y)
    <3>1. z = [d EXCEPT !.s = destroy(d.s)] /\ Web(y, d)
      <4>1. Web(y, d) BY <1>5, DropParser DEF Client, Told
      <4>2. z = [d EXCEPT !.s = destroy(@)] BY <1>5 DEF socketOnError, Client
      <4> QED BY <4>1, <4>2 DEF Web, Fit
    <3>2. Sane(d.s) /\ d \in [s : SocketRecord, h : HttpRecord] BY <3>1 DEF Web, Fit
    <3>3. z.s = destroy(d.s) BY <3>1, <3>2
    <3>4. d.s.ended BY <1>3, <1>6, <3>1 DEF Web, Follows
    <3> QED BY <3>2, <3>3, <3>4, DestroyEnded
  <2>4. Goes(y, z) BY <2>2, <2>3 DEF Goes
  <2> QED BY <1>2, <1>4, <1>6, <2>4, GoesOn
<1>7. CASE ~x.s.ended
  <2> DEFINE z == [y EXCEPT !.s = write(y.s)]
  <2>1. send(x, m) = z BY <1>2, <1>5, <1>7 DEF Fit
  <2>2. Sane(write(y.s)) /\ Follows(y.s, write(y.s)) BY <1>5, WriteSane DEF Fit
  <2>3. Web(y, z) /\ z.h = y.h /\ z.s = write(y.s) BY <1>5, <2>2, SocketOnly
  <2>4. ~y.s.ending => ~z.s.ending BY <1>5, <2>3, WriteEnding DEF Fit
  <2> HIDE DEF z
  <2>5. Client(z) BY <1>5, <2>2, <2>3, <2>4 DEF Client, Follows, Calm, IsClient
  <2>6. Goes(y, z) BY <2>3, <2>5 DEF Goes
  <2> QED BY <1>4, <2>1, <2>6, GoesOn
<1> QED BY <1>6, <1>7

\* A step of a client: if the parser is given up, reading will not start.
LEMMA ClientSteps ==
  ASSUME Base, ClientInv, NEW y, Web(Both, y), Client(y), Steps(y),
         Fed(http) => \/ Fed(y.h)
                      \/ ~y.s.reading /\ (y.s.handle # "open" \/ ~Waits("readStart"))
  PROVE  Base' /\ ClientInv' /\ http'.role = http.role
<1>1. Both.s = sock /\ Both.h = http BY BothFit
<1>2. Then(y) /\ y.s.asked \subseteq {"finish"} BY WebSteps
<1>3. Base' /\ http' = y.h /\ Alike(y.s, sock') BY <1>2 DEF Then
<1>4. (Both.s)' = sock' /\ (Both.h)' = http' BY DEF Both
<1>5. Client(Both)'
  <2>1. http'.role = "client" BY <1>3 DEF Client, IsClient
  <2> QED BY <1>3, <1>4, <2>1 DEF Client, IsClient, Alike, Calm
<1>6. /\ Waits("readStart")' => Waits("readStart")
      /\ Waits("lookupFailed")' => Waits("lookupFailed")
  BY <1>2 DEF Then, TickNames
<1>7. /\ sock'.reading => sock.reading
      /\ sock.handle # "open" => sock'.handle # "open"
      /\ sock'.lookup = sock.lookup /\ sock'.connectReq = sock.connectReq
      /\ http'.role = http.role
  BY <1>1, <1>3 DEF Web, Follows, Alike
<1>8. Fed(http) => \/ Fed(http)'
                   \/ ~sock'.reading /\ (sock'.handle # "open" \/ ~Waits("readStart"))
  BY <1>3 DEF Alike, Fed
<1> QED BY <1>3, <1>5, <1>6, <1>7, <1>8 DEF ClientInv, Calm

\* A call of the user.
LEMMA ClientCalls ==
  ASSUME Base, ClientInv, NEW y, Goes(Both, y), UserCall(y)
  PROVE  Base' /\ ClientInv' /\ http'.role = http.role
<1>1. Steps(y) BY DEF UserCall, Call, Steps
<1>2. Both.h = http BY BothFit
<1> QED BY <1>1, <1>2, ClientSteps DEF Goes

\* A callback of the loop.
LEMMA ClientEvents ==
  ASSUME Base, ClientInv, NEW y, Web(Both, y), Client(y), WebEvent(y),
         Fed(http) => Fed(y.h) \/ ~y.s.reading
  PROVE  Base' /\ ClientInv' /\ http'.role = http.role
<1>1. Steps(y) /\ js = "idle" BY DEF WebEvent, Event, EventStep, Steps
<1> QED BY <1>1, IdleStarts, ClientSteps

\* OutgoingMessage.end of a client.
LEMMA ClientRequests ==
  ASSUME NEW x, Fit(x), Client(x), NEW m \in 1..MaxMessages, NEW data \in BOOLEAN
  PROVE  Goes(x, outgoingEnd(x, m, data))
<1> DEFINE y == IF data THEN send(x, m) ELSE x
           z == IF y.h.threw THEN y ELSE send(y, m)
           f == [z EXCEPT !.h.out[m].finished = TRUE]
<1>1. outgoingEnd(x, m, data) = IF z.h.threw THEN z ELSE f BY DEF outgoingEnd, Client
<1>2. ASSUME NEW w, Fit(w), Client(w) PROVE Goes(w, w)
  BY <1>2, WebNothing DEF Goes
<1>3. Goes(x, y) BY <1>2, ClientSends
<1> HIDE DEF y
<1>4. Fit(y) /\ Client(y) BY <1>3 DEF Goes, Web
<1>5. Goes(y, z) BY <1>2, <1>4, ClientSends
<1> HIDE DEF z
<1>6. Fit(z) /\ Client(z) BY <1>5 DEF Goes, Web
<1>7. /\ Web(z, f) /\ f.s = z.s /\ Beside(z.h, f.h)
      /\ f.h.out[m].attached = z.h.out[m].attached
      /\ \A n \in 1..MaxMessages : n # m => f.h.out[n] = z.h.out[n]
  BY <1>6, MessageEnded
<1> HIDE DEF f
<1>8. Goes(z, f)
  <2>1. \A n \in 1..MaxMessages : f.h.out[n].attached BY <1>6, <1>7 DEF Client
  <2> QED BY <1>6, <1>7, <2>1, ClientBeside
<1> QED BY <1>1, <1>3, <1>5, <1>8, GoesOn

\* The user of a client writes.
LEMMA ClientWrites ==
  ASSUME Base, ClientInv, WebUser
  PROVE  Base' /\ ClientInv' /\ http'.role = http.role
<1>1. Fit(Both) /\ Client(Both) BY BothFit DEF ClientInv
<1>2. PICK m \in 1..MaxMessages : OutgoingWrite(m) \/ OutgoingEnd(m) BY DEF WebUser
<1>3. CASE OutgoingWrite(m) BY <1>1, <1>3, ClientSends, ClientCalls DEF OutgoingWrite
<1>4. CASE OutgoingEnd(m)
  <2>1. PICK data \in BOOLEAN : UserCall(outgoingEnd(Both, m, data)) BY <1>4 DEF OutgoingEnd
  <2> QED BY <1>1, <2>1, ClientRequests, ClientCalls
<1> QED BY <1>2, <1>3, <1>4

\* The user reads the response.
LEMMA ClientReads ==
  ASSUME Base, ClientInv, ReadResponse
  PROVE  Base' /\ ClientInv' /\ http'.role = http.role
<1> DEFINE k == [http EXCEPT !.flowing = TRUE, !.buffered = FALSE]
           y == [Both EXCEPT !.h.flowing = TRUE, !.h.buffered = FALSE]
           z == IF http.buffered /\ http.eof THEN emitIncomingEnd(y) ELSE y
<1>1. Fit(Both) /\ Client(Both) /\ Both.s = sock /\ Both.h = http BY BothFit DEF ClientInv
<1>2. UserCall(z) /\ http.msg > 0 BY DEF ReadResponse
<1>3. http \in HttpRecord BY DEF Base
<1>4. k \in HttpRecord BY <1>3 DEF HttpRecord
<1>5. /\ k.role = http.role /\ k.late = http.late /\ k.out = http.out /\ ~k.buffered
      /\ k.msg = http.msg /\ k.more = http.more /\ k.closed = http.closed
      /\ k.errors = http.errors /\ k.threw = http.threw /\ k.parser = http.parser
      /\ k.phase = http.phase /\ k.eof = http.eof /\ k.endEmitted = http.endEmitted
      /\ k.complete = http.complete /\ k.tellClose = http.tellClose
      /\ k.closeTold = http.closeTold
  BY <1>3 DEF HttpRecord
<1>6. y = [Both EXCEPT !.h = k] BY <1>1
<1> HIDE DEF k, y
<1>7. Web(Both, y) /\ y.h = k /\ y.s = sock BY <1>1, <1>4, <1>5, <1>6, HttpOnly
<1>8. Reason(k) BY <1>1, <1>5 DEF Client, Told, Reason
<1>9. Calm(sock) BY <1>1, <1>2, <1>3 DEF Client, HttpRecord
<1>10. Goes(Both, z)
  <2>1. CASE http.buffered /\ http.eof
    <3> DEFINE w == emitIncomingEnd(y)
    <3>1. k.complete \/ k.tellClose BY <1>5, <1>8, <2>1 DEF Reason
    <3>2. /\ Web(y, w) /\ Reason(w.h) /\ Keep(y.h, w.h) /\ w.h.endEmitted
          /\ w.h.parser = y.h.parser /\ w.h.phase = y.h.phase /\ w.h.eof = y.h.eof
      BY <1>7, <1>8, <3>1, IncomingEnd DEF Web
    <3> HIDE DEF w
    <3>3. Web(Both, w) BY <1>7, <3>2, WebOn
    <3>4. Told(w.h) BY <1>1, <1>2, <1>3, <1>5, <1>7, <2>1, <3>2
      DEF Client, Told, Closes, Keep, HttpRecord
    <3>5. IsClient(w) BY <1>1, <3>3 DEF Web, Client, IsClient
    <3>6. Client(w)
      <4>1. \A m \in 1..MaxMessages : w.h.out[m].attached
        BY <1>1, <1>5, <1>7, <3>2 DEF Client, Keep
      <4>2. w.h.closed => w.s.handle = "closed" /\ ~w.h.more
        BY <1>1, <1>5, <1>7, <3>2, <3>3 DEF Client, Keep, Web, Follows
      <4>3. Calm(w.s) BY <1>1, <1>9, <3>3 DEF Web, Follows, Calm
      <4> QED BY <3>4, <3>5, <4>1, <4>2, <4>3 DEF Client
    <3> QED BY <1>1, <1>5, <1>7, <2>1, <3>2, <3>3, <3>6 DEF Goes, Fed, w
  <2>2. CASE ~(http.buffered /\ http.eof)
    <3>1. Told(k) BY <1>1, <1>2, <1>3, <1>5, <1>8, <2>2 DEF Client, Told, Closes, HttpRecord
    <3>2. Client(y) BY <1>1, <1>5, <1>7, <3>1 DEF Client, IsClient
    <3> QED BY <1>1, <1>5, <1>7, <2>2, <3>2 DEF Goes, Fed
  <2> QED BY <2>1, <2>2
<1> QED BY <1>2, <1>10, ClientCalls

\* The count of chunks is only there to be bounded.
LEMMA Counted ==
  ASSUME NEW s, Sane(s), NEW n \in Nat
  PROVE  LET t == [s EXCEPT !.received = n]
         IN  Sane(t) /\ Follows(s, t) /\ Alike(s, t) /\ Leads(s, t) /\ (Good(s) => Good(t))
<1> DEFINE t == [s EXCEPT !.received = n]
<1>1. s \in SocketRecord BY DEF Sane
<1>2. t \in SocketRecord BY <1>1 DEF SocketRecord
<1>3. Sane(t) /\ Follows(s, t) BY <1>1, <1>2 DEF Sane, Follows, SocketRecord
<1>4. Alike(s, t) /\ Leads(s, t) BY <1>1 DEF Alike, Leads, Later, SocketRecord
<1>5. ASSUME Good(s) PROVE Good(t)
  <2>1. Flow(t) BY <1>1, <1>5 DEF Good, Core, Flow, Underway, Honest, SocketRecord
  <2>2. LookInv(t) /\ HalfInv(t) BY <1>1, <1>5 DEF Good, LookInv, HalfInv, SocketRecord
  <2> QED BY <1>2, <2>1, <2>2 DEF Good, Core
<1> QED BY <1>3, <1>4, <1>5

\* Data arrive: the idle timer starts again, and the chunk is underway.
DataArrives ==
  [Both EXCEPT !.s = IF http.more THEN sock
                     ELSE [resetSocketTimeout(sock) EXCEPT !.received = @ + 1],
               !.h.more = FALSE]

\* What it leaves alone.
LEMMA DataFit ==
  ASSUME Base
  PROVE  LET x == DataArrives
         IN  /\ Web(Both, x) /\ x.h = [http EXCEPT !.more = FALSE]
             /\ x.s.reading = sock.reading /\ Leads(sock, x.s) /\ (Good(sock) => Good(x.s))
<1> DEFINE r == resetSocketTimeout(sock)
           n == r.received + 1
           c == [r EXCEPT !.received = n]
           t == IF http.more THEN sock ELSE c
           k == [http EXCEPT !.more = FALSE]
           y == [Both EXCEPT !.s = t]
           x == [y EXCEPT !.h = k]
<1>1. Fit(Both) /\ Both.s = sock /\ Both.h = http BY BothFit
<1>2. Sane(r) /\ Follows(sock, r) /\ r.reading = sock.reading BY <1>1, ResetSane DEF Fit
<1>3. (Good(sock) => Good(r)) /\ Leads(sock, r)
  <2>1. sock \in SocketRecord BY DEF Base, Sane
  <2>2. Leads(sock, r) BY <2>1 DEF resetSocketTimeout, Leads, Later, SocketRecord
  <2> QED BY <2>2, ResetGood
<1>4. DataArrives = x
  <2>1. DataArrives = [Both EXCEPT !.s = IF http.more THEN sock ELSE c, !.h.more = FALSE]
    <3>1. r \in SocketRecord BY <1>2 DEF Sane
    <3>2. [resetSocketTimeout(sock) EXCEPT !.received = @ + 1] = c BY <3>1 DEF SocketRecord
    <3> QED BY <3>2 DEF DataArrives
  <2> QED BY <1>1, <2>1 DEF Fit
<1> HIDE DEF r
<1>5. n \in Nat BY <1>2 DEF Sane, SocketRecord
<1> HIDE DEF n
<1>6. /\ Sane(c) /\ Follows(r, c) /\ Alike(r, c) /\ Leads(r, c) /\ (Good(r) => Good(c))
  BY <1>2, <1>5, Counted
<1> HIDE DEF c
<1>7. /\ Sane(t) /\ Follows(sock, t) /\ t.reading = sock.reading /\ Leads(sock, t)
      /\ (Good(sock) => Good(t))
  BY <1>1, <1>2, <1>3, <1>6, FollowsOn, FollowsNothing, LeadsOn, LeadsNowhere DEF Fit, Alike
<1> HIDE DEF t
<1>8. Web(Both, y) /\ y.h = http /\ y.s = t BY <1>1, <1>7, SocketOnly
<1> HIDE DEF y
<1>9. k \in HttpRecord /\ k.role = http.role /\ k.late = http.late
  BY DEF Base, HttpRecord
<1> HIDE DEF k
<1>10. Fit(y) BY <1>8 DEF Web
<1>11. Web(y, x) /\ x.s = y.s /\ x.h = k BY <1>8, <1>9, <1>10, HttpOnly
<1> HIDE DEF x
<1> QED BY <1>4, <1>7, <1>8, <1>11, WebOn DEF k

\* The rest of the chunk waits, or not.
LEMMA RestOfChunk ==
  ASSUME NEW y, Fit(y), NEW more \in BOOLEAN, NEW b \in BOOLEAN
  PROVE  LET z == [y EXCEPT !.h.more = more, !.s.received = IF b THEN @ + 1 ELSE @]
         IN  /\ Web(y, z) /\ z.h = [y.h EXCEPT !.more = more]
             /\ Alike(y.s, z.s) /\ Leads(y.s, z.s) /\ (Good(y.s) => Good(z.s))
<1> DEFINE n == IF b THEN y.s.received + 1 ELSE y.s.received
           t == [y.s EXCEPT !.received = n]
           k == [y.h EXCEPT !.more = more]
           w == [y EXCEPT !.h = k]
           z == [w EXCEPT !.s = t]
           a == [y EXCEPT !.h.more = more, !.s.received = IF b THEN @ + 1 ELSE @]
<1>1. y.s \in SocketRecord /\ y.h \in HttpRecord /\ Sane(y.s) BY DEF Fit
<1>2. n \in Nat BY <1>1 DEF SocketRecord
<1>3. a = z
  <2>1. w.s = y.s BY DEF Fit
  <2>2. a = [w EXCEPT !.s.received = IF b THEN @ + 1 ELSE @] OBVIOUS
  <2>3. a = [w EXCEPT !.s = [y.s EXCEPT !.received = IF b THEN @ + 1 ELSE @]] BY <2>1, <2>2
  <2>4. [y.s EXCEPT !.received = IF b THEN @ + 1 ELSE @] = t BY <1>1 DEF SocketRecord
  <2> QED BY <2>3, <2>4
<1> HIDE DEF n
<1>4. Sane(t) /\ Follows(y.s, t) /\ Alike(y.s, t) /\ Leads(y.s, t) /\ (Good(y.s) => Good(t))
  BY <1>1, <1>2, Counted
<1> HIDE DEF t
<1>5. k \in HttpRecord /\ k.role = y.h.role /\ k.late = y.h.late BY <1>1 DEF HttpRecord
<1> HIDE DEF k, a
<1>6. Web(y, w) /\ w.s = y.s /\ w.h = k BY <1>5, HttpOnly
<1> HIDE DEF w
<1>7. Fit(w) BY <1>6 DEF Web
<1>8. Web(w, z) /\ z.h = w.h /\ z.s = t BY <1>4, <1>6, <1>7, SocketOnly
<1> HIDE DEF z
<1>9. Web(y, z) /\ z.h = k /\ z.s = t BY <1>6, <1>8, WebOn
<1> QED BY <1>3, <1>4, <1>9 DEF a, k

\* destroy() in a handler of http.
LEMMA WebDestroys ==
  ASSUME NEW x, Fit(x)
  PROVE  LET y == [x EXCEPT !.s = destroy(@)]
         IN  Web(x, y) /\ y.h = x.h /\ y.s = destroy(x.s)
<1> DEFINE t == destroy(x.s)
           y == [x EXCEPT !.s = t]
<1>1. [x EXCEPT !.s = destroy(@)] = y BY DEF Fit
<1>2. Sane(t) /\ Follows(x.s, t) BY DestroySane DEF Fit
<1> HIDE DEF t
<1>3. Web(x, y) /\ y.h = x.h /\ y.s = t BY <1>2, SocketOnly
<1> HIDE DEF y
<1> QED BY <1>1, <1>3 DEF t

\* The headers of a message are complete.
HeadersComplete(x, u) == [x EXCEPT !.h.phase = "body", !.h.msg = @ + 1, !.h.untilEof = u]

\* Which every handler may do.
LEMMA HeadersFit ==
  ASSUME NEW x, Fit(x), NEW u \in BOOLEAN
  PROVE  LET y == HeadersComplete(x, u)
         IN  /\ Web(x, y) /\ y.s = x.s /\ y.h.phase = "body" /\ y.h.msg = x.h.msg + 1
             /\ y.h.more = x.h.more /\ y.h.closed = x.h.closed /\ y.h.out = x.h.out
             /\ y.h.errors = x.h.errors /\ y.h.threw = x.h.threw /\ y.h.parser = x.h.parser
             /\ y.h.eof = x.h.eof /\ y.h.endEmitted = x.h.endEmitted
             /\ y.h.complete = x.h.complete /\ y.h.tellClose = x.h.tellClose
             /\ y.h.closeTold = x.h.closeTold /\ y.h.late = x.h.late
<1> DEFINE n == x.h.msg + 1
           k == [x.h EXCEPT !.phase = "body", !.msg = n, !.untilEof = u]
           y == [x EXCEPT !.h = k]
<1>1. x.h \in HttpRecord BY DEF Fit
<1>2. n \in Nat BY <1>1 DEF HttpRecord
<1>3. HeadersComplete(x, u) = y BY <1>1 DEF HeadersComplete, Fit
<1> HIDE DEF n
<1>4. k \in HttpRecord BY <1>1, <1>2 DEF HttpRecord
<1>5. /\ k.phase = "body" /\ k.msg = n /\ k.role = x.h.role /\ k.late = x.h.late
      /\ k.more = x.h.more /\ k.closed = x.h.closed /\ k.out = x.h.out
      /\ k.errors = x.h.errors /\ k.threw = x.h.threw /\ k.parser = x.h.parser
      /\ k.eof = x.h.eof /\ k.endEmitted = x.h.endEmitted
      /\ k.complete = x.h.complete /\ k.tellClose = x.h.tellClose
      /\ k.closeTold = x.h.closeTold
  BY <1>1 DEF HttpRecord
<1> HIDE DEF k
<1>6. Web(x, y) /\ y.s = x.s /\ y.h = k BY <1>4, <1>5, HttpOnly
<1> HIDE DEF y
<1> QED BY <1>3, <1>5, <1>6 DEF n

\* http-parser has failed: the parser is dead, and a client gives it up.
LEMMA ParseFails ==
  ASSUME NEW x, Fit(x)
  PROVE  LET y == parseError(x)
         IN  /\ Web(x, y) /\ y.s = destroy(x.s) /\ y.h.phase = "dead"
             /\ (y.h.parser = (x.h.parser /\ ~IsClient(x))) /\ y.h.late = x.h.late
             /\ y.h.more = x.h.more /\ y.h.closed = x.h.closed /\ y.h.out = x.h.out
             /\ y.h.threw = x.h.threw /\ y.h.msg = x.h.msg
             /\ y.h.eof = x.h.eof /\ y.h.endEmitted = x.h.endEmitted
             /\ y.h.complete = x.h.complete /\ y.h.tellClose = x.h.tellClose
             /\ y.h.closeTold = x.h.closeTold
<1> DEFINE d == [x EXCEPT !.s = destroy(@)]
           n == x.h.errors + 1
           k == [x.h EXCEPT !.phase = "dead"]
           l == [k EXCEPT !.parser = FALSE, !.errors = n]
           y == [d EXCEPT !.h = k]
           z == [d EXCEPT !.h = l]
<1>1. Web(x, d) /\ d.h = x.h /\ d.s = destroy(x.s) BY WebDestroys
<1>2. x.h \in HttpRecord /\ n \in Nat BY DEF Fit, HttpRecord
<1>3. parseError(x) = IF IsClient(x) THEN z ELSE y
  <2>1. [x EXCEPT !.s = destroy(@), !.h.phase = "dead"] = y BY <1>1
  <2>2. y.h = k BY <1>1 DEF Web, Fit
  <2>3. [y EXCEPT !.h.parser = FALSE, !.h.errors = @ + 1]
          = [y EXCEPT !.h = [k EXCEPT !.parser = FALSE, !.errors = @ + 1]]
    <3>1. d \in [s : SocketRecord, h : HttpRecord] /\ k \in HttpRecord
      BY <1>1, <1>2 DEF Web, Fit, HttpRecord
    <3>2. y \in [s : SocketRecord, h : HttpRecord] BY <3>1
    <3> HIDE DEF y, k
    <3> QED BY <2>2, <3>1, <3>2
  <2>4. k.errors = x.h.errors BY <1>2 DEF HttpRecord
  <2>5. [k EXCEPT !.parser = FALSE, !.errors = @ + 1] = l BY <1>2, <2>4 DEF HttpRecord
  <2>6. [y EXCEPT !.h = l] = z BY <1>1 DEF Web, Fit
  <2> QED BY <2>1, <2>3, <2>5, <2>6 DEF parseError
<1> HIDE DEF n
<1>4. k \in HttpRecord /\ l \in HttpRecord BY <1>2 DEF HttpRecord
<1> DEFINE Kept(j) == /\ j.phase = "dead" /\ j.role = x.h.role /\ j.late = x.h.late
                      /\ j.more = x.h.more /\ j.closed = x.h.closed /\ j.out = x.h.out
                      /\ j.threw = x.h.threw /\ j.msg = x.h.msg
                      /\ j.eof = x.h.eof /\ j.endEmitted = x.h.endEmitted
                      /\ j.complete = x.h.complete /\ j.tellClose = x.h.tellClose
                      /\ j.closeTold = x.h.closeTold
<1>5. Kept(k) /\ k.parser = x.h.parser BY <1>2 DEF HttpRecord
<1>6. Kept(l) /\ ~l.parser BY <1>2 DEF HttpRecord
<1>7. Fit(d) BY <1>1 DEF Web
<1>8. x.h.parser \in BOOLEAN /\ l.parser \in BOOLEAN BY <1>2, <1>4 DEF HttpRecord
<1> HIDE DEF d, k, l
<1>9. Web(d, y) /\ y.s = d.s /\ y.h = k BY <1>1, <1>4, <1>5, <1>7, HttpOnly
<1>10. Web(d, z) /\ z.s = d.s /\ z.h = l BY <1>1, <1>4, <1>6, <1>7, HttpOnly
<1> HIDE DEF y, z
<1>11. Web(x, y) /\ Web(x, z) BY <1>1, <1>9, <1>10, WebOn
<1> QED BY <1>1, <1>3, <1>5, <1>6, <1>8, <1>9, <1>10, <1>11

\* The callbacks of http-parser, each in a phase where it may come.
MayCall(h, callback) ==
  /\ callback \in {"head", "headers", "body", "complete", "error"}
  /\ callback \in {"head", "headers"} => h.phase \in {"idle", "head"} /\ h.msg < MaxMessages
  /\ callback \in {"body", "complete"} => h.phase = "body"

\* A callback of the parser of a client.
LEMMA ClientParses ==
  ASSUME NEW x, Fit(x), Client(x), Calm(x.s), ~x.h.closed,
         NEW callback, MayCall(x.h, callback), NEW y \in OnCallback(x, callback)
  PROVE  Web(x, y) /\ Client(y) /\ ~y.h.closed /\ (Fed(x.h) => Fed(y.h))
<1>1. x.h \in HttpRecord BY DEF Fit
<1>2. ASSUME NEW w, Web(x, w), Reason(w.h), w.h.threw => w.h.phase = "dead",
             w.h.closed = x.h.closed, w.h.out = x.h.out
      PROVE  Client(w) /\ ~w.h.closed
  <2>1. Calm(w.s) /\ IsClient(w) BY <1>2 DEF Web, Follows, Calm, Client, IsClient
  <2>2. Told(w.h) BY <1>2 DEF Told, Closes
  <2> QED BY <1>2, <2>1, <2>2 DEF Client
<1>3. Reason(x.h) /\ (x.h.threw => x.h.phase = "dead") /\ IsClient(x) BY DEF Client, Told
<1>4. CASE callback = "head"
  <2> DEFINE k == [x.h EXCEPT !.phase = "head"]
             w == [x EXCEPT !.h = k]
  <2>1. y = w BY <1>4 DEF OnCallback
  <2>2. k \in HttpRecord BY <1>1 DEF HttpRecord
  <2>3. /\ k.role = x.h.role /\ k.late = x.h.late /\ k.closed = x.h.closed /\ k.out = x.h.out
        /\ k.threw = x.h.threw /\ k.parser = x.h.parser /\ Reason(k)
    BY <1>1, <1>3 DEF HttpRecord, Reason
  <2> HIDE DEF k
  <2>4. Web(x, w) /\ w.h = k BY <2>2, <2>3, HttpOnly
  <2> HIDE DEF w
  <2>5. x.h.phase # "dead" BY <1>4 DEF MayCall
  <2> QED BY <1>2, <1>3, <2>1, <2>3, <2>4, <2>5 DEF Fed
<1>5. CASE callback = "headers"
  <2>1. PICK u \in {FALSE, IsClient(x)} : y = parserOnIncoming(HeadersComplete(x, u))
    BY <1>5 DEF OnCallback, HeadersComplete
  <2> DEFINE v == HeadersComplete(x, u)
  <2>2. u \in BOOLEAN BY DEF IsClient
  <2>3. /\ Web(x, v) /\ v.h.closed = x.h.closed /\ v.h.out = x.h.out
        /\ v.h.threw = x.h.threw /\ v.h.parser = x.h.parser
        /\ v.h.eof = x.h.eof /\ v.h.endEmitted = x.h.endEmitted
        /\ v.h.complete = x.h.complete /\ v.h.tellClose = x.h.tellClose
        /\ v.h.closeTold = x.h.closeTold
    BY <2>2, HeadersFit
  <2> HIDE DEF v
  <2>4. IsClient(v) /\ Fit(v) BY <1>3, <2>3 DEF Web, IsClient
  <2>5. y = v \/ y = [v EXCEPT !.s = destroy(@)] BY <2>1, <2>4 DEF parserOnIncoming, v
  <2>6. Web(v, y) /\ y.h = v.h BY <2>4, <2>5, WebDestroys, WebNothing
  <2>7. Web(x, y) BY <2>3, <2>6, WebOn
  <2>8. Reason(v.h) BY <1>3, <2>3 DEF Reason
  <2>9. x.h.phase # "dead" BY <1>5 DEF MayCall
  <2> QED BY <1>2, <1>3, <2>3, <2>6, <2>7, <2>8, <2>9 DEF Fed
<1>6. CASE callback = "body"
  <2> DEFINE b == x.h.buffered \/ ~x.h.flowing
             k == [x.h EXCEPT !.buffered = b]
             w == [x EXCEPT !.h = k]
  <2>1. y = x \/ y = w
    <3>1. [x EXCEPT !.h.buffered = @ \/ ~x.h.flowing] = w BY DEF Fit
    <3> QED BY <1>6, <3>1 DEF OnCallback, parserOnBody, pushBody
  <2>2. b \in BOOLEAN BY <1>1, Zenon DEF HttpRecord
  <2> HIDE DEF b
  <2>3. k \in HttpRecord BY <1>1, <2>2 DEF HttpRecord
  <2>4. /\ k.role = x.h.role /\ k.late = x.h.late /\ k.closed = x.h.closed /\ k.out = x.h.out
        /\ k.threw = x.h.threw /\ k.parser = x.h.parser /\ k.phase = x.h.phase /\ Reason(k)
    BY <1>1, <1>3 DEF HttpRecord, Reason
  <2> HIDE DEF k
  <2>5. Web(x, w) /\ w.h = k BY <2>3, <2>4, HttpOnly
  <2> HIDE DEF w
  <2>6. Client(w) /\ ~w.h.closed BY <1>2, <1>3, <2>4, <2>5
  <2> QED BY <2>1, <2>4, <2>5, <2>6, WebNothing DEF Fed
<1>7. CASE callback = "complete"
  <2>1. x.h.phase = "body" /\ y = parserOnMessageComplete(x)
    BY <1>7 DEF OnCallback, MayCall
  <2>2. Web(x, y) /\ Reason(y.h) /\ Keep(x.h, y.h) /\ y.h.parser = x.h.parser
    BY <1>3, <2>1, MessageComplete
  <2> QED BY <1>2, <1>3, <2>1, <2>2 DEF Keep, Fed
<1>8. CASE callback = "error"
  <2>1. y = parseError(x) BY <1>8 DEF OnCallback
  <2>2. /\ Web(x, y) /\ y.h.phase = "dead" /\ y.h.closed = x.h.closed /\ y.h.out = x.h.out
        /\ y.h.eof = x.h.eof /\ y.h.endEmitted = x.h.endEmitted
        /\ y.h.complete = x.h.complete /\ y.h.tellClose = x.h.tellClose
        /\ y.h.closeTold = x.h.closeTold
    BY <2>1, ParseFails
  <2>3. Reason(y.h) BY <1>3, <2>2 DEF Reason
  <2> QED BY <1>2, <2>2, <2>3 DEF Fed
<1> QED BY <1>4, <1>5, <1>6, <1>7, <1>8 DEF MayCall

\* What http-parser may report, in terms of the phase.
LEMMA CallbacksMay ==
  ASSUME NEW callback \in Callbacks
  PROVE  MayCall(http, callback)
BY DEF Callbacks, MayCall

\* Data for a client.
LEMMA ClientData ==
  ASSUME Base, ClientInv, OnData
  PROVE  Base' /\ ClientInv' /\ http'.role = http.role
<1> DEFINE x == DataArrives
<1>1. Fit(Both) /\ Client(Both) /\ Both.s = sock /\ Both.h = http BY BothFit DEF ClientInv
<1>2. /\ http.more \/ sock.reading
      /\ \/ ~http.parser /\ ~http.more /\ WebEvent(Throw(x))
         \/ \E callback \in Callbacks, more \in BOOLEAN : \E y \in OnCallback(x, callback) :
              WebEvent([y EXCEPT !.h.more = more,
                                 !.s.received = IF http.more THEN @ + 1 ELSE @])
  BY DEF OnData, DataArrives
<1>3. /\ Web(Both, x) /\ x.h = [http EXCEPT !.more = FALSE] /\ x.s.reading = sock.reading
  BY DataFit
<1> HIDE DEF x
<1>4. http \in HttpRecord BY DEF Base
<1>5. Calm(sock) /\ ~http.closed BY <1>1, <1>2, <1>4 DEF ClientInv, Client, Base, Sane, HttpRecord
<1>6. /\ ~x.h.more /\ x.h.msg = http.msg /\ x.h.closed = http.closed /\ x.h.out = http.out
      /\ x.h.threw = http.threw /\ x.h.parser = http.parser /\ x.h.phase = http.phase
      /\ x.h.role = http.role /\ x.h.eof = http.eof /\ x.h.endEmitted = http.endEmitted
      /\ x.h.complete = http.complete /\ x.h.tellClose = http.tellClose
      /\ x.h.closeTold = http.closeTold
  BY <1>3, <1>4 DEF HttpRecord
<1>7. Fit(x) /\ Calm(x.s) /\ IsClient(x)
  BY <1>1, <1>3, <1>5, <1>6 DEF Web, Follows, Calm, Client, IsClient
<1>8. Told(x.h) BY <1>1, <1>5, <1>6 DEF Client, Told, Reason, Closes
<1>9. Client(x) BY <1>1, <1>5, <1>6, <1>7, <1>8 DEF Client
<1>10. CASE ~http.parser /\ ~http.more /\ WebEvent(Throw(x))
  <2> DEFINE k == [x.h EXCEPT !.threw = TRUE]
             y == [x EXCEPT !.h = k]
  <2>1. Throw(x) = y BY DEF Throw
  <2>2. x.h \in HttpRecord BY <1>7 DEF Fit
  <2>3. k \in HttpRecord BY <2>2 DEF HttpRecord
  <2>4. /\ k.role = x.h.role /\ k.late = x.h.late /\ k.closed = x.h.closed /\ k.out = x.h.out
        /\ k.phase = x.h.phase /\ k.more = x.h.more /\ Reason(k)
    BY <1>8, <2>2 DEF HttpRecord, Told, Reason
  <2> HIDE DEF k
  <2>5. Web(x, y) /\ y.h = k /\ y.s = x.s BY <1>7, <2>3, <2>4, HttpOnly
  <2> HIDE DEF y
  <2>6. http.phase = "dead" BY <1>2, <1>10 DEF ClientInv, Fed
  <2>7. Told(k) BY <1>5, <1>6, <2>4, <2>6 DEF Told, Closes
  <2>8. Client(y) BY <1>5, <1>6, <1>7, <1>9, <2>4, <2>5, <2>7 DEF Client, IsClient
  <2>9. Web(Both, y) /\ Fed(y.h) BY <1>3, <1>6, <2>4, <2>5, <2>6, WebOn DEF Fed
  <2> QED BY <1>10, <2>1, <2>8, <2>9, ClientEvents
<1>11. ASSUME NEW callback \in Callbacks, NEW more \in BOOLEAN, NEW y \in OnCallback(x, callback),
              WebEvent([y EXCEPT !.h.more = more,
                                 !.s.received = IF http.more THEN @ + 1 ELSE @])
       PROVE  Base' /\ ClientInv' /\ http'.role = http.role
  <2> DEFINE z == [y EXCEPT !.h.more = more, !.s.received = IF http.more THEN @ + 1 ELSE @]
  <2>1. MayCall(x.h, callback) BY <1>6, CallbacksMay DEF MayCall
  <2>2. Web(x, y) /\ Client(y) /\ ~y.h.closed /\ (Fed(x.h) => Fed(y.h))
    BY <1>5, <1>6, <1>7, <1>9, <2>1, ClientParses
  <2>3. Fit(y) /\ y.h \in HttpRecord /\ http.more \in BOOLEAN
    BY <1>4, <2>2 DEF Web, Fit, HttpRecord
  <2>4. Web(y, z) /\ z.h = [y.h EXCEPT !.more = more] /\ Alike(y.s, z.s)
    BY <2>3, RestOfChunk
  <2> HIDE DEF z
  <2>5. /\ z.h.role = y.h.role /\ z.h.closed = y.h.closed /\ z.h.out = y.h.out
        /\ z.h.threw = y.h.threw /\ z.h.phase = y.h.phase /\ z.h.parser = y.h.parser
        /\ (Reason(y.h) => Reason(z.h))
    BY <2>3, <2>4 DEF HttpRecord, Reason
  <2>6. Calm(z.s) /\ Web(Both, z)
    <3>1. Web(x, z) BY <2>2, <2>4, WebOn
    <3> QED BY <1>3, <1>7, <3>1, WebOn DEF Web, Follows, Calm
  <2>7. Told(z.h) BY <2>2, <2>5 DEF Client, Told, Closes
  <2>8. Client(z) BY <2>2, <2>5, <2>6, <2>7 DEF Client, IsClient
  <2>9. Fed(http) => Fed(z.h) BY <1>6, <2>2, <2>5 DEF Fed
  <2> QED BY <1>11, <2>6, <2>8, <2>9, ClientEvents DEF z
<1> QED BY <1>2, <1>10, <1>11

\* The end of the input: what onread does before and after the listener of http.
LEMMA InputEnds ==
  ASSUME NEW s, Sane(s)
  PROVE  LET t == emitEnd([s EXCEPT !.eof = TRUE, !.reading = FALSE])
         IN  /\ Sane(t) /\ Follows(s, t) /\ ~t.reading
             /\ Good(s) /\ s.connected => Good(t) /\ Leads(s, t)
<1> DEFINE u == [s EXCEPT !.eof = TRUE, !.reading = FALSE]
           t == emitEnd(u)
<1>1. s \in SocketRecord BY DEF Sane
<1>2. u \in SocketRecord BY <1>1 DEF SocketRecord
<1>3. Sane(u) /\ Follows(s, u) /\ ~u.reading BY <1>1, <1>2 DEF Sane, Follows, SocketRecord
<1>4. Good(s) /\ s.connected => Good(u) /\ Leads(s, u) /\ u.connected
  <2>1. Good(s) /\ s.connected => Flow(u) BY <1>1 DEF Good, Core, Flow, Underway, Honest, SocketRecord
  <2>2. Good(s) => LookInv(u) /\ HalfInv(u) BY <1>1 DEF Good, LookInv, HalfInv, SocketRecord
  <2>3. Leads(s, u) /\ u.connected = s.connected BY <1>1 DEF Leads, Later, SocketRecord
  <2> QED BY <1>2, <2>1, <2>2, <2>3 DEF Good, Core
<1> HIDE DEF u
<1>5. Sane(t) /\ Follows(u, t) BY <1>3, EmitEndSane
<1>6. Good(u) /\ u.connected => Good(t) /\ Leads(u, t) BY EmitEndGood
<1> HIDE DEF t
<1>7. Follows(s, t) /\ ~t.reading BY <1>3, <1>5, FollowsOn DEF Follows
<1> QED BY <1>4, <1>5, <1>6, <1>7, LeadsOn DEF t, u

\* The socket is not readable any more.
LEMMA InputEnded ==
  ASSUME NEW s, Sane(s)
  PROVE  LET t == maybeDestroy([s EXCEPT !.readable = FALSE])
         IN  Sane(t) /\ Follows(s, t) /\ (Good(s) => Good(t) /\ Leads(s, t))
<1> DEFINE u == [s EXCEPT !.readable = FALSE]
           t == maybeDestroy(u)
<1>1. s \in SocketRecord BY DEF Sane
<1>2. u \in SocketRecord BY <1>1 DEF SocketRecord
<1>3. Sane(u) /\ Follows(s, u) BY <1>1, <1>2 DEF Sane, Follows, SocketRecord
<1>4. Good(s) => Good(u) /\ Leads(s, u)
  <2>1. Good(s) => Flow(u) BY <1>1 DEF Good, Core, Flow, Underway, Honest, SocketRecord
  <2>2. Good(s) => LookInv(u) /\ HalfInv(u) BY <1>1 DEF Good, LookInv, HalfInv, SocketRecord
  <2>3. Leads(s, u) BY <1>1 DEF Leads, Later, SocketRecord
  <2> QED BY <1>2, <2>1, <2>2, <2>3 DEF Good, Core
<1> HIDE DEF u
<1>5. Sane(t) /\ Follows(u, t) BY <1>3, MaybeDestroySane
<1>6. Good(u) => Good(t) /\ Leads(u, t) BY MaybeDestroyGood
<1> HIDE DEF t
<1> QED BY <1>3, <1>4, <1>5, <1>6, FollowsOn, LeadsOn DEF t, u

\* The pair with the idle timer started again.
LEMMA WebResets ==
  ASSUME Base
  PROVE  LET x == [Both EXCEPT !.s = resetSocketTimeout(@)]
         IN  /\ Web(Both, x) /\ x.h = http /\ x.s = resetSocketTimeout(sock)
             /\ Leads(sock, x.s) /\ (Good(sock) => Good(x.s))
<1> DEFINE r == resetSocketTimeout(sock)
           x == [Both EXCEPT !.s = r]
<1>1. Fit(Both) /\ Both.s = sock /\ Both.h = http BY BothFit
<1>2. Sane(r) /\ Follows(sock, r) BY <1>1, ResetSane DEF Fit
<1>3. (Good(sock) => Good(r)) /\ Leads(sock, r)
  <2>1. sock \in SocketRecord BY DEF Base, Sane
  <2>2. Leads(sock, r) BY <2>1 DEF resetSocketTimeout, Leads, Later, SocketRecord
  <2> QED BY <2>2, ResetGood
<1>4. [Both EXCEPT !.s = resetSocketTimeout(@)] = x BY <1>1 DEF Fit
<1> HIDE DEF r
<1>5. Web(Both, x) /\ x.h = http /\ x.s = r BY <1>1, <1>2, SocketOnly
<1> HIDE DEF x
<1> QED BY <1>3, <1>4, <1>5 DEF r

\* The two parts of readEnd, around the listener of http.
LEMMA ReadEndParts ==
  ASSUME NEW x, Fit(x)
  PROVE  LET w == [x EXCEPT !.s = emitEnd([@ EXCEPT !.eof = TRUE, !.reading = FALSE])]
             y == socketOnEnd(w)
         IN  /\ Web(x, w) /\ w.h = x.h /\ ~w.s.reading
             /\ Good(x.s) /\ x.s.connected => Good(w.s) /\ Leads(x.s, w.s)
             /\ Fit(y) => /\ Web(y, readEnd(x)) /\ readEnd(x).h = y.h
                          /\ Good(y.s) => Good(readEnd(x).s) /\ Leads(y.s, readEnd(x).s)
<1> DEFINE t == emitEnd([x.s EXCEPT !.eof = TRUE, !.reading = FALSE])
           w == [x EXCEPT !.s = t]
           y == socketOnEnd(w)
           u == maybeDestroy([y.s EXCEPT !.readable = FALSE])
           z == [y EXCEPT !.s = u]
<1>1. [x EXCEPT !.s = emitEnd([@ EXCEPT !.eof = TRUE, !.reading = FALSE])] = w BY DEF Fit
<1>2. /\ Sane(t) /\ Follows(x.s, t) /\ ~t.reading
      /\ Good(x.s) /\ x.s.connected => Good(t) /\ Leads(x.s, t)
  BY InputEnds DEF Fit
<1>3. readEnd(x) = z BY <1>1 DEF readEnd
<1> HIDE DEF t
<1>4. Web(x, w) /\ w.h = x.h /\ w.s = t BY <1>2, SocketOnly
<1> HIDE DEF w, y
<1>5. ASSUME Fit(y) PROVE /\ Web(y, z) /\ z.h = y.h
                          /\ Good(y.s) => Good(z.s) /\ Leads(y.s, z.s)
  <2>1. Sane(u) /\ Follows(y.s, u) /\ (Good(y.s) => Good(u) /\ Leads(y.s, u))
    BY <1>5, InputEnded DEF Fit
  <2> HIDE DEF u
  <2>2. Web(y, z) /\ z.h = y.h /\ z.s = u BY <1>5, <2>1, SocketOnly
  <2> QED BY <2>1, <2>2
<1> HIDE DEF z
<1> QED BY <1>1, <1>2, <1>3, <1>4, <1>5 DEF y

\* The end of the input of a client.
LEMMA ClientEnds ==
  ASSUME Base, ClientInv, OnEnd
  PROVE  Base' /\ ClientInv' /\ http'.role = http.role
<1> DEFINE x == [Both EXCEPT !.s = resetSocketTimeout(@)]
           w == [x EXCEPT !.s = emitEnd([@ EXCEPT !.eof = TRUE, !.reading = FALSE])]
           y == socketOnEnd(w)
           z == readEnd(x)
<1>1. Fit(Both) /\ Client(Both) /\ Both.s = sock /\ Both.h = http BY BothFit DEF ClientInv
<1>2. sock.reading /\ WebEvent(z) BY DEF OnEnd
<1>3. Web(Both, x) /\ x.h = http BY WebResets
<1> HIDE DEF x
<1>4. Fit(x) BY <1>3 DEF Web
<1>5. /\ Web(x, w) /\ w.h = x.h /\ ~w.s.reading
      /\ Fit(y) => Web(y, z) /\ z.h = y.h
  BY <1>4, ReadEndParts
<1> HIDE DEF w, z
<1>6. Web(Both, w) /\ Fit(w) BY <1>3, <1>5, WebOn DEF Web
<1>7. Calm(sock) BY <1>2 DEF ClientInv
<1>8. Calm(w.s) BY <1>1, <1>6, <1>7 DEF Calm, Web, Follows
<1>9. Client(w)
  <2>1. IsClient(w) BY <1>1, <1>3, <1>5 DEF Client, IsClient
  <2>2. w.h.closed => w.s.handle = "closed" /\ ~w.h.more
    BY <1>1, <1>3, <1>5, <1>6 DEF Client, Web, Follows
  <2> QED BY <1>1, <1>3, <1>5, <1>8, <2>1, <2>2 DEF Client
<1>10. Web(w, y) /\ Client(y)
  BY <1>6, <1>8, <1>9, ClientDropped DEF socketOnEnd, Client
<1> HIDE DEF y
<1>11. Web(y, z) /\ z.h = y.h BY <1>5, <1>10 DEF Web
<1>12. Web(w, z) /\ Web(Both, z) BY <1>6, <1>10, <1>11, WebOn
<1>13. Client(z)
  <2>1. IsClient(z) /\ Calm(z.s)
    BY <1>8, <1>10, <1>11, <1>12 DEF Client, IsClient, Web, Follows, Calm
  <2>2. z.h.closed => z.s.handle = "closed" /\ ~z.h.more
    BY <1>10, <1>11 DEF Client, Web, Follows
  <2> QED BY <1>10, <1>11, <2>1, <2>2 DEF Client
<1>14. ~z.s.reading BY <1>5, <1>12 DEF Web, Follows
<1> QED BY <1>2, <1>12, <1>13, <1>14, ClientEvents DEF z

\* An error of the input of a client.
LEMMA ClientErrs ==
  ASSUME Base, ClientInv, OnError
  PROVE  Base' /\ ClientInv' /\ http'.role = http.role
<1> DEFINE r == resetSocketTimeout(sock)
           t == [r EXCEPT !.reading = FALSE]
           w == [Both EXCEPT !.s = t]
           y == socketOnError(w)
<1>1. Fit(Both) /\ Client(Both) /\ Both.s = sock /\ Both.h = http BY BothFit DEF ClientInv
<1>2. sock.reading /\ WebEvent(y) BY <1>1 DEF OnError, Fit
<1>3. Sane(r) /\ Follows(sock, r) BY <1>1, ResetSane DEF Fit
<1> HIDE DEF r
<1>4. t \in SocketRecord BY <1>3 DEF Sane, SocketRecord
<1>5. Sane(t) /\ Follows(r, t) /\ ~t.reading BY <1>3, <1>4 DEF Sane, Follows, SocketRecord
<1> HIDE DEF t
<1>6. Follows(sock, t) BY <1>3, <1>5, FollowsOn
<1>7. Web(Both, w) /\ w.h = http /\ w.s = t BY <1>1, <1>5, <1>6, SocketOnly
<1> HIDE DEF w
<1>8. Calm(sock) BY <1>2 DEF ClientInv
<1>9. Calm(w.s) BY <1>1, <1>7, <1>8 DEF Calm, Web, Follows
<1>10. Client(w)
  <2>1. IsClient(w) BY <1>1, <1>7 DEF Client, IsClient
  <2>2. w.h.closed => w.s.handle = "closed" /\ ~w.h.more
    BY <1>1, <1>7 DEF Client, Web, Follows
  <2> QED BY <1>1, <1>7, <1>9, <2>1, <2>2 DEF Client
<1>11. Web(w, y) /\ Client(y) BY <1>7, <1>9, <1>10, ClientDropped DEF Web
<1>12. Web(Both, y) BY <1>7, <1>11, WebOn
<1>13. ~y.s.reading BY <1>5, <1>7, <1>11 DEF Web, Follows
<1> QED BY <1>2, <1>11, <1>12, <1>13, ClientEvents

\* A client whose socket has followed.
LEMMA ClientFollows ==
  ASSUME Base, Client(Both), NEW t, Sane(t), Follows(sock, t),
         ~Calm(sock) => ~t.ending
  PROVE  LET y == [Both EXCEPT !.s = t]
         IN  Web(Both, y) /\ Client(y) /\ y.h = http /\ y.s = t
<1> DEFINE y == [Both EXCEPT !.s = t]
<1>1. Fit(Both) /\ Both.s = sock /\ Both.h = http BY BothFit
<1>2. Web(Both, y) /\ y.h = http /\ y.s = t BY <1>1, SocketOnly
<1> HIDE DEF y
<1>3. Client(y) BY <1>1, <1>2 DEF Client, IsClient, Calm, Follows
<1> QED BY <1>2, <1>3 DEF y

\* A client only tells the user that the socket is idle.
LEMMA ClientIdles ==
  ASSUME Base, ClientInv, OnTimeout
  PROVE  Base' /\ ClientInv' /\ http'.role = http.role
<1> DEFINE t == [sock EXCEPT !.timer = FALSE]
           y == [Both EXCEPT !.s = t]
<1>1. Fit(Both) /\ Client(Both) /\ Both.s = sock /\ Both.h = http BY BothFit DEF ClientInv
<1>2. WebEvent(y)
  <2>1. socketOnTimeout(Both) = Both BY <1>1 DEF socketOnTimeout, Client
  <2>2. [Both EXCEPT !.s.timer = FALSE] = y BY <1>1
  <2> QED BY <2>1, <2>2 DEF OnTimeout
<1>3. t \in SocketRecord BY DEF Base, Sane, SocketRecord
<1>4. Sane(t) /\ Follows(sock, t) /\ t.ending = sock.ending
  BY <1>3 DEF Base, Sane, Follows, SocketRecord
<1> HIDE DEF t
<1>5. Web(Both, y) /\ Client(y) /\ y.h = http BY <1>1, <1>4, ClientFollows DEF Client
<1> QED BY <1>2, <1>5, ClientEvents

\* The socket of a client has closed: the response ends, or the request fails.
LEMMA ClientCloses ==
  ASSUME Base, ClientInv, OnClose, ~http.more
  PROVE  Base' /\ ClientInv' /\ http'.role = http.role
<1> DEFINE t == [sock EXCEPT !.handle = "closed"]
           x == [Both EXCEPT !.s = t]
           k == [http EXCEPT !.closed = TRUE]
           y == [x EXCEPT !.h = k]
           ka == [k EXCEPT !.tellClose = TRUE]
           a == [y EXCEPT !.h = ka]
           n == http.errors + 1
           kb == [k EXCEPT !.errors = n]
           b == [y EXCEPT !.h = kb]
           c == IF http.msg > 0 THEN onEof(a) ELSE b
           z == dropParser(c)
<1>1. Fit(Both) /\ Client(Both) /\ Both.s = sock /\ Both.h = http BY BothFit DEF ClientInv
<1>2. sock.handle = "closing" /\ WebEvent(socketOnClose(x))
  <2>1. [Both EXCEPT !.s = [@ EXCEPT !.handle = "closed"]] = x BY <1>1
  <2> QED BY <2>1 DEF OnClose, AllAnswered
<1>3. http \in HttpRecord /\ n \in Nat BY DEF Base, HttpRecord
<1>4. t \in SocketRecord BY DEF Base, Sane, SocketRecord, HandleStates
<1>5. Sane(t) /\ Follows(sock, t) /\ t.handle = "closed" /\ ~t.reading /\ t.ending
  BY <1>2, <1>4 DEF Base, Sane, Follows, SocketRecord
<1> HIDE DEF t
<1>7. Calm(sock)
  <2>1. sock.ending BY <1>2 DEF Base, Sane
  <2> QED BY <1>1, <2>1 DEF Client
<1>8. Web(Both, x) /\ Client(x) /\ x.h = http /\ x.s = t BY <1>1, <1>5, <1>7, ClientFollows
<1>9. Fit(x) /\ IsClient(x) /\ Reason(http) BY <1>8 DEF Web, Client, Told
<1>10. k \in HttpRecord /\ ka \in HttpRecord /\ kb \in HttpRecord
  <2>1. k \in HttpRecord BY <1>3 DEF HttpRecord
  <2> HIDE DEF k, n
  <2> QED BY <1>3, <2>1 DEF HttpRecord
<1> DEFINE Kept(j) == /\ j.role = http.role /\ j.late = http.late /\ j.more = http.more
                      /\ j.closed /\ j.out = http.out /\ j.threw = http.threw
                      /\ j.msg = http.msg /\ j.phase = http.phase
                      /\ j.buffered = http.buffered /\ Reason(j)
<1>11. Kept(k) /\ Kept(ka) /\ ka.tellClose /\ Kept(kb) /\ kb.errors = n
  <2>1. Kept(k) BY <1>3, <1>9 DEF HttpRecord, Reason
  <2> HIDE DEF k, n
  <2> QED BY <1>10, <2>1 DEF HttpRecord, Reason
<1>12. socketOnClose(x) = z
  <2>1. socketOnClose(x) = clientOnClose(x) BY <1>9 DEF socketOnClose
  <2>2. [x EXCEPT !.h.closed = TRUE] = y BY <1>8
  <2>3. y.h = k BY <1>8 DEF Web, Fit
  <2>4. [y EXCEPT !.h.tellClose = TRUE] = a BY <2>3
  <2>5. [y EXCEPT !.h.errors = @ + 1] = b
    <3>1. [y EXCEPT !.h.errors = @ + 1] = [y EXCEPT !.h = [k EXCEPT !.errors = @ + 1]]
      <4> HIDE DEF y, k
      <4> QED BY <2>3
    <3>2. k.errors = http.errors BY <1>3 DEF HttpRecord
    <3>3. [k EXCEPT !.errors = @ + 1] = kb BY <3>2
    <3> QED BY <3>1, <3>3
  <2> HIDE DEF x, y, a, b
  <2> QED BY <1>8, <2>1, <2>2, <2>4, <2>5 DEF clientOnClose
<1> HIDE DEF x, k, ka, kb
<1>13. Web(x, y) /\ y.h = k /\ y.s = x.s BY <1>8, <1>9, <1>10, <1>11, HttpOnly
<1> HIDE DEF y
<1>14. Fit(y) BY <1>13 DEF Web
<1>15. /\ Web(y, a) /\ a.h = ka /\ a.s = y.s BY <1>10, <1>11, <1>13, <1>14, HttpOnly
<1>16. /\ Web(y, b) /\ b.h = kb /\ b.s = y.s BY <1>10, <1>11, <1>13, <1>14, HttpOnly
<1> HIDE DEF a, b
<1>17. /\ Web(y, c) /\ Reason(c.h) /\ Closes(c.h) /\ c.h.closed /\ ~c.h.more
       /\ c.h.out = http.out /\ (c.h.threw => c.h.phase = "dead")
  <2>1. http.threw => http.phase = "dead" BY <1>1 DEF Client, Told
  <2>2. CASE http.msg > 0
    <3>1. Fit(a) /\ Reason(a.h) /\ a.h.tellClose BY <1>11, <1>15 DEF Web
    <3>2. /\ Web(a, c) /\ Reason(c.h) /\ Keep(a.h, c.h) /\ c.h.eof
          /\ (c.h.endEmitted \/ c.h.buffered)
      BY <2>2, <3>1, OnEof
    <3> HIDE DEF c
    <3>3. Web(y, c) BY <1>15, <3>2, WebOn
    <3>4. c.h.msg > 0 BY <1>11, <1>15, <2>2, <3>2 DEF Keep
    <3>5. Closes(c.h) BY <1>3, <3>2, <3>4 DEF Closes
    <3> QED BY <1>11, <1>15, <2>1, <3>2, <3>3, <3>5 DEF Keep
  <2>3. CASE ~(http.msg > 0)
    <3>1. http.msg = 0 /\ n > 0 BY <1>3, <2>3 DEF HttpRecord
    <3>2. c = b BY <2>3
    <3> HIDE DEF c, n
    <3> QED BY <1>11, <1>16, <2>1, <3>1, <3>2 DEF Closes
  <2> QED BY <2>2, <2>3
<1> HIDE DEF c
<1>18. Fit(c) /\ IsClient(c) BY <1>9, <1>13, <1>17 DEF Web, IsClient
<1>19. Web(c, z) /\ Reason(z.h) /\ Keep(c.h, z.h) BY <1>17, <1>18, DropParser
<1> HIDE DEF z
<1>20. Web(y, z) /\ Web(x, z) /\ Web(Both, z) BY <1>8, <1>13, <1>17, <1>19, WebOn
<1>21. Client(z)
  <2>1. IsClient(z) /\ Calm(z.s) /\ z.s.handle = "closed"
    BY <1>1, <1>5, <1>7, <1>8, <1>9, <1>20 DEF Web, Follows, Calm, IsClient
  <2>2. Told(z.h) BY <1>17, <1>19 DEF Told, Closes, Keep
  <2>3. \A m \in 1..MaxMessages : z.h.out[m].attached BY <1>1, <1>17, <1>19 DEF Keep, Client
  <2>4. ~z.h.more BY <1>17, <1>19 DEF Keep
  <2> QED BY <2>1, <2>2, <2>3, <2>4 DEF Client
<1>22. ~z.s.reading BY <1>5, <1>8, <1>20 DEF Web, Follows
<1> QED BY <1>2, <1>12, <1>20, <1>21, <1>22, ClientEvents

\* The connection of a client is there, or has failed.
LEMMA ClientConnects ==
  ASSUME Base, ClientInv, OnConnect
  PROVE  Base' /\ ClientInv' /\ http'.role = http.role
<1> DEFINE s == [sock EXCEPT !.connectReq = "done"]
           t == [s EXCEPT !.connecting = FALSE]
<1>1. Fit(Both) /\ Client(Both) /\ Both.s = sock /\ Both.h = http BY BothFit DEF ClientInv
<1>2. PICK failed \in BOOLEAN :
        LET y == [Both EXCEPT !.s = afterConnect([@ EXCEPT !.connectReq = "done"], failed)]
        IN  WebEvent(IF failed /\ ~sock.destroyed THEN socketOnError(y) ELSE y)
  BY DEF OnConnect
<1>3. ~Calm(sock) BY DEF OnConnect, Calm
<1>4. /\ http.parser /\ ~http.more /\ http.msg = 0 /\ ~sock.ending /\ ~sock.reading
      /\ ~Waits("readStart") /\ ~Waits("lookupFailed") /\ sock.lookup # "pending"
  BY <1>1, <1>3 DEF ClientInv, Client, OnConnect
<1>5. sock.handle = "open" /\ ~sock.destroyed /\ sock.asked = {} /\ ~http.closed
  BY <1>1, <1>4 DEF Base, Sane, Client
<1>6. s \in SocketRecord BY DEF Base, Sane, SocketRecord, RequestStates
<1>7. t \in SocketRecord
  <2> HIDE DEF s
  <2> QED BY <1>6 DEF SocketRecord
<1>8. /\ Sane(t) /\ t.lookup = sock.lookup /\ t.connectReq = "done" /\ t.asked = {}
      /\ ~t.reading /\ ~t.ending /\ ~t.destroyed /\ t.handle = "open"
  BY <1>4, <1>5, <1>7 DEF Base, Sane, SocketRecord
<1> DEFINE v == IF failed THEN destroy(t) ELSE onSocketConnect(t)
           x == [Both EXCEPT !.s = v]
           y == IF failed THEN socketOnError(x) ELSE x
<1>9. WebEvent(y)
  <2>1. afterConnect(s, failed) = v BY <1>8 DEF afterConnect
  <2>2. [Both EXCEPT !.s = afterConnect([@ EXCEPT !.connectReq = "done"], failed)] = x
    BY <1>1, <2>1
  <2> QED BY <1>2, <1>5, <2>2
<1> HIDE DEF t
<1>10. /\ Sane(v) /\ ~v.reading /\ Calm(v) /\ v.lookup = sock.lookup
       /\ v.asked \subseteq {"finish", "readStart"} /\ (failed => v.asked \subseteq {"finish"})
  <2>1. CASE failed
    <3>1. Sane(v) /\ Follows(t, v) BY <1>8, <2>1, DestroySane
    <3> QED BY <1>4, <1>8, <2>1, <3>1 DEF Follows, Calm
  <2>2. CASE ~failed
    <3>1. /\ Sane(v) /\ (v.reading => t.reading) /\ v.lookup = t.lookup
          /\ v.connectReq = t.connectReq /\ v.asked \subseteq t.asked \cup {"finish", "readStart"}
      BY <1>8, <2>2, ConnectSane
    <3> QED BY <1>4, <1>8, <2>2, <3>1 DEF Calm
  <2> QED BY <2>1, <2>2
<1> HIDE DEF v
<1>11. x.s = v /\ x.h = http /\ Fit(x)
  <2>1. x.s = v /\ x.h = http BY <1>1 DEF Both
  <2>2. x \in [s : SocketRecord, h : HttpRecord] BY <1>1, <1>10 DEF Fit, Sane
  <2> QED BY <1>10, <2>1, <2>2 DEF Fit
<1> HIDE DEF x
<1>12. Client(x) BY <1>1, <1>5, <1>10, <1>11 DEF Client, IsClient
<1>13. /\ Fit(y) /\ Client(y) /\ ~y.s.reading /\ Calm(y.s) /\ y.s.lookup = sock.lookup
       /\ y.s.asked \subseteq {"finish", "readStart"} /\ (~failed => y.h = http)
       /\ (failed => y.s.asked \subseteq {"finish"})
  <2>1. CASE failed
    <3>1. Web(x, y) /\ Client(y) BY <1>10, <1>11, <1>12, <2>1, ClientDropped
    <3> HIDE DEF y
    <3> QED BY <1>10, <1>11, <2>1, <3>1 DEF Web, Follows, Calm
  <2>2. CASE ~failed BY <1>10, <1>11, <1>12, <2>2
  <2> QED BY <2>1, <2>2
<1> HIDE DEF y
<1>14. http' = y.h /\ Becomes(y.s) /\ EventStep(Queue(y.s)) BY <1>9 DEF WebEvent, Event
<1>15. /\ Sane(sock)' /\ sock'.asked = {} /\ TickSane' /\ Alike(y.s, sock')
       /\ \A tick \in TickNames : Waits(tick)' => Waits(tick) \/ tick \in y.s.asked
  BY <1>4, <1>13, <1>14, StepSane DEF Fit
<1>16. (Both.s)' = sock' /\ (Both.h)' = http' BY DEF Both
<1>17. http'.role = "client" /\ http.role = "client"
  BY <1>1, <1>13, <1>14 DEF Client, IsClient
<1>18. Client(Both)' BY <1>13, <1>14, <1>15, <1>16, <1>17 DEF Client, IsClient, Alike, Calm
<1>19. ~sock'.reading /\ Calm(sock') /\ sock'.lookup # "pending"
  BY <1>4, <1>13, <1>15 DEF Alike, Calm
<1>20. ~Waits("lookupFailed")' /\ (Waits("readStart")' => ~failed)
  BY <1>4, <1>13, <1>15 DEF TickNames
<1>21. Waits("readStart")' => Fed(http)' BY <1>4, <1>13, <1>14, <1>20 DEF Fed
<1>22. Base' BY <1>13, <1>14, <1>15 DEF Base, Fit
<1> QED BY <1>17, <1>18, <1>19, <1>20, <1>21, <1>22 DEF ClientInv, Calm

\* The answer of the lookup.
LEMMA ClientLooks ==
  ASSUME Base, ClientInv, LookupDone, UNCHANGED http
  PROVE  Base' /\ ClientInv' /\ http'.role = http.role
<1> DEFINE s == [sock EXCEPT !.lookup = "done"]
           r == resetSocketTimeout(s)
           f == [s EXCEPT !.asked = {"lookupFailed"}]
           c == [r EXCEPT !.connectReq = "pending"]
<1>1. Client(Both) /\ Both.s = sock /\ Both.h = http BY BothFit DEF ClientInv
<1>2. ~Calm(sock) /\ sock.lookup = "pending" BY DEF LookupDone, Calm
<1>3. /\ http.parser /\ ~http.more /\ http.msg = 0 /\ ~sock.ending /\ ~sock.reading
      /\ ~Waits("readStart") /\ ~Waits("lookupFailed") /\ sock.connectReq = "none"
  BY <1>1, <1>2 DEF ClientInv, Client
<1>4. sock.handle = "open" /\ sock.asked = {} BY <1>3 DEF Base, Sane
<1>5. s \in SocketRecord BY DEF Base, Sane, SocketRecord, RequestStates
<1>6. /\ Sane(s) /\ s.lookup = "done" /\ s.connectReq = "none" /\ s.asked = {}
      /\ ~s.reading /\ ~s.ending /\ s.handle = "open"
  BY <1>3, <1>4, <1>5 DEF Base, Sane, SocketRecord
<1>7. \E t \in {f, r, c} : Event(t)
  <2>1. r.handle = "open" BY <1>6, ResetSane
  <2> HIDE DEF s, r
  <2>2. tcpConnect(r, TRUE) = r /\ tcpConnect(r, FALSE) = c BY <2>1 DEF tcpConnect, native
  <2> QED BY <2>2 DEF LookupDone, s, r
<1> DEFINE Asked(t) == /\ Sane(t) /\ ~t.reading /\ ~t.ending /\ t.handle = "open"
                       /\ t.lookup = "done"
                       /\ \/ t.connectReq = "none" /\ t.asked \subseteq {"lookupFailed"}
                          \/ t.asked = {}
<1>8. Asked(f)
  <2> HIDE DEF s
  <2>1. f \in SocketRecord BY <1>5 DEF SocketRecord, TickNames
  <2> QED BY <1>5, <1>6, <2>1 DEF Sane, SocketRecord
<1>9. Asked(r) /\ r.asked = {}
  <2> HIDE DEF s
  <2>1. /\ Sane(r) /\ Follows(s, r) /\ r.ending = s.ending /\ r.reading = s.reading
        /\ r.handle = s.handle
    BY <1>6, ResetSane
  <2> HIDE DEF r
  <2>2. r.lookup = "done" /\ r.connectReq = "none" /\ r.asked \subseteq {"finish"}
    BY <1>6, <2>1 DEF Follows
  <2>3. r.asked = {} BY <1>6, <2>1, <2>2 DEF Sane
  <2> QED BY <1>6, <2>1, <2>2, <2>3
<1>10. Asked(c)
  <2>1. Asked(r) /\ r.asked = {} BY <1>9
  <2> HIDE DEF r
  <2>2. c \in SocketRecord BY <2>1 DEF Sane, SocketRecord, RequestStates
  <2>3. /\ c.reading = r.reading /\ c.ending = r.ending /\ c.handle = r.handle
        /\ c.lookup = r.lookup /\ c.asked = r.asked
    BY <2>1 DEF Sane, SocketRecord
  <2>4. Sane(c) BY <2>1, <2>2 DEF Sane, SocketRecord
  <2> QED BY <2>1, <2>3, <2>4
<1>11. PICK t : Asked(t) /\ Event(t) BY <1>7, <1>8, <1>9, <1>10
<1>12. /\ Sane(sock)' /\ sock'.asked = {} /\ TickSane' /\ Alike(t, sock')
       /\ \A tick \in TickNames : Waits(tick)' => Waits(tick) \/ tick \in t.asked
  BY <1>3, <1>11, StepSane DEF Event
<1>13. (Both.s)' = sock' /\ (Both.h)' = http' BY DEF Both
<1>14. ~http.closed BY <1>1, <1>4 DEF Client
<1>15. Client(Both)'
  BY <1>1, <1>3, <1>11, <1>12, <1>13, <1>14 DEF Client, IsClient, Alike
<1>16. ~Waits("readStart")' /\ (Waits("lookupFailed")' => sock'.connectReq = "none")
  BY <1>3, <1>11, <1>12 DEF TickNames, Alike
<1>17. ~sock'.reading /\ sock'.lookup = "done" BY <1>11, <1>12 DEF Alike
<1>18. Base' BY <1>12 DEF Base
<1> QED BY <1>15, <1>16, <1>17, <1>18 DEF ClientInv, Calm

\* The socket before the callback of a write is handled.
LEMMA Written ==
  ASSUME NEW s, Sane(s), s.writing
  PROVE  LET t == afterWrite(s)
         IN  Sane(t) /\ Follows(s, t) /\ t.ending = s.ending
<1> DEFINE n == s.out - 1
           k == IF s.tail = s.out THEN s.tail - 1 ELSE s.tail
           t == [s EXCEPT !.writing = FALSE, !.out = n, !.tail = k]
<1>1. /\ s \in SocketRecord /\ s.out \in Nat /\ s.out > 0 /\ s.tail \in Nat
  BY DEF Sane, SocketRecord
<1>2. n \in Nat /\ k \in Nat BY <1>1
<1>3. afterWrite(s) = t BY <1>1 DEF afterWrite, SocketRecord
<1> HIDE DEF n, k
<1>4. t \in SocketRecord BY <1>1, <1>2 DEF SocketRecord
<1>5. Sane(t) /\ Follows(s, t) /\ t.ending = s.ending
  BY <1>1, <1>4 DEF Sane, Follows, SocketRecord
<1> HIDE DEF t
<1> QED BY <1>3, <1>5 DEF t

\* The callbacks of a write and of a shutdown lead to a socket that follows.
LEMMA LoopFollows ==
  ASSUME Base, AfterWrite \/ AfterShutdown
  PROVE  \E t : /\ Sane(t) /\ Follows(sock, t) /\ Event(t)
                /\ AfterWrite /\ ~sock.ending => ~t.ending
                /\ AfterShutdown => sock.ending
<1>1. Sane(sock) BY DEF Base
<1>2. CASE AfterWrite
  <2> DEFINE t == afterWrite(sock)
             w == writeBuffered(t)
  <2>1. Event(w) /\ sock.writing BY <1>2 DEF AfterWrite, Underway
  <2>2. Sane(t) /\ Follows(sock, t) /\ t.ending = sock.ending BY <1>1, <2>1, Written
  <2> HIDE DEF t
  <2>3. Sane(w) /\ Follows(t, w) /\ (~t.ending => ~w.ending)
    BY <2>2, WriteBufferedSane, BufferedEnding
  <2>4. Follows(sock, w) BY <2>2, <2>3, FollowsOn
  <2>5. AfterShutdown => sock.ending BY <1>1 DEF AfterShutdown, Sane
  <2> QED BY <2>1, <2>2, <2>3, <2>4, <2>5
<1>3. CASE AfterShutdown /\ ~AfterWrite
  <2> DEFINE t == [sock EXCEPT !.shutdownReq = "done"]
  <2>1. Event(IF t.eof THEN destroy(t) ELSE t) /\ sock.ending
    BY <1>1, <1>3 DEF AfterShutdown, Sane
  <2>2. t \in SocketRecord BY <1>1 DEF Sane, SocketRecord, RequestStates
  <2>3. Sane(t) /\ Follows(sock, t) BY <1>1, <2>2 DEF Sane, Follows, SocketRecord
  <2> HIDE DEF t
  <2>4. Sane(destroy(t)) /\ Follows(sock, destroy(t)) BY <2>3, DestroySane, FollowsOn
  <2> QED BY <1>3, <2>1, <2>3, <2>4
<1> QED BY <1>2, <1>3

\* They are the same for a client and for a server.
LEMMA LoopWeb ==
  ASSUME Base, AfterWrite \/ AfterShutdown, UNCHANGED http
  PROVE  \E t : LET y == [Both EXCEPT !.s = t]
                IN  /\ Sane(t) /\ Follows(sock, t)
                    /\ AfterWrite /\ ~sock.ending => ~t.ending
                    /\ AfterShutdown => sock.ending
                    /\ Web(Both, y) /\ y.h = http /\ y.s = t /\ WebEvent(y)
<1>1. PICK t : /\ Sane(t) /\ Follows(sock, t) /\ Event(t)
               /\ AfterWrite /\ ~sock.ending => ~t.ending
               /\ AfterShutdown => sock.ending
  BY LoopFollows
<1> DEFINE y == [Both EXCEPT !.s = t]
<1>2. Fit(Both) /\ Both.s = sock /\ Both.h = http BY BothFit
<1>3. Web(Both, y) /\ y.h = http /\ y.s = t BY <1>1, <1>2, SocketOnly
<1>4. WebEvent(y) BY <1>1, <1>3 DEF WebEvent
<1> QED BY <1>1, <1>3, <1>4

\* The callbacks of a write and of a shutdown, for a client.
LEMMA ClientLoops ==
  ASSUME Base, ClientInv, AfterWrite \/ AfterShutdown, UNCHANGED http
  PROVE  Base' /\ ClientInv' /\ http'.role = http.role
<1>1. PICK t : LET y == [Both EXCEPT !.s = t]
               IN  /\ Sane(t) /\ Follows(sock, t)
                   /\ AfterWrite /\ ~sock.ending => ~t.ending
                   /\ AfterShutdown => sock.ending
                   /\ Web(Both, y) /\ y.h = http /\ y.s = t /\ WebEvent(y)
  BY LoopWeb
<1> DEFINE y == [Both EXCEPT !.s = t]
<1>2. Client(Both) /\ Both.s = sock /\ Both.h = http BY BothFit DEF ClientInv
<1>3. Web(Both, y) /\ y.h = http /\ WebEvent(y) BY <1>1
<1>4. ~Calm(sock) => ~t.ending BY <1>1, <1>2 DEF Client
<1>5. Client(y) BY <1>1, <1>2, <1>4, ClientFollows
<1> HIDE DEF y
<1> QED BY <1>3, <1>5, ClientEvents

\* The end of a frame or of the ticks, and callbacks that are not the socket's.
LEMMA NothingHappens ==
  ASSUME Base, RunTicks \/ TicksDone \/ EventStep(<<>>) \/ UNCHANGED tickVars,
         UNCHANGED <<sock, http>>
  PROVE  Base' /\ \A tick : Waits(tick)' = Waits(tick)
<1>1. /\ js \in {"frame", "ticks", "idle"}
      /\ queue \in Seq(TickNames) /\ batch \in Seq(TickNames)
      /\ js # "frame" => \A i \in 1..Len(queue) : queue[i] # "readStart"
      /\ js # "ticks" => batch = <<>>
      /\ Waits("finish") => sock.ending
  BY DEF Base, TickSane
<1>2. CASE RunTicks
  <2>1. batch = <<>> /\ batch' = queue /\ queue' = <<>> /\ js' = "ticks" BY <1>1, <1>2 DEF RunTicks
  <2>2. \A tick : Waits(tick)' = Waits(tick) BY <2>1 DEF Waits
  <2>3. TickSane' BY <1>1, <2>1, <2>2 DEF TickSane
  <2> QED BY <2>2, <2>3 DEF Base
<1>3. CASE TicksDone \/ EventStep(<<>>) \/ UNCHANGED tickVars
  <2>1. /\ queue' = queue /\ batch' = batch /\ js' \in {"frame", "ticks", "idle"}
        /\ (js' # "frame" => js # "frame") /\ (js' # "ticks" => batch = <<>>)
    BY <1>1, <1>3 DEF TicksDone, EventStep, tickVars
  <2>2. \A tick : Waits(tick)' = Waits(tick) BY <2>1 DEF Waits
  <2>3. TickSane' BY <1>1, <2>1, <2>2 DEF TickSane
  <2> QED BY <2>2, <2>3 DEF Base
<1> QED BY <1>2, <1>3

\* A tick of a client.
LEMMA ClientTicks ==
  ASSUME Base, ClientInv, WebTick
  PROVE  Base' /\ ClientInv' /\ http'.role = http.role
<1> DEFINE name == Head(batch)
<1>1. Fit(Both) /\ Client(Both) /\ Both.s = sock /\ Both.h = http BY BothFit DEF ClientInv
<1>2. name \in TickNames /\ Waits(name) /\ js = "ticks"
  <2>1. js = "ticks" /\ batch \in Seq(TickNames) /\ batch # <<>> BY DEF WebTick, Base, TickSane
  <2>2. name = batch[1] /\ 1 \in 1..Len(batch) /\ name \in TickNames BY <2>1
  <2> QED BY <2>1, <2>2 DEF Waits
<1>3. LET x == IF name = "lookupFailed" THEN socketOnError(Both) ELSE Both
          s == runTick(x.s, name)
      IN  http' = x.h /\ Becomes(s) /\ TickStep(Queue(s))
  BY DEF WebTick
<1> HIDE DEF name
<1>4. ASSUME NEW t, Sane(t), Follows(sock, t), ~Calm(sock) => ~t.ending,
             http' = http, Becomes(t), TickStep(Queue(t))
      PROVE  Base' /\ ClientInv' /\ http'.role = http.role
  <2> DEFINE y == [Both EXCEPT !.s = t]
  <2>1. Web(Both, y) /\ Client(y) /\ y.h = http /\ y.s = t BY <1>1, <1>4, ClientFollows
  <2> HIDE DEF y
  <2>2. Steps(y) BY <1>4, <2>1 DEF Steps
  <2> QED BY <2>1, <2>2, ClientSteps
<1>5. CASE name = "finish"
  <2> DEFINE t == emitFinish(sock)
  <2>1. http' = http /\ Becomes(t) /\ TickStep(Queue(t)) BY <1>1, <1>3, <1>5 DEF runTick
  <2>2. sock.ending BY <1>2, <1>5 DEF Base, TickSane
  <2>3. Sane(t) /\ Follows(sock, t) BY <1>1, <2>2, EmitFinishSane DEF Fit
  <2>4. Calm(sock) BY <1>1, <2>2 DEF Client
  <2> QED BY <1>4, <2>1, <2>3, <2>4
<1>6. CASE name = "readStart"
  <2> DEFINE t == tcpReadStart(sock)
             v == [sock EXCEPT !.reading = TRUE]
             u == [sock EXCEPT !.misused = TRUE]
  <2>1. http' = http /\ Becomes(t) /\ TickStep(Queue(t)) BY <1>1, <1>3, <1>6 DEF runTick
  <2>2. Calm(sock) BY <1>2, <1>6 DEF ClientInv
  <2>3. CASE sock.handle = "open"
    <3>1. t = v BY <2>3 DEF tcpReadStart, native
    <3>2. v \in SocketRecord BY DEF Base, Sane, SocketRecord
    <3>3. /\ Sane(v) /\ v.lookup = sock.lookup /\ v.connectReq = sock.connectReq
          /\ v.handle = sock.handle /\ v.ending = sock.ending /\ v.asked = {}
      BY <2>3, <3>2 DEF Base, Sane, SocketRecord
    <3> HIDE DEF v, t
    <3>4. /\ Sane(sock)' /\ sock'.asked = {} /\ TickSane' /\ Alike(v, sock')
          /\ \A tick \in TickNames : Waits(tick)' => Waits(tick) \/ tick \in v.asked
      BY <2>1, <3>1, <3>3, StepSane
    <3>5. (Both.s)' = sock' /\ (Both.h)' = http' BY DEF Both
    <3>6. Client(Both)' BY <1>1, <2>1, <2>2, <3>3, <3>4, <3>5 DEF Client, IsClient, Alike, Calm
    <3>7. Fed(http) /\ ~Waits("lookupFailed") BY <1>2, <1>6, <2>3 DEF ClientInv
    <3>8. ~Waits("lookupFailed")' /\ Calm(sock)'
      BY <2>2, <3>3, <3>4, <3>7 DEF TickNames, Alike, Calm
    <3>9. Base' BY <2>1, <3>4 DEF Base
    <3> QED BY <2>1, <3>6, <3>7, <3>8, <3>9 DEF ClientInv, Calm, Fed
  <2>4. CASE sock.handle # "open"
    <3>1. t = sock \/ t = u BY <2>4 DEF tcpReadStart, native, Base, Sane
    <3>2. u \in SocketRecord BY DEF Base, Sane, SocketRecord
    <3>3. Sane(u) /\ Follows(sock, u) BY <3>2 DEF Base, Sane, Follows, SocketRecord
    <3> HIDE DEF t, u
    <3>4. Sane(t) /\ Follows(sock, t) BY <3>1, <3>3, FollowsNothing DEF Base
    <3> QED BY <1>4, <2>1, <2>2, <3>4
  <2> QED BY <2>3, <2>4
<1>7. CASE name = "lookupFailed"
  <2> DEFINE x == socketOnError(Both)
             t == [x.s EXCEPT !.threw = TRUE]
             y == [x EXCEPT !.s = t]
  <2>1. http' = x.h /\ Becomes(t) /\ TickStep(Queue(t)) BY <1>3, <1>7 DEF runTick
  <2>2. Calm(sock) /\ ~Waits("readStart") /\ ~sock.reading BY <1>2, <1>7 DEF ClientInv
  <2>3. Web(Both, x) /\ Client(x) BY <1>1, <2>2, ClientDropped
  <2> HIDE DEF x
  <2>4. Fit(x) /\ x.s \in SocketRecord /\ Sane(x.s) BY <2>3 DEF Web, Fit
  <2>5. t \in SocketRecord BY <2>4 DEF SocketRecord
  <2>6. Sane(t) /\ Follows(x.s, t) /\ t.handle = x.s.handle
    BY <2>4, <2>5 DEF Sane, Follows, SocketRecord
  <2> HIDE DEF t
  <2>7. Web(x, y) /\ y.h = x.h /\ y.s = t BY <2>4, <2>6, SocketOnly
  <2> HIDE DEF y
  <2>8. Web(Both, y) BY <2>3, <2>7, WebOn
  <2>9. Calm(y.s) /\ ~y.s.reading BY <1>1, <2>2, <2>8 DEF Web, Follows, Calm
  <2>10. Client(y) BY <2>3, <2>6, <2>7, <2>9 DEF Client, IsClient
  <2>11. Steps(y) BY <2>1, <2>7 DEF Steps
  <2> QED BY <2>2, <2>8, <2>9, <2>10, <2>11, ClientSteps
<1> QED BY <1>2, <1>5, <1>6, <1>7 DEF TickNames

-----------------------------------------------------------------------------
(* A server.                                                               *)

\* A response that was ended was sent with its header; one that may still be
\* written to has its socket.
Answers(h) == \A m \in 1..MaxMessages :
  /\ h.out[m].finished => h.out[m].sentHeader
  /\ m <= h.msg /\ ~h.out[m].finished => h.out[m].attached

\* A server's connection whose user has not written too late.
Serving(x) == /\ Good(x.s) /\ x.s.connected /\ x.s.lookup = "none"
              /\ Answers(x.h) /\ ~x.h.threw

\* A handler leads from one to the next.
Serves(x, y) == Web(x, y) /\ (Serving(x) /\ ~y.h.late => Serving(y) /\ Leads(x.s, y.s))

\* What holds until the user writes too late.
ServerInv ==
  /\ SocketInv
  /\ sock.connected
  /\ sock.reading \/ Waits("readStart") => http.parser
  /\ ~http.threw
  /\ Answers(http)

\* A server, whose user may have written too late.
ServerSide ==
  /\ http.role = "server"
  /\ sock.lookup = "none" /\ sock.connectReq = "none" /\ ~Waits("lookupFailed")
  /\ ~http.late => ServerInv

\* Handlers follow each other.
LEMMA ServesOn ==
  ASSUME NEW x, NEW y, NEW z, Serves(x, y), Serves(y, z)
  PROVE  Serves(x, z)
<1>1. Web(x, z) BY WebOn DEF Serves
<1> QED BY <1>1, LeadsOn DEF Serves, Web

\* A handler that does nothing.
LEMMA ServesNothing == ASSUME NEW x, Fit(x) PROVE Serves(x, x)
BY WebNothing, LeadsNowhere DEF Serves

\* A step of a server: if the parser is given up, nothing is read any more.
LEMMA ServerGoes ==
  ASSUME Base, ServerSide, NEW y, Web(Both, y), Steps(y),
         ~y.h.late => /\ SocketInv' /\ y.s.connected /\ Answers(y.h) /\ ~y.h.threw
                      /\ http.parser => y.h.parser \/ (~y.s.reading /\ ~Waits("readStart"))
  PROVE  Base' /\ ServerSide'
<1>1. Both.s = sock /\ Both.h = http BY BothFit
<1>2. Then(y) /\ y.s.asked \subseteq {"finish"} BY WebSteps
<1>3. Base' /\ http' = y.h /\ Alike(y.s, sock') BY <1>2 DEF Then
<1>4. http'.role = "server" BY <1>1, <1>3 DEF Web, ServerSide
<1>5. /\ Waits("readStart")' => Waits("readStart")
      /\ Waits("lookupFailed")' => Waits("lookupFailed")
  BY <1>2 DEF Then, TickNames
<1>6. /\ sock'.reading => sock.reading
      /\ sock'.lookup = sock.lookup /\ sock'.connectReq = sock.connectReq
  BY <1>1, <1>3 DEF Web, Follows, Alike
<1>7. ASSUME ~http'.late PROVE ServerInv'
  <2>1. ~y.h.late /\ ~http.late BY <1>1, <1>3, <1>7 DEF Web
  <2>2. ServerInv BY <2>1 DEF ServerSide
  <2>3. sock'.connected /\ Answers(http)' /\ ~http'.threw BY <1>3, <2>1 DEF Alike, Answers
  <2>4. sock'.reading \/ Waits("readStart")' => http'.parser
    BY <1>3, <1>5, <1>6, <2>1, <2>2 DEF ServerInv, Alike
  <2> QED BY <2>1, <2>3, <2>4 DEF ServerInv
<1> QED BY <1>3, <1>4, <1>5, <1>6, <1>7 DEF ServerSide

\* A server whose user has not written too late.
LEMMA ServingNow ==
  ASSUME Base, ServerSide, ~http.late
  PROVE  ServerInv /\ SocketInv /\ Serving(Both)
<1>1. Both.s = sock /\ Both.h = http BY BothFit
<1>2. ServerInv BY DEF ServerSide
<1> QED BY <1>1, <1>2 DEF ServerSide, ServerInv, SocketInv, Serving

\* A step of a server that a call or a callback of the loop takes.
LEMMA ServerSteps ==
  ASSUME Base, ServerSide, NEW y, Serves(Both, y), UserCall(y) \/ WebEvent(y),
         http.parser /\ ~y.h.late => y.h.parser \/ (~y.s.reading /\ ~Waits("readStart"))
  PROVE  Base' /\ ServerSide'
<1>1. Both.s = sock /\ Both.h = http BY BothFit
<1>2. Web(Both, y) /\ Steps(y) BY DEF Serves, UserCall, WebEvent, Call, Event, Steps
<1>3. ASSUME ~y.h.late PROVE SocketInv' /\ y.s.connected /\ Answers(y.h) /\ ~y.h.threw
  <2>1. ~http.late BY <1>1, <1>2, <1>3 DEF Web
  <2>2. ServerInv /\ SocketInv /\ Serving(Both) BY <2>1, ServingNow
  <2>3. Serving(y) /\ Leads(sock, y.s) BY <1>1, <1>3, <2>2 DEF Serves
  <2>4. SocketInv'
    <3>1. CASE UserCall(y) BY <2>2, <2>3, <3>1, CallKeeps DEF UserCall, Serving
    <3>2. CASE WebEvent(y) BY <2>2, <2>3, <3>2, EventLeads DEF WebEvent, Serving, Leads
    <3> QED BY <3>1, <3>2
  <2> QED BY <2>3, <2>4 DEF Serving
<1> QED BY <1>2, <1>3, ServerGoes

\* A handler that throws, which no handler of a good server does.
LEMMA ServerThrows ==
  ASSUME NEW x, Fit(x)
  PROVE  LET y == Throw(x)
         IN  /\ Web(x, y) /\ y.h.threw /\ y.h.parser = x.h.parser /\ y.h.msg = x.h.msg
             /\ y.h.late = x.h.late /\ y.h.out = x.h.out
<1> DEFINE k == [x.h EXCEPT !.threw = TRUE]
           y == [x EXCEPT !.h = k]
<1>1. Throw(x) = y BY DEF Throw
<1>2. x.h \in HttpRecord BY DEF Fit
<1>3. k \in HttpRecord BY <1>2 DEF HttpRecord
<1>4. /\ k.role = x.h.role /\ k.late = x.h.late /\ k.out = x.h.out /\ k.threw
      /\ k.parser = x.h.parser /\ k.msg = x.h.msg
  BY <1>2 DEF HttpRecord
<1> HIDE DEF k
<1>5. Web(x, y) /\ y.h = k BY <1>3, <1>4, HttpOnly
<1> HIDE DEF y
<1> QED BY <1>1, <1>4, <1>5

\* destroy() in a handler of a server.
LEMMA ServerDestroys ==
  ASSUME NEW x, Fit(x)
  PROVE  LET y == [x EXCEPT !.s = destroy(@)]
         IN  Serves(x, y) /\ y.h = x.h
<1> DEFINE y == [x EXCEPT !.s = destroy(@)]
<1>1. Web(x, y) /\ y.h = x.h /\ y.s = destroy(x.s) BY WebDestroys
<1> HIDE DEF y
<1>2. ASSUME Serving(x) PROVE Serving(y) /\ Leads(x.s, y.s)
  <2>1. Good(x.s) /\ Ready(x.s) BY <1>2 DEF Serving, Ready, Fit, Sane
  <2>2. Good(y.s) /\ Leads(x.s, y.s) BY <1>1, <2>1, DestroyGood DEF Good
  <2> QED BY <1>1, <1>2, <2>2 DEF Serving, Web, Follows, Leads, Later
<1> QED BY <1>1, <1>2 DEF Serves, y

\* _send of a server's response, which may still be written to.
LEMMA ServerSends ==
  ASSUME NEW x, Fit(x), ~IsClient(x), NEW m \in 1..MaxMessages,
         m <= x.h.msg, ~x.h.out[m].finished
  PROVE  LET y == send(x, m)
         IN  /\ Serves(x, y) /\ y.h.msg = x.h.msg /\ y.h.parser = x.h.parser
             /\ ~y.h.out[m].finished
             /\ Serving(x) /\ ~y.h.late => y.h.out[m].sentHeader
<1> DEFINE y == [x EXCEPT !.h.out[m].sentHeader = TRUE, !.h.late = @ \/ x.s.ending]
<1>1. send(x, m) = IF ~x.h.out[m].attached THEN Throw(x)
                   ELSE IF x.s.ended THEN socketOnError(y) ELSE [y EXCEPT !.s = write(@)]
  BY DEF send
<1>2. /\ Web(x, y) /\ y.s = x.s /\ Beside(x.h, y.h) /\ y.h.late = (x.h.late \/ x.s.ending)
      /\ y.h.out[m].sentHeader /\ y.h.out[m].attached = x.h.out[m].attached
      /\ y.h.out[m].finished = x.h.out[m].finished
      /\ \A n \in 1..MaxMessages : n # m => y.h.out[n] = x.h.out[n]
  BY HeaderSent
<1> HIDE DEF y
<1>3. Fit(y) /\ ~IsClient(y) BY <1>2 DEF Web, IsClient
<1>4. CASE ~x.h.out[m].attached
  <2> DEFINE z == Throw(x)
  <2>1. send(x, m) = z BY <1>1, <1>4
  <2>2. /\ Web(x, z) /\ z.h.parser = x.h.parser /\ z.h.msg = x.h.msg /\ z.h.out = x.h.out
    BY ServerThrows
  <2>3. ~Serving(x) BY <1>4 DEF Serving, Answers
  <2> QED BY <2>1, <2>2, <2>3 DEF Serves
<1>5. CASE x.h.out[m].attached /\ x.s.ended
  <2> DEFINE z == socketOnError(y)
  <2>1. send(x, m) = z BY <1>1, <1>5
  <2>2. z = Throw(y) \/ z = [y EXCEPT !.s = destroy(@)] BY <1>3 DEF socketOnError
  <2>3. y.h.late BY <1>2, <1>5 DEF Fit, Sane
  <2>4. /\ Web(y, z) /\ z.h.parser = y.h.parser /\ z.h.msg = y.h.msg /\ z.h.out = y.h.out
        /\ z.h.late
    BY <1>3, <2>2, <2>3, ServerThrows, WebDestroys
  <2> HIDE DEF z
  <2>5. Web(x, z) BY <1>2, <2>4, WebOn
  <2> QED BY <1>2, <2>1, <2>4, <2>5 DEF Serves, Beside
<1>6. CASE x.h.out[m].attached /\ ~x.s.ended
  <2> DEFINE t == write(y.s)
             z == [y EXCEPT !.s = t]
  <2>1. send(x, m) = z BY <1>1, <1>3, <1>6 DEF Fit
  <2>2. Sane(t) /\ Follows(y.s, t) BY <1>3, WriteSane DEF Fit
  <2>3. Web(y, z) /\ z.h = y.h /\ z.s = t BY <1>3, <2>2, SocketOnly
  <2>4. Web(x, z) BY <1>2, <2>3, WebOn
  <2>5. ASSUME Serving(x), ~y.h.late PROVE Serving(z) /\ Leads(x.s, z.s)
    <3>1. ~x.s.ending BY <1>2, <2>5
    <3>2. Good(t) /\ Leads(x.s, t) BY <1>2, <2>5, <3>1, <1>6, WriteGood DEF Serving
    <3>3. t.lookup = "none" /\ t.connected
      BY <1>2, <2>2, <2>5, <3>2 DEF Serving, Follows, Leads, Later
    <3>4. Answers(y.h) BY <1>2, <2>5 DEF Serving, Answers, Beside
    <3> HIDE DEF t
    <3> QED BY <1>2, <2>3, <2>5, <3>2, <3>3, <3>4 DEF Serving, Beside
  <2> HIDE DEF z
  <2> QED BY <1>2, <2>1, <2>3, <2>4, <2>5 DEF Serves, Beside
<1> QED BY <1>4, <1>5, <1>6

\* OutgoingMessage.end of a server's response, the last chunk of which is sent
\* before the socket is given up.
LEMMA ServerResponds ==
  ASSUME NEW x, Fit(x), ~IsClient(x), NEW m \in 1..MaxMessages, NEW data \in BOOLEAN,
         m <= x.h.msg, ~x.h.out[m].finished
  PROVE  LET y == outgoingEnd(x, m, data)
         IN  Serves(x, y) /\ y.h.parser = x.h.parser
<1> DEFINE y == IF data THEN send(x, m) ELSE x
           z == IF y.h.threw THEN y ELSE send(y, m)
           f == [z EXCEPT !.h.out[m].finished = TRUE]
           g == resOnFinish(f, m)
<1>1. outgoingEnd(x, m, data) = IF z.h.threw THEN z ELSE g BY DEF outgoingEnd
<1>2. Serves(x, y) /\ y.h.msg = x.h.msg /\ y.h.parser = x.h.parser /\ ~y.h.out[m].finished
  BY ServerSends, ServesNothing
<1> HIDE DEF y
<1>3. Fit(y) /\ ~IsClient(y) /\ m <= y.h.msg BY <1>2 DEF Serves, Web, IsClient
<1>4. /\ Serves(y, z) /\ z.h.parser = y.h.parser
      /\ Serving(y) /\ ~z.h.late => z.h.out[m].sentHeader
  <2>1. CASE y.h.threw BY <1>3, <2>1, ServesNothing DEF Serving
  <2>2. CASE ~y.h.threw BY <1>2, <1>3, <2>2, ServerSends
  <2> QED BY <2>1, <2>2
<1> HIDE DEF z
<1>5. Fit(z) /\ Serves(x, z) BY <1>2, <1>4, ServesOn DEF Serves, Web
<1>6. /\ Web(z, f) /\ f.s = z.s /\ Beside(z.h, f.h) /\ f.h.late = z.h.late
      /\ f.h.out[m].sentHeader = z.h.out[m].sentHeader /\ f.h.out[m].finished
      /\ \A n \in 1..MaxMessages : n # m => f.h.out[n] = z.h.out[n]
  BY <1>5, MessageEnded
<1> HIDE DEF f
<1>7. /\ Web(f, g) /\ g.s = destroySoon(f.s) /\ Beside(f.h, g.h) /\ g.h.late = f.h.late
      /\ g.h.out[m].sentHeader = f.h.out[m].sentHeader
      /\ g.h.out[m].finished = f.h.out[m].finished
      /\ \A n \in 1..MaxMessages : n # m => g.h.out[n] = f.h.out[n]
  BY <1>6, ResponseFinished DEF Web
<1> HIDE DEF g
<1>8. Web(x, g) /\ g.h.parser = x.h.parser
  <2>1. Web(z, g) BY <1>6, <1>7, WebOn
  <2> QED BY <1>2, <1>4, <1>5, <1>6, <1>7, <2>1, WebOn DEF Serves, Beside
<1>9. ASSUME Serving(x), ~g.h.late PROVE Serving(g) /\ Leads(x.s, g.s)
  <2>1. ~z.h.late /\ ~y.h.late BY <1>4, <1>6, <1>7, <1>9 DEF Serves, Web
  <2>2. Serving(y) /\ Serving(z) /\ Leads(x.s, z.s) /\ z.h.out[m].sentHeader
    BY <1>2, <1>4, <1>5, <1>9, <2>1 DEF Serves
  <2>3. Good(z.s) /\ Ready(z.s) BY <1>5, <2>2 DEF Serving, Ready, Fit, Sane
  <2>4. Good(g.s) /\ Leads(z.s, g.s) BY <1>6, <1>7, <2>3, DestroySoonGood
  <2>5. g.s.lookup = "none" /\ g.s.connected
    BY <1>6, <1>7, <2>2, <2>4 DEF Serving, Web, Follows, Leads, Later
  <2>6. Answers(g.h)
    <3>1. g.h.msg = z.h.msg BY <1>6, <1>7 DEF Beside
    <3>2. g.h.out[m].finished /\ g.h.out[m].sentHeader BY <1>6, <1>7, <2>2
    <3>3. \A n \in 1..MaxMessages : n # m => g.h.out[n] = z.h.out[n] BY <1>6, <1>7
    <3>4. Answers(z.h) BY <2>2 DEF Serving
    <3> QED BY <3>1, <3>2, <3>3, <3>4 DEF Answers
  <2>7. ~g.h.threw BY <1>6, <1>7, <2>2 DEF Serving, Beside
  <2> QED BY <2>2, <2>4, <2>5, <2>6, <2>7, LeadsOn DEF Serving
<1> QED BY <1>1, <1>2, <1>4, <1>5, <1>8, <1>9 DEF Serves

\* The user of a server answers.
LEMMA ServerWrites ==
  ASSUME Base, ServerSide, WebUser
  PROVE  Base' /\ ServerSide'
<1>1. Fit(Both) /\ Both.s = sock /\ Both.h = http BY BothFit
<1>2. ~IsClient(Both) BY <1>1 DEF ServerSide, IsClient
<1>3. PICK m \in 1..MaxMessages : OutgoingWrite(m) \/ OutgoingEnd(m) BY DEF WebUser
<1>4. m <= http.msg /\ ~http.out[m].finished
  BY <1>2, <1>3 DEF OutgoingWrite, OutgoingEnd, Open
<1>5. CASE OutgoingWrite(m)
  <2> DEFINE y == send(Both, m)
  <2>1. UserCall(y) BY <1>5 DEF OutgoingWrite
  <2>2. Serves(Both, y) /\ y.h.parser = http.parser BY <1>1, <1>2, <1>4, ServerSends
  <2> HIDE DEF y
  <2> QED BY <2>1, <2>2, ServerSteps
<1>6. CASE OutgoingEnd(m)
  <2>1. PICK data \in BOOLEAN : UserCall(outgoingEnd(Both, m, data)) BY <1>6 DEF OutgoingEnd
  <2> DEFINE y == outgoingEnd(Both, m, data)
  <2>2. Serves(Both, y) /\ y.h.parser = http.parser BY <1>1, <1>2, <1>4, ServerResponds
  <2> HIDE DEF y
  <2> QED BY <2>1, <2>2, ServerSteps DEF y
<1> QED BY <1>3, <1>5, <1>6

\* A handler serves if it keeps the answers and leads from a good connection to a
\* good one.
LEMMA ServesIf ==
  ASSUME NEW x, NEW y, Web(x, y), y.h.threw = x.h.threw, Answers(x.h) => Answers(y.h),
         Good(x.s) /\ x.s.connected /\ x.s.lookup = "none" => Good(y.s) /\ Leads(x.s, y.s)
  PROVE  Serves(x, y)
BY DEF Serves, Serving, Web, Follows, Leads, Later

\* A handler that leaves the socket alone.
LEMMA ServesHttp ==
  ASSUME NEW x, NEW y, Web(x, y), y.s = x.s, y.h.threw = x.h.threw,
         Answers(x.h) => Answers(y.h)
  PROVE  Serves(x, y)
BY ServesIf, LeadsNowhere

\* A callback of the parser of a server.
LEMMA ServerParses ==
  ASSUME NEW x, Fit(x), ~IsClient(x),
         NEW callback, MayCall(x.h, callback), NEW y \in OnCallback(x, callback)
  PROVE  Serves(x, y) /\ y.h.parser = x.h.parser
<1>1. x.h \in HttpRecord BY DEF Fit
<1>2. CASE callback = "head"
  <2> DEFINE k == [x.h EXCEPT !.phase = "head"]
             w == [x EXCEPT !.h = k]
  <2>1. y = w BY <1>2 DEF OnCallback
  <2>2. k \in HttpRecord BY <1>1 DEF HttpRecord
  <2>3. /\ k.role = x.h.role /\ k.late = x.h.late /\ k.out = x.h.out /\ k.msg = x.h.msg
        /\ k.threw = x.h.threw /\ k.parser = x.h.parser
    BY <1>1 DEF HttpRecord
  <2> HIDE DEF k
  <2>4. Web(x, w) /\ w.h = k /\ w.s = x.s BY <2>2, <2>3, HttpOnly
  <2> HIDE DEF w
  <2>5. Answers(x.h) => Answers(w.h) BY <2>3, <2>4 DEF Answers
  <2> QED BY <2>1, <2>3, <2>4, <2>5, ServesHttp
<1>3. CASE callback = "headers"
  <2>1. PICK u \in {FALSE, IsClient(x)} : y = parserOnIncoming(HeadersComplete(x, u))
    BY <1>3 DEF OnCallback, HeadersComplete
  <2> DEFINE v == HeadersComplete(x, u)
             m == v.h.msg
             r == Outgoing(TRUE)
             k == [v.h EXCEPT !.out = [v.h.out EXCEPT ![m] = r]]
             w == [v EXCEPT !.h = k]
  <2>2. u \in BOOLEAN BY DEF IsClient
  <2>3. /\ Web(x, v) /\ v.s = x.s /\ v.h.msg = x.h.msg + 1 /\ v.h.out = x.h.out
        /\ v.h.threw = x.h.threw /\ v.h.parser = x.h.parser
    BY <2>2, HeadersFit
  <2> HIDE DEF v
  <2>4. ~IsClient(v) /\ Fit(v) /\ v.h \in HttpRecord BY <2>3 DEF Web, IsClient, Fit
  <2>5. y = w
    <3>1. [v EXCEPT !.h.out[m] = Outgoing(TRUE)] = w BY <2>4 DEF Fit
    <3> QED BY <2>1, <2>4, <3>1 DEF parserOnIncoming, v
  <2>6. m \in 1..MaxMessages /\ x.h.msg \in Nat
    <3>1. x.h.msg \in Nat /\ x.h.msg < MaxMessages BY <1>1, <1>3 DEF MayCall, HttpRecord
    <3> QED BY <2>3, <3>1, HttpAssumption
  <2>7. r \in OutgoingRecord /\ r.attached /\ ~r.finished BY DEF Outgoing, OutgoingRecord
  <2> HIDE DEF m, r
  <2>8. /\ k \in HttpRecord /\ Beside(v.h, k) /\ k.late = v.h.late /\ k.out[m] = r
        /\ \A n \in 1..MaxMessages : n # m => k.out[n] = v.h.out[n]
    BY <2>4, <2>6, <2>7, OutOnly
  <2> HIDE DEF k
  <2>9. Web(v, w) /\ w.s = v.s /\ w.h = k BY <2>4, <2>8, HttpOnly DEF Beside
  <2> HIDE DEF w
  <2>10. Web(x, w) BY <2>3, <2>9, WebOn
  <2>11. ASSUME Answers(x.h) PROVE Answers(k)
    <3>1. k.msg = m /\ m = x.h.msg + 1 BY <2>3, <2>8 DEF Beside, m
    <3>2. \A n \in 1..MaxMessages : n # m => k.out[n] = x.h.out[n] BY <2>3, <2>8
    <3>3. \A n \in 1..MaxMessages : n # m /\ n <= k.msg => n <= x.h.msg BY <2>6, <3>1
    <3> QED BY <2>7, <2>8, <2>11, <3>2, <3>3 DEF Answers
  <2> QED BY <2>3, <2>5, <2>8, <2>9, <2>10, <2>11, ServesHttp DEF Beside
<1>4. CASE callback = "body"
  <2>1. y = x BY <1>4 DEF OnCallback, parserOnBody, AtResponse
  <2> QED BY <2>1, ServesNothing
<1>5. CASE callback = "complete"
  <2>1. x.h.phase = "body" /\ y = parserOnMessageComplete(x)
    BY <1>5 DEF OnCallback, MayCall
  <2>2. Web(x, y) /\ Keep(x.h, y.h) /\ y.h.parser = x.h.parser /\ y.s = x.s
    BY <2>1, MessageComplete
  <2>3. Answers(x.h) => Answers(y.h) BY <2>2 DEF Answers, Keep
  <2> QED BY <2>2, <2>3, ServesHttp DEF Keep
<1>6. CASE callback = "error"
  <2>1. y = parseError(x) BY <1>6 DEF OnCallback
  <2>2. /\ Web(x, y) /\ y.s = destroy(x.s) /\ y.h.parser = (x.h.parser /\ ~IsClient(x))
        /\ y.h.out = x.h.out /\ y.h.threw = x.h.threw /\ y.h.msg = x.h.msg
    BY <2>1, ParseFails
  <2>3. y.h.parser = x.h.parser BY <1>1, <2>2 DEF HttpRecord
  <2>4. Answers(x.h) => Answers(y.h) BY <2>2 DEF Answers
  <2>5. ASSUME Good(x.s), x.s.lookup = "none" PROVE Good(y.s) /\ Leads(x.s, y.s)
    <3>1. Ready(x.s) BY <2>5 DEF Ready, Fit, Sane
    <3> QED BY <2>2, <2>5, <3>1, DestroyGood DEF Good
  <2> QED BY <2>2, <2>3, <2>4, <2>5, ServesIf
<1> QED BY <1>2, <1>3, <1>4, <1>5, <1>6 DEF MayCall

\* Data for a server; as long as the parser is read for, it is there.
LEMMA ServerData ==
  ASSUME Base, ServerSide, OnData
  PROVE  Base' /\ ServerSide'
<1> DEFINE x == DataArrives
<1>1. Fit(Both) /\ Both.s = sock /\ Both.h = http BY BothFit
<1>2. /\ http.more \/ sock.reading
      /\ \/ ~http.parser /\ ~http.more /\ WebEvent(Throw(x))
         \/ \E callback \in Callbacks, more \in BOOLEAN : \E y \in OnCallback(x, callback) :
              WebEvent([y EXCEPT !.h.more = more,
                                 !.s.received = IF http.more THEN @ + 1 ELSE @])
  BY DEF OnData, DataArrives
<1>3. /\ Web(Both, x) /\ x.h = [http EXCEPT !.more = FALSE]
      /\ Leads(sock, x.s) /\ (Good(sock) => Good(x.s))
  BY DataFit
<1> HIDE DEF x
<1>4. http \in HttpRecord BY DEF Base
<1>5. /\ x.h.msg = http.msg /\ x.h.out = http.out /\ x.h.phase = http.phase
      /\ x.h.threw = http.threw /\ x.h.parser = http.parser /\ x.h.role = http.role
  BY <1>3, <1>4 DEF HttpRecord
<1>6. Fit(x) /\ ~IsClient(x) BY <1>3, <1>5 DEF Web, IsClient, ServerSide
<1>7. Serves(Both, x)
  <2>1. Answers(http) => Answers(x.h) BY <1>5 DEF Answers
  <2> QED BY <1>1, <1>3, <1>5, <2>1, ServesIf
<1>8. CASE ~http.parser /\ ~http.more /\ WebEvent(Throw(x))
  <2> DEFINE y == Throw(x)
  <2>1. Web(x, y) BY <1>6, ServerThrows
  <2> HIDE DEF y
  <2>2. Web(Both, y) BY <1>3, <2>1, WebOn
  <2>3. http.late
    <3>1. ~http.late => ServerInv BY DEF ServerSide
    <3> QED BY <1>2, <1>8, <3>1 DEF ServerInv
  <2>4. y.h.late BY <1>1, <2>2, <2>3 DEF Web
  <2> QED BY <1>8, <2>2, <2>4, ServerSteps DEF Serves, y
<1>9. ASSUME NEW callback \in Callbacks, NEW more \in BOOLEAN, NEW y \in OnCallback(x, callback),
             WebEvent([y EXCEPT !.h.more = more,
                                !.s.received = IF http.more THEN @ + 1 ELSE @])
      PROVE  Base' /\ ServerSide'
  <2> DEFINE z == [y EXCEPT !.h.more = more, !.s.received = IF http.more THEN @ + 1 ELSE @]
  <2>1. MayCall(x.h, callback) BY <1>5, CallbacksMay DEF MayCall
  <2>2. Serves(x, y) /\ y.h.parser = x.h.parser BY <1>6, <2>1, ServerParses
  <2>3. Fit(y) /\ y.h \in HttpRecord /\ http.more \in BOOLEAN
    BY <1>4, <2>2 DEF Serves, Web, Fit, HttpRecord
  <2>4. /\ Web(y, z) /\ z.h = [y.h EXCEPT !.more = more]
        /\ Leads(y.s, z.s) /\ (Good(y.s) => Good(z.s))
    BY <2>3, RestOfChunk
  <2> HIDE DEF z
  <2>5. z.h.out = y.h.out /\ z.h.threw = y.h.threw /\ z.h.msg = y.h.msg /\ z.h.parser = y.h.parser
    BY <2>3, <2>4 DEF HttpRecord
  <2>6. Answers(y.h) => Answers(z.h) BY <2>5 DEF Answers
  <2>7. Serves(y, z) BY <2>4, <2>5, <2>6, ServesIf
  <2>8. Serves(Both, z) BY <1>7, <2>2, <2>7, ServesOn
  <2> QED BY <1>5, <1>9, <2>2, <2>5, <2>8, ServerSteps DEF z
<1> QED BY <1>2, <1>8, <1>9

\* Socket.end of a connection.
LEMMA ConnectedEnds ==
  ASSUME NEW s, Good(s), s.connected, s.lookup = "none", s.handle # "none"
  PROVE  Good(end(s)) /\ Leads(s, end(s))
<1>1. Ready(s) BY DEF Ready
<1>2. Core(end(s)) /\ LookInv(end(s)) /\ Leads(s, end(s)) BY <1>1, EndGood DEF Good
<1>3. s \in SocketRecord BY DEF Good, Core
<1>4. HalfInv(end(s)) BY <1>3 DEF Good, HalfInv, end, SocketRecord
<1> QED BY <1>2, <1>4 DEF Good

\* The listener of a server for the end of the input.
LEMMA ServerOnEnd ==
  ASSUME NEW x, Fit(x), ~IsClient(x)
  PROVE  LET y == socketOnEnd(x) IN Web(x, y) /\ (x.h.parser => Serves(x, y))
<1> DEFINE p == parserFinish(x)
           y == [p EXCEPT !.h.parser = FALSE]
           k == [x.h EXCEPT !.phase = "dead"]
           d == [x EXCEPT !.h = k]
           e == [d EXCEPT !.s = destroy(@)]
           z == [y EXCEPT !.s = end(@)]
<1>1. socketOnEnd(x) = CASE ~x.h.parser -> Throw(x)
                         [] x.h.parser /\ finishFails(x.h) -> e
                         [] OTHER -> IF y.s.writable THEN z ELSE y
  <2>1. [x EXCEPT !.s = destroy(@), !.h.phase = "dead"] = e BY DEF Fit
  <2> QED BY <2>1 DEF socketOnEnd, serverOnEnd
<1>2. x.h \in HttpRecord BY DEF Fit
<1>3. Web(x, e) /\ Serves(x, e)
  <2>1. k \in HttpRecord BY <1>2 DEF HttpRecord
  <2>2. /\ k.role = x.h.role /\ k.late = x.h.late /\ k.out = x.h.out /\ k.msg = x.h.msg
        /\ k.threw = x.h.threw
    BY <1>2 DEF HttpRecord
  <2> HIDE DEF k
  <2>3. Web(x, d) /\ d.h = k /\ d.s = x.s BY <2>1, <2>2, HttpOnly
  <2> HIDE DEF d
  <2>4. Answers(x.h) => Answers(d.h) BY <2>2, <2>3 DEF Answers
  <2>5. Serves(x, d) /\ Fit(d) BY <2>2, <2>3, <2>4, ServesHttp DEF Web
  <2>6. Serves(d, e) BY <2>5, ServerDestroys
  <2> QED BY <2>5, <2>6, ServesOn DEF Serves
<1>4. Web(x, y) /\ Serves(x, y) /\ y.s = x.s /\ Keep(x.h, y.h)
  <2>1. Web(x, p) /\ Keep(x.h, p.h) /\ p.s = x.s BY FinishParser
  <2> HIDE DEF p
  <2>2. Web(p, y) /\ Keep(p.h, y.h) /\ y.s = p.s BY <2>1, ParserGone DEF Web
  <2> HIDE DEF y
  <2>3. Web(x, y) /\ Keep(x.h, y.h) BY <2>1, <2>2, WebOn, KeepOn
  <2>4. Answers(x.h) => Answers(y.h) BY <2>3 DEF Answers, Keep
  <2> QED BY <2>1, <2>2, <2>3, <2>4, ServesHttp DEF Keep
<1> HIDE DEF y
<1>5. Web(x, z) /\ Serves(x, z)
  <2>1. Fit(y) BY <1>4 DEF Web
  <2>2. Sane(end(y.s)) /\ Follows(y.s, end(y.s)) BY <2>1, EndSane DEF Fit
  <2> DEFINE t == end(y.s)
             v == [y EXCEPT !.s = t]
  <2>3. z = v BY <2>1 DEF Fit
  <2> HIDE DEF t
  <2>4. Web(y, v) /\ v.h = y.h /\ v.s = t BY <2>1, <2>2, SocketOnly DEF t
  <2> HIDE DEF z, v
  <2>5. y.s.handle # "none" BY <2>1 DEF Fit, Sane
  <2>6. Good(y.s) /\ y.s.connected /\ y.s.lookup = "none" => Good(v.s) /\ Leads(y.s, v.s)
    BY <2>4, <2>5, ConnectedEnds DEF t
  <2>7. Serves(y, v) BY <2>4, <2>6, ServesIf
  <2> QED BY <1>4, <2>3, <2>7, ServesOn DEF Serves
<1>6. Web(x, Throw(x)) BY ServerThrows
<1> HIDE DEF e, z
<1> QED BY <1>1, <1>3, <1>4, <1>5, <1>6

\* The end of the input of a server.
LEMMA ServerEnds ==
  ASSUME Base, ServerSide, OnEnd
  PROVE  Base' /\ ServerSide'
<1> DEFINE x == [Both EXCEPT !.s = resetSocketTimeout(@)]
           w == [x EXCEPT !.s = emitEnd([@ EXCEPT !.eof = TRUE, !.reading = FALSE])]
           y == socketOnEnd(w)
           z == readEnd(x)
<1>1. Fit(Both) /\ Both.s = sock /\ Both.h = http BY BothFit
<1>2. sock.reading /\ WebEvent(z) /\ js = "idle" BY DEF OnEnd, WebEvent, Event, EventStep
<1>3. Web(Both, x) /\ x.h = http /\ Leads(sock, x.s) /\ (Good(sock) => Good(x.s))
  BY WebResets
<1> HIDE DEF x
<1>4. Fit(x) BY <1>3 DEF Web
<1>5. /\ Web(x, w) /\ w.h = x.h /\ ~w.s.reading
      /\ Good(x.s) /\ x.s.connected => Good(w.s) /\ Leads(x.s, w.s)
      /\ Fit(y) => /\ Web(y, z) /\ z.h = y.h
                   /\ Good(y.s) => Good(z.s) /\ Leads(y.s, z.s)
  BY <1>4, ReadEndParts
<1> HIDE DEF w, z
<1>6. Serves(Both, w)
  <2>1. Serves(Both, x) BY <1>1, <1>3, ServesIf
  <2>2. Serves(x, w) BY <1>5, ServesIf
  <2> QED BY <2>1, <2>2, ServesOn
<1>7. Fit(w) /\ ~IsClient(w) /\ w.h = http
  BY <1>3, <1>5 DEF Web, IsClient, ServerSide
<1>8. Web(w, y) /\ (w.h.parser => Serves(w, y)) BY <1>7, ServerOnEnd
<1> HIDE DEF y
<1>9. Web(y, z) /\ Serves(y, z)
  <2>1. /\ Web(y, z) /\ z.h = y.h
        /\ Good(y.s) => Good(z.s) /\ Leads(y.s, z.s)
    BY <1>5, <1>8 DEF Web
  <2> QED BY <2>1, ServesIf
<1>10. Web(Both, z) /\ ~z.s.reading
  <2>1. Web(w, z) BY <1>8, <1>9, WebOn
  <2> QED BY <1>5, <1>6, <2>1, WebOn DEF Serves, Web, Follows
<1>11. Serves(Both, z)
  <2>1. CASE http.parser BY <1>6, <1>7, <1>8, <1>9, <2>1, ServesOn
  <2>2. CASE ~http.parser
    <3>1. ~http.late => ServerInv BY DEF ServerSide
    <3>2. http.late BY <1>2, <2>2, <3>1 DEF ServerInv
    <3> QED BY <1>1, <1>10, <3>2 DEF Serves, Web
  <2> QED BY <2>1, <2>2
<1> QED BY <1>2, <1>10, <1>11, IdleStarts, ServerSteps DEF z

\* An error of the input of a server.
LEMMA ServerErrs ==
  ASSUME Base, ServerSide, OnError
  PROVE  Base' /\ ServerSide'
<1> DEFINE r == resetSocketTimeout(sock)
           t == [r EXCEPT !.reading = FALSE]
           w == [Both EXCEPT !.s = t]
           y == socketOnError(w)
<1>1. Fit(Both) /\ Both.s = sock /\ Both.h = http BY BothFit
<1>2. sock.reading /\ WebEvent(y) /\ js = "idle"
  BY <1>1 DEF OnError, Fit, WebEvent, Event, EventStep
<1>3. Sane(r) /\ Follows(sock, r) /\ (Good(sock) => Good(r) /\ Leads(sock, r))
  BY <1>1, ResetSane, ResetGood DEF Fit
<1> HIDE DEF r
<1>4. t \in SocketRecord BY <1>3 DEF Sane, SocketRecord
<1>5. Sane(t) /\ Follows(r, t) /\ ~t.reading BY <1>3, <1>4 DEF Sane, Follows, SocketRecord
<1>6. Good(r) => Good(t) /\ Leads(r, t)
  <2> SUFFICES ASSUME Good(r) PROVE Good(t) /\ Leads(r, t) OBVIOUS
  <2> r \in SocketRecord BY DEF Good, Core
  <2>1. Flow(t) BY DEF Good, Core, Flow, Underway, Honest, SocketRecord
  <2>2. LookInv(t) /\ HalfInv(t) BY DEF Good, LookInv, HalfInv, SocketRecord
  <2>3. Leads(r, t) BY DEF Leads, Later, SocketRecord
  <2> QED BY <1>4, <2>1, <2>2, <2>3 DEF Good, Core
<1> HIDE DEF t
<1>7. Follows(sock, t) /\ (Good(sock) => Good(t) /\ Leads(sock, t))
  BY <1>3, <1>5, <1>6, FollowsOn, LeadsOn
<1>8. Web(Both, w) /\ w.h = http /\ w.s = t BY <1>1, <1>5, <1>7, SocketOnly
<1> HIDE DEF w
<1>9. Serves(Both, w) BY <1>1, <1>7, <1>8, ServesIf
<1>10. Fit(w) /\ ~IsClient(w) BY <1>8 DEF Web, IsClient, ServerSide
<1>11. ~sock.destroyed BY <1>2 DEF Base, Sane
<1>12. ~w.s.destroyed
  <2>1. r.destroyed = sock.destroyed /\ t.destroyed = r.destroyed
    <3>1. r \in SocketRecord /\ sock \in SocketRecord BY <1>3 DEF Sane, Base
    <3> QED BY <3>1 DEF resetSocketTimeout, SocketRecord, r, t
  <2> QED BY <1>8, <1>11, <2>1
<1>13. y = [w EXCEPT !.s = destroy(@)] BY <1>10, <1>12 DEF socketOnError
<1>14. Serves(w, y) BY <1>10, <1>13, ServerDestroys
<1> HIDE DEF y
<1>15. Serves(Both, y) /\ ~y.s.reading
  BY <1>5, <1>8, <1>9, <1>14, ServesOn DEF Serves, Web, Follows
<1> QED BY <1>2, <1>15, IdleStarts, ServerSteps DEF y

\* The idle timer of a server's connection.
LEMMA ServerIdles ==
  ASSUME Base, ServerSide, OnTimeout
  PROVE  Base' /\ ServerSide'
<1> DEFINE y == socketOnTimeout(Both)
           t == [y.s EXCEPT !.timer = FALSE]
           z == [y EXCEPT !.s = t]
<1>1. Fit(Both) /\ Both.s = sock /\ Both.h = http BY BothFit
<1>2. ~IsClient(Both) BY <1>1 DEF ServerSide, IsClient
<1>3. /\ y = Throw(Both) /\ sock.destroyed
      \/ y = Both
      \/ y = [Both EXCEPT !.s = destroy(@)]
  BY <1>1, <1>2 DEF socketOnTimeout
<1>4. sock.timer /\ WebEvent([y EXCEPT !.s.timer = FALSE]) BY DEF OnTimeout
<1>5. Serves(Both, y) /\ y.h.parser = http.parser
  <2>1. CASE y = Throw(Both) /\ sock.destroyed
    <3>1. Web(Both, y) /\ y.h.parser = http.parser BY <1>1, <2>1, ServerThrows
    <3>2. FALSE BY <1>4, <2>1 DEF Base, Sane
    <3> QED BY <3>2
  <2>2. CASE y = Both BY <1>1, <2>2, ServesNothing
  <2>3. CASE y = [Both EXCEPT !.s = destroy(@)] BY <1>1, <2>3, ServerDestroys
  <2> QED BY <1>3, <2>1, <2>2, <2>3
<1> HIDE DEF y
<1>6. Fit(y) /\ y.s \in SocketRecord /\ Sane(y.s) BY <1>5 DEF Serves, Web, Fit
<1>7. t \in SocketRecord BY <1>6 DEF SocketRecord
<1>8. Sane(t) /\ Follows(y.s, t) BY <1>6, <1>7 DEF Sane, Follows, SocketRecord
<1>9. ASSUME Good(y.s) PROVE Good(t) /\ Leads(y.s, t)
  <2>1. Flow(t) BY <1>6, <1>9 DEF Good, Core, Flow, Underway, Honest, SocketRecord
  <2>2. LookInv(t) /\ HalfInv(t) BY <1>6, <1>9 DEF Good, LookInv, HalfInv, SocketRecord
  <2>3. Leads(y.s, t) BY <1>6 DEF Leads, Later, SocketRecord
  <2> QED BY <1>7, <2>1, <2>2, <2>3 DEF Good, Core
<1>10. [y EXCEPT !.s.timer = FALSE] = z BY <1>6 DEF Fit
<1> HIDE DEF t
<1>11. Web(y, z) /\ z.h = y.h /\ z.s = t BY <1>6, <1>8, SocketOnly
<1> HIDE DEF z
<1>12. Serves(y, z) BY <1>9, <1>11, ServesIf
<1>13. Serves(Both, z) BY <1>5, <1>12, ServesOn
<1> QED BY <1>4, <1>5, <1>10, <1>11, <1>13, ServerSteps

\* The connection of a server has closed, and its parser is given up.
LEMMA ServerCloses ==
  ASSUME Base, ServerSide, OnClose
  PROVE  Base' /\ ServerSide'
<1> DEFINE t == [sock EXCEPT !.handle = "closed"]
           x == [Both EXCEPT !.s = t]
           k == [http EXCEPT !.closed = TRUE, !.parser = FALSE]
           y == [x EXCEPT !.h = k]
<1>1. Fit(Both) /\ Both.s = sock /\ Both.h = http BY BothFit
<1>2. t \in SocketRecord BY DEF Base, Sane, SocketRecord, HandleStates
<1>3. sock.handle = "closing" /\ AllAnswered BY DEF OnClose, AllAnswered
<1>4. Sane(t) /\ Follows(sock, t) /\ ~t.reading /\ t.connected = sock.connected
  BY <1>2, <1>3 DEF Base, Sane, Follows, SocketRecord
<1>5. http \in HttpRecord BY DEF Base
<1>6. k \in HttpRecord BY <1>5 DEF HttpRecord
<1>7. /\ k.role = http.role /\ k.late = http.late /\ k.out = http.out /\ k.msg = http.msg
      /\ k.threw = http.threw
  BY <1>5 DEF HttpRecord
<1>8. WebEvent(y)
  <2>1. [Both EXCEPT !.s = [@ EXCEPT !.handle = "closed"]] = x BY <1>1
  <2>2. x.h = http BY DEF Both
  <2>3. ~IsClient(x) BY <2>2 DEF IsClient, ServerSide
  <2>4. [x EXCEPT !.h.closed = TRUE, !.h.parser = FALSE] = y BY <2>2 DEF Both
  <2> QED BY <2>1, <2>3, <2>4 DEF OnClose, socketOnClose
<1> HIDE DEF k
<1>9. Web(Both, y) /\ y.h = k /\ y.s = t
  <2> HIDE DEF t
  <2>1. Web(Both, x) /\ x.h = http /\ x.s = t BY <1>1, <1>4, SocketOnly
  <2> HIDE DEF x
  <2>2. Web(x, y) /\ y.s = x.s /\ y.h = k BY <1>6, <1>7, <2>1, HttpOnly DEF Web
  <2> QED BY <2>1, <2>2, WebOn
<1> HIDE DEF y
<1>10. Event(t) /\ http' = k /\ js = "idle" BY <1>8, <1>9 DEF WebEvent, Event, EventStep
<1>11. Steps(y) BY <1>8 DEF WebEvent, Event, Steps
<1>12. ASSUME ~http.late PROVE SocketInv' /\ t.connected /\ Answers(k) /\ ~k.threw
  <2>1. ServerInv /\ SocketInv BY <1>12, ServingNow
  <2>2. LoopStep BY <1>3, <1>10 DEF LoopStep, AfterClose
  <2>3. SocketInv' BY <2>1, <2>2, LoopKeeps
  <2> QED BY <1>4, <1>7, <2>1, <2>3 DEF ServerInv, Answers
<1> QED BY <1>4, <1>7, <1>9, <1>10, <1>11, <1>12, IdleStarts, ServerGoes

\* The callbacks of a write and of a shutdown, for a server.
LEMMA ServerLoops ==
  ASSUME Base, ServerSide, AfterWrite \/ AfterShutdown, UNCHANGED http
  PROVE  Base' /\ ServerSide'
<1>1. PICK t : LET y == [Both EXCEPT !.s = t]
               IN  /\ Sane(t) /\ Follows(sock, t)
                   /\ Web(Both, y) /\ y.h = http /\ y.s = t /\ WebEvent(y)
  BY LoopWeb
<1> DEFINE y == [Both EXCEPT !.s = t]
<1>2. Web(Both, y) /\ y.h = http /\ y.s = t /\ WebEvent(y) BY <1>1
<1> HIDE DEF y
<1>3. Steps(y) BY <1>2 DEF WebEvent, Event, Steps
<1>4. ASSUME ~http.late PROVE SocketInv' /\ t.connected /\ Answers(http) /\ ~http.threw
  <2>1. ServerInv /\ SocketInv BY <1>4, ServingNow
  <2>2. SocketInv' BY <2>1, LoopKeeps DEF LoopStep
  <2> QED BY <1>1, <2>1, <2>2 DEF ServerInv, Follows
<1> QED BY <1>2, <1>3, <1>4, ServerGoes

\* The end of a frame or of the ticks, and callbacks that are not the socket's.
LEMMA ServerWaits ==
  ASSUME Base, ServerSide, UNCHANGED <<sock, http>>,
         RunTicks \/ TicksDone \/ EventStep(<<>>) \/ UNCHANGED tickVars
  PROVE  Base' /\ ServerSide'
<1>1. Base' /\ \A tick : Waits(tick)' = Waits(tick) BY NothingHappens
<1>2. ASSUME SocketInv PROVE SocketInv'
  <2>1. CASE UNCHANGED tickVars
    BY <1>2, <2>1 DEF SocketInv, TickInv, tickVars
  <2>2. CASE RunTicks \/ TicksDone \/ EventStep(<<>>)
    BY <1>2, <2>2, TicksKeep DEF Loop
  <2> QED BY <2>1, <2>2
<1>3. ServerInv => ServerInv' BY <1>1, <1>2 DEF ServerInv, Answers
<1> QED BY <1>1, <1>3 DEF ServerSide

\* A tick of a server.
LEMMA ServerTicks ==
  ASSUME Base, ServerSide, WebTick
  PROVE  Base' /\ ServerSide'
<1> DEFINE name == Head(batch)
           s == runTick(sock, name)
<1>1. Fit(Both) /\ Both.s = sock /\ Both.h = http BY BothFit
<1>2. name \in TickNames /\ Waits(name) /\ js = "ticks" /\ batch # <<>>
  <2>1. js = "ticks" /\ batch \in Seq(TickNames) /\ batch # <<>> BY DEF WebTick, Base, TickSane
  <2>2. name = batch[1] /\ 1 \in 1..Len(batch) /\ name \in TickNames BY <2>1
  <2> QED BY <2>1, <2>2 DEF Waits
<1>3. name \in {"finish", "readStart"} BY <1>2 DEF ServerSide, TickNames
<1>4. http' = http /\ Becomes(s) /\ TickStep(Queue(s)) BY <1>1, <1>3 DEF WebTick
<1>5. SocketInv => SocketInv' BY <1>2, <1>4, TicksKeep DEF Tick
<1> HIDE DEF name
<1>6. ASSUME NEW t, Sane(t), Follows(sock, t), Becomes(t), TickStep(Queue(t))
      PROVE  Base' /\ ServerSide'
  <2> DEFINE y == [Both EXCEPT !.s = t]
  <2>1. Web(Both, y) /\ y.h = http /\ y.s = t BY <1>1, <1>6, SocketOnly
  <2> HIDE DEF y
  <2>2. Steps(y) BY <1>4, <1>6, <2>1 DEF Steps
  <2>3. ASSUME ~http.late PROVE SocketInv' /\ t.connected /\ Answers(http) /\ ~http.threw
    <3>1. ServerInv /\ SocketInv BY <2>3, ServingNow
    <3> QED BY <1>5, <1>6, <3>1 DEF ServerInv, Follows
  <2> QED BY <2>1, <2>2, <2>3, ServerGoes
<1>7. CASE name = "finish"
  <2> DEFINE t == emitFinish(sock)
  <2>1. s = t BY <1>7 DEF runTick
  <2>2. sock.ending BY <1>2, <1>7 DEF Base, TickSane
  <2>3. Sane(t) /\ Follows(sock, t) BY <1>1, <2>2, EmitFinishSane DEF Fit
  <2> QED BY <1>4, <1>6, <2>1, <2>3
<1>8. CASE name = "readStart"
  <2> DEFINE t == tcpReadStart(sock)
             v == [sock EXCEPT !.reading = TRUE]
             u == [sock EXCEPT !.misused = TRUE]
  <2>1. s = t BY <1>8 DEF runTick
  <2>2. CASE sock.handle = "open"
    <3>1. t = v BY <2>2 DEF tcpReadStart, native
    <3>2. v \in SocketRecord BY DEF Base, Sane, SocketRecord
    <3>3. /\ Sane(v) /\ v.lookup = sock.lookup /\ v.connectReq = sock.connectReq
          /\ v.ending = sock.ending /\ v.connected = sock.connected /\ v.asked = {}
      BY <2>2, <3>2 DEF Base, Sane, SocketRecord
    <3> HIDE DEF v, t
    <3>4. /\ Sane(sock)' /\ sock'.asked = {} /\ TickSane' /\ Alike(v, sock')
          /\ \A tick \in TickNames : Waits(tick)' => Waits(tick) \/ tick \in v.asked
      BY <1>4, <2>1, <3>1, <3>3, StepSane
    <3>5. Base' BY <1>4, <3>4 DEF Base
    <3>6. ASSUME ~http.late PROVE ServerInv'
      <4>1. ServerInv /\ SocketInv BY <3>6, ServingNow
      <4>2. http.parser BY <1>2, <1>8, <4>1 DEF ServerInv
      <4> QED BY <1>4, <1>5, <3>3, <3>4, <4>1, <4>2 DEF ServerInv, Answers, Alike
    <3>7. ~Waits("lookupFailed")' BY <3>3, <3>4 DEF ServerSide, TickNames
    <3> QED BY <1>4, <3>3, <3>4, <3>5, <3>6, <3>7 DEF ServerSide, Alike
  <2>3. CASE sock.handle # "open"
    <3>1. t = sock \/ t = u BY <2>3 DEF tcpReadStart, native, Base, Sane
    <3>2. u \in SocketRecord BY DEF Base, Sane, SocketRecord
    <3>3. Sane(u) /\ Follows(sock, u) BY <3>2 DEF Base, Sane, Follows, SocketRecord
    <3> HIDE DEF t, u
    <3>4. Sane(t) /\ Follows(sock, t) BY <3>1, <3>3, FollowsNothing DEF Base
    <3> QED BY <1>4, <1>6, <2>1, <3>4
  <2> QED BY <2>2, <2>3
<1> QED BY <1>3, <1>7, <1>8

-----------------------------------------------------------------------------
(* The theorems about http.                                                *)

\* The inductive invariant of Http.
WebInv == /\ Base
          /\ http.role = "client" => ClientInv
          /\ http.role = "server" => ServerSide

\* http.request() was called, and the name is being looked up or is not.
LEMMA ClientInit ==
  ASSUME NEW accepted \in BOOLEAN, js = "frame", batch = <<>>, queue = <<>>,
         http = NewHttp("client", FALSE),
         sock = GetAddrInfo([resetSocketTimeout(New(FALSE, TRUE)) EXCEPT
                               !.connecting = TRUE, !.handle = "open"], accepted)
  PROVE  Base /\ ClientInv
<1>1. sock \in SocketRecord
  BY DEF New, resetSocketTimeout, GetAddrInfo, SocketRecord, HandleStates, RequestStates
<1>2. /\ sock.handle = "open" /\ ~sock.ending /\ ~sock.ended /\ ~sock.reading /\ ~sock.writing
      /\ sock.connectReq = "none" /\ sock.shutdownReq = "none" /\ ~sock.destroyed
      /\ sock.asked = {}
  BY DEF New, resetSocketTimeout, GetAddrInfo
<1>3. Sane(sock) BY <1>1, <1>2 DEF Sane
<1>4. Outgoing(TRUE) \in OutgoingRecord BY DEF Outgoing, OutgoingRecord
<1>5. http \in HttpRecord BY <1>4 DEF NewHttp, HttpRecord
<1>6. /\ http.role = "client" /\ http.parser /\ http.msg = 0 /\ ~http.more /\ ~http.eof
      /\ ~http.endEmitted /\ ~http.closed /\ ~http.threw
      /\ \A m \in 1..MaxMessages : http.out[m].attached
  BY DEF NewHttp, Outgoing
<1>7. \A tick : ~Waits(tick) BY DEF Waits
<1>8. TickSane BY <1>7 DEF TickSane
<1>9. Told(http) BY <1>6 DEF Told, Reason, Closes
<1>10. Client(Both) BY <1>2, <1>6, <1>9 DEF Client, IsClient, Both
<1> QED BY <1>2, <1>3, <1>5, <1>7, <1>8, <1>10 DEF Base, ClientInv

\* A connection was accepted, and is read from at the end of the frame.
LEMMA ServerInit ==
  ASSUME NEW handled \in BOOLEAN, js = "frame", batch = <<>>,
         http = NewHttp("server", handled),
         LET s == onSocketConnect([New(TRUE, TRUE) EXCEPT !.handle = "open"])
         IN  sock = [s EXCEPT !.asked = {}] /\ queue = Queue(s)
  PROVE  Base /\ ServerSide
<1> DEFINE n == New(TRUE, TRUE)
           o == [n EXCEPT !.handle = "open"]
           c == [o EXCEPT !.connecting = FALSE, !.connected = TRUE, !.ready = TRUE]
           r == [c EXCEPT !.timer = TRUE]
           u == [r EXCEPT !.asked = {"readStart"}]
           t == [u EXCEPT !.asked = {}]
<1>1. n \in SocketRecord BY DEF New, SocketRecord, HandleStates, RequestStates
<1>2. /\ ~n.destroyed /\ n.out = 0 /\ ~n.ending /\ ~n.ended /\ ~n.writing /\ ~n.reading
      /\ n.connectReq = "none" /\ n.shutdownReq = "none" /\ n.lookup = "none" /\ n.asked = {}
  BY DEF New
<1>3. sock = [onSocketConnect(o) EXCEPT !.asked = {}] /\ queue = Queue(onSocketConnect(o))
  OBVIOUS
<1> HIDE DEF n
<1>4. onSocketConnect(o) = u
  <2>1. c.destroyed = n.destroyed /\ r.out = n.out /\ r.ending = n.ending
    BY <1>1 DEF SocketRecord
  <2>2. r.asked = {} BY <1>1, <1>2 DEF SocketRecord
  <2>3. resetSocketTimeout(c) = r BY <1>2, <2>1 DEF resetSocketTimeout
  <2>4. writeBuffered(r) = r BY <1>2, <2>1 DEF writeBuffered
  <2> HIDE DEF r
  <2>5. u = [r EXCEPT !.asked = @ \cup {"readStart"}] BY <2>2
  <2> QED BY <2>3, <2>4, <2>5 DEF onSocketConnect
<1>5. sock = t /\ queue = Queue(u) BY <1>3, <1>4
<1>6. u.asked = {"readStart"}
  <2>1. r \in SocketRecord BY <1>1 DEF SocketRecord, HandleStates
  <2> HIDE DEF r
  <2> QED BY <2>1 DEF SocketRecord
<1>7. t \in SocketRecord BY <1>1 DEF SocketRecord, HandleStates
<1>8. /\ t.handle = "open" /\ t.connected /\ t.asked = {} /\ t.destroyed = n.destroyed
      /\ t.ending = n.ending /\ t.ended = n.ended /\ t.writing = n.writing
      /\ t.reading = n.reading /\ t.connectReq = n.connectReq
      /\ t.shutdownReq = n.shutdownReq /\ t.lookup = n.lookup
  BY <1>1 DEF SocketRecord
<1> HIDE DEF t, u
<1>9. Sane(sock) /\ sock.asked = {} /\ sock.connected /\ ~sock.reading
      /\ sock.lookup = "none" /\ sock.connectReq = "none"
  BY <1>2, <1>5, <1>7, <1>8 DEF Sane
<1>10. queue \in Seq(TickNames) /\ \A i \in 1..Len(queue) : queue[i] = "readStart"
  BY <1>5, <1>6, QueueAsked
<1>11. \A tick : Waits(tick) => tick = "readStart"
  <2>1. 1..Len(batch) = {} OBVIOUS
  <2> QED BY <1>10, <2>1 DEF Waits
<1>12. TickSane BY <1>10, <1>11 DEF TickSane
<1> DEFINE no == Outgoing(FALSE)
<1>13. no \in OutgoingRecord /\ ~no.finished BY DEF Outgoing, OutgoingRecord
<1>14. http \in HttpRecord BY <1>13 DEF NewHttp, HttpRecord
<1>15. /\ http.role = "server" /\ http.parser /\ http.msg = 0 /\ ~http.threw
       /\ \A m \in 1..MaxMessages : http.out[m] = no
  BY DEF NewHttp
<1> HIDE DEF no
<1>16. SocketInv
  <2>1. SInit BY DEF SInit
  <2> QED BY <2>1, InitInv
<1>17. Answers(http)
  <2>1. \A m \in 1..MaxMessages : ~(m <= http.msg) BY <1>15, HttpAssumption
  <2> QED BY <1>13, <1>15, <2>1 DEF Answers
<1>18. ServerInv BY <1>9, <1>15, <1>16, <1>17 DEF ServerInv
<1> QED BY <1>9, <1>11, <1>12, <1>14, <1>15, <1>18 DEF Base, ServerSide

\* Both ways to begin.
LEMMA WebStarts == WebInit => WebInv
BY ClientInit, ServerInit DEF WebInit, WebInv, ClientInv, Client, IsClient, Both, ServerSide

\* libuv refuses the chunk underway.
LEMMA RefusedSane ==
  ASSUME Base, WriteRefused, UNCHANGED http
  PROVE  Base' /\ Alike(sock, sock') /\ \A tick : Waits(tick)' = Waits(tick)
<1> DEFINE t == [sock EXCEPT !.stuck = TRUE]
<1>1. /\ sock' = t /\ js' = js /\ queue' = queue /\ batch' = batch
  BY DEF WriteRefused, tickVars
<1>2. t \in SocketRecord BY DEF Base, Sane, SocketRecord
<1>3. Sane(t) /\ Alike(sock, t) /\ t.asked = sock.asked
  BY <1>2 DEF Base, Sane, Alike, SocketRecord
<1> HIDE DEF t
<1>4. \A tick : Waits(tick)' = Waits(tick) BY <1>1 DEF Waits
<1>5. TickSane' BY <1>1, <1>3, <1>4 DEF Base, TickSane, Alike
<1> QED BY <1>1, <1>3, <1>4, <1>5 DEF Base

\* A client is told nothing of it.
LEMMA ClientRefused ==
  ASSUME Base, ClientInv, WriteRefused, UNCHANGED http
  PROVE  Base' /\ ClientInv' /\ http'.role = http.role
<1>1. Base' /\ Alike(sock, sock') /\ \A tick : Waits(tick)' = Waits(tick) BY RefusedSane
<1>2. (Both.s)' = sock' /\ (Both.h)' = http' /\ Both.s = sock /\ Both.h = http BY DEF Both
<1>3. Client(Both)' BY <1>1, <1>2 DEF ClientInv, Client, IsClient, Alike, Calm
<1> QED BY <1>1, <1>3 DEF ClientInv, Alike, Calm

\* Nor is a server.
LEMMA ServerRefused ==
  ASSUME Base, ServerSide, WriteRefused, UNCHANGED http
  PROVE  Base' /\ ServerSide'
<1>1. Base' /\ Alike(sock, sock') /\ \A tick : Waits(tick)' = Waits(tick) BY RefusedSane
<1>2. ASSUME SocketInv PROVE SocketInv' BY <1>2, RefusedKeeps
<1>3. ServerInv => ServerInv' BY <1>1, <1>2 DEF ServerInv, Answers, Alike
<1> QED BY <1>1, <1>3 DEF ServerSide, Alike

\* What is not the socket's, and no step at all.
LEMMA ClientWaits ==
  ASSUME Base, ClientInv, UNCHANGED <<sock, http>>,
         RunTicks \/ TicksDone \/ EventStep(<<>>) \/ UNCHANGED tickVars
  PROVE  Base' /\ ClientInv' /\ http'.role = http.role
<1>1. Base' /\ \A tick : Waits(tick)' = Waits(tick) BY NothingHappens
<1>2. (Both.s)' = sock' /\ (Both.h)' = http' /\ Both.s = sock /\ Both.h = http BY DEF Both
<1>3. Client(Both)' BY <1>2 DEF ClientInv, Client, IsClient
<1> QED BY <1>1, <1>3 DEF ClientInv

\* Every step of a client keeps the invariant.
LEMMA ClientStep ==
  ASSUME Base, ClientInv, [WebNext]_webvars
  PROVE  Base' /\ ClientInv' /\ http'.role = http.role
<1>1. CASE WebUser BY <1>1, ClientWrites
<1>2. CASE ReadResponse BY <1>2, ClientReads
<1>3. CASE OnData BY <1>3, ClientData
<1>4. CASE WebLoop
  BY <1>4, ClientEnds, ClientErrs, ClientConnects, ClientIdles, ClientCloses DEF WebLoop
<1>5. CASE WebTick BY <1>5, ClientTicks
<1>6. CASE SocketLoop(LookupDone) BY <1>6, ClientLooks DEF SocketLoop
<1>7. CASE SocketLoop(AfterWrite) \/ SocketLoop(AfterShutdown)
  BY <1>7, ClientLoops DEF SocketLoop
<1>8. CASE \/ SocketLoop(OtherEvent) \/ WebTicks(RunTicks) \/ WebTicks(TicksDone)
           \/ UNCHANGED webvars
  <2>1. UNCHANGED <<sock, http>> /\ (RunTicks \/ TicksDone \/ EventStep(<<>>) \/ UNCHANGED tickVars)
    BY <1>8 DEF SocketLoop, OtherEvent, WebTicks, webvars, svars
  <2> QED BY <2>1, ClientWaits
<1>9. CASE WriteRefused /\ UNCHANGED http BY <1>9, ClientRefused
<1> QED BY <1>1, <1>2, <1>3, <1>4, <1>5, <1>6, <1>7, <1>8, <1>9 DEF WebNext

\* Every step of a server does.  Its socket neither looks up nor connects.
LEMMA ServerStep ==
  ASSUME Base, ServerSide, [WebNext]_webvars
  PROVE  Base' /\ ServerSide'
<1>1. CASE WebUser BY <1>1, ServerWrites
<1>2. ~ReadResponse BY DEF ReadResponse, IsClient, Both, ServerSide
<1>3. CASE OnData BY <1>3, ServerData
<1>4. CASE WebLoop
  <2>1. ~OnConnect BY DEF OnConnect, ServerSide
  <2> QED BY <1>4, <2>1, ServerEnds, ServerErrs, ServerIdles, ServerCloses DEF WebLoop
<1>5. CASE WebTick BY <1>5, ServerTicks
<1>6. ~SocketLoop(LookupDone) BY DEF SocketLoop, LookupDone, ServerSide
<1>7. CASE SocketLoop(AfterWrite) \/ SocketLoop(AfterShutdown)
  BY <1>7, ServerLoops DEF SocketLoop
<1>8. CASE \/ SocketLoop(OtherEvent) \/ WebTicks(RunTicks) \/ WebTicks(TicksDone)
           \/ UNCHANGED webvars
  <2>1. UNCHANGED <<sock, http>> /\ (RunTicks \/ TicksDone \/ EventStep(<<>>) \/ UNCHANGED tickVars)
    BY <1>8 DEF SocketLoop, OtherEvent, WebTicks, webvars, svars
  <2> QED BY <2>1, ServerWaits
<1>9. CASE WriteRefused /\ UNCHANGED http BY <1>9, ServerRefused
<1> QED BY <1>1, <1>2, <1>3, <1>4, <1>5, <1>6, <1>7, <1>8, <1>9 DEF WebNext

\* Every step keeps the invariant; a client stays one, and a server too.
LEMMA WebStep == WebInv /\ [WebNext]_webvars => WebInv'
<1> SUFFICES ASSUME WebInv, [WebNext]_webvars PROVE WebInv' OBVIOUS
<1>1. http.role \in {"client", "server"} BY DEF WebInv, Base, HttpRecord
<1>2. CASE http.role = "client" BY <1>2, ClientStep DEF WebInv
<1>3. CASE http.role = "server" BY <1>3, ServerStep DEF WebInv, ServerSide
<1> QED BY <1>1, <1>2, <1>3

\* The state of http, its socket and the waiting ticks agree in every reachable
\* state, for every bound, for clients and for servers, whatever the user does.
THEOREM WebInvariant == WebSpec => []WebInv
BY WebStarts, WebStep, PTL DEF WebSpec

\* When the connection of a request is gone, its user was told by an error or by
\* the end of the response, a response that was cut off tells 'close', and a
\* handler of the client throws only when data follow a parse error.
THEOREM ClientIsTold == WebSpec => []ClientTold
<1>1. WebInv => ClientTold
  BY DEF WebInv, ClientInv, Client, Told, Reason, Closes, Both, ClientTold
<1> QED BY <1>1, WebInvariant, PTL

\* A server's answer that was ended was sent with its header and is flushed before
\* the connection closes, no handler uses a parser or a server that is gone, and no
\* closed handle is operated on, until the user writes to a connection that is ending.
\* Http takes none of its steps from Habits: that the users of net have not these
\* three only lets the facts of NetProofs be used at their full strength.
THEOREM ServerIsSound ==
  ASSUME "destroyInLookup" \notin Habits, "reconnect" \notin Habits,
         "writeAfterEnd" \notin Habits
  PROVE  WebSpec => []ServerSound
<1>1. WebInv => ServerSound
  <2> SUFFICES ASSUME WebInv, http.role = "server", ~http.late
               PROVE  /\ \A m \in 1..MaxMessages : http.out[m].finished => http.out[m].sentHeader
                      /\ sock.destroyed => sock.out = 0
                      /\ ~http.threw /\ ~sock.misused
    BY DEF ServerSound
  <2>1. ServerInv BY DEF WebInv, ServerSide
  <2>2. Patient /\ Careful BY DEF Patient, Careful
  <2> QED BY <2>1, <2>2 DEF ServerInv, SocketInv, Good, Core, Flow, LookInv, Answers
<1> QED BY <1>1, WebInvariant, PTL
=============================================================================
