----------------------------- MODULE NetProofs ------------------------------
(***************************************************************************)
(* Proofs about net.js: the modules Socket and Server.                     *)
(*                                                                         *)
(* net.Socket: no chunk is cut off, a destroyed socket is quiet, and a     *)
(* socket that has finished writing tells its peer.  The handlers are      *)
(* operators on the socket, so the proof follows the calls: each operator  *)
(* has a lemma that it leads from a good socket to a good one, from which  *)
(* the lemmas of its callers follow.  Ticks are the other half of the      *)
(* argument: what was true of the socket when a tick was queued must still *)
(* be true when it runs (Honest), so every handler also keeps the facts    *)
(* that ticks rely on (Later).                                             *)
(*                                                                         *)
(* net.Server: 'close' waits for the last of the connections, for any      *)
(* number of connections and of calls; the sockets that still refer to the *)
(* server are the open ones, so that each of them is taken off the count   *)
(* once, however often it is closed.                                       *)
(***************************************************************************)
EXTENDS Socket, Server, FiniteSetTheorems, TLAPS

\* The user waits for the lookup before destroy() or end(), and does not call
\* connect() twice.
Patient == Habits \cap {"destroyInLookup", "reconnect"} = {}

\* What a queued tick relies on when it runs.
Honest(s, tick) == /\ tick = "finish" => s.ending /\ s.out = s.tail
                   /\ tick = "readStart" => s.connected /\ s.handle # "closed"

\* The user does not write after end().
Careful == "writeAfterEnd" \notin Habits

\* The user does not start the timer of a destroyed socket.
Punctual == "timeoutAfterDestroy" \notin Habits

\* The streams, the flags and the handle agree, whatever the user does.
Flow(s) ==
  /\ s.ended => s.ending /\ s.out = s.tail
  /\ s.tail <= s.out /\ (~s.ending \/ Careful => s.tail = 0)
  /\ s.writing => s.out > 0
  /\ Underway(s) => s.handle # "closed"
  /\ s.destroyed => s.ended
  /\ s.writable <=> ~s.ending
  /\ IF s.destroyed THEN (Punctual => ~s.timer) /\ s.handle \in {"closing", "closed"}
     ELSE s.handle \in {"none", "open"}
  /\ s.handle = "none" => /\ ~s.connected /\ ~s.ending
                          /\ s.lookup = "none" /\ s.connectReq = "none"
  /\ s.reading \/ s.eof => s.connected
  /\ s.connectReq = "pending" => s.handle # "closed"
  /\ s.shutdownReq = "pending" => s.ended
  /\ "finish" \in s.asked => Honest(s, "finish")
  /\ "readStart" \in s.asked => Honest(s, "readStart")

Core(s) == s \in SocketRecord /\ Flow(s)

\* Nothing has gone wrong while the name was being looked up.
LookInv(s) == Patient =>
  /\ s.lookup = "pending" => ~s.connected /\ s.connectReq = "none" /\ ~s.ending
  /\ ~s.misused

\* The peer is told, unless end() came before the connection.
HalfInv(s) == "endEarly" \notin Habits =>
  /\ s.ended /\ ~s.destroyed => s.connected /\ s.shutdownReq # "none"
  /\ s.ending /\ ~s.connected /\ ~s.destroyed => s.onFinish

Good(s) == Core(s) /\ LookInv(s) /\ HalfInv(s)

\* What was relied on in s still holds in t.
Later(s, t) == /\ s.ending => t.ending /\ (s.out = s.tail => t.out = t.tail)
               /\ s.connected => t.connected
               /\ t.handle = "closed" => s.handle = "closed"

\* ... and reading is not started by the call that leads from s to t.
Leads(s, t) == Later(s, t) /\ ("readStart" \in t.asked => "readStart" \in s.asked)

\* destroy() may be called.
Ready(s) == s.handle # "none" /\ (Patient => s.lookup # "pending" \/ s.ending)

-----------------------------------------------------------------------------
(* The operators, innermost first.                                         *)

\* Calls that follow each other lead from the first to the last socket.
LEMMA LeadsOn ==
  ASSUME NEW s, NEW t, NEW u, Leads(s, t), Leads(t, u)
  PROVE  Leads(s, u)
BY DEF Leads, Later

\* A call that does nothing.
LEMMA LeadsNowhere == ASSUME NEW s PROVE Leads(s, s)
BY DEF Leads, Later

\* end() leads to a socket again.
LEMMA EndType == ASSUME NEW s \in SocketRecord PROVE end(s) \in SocketRecord
BY DEF SocketRecord, end, TickNames

\* The same of close().
LEMMA CloseType == ASSUME NEW s \in SocketRecord PROVE close(s) \in SocketRecord
BY DEF SocketRecord, close, HandleStates

\* Socket.end of a socket with a handle; that the peer will be told is left to
\* the caller.
LEMMA EndGood ==
  ASSUME NEW s, Core(s), LookInv(s), Ready(s)
  PROVE  Core(end(s)) /\ LookInv(end(s)) /\ Leads(s, end(s)) /\ Ready(end(s))
         /\ end(s).ending
<1> s \in SocketRecord BY DEF Core
<1>1. Flow(end(s)) BY DEF Core, Flow, Underway, Ready, Honest, end, SocketRecord
<1>2. LookInv(end(s)) /\ Ready(end(s)) /\ end(s).ending
  BY DEF LookInv, Ready, Core, Flow, end, SocketRecord
<1>3. Leads(s, end(s)) BY DEF Leads, Later, end, SocketRecord
<1> QED BY <1>1, <1>2, <1>3, EndType DEF Core

\* destroy() clears the timer and remembers that it was called.
LEMMA MarkGood ==
  ASSUME NEW s, Core(s), LookInv(s), Ready(s)
  PROVE  LET t == [s EXCEPT !.timer = FALSE, !.doomed = TRUE]
         IN  /\ Core(t) /\ LookInv(t) /\ Leads(s, t) /\ Ready(t)
             /\ ~t.timer /\ t.ended = s.ended /\ t.ending = s.ending
             /\ t.destroyed = s.destroyed
<1> s \in SocketRecord BY DEF Core
<1> DEFINE t == [s EXCEPT !.timer = FALSE, !.doomed = TRUE]
<1>1. t \in SocketRecord BY DEF SocketRecord
<1>2. Flow(t) BY DEF Core, Flow, Underway, Honest, SocketRecord
<1>3. LookInv(t) /\ Ready(t) BY DEF LookInv, Ready, SocketRecord
<1>4. Leads(s, t) BY DEF Leads, Later, SocketRecord
<1>5. ~t.timer /\ t.ended = s.ended /\ t.ending = s.ending /\ t.destroyed = s.destroyed
  BY DEF SocketRecord
<1> QED BY <1>1, <1>2, <1>3, <1>4, <1>5 DEF Core

\* close() of a socket that has finished and has no timer.
LEMMA CloseGood ==
  ASSUME NEW s, Core(s), LookInv(s), s.handle # "none", s.ended, ~s.timer
  PROVE  /\ Core(close(s)) /\ LookInv(close(s)) /\ Leads(s, close(s))
         /\ close(s).destroyed /\ close(s).ended
<1> s \in SocketRecord BY DEF Core
<1>1. Flow(close(s)) BY DEF Core, Flow, Underway, Honest, close, SocketRecord, HandleStates
<1>2. LookInv(close(s)) /\ close(s).destroyed /\ close(s).ended
  BY DEF LookInv, Core, Flow, close, SocketRecord, HandleStates
<1>3. Leads(s, close(s)) BY DEF Leads, Later, Core, Flow, close, SocketRecord, HandleStates
<1> QED BY <1>1, <1>2, <1>3, CloseType DEF Core

\* destroy() restores all that a good socket promises, even when 'finish' is
\* being emitted and the peer has not been told yet.
LEMMA DestroyGood ==
  ASSUME NEW s, Core(s), LookInv(s), Ready(s)
  PROVE  Good(destroy(s)) /\ Leads(s, destroy(s)) /\ Ready(destroy(s))
<1>1. CASE s.destroyed
  <2>1. destroy(s) = s BY <1>1 DEF destroy
  <2>2. HalfInv(s) BY <1>1 DEF HalfInv
  <2> QED BY <2>1, <2>2, LeadsNowhere DEF Good
<1>2. CASE ~s.destroyed
  <2> DEFINE e == IF s.writable THEN end(s) ELSE s
             t == [e EXCEPT !.timer = FALSE, !.doomed = TRUE]
  <2>1. Core(e) /\ LookInv(e) /\ Leads(s, e) /\ Ready(e) /\ e.ending
    BY EndGood, LeadsNowhere DEF Core, Flow, SocketRecord
  <2>2. destroy(s) = IF t.ended THEN close(t) ELSE [t EXCEPT !.onFinish = TRUE]
    BY <1>2 DEF destroy
  <2>3. Core(t) /\ LookInv(t) /\ Leads(e, t) /\ Ready(t) /\ ~t.timer /\ t.ending
    <3> HIDE DEF e
    <3> QED BY <2>1, MarkGood
  <2>4. Leads(s, t)
    <3> HIDE DEF e, t
    <3> QED BY <2>1, <2>3, LeadsOn
  <2> HIDE DEF e, t
  <2>5. CASE t.ended
    <3>1. /\ Core(close(t)) /\ LookInv(close(t)) /\ Leads(t, close(t))
          /\ close(t).destroyed /\ close(t).ended
      BY <2>3, <2>5, CloseGood DEF Ready
    <3>2. HalfInv(close(t)) BY <3>1 DEF HalfInv
    <3>3. Ready(close(t)) BY <3>1 DEF Ready, Core, Flow
    <3>4. Leads(s, close(t)) BY <2>4, <3>1, LeadsOn
    <3> QED BY <2>2, <2>5, <3>1, <3>2, <3>3, <3>4 DEF Good
  <2>6. CASE ~t.ended
    <3> DEFINE w == [t EXCEPT !.onFinish = TRUE]
    <3> t \in SocketRecord BY <2>3 DEF Core
    <3>1. w \in SocketRecord BY DEF SocketRecord
    <3>2. Flow(w) BY <2>3 DEF Core, Flow, Underway, Honest, SocketRecord
    <3>3. LookInv(w) /\ Ready(w) BY <2>3 DEF LookInv, Ready, SocketRecord
    <3>4. HalfInv(w) BY <2>6 DEF HalfInv, SocketRecord
    <3>5. Leads(t, w) BY DEF Leads, Later, SocketRecord
    <3> HIDE DEF w
    <3>6. Leads(s, w) BY <2>4, <3>5, LeadsOn
    <3> QED BY <2>2, <2>6, <3>1, <3>2, <3>3, <3>4, <3>6 DEF Good, Core, w
  <2> QED BY <2>5, <2>6
<1> QED BY <1>1, <1>2

\* destroySoon() ends the stream and waits for 'finish'.
LEMMA DestroySoonGood ==
  ASSUME NEW s, Good(s), Ready(s)
  PROVE  Good(destroySoon(s)) /\ Leads(s, destroySoon(s))
<1> DEFINE e == IF s.writable THEN end(s) ELSE s
           w == [e EXCEPT !.onFinish = TRUE]
<1>1. Core(e) /\ LookInv(e) /\ Leads(s, e) /\ e.ended = s.ended /\ e.destroyed = s.destroyed
      /\ e.connected = s.connected /\ e.shutdownReq = s.shutdownReq
  <2>1. Core(e) /\ LookInv(e) /\ Leads(s, e) BY EndGood, LeadsNowhere DEF Good
  <2>2. e.ended = s.ended /\ e.destroyed = s.destroyed /\ e.connected = s.connected
        /\ e.shutdownReq = s.shutdownReq
    BY DEF Good, Core, end, SocketRecord
  <2> QED BY <2>1, <2>2
<1>2. destroySoon(s) = w BY DEF destroySoon
<1> HIDE DEF e
<1> e \in SocketRecord BY <1>1 DEF Core
<1>3. w \in SocketRecord BY DEF SocketRecord
<1>4. Flow(w) BY <1>1 DEF Core, Flow, Underway, Honest, SocketRecord
<1>5. LookInv(w) BY <1>1 DEF LookInv, SocketRecord
<1>6. HalfInv(w) BY <1>1 DEF Good, HalfInv, SocketRecord
<1>7. Leads(e, w) BY DEF Leads, Later, SocketRecord
<1> HIDE DEF w
<1>8. Leads(s, w) BY <1>1, <1>7, LeadsOn
<1> QED BY <1>2, <1>3, <1>4, <1>5, <1>6, <1>8 DEF Good, Core

\* maybeDestroy() destroys a socket that is neither readable nor writable.
LEMMA MaybeDestroyGood ==
  ASSUME NEW s, Good(s)
  PROVE  Good(maybeDestroy(s)) /\ Leads(s, maybeDestroy(s))
<1>1. CASE ~s.connecting /\ ~s.writable /\ ~s.readable
  <2>1. Ready(s) BY <1>1 DEF Good, Core, Flow, Ready
  <2> QED BY <1>1, <2>1, DestroyGood DEF Good, maybeDestroy
<1> QED BY <1>1, LeadsNowhere DEF maybeDestroy

\* The idle timer is started, but never that of a destroyed socket.
LEMMA ResetGood ==
  ASSUME NEW s, Good(s)
  PROVE  LET t == resetSocketTimeout(s)
         IN  /\ Good(t) /\ Leads(s, t)
             /\ t.out = s.out /\ t.ending = s.ending /\ t.destroyed = s.destroyed
             /\ t.handle = s.handle /\ t.reading = s.reading /\ t.connected = s.connected
             /\ t.lookup = s.lookup /\ t.writing = s.writing /\ t.asked = s.asked
             /\ t.connectReq = s.connectReq /\ t.ended = s.ended /\ t.tail = s.tail
<1>1. CASE s.destroyed BY <1>1, LeadsNowhere DEF resetSocketTimeout
<1>2. CASE ~s.destroyed
  <2> DEFINE t == [s EXCEPT !.timer = TRUE]
  <2> s \in SocketRecord BY DEF Good, Core
  <2>1. resetSocketTimeout(s) = t BY <1>2 DEF resetSocketTimeout
  <2>2. t \in SocketRecord BY DEF SocketRecord
  <2>3. Flow(t) BY <1>2 DEF Good, Core, Flow, Underway, Honest, SocketRecord
  <2>4. LookInv(t) /\ HalfInv(t) BY DEF Good, LookInv, HalfInv, SocketRecord
  <2>5. Leads(s, t) BY DEF Leads, Later, SocketRecord
  <2>6. /\ t.out = s.out /\ t.ending = s.ending /\ t.destroyed = s.destroyed
        /\ t.handle = s.handle /\ t.reading = s.reading /\ t.connected = s.connected
        /\ t.lookup = s.lookup /\ t.writing = s.writing /\ t.asked = s.asked
        /\ t.connectReq = s.connectReq /\ t.ended = s.ended /\ t.tail = s.tail
    BY DEF SocketRecord
  <2> HIDE DEF t
  <2> QED BY <2>1, <2>2, <2>3, <2>4, <2>5, <2>6 DEF Good, Core
<1> QED BY <1>1, <1>2

\* emitFinish() of a stream that has ended and is flushed: the peer is told, or
\* the socket is destroyed.
LEMMA EmitFinishGood ==
  ASSUME NEW s, Good(s), s.ending, s.out = s.tail
  PROVE  Good(emitFinish(s)) /\ Leads(s, emitFinish(s))
<1>1. CASE s.ended BY <1>1, LeadsNowhere DEF emitFinish
<1>2. CASE ~s.ended
  <2> DEFINE u == [s EXCEPT !.ended = TRUE]
             t == onSocketFinish(u)
  <2> s \in SocketRecord BY DEF Good, Core
  <2>1. Core(u) /\ LookInv(u) /\ Leads(s, u) /\ Ready(u)
    <3>1. u \in SocketRecord BY DEF SocketRecord
    <3>2. Flow(u) BY <1>2 DEF Good, Core, Flow, Underway, Honest, SocketRecord
    <3>3. LookInv(u) BY DEF Good, LookInv, SocketRecord
    <3>4. Leads(s, u) BY DEF Leads, Later, SocketRecord
    <3>5. Ready(u) BY DEF Good, Core, Flow, Ready, SocketRecord
    <3> QED BY <3>1, <3>2, <3>3, <3>4, <3>5 DEF Core
  <2>2. u.handle = "open" /\ s.handle = "open" /\ u.ended /\ u.ending /\ ~u.destroyed
        /\ u.connected = s.connected /\ u.onFinish = s.onFinish
    BY <1>2 DEF Good, Core, Flow, SocketRecord
  <2>3. emitFinish(s) = IF t.onFinish THEN destroy(t) ELSE t
    BY <1>2, <2>2 DEF emitFinish
  <2>4. "endEarly" \notin Habits /\ ~u.connected => u.onFinish
    BY <2>2, <1>2 DEF Good, Core, Flow, HalfInv
  <2> HIDE DEF u
  <2>5. Core(t) /\ LookInv(t) /\ Leads(u, t) /\ Ready(t) /\ (t.onFinish \/ HalfInv(t))
    <3>1. CASE ~u.readable \/ u.eof
      <4>1. t = destroy(u) BY <3>1 DEF onSocketFinish
      <4> QED BY <4>1, <2>1, DestroyGood DEF Good
    <3>2. CASE ~(~u.readable \/ u.eof) /\ u.connected
      <4> DEFINE v == [u EXCEPT !.shutdownReq = "pending"]
      <4>1. t = v BY <3>2, <2>2 DEF onSocketFinish, tcpShutdown, native
      <4> u \in SocketRecord BY <2>1 DEF Core
      <4>2. v \in SocketRecord BY DEF SocketRecord, RequestStates
      <4>3. Flow(v) BY <2>1, <2>2 DEF Core, Flow, Underway, Honest, SocketRecord
      <4>4. LookInv(v) /\ Ready(v) BY <2>1 DEF LookInv, Ready, SocketRecord
      <4>5. HalfInv(v) BY <3>2 DEF HalfInv, SocketRecord
      <4>6. Leads(u, v) BY DEF Leads, Later, SocketRecord
      <4> HIDE DEF v
      <4> QED BY <4>1, <4>2, <4>3, <4>4, <4>5, <4>6 DEF Core
    <3>3. CASE ~(~u.readable \/ u.eof) /\ ~u.connected
      <4>1. t = u BY <3>3, <2>2 DEF onSocketFinish, tcpShutdown, native
      <4>2. u.onFinish \/ HalfInv(u) BY <3>3, <2>4 DEF HalfInv
      <4> QED BY <4>1, <4>2, <2>1, LeadsNowhere
    <3> QED BY <3>1, <3>2, <3>3
  <2> HIDE DEF t
  <2>6. Leads(s, t) BY <2>1, <2>5, LeadsOn
  <2>7. CASE t.onFinish
    <3>1. Good(destroy(t)) /\ Leads(t, destroy(t)) BY <2>5, DestroyGood
    <3> QED BY <2>3, <2>6, <2>7, <3>1, LeadsOn
  <2>8. CASE ~t.onFinish BY <2>3, <2>5, <2>6, <2>8 DEF Good
  <2> QED BY <2>7, <2>8
<1> QED BY <1>1, <1>2

\* writeBuffered() hands the next chunk to the handle, which refuses it when it
\* is closing, or finishes.
LEMMA WriteBufferedGood ==
  ASSUME NEW s, Good(s), s.handle # "closed"
  PROVE  Good(writeBuffered(s)) /\ Leads(s, writeBuffered(s))
<1> s \in SocketRecord BY DEF Good, Core
<1> s.out \in Nat BY DEF SocketRecord
<1>1. CASE s.out > 0
  <2> DEFINE r == resetSocketTimeout(s)
  <2>1. Good(r) /\ Leads(s, r) /\ r.out = s.out /\ r.handle = s.handle BY ResetGood
  <2>2. writeBuffered(s) = tcpWrite(r) BY <1>1 DEF writeBuffered
  <2> HIDE DEF r
  <2> r \in SocketRecord BY <2>1 DEF Good, Core
  <2>3. r.handle \in {"none", "open", "closing"}
    BY <2>1 DEF SocketRecord, HandleStates
  <2>4. CASE r.handle = "none"
    <3> DEFINE v == [r EXCEPT !.threw = TRUE]
    <3>1. tcpWrite(r) = v BY <2>4 DEF tcpWrite, native
    <3>2. v \in SocketRecord BY DEF SocketRecord
    <3>3. Flow(v) BY <2>1 DEF Good, Core, Flow, Underway, Honest, SocketRecord
    <3>4. LookInv(v) /\ HalfInv(v) BY <2>1 DEF Good, LookInv, HalfInv, SocketRecord
    <3>5. Leads(r, v) BY DEF Leads, Later, SocketRecord
    <3> HIDE DEF v
    <3> QED BY <2>1, <2>2, <3>1, <3>2, <3>3, <3>4, <3>5, LeadsOn DEF Good, Core
  <2>5. CASE r.handle = "open"
    <3> DEFINE v == [r EXCEPT !.writing = TRUE]
    <3>1. tcpWrite(r) = v BY <2>5 DEF tcpWrite, native
    <3>2. v \in SocketRecord BY DEF SocketRecord
    <3>3. Flow(v) BY <2>1, <1>1 DEF Good, Core, Flow, Underway, Honest, SocketRecord
    <3>4. LookInv(v) /\ HalfInv(v) BY <2>1 DEF Good, LookInv, HalfInv, SocketRecord
    <3>5. Leads(r, v) BY DEF Leads, Later, SocketRecord
    <3> HIDE DEF v
    <3> QED BY <2>1, <2>2, <3>1, <3>2, <3>3, <3>4, <3>5, LeadsOn DEF Good, Core
  <2>6. CASE r.handle = "closing"
    <3> DEFINE v == [r EXCEPT !.writing = TRUE, !.stuck = TRUE]
    <3>1. tcpWrite(r) = v BY <2>6 DEF tcpWrite
    <3>2. v \in SocketRecord BY DEF SocketRecord
    <3>3. Flow(v) BY <2>1, <1>1 DEF Good, Core, Flow, Underway, Honest, SocketRecord
    <3>4. LookInv(v) /\ HalfInv(v) BY <2>1 DEF Good, LookInv, HalfInv, SocketRecord
    <3>5. Leads(r, v) BY DEF Leads, Later, SocketRecord
    <3> HIDE DEF v
    <3> QED BY <2>1, <2>2, <3>1, <3>2, <3>3, <3>4, <3>5, LeadsOn DEF Good, Core
  <2> QED BY <2>3, <2>4, <2>5, <2>6
<1>2. CASE s.out = 0 /\ s.ending
  <2>1. writeBuffered(s) = emitFinish(s) BY <1>2 DEF writeBuffered
  <2>2. s.out = s.tail BY <1>2 DEF Good, Core, Flow, SocketRecord
  <2> QED BY <2>1, <2>2, <1>2, EmitFinishGood
<1>3. CASE s.out = 0 /\ ~s.ending
  <2>1. writeBuffered(s) = s BY <1>3 DEF writeBuffered
  <2> QED BY <2>1, LeadsNowhere
<1> QED BY <1>1, <1>2, <1>3

\* emitEnd() of a connected socket.
LEMMA EmitEndGood ==
  ASSUME NEW s, Good(s), s.connected
  PROVE  Good(emitEnd(s)) /\ Leads(s, emitEnd(s))
<1>1. CASE s.endEmitted BY <1>1, LeadsNowhere DEF emitEnd
<1>2. CASE ~s.endEmitted
  <2> DEFINE u == [s EXCEPT !.endEmitted = TRUE]
             t == maybeDestroy(u)
  <2> s \in SocketRecord BY DEF Good, Core
  <2>1. Good(u) /\ Leads(s, u) /\ u.connected
    <3>1. u \in SocketRecord /\ u.connected BY DEF SocketRecord
    <3>2. Flow(u) BY DEF Good, Core, Flow, Underway, Honest, SocketRecord
    <3>3. LookInv(u) /\ HalfInv(u) BY DEF Good, LookInv, HalfInv, SocketRecord
    <3>4. Leads(s, u) BY DEF Leads, Later, SocketRecord
    <3> QED BY <3>1, <3>2, <3>3, <3>4 DEF Good, Core
  <2>2. emitEnd(s) = IF u.allowHalfOpen THEN t ELSE destroySoon(t)
    BY <1>2 DEF emitEnd, onSocketEnd
  <2> HIDE DEF u
  <2>3. Good(t) /\ Leads(u, t) BY <2>1, MaybeDestroyGood
  <2> HIDE DEF t
  <2>4. Leads(s, t) BY <2>1, <2>3, LeadsOn
  <2>5. t.connected BY <2>1, <2>3 DEF Leads, Later
  <2>6. Ready(t) BY <2>3, <2>5 DEF Good, Core, Flow, LookInv, Ready
  <2>7. Good(destroySoon(t)) /\ Leads(t, destroySoon(t)) BY <2>3, <2>6, DestroySoonGood
  <2>8. Leads(s, destroySoon(t)) BY <2>4, <2>7, LeadsOn
  <2> QED BY <2>2, <2>3, <2>4, <2>7, <2>8
<1> QED BY <1>1, <1>2

\* The end of the input, read from a connected socket.
LEMMA ReadEofGood ==
  ASSUME NEW s, Good(s), s.connected
  PROVE  Good(readEof(s)) /\ Leads(s, readEof(s))
<1> DEFINE t == [s EXCEPT !.eof = TRUE, !.reading = FALSE]
           u == [emitEnd(t) EXCEPT !.readable = FALSE]
<1> s \in SocketRecord BY DEF Good, Core
<1>1. Good(t) /\ Leads(s, t) /\ t.connected
  <2>1. t \in SocketRecord /\ t.connected BY DEF SocketRecord
  <2>2. Flow(t) BY DEF Good, Core, Flow, Underway, Honest, SocketRecord
  <2>3. LookInv(t) /\ HalfInv(t) BY DEF Good, LookInv, HalfInv, SocketRecord
  <2>4. Leads(s, t) BY DEF Leads, Later, SocketRecord
  <2> QED BY <2>1, <2>2, <2>3, <2>4 DEF Good, Core
<1>2. readEof(s) = IF t.buffered = 0 THEN maybeDestroy(u) ELSE t BY DEF readEof
<1> HIDE DEF t
<1>3. Good(emitEnd(t)) /\ Leads(t, emitEnd(t)) BY <1>1, EmitEndGood
<1>4. Good(u) /\ Leads(emitEnd(t), u)
  <2> DEFINE e == emitEnd(t)
  <2>0. Good(e) BY <1>3
  <2> HIDE DEF e
  <2> e \in SocketRecord BY <2>0 DEF Good, Core
  <2> DEFINE v == [e EXCEPT !.readable = FALSE]
  <2>1. v \in SocketRecord BY DEF SocketRecord
  <2>2. Flow(v) BY <2>0 DEF Good, Core, Flow, Underway, Honest, SocketRecord
  <2>3. LookInv(v) /\ HalfInv(v) BY <2>0 DEF Good, LookInv, HalfInv, SocketRecord
  <2>4. Leads(e, v) BY DEF Leads, Later, SocketRecord
  <2> QED BY <2>1, <2>2, <2>3, <2>4 DEF Good, Core, e
<1> HIDE DEF u
<1>5. Good(maybeDestroy(u)) /\ Leads(u, maybeDestroy(u)) BY <1>4, MaybeDestroyGood
<1>6. Leads(s, maybeDestroy(u)) BY <1>1, <1>3, <1>4, <1>5, LeadsOn
<1> QED BY <1>1, <1>2, <1>5, <1>6

\* The connection is there: what was buffered is written, and reading will start.
LEMMA OnConnectGood ==
  ASSUME NEW s, Good(s), s.handle = "open", Patient => s.lookup # "pending"
  PROVE  Good(onSocketConnect(s)) /\ Later(s, onSocketConnect(s))
<1> DEFINE c == [s EXCEPT !.connecting = FALSE, !.connected = TRUE, !.ready = TRUE]
           t == resetSocketTimeout(c)
           u == writeBuffered(t)
           v == [u EXCEPT !.asked = @ \cup {"readStart"}]
<1> s \in SocketRecord BY DEF Good, Core
<1>1. Good(c) /\ Leads(s, c) /\ c.connected /\ c.handle = "open"
  <2>1. c \in SocketRecord /\ c.connected /\ c.handle = "open" BY DEF SocketRecord
  <2>2. Flow(c) BY DEF Good, Core, Flow, Underway, Honest, SocketRecord
  <2>3. LookInv(c) BY DEF Good, LookInv, SocketRecord
  <2>4. HalfInv(c) BY DEF Good, HalfInv, SocketRecord
  <2>5. Leads(s, c) BY DEF Leads, Later, SocketRecord
  <2> QED BY <2>1, <2>2, <2>3, <2>4, <2>5 DEF Good, Core
<1>2. onSocketConnect(s) = v BY DEF onSocketConnect
<1> HIDE DEF c
<1>3. Good(t) /\ Leads(c, t) /\ t.handle # "closed" BY <1>1, ResetGood
<1> HIDE DEF t
<1>4. Good(u) /\ Leads(t, u) BY <1>3, WriteBufferedGood
<1> HIDE DEF u
<1>5. Leads(s, u) BY <1>1, <1>3, <1>4, LeadsOn
<1>6. u.connected /\ u.handle # "closed"
  <2>1. Leads(c, u) BY <1>3, <1>4, LeadsOn
  <2> QED BY <2>1, <1>1 DEF Leads, Later
<1> u \in SocketRecord BY <1>4 DEF Good, Core
<1>7. v \in SocketRecord BY DEF SocketRecord, TickNames
<1>8. Flow(v) BY <1>4, <1>6 DEF Good, Core, Flow, Underway, Honest, SocketRecord
<1>9. LookInv(v) /\ HalfInv(v) BY <1>4 DEF Good, LookInv, HalfInv, SocketRecord
<1>10. Later(s, v) BY <1>5 DEF Leads, Later, SocketRecord
<1> HIDE DEF v
<1> QED BY <1>2, <1>7, <1>8, <1>9, <1>10 DEF Good, Core

\* Socket.write of a stream that has not ended; end() may have been called.
LEMMA WriteGood ==
  ASSUME NEW s, Good(s), ~s.ended, s.ending => ~Careful
  PROVE  Good(write(s)) /\ Leads(s, write(s))
<1> DEFINE n == IF s.ending THEN s.tail + 1 ELSE s.tail
           t == [s EXCEPT !.out = s.out + 1, !.sent = s.sent + 1, !.tail = n]
<1> s \in SocketRecord BY DEF Good, Core
<1>0. s.out \in Nat /\ s.sent \in Nat /\ s.tail \in Nat BY DEF SocketRecord
<1>1. Good(t) /\ Leads(s, t) /\ t.handle # "closed"
  <2>1. t \in SocketRecord
    <3>1. s.out + 1 \in Nat /\ s.sent + 1 \in Nat /\ n \in Nat BY <1>0
    <3> HIDE DEF n
    <3> QED BY <3>1, Zenon DEF SocketRecord
  <2>2. /\ t.out = s.out + 1 /\ t.tail = n /\ t.ended = s.ended /\ t.ending = s.ending
        /\ t.handle = s.handle
    BY DEF SocketRecord
  <2>3. Flow(t) BY <1>0 DEF Good, Core, Flow, Underway, Honest, SocketRecord
  <2>4. LookInv(t) /\ HalfInv(t) BY DEF Good, LookInv, HalfInv, SocketRecord
  <2>5. Leads(s, t) BY <1>0 DEF Leads, Later, SocketRecord
  <2>6. t.handle # "closed" BY <2>2 DEF Good, Core, Flow
  <2> QED BY <2>1, <2>3, <2>4, <2>5, <2>6 DEF Good, Core
<1>2. write(s) = IF t.ready /\ ~t.writing /\ s.out = 0 THEN writeBuffered(t) ELSE t
  BY DEF write, SocketRecord
<1> HIDE DEF t
<1>3. Good(writeBuffered(t)) /\ Leads(t, writeBuffered(t)) BY <1>1, WriteBufferedGood
<1>4. Leads(s, writeBuffered(t)) BY <1>1, <1>3, LeadsOn
<1> QED BY <1>1, <1>2, <1>3, <1>4

\* A tick that relies on what holds leads to a good socket: reading starts on
\* a handle that is not closed.
LEMMA RunTickGood ==
  ASSUME NEW s, Good(s), NEW tick \in TickNames, Honest(s, tick)
  PROVE  Good(runTick(s, tick)) /\ Leads(s, runTick(s, tick))
<1> s \in SocketRecord BY DEF Good, Core
<1>1. CASE tick = "finish"
  <2>1. runTick(s, tick) = emitFinish(s) BY <1>1 DEF runTick
  <2> QED BY <2>1, <1>1, EmitFinishGood DEF Honest
<1>2. CASE tick = "readStart" /\ s.handle = "closing"
  <2>1. runTick(s, tick) = s BY <1>2 DEF runTick, tcpReadStart
  <2> QED BY <2>1, LeadsNowhere
<1>3. CASE tick = "readStart" /\ s.handle # "closing"
  <2> DEFINE v == [s EXCEPT !.reading = TRUE]
  <2>1. s.handle = "open" /\ s.connected
    BY <1>3 DEF Honest, Good, Core, Flow, SocketRecord, HandleStates
  <2>2. runTick(s, tick) = v BY <1>3, <2>1 DEF runTick, tcpReadStart, native
  <2>3. v \in SocketRecord BY DEF SocketRecord
  <2>4. Flow(v) BY <2>1 DEF Good, Core, Flow, Underway, Honest, SocketRecord
  <2>5. LookInv(v) /\ HalfInv(v) BY DEF Good, LookInv, HalfInv, SocketRecord
  <2>6. Leads(s, v) BY DEF Leads, Later, SocketRecord
  <2> HIDE DEF v
  <2> QED BY <2>2, <2>3, <2>4, <2>5, <2>6 DEF Good, Core
<1>4. CASE tick = "lookupFailed"
  <2> DEFINE v == [s EXCEPT !.threw = TRUE]
  <2>1. runTick(s, tick) = v BY <1>4 DEF runTick
  <2>2. v \in SocketRecord BY DEF SocketRecord
  <2>3. Flow(v) BY DEF Good, Core, Flow, Underway, Honest, SocketRecord
  <2>4. LookInv(v) /\ HalfInv(v) BY DEF Good, LookInv, HalfInv, SocketRecord
  <2>5. Leads(s, v) BY DEF Leads, Later, SocketRecord
  <2> HIDE DEF v
  <2> QED BY <2>1, <2>2, <2>3, <2>4, <2>5 DEF Good, Core
<1> QED BY <1>1, <1>2, <1>3, <1>4 DEF TickNames

-----------------------------------------------------------------------------
(* The steps.                                                              *)

\* Every tick that waits may rely on what it needs.  The tick that starts
\* reading is queued by a frame and runs at its end, so that the loop cannot
\* close the handle before.
TickInv ==
  /\ js \in {"frame", "ticks", "idle"}
  /\ queue \in Seq(TickNames) /\ batch \in Seq(TickNames)
  /\ \A i \in 1..Len(queue) : Honest(sock, queue[i])
  /\ \A i \in 1..Len(batch) : Honest(sock, batch[i])
  /\ js # "frame" => \A i \in 1..Len(queue) : queue[i] # "readStart"
  /\ js # "ticks" => batch = <<>>

\* The inductive invariant.
SocketInv == Good(sock) /\ sock.asked = {} /\ TickInv

\* What a call has queued: the ticks that it asked for.
LEMMA QueueAsked ==
  ASSUME NEW s
  PROVE  Queue(s) \in Seq(TickNames) /\ \A i \in 1..Len(Queue(s)) : Queue(s)[i] \in s.asked
<1> DEFINE a == IF "readStart" \in s.asked THEN <<"readStart">> ELSE <<>>
           b == IF "finish" \in s.asked THEN <<"finish">> ELSE <<>>
           c == IF "lookupFailed" \in s.asked THEN <<"lookupFailed">> ELSE <<>>
<1>1. a \in Seq(TickNames) /\ b \in Seq(TickNames) /\ c \in Seq(TickNames)
  <2>1. "readStart" \in TickNames /\ "finish" \in TickNames /\ "lookupFailed" \in TickNames
    BY DEF TickNames
  <2>2. /\ <<"readStart">> \in Seq(TickNames) /\ <<"finish">> \in Seq(TickNames)
        /\ <<"lookupFailed">> \in Seq(TickNames) /\ <<>> \in Seq(TickNames)
    BY <2>1
  <2> QED BY <2>2, Zenon
<1>2. /\ \A i \in 1..Len(a) : a[i] \in s.asked
      /\ \A i \in 1..Len(b) : b[i] \in s.asked
      /\ \A i \in 1..Len(c) : c[i] \in s.asked
  OBVIOUS
<1> DEFINE d == a \o b
<1>3. Queue(s) = d \o c BY DEF Queue
<1> HIDE DEF a, b, c
<1>4. ASSUME NEW u \in Seq(TickNames), NEW v \in Seq(TickNames),
             \A i \in 1..Len(u) : u[i] \in s.asked, \A i \in 1..Len(v) : v[i] \in s.asked
      PROVE  u \o v \in Seq(TickNames) /\ \A i \in 1..Len(u \o v) : (u \o v)[i] \in s.asked
  <2>1. ASSUME NEW i \in 1..Len(u \o v)
        PROVE  \/ i \in 1..Len(u) /\ (u \o v)[i] = u[i]
               \/ i - Len(u) \in 1..Len(v) /\ (u \o v)[i] = v[i - Len(u)]
    OBVIOUS
  <2> QED BY <1>4, <2>1
<1>5. d \in Seq(TickNames) /\ \A i \in 1..Len(d) : d[i] \in s.asked BY <1>1, <1>2, <1>4
<1> HIDE DEF d
<1> QED BY <1>1, <1>2, <1>3, <1>4, <1>5

\* ... which may rely on what they need.
LEMMA QueueHonest ==
  ASSUME NEW s, Core(s)
  PROVE  /\ Queue(s) \in Seq(TickNames)
         /\ \A i \in 1..Len(Queue(s)) : Queue(s)[i] \in s.asked /\ Honest(s, Queue(s)[i])
<1>1. \A tick \in s.asked : Honest(s, tick) BY DEF Core, Flow, Honest
<1> QED BY <1>1, QueueAsked

\* The socket that is left when the ticks asked for are in the queue.
LEMMA AskedGood ==
  ASSUME NEW s, Good(s)
  PROVE  LET t == [s EXCEPT !.asked = {}]
         IN  /\ Good(t) /\ t.asked = {}
             /\ \A tick : Honest(s, tick) => Honest(t, tick)
<1> DEFINE t == [s EXCEPT !.asked = {}]
<1> s \in SocketRecord BY DEF Good, Core
<1>1. t \in SocketRecord /\ t.asked = {} BY DEF SocketRecord
<1>2. Flow(t) BY DEF Good, Core, Flow, Underway, Honest, SocketRecord
<1>3. LookInv(t) /\ HalfInv(t) BY DEF Good, LookInv, HalfInv, SocketRecord
<1>4. \A tick : Honest(s, tick) => Honest(t, tick) BY DEF Honest, SocketRecord
<1> QED BY <1>1, <1>2, <1>3, <1>4 DEF Good, Core

\* What a tick relies on is kept by what comes later.
LEMMA LaterHonest ==
  ASSUME NEW s, NEW t, Later(s, t), NEW tick, Honest(s, tick)
  PROVE  Honest(t, tick)
BY DEF Later, Honest

\* The queue when a call has put its ticks behind those that wait.
LEMMA AppendHonest ==
  ASSUME NEW t, NEW q \in Seq(TickNames), NEW r \in Seq(TickNames),
         \A i \in 1..Len(q) : Honest(t, q[i]), \A i \in 1..Len(r) : Honest(t, r[i])
  PROVE  /\ q \o r \in Seq(TickNames)
         /\ \A i \in 1..Len(q \o r) : Honest(t, (q \o r)[i])
         /\ (/\ \A i \in 1..Len(q) : q[i] # "readStart"
             /\ \A i \in 1..Len(r) : r[i] # "readStart")
            => \A i \in 1..Len(q \o r) : (q \o r)[i] # "readStart"
<1>1. ASSUME NEW i \in 1..Len(q \o r)
      PROVE  \/ i \in 1..Len(q) /\ (q \o r)[i] = q[i]
             \/ i - Len(q) \in 1..Len(r) /\ (q \o r)[i] = r[i - Len(q)]
  OBVIOUS
<1>2. q \o r \in Seq(TickNames) OBVIOUS
<1> QED BY <1>1, <1>2

\* A call of the user.
LEMMA CallKeeps ==
  ASSUME SocketInv, NEW s, Good(s), Leads(sock, s), Call(s)
  PROVE  SocketInv'
<1> DEFINE t == [s EXCEPT !.asked = {}]
<1>1. Good(t) /\ t.asked = {} /\ \A tick : Honest(s, tick) => Honest(t, tick)
  BY AskedGood
<1>2. sock' = t BY DEF Call, Becomes
<1> HIDE DEF t
<1>3. \A tick : Honest(sock, tick) => Honest(t, tick)
  BY <1>1, LaterHonest DEF Leads
<1>4. /\ Queue(s) \in Seq(TickNames)
      /\ \A i \in 1..Len(Queue(s)) : Queue(s)[i] # "readStart" /\ Honest(t, Queue(s)[i])
  <2>1. "readStart" \notin s.asked BY DEF SocketInv, Leads
  <2> QED BY <2>1, <1>1, QueueHonest DEF Good
<1> DEFINE q == queue
           r == Queue(s)
<1>5. queue' = q \o r /\ js' = js /\ batch' = batch /\ js # "idle" BY DEF Call, CallStep
<1>6. q \in Seq(TickNames) /\ \A i \in 1..Len(q) : Honest(t, q[i])
  BY <1>3 DEF SocketInv, TickInv
<1>7. js # "frame" => \A i \in 1..Len(q) : q[i] # "readStart" BY DEF SocketInv, TickInv
<1>8. r \in Seq(TickNames) /\ \A i \in 1..Len(r) : r[i] # "readStart" /\ Honest(t, r[i])
  BY <1>4
<1> HIDE DEF q, r
<1>9. /\ q \o r \in Seq(TickNames)
      /\ \A i \in 1..Len(q \o r) : Honest(t, (q \o r)[i])
      /\ js # "frame" => \A i \in 1..Len(q \o r) : (q \o r)[i] # "readStart"
  BY <1>6, <1>7, <1>8, AppendHonest
<1>10. /\ js \in {"frame", "ticks", "idle"} /\ batch \in Seq(TickNames)
       /\ \A i \in 1..Len(batch) : Honest(t, batch[i])
       /\ js # "ticks" => batch = <<>>
  BY <1>3 DEF SocketInv, TickInv
<1>11. TickInv' BY <1>2, <1>5, <1>9, <1>10 DEF TickInv
<1> QED BY <1>1, <1>2, <1>11 DEF SocketInv

\* A callback of the loop, which alone may ask for reading to start.  The
\* ticks that waited may rely on the new socket if they might on the old one.
LEMMA EventKeeps ==
  ASSUME SocketInv, NEW s, Good(s), Event(s),
         \A i \in 1..Len(queue) : Honest(s, queue[i])
  PROVE  SocketInv'
<1> DEFINE t == [s EXCEPT !.asked = {}]
<1>1. Good(t) /\ t.asked = {} /\ \A tick : Honest(s, tick) => Honest(t, tick)
  BY AskedGood
<1>2. sock' = t BY DEF Event, Becomes
<1> HIDE DEF t
<1> DEFINE q == queue
           r == Queue(s)
<1>3. queue' = q \o r /\ js' = "frame" /\ batch' = batch /\ batch = <<>>
  BY DEF Event, EventStep, SocketInv, TickInv
<1>4. q \in Seq(TickNames) /\ \A i \in 1..Len(q) : Honest(t, q[i])
  BY <1>1 DEF SocketInv, TickInv
<1>5. r \in Seq(TickNames) /\ \A i \in 1..Len(r) : Honest(t, r[i])
  BY <1>1, QueueHonest DEF Good
<1> HIDE DEF q, r
<1>6. q \o r \in Seq(TickNames) /\ \A i \in 1..Len(q \o r) : Honest(t, (q \o r)[i])
  BY <1>4, <1>5, AppendHonest
<1>7. TickInv' BY <1>2, <1>3, <1>6 DEF TickInv
<1> QED BY <1>1, <1>2, <1>7 DEF SocketInv

\* A callback that keeps what the waiting ticks rely on.
LEMMA EventLeads ==
  ASSUME SocketInv, NEW s, Good(s), Later(sock, s), Event(s)
  PROVE  SocketInv'
BY EventKeeps, LaterHonest DEF SocketInv, TickInv

\* Socket.connect.
LEMMA ConnectKeeps ==
  ASSUME SocketInv, connect
  PROVE  SocketInv'
<1> DEFINE r == resetSocketTimeout(sock)
           h == IF r.handle = "none" THEN "open" ELSE r.handle
           s == [r EXCEPT !.connecting = TRUE, !.handle = IF @ = "none" THEN "open" ELSE @]
<1>1. /\ Good(r) /\ Leads(sock, r) /\ r.handle = sock.handle /\ r.connected = sock.connected
      /\ r.connectReq = sock.connectReq /\ r.ending = sock.ending
  BY ResetGood DEF SocketInv
<1>2. Patient => sock.handle = "none" BY DEF connect, Patient
<1>3. PICK accepted \in BOOLEAN : Call(GetAddrInfo(s, accepted)) BY DEF connect
<1>4. s = [r EXCEPT !.connecting = TRUE, !.handle = h]
  BY <1>1 DEF Good, Core, SocketRecord
<1>5. ~sock.connected BY DEF connect
<1> HIDE DEF r
<1> r \in SocketRecord BY <1>1 DEF Good, Core
<1> DEFINE w == [r EXCEPT !.connecting = TRUE, !.handle = h]
<1>6. Good(w) /\ Leads(r, w) /\ w.handle # "none" /\ w.connected = r.connected
      /\ w.connectReq = r.connectReq /\ w.ending = r.ending /\ w \in SocketRecord
  <2>1. w \in SocketRecord BY DEF SocketRecord, HandleStates
  <2>2. Flow(w) BY <1>1 DEF Good, Core, Flow, Underway, Honest, SocketRecord
  <2>3. LookInv(w) /\ HalfInv(w) BY <1>1 DEF Good, LookInv, HalfInv, SocketRecord
  <2>4. Leads(r, w) BY DEF Leads, Later, SocketRecord
  <2>5. w.handle # "none" /\ w.connected = r.connected
        /\ w.connectReq = r.connectReq /\ w.ending = r.ending
    BY DEF SocketRecord
  <2> QED BY <2>1, <2>2, <2>3, <2>4, <2>5 DEF Good, Core
<1> HIDE DEF h, w
<1> DEFINE u == [w EXCEPT !.lookup = "pending"]
<1>7. Good(u) /\ Leads(w, u)
  <2>1. u \in SocketRecord BY <1>6 DEF SocketRecord, RequestStates
  <2>2. Flow(u) BY <1>6 DEF Good, Core, Flow, Underway, Honest, SocketRecord
  <2>3. Patient => ~w.connected /\ w.connectReq = "none" /\ ~w.ending
    BY <1>1, <1>2, <1>5, <1>6 DEF SocketInv, Good, Core, Flow
  <2>4. LookInv(u) BY <1>6, <2>3 DEF Good, LookInv, SocketRecord
  <2>5. HalfInv(u) BY <1>6 DEF Good, HalfInv, SocketRecord
  <2>6. Leads(w, u) BY <1>6 DEF Leads, Later, SocketRecord
  <2> QED BY <2>1, <2>2, <2>4, <2>5, <2>6 DEF Good, Core
<1>8. GetAddrInfo(s, accepted) = IF accepted THEN u ELSE w BY <1>4 DEF GetAddrInfo, w
<1>9. Leads(sock, w) /\ Leads(sock, u) BY <1>1, <1>6, <1>7, LeadsOn
<1> HIDE DEF s, u
<1> QED BY <1>3, <1>6, <1>7, <1>8, <1>9, CallKeeps

\* The calls of the user keep the invariant.
LEMMA UserKeeps ==
  ASSUME SocketInv, UserStep \/ Resume
  PROVE  SocketInv'
<1> sock \in SocketRecord /\ Good(sock) BY DEF SocketInv, Good, Core
<1>1. CASE connect BY <1>1, ConnectKeeps
<1>2. CASE Write
  <2>1. CASE sock.ended BY <1>2, <2>1, LeadsNowhere, CallKeeps DEF Write
  <2>2. CASE ~sock.ended BY <1>2, <2>2, WriteGood, CallKeeps DEF Write, Careful
  <2> QED BY <2>1, <2>2
<1>3. CASE End
  <2>1. Ready(sock) /\ ("endEarly" \notin Habits => sock.connected)
    BY <1>3 DEF End, MayEnd, MayDestroy, Ready, Patient
  <2>2. Core(end(sock)) /\ LookInv(end(sock)) /\ Leads(sock, end(sock))
    BY <2>1, EndGood DEF Good
  <2>3. HalfInv(end(sock))
    BY <2>1 DEF Good, HalfInv, end, SocketRecord
  <2> QED BY <1>3, <2>2, <2>3, CallKeeps DEF End, Good
<1>4. CASE Destroy
  <2>1. Ready(sock) BY <1>4 DEF Destroy, MayDestroy, Ready, Patient
  <2> QED BY <1>4, <2>1, DestroyGood, CallKeeps DEF Destroy, Good
<1>5. CASE setTimeout
  <2> PICK on \in BOOLEAN : Call([sock EXCEPT !.timer = on]) BY <1>5 DEF setTimeout
  <2> DEFINE t == [sock EXCEPT !.timer = on]
  <2>1. t \in SocketRecord BY DEF SocketRecord
  <2>2. Flow(t)
    BY <1>5 DEF setTimeout, Punctual, Good, Core, Flow, Underway, Honest, SocketRecord
  <2>3. LookInv(t) /\ HalfInv(t) BY DEF Good, LookInv, HalfInv, SocketRecord
  <2>4. Leads(sock, t) BY DEF Leads, Later, SocketRecord
  <2> QED BY <2>1, <2>2, <2>3, <2>4, CallKeeps DEF Good, Core
<1>6. CASE Pause
  <2> DEFINE t == [sock EXCEPT !.flowing = FALSE]
  <2>1. t \in SocketRecord BY DEF SocketRecord
  <2>2. Flow(t) BY DEF Good, Core, Flow, Underway, Honest, SocketRecord
  <2>3. LookInv(t) /\ HalfInv(t) BY DEF Good, LookInv, HalfInv, SocketRecord
  <2>4. Leads(sock, t) BY DEF Leads, Later, SocketRecord
  <2> QED BY <1>6, <2>1, <2>2, <2>3, <2>4, CallKeeps DEF Pause, Good, Core
<1>7. CASE Resume
  <2> DEFINE t == [sock EXCEPT !.flowing = TRUE, !.buffered = 0]
  <2>1. t \in SocketRecord BY DEF SocketRecord
  <2>2. Flow(t) BY DEF Good, Core, Flow, Underway, Honest, SocketRecord
  <2>3. LookInv(t) /\ HalfInv(t) BY DEF Good, LookInv, HalfInv, SocketRecord
  <2>4. Leads(sock, t) BY DEF Leads, Later, SocketRecord
  <2>5. Call(IF sock.buffered > 0 /\ t.eof THEN emitEnd(t) ELSE t) BY <1>7 DEF Resume
  <2>6. Good(t) /\ (t.eof => t.connected) BY <2>1, <2>2, <2>3 DEF Good, Core, Flow
  <2> HIDE DEF t
  <2>7. CASE sock.buffered > 0 /\ t.eof
    <3>1. Good(emitEnd(t)) /\ Leads(t, emitEnd(t)) BY <2>6, <2>7, EmitEndGood
    <3>2. Leads(sock, emitEnd(t)) BY <2>4, <3>1, LeadsOn
    <3> QED BY <2>5, <2>7, <3>1, <3>2, CallKeeps
  <2>8. CASE ~(sock.buffered > 0 /\ t.eof) BY <2>4, <2>5, <2>6, <2>8, CallKeeps
  <2> QED BY <2>7, <2>8
<1> QED BY <1>1, <1>2, <1>3, <1>4, <1>5, <1>6, <1>7 DEF UserStep

\* The answer of the lookup: connect() of an open handle, unless the user did
\* not wait for it.
LEMMA LookupDoneKeeps ==
  ASSUME SocketInv, LookupDone
  PROVE  SocketInv'
<1> DEFINE s == [sock EXCEPT !.lookup = "done"]
           f == [s EXCEPT !.asked = {"lookupFailed"}]
           r == resetSocketTimeout(s)
<1> sock \in SocketRecord /\ Good(sock) BY DEF SocketInv, Good, Core
<1>1. sock.lookup = "pending" BY DEF LookupDone
<1>2. sock.handle # "none" BY <1>1 DEF Good, Core, Flow
<1>3. Patient => sock.handle = "open" BY <1>1, <1>2 DEF Good, Core, Flow, LookInv
<1>4. Event(f) \/ \E refused \in BOOLEAN : Event(tcpConnect(r, refused)) BY DEF LookupDone
<1>5. Good(s) /\ Leads(sock, s) /\ s.handle = sock.handle /\ s.lookup = "done"
  <2>1. s \in SocketRecord /\ s.handle = sock.handle /\ s.lookup = "done"
    BY DEF SocketRecord, RequestStates
  <2>2. Flow(s) BY <1>2 DEF Good, Core, Flow, Underway, Honest, SocketRecord
  <2>3. LookInv(s) /\ HalfInv(s) BY DEF Good, LookInv, HalfInv, SocketRecord
  <2>4. Leads(sock, s) BY DEF Leads, Later, SocketRecord
  <2> QED BY <2>1, <2>2, <2>3, <2>4 DEF Good, Core
<1> HIDE DEF s
<1> s \in SocketRecord BY <1>5 DEF Good, Core
<1>6. CASE Event(f)
  <2>1. f \in SocketRecord BY DEF SocketRecord, TickNames
  <2>2. Flow(f) BY <1>5 DEF Good, Core, Flow, Underway, Honest, SocketRecord
  <2>3. LookInv(f) /\ HalfInv(f) BY <1>5 DEF Good, LookInv, HalfInv, SocketRecord
  <2>4. Later(s, f) BY DEF Later, SocketRecord
  <2>5. Later(sock, f) BY <1>5, <2>4 DEF Leads, Later
  <2> QED BY <1>6, <2>1, <2>2, <2>3, <2>5, EventLeads DEF Good, Core
<1>7. ASSUME NEW refused \in BOOLEAN, Event(tcpConnect(r, refused)) PROVE SocketInv'
  <2> DEFINE p == [r EXCEPT !.connectReq = "pending"]
             m == [r EXCEPT !.misused = TRUE]
             n == [r EXCEPT !.threw = TRUE]
  <2>1. Good(r) /\ Leads(s, r) /\ r.handle = s.handle /\ r.lookup = s.lookup
    BY <1>5, ResetGood
  <2>2. tcpConnect(r, refused) = CASE r.handle = "none" -> n
                                   [] r.handle = "open" -> IF refused THEN r ELSE p
                                   [] OTHER -> m
    BY DEF tcpConnect, native
  <2> HIDE DEF r
  <2> r \in SocketRecord BY <2>1 DEF Good, Core
  <2>3. Later(sock, r) BY <1>5, <2>1, LeadsOn DEF Leads
  <2>4. CASE r.handle = "open" /\ refused
    <3>1. tcpConnect(r, refused) = r BY <2>2, <2>4
    <3> QED BY <3>1, <1>7, <2>1, <2>3, EventLeads
  <2>5. CASE r.handle = "open" /\ ~refused
    <3>1. tcpConnect(r, refused) = p BY <2>2, <2>5
    <3>2. p \in SocketRecord BY DEF SocketRecord, RequestStates
    <3>3. Flow(p) BY <2>1, <2>5 DEF Good, Core, Flow, Underway, Honest, SocketRecord
    <3>4. LookInv(p) /\ HalfInv(p)
      BY <2>1, <1>5 DEF Good, LookInv, HalfInv, SocketRecord
    <3>5. Later(sock, p) BY <2>3 DEF Later, SocketRecord
    <3> QED BY <1>7, <3>1, <3>2, <3>3, <3>4, <3>5, EventLeads DEF Good, Core
  <2>6. CASE r.handle # "open"
    <3>1. ~Patient /\ r.handle # "none" BY <2>1, <2>6, <1>2, <1>3, <1>5
    <3>2. tcpConnect(r, refused) = m BY <2>2, <2>6, <3>1
    <3>3. m \in SocketRecord BY DEF SocketRecord
    <3>4. Flow(m) BY <2>1 DEF Good, Core, Flow, Underway, Honest, SocketRecord
    <3>5. LookInv(m) BY <3>1 DEF LookInv
    <3>6. HalfInv(m) BY <2>1 DEF Good, HalfInv, SocketRecord
    <3>7. Later(sock, m) BY <2>3 DEF Later, SocketRecord
    <3> QED BY <1>7, <3>2, <3>3, <3>4, <3>5, <3>6, <3>7, EventLeads DEF Good, Core
  <2> QED BY <2>4, <2>5, <2>6
<1> QED BY <1>4, <1>6, <1>7

\* The callback of connect().
LEMMA AfterConnectKeeps ==
  ASSUME SocketInv, AfterConnect
  PROVE  SocketInv'
<1> DEFINE s == [sock EXCEPT !.connectReq = "done"]
           t == [s EXCEPT !.connecting = FALSE]
<1> sock \in SocketRecord /\ Good(sock) BY DEF SocketInv, Good, Core
<1>1. sock.connectReq = "pending" BY DEF AfterConnect
<1>2. PICK failed \in BOOLEAN : Event(afterConnect(s, failed)) BY DEF AfterConnect
<1>3. afterConnect(s, failed) = CASE t.destroyed -> t
                                  [] ~t.destroyed /\ failed -> destroy(t)
                                  [] OTHER -> onSocketConnect(t)
  BY DEF afterConnect
<1>4. Good(t) /\ Later(sock, t) /\ t.handle = sock.handle /\ t.lookup = sock.lookup
  <2>1. s \in SocketRecord BY DEF SocketRecord, RequestStates
  <2>2. t \in SocketRecord
    <3> HIDE DEF s
    <3> QED BY <2>1 DEF SocketRecord
  <2>3. t.handle = sock.handle /\ t.lookup = sock.lookup BY DEF SocketRecord
  <2>4. Flow(t) BY <1>1 DEF Good, Core, Flow, Underway, Honest, SocketRecord
  <2>5. LookInv(t) BY <1>1 DEF Good, LookInv, SocketRecord
  <2>6. HalfInv(t) BY DEF Good, HalfInv, SocketRecord
  <2>7. Later(sock, t) BY DEF Later, SocketRecord
  <2> QED BY <2>2, <2>3, <2>4, <2>5, <2>6, <2>7 DEF Good, Core
<1>5. t.handle # "none" /\ (Patient => t.lookup # "pending")
  BY <1>1, <1>4 DEF Good, Core, Flow, LookInv
<1> HIDE DEF s, t
<1>6. CASE t.destroyed
  <2>1. afterConnect(s, failed) = t BY <1>3, <1>6
  <2> QED BY <1>2, <1>4, <2>1, EventLeads
<1>7. CASE ~t.destroyed /\ failed
  <2>1. afterConnect(s, failed) = destroy(t) BY <1>3, <1>7
  <2>2. Good(destroy(t)) /\ Leads(t, destroy(t)) BY <1>4, <1>5, DestroyGood DEF Good, Ready
  <2>3. Later(sock, destroy(t)) BY <1>4, <2>2 DEF Leads, Later
  <2> QED BY <1>2, <2>1, <2>2, <2>3, EventLeads
<1>8. CASE ~t.destroyed /\ ~failed
  <2>1. afterConnect(s, failed) = onSocketConnect(t) BY <1>3, <1>8
  <2>2. t.handle = "open" BY <1>4, <1>5, <1>8 DEF Good, Core, Flow
  <2>3. Good(onSocketConnect(t)) /\ Later(t, onSocketConnect(t))
    BY <1>4, <1>5, <2>2, OnConnectGood
  <2>4. Later(sock, onSocketConnect(t)) BY <1>4, <2>3 DEF Later
  <2> QED BY <1>2, <2>1, <2>3, <2>4, EventLeads
<1> QED BY <1>6, <1>7, <1>8

\* The other callbacks of the loop.
LEMMA LoopKeeps ==
  ASSUME SocketInv, LoopStep
  PROVE  SocketInv'
<1> sock \in SocketRecord /\ Good(sock) BY DEF SocketInv, Good, Core
<1>1. CASE LookupDone BY <1>1, LookupDoneKeeps
<1>2. CASE AfterConnect BY <1>2, AfterConnectKeeps
<1>3. CASE AfterWrite
  <2> DEFINE n == IF sock.tail = sock.out THEN sock.tail - 1 ELSE sock.tail
             t == [sock EXCEPT !.writing = FALSE, !.out = sock.out - 1, !.tail = n]
  <2>0. afterWrite(sock) = t BY DEF afterWrite, SocketRecord
  <2>1. Event(writeBuffered(t)) /\ Underway(sock) BY <1>3, <2>0 DEF AfterWrite
  <2>2. /\ sock.out \in Nat /\ sock.out > 0 /\ sock.tail \in Nat
        /\ sock.out - 1 \in Nat /\ n \in Nat /\ sock.handle # "closed"
    BY <2>1 DEF Good, Core, Flow, Underway, SocketRecord
  <2>3. t \in SocketRecord
    <3> HIDE DEF n
    <3> QED BY <2>2, Zenon DEF SocketRecord
  <2>4. Flow(t) BY <2>2 DEF SocketInv, Good, Core, Flow, Underway, Honest, SocketRecord
  <2>5. LookInv(t) /\ HalfInv(t) BY DEF Good, LookInv, HalfInv, SocketRecord
  <2>6. Leads(sock, t) BY <2>2 DEF Leads, Later, SocketRecord
  <2>7. Good(t) /\ t.handle # "closed" BY <2>2, <2>3, <2>4, <2>5 DEF Good, Core, SocketRecord
  <2> HIDE DEF t
  <2>8. Good(writeBuffered(t)) /\ Leads(t, writeBuffered(t)) BY <2>7, WriteBufferedGood
  <2>9. Later(sock, writeBuffered(t)) BY <2>6, <2>8, LeadsOn DEF Leads
  <2> QED BY <2>1, <2>8, <2>9, EventLeads
<1>4. CASE OnReadData
  <2> DEFINE r == resetSocketTimeout(sock)
             s == [r EXCEPT !.received = @ + 1]
             t == [s EXCEPT !.buffered = @ + 1]
  <2>1. Event(IF s.flowing THEN s ELSE t) BY <1>4 DEF OnReadData
  <2>2. Good(r) /\ Leads(sock, r) BY ResetGood
  <2> HIDE DEF r
  <2>3. r \in SocketRecord BY <2>2 DEF Good, Core
  <2>4. s \in SocketRecord
    <3>1. r.received + 1 \in Nat BY <2>3 DEF SocketRecord
    <3> QED BY <2>3, <3>1, Zenon DEF SocketRecord
  <2>5. t \in SocketRecord
    <3> HIDE DEF s
    <3>1. s.buffered + 1 \in Nat BY <2>4 DEF SocketRecord
    <3> QED BY <2>4, <3>1, Zenon DEF SocketRecord
  <2>6. Flow(s) /\ Flow(t) BY <2>2, <2>3 DEF Good, Core, Flow, Underway, Honest, SocketRecord
  <2>7. LookInv(s) /\ HalfInv(s) BY <2>2, <2>3 DEF Good, LookInv, HalfInv, SocketRecord
  <2>8. LookInv(t) /\ HalfInv(t) BY <2>2, <2>3 DEF Good, LookInv, HalfInv, SocketRecord
  <2>9. Later(r, s) /\ Later(r, t) BY <2>3 DEF Later, SocketRecord
  <2> HIDE DEF s, t
  <2>10. Later(sock, s) /\ Later(sock, t) BY <2>2, <2>9 DEF Leads, Later
  <2> QED BY <2>1, <2>4, <2>5, <2>6, <2>7, <2>8, <2>10, EventLeads DEF Good, Core
<1>5. CASE OnReadEof
  <2> DEFINE r == resetSocketTimeout(sock)
  <2>1. Event(readEof(r)) /\ sock.reading BY <1>5 DEF OnReadEof
  <2>2. Good(r) /\ Leads(sock, r) /\ r.connected = sock.connected BY ResetGood
  <2>3. sock.connected BY <2>1 DEF Good, Core, Flow
  <2> HIDE DEF r
  <2>4. Good(readEof(r)) /\ Leads(r, readEof(r)) BY <2>2, <2>3, ReadEofGood
  <2>5. Later(sock, readEof(r)) BY <2>2, <2>4, LeadsOn DEF Leads
  <2> QED BY <2>1, <2>4, <2>5, EventLeads
<1>6. CASE OnReadError
  <2> DEFINE r == resetSocketTimeout(sock)
             t == [r EXCEPT !.reading = FALSE]
  <2>1. Event(t) BY <1>6 DEF OnReadError
  <2>2. Good(r) /\ Leads(sock, r) BY ResetGood
  <2> HIDE DEF r
  <2> r \in SocketRecord BY <2>2 DEF Good, Core
  <2>3. t \in SocketRecord BY DEF SocketRecord
  <2>4. Flow(t) BY <2>2 DEF Good, Core, Flow, Underway, Honest, SocketRecord
  <2>5. LookInv(t) /\ HalfInv(t) BY <2>2 DEF Good, LookInv, HalfInv, SocketRecord
  <2>6. Later(r, t) BY DEF Later, SocketRecord
  <2> HIDE DEF t
  <2>7. Later(sock, t) BY <2>2, <2>6 DEF Leads, Later
  <2> QED BY <2>1, <2>3, <2>4, <2>5, <2>7, EventLeads DEF Good, Core
<1>7. CASE AfterShutdown
  <2> DEFINE t == [sock EXCEPT !.shutdownReq = "done"]
  <2>1. Event(IF t.eof THEN destroy(t) ELSE t) /\ sock.shutdownReq = "pending"
    BY <1>7 DEF AfterShutdown
  <2>2. t \in SocketRecord BY DEF SocketRecord, RequestStates
  <2>3. Flow(t) BY DEF Good, Core, Flow, Underway, Honest, SocketRecord
  <2>4. LookInv(t) /\ HalfInv(t) BY DEF Good, LookInv, HalfInv, SocketRecord
  <2>5. Leads(sock, t) BY DEF Leads, Later, SocketRecord
  <2>6. Ready(t) BY <2>1 DEF Good, Core, Flow, Ready, SocketRecord
  <2> HIDE DEF t
  <2>7. Good(t) BY <2>2, <2>3, <2>4 DEF Good, Core
  <2>8. Good(destroy(t)) /\ Leads(t, destroy(t)) BY <2>6, <2>7, DestroyGood DEF Good
  <2>9. Later(sock, t) /\ Later(sock, destroy(t)) BY <2>5, <2>8, LeadsOn DEF Leads
  <2> QED BY <2>1, <2>7, <2>8, <2>9, EventLeads
<1>8. CASE Timeout
  <2> DEFINE t == [sock EXCEPT !.timer = FALSE]
  <2>1. t \in SocketRecord BY DEF SocketRecord
  <2>2. Flow(t) BY DEF Good, Core, Flow, Underway, Honest, SocketRecord
  <2>3. LookInv(t) /\ HalfInv(t) BY DEF Good, LookInv, HalfInv, SocketRecord
  <2>4. Later(sock, t) BY DEF Later, SocketRecord
  <2> QED BY <1>8, <2>1, <2>2, <2>3, <2>4, EventLeads DEF Timeout, Good, Core
<1>9. CASE AfterClose
  <2> DEFINE t == [sock EXCEPT !.handle = "closed"]
  <2>1. /\ Event(t) /\ js = "idle" /\ sock.handle = "closing"
        /\ sock.connectReq # "pending" /\ sock.asked = {} /\ ~Underway(sock)
    BY <1>9 DEF AfterClose, AllAnswered, Event, EventStep, SocketInv
  <2>2. t \in SocketRecord BY DEF SocketRecord, HandleStates
  <2>3. Flow(t) BY <2>1 DEF Good, Core, Flow, Underway, Honest, SocketRecord
  <2>4. LookInv(t) /\ HalfInv(t) BY DEF Good, LookInv, HalfInv, SocketRecord
  <2>5. \A tick : Honest(sock, tick) /\ tick # "readStart" => Honest(t, tick)
    BY DEF Honest, SocketRecord
  <2> HIDE DEF t
  <2>6. \A i \in 1..Len(queue) : Honest(t, queue[i])
    BY <2>1, <2>5 DEF SocketInv, TickInv
  <2> QED BY <2>1, <2>2, <2>3, <2>4, <2>6, EventKeeps DEF Good, Core
<1> QED BY <1>1, <1>2, <1>3, <1>4, <1>5, <1>6, <1>7, <1>8, <1>9 DEF LoopStep

\* A tick, and the end of a frame or of the ticks.
LEMMA TicksKeep ==
  ASSUME SocketInv, Tick \/ Loop
  PROVE  SocketInv'
<1> DEFINE h == Head(batch)
           s == runTick(sock, h)
           t == [s EXCEPT !.asked = {}]
<1>1. CASE Tick
  <2>1. /\ js = "ticks" /\ batch # <<>> /\ sock' = t /\ js' = js
        /\ batch' = Tail(batch) /\ queue' = queue \o Queue(s)
    BY <1>1 DEF Tick, Becomes, TickStep
  <2>2. h = batch[1] /\ 1 \in 1..Len(batch) /\ h \in TickNames
    BY <2>1 DEF SocketInv, TickInv
  <2>3. Honest(sock, h) BY <2>2 DEF SocketInv, TickInv
  <2>4. Good(s) /\ Leads(sock, s) BY <2>2, <2>3, RunTickGood DEF SocketInv
  <2> HIDE DEF h, s
  <2>5. Good(t) /\ t.asked = {} /\ \A tick : Honest(s, tick) => Honest(t, tick)
    BY <2>4, AskedGood
  <2> HIDE DEF t
  <2>6. \A tick : Honest(sock, tick) => Honest(t, tick) BY <2>4, <2>5, LaterHonest DEF Leads
  <2> DEFINE q == queue
             r == Queue(s)
  <2>7. /\ q \in Seq(TickNames)
        /\ \A i \in 1..Len(q) : q[i] # "readStart" /\ Honest(t, q[i])
    BY <2>1, <2>6 DEF SocketInv, TickInv
  <2>8. /\ r \in Seq(TickNames)
        /\ \A i \in 1..Len(r) : r[i] # "readStart" /\ Honest(t, r[i])
    <3>1. "readStart" \notin s.asked BY <2>4 DEF SocketInv, Leads
    <3> QED BY <3>1, <2>4, <2>5, QueueHonest DEF Good
  <2> HIDE DEF q, r
  <2>9. /\ q \o r \in Seq(TickNames)
        /\ \A i \in 1..Len(q \o r) : Honest(t, (q \o r)[i])
        /\ \A i \in 1..Len(q \o r) : (q \o r)[i] # "readStart"
    BY <2>7, <2>8, AppendHonest
  <2>10. /\ Tail(batch) \in Seq(TickNames)
         /\ \A i \in 1..Len(Tail(batch)) : Honest(t, Tail(batch)[i])
    <3>1. batch \in Seq(TickNames) /\ \A i \in 1..Len(batch) : Honest(t, batch[i])
      BY <2>6 DEF SocketInv, TickInv
    <3>2. /\ Tail(batch) \in Seq(TickNames)
          /\ \A i \in 1..Len(Tail(batch)) : i + 1 \in 1..Len(batch) /\ Tail(batch)[i] = batch[i + 1]
      BY <3>1, <2>1
    <3> QED BY <3>1, <3>2
  <2>11. queue' = q \o r BY <2>1 DEF q, r
  <2>12. TickInv' BY <2>1, <2>9, <2>10, <2>11 DEF TickInv
  <2> QED BY <2>1, <2>5, <2>12 DEF SocketInv
<1>2. CASE RunTicks /\ UNCHANGED sock
  <2>1. TickInv'
    BY <1>2 DEF SocketInv, TickInv, RunTicks
  <2> QED BY <1>2, <2>1 DEF SocketInv
<1>3. CASE TicksDone /\ UNCHANGED sock
  <2>1. TickInv' BY <1>3 DEF SocketInv, TickInv, TicksDone
  <2> QED BY <1>3, <2>1 DEF SocketInv
<1>4. CASE EventStep(<<>>) /\ UNCHANGED sock
  <2>1. queue' = queue BY <1>4 DEF EventStep, SocketInv, TickInv
  <2>2. TickInv' BY <1>4, <2>1 DEF SocketInv, TickInv, EventStep
  <2> QED BY <1>4, <2>2 DEF SocketInv
<1> QED BY <1>1, <1>2, <1>3, <1>4 DEF Loop

\* libuv refuses the chunk underway.
LEMMA RefusedKeeps ==
  ASSUME SocketInv, WriteRefused
  PROVE  SocketInv'
<1> DEFINE t == [sock EXCEPT !.stuck = TRUE]
<1> sock \in SocketRecord /\ Good(sock) BY DEF SocketInv, Good, Core
<1>1. sock' = t /\ js' = js /\ queue' = queue /\ batch' = batch
  BY DEF WriteRefused, tickVars
<1>2. t \in SocketRecord BY DEF SocketRecord
<1>3. Flow(t) BY DEF Good, Core, Flow, Underway, Honest, SocketRecord
<1>4. LookInv(t) /\ HalfInv(t) BY DEF Good, LookInv, HalfInv, SocketRecord
<1>5. Later(sock, t) /\ t.asked = sock.asked BY DEF Later, SocketRecord
<1> HIDE DEF t
<1>6. \A tick : Honest(sock, tick) => Honest(t, tick) BY <1>5, LaterHonest
<1>7. TickInv' BY <1>1, <1>6 DEF SocketInv, TickInv
<1> QED BY <1>1, <1>2, <1>3, <1>4, <1>5, <1>7 DEF SocketInv, Good, Core

\* A new socket, and one that was just accepted.
LEMMA InitInv == SInit => SocketInv
<1> SUFFICES ASSUME SInit PROVE SocketInv OBVIOUS
<1> PICK half \in BOOLEAN, flow \in BOOLEAN :
      \/ sock = New(half, flow) /\ queue = <<>>
      \/ LET s == onSocketConnect([New(half, flow) EXCEPT !.handle = "open"])
         IN  sock = [s EXCEPT !.asked = {}] /\ queue = Queue(s)
  BY DEF SInit
<1> DEFINE n == New(half, flow)
           o == [n EXCEPT !.handle = "open"]
<1>1. n \in SocketRecord BY DEF New, SocketRecord, HandleStates, RequestStates
<1>2. o \in SocketRecord BY <1>1 DEF SocketRecord, HandleStates
<1>3. Good(n) /\ n.asked = {}
  <2>1. Flow(n) BY DEF New, Flow, Underway, Honest
  <2>2. LookInv(n) /\ HalfInv(n) /\ n.asked = {} BY DEF New, LookInv, HalfInv
  <2> QED BY <1>1, <2>1, <2>2 DEF Good, Core
<1>4. Good(o) /\ o.handle = "open" /\ o.lookup # "pending"
  <2>1. Flow(o) /\ o.handle = "open" /\ o.lookup # "pending" BY DEF New, Flow, Underway, Honest
  <2>2. LookInv(o) /\ HalfInv(o) BY DEF New, LookInv, HalfInv
  <2> QED BY <1>2, <2>1, <2>2 DEF Good, Core
<1>5. js = "frame" /\ batch = <<>> /\ batch \in Seq(TickNames) BY DEF SInit
<1>6. CASE sock = n /\ queue = <<>>
  <2>1. TickInv BY <1>5, <1>6 DEF TickInv
  <2> QED BY <1>3, <1>6, <2>1 DEF SocketInv
<1> DEFINE s == onSocketConnect(o)
           t == [s EXCEPT !.asked = {}]
<1>7. CASE sock = t /\ queue = Queue(s)
  <2> HIDE DEF o
  <2>1. Good(s) BY <1>4, OnConnectGood
  <2> HIDE DEF s
  <2>2. Good(t) /\ t.asked = {} /\ \A tick : Honest(s, tick) => Honest(t, tick)
    BY <2>1, AskedGood
  <2> HIDE DEF t
  <2>3. Queue(s) \in Seq(TickNames) /\ \A i \in 1..Len(Queue(s)) : Honest(t, Queue(s)[i])
    BY <2>1, <2>2, QueueHonest DEF Good
  <2>4. TickInv BY <1>5, <1>7, <2>3 DEF TickInv
  <2> QED BY <1>7, <2>2, <2>4 DEF SocketInv
<1> QED BY <1>6, <1>7

\* Every step keeps the invariant.
LEMMA StepInv == SocketInv /\ [SNext]_svars => SocketInv'
<1> SUFFICES ASSUME SocketInv, [SNext]_svars PROVE SocketInv' OBVIOUS
<1>1. CASE UserStep \/ Resume BY <1>1, UserKeeps
<1>2. CASE LoopStep BY <1>2, LoopKeeps
<1>3. CASE Tick \/ Loop BY <1>3, TicksKeep
<1>4. CASE WriteRefused BY <1>4, RefusedKeeps
<1>5. CASE UNCHANGED svars
  BY <1>5 DEF SocketInv, TickInv, svars, tickVars
<1> QED BY <1>1, <1>2, <1>3, <1>4, <1>5 DEF SNext

-----------------------------------------------------------------------------
(* The theorems.                                                           *)

\* The flags of the socket, its streams, its handle and its ticks agree in
\* every reachable state, for every bound and whatever the user does.
THEOREM SocketInvariant == SSpec => []SocketInv
BY InitInv, StepInv, PTL DEF SSpec

\* The state keeps its type; in particular the count of unflushed chunks never
\* becomes negative, although AfterWrite subtracts without looking.
THEOREM SocketTypes == SSpec => []STypeOK
<1>1. SocketInv => STypeOK BY DEF SocketInv, TickInv, Good, Core, STypeOK
<1> QED BY <1>1, SocketInvariant, PTL

\* destroy() closes the handle only when every chunk that was accepted before
\* end() is flushed, for every user of Habits: also for one who writes between
\* end() and 'finish', whose last chunks are cut off.
THEOREM NoDataIsCut == SSpec => []NoDataCut
<1>1. SocketInv => NoDataCut BY DEF SocketInv, Good, Core, Flow, NoDataCut
<1> QED BY <1>1, SocketInvariant, PTL

\* A user who does not write after end() loses nothing: a destroyed socket has
\* flushed every chunk that write() has accepted.
THEOREM NothingIsCut ==
  ASSUME "writeAfterEnd" \notin Habits
  PROVE  SSpec => [](sock.destroyed => sock.out = 0)
<1>1. SocketInv => (sock.destroyed => sock.out = 0)
  BY DEF SocketInv, Good, Core, Flow, Careful
<1> QED BY <1>1, SocketInvariant, PTL

\* A destroyed socket has no timer and no open handle, and no closed handle is
\* operated on, if the user waits for the lookup, does not connect again and
\* leaves the timer of a destroyed socket alone.
THEOREM DestroyedStaysQuiet ==
  ASSUME "destroyInLookup" \notin Habits, "reconnect" \notin Habits,
         "timeoutAfterDestroy" \notin Habits
  PROVE  SSpec => []DestroyedIsQuiet
<1>1. Patient /\ Punctual BY DEF Patient, Punctual
<1>2. SocketInv => DestroyedIsQuiet
  BY <1>1 DEF SocketInv, Good, Core, Flow, LookInv, DestroyedIsQuiet
<1> QED BY <1>2, SocketInvariant, PTL

\* A connected socket that has finished writing has told its peer by a
\* shutdown or is closing, if end() is not called before the connection.
THEOREM HalfCloseIsSent ==
  ASSUME "endEarly" \notin Habits
  PROVE  SSpec => []HalfCloseSent
<1>1. SocketInv => HalfCloseSent BY DEF SocketInv, Good, HalfInv, HalfCloseSent
<1> QED BY <1>1, SocketInvariant, PTL

-----------------------------------------------------------------------------
(* net.Server.                                                             *)


ServerTickNames == {"listening", "close"}

\* The part of the type invariant that the proofs need.
SvType ==
  /\ conn \in [Sockets -> {"none", "open", "closed"}]
  /\ served \in SUBSET Sockets
  /\ queue \in Seq(ServerTickNames) /\ batch \in Seq(ServerTickNames)
  /\ emitted \in Nat

\* A queued 'close' stays true until it is delivered: while it waits, the
\* server is closed and no connection is open.
QueuedCloseIsDrained == CloseQueued => handle = "none" /\ Live = {}

\* The server counts the sockets that refer to it, and these are the open ones.
CountIsExact == served = Live /\ count = Cardinality(Live)

SvInv == SvType /\ CountIsExact

\* What queueing one tick or none, and taking the first one, do to a queue.
LEMMA QueueFacts ==
  ASSUME NEW s \in Seq(ServerTickNames)
  PROVE  /\ s \o <<>> = s
         /\ \A e \in ServerTickNames :
              /\ s \o <<e>> \in Seq(ServerTickNames)
              /\ \A i \in 1 .. Len(s \o <<e>>) : (s \o <<e>>)[i] = e
                                                \/ (i \in 1 .. Len(s) /\ (s \o <<e>>)[i] = s[i])
         /\ s # <<>> => /\ Head(s) = s[1] /\ 1 \in 1 .. Len(s)
                        /\ Tail(s) \in Seq(ServerTickNames)
                        /\ \A i \in 1 .. Len(Tail(s)) : /\ i + 1 \in 1 .. Len(s)
                                                        /\ Tail(s)[i] = s[i + 1]
<1>1. s \o <<>> = s
  OBVIOUS
<1>2. ASSUME NEW e \in ServerTickNames
      PROVE  /\ s \o <<e>> \in Seq(ServerTickNames)
             /\ \A i \in 1 .. Len(s \o <<e>>) : (s \o <<e>>)[i] = e
                                               \/ (i \in 1 .. Len(s) /\ (s \o <<e>>)[i] = s[i])
  OBVIOUS
<1>3. ASSUME s # <<>>
      PROVE  /\ Head(s) = s[1] /\ 1 \in 1 .. Len(s)
             /\ Tail(s) \in Seq(ServerTickNames)
             /\ \A i \in 1 .. Len(Tail(s)) : /\ i + 1 \in 1 .. Len(s)
                                             /\ Tail(s)[i] = s[i + 1]
  BY <1>3
<1> QED BY <1>1, <1>2, <1>3

\* The connections that are open are finitely many.
LEMMA LiveFinite == IsFiniteSet(Live)
<1>1. Live \subseteq Sockets
  BY DEF Live
<1> QED BY <1>1, ServerAssumption, FS_Subset

\* An accepted connection adds one open socket, a closed one removes one.
LEMMA LiveCount ==
  ASSUME SvType, NEW s \in Sockets
  PROVE  /\ conn[s] = "none" /\ conn' = [conn EXCEPT ![s] = "open"]
            => Cardinality(Live') = Cardinality(Live) + 1
         /\ conn[s] = "open" /\ conn' = [conn EXCEPT ![s] = "closed"]
            => Cardinality(Live') = Cardinality(Live) - 1
<1>1. ASSUME conn[s] = "none", conn' = [conn EXCEPT ![s] = "open"]
      PROVE  Cardinality(Live') = Cardinality(Live) + 1
  <2>1. Live' = Live \cup {s} /\ s \notin Live
    BY <1>1 DEF Live, SvType
  <2> QED BY <2>1, LiveFinite, FS_AddElement
<1>2. ASSUME conn[s] = "open", conn' = [conn EXCEPT ![s] = "closed"]
      PROVE  Cardinality(Live') = Cardinality(Live) - 1
  <2>1. Live' = Live \ {s} /\ s \in Live
    BY <1>2 DEF Live, SvType
  <2> QED BY <2>1, LiveFinite, FS_RemoveElement
<1> QED BY <1>1, <1>2

\* A new server satisfies the invariants.
LEMMA InitSvInv == Init => SvInv /\ QueuedCloseIsDrained
<1> SUFFICES ASSUME Init PROVE SvInv /\ QueuedCloseIsDrained
  OBVIOUS
<1>1. SvType
  <2>1. queue \in Seq(ServerTickNames) /\ batch \in Seq(ServerTickNames)
    BY DEF Init
  <2> QED BY <2>1 DEF Init, SvType
<1>2. Live = {}
  BY DEF Init, Live
<1>3. CountIsExact
  BY <1>2, FS_EmptySet DEF Init, CountIsExact
<1>4. Len(queue) = 0 /\ Len(batch) = 0
  BY DEF Init
<1>5. QueuedCloseIsDrained
  BY <1>4 DEF QueuedCloseIsDrained, CloseQueued
<1> QED BY <1>1, <1>3, <1>5 DEF SvInv

\* Queueing at most one tick, by a call or by an event, keeps the queues' types.
LEMMA StepTypes ==
  ASSUME SvType, NEW asked \in {<<>>} \cup {<<e>> : e \in ServerTickNames},
         CallStep(asked) \/ EventStep(asked)
  PROVE  /\ queue' \in Seq(ServerTickNames) /\ batch' = batch
         /\ \/ asked = <<>> /\ queue' = queue
            \/ \E e \in ServerTickNames : asked = <<e>> /\ queue' = queue \o <<e>>
<1>1. queue' = queue \o asked /\ batch' = batch
  BY DEF CallStep, EventStep
<1>2. CASE asked = <<>>
  BY <1>1, <1>2, QueueFacts DEF SvType
<1>3. ASSUME NEW e \in ServerTickNames, asked = <<e>>
      PROVE  queue' \in Seq(ServerTickNames) /\ queue' = queue \o <<e>>
  BY <1>1, <1>3, QueueFacts DEF SvType
<1> QED BY <1>1, <1>2, <1>3

\* The count stays exact in every step, also in one that closes a closed socket.
LEMMA StepSvInv == SvInv /\ [Next]_vars => SvInv'
<1> SUFFICES ASSUME SvInv, [Next]_vars PROVE SvInv'
  OBVIOUS
<1> USE DEF SvInv
<1>0. /\ <<>> \in {<<>>} \cup {<<e>> : e \in ServerTickNames}
      /\ <<"listening">> \in {<<>>} \cup {<<e>> : e \in ServerTickNames}
      /\ emitCloseIfDrained \in {<<>>} \cup {<<e>> : e \in ServerTickNames}
  BY DEF emitCloseIfDrained, ServerTickNames
<1>1. CASE listen
  <2>1. UNCHANGED <<count, served, conn, emitted>>
    BY <1>1 DEF listen
  <2>2. queue' \in Seq(ServerTickNames) /\ batch' = batch
    BY <1>0, <1>1, StepTypes DEF listen
  <2> QED BY <2>1, <2>2 DEF SvType, CountIsExact, Live
<1>2. CASE closeServer
  <2>1. UNCHANGED <<count, served, conn, emitted>>
    BY <1>2 DEF closeServer
  <2>2. queue' \in Seq(ServerTickNames) /\ batch' = batch
    BY <1>0, <1>2, StepTypes DEF closeServer
  <2> QED BY <2>1, <2>2 DEF SvType, CountIsExact, Live
<1>3. CASE OnConnection
  <2>1. PICK s \in Sockets : onconnection(s)
    BY <1>3 DEF OnConnection
  <2>2. queue' \in Seq(ServerTickNames) /\ batch' = batch
    BY <1>0, <1>3, StepTypes DEF OnConnection
  <2>3. SvType'
    BY <1>3, <2>1, <2>2 DEF OnConnection, onconnection, SvType
  <2>4. Live' = Live \cup {s}
    BY <2>1 DEF onconnection, Live, SvType
  <2>5. CountIsExact'
    BY <2>1, <2>4, LiveCount DEF onconnection, CountIsExact
  <2> QED BY <2>3, <2>5
<1>4. ASSUME NEW s \in Sockets, SocketClose(s) PROVE SvInv'
  <2>1. queue' \in Seq(ServerTickNames) /\ batch' = batch
    BY <1>0, <1>4, StepTypes DEF SocketClose
  <2>2. SvType'
    BY <1>4, <2>1 DEF SocketClose, leaveServer, SvType
  <2>3. Live' = Live \ {s} /\ (s \in Live <=> conn[s] = "open")
    BY <1>4 DEF SocketClose, Live, SvType
  <2>4. CountIsExact'
    <3>1. CASE s \in Live
      BY <1>4, <2>3, <3>1, LiveCount DEF SocketClose, leaveServer, CountIsExact
    <3>2. CASE s \notin Live
      BY <1>4, <2>3, <3>2 DEF SocketClose, leaveServer, CountIsExact
    <3> QED BY <3>1, <3>2
  <2> QED BY <2>2, <2>4
<1>5. CASE ServerTick
  <2>1. emitted' \in Nat
    BY <1>5 DEF ServerTick, SvType
  <2>2. UNCHANGED <<count, served, conn>>
    BY <1>5 DEF ServerTick
  <2>3. queue' \in Seq(ServerTickNames) /\ batch' \in Seq(ServerTickNames)
    BY <1>5, QueueFacts DEF ServerTick, TickStep, SvType
  <2> QED BY <2>1, <2>2, <2>3 DEF SvType, CountIsExact, Live
<1>6. CASE ServerLoop
  <2>1. UNCHANGED <<count, served, conn, emitted>>
    BY <1>6 DEF ServerLoop
  <2>2. \/ queue' = queue /\ batch' = batch
        \/ queue' = <<>> /\ batch' = queue
    BY <1>6, QueueFacts DEF ServerLoop, RunTicks, TicksDone, EventStep, SvType
  <2>3. <<>> \in Seq(ServerTickNames)
    OBVIOUS
  <2> QED BY <2>1, <2>2, <2>3 DEF SvType, CountIsExact, Live
<1>7. CASE UNCHANGED vars
  BY <1>7 DEF vars, tickVars, SvType, CountIsExact, Live
<1> QED BY <1>1, <1>2, <1>3, <1>4, <1>5, <1>6, <1>7 DEF Next

\* A step that queues what emitCloseIfDrained gives is safe when it leaves true
\* what an earlier 'close' promises.
LEMMA EmitKeepsDrained ==
  ASSUME SvInv, SvInv', CallStep(emitCloseIfDrained) \/ EventStep(emitCloseIfDrained),
         CloseQueued => handle' = "none" /\ Live' = {}
  PROVE  QueuedCloseIsDrained'
<1> USE DEF SvInv
<1>1. CASE handle' = "none" /\ count' = 0
  <2>1. Cardinality(Live') = 0 /\ IsFiniteSet(Live')
    <3>1. Live' \subseteq Sockets
      BY DEF Live
    <3> QED BY <1>1, <3>1, ServerAssumption, FS_Subset DEF CountIsExact
  <2>2. Live' = {}
    BY <2>1, FS_EmptySet
  <2> QED BY <1>1, <2>2 DEF QueuedCloseIsDrained
<1>2. CASE ~(handle' = "none" /\ count' = 0)
  <2>1. emitCloseIfDrained = <<>>
    BY <1>2 DEF emitCloseIfDrained
  <2>2. queue' = queue /\ batch' = batch
    BY <2>1, QueueFacts DEF CallStep, EventStep, SvType
  <2>3. CloseQueued' <=> CloseQueued
    BY <2>2 DEF CloseQueued
  <2> QED BY <2>3 DEF QueuedCloseIsDrained
<1> QED BY <1>1, <1>2

\* For a user who does not listen again too early, nothing falsifies a 'close'
\* that is queued.
LEMMA StepDrained ==
  ASSUME ~Relisten, SvInv, SvInv', QueuedCloseIsDrained, [Next]_vars
  PROVE  QueuedCloseIsDrained'
<1> USE DEF SvInv
<1>1. CASE listen
  <2>1. ~CloseQueued
    BY <1>1 DEF listen, MayListen
  <2>2. batch' = batch /\ (queue' = queue \/ queue' = queue \o <<"listening">>)
    BY <1>1, QueueFacts DEF listen, CallStep, SvType
  <2>3. "listening" \in ServerTickNames
    BY DEF ServerTickNames
  <2>4. ~CloseQueued'
    BY <2>1, <2>2, <2>3, QueueFacts DEF CloseQueued, SvType
  <2> QED BY <2>4 DEF QueuedCloseIsDrained
<1>2. CASE closeServer
  <2>1. CallStep(emitCloseIfDrained) /\ handle' = "none" /\ Live' = Live
    BY <1>2 DEF closeServer, Live
  <2> QED BY <2>1, EmitKeepsDrained DEF QueuedCloseIsDrained
<1>3. CASE OnConnection
  <2>1. ~CloseQueued
    BY <1>3 DEF OnConnection, QueuedCloseIsDrained
  <2>2. queue' = queue /\ batch' = batch
    BY <1>3, QueueFacts DEF OnConnection, EventStep, SvType
  <2> QED BY <2>1, <2>2 DEF QueuedCloseIsDrained, CloseQueued
<1>4. ASSUME NEW s \in Sockets, SocketClose(s) PROVE QueuedCloseIsDrained'
  <2>1. Live' = Live \ {s} /\ handle' = handle
    BY <1>4 DEF SocketClose, Live, SvType
  <2>2. CASE s \in Live
    <3>1. ~CloseQueued
      BY <2>2 DEF QueuedCloseIsDrained
    <3> QED BY <1>4, <2>2, <3>1, EmitKeepsDrained DEF SocketClose, CountIsExact
  <2>3. CASE s \notin Live
    <3>1. CallStep(<<>>) \/ EventStep(<<>>)
      BY <1>4, <2>3 DEF SocketClose, CountIsExact
    <3>2. queue' = queue /\ batch' = batch
      BY <3>1, QueueFacts DEF CallStep, EventStep, SvType
    <3>3. CloseQueued' <=> CloseQueued
      BY <3>2 DEF CloseQueued
    <3> QED BY <2>1, <2>3, <3>3 DEF QueuedCloseIsDrained
  <2> QED BY <2>2, <2>3
<1>5. CASE ServerTick
  <2>1. handle' = handle /\ Live' = Live
    BY <1>5 DEF ServerTick, Live
  <2>2. batch # <<>> /\ batch' = Tail(batch) /\ queue' = queue
    BY <1>5, QueueFacts DEF ServerTick, TickStep, SvType
  <2>3. CloseQueued' => CloseQueued
    BY <2>2, QueueFacts DEF CloseQueued, SvType
  <2> QED BY <2>1, <2>3 DEF QueuedCloseIsDrained
<1>6. CASE ServerLoop
  <2>1. handle' = handle /\ Live' = Live
    BY <1>6 DEF ServerLoop, Live
  <2>2. \/ queue' = queue /\ batch' = batch
        \/ queue' = <<>> /\ batch' = queue
    BY <1>6, QueueFacts DEF ServerLoop, RunTicks, TicksDone, EventStep, SvType
  <2>3. CloseQueued' => CloseQueued
    BY <2>2 DEF CloseQueued
  <2> QED BY <2>1, <2>3 DEF QueuedCloseIsDrained
<1>7. CASE UNCHANGED vars
  BY <1>7 DEF vars, tickVars, QueuedCloseIsDrained, CloseQueued, Live
<1> QED BY <1>1, <1>2, <1>3, <1>4, <1>5, <1>6, <1>7 DEF Next

\* 'close' is delivered only to a server that is closed and drained.  The
\* hypothesis is needed: with a listen() between the call and the event the
\* server listens when it is told that it is closed.
THEOREM CloseCorrect ==
  ASSUME ~Relisten PROVE Spec => CloseMeansDrained
<1>1. ASSUME SvInv, QueuedCloseIsDrained, [Next]_vars
      PROVE  [emitted' > emitted => handle = "none" /\ Live = {}]_vars
  <2>1. CASE ServerTick /\ Head(batch) = "close"
    <3>1. Head(batch) = batch[1] /\ 1 \in 1 .. Len(batch)
      BY <1>1, <2>1, QueueFacts DEF ServerTick, TickStep, SvInv, SvType
    <3>2. CloseQueued
      BY <2>1, <3>1 DEF CloseQueued
    <3> QED BY <1>1, <3>2 DEF QueuedCloseIsDrained
  <2>2. CASE ~(ServerTick /\ Head(batch) = "close")
    <3>1. emitted' = emitted
      BY <1>1, <2>2 DEF Next, listen, closeServer, OnConnection, SocketClose, ServerTick, ServerLoop, vars
    <3>2. ~(emitted' > emitted)
      BY <1>1, <3>1 DEF SvInv, SvType
    <3> QED BY <3>2
  <2> QED BY <2>1, <2>2
<1>2. SvInv /\ QueuedCloseIsDrained /\ [Next]_vars => (SvInv /\ QueuedCloseIsDrained)'
  BY StepSvInv, StepDrained
<1> QED BY <1>1, <1>2, InitSvInv, PTL DEF Spec, CloseMeansDrained

=============================================================================
