----------------------------- MODULE DgramProofs -----------------------------
(***************************************************************************)
(* Proofs about dgram.Socket: 'close' is emitted once and the null handle  *)
(* is never used, and a send is in exactly one place until it is answered. *)
(*                                                                         *)
(* As in NetProofs the argument follows the calls.  The flush of the    *)
(* queue is a loop over the calls in it, so its lemma is an induction over *)
(* the loop: what is in the socket and what is left of the queue together  *)
(* hold every message once (Flushing).                                     *)
(***************************************************************************)
EXTENDS Dgram, FiniteSetTheorems, WellFoundedInduction, TLAPS

\* A message is among the calls that are left when k of them were made.
Rest(calls, k, m) == \E i \in (k + 1)..Len(calls) : calls[i] = m

\* It waits in the queue.
Queued(u, m) == Rest(u.calls, 0, m)

\* It is in no other place.
Nowhere(u, m) == m \notin u.lookups /\ m \notin u.underway /\ u.answered[m] = 0

\* A message is in at most one place ...
Alone(u, m) ==
  /\ u.answered[m] \in {0, 1}
  /\ m \in u.lookups => m \notin u.underway /\ u.answered[m] = 0
  /\ m \in u.underway => u.answered[m] = 0
  /\ m \notin u.sent => Nowhere(u, m)

\* ... and is not lost, as long as the socket is open and nothing was thrown.
Live(u, m) == m \in u.sent \ u.refused /\ u.open /\ ~u.crashed /\ ~u.threw

\* Both, of a message that waits in a queue or does not.
Placed(u, m, waits) ==
  /\ Alone(u, m)
  /\ waits => m \in u.sent /\ Nowhere(u, m)
  /\ Live(u, m) => waits \/ ~Nowhere(u, m)

\* No message is in the queue twice.
Distinct(calls) ==
  \A i, j \in 1..Len(calls) : calls[i] = calls[j] /\ calls[i] # "close" => i = j

\* The handle that was given up is not used any more.
HandleInv(u) == ~u.nullUsed /\ (~u.open => ~u.receiving)

Good(u) == /\ u \in UdpRecord /\ HandleInv(u) /\ Distinct(u.calls)
           /\ \A m \in Messages : Placed(u, m, Queued(u, m))

\* One if 'close' has still to be asked for, or is asked for, or was emitted.
Balance(u) == u.closed + Len(u.asked) + (IF u.open THEN 1 ELSE 0)

\* The inductive invariant.
UdpInv ==
  /\ Good(udp) /\ udp.asked = <<>> /\ ~udp.threw
  /\ js \in {"frame", "ticks", "idle"}
  /\ queue \in Seq({"close"}) /\ batch \in Seq({"close"})
  /\ js # "ticks" => batch = <<>>
  /\ Balance(udp) + Len(queue) + Len(batch) = 1

-----------------------------------------------------------------------------
(* Facts about sequences of calls.                                         *)

\* What is in a queue after one more call was put into it.
LEMMA AppendRest ==
  ASSUME NEW c \in Seq(Messages \cup {"close"}), NEW x \in Messages \cup {"close"},
         NEW m \in Messages
  PROVE  Rest(Append(c, x), 0, m) <=> Rest(c, 0, m) \/ x = m
<1>1. /\ Len(Append(c, x)) = Len(c) + 1 /\ Append(c, x)[Len(c) + 1] = x
      /\ \A i \in 1..Len(c) : Append(c, x)[i] = c[i]
  OBVIOUS
<1>2. \A i \in 1..(Len(c) + 1) : i \in 1..Len(c) \/ i = Len(c) + 1 OBVIOUS
<1>3. Len(c) \in Nat /\ Len(c) + 1 \in 1..(Len(c) + 1) /\ 1..Len(c) \subseteq 1..(Len(c) + 1)
  OBVIOUS
<1> HIDE DEF Rest
<1>4. ASSUME Rest(c, 0, m) PROVE Rest(Append(c, x), 0, m)
  <2>1. PICK i \in 1..Len(c) : c[i] = m BY <1>4 DEF Rest
  <2> QED BY <1>1, <1>3, <2>1 DEF Rest
<1>5. ASSUME x = m PROVE Rest(Append(c, x), 0, m) BY <1>1, <1>3, <1>5 DEF Rest
<1>6. ASSUME Rest(Append(c, x), 0, m) PROVE Rest(c, 0, m) \/ x = m
  <2>1. PICK i \in 1..(Len(c) + 1) : Append(c, x)[i] = m BY <1>1, <1>6 DEF Rest
  <2> QED BY <1>1, <1>2, <2>1 DEF Rest
<1> QED BY <1>4, <1>5, <1>6

\* A queue without repetition stays one.
LEMMA AppendDistinct ==
  ASSUME NEW c \in Seq(Messages \cup {"close"}), NEW x \in Messages \cup {"close"},
         Distinct(c), x = "close" \/ ~Rest(c, 0, x)
  PROVE  Distinct(Append(c, x))
<1>1. /\ Len(Append(c, x)) = Len(c) + 1 /\ Append(c, x)[Len(c) + 1] = x
      /\ \A i \in 1..Len(c) : Append(c, x)[i] = c[i]
  OBVIOUS
<1>2. \A i \in 1..(Len(c) + 1) : i \in 1..Len(c) \/ i = Len(c) + 1 OBVIOUS
<1>3. \A i \in 1..Len(c) : c[i] = x => x = "close" BY DEF Rest
<1> SUFFICES ASSUME NEW i \in 1..(Len(c) + 1), NEW j \in 1..(Len(c) + 1),
                    Append(c, x)[i] = Append(c, x)[j], Append(c, x)[i] # "close"
             PROVE  i = j
  BY <1>1 DEF Distinct
<1>4. CASE i \in 1..Len(c) /\ j \in 1..Len(c) BY <1>1, <1>4 DEF Distinct
<1> QED BY <1>1, <1>2, <1>3, <1>4

\* The empty queue.
LEMMA EmptyRest ==
  /\ Distinct(<<>>) /\ <<>> \in Seq(Messages \cup {"close"})
  /\ \A m : ~Rest(<<>>, 0, m)
BY DEF Distinct, Rest

\* The calls left when one more was made.
LEMMA NextRest ==
  ASSUME NEW c \in Seq(Messages \cup {"close"}), Distinct(c), NEW k \in Nat, k < Len(c),
         NEW m \in Messages
  PROVE  /\ c[k + 1] \in Messages \cup {"close"}
         /\ Rest(c, k, m) <=> (c[k + 1] = m \/ Rest(c, k + 1, m))
         /\ c[k + 1] = m => ~Rest(c, k + 1, m)
<1>1. Len(c) \in Nat /\ k + 1 \in 1..Len(c) /\ k + 1 \in (k + 1)..Len(c) OBVIOUS
<1>2. \A i \in (k + 1)..Len(c) : i = k + 1 \/ i \in (k + 1 + 1)..Len(c) BY <1>1
<1>3. \A i \in (k + 1 + 1)..Len(c) : i \in (k + 1)..Len(c) /\ i \in 1..Len(c) /\ i # k + 1
  BY <1>1
<1>4. Rest(c, k, m) <=> (c[k + 1] = m \/ Rest(c, k + 1, m)) BY <1>1, <1>2, <1>3 DEF Rest
<1>5. m # "close" BY DgramAssumption
<1>6. c[k + 1] = m => ~Rest(c, k + 1, m) BY <1>1, <1>3, <1>5 DEF Rest, Distinct
<1> QED BY <1>1, <1>4, <1>6

-----------------------------------------------------------------------------
(* The functions of dgram.js.                                              *)

\* bind() leaves the messages where they are.
LEMMA BindGood ==
  ASSUME NEW u, Good(u)
  PROVE  LET v == bind(u)
         IN  /\ Good(v) /\ Balance(v) = Balance(u) /\ v.bindState = "binding"
             /\ v.open = u.open /\ v.sent = u.sent /\ v.calls = u.calls
             /\ v.lookups = u.lookups \cup {"bind"} /\ v.underway = u.underway
             /\ v.answered = u.answered /\ v.threw = u.threw
<1> DEFINE v == bind(u)
<1> u \in UdpRecord BY DEF Good
<1>1. v \in UdpRecord BY DEF bind, UdpRecord
<1>2. /\ v.bindState = "binding" /\ v.open = u.open /\ v.sent = u.sent /\ v.calls = u.calls
      /\ v.lookups = u.lookups \cup {"bind"} /\ v.underway = u.underway
      /\ v.answered = u.answered /\ v.threw = u.threw /\ v.refused = u.refused
      /\ v.crashed = u.crashed /\ v.closed = u.closed /\ v.asked = u.asked
      /\ v.nullUsed = u.nullUsed /\ v.receiving = u.receiving
  BY DEF bind, UdpRecord
<1> HIDE DEF v
<1>3. Balance(v) = Balance(u) BY <1>2 DEF Balance
<1>4. HandleInv(v) /\ Distinct(v.calls) BY <1>2 DEF Good, HandleInv
<1>5. ASSUME NEW m \in Messages PROVE Placed(v, m, Queued(v, m))
  <2>1. m # "bind" /\ Placed(u, m, Queued(u, m)) BY DgramAssumption DEF Good
  <2>2. m \in v.lookups <=> m \in u.lookups BY <1>2, <2>1
  <2>3. Queued(v, m) <=> Queued(u, m) BY <1>2 DEF Queued
  <2> QED BY <1>2, <2>1, <2>2, <2>3 DEF Placed, Alone, Nowhere, Live
<1> QED BY <1>1, <1>2, <1>3, <1>4, <1>5 DEF Good, v

\* A send: the message, which is in no place yet, is queued or resolved.
LEMMA SendGood ==
  ASSUME NEW u, Good(u), u.open, NEW m \in Messages, m \notin u.sent
  PROVE  LET v == send([u EXCEPT !.sent = @ \cup {m}], m)
         IN  /\ Good(v) /\ Balance(v) = Balance(u) /\ v.threw = u.threw
             /\ u.bindState = "bound" => v.bindState = "bound"
<1> DEFINE w == [u EXCEPT !.sent = @ \cup {m}]
           b == IF w.bindState = "unbound" THEN bind(w) ELSE w
           q == enqueue(b, m)
           r == [b EXCEPT !.lookups = @ \cup {m}]
<1> u \in UdpRecord BY DEF Good
<1>1. w \in UdpRecord BY DEF UdpRecord
<1>2. b \in UdpRecord
  <2> HIDE DEF w
  <2> QED BY <1>1 DEF bind, UdpRecord
<1>3. /\ b.open = u.open /\ b.sent = u.sent \cup {m} /\ b.calls = u.calls
      /\ b.lookups \cap Messages = u.lookups \cap Messages /\ b.underway = u.underway
      /\ b.answered = u.answered /\ b.threw = u.threw /\ b.refused = u.refused
      /\ b.crashed = u.crashed /\ b.closed = u.closed /\ b.asked = u.asked
      /\ b.nullUsed = u.nullUsed /\ b.receiving = u.receiving
      /\ u.bindState = "bound" => b.bindState = "bound"
  <2>1. "bind" \notin Messages BY DgramAssumption
  <2>2. b.lookups = u.lookups \/ b.lookups = u.lookups \cup {"bind"} BY DEF bind, UdpRecord
  <2>3. /\ b.open = u.open /\ b.sent = u.sent \cup {m} /\ b.calls = u.calls
        /\ b.underway = u.underway /\ b.answered = u.answered /\ b.threw = u.threw
        /\ b.refused = u.refused /\ b.crashed = u.crashed /\ b.closed = u.closed
        /\ b.asked = u.asked /\ b.nullUsed = u.nullUsed /\ b.receiving = u.receiving
        /\ u.bindState = "bound" => b.bindState = "bound"
    BY DEF bind, UdpRecord
  <2> HIDE DEF b
  <2> QED BY <2>1, <2>2, <2>3
<1>4. send(w, m) = IF b.bindState # "bound" THEN q ELSE r
  <2>1. w.open BY DEF UdpRecord
  <2> QED BY <1>3, <2>1 DEF send, healthCheck, native
<1> HIDE DEF w, b
<1>5. ASSUME NEW n \in Messages
      PROVE  /\ m \notin u.lookups /\ ~Queued(u, m)
             /\ Placed(b, n, Queued(u, n)) \/ n = m
             /\ Nowhere(b, m) /\ m \in b.sent
  <2>1. Placed(u, n, Queued(u, n)) /\ Placed(u, m, Queued(u, m)) BY DEF Good
  <2>2. n \in b.lookups <=> n \in u.lookups BY <1>3
  <2>3. m \in b.lookups <=> m \in u.lookups BY <1>3
  <2> QED BY <1>3, <2>1, <2>2, <2>3 DEF Placed, Alone, Nowhere, Live
<1>6. CASE b.bindState # "bound"
  <2>1. q \in UdpRecord
    <3>1. Append(b.calls, m) \in Seq(Messages \cup {"close"}) BY <1>2 DEF UdpRecord
    <3> QED BY <1>2, <3>1 DEF enqueue, UdpRecord
  <2>2. /\ q.open = b.open /\ q.sent = b.sent /\ q.calls = Append(u.calls, m)
        /\ q.lookups = b.lookups /\ q.underway = b.underway
        /\ q.answered = b.answered /\ q.threw = b.threw /\ q.refused = b.refused
        /\ q.crashed = b.crashed /\ q.closed = b.closed /\ q.asked = b.asked
        /\ q.nullUsed = b.nullUsed /\ q.receiving = b.receiving
    BY <1>2, <1>3 DEF enqueue, UdpRecord
  <2> HIDE DEF q
  <2>3. Balance(q) = Balance(u) BY <1>3, <2>2 DEF Balance
  <2>4. HandleInv(q) BY <1>3, <2>2 DEF Good, HandleInv
  <2>5. u.calls \in Seq(Messages \cup {"close"}) BY DEF UdpRecord
  <2>6. Distinct(q.calls)
    BY <1>5, <2>2, <2>5, AppendDistinct DEF Good, Queued
  <2>7. ASSUME NEW n \in Messages PROVE Placed(q, n, Queued(q, n))
    <3>0. Rest(Append(u.calls, m), 0, n) <=> Rest(u.calls, 0, n) \/ m = n
      BY <2>5, AppendRest
    <3>1. Queued(q, n) <=> Queued(u, n) \/ n = m BY <2>2, <3>0 DEF Queued
    <3>2. CASE n # m BY <1>5, <2>2, <3>1, <3>2 DEF Placed, Alone, Nowhere, Live
    <3>3. CASE n = m BY <1>5, <2>2, <3>1, <3>3 DEF Placed, Alone, Nowhere, Live
    <3> QED BY <3>2, <3>3
  <2> QED BY <1>3, <1>4, <1>6, <2>1, <2>2, <2>3, <2>4, <2>6, <2>7 DEF Good, w
<1>7. CASE b.bindState = "bound"
  <2>1. r \in UdpRecord BY <1>2 DEF UdpRecord
  <2>2. /\ r.open = b.open /\ r.sent = b.sent /\ r.calls = u.calls
        /\ r.lookups = b.lookups \cup {m} /\ r.underway = b.underway
        /\ r.answered = b.answered /\ r.threw = b.threw /\ r.refused = b.refused
        /\ r.crashed = b.crashed /\ r.closed = b.closed /\ r.asked = b.asked
        /\ r.nullUsed = b.nullUsed /\ r.receiving = b.receiving /\ r.bindState = "bound"
    BY <1>2, <1>3, <1>7 DEF UdpRecord
  <2> HIDE DEF r
  <2>3. Balance(r) = Balance(u) BY <1>3, <2>2 DEF Balance
  <2>4. HandleInv(r) /\ Distinct(r.calls) BY <1>3, <2>2 DEF Good, HandleInv
  <2>5. ASSUME NEW n \in Messages PROVE Placed(r, n, Queued(r, n))
    <3>1. Queued(r, n) <=> Queued(u, n) BY <2>2 DEF Queued
    <3>2. CASE n # m BY <1>5, <2>2, <3>1, <3>2 DEF Placed, Alone, Nowhere, Live
    <3>3. CASE n = m BY <1>5, <2>2, <3>1, <3>3 DEF Placed, Alone, Nowhere, Live
    <3> QED BY <3>2, <3>3
  <2> QED BY <1>3, <1>4, <1>7, <2>1, <2>2, <2>3, <2>4, <2>5 DEF Good, w
<1> QED BY <1>6, <1>7

\* The variables that the invariant speaks of are the same.
Same(u, v) ==
  /\ v.open = u.open /\ v.sent = u.sent /\ v.calls = u.calls /\ v.lookups = u.lookups
  /\ v.underway = u.underway /\ v.answered = u.answered /\ v.threw = u.threw
  /\ v.refused = u.refused /\ v.crashed = u.crashed /\ v.closed = u.closed
  /\ v.asked = u.asked /\ v.nullUsed = u.nullUsed /\ v.receiving = u.receiving

\* Then it still holds.
LEMMA SameGood ==
  ASSUME NEW u, NEW v \in UdpRecord, Good(u), Same(u, v)
  PROVE  Good(v) /\ Balance(v) = Balance(u)
<1>1. Balance(v) = Balance(u) BY DEF Same, Balance
<1>2. HandleInv(v) /\ Distinct(v.calls) BY DEF Same, Good, HandleInv
<1>3. ASSUME NEW m \in Messages PROVE Placed(v, m, Queued(v, m))
  <2>1. Placed(u, m, Queued(u, m)) BY DEF Good
  <2>2. Queued(v, m) <=> Queued(u, m) BY DEF Same, Queued
  <2> QED BY <2>1, <2>2 DEF Same, Placed, Alone, Nowhere, Live
<1> QED BY <1>1, <1>2, <1>3 DEF Good

\* What closes an open handle, and asks for 'close'.
LEMMA CloseNowIs ==
  ASSUME NEW u \in UdpRecord, u.open
  PROVE  LET v == closeNow(u)
         IN  /\ v \in UdpRecord /\ ~v.open /\ ~v.receiving
             /\ v.asked = Append(u.asked, "close")
             /\ v.sent = u.sent /\ v.calls = u.calls /\ v.lookups = u.lookups
             /\ v.underway = u.underway /\ v.answered = u.answered /\ v.threw = u.threw
             /\ v.refused = u.refused /\ v.crashed = u.crashed /\ v.closed = u.closed
             /\ v.nullUsed = u.nullUsed /\ v.queueing = u.queueing
             /\ v.bindState = u.bindState
<1> DEFINE s == stopReceiving(u)
           c == [s EXCEPT !.open = FALSE]
           v == [c EXCEPT !.asked = Append(@, "close")]
<1>1. s \in UdpRecord BY DEF stopReceiving, recvStop, native, UdpRecord
<1>2. /\ s.open /\ ~s.receiving /\ s.asked = u.asked
      /\ s.sent = u.sent /\ s.calls = u.calls /\ s.lookups = u.lookups
      /\ s.underway = u.underway /\ s.answered = u.answered /\ s.threw = u.threw
      /\ s.refused = u.refused /\ s.crashed = u.crashed /\ s.closed = u.closed
      /\ s.nullUsed = u.nullUsed /\ s.queueing = u.queueing /\ s.bindState = u.bindState
  BY DEF stopReceiving, recvStop, native, UdpRecord
<1>3. closeNow(u) = v BY <1>2 DEF closeNow, udpClose, native
<1> HIDE DEF s
<1>4. c \in UdpRecord BY <1>1 DEF UdpRecord
<1>5. v \in UdpRecord
  <2> HIDE DEF c
  <2>0. c.asked \in Seq({"close"}) BY <1>4 DEF UdpRecord
  <2>1. Append(c.asked, "close") \in Seq({"close"}) BY <2>0
  <2> QED BY <1>4, <2>1 DEF UdpRecord
<1> HIDE DEF v
<1>6. /\ ~v.open /\ ~v.receiving /\ v.asked = Append(u.asked, "close")
      /\ v.sent = u.sent /\ v.calls = u.calls /\ v.lookups = u.lookups
      /\ v.underway = u.underway /\ v.answered = u.answered /\ v.threw = u.threw
      /\ v.refused = u.refused /\ v.crashed = u.crashed /\ v.closed = u.closed
      /\ v.nullUsed = u.nullUsed /\ v.queueing = u.queueing /\ v.bindState = u.bindState
  BY <1>1, <1>2 DEF UdpRecord, v
<1> QED BY <1>3, <1>5, <1>6

\* The 'close' that is asked for takes the place of the open handle.
LEMMA CloseBalance ==
  ASSUME NEW u \in UdpRecord, u.open
  PROVE  Balance(closeNow(u)) = Balance(u)
<1>1. closeNow(u).asked = Append(u.asked, "close") /\ closeNow(u).closed = u.closed
      /\ ~closeNow(u).open
  BY CloseNowIs
<1>2. Len(Append(u.asked, "close")) = Len(u.asked) + 1 /\ Len(u.asked) \in Nat
      /\ u.closed \in Nat
  BY DEF UdpRecord
<1> QED BY <1>1, <1>2 DEF Balance

\* close() of an open socket: queued, or done.
LEMMA CloseGood ==
  ASSUME NEW u, Good(u), u.open
  PROVE  LET v == close(u)
         IN  /\ Good(v) /\ Balance(v) = Balance(u) /\ v.threw = u.threw
             /\ v.bindState = u.bindState
<1> u \in UdpRecord BY DEF Good
<1>1. CASE u.queueing
  <2> DEFINE q == enqueue(u, "close")
  <2>0. close(u) = q BY <1>1 DEF close
  <2>1. q \in UdpRecord
    <3>1. Append(u.calls, "close") \in Seq(Messages \cup {"close"}) BY DEF UdpRecord
    <3> QED BY <3>1 DEF enqueue, UdpRecord
  <2>2. /\ q.open = u.open /\ q.sent = u.sent /\ q.calls = Append(u.calls, "close")
        /\ q.lookups = u.lookups /\ q.underway = u.underway
        /\ q.answered = u.answered /\ q.threw = u.threw /\ q.refused = u.refused
        /\ q.crashed = u.crashed /\ q.closed = u.closed /\ q.asked = u.asked
        /\ q.nullUsed = u.nullUsed /\ q.receiving = u.receiving
        /\ q.bindState = u.bindState
    BY DEF enqueue, UdpRecord
  <2> HIDE DEF q
  <2>3. Balance(q) = Balance(u) BY <2>2 DEF Balance
  <2>4. HandleInv(q) BY <2>2 DEF Good, HandleInv
  <2>5. u.calls \in Seq(Messages \cup {"close"}) BY DEF UdpRecord
  <2>6. Distinct(q.calls) BY <2>2, <2>5, AppendDistinct DEF Good
  <2>7. ASSUME NEW n \in Messages PROVE Placed(q, n, Queued(q, n))
    <3>0. Rest(Append(u.calls, "close"), 0, n) <=> Rest(u.calls, 0, n) \/ "close" = n
      BY <2>5, AppendRest
    <3>1. Queued(q, n) <=> Queued(u, n) BY <2>2, <3>0, DgramAssumption DEF Queued
    <3>2. Placed(u, n, Queued(u, n)) BY DEF Good
    <3> QED BY <2>2, <3>1, <3>2 DEF Placed, Alone, Nowhere, Live
  <2> QED BY <2>0, <2>1, <2>2, <2>3, <2>4, <2>6, <2>7 DEF Good
<1>2. CASE ~u.queueing
  <2> DEFINE v == closeNow(u)
  <2>1. close(u) = v BY <1>2 DEF close, healthCheck
  <2>2. /\ v \in UdpRecord /\ ~v.open /\ ~v.receiving
        /\ v.sent = u.sent /\ v.calls = u.calls /\ v.lookups = u.lookups
        /\ v.underway = u.underway /\ v.answered = u.answered /\ v.threw = u.threw
        /\ v.nullUsed = u.nullUsed /\ v.bindState = u.bindState
    BY CloseNowIs
  <2>3. Balance(v) = Balance(u) BY CloseBalance
  <2> HIDE DEF v
  <2>4. HandleInv(v) /\ Distinct(v.calls) BY <2>2 DEF Good, HandleInv
  <2>5. ASSUME NEW n \in Messages PROVE Placed(v, n, Queued(v, n))
    <3>1. Queued(v, n) <=> Queued(u, n) BY <2>2 DEF Queued
    <3>2. Placed(u, n, Queued(u, n)) BY DEF Good
    <3> QED BY <2>2, <3>1, <3>2 DEF Placed, Alone, Nowhere, Live
  <2> QED BY <2>1, <2>2, <2>3, <2>4, <2>5 DEF Good
<1> QED BY <1>1, <1>2

-----------------------------------------------------------------------------
(* The flush of the queue.                                                 *)

\* v is the socket when k of the calls were made: it is bound and has no queue,
\* and its messages with those that are left are placed.
Flushing(b, calls, k, v) ==
  /\ v \in UdpRecord /\ HandleInv(v) /\ Balance(v) = b
  /\ ~v.queueing /\ v.calls = <<>> /\ v.bindState = "bound"
  /\ \A m \in Messages : Placed(v, m, Rest(calls, k, m))

\* One turn of the loop in clearQueue.
LEMMA FlushStep ==
  ASSUME NEW b, NEW c \in Seq(Messages \cup {"close"}), Distinct(c),
         NEW k \in Nat, k < Len(c), NEW v, Flushing(b, c, k, v)
  PROVE  Flushing(b, c, k + 1, runCall(v, c[k + 1]))
<1> DEFINE x == c[k + 1]
           w == runCall(v, x)
<1> v \in UdpRecord BY DEF Flushing
<1>1. x \in Messages \cup {"close"} OBVIOUS
<1>2. ASSUME NEW m \in Messages
      PROVE  /\ Rest(c, k, m) <=> (x = m \/ Rest(c, k + 1, m))
             /\ x = m => ~Rest(c, k + 1, m)
             /\ Placed(v, m, Rest(c, k, m))
  BY NextRest DEF Flushing
<1> HIDE DEF x
<1>3. CASE v.threw
  <2>1. w = v BY <1>3 DEF runCall
  <2>2. ASSUME NEW m \in Messages PROVE Placed(v, m, Rest(c, k + 1, m))
    BY <1>2, <1>3 DEF Placed, Live
  <2> QED BY <2>1, <2>2 DEF Flushing, x
<1>4. CASE ~v.threw /\ ~v.open
  <2> DEFINE t == [v EXCEPT !.threw = TRUE]
  <2>1. w = t BY <1>4 DEF runCall, close, send, healthCheck, Flushing
  <2>2. t \in UdpRecord BY DEF UdpRecord
  <2>3. /\ t.open = v.open /\ t.sent = v.sent /\ t.calls = v.calls /\ t.lookups = v.lookups
        /\ t.underway = v.underway /\ t.answered = v.answered /\ t.closed = v.closed
        /\ t.asked = v.asked /\ t.nullUsed = v.nullUsed /\ t.receiving = v.receiving
        /\ t.queueing = v.queueing /\ t.bindState = v.bindState /\ t.threw
    BY DEF UdpRecord
  <2> HIDE DEF t
  <2>4. Balance(t) = Balance(v) /\ HandleInv(t) BY <2>3 DEF Flushing, Balance, HandleInv
  <2>5. ASSUME NEW m \in Messages PROVE Placed(t, m, Rest(c, k + 1, m))
    BY <1>2, <2>3 DEF Placed, Alone, Nowhere, Live
  <2> QED BY <2>1, <2>2, <2>3, <2>4, <2>5 DEF Flushing, x
<1>5. CASE ~v.threw /\ v.open /\ x = "close"
  <2> DEFINE t == closeNow(v)
  <2>1. w = t BY <1>5 DEF runCall, close, healthCheck, Flushing
  <2>2. /\ t \in UdpRecord /\ ~t.open /\ ~t.receiving
        /\ t.sent = v.sent /\ t.calls = v.calls /\ t.lookups = v.lookups
        /\ t.underway = v.underway /\ t.answered = v.answered
        /\ t.nullUsed = v.nullUsed /\ t.queueing = v.queueing /\ t.bindState = v.bindState
    BY <1>5, CloseNowIs
  <2>3. Balance(t) = Balance(v) BY <1>5, CloseBalance
  <2> HIDE DEF t
  <2>4. HandleInv(t) BY <2>2 DEF Flushing, HandleInv
  <2>5. ASSUME NEW m \in Messages PROVE Placed(t, m, Rest(c, k + 1, m))
    BY <1>2, <2>2 DEF Placed, Alone, Nowhere, Live
  <2> QED BY <2>1, <2>2, <2>3, <2>4, <2>5 DEF Flushing, x
<1>6. CASE ~v.threw /\ v.open /\ x # "close"
  <2> DEFINE t == [v EXCEPT !.lookups = @ \cup {x}]
  <2>0. x \in Messages BY <1>1, <1>6
  <2>1. w = t BY <1>6 DEF runCall, send, healthCheck, native, Flushing
  <2>2. t \in UdpRecord BY <2>0 DEF UdpRecord
  <2>3. /\ t.open = v.open /\ t.sent = v.sent /\ t.calls = v.calls
        /\ t.lookups = v.lookups \cup {x} /\ t.refused = v.refused /\ t.crashed = v.crashed
        /\ t.underway = v.underway /\ t.answered = v.answered /\ t.closed = v.closed
        /\ t.asked = v.asked /\ t.nullUsed = v.nullUsed /\ t.receiving = v.receiving
        /\ t.queueing = v.queueing /\ t.bindState = v.bindState /\ t.threw = v.threw
    BY DEF UdpRecord
  <2> HIDE DEF t
  <2>4. Balance(t) = Balance(v) /\ HandleInv(t) BY <2>3 DEF Flushing, Balance, HandleInv
  <2>5. ASSUME NEW m \in Messages PROVE Placed(t, m, Rest(c, k + 1, m))
    <3>1. CASE m # x BY <1>2, <2>3, <3>1 DEF Placed, Alone, Nowhere, Live
    <3>2. CASE m = x BY <1>2, <2>3, <3>2 DEF Placed, Alone, Nowhere, Live
    <3> QED BY <3>1, <3>2
  <2> QED BY <2>1, <2>2, <2>3, <2>4, <2>5 DEF Flushing, x
<1> QED BY <1>3, <1>4, <1>5, <1>6

\* Less is the order of the natural numbers.
Less == {ss \in Nat \X Nat : ss[1] < ss[2]}

\* Induction, for sets of natural numbers.
LEMMA SetInduction ==
  ASSUME NEW S, 0 \in S, \A n \in Nat : n \in S => n + 1 \in S
  PROVE  Nat \subseteq S
<1> DEFINE T == Nat \ S
<1>1. SUFFICES ASSUME T # {} PROVE FALSE OBVIOUS
<1>2. PICK x \in T : \A y \in T : ~(<<y, x>> \in Less)
  <2>1. IsWellFoundedOn(Less, Nat) BY NatLessThanWellFounded, Zenon DEF OpToRel, Less
  <2>2. T \subseteq Nat OBVIOUS
  <2> HIDE DEF T
  <2> QED BY <1>1, <2>1, <2>2, WFMin, Zenon
<1>3. x \in Nat /\ x # 0 /\ x - 1 \in Nat BY <1>2
<1>4. x - 1 \in T BY <1>2, <1>3
<1>5. <<x - 1, x>> \in Less BY <1>3 DEF Less
<1> QED BY <1>2, <1>4, <1>5

\* f is the function that runCalls defines by recursion.
IsRun(f, u, c, n) == f = [k \in 0..n |-> IF k = 0 THEN u ELSE runCall(f[k - 1], c[k])]

\* There is one.
LEMMA RunExists ==
  ASSUME NEW u, NEW c, NEW n \in Nat
  PROVE  \E f : IsRun(f, u, c, n)
<1> USE DEF IsRun
<1> DEFINE S == {n0 \in Nat : \E f : f = [k \in 0..n0 |-> IF k = 0 THEN u
                                                      ELSE runCall(f[k - 1], c[k])]}
<1>1. 0 \in S
  <2> DEFINE f == [k \in 0..0 |-> u]
  <2>1. f = [k \in 0..0 |-> IF k = 0 THEN u ELSE runCall(f[k - 1], c[k])] OBVIOUS
  <2> QED BY <2>1
<1>2. ASSUME NEW p \in Nat, p \in S PROVE p + 1 \in S
  <2> PICK f : f = [k \in 0..p |-> IF k = 0 THEN u ELSE runCall(f[k - 1], c[k])] BY <1>2
  <2> DEFINE g == [k \in 0..(p + 1) |-> IF k <= p THEN f[k] ELSE runCall(f[p], c[p + 1])]
  <2>1. ASSUME NEW k \in 0..(p + 1)
        PROVE  g[k] = IF k = 0 THEN u ELSE runCall(g[k - 1], c[k])
    <3>1. CASE k = 0 BY <3>1
    <3>2. CASE k # 0 /\ k <= p
      <4>1. g[k] = f[k] /\ g[k - 1] = f[k - 1] /\ k \in 0..p BY <3>2
      <4> QED BY <4>1, <3>2
    <3>3. CASE k = p + 1
      <4>1. g[k - 1] = f[p] /\ g[k] = runCall(f[p], c[k]) BY <3>3
      <4> QED BY <4>1, <3>3
    <3> QED BY <3>1, <3>2, <3>3
  <2>2. g = [k \in 0..(p + 1) |-> IF k = 0 THEN u ELSE runCall(g[k - 1], c[k])] BY <2>1
  <2> HIDE DEF g
  <2> QED BY <2>2
<1>3. Nat \subseteq S
  <2> HIDE DEF S
  <2> QED BY <1>1, <1>2, SetInduction
<1> QED BY <1>3

\* The whole loop.
LEMMA RunFlushes ==
  ASSUME NEW b, NEW c \in Seq(Messages \cup {"close"}), Distinct(c),
         NEW u, Flushing(b, c, 0, u)
  PROVE  Flushing(b, c, Len(c), runCalls(u, c))
<1> DEFINE n == Len(c)
           g == CHOOSE f : IsRun(f, u, c, n)
<1>0. n \in Nat OBVIOUS
<1>1. runCalls(u, c) = g[n] BY DEF runCalls, IsRun
<1>2. g = [k \in 0..n |-> IF k = 0 THEN u ELSE runCall(g[k - 1], c[k])]
  <2> HIDE DEF n
  <2>1. \E f : IsRun(f, u, c, n) BY <1>0, RunExists
  <2>2. IsRun(g, u, c, n) BY <2>1
  <2> HIDE DEF g
  <2> QED BY <2>2 DEF IsRun
<1> HIDE DEF g
<1> DEFINE S == {k \in Nat : k <= n => Flushing(b, c, k, g[k])}
<1>3. 0 \in S
  <2>1. g[0] = u BY <1>0, <1>2
  <2> QED BY <2>1
<1>4. ASSUME NEW k \in Nat, k \in S PROVE k + 1 \in S
  <2>1. SUFFICES ASSUME k + 1 <= n PROVE Flushing(b, c, k + 1, g[k + 1]) OBVIOUS
  <2>2. Flushing(b, c, k, g[k]) /\ k < Len(c) BY <1>0, <1>4, <2>1
  <2>3. g[k + 1] = runCall(g[k], c[k + 1])
    <3>1. k + 1 \in 0..n /\ k + 1 # 0 /\ (k + 1) - 1 = k BY <1>0, <2>1
    <3> QED BY <1>2, <3>1
  <2> QED BY <2>2, <2>3, FlushStep
<1>5. Nat \subseteq S
  <2> HIDE DEF S
  <2> QED BY <1>3, <1>4, SetInduction
<1> QED BY <1>0, <1>1, <1>5

\* clearQueue of a bound socket places every message that was queued.
LEMMA ClearGood ==
  ASSUME NEW u, Good(u), u.bindState = "bound"
  PROVE  Good(clearQueue(u)) /\ Balance(clearQueue(u)) = Balance(u)
<1> u \in UdpRecord BY DEF Good
<1>1. CASE ~u.queueing BY <1>1 DEF clearQueue
<1>2. CASE u.queueing
  <2> DEFINE w == [u EXCEPT !.queueing = FALSE, !.calls = <<>>]
             c == u.calls
             v == runCalls(w, c)
  <2>1. clearQueue(u) = v BY <1>2 DEF clearQueue
  <2>2. c \in Seq(Messages \cup {"close"}) /\ Distinct(c) BY DEF Good, UdpRecord
  <2>3. w \in UdpRecord BY EmptyRest DEF UdpRecord
  <2>4. /\ w.open = u.open /\ w.sent = u.sent /\ w.lookups = u.lookups
        /\ w.underway = u.underway /\ w.answered = u.answered /\ w.threw = u.threw
        /\ w.refused = u.refused /\ w.crashed = u.crashed /\ w.closed = u.closed
        /\ w.asked = u.asked /\ w.nullUsed = u.nullUsed /\ w.receiving = u.receiving
        /\ ~w.queueing /\ w.calls = <<>> /\ w.bindState = "bound"
    BY DEF UdpRecord
  <2> HIDE DEF w
  <2>5. Flushing(Balance(u), c, 0, w)
    <3>1. Balance(w) = Balance(u) /\ HandleInv(w) BY <2>4 DEF Good, Balance, HandleInv
    <3>2. ASSUME NEW m \in Messages PROVE Placed(w, m, Rest(c, 0, m))
      <4>1. Placed(u, m, Rest(c, 0, m)) BY DEF Good, Queued
      <4> QED BY <2>4, <4>1 DEF Placed, Alone, Nowhere, Live
    <3> QED BY <2>3, <2>4, <3>1, <3>2 DEF Flushing
  <2> HIDE DEF c
  <2>6. Flushing(Balance(u), c, Len(c), v) BY <2>2, <2>5, RunFlushes
  <2> HIDE DEF v
  <2>7. ASSUME NEW m \in Messages PROVE Placed(v, m, Queued(v, m))
    <3>1. ~Rest(c, Len(c), m) BY <2>2 DEF Rest
    <3>2. ~Queued(v, m) BY <2>6, EmptyRest DEF Flushing, Queued
    <3>3. Placed(v, m, Rest(c, Len(c), m)) BY <2>6 DEF Flushing
    <3> QED BY <3>1, <3>2, <3>3 DEF Placed
  <2>8. Distinct(v.calls) BY <2>6, EmptyRest DEF Flushing
  <2> QED BY <2>1, <2>6, <2>7, <2>8 DEF Good, Flushing
<1> QED BY <1>1, <1>2

-----------------------------------------------------------------------------
(* Listeners, and the answers of lookups and requests.                     *)

\* Whatever a listener does on an open socket.
LEMMA ListenerGood ==
  ASSUME NEW u, Good(u), u.open, NEW v \in ListenerCalls(u)
  PROVE  /\ Good(v) /\ Balance(v) = Balance(u)
         /\ u.bindState = "bound" => v.bindState = "bound"
<1> u \in UdpRecord BY DEF Good
<1>1. \/ v = u \/ v = close([u EXCEPT !.closing = TRUE])
      \/ \E m \in Messages \ u.sent : v = send([u EXCEPT !.sent = @ \cup {m}], m)
      \/ v = [u EXCEPT !.threw = TRUE]
  BY DEF ListenerCalls
<1>2. CASE v = u BY <1>2
<1>3. CASE v = close([u EXCEPT !.closing = TRUE])
  <2> DEFINE w == [u EXCEPT !.closing = TRUE]
  <2>1. w \in UdpRecord /\ Same(u, w) /\ w.bindState = u.bindState BY DEF UdpRecord, Same
  <2> HIDE DEF w
  <2>2. Good(w) /\ Balance(w) = Balance(u) BY <2>1, SameGood
  <2>3. w.open BY <2>1 DEF Same
  <2>4. v = close(w) BY <1>3 DEF w
  <2> QED BY <2>1, <2>2, <2>3, <2>4, CloseGood
<1>4. CASE \E m \in Messages \ u.sent : v = send([u EXCEPT !.sent = @ \cup {m}], m)
  BY <1>4, SendGood
<1>5. CASE v = [u EXCEPT !.threw = TRUE]
  <2>1. v \in UdpRecord BY <1>5 DEF UdpRecord
  <2>2. /\ v.open = u.open /\ v.sent = u.sent /\ v.calls = u.calls /\ v.lookups = u.lookups
        /\ v.underway = u.underway /\ v.answered = u.answered /\ v.threw
        /\ v.closed = u.closed /\ v.bindState = u.bindState
        /\ v.asked = u.asked /\ v.nullUsed = u.nullUsed /\ v.receiving = u.receiving
    BY <1>5 DEF UdpRecord
  <2>3. Balance(v) = Balance(u) BY <2>2 DEF Balance
  <2>4. HandleInv(v) /\ Distinct(v.calls) BY <2>2 DEF Good, HandleInv
  <2>5. ASSUME NEW m \in Messages PROVE Placed(v, m, Queued(v, m))
    <3>1. Placed(u, m, Queued(u, m)) BY DEF Good
    <3>2. Queued(v, m) <=> Queued(u, m) BY <2>2 DEF Queued
    <3> QED BY <2>2, <3>1, <3>2 DEF Placed, Alone, Nowhere, Live
  <2> QED BY <2>1, <2>2, <2>3, <2>4, <2>5 DEF Good
<1> QED BY <1>1, <1>2, <1>3, <1>4, <1>5

\* The socket is bound: listeners run, and the queue is flushed.
LEMMA StartGood ==
  ASSUME NEW u, Good(u), u.open, NEW v \in startListening(u)
  PROVE  Good(v) /\ Balance(v) = Balance(u)
<1> DEFINE w == [recvStart(u) EXCEPT !.bindState = "bound"]
<1> u \in UdpRecord BY DEF Good
<1>1. w \in UdpRecord
  <2>1. recvStart(u) \in UdpRecord BY DEF recvStart, native, UdpRecord
  <2> QED BY <2>1 DEF UdpRecord
<1>2. /\ w.open = u.open /\ w.sent = u.sent /\ w.calls = u.calls /\ w.lookups = u.lookups
      /\ w.underway = u.underway /\ w.answered = u.answered /\ w.threw = u.threw
      /\ w.refused = u.refused /\ w.crashed = u.crashed /\ w.closed = u.closed
      /\ w.asked = u.asked /\ w.nullUsed = u.nullUsed /\ w.bindState = "bound"
  BY DEF recvStart, native, UdpRecord
<1>3. PICK x \in ListenerCalls(w) : v = IF x.threw THEN x ELSE clearQueue(x)
  BY DEF startListening
<1> HIDE DEF w
<1>4. Good(w) /\ Balance(w) = Balance(u)
  <2>1. Balance(w) = Balance(u) BY <1>2 DEF Balance
  <2>2. HandleInv(w) /\ Distinct(w.calls) BY <1>2 DEF Good, HandleInv
  <2>3. ASSUME NEW m \in Messages PROVE Placed(w, m, Queued(w, m))
    <3>1. Placed(u, m, Queued(u, m)) BY DEF Good
    <3>2. Queued(w, m) <=> Queued(u, m) BY <1>2 DEF Queued
    <3> QED BY <1>2, <3>1, <3>2 DEF Placed, Alone, Nowhere, Live
  <2> QED BY <1>1, <2>1, <2>2, <2>3 DEF Good
<1>5. Good(x) /\ Balance(x) = Balance(u) /\ x.bindState = "bound"
  BY <1>2, <1>4, ListenerGood
<1> QED BY <1>3, <1>5, ClearGood

\* The native bind has failed: the state is reset, or a listener has thrown.
LEMMA BindFailedGood ==
  ASSUME NEW u, Good(u), u.open, NEW v \in bindFailed(u)
  PROVE  Good(v) /\ Balance(v) = Balance(u)
<1> DEFINE w == [u EXCEPT !.failed = TRUE]
<1> u \in UdpRecord BY DEF Good
<1>1. w \in UdpRecord /\ Same(u, w) BY DEF UdpRecord, Same
<1>2. PICK x \in ListenerCalls(w) : v = IF x.threw THEN x ELSE [x EXCEPT !.bindState = "unbound"]
  BY DEF bindFailed
<1> HIDE DEF w
<1>3. Good(w) /\ Balance(w) = Balance(u) /\ w.open BY <1>1, SameGood DEF Same
<1>4. Good(x) /\ Balance(x) = Balance(u) BY <1>3, ListenerGood
<1> DEFINE y == [x EXCEPT !.bindState = "unbound"]
<1>5. y \in UdpRecord /\ Same(x, y) BY <1>4 DEF Good, UdpRecord, Same
<1> HIDE DEF y
<1>6. Good(y) /\ Balance(y) = Balance(u) BY <1>4, <1>5, SameGood
<1> QED BY <1>2, <1>4, <1>6 DEF y

-----------------------------------------------------------------------------
(* The steps.                                                              *)

\* The ticks asked for are put into the queue, and the exception, if any, is
\* recorded: v is the socket that is left of w.
LEMMA StepKeeps ==
  ASSUME UdpInv, NEW w, Good(w), Balance(w) = Balance(udp),
         NEW v \in UdpRecord, udp' = v,
         v.open = w.open, v.sent = w.sent, v.calls = w.calls, v.lookups = w.lookups,
         v.underway = w.underway, v.answered = w.answered, v.refused = w.refused,
         v.closed = w.closed, v.nullUsed = w.nullUsed, v.receiving = w.receiving,
         v.asked = <<>>, ~v.threw, ~v.crashed => ~w.crashed /\ ~w.threw,
         queue' = queue \o w.asked, batch' = batch, js' \in {"frame", "ticks", "idle"},
         js' # "ticks" => js # "ticks"
  PROVE  UdpInv'
<1>1. HandleInv(v) /\ Distinct(v.calls) BY DEF Good, HandleInv
<1>2. ASSUME NEW m \in Messages PROVE Placed(v, m, Queued(v, m))
  <2>1. Placed(w, m, Queued(w, m)) BY DEF Good
  <2>2. Queued(v, m) <=> Queued(w, m) BY DEF Queued
  <2> QED BY <2>1, <2>2 DEF Placed, Alone, Nowhere, Live
<1>3. Good(v) BY <1>1, <1>2 DEF Good
<1>4. w.asked \in Seq({"close"}) /\ w.closed \in Nat BY DEF Good, UdpRecord
<1>5. queue \in Seq({"close"}) /\ batch \in Seq({"close"})
      /\ Balance(udp) + Len(queue) + Len(batch) = 1
  BY DEF UdpInv
<1> DEFINE q == queue \o w.asked
<1>6. q \in Seq({"close"}) /\ Len(q) = Len(queue) + Len(w.asked) BY <1>4, <1>5
<1>7. Balance(v) + Len(w.asked) = Balance(w)
  <2>1. Len(v.asked) = 0 OBVIOUS
  <2> QED BY <2>1, <1>4 DEF Balance
<1>8. Balance(v) \in Nat /\ Len(w.asked) \in Nat /\ Len(queue) \in Nat /\ Len(batch) \in Nat
  <2>1. Len(v.asked) = 0 OBVIOUS
  <2> QED BY <2>1, <1>4, <1>5 DEF Balance
<1> HIDE DEF q
<1>9. Balance(v) + Len(q) + Len(batch) = 1 BY <1>5, <1>6, <1>7, <1>8
<1> QED BY <1>3, <1>5, <1>6, <1>9 DEF UdpInv, q

\* A call of the user, which has not thrown.
LEMMA CallKeeps ==
  ASSUME UdpInv, NEW w, Good(w), Balance(w) = Balance(udp), ~w.threw, Call(w)
  PROVE  UdpInv'
<1> DEFINE v == [w EXCEPT !.asked = <<>>, !.threw = FALSE]
<1> w \in UdpRecord BY DEF Good
<1>1. udp' = v BY DEF Call, Becomes
<1>2. v \in UdpRecord
  <2>1. <<>> \in Seq({"close"}) OBVIOUS
  <2> QED BY <2>1 DEF UdpRecord
<1>3. /\ v.open = w.open /\ v.sent = w.sent /\ v.calls = w.calls /\ v.lookups = w.lookups
      /\ v.underway = w.underway /\ v.answered = w.answered /\ v.refused = w.refused
      /\ v.closed = w.closed /\ v.nullUsed = w.nullUsed /\ v.receiving = w.receiving
      /\ v.asked = <<>> /\ ~v.threw /\ (~v.crashed => ~w.crashed /\ ~w.threw)
  BY DEF UdpRecord
<1>4. queue' = queue \o w.asked /\ batch' = batch /\ js' = js BY DEF Call, CallStep
<1>5. js' \in {"frame", "ticks", "idle"} BY <1>4 DEF UdpInv
<1> HIDE DEF v
<1> QED BY <1>1, <1>2, <1>3, <1>4, <1>5, StepKeeps

\* A callback of the loop.
LEMMA EventKeeps ==
  ASSUME UdpInv, NEW w, Good(w), Balance(w) = Balance(udp), Event(w)
  PROVE  UdpInv'
<1> DEFINE x == [w EXCEPT !.crashed = @ \/ w.threw]
           v == [x EXCEPT !.asked = <<>>, !.threw = FALSE]
<1> w \in UdpRecord BY DEF Good
<1>1. udp' = v BY DEF Event, Becomes
<1>2. x \in UdpRecord BY DEF UdpRecord
<1>3. v \in UdpRecord
  <2>1. <<>> \in Seq({"close"}) OBVIOUS
  <2> HIDE DEF x
  <2> QED BY <1>2, <2>1 DEF UdpRecord
<1>4. /\ v.open = w.open /\ v.sent = w.sent /\ v.calls = w.calls /\ v.lookups = w.lookups
      /\ v.underway = w.underway /\ v.answered = w.answered /\ v.refused = w.refused
      /\ v.closed = w.closed /\ v.nullUsed = w.nullUsed /\ v.receiving = w.receiving
      /\ v.asked = <<>> /\ ~v.threw /\ (~v.crashed => ~w.crashed /\ ~w.threw)
  BY DEF UdpRecord
<1>5. queue' = queue \o w.asked /\ batch' = batch /\ js' = "frame" /\ js = "idle"
  BY DEF Event, EventStep
<1> HIDE DEF v
<1> QED BY <1>1, <1>3, <1>4, <1>5, StepKeeps

\* The calls of the user.
LEMMA UserKeeps ==
  ASSUME UdpInv, Bind \/ Send \/ Close
  PROVE  UdpInv'
<1> udp \in UdpRecord /\ Good(udp) /\ ~udp.threw BY DEF UdpInv, Good
<1>1. CASE Bind
  <2> DEFINE w == [udp EXCEPT !.binds = @ + 1]
  <2>1. w \in UdpRecord
    <3>1. udp.binds + 1 \in Nat BY DEF UdpRecord
    <3> QED BY <3>1, Zenon DEF UdpRecord
  <2>2. Same(udp, w) BY DEF UdpRecord, Same
  <2>3. Call(bind(w)) BY <1>1 DEF Bind
  <2> HIDE DEF w
  <2>4. Good(w) /\ Balance(w) = Balance(udp) /\ ~w.threw BY <2>1, <2>2, SameGood DEF Same
  <2> QED BY <2>3, <2>4, BindGood, CallKeeps
<1>2. CASE Send
  <2>1. PICK m \in Messages \ udp.sent : Call(send([udp EXCEPT !.sent = @ \cup {m}], m))
    BY <1>2 DEF Send
  <2>2. udp.open BY <1>2 DEF Send
  <2> DEFINE v == send([udp EXCEPT !.sent = @ \cup {m}], m)
  <2>3. Good(v) /\ Balance(v) = Balance(udp) /\ v.threw = udp.threw
    BY <2>1, <2>2, SendGood
  <2>4. Call(v) BY <2>1
  <2> HIDE DEF v
  <2> QED BY <2>3, <2>4, CallKeeps
<1>3. CASE Close
  <2> DEFINE w == [udp EXCEPT !.closes = @ + 1, !.closing = TRUE]
  <2>1. w \in UdpRecord
    <3>1. udp.closes + 1 \in Nat BY DEF UdpRecord
    <3>2. ASSUME NEW n \in Nat PROVE [udp EXCEPT !.closes = n, !.closing = TRUE] \in UdpRecord
      BY DEF UdpRecord
    <3>3. w = [udp EXCEPT !.closes = udp.closes + 1, !.closing = TRUE] BY DEF UdpRecord
    <3> QED BY <3>1, <3>2, <3>3
  <2>2. Same(udp, w) BY DEF UdpRecord, Same
  <2>3. Call(close(w)) /\ udp.open BY <1>3 DEF Close
  <2> HIDE DEF w
  <2>4. Good(w) /\ Balance(w) = Balance(udp) /\ ~w.threw /\ w.open
    BY <2>1, <2>2, <2>3, SameGood DEF Same
  <2> QED BY <2>3, <2>4, CloseGood, CallKeeps
<1> QED BY <1>1, <1>2, <1>3

\* The answer of the lookup of bind().
LEMMA BindLookupKeeps ==
  ASSUME UdpInv, BindLookup
  PROVE  UdpInv'
<1> DEFINE u == [udp EXCEPT !.lookups = @ \ {"bind"}]
           l(none) == [u EXCEPT !.bindState = "unbound", !.failed = TRUE, !.threw = none]
<1> udp \in UdpRecord /\ Good(udp) BY DEF UdpInv, Good
<1>1. u \in UdpRecord BY DEF UdpRecord
<1>2. /\ u.open = udp.open /\ u.sent = udp.sent /\ u.calls = udp.calls
      /\ u.lookups = udp.lookups \ {"bind"}
      /\ u.underway = udp.underway /\ u.answered = udp.answered /\ u.threw = udp.threw
      /\ u.refused = udp.refused /\ u.crashed = udp.crashed /\ u.closed = udp.closed
      /\ u.asked = udp.asked /\ u.nullUsed = udp.nullUsed /\ u.receiving = udp.receiving
  BY DEF UdpRecord
<1>3. \/ \E none \in BOOLEAN : Event(l(none))
      \/ Event(u)
      \/ u.open /\ \E v \in startListening(u) : Event(v)
      \/ u.open /\ \E v \in bindFailed(u) : Event(v)
  BY DEF BindLookup
<1> HIDE DEF u
<1>4. Good(u) /\ Balance(u) = Balance(udp)
  <2>1. Balance(u) = Balance(udp) BY <1>2 DEF Balance
  <2>2. HandleInv(u) /\ Distinct(u.calls) BY <1>2 DEF Good, HandleInv
  <2>3. ASSUME NEW m \in Messages PROVE Placed(u, m, Queued(u, m))
    <3>1. Placed(udp, m, Queued(udp, m)) BY DEF Good
    <3>2. Queued(u, m) <=> Queued(udp, m) BY <1>2 DEF Queued
    <3>3. m \in u.lookups <=> m \in udp.lookups BY <1>2, DgramAssumption
    <3> QED BY <1>2, <3>1, <3>2, <3>3 DEF Placed, Alone, Nowhere, Live
  <2> QED BY <1>1, <2>1, <2>2, <2>3 DEF Good
<1>5. ASSUME NEW none \in BOOLEAN, Event(l(none)) PROVE UdpInv'
  <2> DEFINE v == l(none)
  <2>1. v \in UdpRecord BY <1>1 DEF UdpRecord
  <2>2. /\ v.open = u.open /\ v.sent = u.sent /\ v.calls = u.calls /\ v.lookups = u.lookups
        /\ v.underway = u.underway /\ v.answered = u.answered /\ v.refused = u.refused
        /\ v.crashed = u.crashed /\ v.closed = u.closed /\ v.asked = u.asked
        /\ v.nullUsed = u.nullUsed /\ v.receiving = u.receiving /\ ~u.threw
    BY <1>1, <1>2 DEF UdpRecord, UdpInv
  <2>3. Event(v) BY <1>5
  <2> HIDE DEF l, v
  <2>4. Balance(v) = Balance(u) BY <2>2 DEF Balance
  <2>5. HandleInv(v) /\ Distinct(v.calls) BY <1>4, <2>2 DEF Good, HandleInv
  <2>6. ASSUME NEW m \in Messages PROVE Placed(v, m, Queued(v, m))
    <3>1. Placed(u, m, Queued(u, m)) BY <1>4 DEF Good
    <3>2. Queued(v, m) <=> Queued(u, m) BY <2>2 DEF Queued
    <3> QED BY <2>2, <3>1, <3>2 DEF Placed, Alone, Nowhere, Live
  <2> QED BY <1>4, <2>1, <2>3, <2>4, <2>5, <2>6, EventKeeps DEF Good
<1>6. CASE Event(u) BY <1>4, <1>6, EventKeeps
<1>7. CASE u.open /\ \E v \in startListening(u) : Event(v)
  BY <1>4, <1>7, StartGood, EventKeeps
<1>8. CASE u.open /\ \E v \in bindFailed(u) : Event(v)
  BY <1>4, <1>8, BindFailedGood, EventKeeps
<1> QED BY <1>3, <1>5, <1>6, <1>7, <1>8

\* The places of a message that moves: v has the message m elsewhere than u, or,
\* if it may be lost there, nowhere.
LEMMA MoveGood ==
  ASSUME NEW u, Good(u), NEW v \in UdpRecord, NEW m \in Messages, m \in u.sent,
         v.open = u.open, v.sent = u.sent, v.calls = u.calls, ~Queued(u, m),
         v.crashed = u.crashed, v.closed = u.closed, v.asked = u.asked,
         v.nullUsed = u.nullUsed, v.receiving = u.receiving, ~u.threw,
         Alone(v, m), Live(v, m) => ~Nowhere(v, m),
         \A n \in Messages \ {m} :
           /\ n \in v.lookups <=> n \in u.lookups
           /\ n \in v.underway <=> n \in u.underway
           /\ n \in v.refused <=> n \in u.refused
           /\ v.answered[n] = u.answered[n]
  PROVE  Good(v) /\ Balance(v) = Balance(u)
<1>1. Balance(v) = Balance(u) BY DEF Balance
<1>2. HandleInv(v) /\ Distinct(v.calls) BY DEF Good, HandleInv
<1>3. ASSUME NEW n \in Messages PROVE Placed(v, n, Queued(v, n))
  <2>1. Placed(u, n, Queued(u, n)) BY DEF Good
  <2>2. Queued(v, n) <=> Queued(u, n) BY DEF Queued
  <2>3. CASE n = m BY <2>2, <2>3 DEF Placed
  <2>4. CASE n # m BY <2>1, <2>2, <2>4 DEF Placed, Alone, Nowhere, Live
  <2> QED BY <2>3, <2>4
<1> QED BY <1>1, <1>2, <1>3 DEF Good

\* The answer of the lookup of a send.
LEMMA SendLookupKeeps ==
  ASSUME UdpInv, NEW m \in Messages, SendLookup(m)
  PROVE  UdpInv'
<1> DEFINE u == [udp EXCEPT !.lookups = @ \ {m}]
           s == [u EXCEPT !.underway = @ \cup {m}]
           r == [u EXCEPT !.threw = m \in Listened, !.refused = @ \cup {m}]
           a(none) == [[u EXCEPT !.answered[m] = @ + 1] EXCEPT !.threw = none /\ m \notin Listened]
<1> udp \in UdpRecord /\ Good(udp) /\ ~udp.threw BY DEF UdpInv, Good
<1>1. m \in udp.lookups BY DEF SendLookup
<1>2. /\ m \in udp.sent /\ m \notin udp.underway /\ udp.answered[m] = 0 /\ ~Queued(udp, m)
  <2>1. Placed(udp, m, Queued(udp, m)) BY DEF Good
  <2> QED BY <1>1, <2>1 DEF Placed, Alone, Nowhere
<1>3. \/ ~udp.open /\ Event(u)
      \/ udp.open /\ (Event(s) \/ Event(r))
      \/ \E none \in BOOLEAN : Event(a(none))
  <2>1. u.open = udp.open BY DEF UdpRecord
  <2> QED BY <2>1 DEF SendLookup, doSend, udpSend, native, answer
<1>4. u \in UdpRecord BY DEF UdpRecord
<1>5. /\ u.open = udp.open /\ u.sent = udp.sent /\ u.calls = udp.calls
      /\ u.lookups = udp.lookups \ {m}
      /\ u.underway = udp.underway /\ u.answered = udp.answered /\ u.threw = udp.threw
      /\ u.refused = udp.refused /\ u.crashed = udp.crashed /\ u.closed = udp.closed
      /\ u.asked = udp.asked /\ u.nullUsed = udp.nullUsed /\ u.receiving = udp.receiving
  BY DEF UdpRecord
<1> HIDE DEF u
<1>6. CASE ~udp.open /\ Event(u)
  <2>1. Alone(u, m) BY <1>2, <1>5 DEF Alone, Nowhere
  <2>2. ~Live(u, m) BY <1>5, <1>6 DEF Live
  <2>3. Good(u) /\ Balance(u) = Balance(udp) BY <1>2, <1>4, <1>5, <2>1, <2>2, MoveGood
  <2> QED BY <1>6, <2>3, EventKeeps
<1>7. CASE Event(s)
  <2>1. s \in UdpRecord
    <3>1. u.underway \cup {m} \in SUBSET Messages BY <1>4 DEF UdpRecord
    <3>2. ASSUME NEW x \in SUBSET Messages PROVE [u EXCEPT !.underway = x] \in UdpRecord
      BY <1>4 DEF UdpRecord
    <3>3. s = [u EXCEPT !.underway = u.underway \cup {m}] BY <1>4 DEF UdpRecord
    <3> QED BY <3>1, <3>2, <3>3
  <2>2. /\ s.open = u.open /\ s.sent = u.sent /\ s.calls = u.calls /\ s.lookups = u.lookups
        /\ s.underway = u.underway \cup {m} /\ s.answered = u.answered
        /\ s.refused = u.refused /\ s.crashed = u.crashed /\ s.closed = u.closed
        /\ s.asked = u.asked /\ s.nullUsed = u.nullUsed /\ s.receiving = u.receiving
    BY <1>4 DEF UdpRecord
  <2> HIDE DEF s
  <2>3. Alone(s, m) /\ ~Nowhere(s, m) BY <1>2, <1>5, <2>2 DEF Alone, Nowhere
  <2>4. Good(s) /\ Balance(s) = Balance(udp) BY <1>2, <1>5, <2>1, <2>2, <2>3, MoveGood
  <2> QED BY <1>7, <2>4, EventKeeps
<1>8. CASE Event(r)
  <2>1. r \in UdpRecord
    <3>1. u.refused \cup {m} \in SUBSET (Messages \cup {"bind"}) BY <1>4 DEF UdpRecord
    <3>2. ASSUME NEW b \in BOOLEAN, NEW x \in SUBSET (Messages \cup {"bind"})
          PROVE  [u EXCEPT !.threw = b, !.refused = x] \in UdpRecord
      BY <1>4 DEF UdpRecord
    <3>3. r = [u EXCEPT !.threw = m \in Listened, !.refused = u.refused \cup {m}]
      BY <1>4 DEF UdpRecord
    <3>4. (m \in Listened) \in BOOLEAN OBVIOUS
    <3> QED BY <3>1, <3>2, <3>3, <3>4
  <2>2. /\ r.open = u.open /\ r.sent = u.sent /\ r.calls = u.calls /\ r.lookups = u.lookups
        /\ r.underway = u.underway /\ r.answered = u.answered
        /\ r.refused = u.refused \cup {m} /\ r.crashed = u.crashed /\ r.closed = u.closed
        /\ r.asked = u.asked /\ r.nullUsed = u.nullUsed /\ r.receiving = u.receiving
    BY <1>4 DEF UdpRecord
  <2> HIDE DEF r
  <2>3. Alone(r, m) /\ ~Live(r, m) BY <1>2, <1>5, <2>2 DEF Alone, Nowhere, Live
  <2>4. Good(r) /\ Balance(r) = Balance(udp) BY <1>2, <1>5, <2>1, <2>2, <2>3, MoveGood
  <2> QED BY <1>8, <2>4, EventKeeps
<1>9. ASSUME NEW none \in BOOLEAN, Event(a(none)) PROVE UdpInv'
  <2> DEFINE v == a(none)
             w == [u EXCEPT !.answered[m] = @ + 1]
  <2>0. u.answered \in [Messages -> Nat] BY <1>4 DEF UdpRecord
  <2>1. w \in UdpRecord
    <3>1. [u.answered EXCEPT ![m] = @ + 1] \in [Messages -> Nat] BY <2>0
    <3>2. w = [u EXCEPT !.answered = [u.answered EXCEPT ![m] = @ + 1]] BY <1>4 DEF UdpRecord
    <3> QED BY <1>4, <3>1, <3>2 DEF UdpRecord
  <2>2. /\ w.open = u.open /\ w.sent = u.sent /\ w.calls = u.calls /\ w.lookups = u.lookups
        /\ w.underway = u.underway /\ w.answered = [u.answered EXCEPT ![m] = @ + 1]
        /\ w.refused = u.refused /\ w.crashed = u.crashed /\ w.closed = u.closed
        /\ w.asked = u.asked /\ w.nullUsed = u.nullUsed /\ w.receiving = u.receiving
    BY <1>4 DEF UdpRecord
  <2>3. v = [w EXCEPT !.threw = none /\ m \notin Listened] OBVIOUS
  <2>4. Event(v) BY <1>9
  <2> HIDE DEF a, v, w
  <2>5. v \in UdpRecord BY <2>1, <2>3 DEF UdpRecord
  <2>6. /\ v.open = u.open /\ v.sent = u.sent /\ v.calls = u.calls /\ v.lookups = u.lookups
        /\ v.underway = u.underway /\ v.answered = [u.answered EXCEPT ![m] = @ + 1]
        /\ v.refused = u.refused /\ v.crashed = u.crashed /\ v.closed = u.closed
        /\ v.asked = u.asked /\ v.nullUsed = u.nullUsed /\ v.receiving = u.receiving
    BY <2>1, <2>2, <2>3 DEF UdpRecord
  <2>7. v.answered[m] = 1 /\ \A n \in Messages \ {m} : v.answered[n] = u.answered[n]
    BY <1>2, <1>5, <2>0, <2>6
  <2>8. Alone(v, m) /\ ~Nowhere(v, m) BY <1>2, <1>5, <2>6, <2>7 DEF Alone, Nowhere
  <2>9. \A n \in Messages \ {m} :
          /\ n \in v.lookups <=> n \in udp.lookups
          /\ n \in v.underway <=> n \in udp.underway
          /\ n \in v.refused <=> n \in udp.refused
          /\ v.answered[n] = udp.answered[n]
    BY <1>5, <2>6, <2>7
  <2>10. /\ v.open = udp.open /\ v.sent = udp.sent /\ v.calls = udp.calls
         /\ v.crashed = udp.crashed /\ v.closed = udp.closed /\ v.asked = udp.asked
         /\ v.nullUsed = udp.nullUsed /\ v.receiving = udp.receiving
    BY <1>5, <2>6
  <2>11. Good(v) /\ Balance(v) = Balance(udp)
    BY <1>2, <2>5, <2>8, <2>9, <2>10, MoveGood
  <2> QED BY <2>4, <2>11, EventKeeps
<1> QED BY <1>3, <1>6, <1>7, <1>8, <1>9

\* The end of a send.
LEMMA OnSendKeeps ==
  ASSUME UdpInv, NEW m \in Messages, OnSend(m)
  PROVE  UdpInv'
<1> DEFINE w == [udp EXCEPT !.answered[m] = @ + 1]
           v == [w EXCEPT !.underway = @ \ {m}]
<1> udp \in UdpRecord /\ Good(udp) /\ ~udp.threw BY DEF UdpInv, Good
<1>1. m \in udp.underway /\ Event(v) BY DEF OnSend, answer
<1>2. /\ m \in udp.sent /\ m \notin udp.lookups /\ udp.answered[m] = 0 /\ ~Queued(udp, m)
  <2>1. Placed(udp, m, Queued(udp, m)) BY DEF Good
  <2> QED BY <1>1, <2>1 DEF Placed, Alone, Nowhere
<1>3. udp.answered \in [Messages -> Nat] BY DEF UdpRecord
<1>4. w \in UdpRecord
  <2>1. [udp.answered EXCEPT ![m] = @ + 1] \in [Messages -> Nat] BY <1>3
  <2>2. w = [udp EXCEPT !.answered = [udp.answered EXCEPT ![m] = @ + 1]] BY DEF UdpRecord
  <2> QED BY <2>1, <2>2 DEF UdpRecord
<1>5. /\ w.open = udp.open /\ w.sent = udp.sent /\ w.calls = udp.calls
      /\ w.lookups = udp.lookups /\ w.underway = udp.underway
      /\ w.answered = [udp.answered EXCEPT ![m] = @ + 1]
      /\ w.refused = udp.refused /\ w.crashed = udp.crashed /\ w.closed = udp.closed
      /\ w.asked = udp.asked /\ w.nullUsed = udp.nullUsed /\ w.receiving = udp.receiving
  BY DEF UdpRecord
<1> HIDE DEF w
<1>6. v \in UdpRecord BY <1>4 DEF UdpRecord
<1>7. /\ v.open = udp.open /\ v.sent = udp.sent /\ v.calls = udp.calls
      /\ v.lookups = udp.lookups /\ v.underway = udp.underway \ {m}
      /\ v.answered = [udp.answered EXCEPT ![m] = @ + 1]
      /\ v.refused = udp.refused /\ v.crashed = udp.crashed /\ v.closed = udp.closed
      /\ v.asked = udp.asked /\ v.nullUsed = udp.nullUsed /\ v.receiving = udp.receiving
  BY <1>4, <1>5 DEF UdpRecord
<1> HIDE DEF v
<1>8. v.answered[m] = 1 /\ \A n \in Messages \ {m} : v.answered[n] = udp.answered[n]
  BY <1>2, <1>3, <1>7
<1>9. Alone(v, m) /\ ~Nowhere(v, m) BY <1>2, <1>7, <1>8 DEF Alone, Nowhere
<1>10. \A n \in Messages \ {m} :
         /\ n \in v.lookups <=> n \in udp.lookups
         /\ n \in v.underway <=> n \in udp.underway
         /\ n \in v.refused <=> n \in udp.refused
         /\ v.answered[n] = udp.answered[n]
  BY <1>7, <1>8
<1>11. Good(v) /\ Balance(v) = Balance(udp) BY <1>2, <1>6, <1>7, <1>9, <1>10, MoveGood
<1> QED BY <1>1, <1>11, EventKeeps

\* A lookup that libuv refuses.
LEMMA LookupRefusedKeeps ==
  ASSUME UdpInv, NEW name \in Messages \cup {"bind"}, LookupRefused(name)
  PROVE  UdpInv'
<1> DEFINE v == [udp EXCEPT !.lookups = @ \ {name}, !.refused = @ \cup {name}]
<1> udp \in UdpRecord /\ Good(udp) /\ ~udp.threw BY DEF UdpInv, Good
<1>1. name \in udp.lookups /\ udp' = v /\ UNCHANGED tickVars BY DEF LookupRefused
<1>2. v \in UdpRecord
  <2>1. /\ udp.lookups \ {name} \in SUBSET (Messages \cup {"bind"})
        /\ udp.refused \cup {name} \in SUBSET (Messages \cup {"bind"})
    BY DEF UdpRecord
  <2>2. ASSUME NEW x \in SUBSET (Messages \cup {"bind"}),
               NEW y \in SUBSET (Messages \cup {"bind"})
        PROVE  [udp EXCEPT !.lookups = x, !.refused = y] \in UdpRecord
    BY DEF UdpRecord
  <2>3. v = [udp EXCEPT !.lookups = udp.lookups \ {name},
                        !.refused = udp.refused \cup {name}]
    BY DEF UdpRecord
  <2> QED BY <2>1, <2>2, <2>3
<1>3. /\ v.open = udp.open /\ v.sent = udp.sent /\ v.calls = udp.calls
      /\ v.lookups = udp.lookups \ {name} /\ v.refused = udp.refused \cup {name}
      /\ v.underway = udp.underway /\ v.answered = udp.answered /\ v.threw = udp.threw
      /\ v.crashed = udp.crashed /\ v.closed = udp.closed
      /\ v.asked = udp.asked /\ v.nullUsed = udp.nullUsed /\ v.receiving = udp.receiving
  BY DEF UdpRecord
<1> HIDE DEF v
<1>4. Balance(v) = Balance(udp) BY <1>3 DEF Balance
<1>5. HandleInv(v) /\ Distinct(v.calls) BY <1>3 DEF Good, HandleInv
<1>6. ASSUME NEW m \in Messages PROVE Placed(v, m, Queued(v, m))
  <2>1. Placed(udp, m, Queued(udp, m)) BY DEF Good
  <2>2. Queued(v, m) <=> Queued(udp, m) BY <1>3 DEF Queued
  <2>3. CASE m = name BY <1>1, <1>3, <2>1, <2>2, <2>3 DEF Placed, Alone, Nowhere, Live
  <2>4. CASE m # name BY <1>3, <2>1, <2>2, <2>4 DEF Placed, Alone, Nowhere, Live
  <2> QED BY <2>3, <2>4
<1>7. Good(v) BY <1>2, <1>5, <1>6 DEF Good
<1> QED BY <1>1, <1>3, <1>4, <1>7 DEF UdpInv, tickVars

\* A message that arrives, or an error.
LEMMA OnRecvKeeps ==
  ASSUME UdpInv, OnRecv
  PROVE  UdpInv'
<1> udp \in UdpRecord /\ Good(udp) BY DEF UdpInv, Good
<1>1. PICK bad \in BOOLEAN : Event([udp EXCEPT !.threw = bad]) BY DEF OnRecv
<1> DEFINE v == [udp EXCEPT !.threw = bad]
<1>2. v \in UdpRecord BY DEF UdpRecord
<1>3. /\ v.open = udp.open /\ v.sent = udp.sent /\ v.calls = udp.calls
      /\ v.lookups = udp.lookups /\ v.underway = udp.underway /\ v.answered = udp.answered
      /\ v.refused = udp.refused /\ v.crashed = udp.crashed /\ v.closed = udp.closed
      /\ v.asked = udp.asked /\ v.nullUsed = udp.nullUsed /\ v.receiving = udp.receiving
      /\ ~udp.threw
  BY DEF UdpRecord, UdpInv
<1>4. Event(v) BY <1>1
<1> HIDE DEF v
<1>5. Balance(v) = Balance(udp) BY <1>3 DEF Balance
<1>6. HandleInv(v) /\ Distinct(v.calls) BY <1>3 DEF Good, HandleInv
<1>7. ASSUME NEW m \in Messages PROVE Placed(v, m, Queued(v, m))
  <2>1. Placed(udp, m, Queued(udp, m)) BY DEF Good
  <2>2. Queued(v, m) <=> Queued(udp, m) BY <1>3 DEF Queued
  <2> QED BY <1>3, <2>1, <2>2 DEF Placed, Alone, Nowhere, Live
<1> QED BY <1>2, <1>4, <1>5, <1>6, <1>7, EventKeeps DEF Good

\* 'close' is emitted: the tick that was queued becomes an event.
LEMMA TickKeeps ==
  ASSUME UdpInv, Tick
  PROVE  UdpInv'
<1> DEFINE v == [udp EXCEPT !.closed = @ + 1]
<1> udp \in UdpRecord /\ Good(udp) BY DEF UdpInv, Good
<1>1. /\ udp' = v /\ js = "ticks" /\ js' = js /\ batch # <<>> /\ batch' = Tail(batch)
      /\ queue' = queue \o <<>>
  BY DEF Tick, TickStep
<1>2. udp.closed \in Nat /\ udp.closed + 1 \in Nat BY DEF UdpRecord
<1>3. v \in UdpRecord BY <1>2, Zenon DEF UdpRecord
<1>4. /\ v.open = udp.open /\ v.sent = udp.sent /\ v.calls = udp.calls
      /\ v.lookups = udp.lookups /\ v.underway = udp.underway /\ v.answered = udp.answered
      /\ v.refused = udp.refused /\ v.crashed = udp.crashed /\ v.closed = udp.closed + 1
      /\ v.asked = udp.asked /\ v.nullUsed = udp.nullUsed /\ v.receiving = udp.receiving
      /\ v.threw = udp.threw
  BY DEF UdpRecord
<1> HIDE DEF v
<1>5. HandleInv(v) /\ Distinct(v.calls) BY <1>4 DEF Good, HandleInv
<1>6. ASSUME NEW m \in Messages PROVE Placed(v, m, Queued(v, m))
  <2>1. Placed(udp, m, Queued(udp, m)) BY DEF Good
  <2>2. Queued(v, m) <=> Queued(udp, m) BY <1>4 DEF Queued
  <2> QED BY <1>4, <2>1, <2>2 DEF Placed, Alone, Nowhere, Live
<1>7. queue' = queue /\ queue \in Seq({"close"}) /\ batch \in Seq({"close"})
  BY <1>1 DEF UdpInv
<1>8. Tail(batch) \in Seq({"close"}) /\ Len(batch) = Len(Tail(batch)) + 1
      /\ Len(Tail(batch)) \in Nat /\ Len(queue) \in Nat
  BY <1>1, <1>7
<1>9. Balance(v) = Balance(udp) + 1 /\ Balance(udp) \in Nat
  <2>1. Len(udp.asked) = 0 BY DEF UdpInv
  <2> QED BY <1>2, <1>4, <2>1 DEF Balance
<1>10. Balance(v) + Len(queue) + Len(Tail(batch)) = 1 BY <1>8, <1>9 DEF UdpInv
<1>11. Good(v) BY <1>3, <1>5, <1>6 DEF Good
<1> QED BY <1>1, <1>4, <1>7, <1>8, <1>10, <1>11 DEF UdpInv

\* The end of a frame or of the ticks, and callbacks that are not the socket's.
LEMMA LoopKeeps ==
  ASSUME UdpInv, Loop
  PROVE  UdpInv'
<1>0. /\ udp' = udp /\ queue \in Seq({"close"}) /\ batch \in Seq({"close"})
      /\ js \in {"frame", "ticks", "idle"} /\ (js # "ticks" => batch = <<>>)
      /\ Balance(udp) + Len(queue) + Len(batch) = 1
  BY DEF Loop, UdpInv
<1>1. Balance(udp) \in Nat
  <2>1. udp.closed \in Nat /\ udp.asked = <<>> BY DEF UdpInv, Good, UdpRecord
  <2> QED BY <2>1 DEF Balance
<1>2. CASE RunTicks
  <2>1. batch' = queue /\ queue' = <<>> /\ js' = "ticks" /\ batch = <<>>
    BY <1>0, <1>2 DEF RunTicks
  <2>2. Balance(udp) + Len(<<>>) + Len(queue) = 1
    <3>1. Len(queue) \in Nat /\ Len(<<>>) = 0 BY <1>0
    <3> QED BY <1>0, <1>1, <2>1, <3>1
  <2> QED BY <1>0, <2>1, <2>2 DEF UdpInv
<1>3. CASE TicksDone
  <2>1. batch' = batch /\ queue' = queue /\ js' = "idle" /\ batch = <<>>
    BY <1>3 DEF TicksDone
  <2> QED BY <1>0, <2>1 DEF UdpInv
<1>4. CASE EventStep(<<>>)
  <2>1. batch' = batch /\ queue' = queue /\ js' = "frame" /\ js = "idle"
    BY <1>0, <1>4 DEF EventStep
  <2> QED BY <1>0, <2>1 DEF UdpInv
<1> QED BY <1>2, <1>3, <1>4 DEF Loop

\* The new socket.
LEMMA InitInv == DInit => UdpInv
<1> SUFFICES ASSUME DInit PROVE UdpInv OBVIOUS
<1>1. udp = New /\ js = "frame" /\ queue = <<>> /\ batch = <<>> BY DEF DInit
<1>2. New \in UdpRecord
  <2>1. <<>> \in Seq(Messages \cup {"close"}) /\ <<>> \in Seq({"close"}) OBVIOUS
  <2>2. [m \in Messages |-> 0] \in [Messages -> Nat] OBVIOUS
  <2> QED BY <2>1, <2>2, Zenon DEF New, UdpRecord
<1>3. HandleInv(New) /\ Distinct(New.calls) BY EmptyRest DEF New, HandleInv
<1>4. ASSUME NEW m \in Messages PROVE Placed(New, m, Queued(New, m))
  <2>1. ~Queued(New, m) BY EmptyRest DEF New, Queued
  <2> QED BY <2>1 DEF New, Placed, Alone, Nowhere, Live
<1>5. Good(New) BY <1>2, <1>3, <1>4 DEF Good
<1>6. Balance(New) = 1 /\ New.asked = <<>> /\ ~New.threw BY DEF New, Balance
<1>7. <<>> \in Seq({"close"}) /\ Len(<<>>) = 0 OBVIOUS
<1> HIDE DEF New
<1> QED BY <1>1, <1>5, <1>6, <1>7 DEF UdpInv

\* Every step keeps the invariant.
LEMMA StepInv == UdpInv /\ [DNext]_dvars => UdpInv'
<1> SUFFICES ASSUME UdpInv, [DNext]_dvars PROVE UdpInv' OBVIOUS
<1>1. CASE Bind \/ Send \/ Close BY <1>1, UserKeeps
<1>2. CASE BindLookup BY <1>2, BindLookupKeeps
<1>3. CASE OnRecv BY <1>3, OnRecvKeeps
<1>4. CASE Tick BY <1>4, TickKeeps
<1>5. CASE Loop BY <1>5, LoopKeeps
<1>6. CASE \E m \in Messages : SendLookup(m) \/ OnSend(m)
  BY <1>6, SendLookupKeeps, OnSendKeeps
<1>7. CASE \E name \in Messages \cup {"bind"} : LookupRefused(name)
  BY <1>7, LookupRefusedKeeps
<1>8. CASE UNCHANGED dvars BY <1>8 DEF UdpInv, dvars, tickVars
<1> QED BY <1>1, <1>2, <1>3, <1>4, <1>5, <1>6, <1>7, <1>8 DEF DNext

-----------------------------------------------------------------------------
(* The theorems.                                                           *)

\* The inductive invariant holds in every reachable state, for every set of
\* messages and of faults and every number of calls.
THEOREM UdpInvariant == DSpec => []UdpInv
BY InitInv, StepInv, PTL DEF DSpec

\* The state keeps its type.
THEOREM DgramTypes == DSpec => []DTypeOK
<1>1. UdpInv => DTypeOK BY DEF UdpInv, Good, DTypeOK
<1> QED BY <1>1, UdpInvariant, PTL

\* 'close' is emitted once, and the handle that close() has given up is used by
\* no answer that comes later.
THEOREM CloseIsEmittedOnce == DSpec => []ClosedOnce
<1>1. ASSUME UdpInv PROVE ClosedOnce
  <2>1. Balance(udp) + Len(queue) + Len(batch) = 1 /\ udp.asked = <<>> /\ udp.closed \in Nat
    BY <1>1 DEF UdpInv, Good, UdpRecord
  <2>2. Len(queue) \in Nat /\ Len(batch) \in Nat /\ Len(udp.asked) = 0
    BY <1>1 DEF UdpInv
  <2>3. udp.closed + Len(queue) + Len(batch) = IF udp.open THEN 0 ELSE 1
    BY <2>1, <2>2 DEF Balance
  <2>4. HandleInv(udp) BY <1>1 DEF UdpInv, Good
  <2> QED BY <2>3, <2>4 DEF ClosedOnce, HandleInv
<1> QED BY <1>1, UdpInvariant, PTL

\* A send is in exactly one place until it is answered, through the queue and
\* its flush, whatever listeners do.
THEOREM SendsAreConserved == DSpec => []SendsConserved
<1>1. ASSUME UdpInv, NEW m \in Messages
      PROVE  /\ Places(m) + udp.answered[m] <= 1
             /\ (m \in udp.sent \ udp.refused /\ udp.open /\ ~udp.crashed)
                  => Places(m) + udp.answered[m] = 1
  <2> DEFINE P == {i \in DOMAIN udp.calls : udp.calls[i] = m}
             n == Cardinality(P)
             l == IF m \in udp.lookups THEN 1 ELSE 0
             w == IF m \in udp.underway THEN 1 ELSE 0
  <2>1. Placed(udp, m, Queued(udp, m)) /\ ~udp.threw /\ Distinct(udp.calls)
    BY <1>1 DEF UdpInv, Good
  <2>2. udp.calls \in Seq(Messages \cup {"close"}) /\ DOMAIN udp.calls = 1..Len(udp.calls)
    BY <1>1 DEF UdpInv, Good, UdpRecord
  <2>3. n = IF Queued(udp, m) THEN 1 ELSE 0
    <3>1. CASE Queued(udp, m)
      <4>1. PICK i \in 1..Len(udp.calls) : udp.calls[i] = m BY <3>1 DEF Queued, Rest
      <4>2. m # "close" BY DgramAssumption
      <4>3. P = {i} BY <2>1, <2>2, <4>1, <4>2 DEF Distinct
      <4> QED BY <3>1, <4>3, FS_Singleton
    <3>2. CASE ~Queued(udp, m)
      <4>1. P = {} BY <2>2, <3>2 DEF Queued, Rest
      <4> QED BY <3>2, <4>1, FS_EmptySet
    <3> QED BY <3>1, <3>2
  <2>4. Places(m) = n + l + w BY DEF Places
  <2> HIDE DEF n
  <2>5. udp.answered[m] \in {0, 1} BY <2>1 DEF Placed, Alone
  <2>6. Places(m) + udp.answered[m] <= 1
    BY <2>1, <2>3, <2>4, <2>5 DEF Placed, Alone, Nowhere
  <2>7. (m \in udp.sent \ udp.refused /\ udp.open /\ ~udp.crashed)
          => Places(m) + udp.answered[m] = 1
    BY <2>1, <2>3, <2>4, <2>5 DEF Placed, Alone, Nowhere, Live
  <2> QED BY <2>6, <2>7
<1>2. UdpInv => SendsConserved BY <1>1 DEF SendsConserved
<1> QED BY <1>2, UdpInvariant, PTL
==============================================================================
