---------------------------- MODULE IncomingProofs ----------------------------
(***************************************************************************)
(* Proofs about what arrives: the modules Readable, for chunks of any      *)
(* length, any number of them and 'data' listeners nested to any depth,    *)
(* and HttpParser, which finds the messages in it.                         *)
(*                                                                         *)
(* HttpParser: every message of a connection gets exactly its headers, for *)
(* every number of slots and of headers.  The inductive invariant says     *)
(* what is where while headers are being read: the first ones are in       *)
(* _headers, the next ones in the slots, and the last one possibly only in *)
(* part.                                                                   *)
(***************************************************************************)
EXTENDS Readable, HttpParser, SequenceTheorems, TLAPS

\* state.length counts the bytes between the consumer and the source, and when
\* there are any, the last chunk in the buffer is the last one pushed: what
\* readBuffer concatenates reaches up to the source.
Accounting ==
  /\ delivered <= pushed /\ length = pushed - delivered
  /\ length > 0 => buffer # <<>> /\ ConcatEnd = pushed

RInv == RTypeOK /\ Accounting /\ AssertionHolds /\ EndIsLast

\* The last element of a sequence to which one is appended.
LEMMA LastAppended ==
  ASSUME NEW S, NEW s \in Seq(S), NEW e \in S
  PROVE  /\ Append(s, e) \in Seq(S)
         /\ Append(s, e) # <<>>
         /\ Append(s, e)[Len(Append(s, e))] = e
  OBVIOUS

\* Two numbers whose difference is zero are equal.
LEMMA EqualIfNoDifference == ASSUME NEW a \in Nat, NEW b \in Nat, a - b = 0 PROVE a = b
  OBVIOUS

\* The stream that ReadableState() creates satisfies the invariant.
LEMMA InitRInv == RInit => RInv
<1> SUFFICES ASSUME RInit PROVE RInv
  OBVIOUS
<1>1. RTypeOK
  <2>1. buffer \in Seq(Chunk)
    BY DEF RInit
  <2>2. depth \in 0 .. MaxDepth /\ chunks \in 0 .. MaxChunks
    BY ReadableAssumption DEF RInit
  <2> QED BY <2>1, <2>2 DEF RInit, RTypeOK
<1>2. Accounting /\ AssertionHolds /\ EndIsLast
  BY DEF RInit, Accounting, AssertionHolds, EndIsLast
<1> QED BY <1>1, <1>2 DEF RInv

\* A chunk is pushed: delivered at once in flowing mode, else appended.
LEMMA PushKeepsRInv ==
  ASSUME RInv, NEW n \in Lens, push(n) PROVE RInv'
<1> DEFINE c == [from |-> pushed, len |-> n]
<1> USE DEF RInv
<1>0. n \in Nat /\ ~ended /\ ~endEmitted
  BY ReadableAssumption DEF push, EndIsLast
<1>1. CASE flowing
  <2>1. length = 0 /\ ~HasData
    BY <1>1 DEF AssertionHolds, HasData
  <2>2. /\ UNCHANGED <<buffer, length, flowing, ended, endEmitted, assertion, threw>>
        /\ pushed' = pushed + n /\ chunks' = chunks + 1 /\ chunks < MaxChunks
        /\ depth < MaxDepth /\ depth' = depth + 1 /\ delivered' = pushed + n
    BY <1>1, <2>1 DEF push, emitData
  <2>3. RTypeOK'
    BY <1>0, <2>2, ReadableAssumption DEF RTypeOK
  <2>4. Accounting'
    BY <1>0, <2>1, <2>2 DEF Accounting, RTypeOK
  <2>5. AssertionHolds' /\ EndIsLast'
    BY <1>0, <2>1, <2>2 DEF AssertionHolds, EndIsLast
  <2> QED BY <2>3, <2>4, <2>5
<1>2. CASE ~flowing
  <2>1. /\ UNCHANGED <<flowing, ended, endEmitted, assertion, threw, depth, delivered>>
        /\ pushed' = pushed + n /\ chunks' = chunks + 1 /\ chunks < MaxChunks
        /\ length' = length + n /\ buffer' = Append(buffer, c)
    BY <1>2 DEF push
  <2>2. c \in Chunk /\ c.from = pushed /\ c.len = n
    BY <1>0 DEF Chunk, RTypeOK
  <2>3. buffer' \in Seq(Chunk) /\ buffer' # <<>> /\ buffer'[Len(buffer')] = c
    BY <2>1, <2>2, LastAppended DEF RTypeOK
  <2>4. RTypeOK'
    BY <1>0, <2>1, <2>3, ReadableAssumption DEF RTypeOK
  <2>5. ConcatEnd' = pushed'
    BY <2>1, <2>2, <2>3 DEF ConcatEnd
  <2>6. Accounting'
    BY <1>0, <2>1, <2>3, <2>5 DEF Accounting, RTypeOK
  <2>7. AssertionHolds' /\ EndIsLast'
    BY <1>0, <1>2, <2>1 DEF AssertionHolds, EndIsLast
  <2> QED BY <2>4, <2>6, <2>7
<1> QED BY <1>1, <1>2

\* EOF is pushed; 'end' is emitted when nothing is left to deliver.
LEMMA EofKeepsRInv == ASSUME RInv, pushEof PROVE RInv'
<1> USE DEF RInv
<1>1. /\ UNCHANGED <<buffer, length, flowing, depth, pushed, chunks, delivered, assertion, threw>>
      /\ ended' = TRUE /\ endEmitted' \in BOOLEAN
  BY DEF pushEof, emitEnd, RTypeOK
<1>2. RTypeOK'
  BY <1>1 DEF RTypeOK
<1>3. Accounting' /\ AssertionHolds'
  BY <1>1 DEF Accounting, ConcatEnd, AssertionHolds
<1>4. EndIsLast'
  <2>1. CASE length = 0
    <3>1. delivered = pushed
      BY <2>1 DEF Accounting, RTypeOK
    <3> QED BY <1>1, <3>1 DEF EndIsLast
  <2>2. CASE length # 0
    BY <1>1, <2>2 DEF EndIsLast, pushEof
  <2> QED BY <2>1, <2>2
<1> QED BY <1>2, <1>3, <1>4

\* read(n) delivers the whole buffer or nothing.
LEMMA ReadKeepsRInv == ASSUME RInv, NEW n \in Sizes, read(n) PROVE RInv'
<1> USE DEF RInv
<1>1. /\ UNCHANGED <<flowing, ended, depth, pushed, chunks, assertion, threw>>
      /\ endEmitted' \in BOOLEAN
      /\ endEmitted' => endEmitted \/ (ended /\ length' = 0)
  BY DEF read, emitEnd, RTypeOK
<1>2. /\ buffer' \in Seq(Chunk) /\ length' \in Nat /\ delivered' \in Nat
      /\ delivered' <= pushed /\ length' = pushed - delivered'
      /\ length' > 0 => buffer' # <<>> /\ ConcatEnd' = pushed'
      /\ flowing => length' = 0
      /\ delivered = pushed => delivered' = pushed
  <2>1. CASE n > 0 /\ HasData
    <3>1. buffer' = <<>> /\ length' = 0 /\ delivered' = ConcatEnd
      BY <2>1 DEF read, readBuffer
    <3>2. ConcatEnd = pushed
      BY <2>1 DEF HasData, Accounting, RTypeOK
    <3> QED BY <3>1, <3>2 DEF RTypeOK
  <2>2. CASE ~(n > 0 /\ HasData)
    <3>1. UNCHANGED <<buffer, length, delivered>>
      BY <2>2 DEF read
    <3>2. ConcatEnd' = ConcatEnd /\ pushed' = pushed
      BY <1>1, <3>1 DEF ConcatEnd
    <3> QED BY <3>1, <3>2 DEF RTypeOK, Accounting, AssertionHolds
  <2> QED BY <2>1, <2>2
<1>3. RTypeOK'
  BY <1>1, <1>2 DEF RTypeOK
<1>4. Accounting' /\ AssertionHolds'
  BY <1>1, <1>2 DEF Accounting, AssertionHolds
<1>5. EndIsLast'
  <2>1. CASE endEmitted
    BY <1>1, <1>2, <2>1 DEF EndIsLast
  <2>2. CASE ended /\ length' = 0
    <3>1. delivered' = pushed
      <4>1. delivered' \in Nat /\ pushed \in Nat /\ pushed - delivered' = 0
        BY <1>2, <2>2 DEF RTypeOK
      <4> QED BY <4>1, EqualIfNoDifference
    <3> QED BY <1>1, <2>2, <3>1 DEF EndIsLast
  <2> QED BY <1>1, <2>1, <2>2 DEF EndIsLast
<1> QED BY <1>3, <1>4, <1>5

\* resume() delivers the buffer before any later chunk.
LEMMA ResumeKeepsRInv == ASSUME RInv, resume PROVE RInv'
<1> USE DEF RInv
<1>1. /\ UNCHANGED <<ended, endEmitted, pushed, chunks, threw>>
      /\ ~flowing /\ flowing' = TRUE
  BY DEF resume
<1>2. CASE length > 0
  <2>1. /\ buffer' = <<>> /\ length' = 0 /\ delivered' = ConcatEnd
        /\ depth < MaxDepth /\ depth' = depth + 1 /\ UNCHANGED assertion
    BY <1>2 DEF resume, readBuffer, emitData
  <2>2. ConcatEnd = pushed
    BY <1>2 DEF Accounting
  <2>3. RTypeOK'
    BY <1>1, <2>1, <2>2, ReadableAssumption DEF RTypeOK
  <2>4. Accounting' /\ AssertionHolds' /\ EndIsLast'
    BY <1>1, <2>1, <2>2 DEF Accounting, AssertionHolds, EndIsLast, RTypeOK
  <2> QED BY <2>3, <2>4
<1>3. CASE ~(length > 0)
  <2>1. UNCHANGED <<buffer, length, depth, delivered, assertion>>
    BY <1>3 DEF resume
  <2>2. RTypeOK' /\ ConcatEnd' = ConcatEnd
    BY <1>1, <2>1 DEF RTypeOK, ConcatEnd
  <2>3. length = 0
    BY <1>3 DEF RTypeOK
  <2>4. Accounting' /\ AssertionHolds' /\ EndIsLast'
    BY <1>1, <2>1, <2>2, <2>3 DEF Accounting, AssertionHolds, EndIsLast
  <2> QED BY <2>2, <2>4
<1> QED BY <1>2, <1>3

\* Listeners return and throw, and pause() changes the mode only.
LEMMA ModesKeepRInv ==
  ASSUME RInv, pause \/ DataReturns \/ DataThrows PROVE RInv'
<1> USE DEF RInv
<1>1. /\ UNCHANGED <<buffer, length, ended, pushed, chunks, delivered, assertion>>
      /\ flowing' => flowing
      /\ endEmitted' => endEmitted \/ (ended /\ length = 0)
  BY DEF pause, DataReturns, DataThrows, emitEnd
<1>2. flowing' \in BOOLEAN /\ endEmitted' \in BOOLEAN /\ threw' \in BOOLEAN
  BY DEF pause, DataReturns, DataThrows, emitEnd, RTypeOK
<1>3. depth' \in 0 .. MaxDepth
  BY ReadableAssumption DEF pause, DataReturns, DataThrows, RTypeOK
<1>4. RTypeOK'
  BY <1>1, <1>2, <1>3 DEF RTypeOK
<1>5. Accounting' /\ AssertionHolds'
  BY <1>1 DEF Accounting, ConcatEnd, AssertionHolds
<1>6. EndIsLast'
  <2>1. length = 0 => delivered = pushed
    BY DEF Accounting, RTypeOK
  <2> QED BY <1>1, <2>1 DEF EndIsLast
<1> QED BY <1>4, <1>5, <1>6

\* Every step of the stream, of its source and of its consumer keeps RInv.
LEMMA StepRInv == RInv /\ [RNext]_rvars => RInv'
<1> SUFFICES ASSUME RInv, [RNext]_rvars PROVE RInv'
  OBVIOUS
<1>1. ASSUME NEW n \in Lens, push(n) PROVE RInv'
  BY <1>1, PushKeepsRInv
<1>2. CASE pushEof
  BY <1>2, EofKeepsRInv
<1>3. CASE pause \/ DataReturns \/ DataThrows
  BY <1>3, ModesKeepRInv
<1>4. CASE resume
  BY <1>4, ResumeKeepsRInv
<1>5. ASSUME NEW n \in Sizes, read(n) PROVE RInv'
  BY <1>5, ReadKeepsRInv
<1>6. CASE UNCHANGED rvars
  BY <1>6 DEF rvars, RInv, RTypeOK, Accounting, ConcatEnd, AssertionHolds, EndIsLast
<1> QED BY <1>1, <1>2, <1>3, <1>4, <1>5, <1>6 DEF RNext

\* The inductive invariant holds throughout.
THEOREM RInvariance == RSpec => []RInv
<1> QED BY InitRInv, StepRInv, PTL DEF RSpec

\* The assertion of emitData (stream_readable.js:192) never fails, however the
\* consumer's listeners pause, resume, read and push in each other.
THEOREM AssertionNeverFails == RSpec => []AssertionHolds
<1>1. RInv => AssertionHolds
  BY DEF RInv
<1> QED BY <1>1, RInvariance, PTL

\* 'end' is emitted only after EOF and when every byte pushed has been delivered.
THEOREM EndComesLast == RSpec => []EndIsLast
<1>1. RInv => EndIsLast
  BY DEF RInv
<1> QED BY <1>1, RInvariance, PTL


-----------------------------------------------------------------------------
(* The order of the bytes.                                                 *)

\* The chunks of buf are disjoint, in order, and hold exactly the bytes from d on to p.
\* DataOrder says nothing of where empty chunks are; a chunk pushed later must not
\* come before one of them either, so they too end at p at the latest.
Holds(buf, d, p) ==
  /\ \A b \in d .. p - 1 : \E i \in 1 .. Len(buf) :
        buf[i].from <= b /\ b < buf[i].from + buf[i].len
  /\ \A i \in 1 .. Len(buf) : /\ buf[i].from + buf[i].len <= p
                              /\ buf[i].len > 0 => d <= buf[i].from
  /\ \A i, j \in 1 .. Len(buf) : i < j => buf[i].from + buf[i].len <= buf[j].from

OrderInv == Holds(buffer, delivered, pushed)

\* The bounds of a buffered chunk are numbers.
LEMMA ChunkBounds ==
  ASSUME NEW buf \in Seq(Chunk), NEW i \in 1 .. Len(buf)
  PROVE  buf[i].from \in Nat /\ buf[i].len \in Nat
<1>1. buf[i] \in Chunk
  OBVIOUS
<1> QED BY <1>1 DEF Chunk

\* A buffer that has been emptied, for a consumer who has everything.
LEMMA NothingHeld == ASSUME NEW p \in Nat PROVE Holds(<<>>, p, p)
  BY DEF Holds

\* A chunk is appended to the buffer.
LEMMA AppendHolds ==
  ASSUME NEW buf \in Seq(Chunk), NEW d \in Nat, NEW p \in Nat, d <= p, NEW n \in Nat,
         Holds(buf, d, p)
  PROVE  Holds(Append(buf, [from |-> p, len |-> n]), d, p + n)
<1> DEFINE c == [from |-> p, len |-> n]
           s == Append(buf, c)
<1>1. c \in Chunk /\ c.from = p /\ c.len = n
  BY DEF Chunk
<1> HIDE DEF c
<1>2. /\ s \in Seq(Chunk) /\ Len(s) = Len(buf) + 1 /\ Len(buf) \in Nat /\ s[Len(s)] = c
      /\ \A i \in 1 .. Len(buf) : s[i] = buf[i] /\ i \in 1 .. Len(s)
      /\ Len(s) \in 1 .. Len(s)
      /\ \A i \in 1 .. Len(s) : i \in 1 .. Len(buf) \/ i = Len(s)
  BY <1>1
<1> HIDE DEF s
<1>3. \A i \in 1 .. Len(buf) : buf[i].from \in Nat /\ buf[i].len \in Nat
  BY ChunkBounds
<1>4. ASSUME NEW b \in d .. (p + n) - 1
      PROVE  \E i \in 1 .. Len(s) : s[i].from <= b /\ b < s[i].from + s[i].len
  <2>1. CASE b < p
    <3>1. b \in d .. p - 1
      BY <2>1
    <3>2. PICK i \in 1 .. Len(buf) : buf[i].from <= b /\ b < buf[i].from + buf[i].len
      BY <3>1 DEF Holds
    <3> QED BY <1>2, <3>2
  <2>2. CASE ~(b < p)
    <3>1. c.from <= b /\ b < c.from + c.len
      BY <1>1, <2>2
    <3> QED BY <1>2, <3>1
  <2> QED BY <2>1, <2>2
<1>5. ASSUME NEW i \in 1 .. Len(s)
      PROVE  s[i].from + s[i].len <= p + n /\ (s[i].len > 0 => d <= s[i].from)
  <2>1. CASE i \in 1 .. Len(buf)
    <3>1. s[i] = buf[i] /\ buf[i].from + buf[i].len <= p /\ (buf[i].len > 0 => d <= buf[i].from)
      BY <1>2, <2>1 DEF Holds
    <3> QED BY <1>3, <2>1, <3>1
  <2>2. CASE i = Len(s)
    BY <1>1, <1>2, <2>2
  <2> QED BY <1>2, <2>1, <2>2
<1>6. ASSUME NEW i \in 1 .. Len(s), NEW j \in 1 .. Len(s), i < j
      PROVE  s[i].from + s[i].len <= s[j].from
  <2>1. i \in 1 .. Len(buf) /\ s[i] = buf[i]
    BY <1>2, <1>6
  <2>2. CASE j \in 1 .. Len(buf)
    BY <1>2, <1>6, <2>1, <2>2 DEF Holds
  <2>3. CASE j = Len(s)
    BY <1>1, <1>2, <2>1, <2>3 DEF Holds
  <2> QED BY <1>2, <2>2, <2>3
<1> QED BY <1>4, <1>5, <1>6 DEF Holds, s, c

\* A buffer of empty chunks holds nothing, wherever the consumer is.
LEMMA EmptyChunks ==
  ASSUME NEW buf \in Seq(Chunk), NEW p \in Nat, NEW q \in Nat, p <= q, Holds(buf, p, p)
  PROVE  Holds(buf, q, q)
<1>1. \A i \in 1 .. Len(buf) : buf[i].from \in Nat /\ buf[i].len \in Nat
  BY ChunkBounds
<1>2. ASSUME NEW i \in 1 .. Len(buf) PROVE buf[i].from + buf[i].len <= q /\ ~(buf[i].len > 0)
  <2>1. buf[i].from + buf[i].len <= p /\ (buf[i].len > 0 => p <= buf[i].from)
    BY DEF Holds
  <2> QED BY <1>1, <2>1
<1>3. q .. q - 1 = {}
  OBVIOUS
<1> QED BY <1>2, <1>3 DEF Holds

\* Every step keeps the order: a chunk is appended, or everything is handed over.
LEMMA StepOrder == RInv /\ OrderInv /\ [RNext]_rvars => OrderInv'
<1> SUFFICES ASSUME RInv, OrderInv, [RNext]_rvars PROVE OrderInv'
  OBVIOUS
<1>1. /\ buffer \in Seq(Chunk) /\ pushed \in Nat /\ delivered \in Nat /\ delivered <= pushed
      /\ length = pushed - delivered /\ length \in Nat
  BY DEF RInv, RTypeOK, Accounting
<1>2. ASSUME UNCHANGED <<buffer, delivered, pushed>> PROVE OrderInv'
  BY <1>2 DEF OrderInv
<1>3. ASSUME NEW n \in Lens, push(n) PROVE OrderInv'
  <2>0. n \in Nat
    BY ReadableAssumption
  <2>1. CASE flowing
    <3>1. length = 0 /\ ~HasData
      BY <2>1 DEF RInv, AssertionHolds, HasData
    <3>2. buffer' = buffer /\ pushed' = pushed + n /\ delivered' = pushed + n
      BY <1>3, <2>1, <3>1 DEF push, emitData
    <3>3. delivered = pushed /\ pushed + n \in Nat /\ pushed <= pushed + n
      BY <1>1, <2>0, <3>1
    <3>4. Holds(buffer, pushed + n, pushed + n)
      BY <1>1, <3>3, EmptyChunks DEF OrderInv
    <3> QED BY <3>2, <3>4 DEF OrderInv
  <2>2. CASE ~flowing
    BY <1>1, <1>3, <2>0, <2>2, AppendHolds DEF push, OrderInv
  <2> QED BY <2>1, <2>2
<1>4. ASSUME buffer' = <<>>, delivered' = ConcatEnd, pushed' = pushed, length > 0
      PROVE  OrderInv'
  BY <1>1, <1>4, NothingHeld DEF OrderInv, RInv, Accounting
<1>5. CASE pushEof \/ pause \/ DataReturns \/ DataThrows \/ UNCHANGED rvars
  BY <1>2, <1>5 DEF pushEof, pause, DataReturns, DataThrows, rvars
<1>6. CASE resume
  BY <1>2, <1>4, <1>6 DEF resume, readBuffer, emitData
<1>7. ASSUME NEW n \in Sizes, read(n) PROVE OrderInv'
  BY <1>1, <1>2, <1>4, <1>7 DEF read, readBuffer, HasData
<1> QED BY <1>3, <1>5, <1>6, <1>7 DEF RNext

\* The bytes between those delivered and those pushed are exactly the buffered ones, in
\* order, whatever pause(), resume(), read() and nested 'data' listeners do in between
\* (stream_readable.js).
THEOREM DataStaysInOrder == RSpec => []DataOrder
<1>1. RInit => OrderInv
  BY NothingHeld DEF RInit, OrderInv
<1>2. RInv /\ OrderInv => DataOrder
  BY DEF RInv, Accounting, OrderInv, Holds, DataOrder
<1> QED BY <1>1, <1>2, StepOrder, RInvariance, PTL DEF RSpec

-----------------------------------------------------------------------------
(* The parser of HTTP.                                                     *)

USE DEF Headers, Slots

\* hs is the list of the headers after number from, up to number to.
IsExactly(hs, from, to) == hs = Exactly(from, to)

\* The number of the last header that was flushed.
Mid == first + Len(jsHeaders)

\* Of a message without trailing headers before it: the headers that were flushed
\* and those in the slots are all that came, in order.
HeadersInPlace ==
  /\ InHead => /\ Mid + nFields = count
               /\ IsExactly(jsHeaders, first, Mid)
               /\ \A i \in Slots : i < nFields => fields[i] = {Mid + i + 1}
               /\ \A i \in Slots : i < nValues => values[i] = {Mid + i + 1}
  /\ phase \in {"idle", "body"} => nFields = 0 /\ jsHeaders = <<>>
  /\ phase \notin {"trailerField", "trailerValue"}

HInv == /\ HTypeOK /\ CountersAgree /\ HeadersExact
        /\ phase \in {"idle", "line", "url", "body"} => nFields = nValues
        /\ ~trailed => HeadersInPlace
        /\ ~flushed => jsHeaders = <<>>

-----------------------------------------------------------------------------
\* A function on 1 .. n is a sequence of length n.
LEMMA FunctionIsSeq ==
  ASSUME NEW S, NEW n \in Nat, NEW f \in [1 .. n -> S]
  PROVE  f \in Seq(S) /\ Len(f) = n
  OBVIOUS

\* A sequence that begins like e and goes on like g is e \o g.
LEMMA Glue ==
  ASSUME NEW S, NEW e \in Seq(S), NEW g \in Seq(S), NEW h \in Seq(S),
         Len(h) = Len(e) + Len(g),
         \A i \in 1 .. Len(e) : h[i] = e[i],
         \A i \in 1 .. Len(g) : h[Len(e) + i] = g[i]
  PROVE  e \o g = h
<1>1. /\ e \o g \in Seq(S) /\ Len(e \o g) = Len(h)
      /\ \A i \in 1 .. Len(h) : (e \o g)[i] = IF i <= Len(e) THEN e[i] ELSE g[i - Len(e)]
  BY ConcatProperties
<1>2. ASSUME NEW i \in 1 .. Len(h) PROVE (e \o g)[i] = h[i]
  <2>1. CASE i <= Len(e)
    BY <1>1, <2>1
  <2>2. CASE ~(i <= Len(e))
    <3>1. i - Len(e) \in 1 .. Len(g) /\ Len(e) + (i - Len(e)) = i
      BY <2>2
    <3> QED
      BY <1>1, <2>2, <3>1
  <2> QED
    BY <2>1, <2>2
<1> QED
  BY <1>1, <1>2, SeqEqual

\* What Exactly is.
LEMMA ExactlyType ==
  ASSUME NEW from \in Nat, NEW to \in Nat, from <= to
  PROVE  /\ Exactly(from, to) \in Headers
         /\ Len(Exactly(from, to)) = to - from
         /\ \A i \in 1 .. (to - from) : Exactly(from, to)[i] = <<{from + i}, {from + i}>>
<1>1. to - from \in Nat
  OBVIOUS
<1>2. \A i \in 1 .. (to - from) : <<{from + i}, {from + i}>> \in Header
  BY DEF Header, Text
<1>3. Exactly(from, to) \in [1 .. (to - from) -> Header]
  BY <1>1, <1>2 DEF Exactly
<1>4. Exactly(from, to) \in Headers /\ Len(Exactly(from, to)) = to - from
  BY <1>1, <1>3, FunctionIsSeq
<1> QED
  BY <1>4 DEF Exactly

\* The headers after number k.
After(g, k) == \A i \in 1 .. Len(g) : g[i] = <<{k + i}, {k + i}>>

\* Two lists of headers that follow each other.
LEMMA ExactlyGlue ==
  ASSUME NEW from \in Nat, NEW mid \in Nat, NEW to \in Nat, from <= mid, mid <= to,
         NEW e, IsExactly(e, from, mid),
         NEW g \in Headers, Len(g) = to - mid, After(g, mid)
  PROVE  IsExactly(e \o g, from, to)
<1>1. /\ e \in Headers /\ Len(e) = mid - from
      /\ \A i \in 1 .. (mid - from) : e[i] = <<{from + i}, {from + i}>>
  BY ExactlyType DEF IsExactly
<1>2. PICK h : h = Exactly(from, to)
  OBVIOUS
<1>3. /\ h \in Headers /\ Len(h) = to - from
      /\ \A i \in 1 .. (to - from) : h[i] = <<{from + i}, {from + i}>>
  <2>1. from <= to
    OBVIOUS
  <2> QED
    BY ExactlyType, <1>2, <2>1
<1>4. ASSUME NEW i \in 1 .. Len(e) PROVE h[i] = e[i]
  <2>1. i \in 1 .. (mid - from) /\ i \in 1 .. (to - from)
    BY <1>1
  <2> QED
    BY <1>1, <1>3, <2>1
<1>5. ASSUME NEW i \in 1 .. Len(g) PROVE h[Len(e) + i] = g[i]
  <2>1. /\ Len(e) + i \in 1 .. (to - from) /\ from + (Len(e) + i) = mid + i
    BY <1>1
  <2>2. g[i] = <<{mid + i}, {mid + i}>>
    BY DEF After
  <2>3. h[Len(e) + i] = <<{from + (Len(e) + i)}, {from + (Len(e) + i)}>>
    BY <1>3, <2>1
  <2> QED
    BY <2>1, <2>2, <2>3
<1>6. e \in Seq(Header) /\ g \in Seq(Header) /\ h \in Seq(Header) /\ Len(h) = Len(e) + Len(g)
  BY <1>1, <1>3
<1>7. e \o g = h
  BY ONLY <1>4, <1>5, <1>6, Glue
<1> QED
  BY <1>2, <1>7 DEF IsExactly

\* make_header is a list of headers.
LEMMA MakeHeaderType ==
  ASSUME HTypeOK, nValues < HEADER_MAX
  PROVE  /\ make_header \in Headers /\ Len(make_header) = nValues
         /\ \A i \in 1 .. nValues : make_header[i] = <<fields[i - 1], values[i - 1]>>
<1>1. \A i \in 1 .. nValues : i - 1 \in Slots
  BY HttpParserAssumption DEF HTypeOK
<1>2. \A i \in 1 .. nValues : <<fields[i - 1], values[i - 1]>> \in Header
  BY <1>1 DEF HTypeOK, Header
<1>3. nValues \in Nat
  BY HttpParserAssumption DEF HTypeOK
<1> QED
  BY <1>2, <1>3 DEF make_header

\* A flush that finds the slots complete makes _headers hold all headers so far.
LEMMA FlushedHeaders ==
  ASSUME HInv, ~trailed, InHead, nFields = nValues
  PROVE  /\ IsExactly(jsHeaders \o make_header, first, count)
         /\ jsHeaders \o make_header \in Headers
<1>1. /\ Mid \in Nat /\ nValues \in Nat /\ nValues < HEADER_MAX /\ first \in Nat /\ count \in Nat
      /\ first <= Mid /\ Mid + nValues = count /\ IsExactly(jsHeaders, first, Mid)
      /\ jsHeaders \in Headers
  BY HttpParserAssumption DEF HInv, HTypeOK, CountersAgree, HeadersInPlace, Mid
<1>2. /\ make_header \in Headers /\ Len(make_header) = nValues
      /\ \A i \in 1 .. nValues : make_header[i] = <<fields[i - 1], values[i - 1]>>
  BY <1>1, MakeHeaderType DEF HInv
<1>3. ASSUME NEW i \in 1 .. nValues
      PROVE  make_header[i] = <<{Mid + i}, {Mid + i}>>
  <2>1. i - 1 \in Slots /\ i - 1 < nValues /\ i - 1 < nFields /\ Mid + (i - 1) + 1 = Mid + i
    BY <1>1, HttpParserAssumption
  <2>2. fields[i - 1] = {Mid + (i - 1) + 1} /\ values[i - 1] = {Mid + (i - 1) + 1}
    BY <2>1 DEF HInv, HeadersInPlace
  <2> QED
    BY <1>2, <2>1, <2>2
<1>4. After(make_header, Mid)
  BY <1>2, <1>3 DEF After
<1>5. Len(make_header) = count - Mid /\ Mid <= count
  BY <1>1, <1>2
<1>6. IsExactly(jsHeaders \o make_header, first, count)
  BY <1>1, <1>2, <1>4, <1>5, ExactlyGlue
<1>7. jsHeaders \o make_header \in Headers
  BY <1>1, <1>2, ConcatProperties
<1> QED
  BY <1>6, <1>7

-----------------------------------------------------------------------------
\* A new parser satisfies the invariant.
LEMMA InitHolds == HInit => HInv
<1> SUFFICES ASSUME HInit PROVE HInv
  OBVIOUS
<1>0. {} \in Text /\ <<>> \in Headers
  BY EmptySeq DEF Text
<1>1. HTypeOK
  <2>1. NoMessage \in Message
    BY <1>0 DEF NoMessage, Message
  <2> QED
    BY <1>0, <2>1, HttpParserAssumption DEF HInit, HTypeOK
<1>2. CountersAgree
  BY HttpParserAssumption DEF HInit, CountersAgree
<1>3. HeadersExact
  BY ExactlyType, EmptySeq DEF HInit, HeadersExact, NoMessage, Exactly
<1>4. HeadersInPlace
  BY DEF HInit, HeadersInPlace, InHead
<1> QED
  BY <1>1, <1>2, <1>3, <1>4 DEF HInit, HInv

\* HeadersExact only depends on the incoming message.
LEMMA ExactKept ==
  ASSUME HeadersExact, UNCHANGED incoming
  PROVE  HeadersExact'
  BY DEF HeadersExact

\* A message begins.
LEMMA BeginHolds == HInv /\ on_message_begin => HInv'
<1> SUFFICES ASSUME HInv, on_message_begin PROVE HInv'
  OBVIOUS
<1>1. HTypeOK'
  BY DEF HInv, HTypeOK, on_message_begin, script, Text
<1>2. CountersAgree' /\ HeadersExact'
  BY ExactKept DEF HInv, CountersAgree, on_message_begin, script
<1>3. ASSUME ~trailed' PROVE HeadersInPlace'
  <2>1. nFields = 0 /\ nValues = 0 /\ jsHeaders = <<>> /\ count \in Nat
    BY <1>3, HttpParserAssumption
    DEF HInv, HeadersInPlace, HTypeOK, CountersAgree, on_message_begin
  <2>2. Mid' = count /\ first' = count /\ jsHeaders' = <<>>
    BY <2>1 DEF on_message_begin, script, Mid
  <2>3. Exactly(count, count) = <<>>
    BY <2>1 DEF Exactly
  <2>4. IsExactly(jsHeaders, first, Mid)'
    BY <2>2, <2>3 DEF IsExactly
  <2> QED
    BY <2>1, <2>2, <2>4 DEF HeadersInPlace, InHead, on_message_begin, script
<1> QED
  BY <1>1, <1>2, <1>3 DEF HInv, on_message_begin, script

\* A fragment of the url or the status.
LEMMA UrlHolds == HInv /\ on_url => HInv'
<1> SUFFICES ASSUME HInv, on_url PROVE HInv'
  OBVIOUS
<1>1. HTypeOK'
  BY DEF HInv, HTypeOK, on_url, script, Text
<1>2. CountersAgree' /\ HeadersExact'
  BY ExactKept DEF HInv, CountersAgree, on_url, script
<1>3. ASSUME ~trailed' PROVE HeadersInPlace'
  BY <1>3 DEF HInv, HeadersInPlace, InHead, on_url, script, Mid, IsExactly
<1> QED
  BY <1>1, <1>2, <1>3 DEF HInv, on_url, script

\* What a fragment of a field does to the slots and to _headers.
LEMMA FieldEffect ==
  ASSUME HInv, on_header_field, count' \in Nat, UNCHANGED <<values, type, incoming, first, msg>>,
         phase # "dead", phase' \in {"field", "trailerField"}, trailed' \in BOOLEAN
  PROVE  /\ HTypeOK' /\ CountersAgree' /\ HeadersExact'
         /\ ~flushed' => jsHeaders' = <<>>
<1>1. /\ nFields \in Nat /\ nValues \in Nat /\ nFields < HEADER_MAX /\ nValues <= nFields
      /\ nValues < HEADER_MAX /\ HEADER_MAX \in Nat
  BY HttpParserAssumption DEF HInv, HTypeOK, CountersAgree
<1>2. nFields = nValues \/ nFields = nValues + 1
  BY DEF HInv, CountersAgree, HTypeOK
<1>3. /\ nFields' \in Nat /\ nFields' < HEADER_MAX /\ nFields' = nValues' + 1 /\ nValues' \in Nat
      /\ nValues' <= nFields' /\ nFields' \in 0 .. HEADER_MAX /\ nValues' \in 0 .. HEADER_MAX
  BY <1>1, <1>2, HttpParserAssumption DEF on_header_field, opens, overflow
<1>4. fields' \in [Slots -> Text]
  <2>1. \A i \in Slots : fields[i] \in Text
    BY DEF HInv, HTypeOK
  <2>2. \A i \in Slots : fields'[i] \in Text
    BY <2>1 DEF on_header_field, Text, HInv, HTypeOK
  <2> QED
    BY <2>2 DEF on_header_field, HInv, HTypeOK
<1>5. jsHeaders' \in Headers /\ jsUrl' \in Text /\ url' \in Text /\ flushed' \in BOOLEAN
  <2>1. make_header \in Headers /\ jsHeaders \in Headers
    BY <1>1, MakeHeaderType DEF HInv, HTypeOK
  <2>2. jsHeaders \o make_header \in Headers
    BY <2>1, ConcatProperties
  <2>3. jsUrl \cup flushed_url \in Text /\ {} \in Text
    BY DEF HInv, HTypeOK, flushed_url, Text
  <2> QED
    BY <2>1, <2>2, <2>3 DEF on_header_field, flush, parserOnHeaders, HInv, HTypeOK
<1>6. HTypeOK'
  <2>2. /\ msg' \in Nat /\ first' \in Nat /\ type' \in {"request", "response"}
        /\ values' \in [Slots -> Text] /\ incoming' \in Message
    BY DEF HInv, HTypeOK
  <2> QED
    BY <1>3, <1>4, <1>5, <2>2 DEF HTypeOK
<1>7. CountersAgree'
  BY <1>3 DEF CountersAgree
<1>8. ~flushed' => jsHeaders' = <<>>
  BY DEF HInv, on_header_field, flush, parserOnHeaders
<1> QED
  BY <1>6, <1>7, <1>8, ExactKept DEF HInv

\* The first fragment of a field.
LEMMA FieldStartHolds == HInv /\ FieldStart => HInv'
<1> SUFFICES ASSUME HInv, FieldStart PROVE HInv'
  OBVIOUS
<1>1. /\ HTypeOK' /\ CountersAgree' /\ HeadersExact'
      /\ ~flushed' => jsHeaders' = <<>>
  BY FieldEffect DEF FieldStart, HeadersMayFollow, HInv, HTypeOK
<1>2. ASSUME ~trailed' PROVE HeadersInPlace'
  <2>1. ~trailed /\ InHead /\ phase \in {"line", "url", "value"} /\ phase' = "field"
    BY <1>2 DEF FieldStart, HeadersMayFollow, InHead, HInv, HTypeOK
  <2>2. nFields = nValues
    BY <2>1 DEF HInv, CountersAgree
  <2>3. /\ nFields \in Nat /\ nFields < HEADER_MAX /\ count \in Nat /\ first \in Nat
        /\ Mid \in Nat /\ Mid + nFields = count /\ count' = count + 1 /\ first' = first
        /\ jsHeaders \in Headers /\ fields \in [Slots -> Text] /\ values' = values
    BY <2>1, HttpParserAssumption
    DEF HInv, HTypeOK, CountersAgree, HeadersInPlace, Mid, FieldStart
  <2>4. CASE overflow
    <3>1. /\ nFields' = 1 /\ nValues' = 0 /\ jsHeaders' = jsHeaders \o make_header
          /\ fields' = [fields EXCEPT ![0] = {} \cup {count'}]
      BY <2>4 DEF FieldStart, on_header_field, flush, parserOnHeaders, overflow
    <3>2. Len(jsHeaders') = Len(jsHeaders) + nValues
      <4>1. make_header \in Headers /\ Len(make_header) = nValues
        BY <2>2, <2>3, MakeHeaderType DEF HInv
      <4> QED
        BY <2>3, <3>1, <4>1, ConcatProperties
    <3>3. Mid' = count
      BY <2>2, <2>3, <3>2 DEF Mid
    <3>4. IsExactly(jsHeaders, first, Mid)'
      BY <2>1, <2>2, <2>3, <3>1, <3>3, FlushedHeaders DEF IsExactly
    <3>5. fields'[0] = {Mid' + 0 + 1}
      BY <2>3, <3>1, <3>3, HttpParserAssumption
    <3> QED
      BY <2>1, <2>3, <3>1, <3>3, <3>4, <3>5, HttpParserAssumption DEF HeadersInPlace, InHead
  <2>5. CASE ~overflow
    <3>1. /\ nFields' = nFields + 1 /\ nValues' = nValues /\ jsHeaders' = jsHeaders
          /\ fields' = [fields EXCEPT ![nFields] = {} \cup {count'}]
      BY <2>2, <2>3, <2>5 DEF FieldStart, on_header_field, opens
    <3>2. Mid' = Mid /\ IsExactly(jsHeaders, first, Mid)'
      BY <2>1, <2>3, <3>1 DEF Mid, HInv, HeadersInPlace, IsExactly
    <3>3. \A i \in Slots : i < nFields' => fields'[i] = {Mid' + i + 1}
      BY <2>1, <2>3, <3>1, <3>2 DEF HInv, HeadersInPlace
    <3>4. \A i \in Slots : i < nValues' => values'[i] = {Mid' + i + 1}
      BY <2>1, <2>3, <3>1, <3>2 DEF HInv, HeadersInPlace
    <3> QED
      BY <2>1, <2>3, <3>1, <3>2, <3>3, <3>4 DEF HeadersInPlace, InHead
  <2> QED
    BY <2>4, <2>5
<1>3. phase' \in {"field", "trailerField"}
  BY DEF FieldStart
<1> QED
  BY <1>1, <1>2, <1>3 DEF HInv

\* Another fragment of a field: the slot is there already.
LEMMA FieldGoesOnHolds == HInv /\ FieldGoesOn => HInv'
<1> SUFFICES ASSUME HInv, FieldGoesOn PROVE HInv'
  OBVIOUS
<1>1. /\ HTypeOK' /\ CountersAgree' /\ HeadersExact'
      /\ ~flushed' => jsHeaders' = <<>>
  BY FieldEffect DEF FieldGoesOn, httpParser, HInv, HTypeOK
<1>2. /\ nFields = nValues + 1 /\ nFields \in Nat /\ nValues \in Nat /\ nFields < HEADER_MAX
      /\ HEADER_MAX \in Nat
  BY HttpParserAssumption DEF FieldGoesOn, HInv, CountersAgree, HTypeOK
<1>3. ~opens /\ ~overflow
  BY <1>2 DEF opens, overflow
<1>4. /\ nFields' = nFields /\ nValues' = nValues /\ jsHeaders' = jsHeaders /\ values' = values
      /\ fields' = [fields EXCEPT ![nValues] = @ \cup {count}]
      /\ count' = count /\ first' = first /\ phase' = phase /\ trailed' = trailed
  BY <1>2, <1>3 DEF FieldGoesOn, on_header_field, httpParser
<1>5. ASSUME ~trailed' PROVE HeadersInPlace'
  <2>1. HeadersInPlace /\ phase = "field" /\ InHead
    BY <1>4, <1>5 DEF HInv, FieldGoesOn, HeadersInPlace, InHead
  <2>2. Mid' = Mid /\ Mid \in Nat /\ Mid + nFields = count /\ IsExactly(jsHeaders, first, Mid)'
    BY <1>4, <2>1 DEF Mid, HeadersInPlace, IsExactly, HInv, HTypeOK
  <2>3. nValues \in Slots /\ fields \in [Slots -> Text] /\ fields[nValues] = {Mid + nValues + 1}
    BY <1>2, <2>1 DEF HeadersInPlace, HInv, HTypeOK
  <2>4. Mid + nValues + 1 = count
    BY <1>2, <2>2
  <2>5. \A i \in Slots : fields'[i] = fields[i]
    BY <1>4, <2>3, <2>4
  <2> QED
    BY <1>4, <2>1, <2>2, <2>5 DEF HeadersInPlace, InHead
<1> QED
  BY <1>1, <1>4, <1>5 DEF HInv, FieldGoesOn

\* A fragment of a value.
LEMMA ValueHolds == HInv /\ Value => HInv'
<1> SUFFICES ASSUME HInv, Value PROVE HInv'
  OBVIOUS
<1>1. /\ nFields \in Nat /\ nValues \in Nat /\ nFields < HEADER_MAX /\ nValues <= nFields
      /\ HEADER_MAX \in Nat /\ count \in Nat /\ values \in [Slots -> Text]
  BY HttpParserAssumption DEF HInv, HTypeOK, CountersAgree
<1>2. /\ phase \in {"field", "trailerField"} => nFields = nValues + 1
      /\ phase \in {"value", "trailerValue"} => nFields = nValues
  BY DEF HInv, CountersAgree
<1>3. /\ UNCHANGED <<msg, count, first, trailed, type, nFields, fields, url, flushed>>
      /\ UNCHANGED <<jsHeaders, jsUrl, incoming>>
  BY DEF Value, script
<1>4. phase' \in {"value", "trailerValue"}
  BY DEF Value
<1>5. nValues' = nFields
  BY <1>1, <1>2 DEF Value, on_header_value
<1>6. values' \in [Slots -> Text]
  <2>1. \A i \in Slots : values'[i] \in Text
    BY <1>1 DEF Value, on_header_value, Text
  <2> QED
    BY <1>1, <2>1 DEF Value, on_header_value
<1>7. HTypeOK'
  BY <1>1, <1>3, <1>4, <1>5, <1>6 DEF HInv, HTypeOK
<1>8. CountersAgree' /\ HeadersExact'
  BY <1>1, <1>3, <1>4, <1>5, ExactKept DEF CountersAgree, HInv
<1>9. ASSUME ~trailed' PROVE HeadersInPlace'
  <2>1. HeadersInPlace /\ phase \in {"field", "value"} /\ phase' = "value" /\ InHead
    BY <1>3, <1>9 DEF HInv, Value, HeadersInPlace, InHead
  <2>2. Mid' = Mid /\ Mid \in Nat /\ Mid + nFields = count /\ IsExactly(jsHeaders, first, Mid)'
    BY <1>3, <2>1 DEF Mid, HeadersInPlace, IsExactly, HInv, HTypeOK
  <2>3. \A i \in Slots : i < nValues' => values'[i] = {Mid' + i + 1}
    <3>1. CASE phase = "field"
      <4>1. nFields = nValues + 1 /\ nFields # nValues /\ nValues \in Slots
        BY <1>1, <1>2, <3>1
      <4>2. Mid + nValues + 1 = count
        BY <1>1, <2>2, <4>1
      <4>3. values' = [values EXCEPT ![nValues] = {count}]
        <5>1. values' = [values EXCEPT ![(nValues + 1) - 1] = {} \cup {count}]
          BY <4>1 DEF Value, on_header_value
        <5>2. (nValues + 1) - 1 = nValues
          BY <1>1
        <5> QED
          BY <5>1, <5>2
      <4> QED
        BY <1>1, <1>5, <2>1, <2>2, <4>1, <4>2, <4>3 DEF HeadersInPlace
    <3>2. CASE phase = "value"
      <4>1. /\ nFields = nValues
            /\ values' = [values EXCEPT ![nValues - 1] = @ \cup {count}]
        BY <1>1, <1>2, <3>2 DEF Value, on_header_value
      <4>2. ASSUME NEW i \in Slots, i < nValues' PROVE values'[i] = {Mid' + i + 1}
        <5>1. i < nValues /\ values[i] = {Mid + i + 1}
          BY <1>5, <2>1, <4>1, <4>2 DEF HeadersInPlace
        <5>2. CASE i = nValues - 1
          <6>1. Mid + i + 1 = count
            BY <1>1, <2>2, <4>1, <5>2
          <6> QED
            BY <1>1, <2>2, <4>1, <5>1, <5>2, <6>1
        <5>3. CASE i # nValues - 1
          BY <1>1, <2>2, <4>1, <5>1, <5>3
        <5> QED
          BY <5>2, <5>3
      <4> QED
        BY <4>2
    <3> QED
      BY <2>1, <3>1, <3>2
  <2> QED
    BY <1>3, <2>1, <2>2, <2>3 DEF HeadersInPlace, InHead
<1> QED
  BY <1>3, <1>4, <1>7, <1>8, <1>9 DEF HInv

\* The headers are complete: the message gets what was flushed and what is in the
\* slots, or only the latter if there was no flush yet.
LEMMA HeadersCompleteHolds == HInv /\ on_headers_complete => HInv'
<1> SUFFICES ASSUME HInv, on_headers_complete PROVE HInv'
  OBVIOUS
<1> DEFINE hs == IF flushed THEN jsHeaders \o make_header ELSE make_header
           u == IF flushed THEN jsUrl \cup flushed_url ELSE flushed_url
<1>1. InHead /\ HeadersMayFollow /\ phase' = "body" /\ nFields' = 0 /\ nValues' = 0
  BY DEF on_headers_complete
<1>2. UNCHANGED <<msg, count, first, trailed, type, fields, values, flushed>>
  BY DEF on_headers_complete
<1>3. incoming' = [msg |-> msg, from |-> first, to |-> count, headers |-> hs,
                   url |-> u, late |-> jsUrl \ {msg} # {}, trailed |-> trailed,
                   body |-> {}, complete |-> FALSE]
  BY DEF on_headers_complete, parserOnHeadersComplete
<1>4. IF flushed THEN jsHeaders' = <<>> /\ jsUrl' = u /\ url' = {}
      ELSE UNCHANGED <<jsHeaders, jsUrl, url>>
  BY DEF on_headers_complete
<1>5. nFields = nValues /\ nValues < HEADER_MAX
  BY <1>1, HttpParserAssumption DEF HInv, CountersAgree, HeadersMayFollow, InHead, HTypeOK
<1>6. make_header \in Headers /\ jsHeaders \in Headers /\ jsHeaders \o make_header \in Headers
  <2>1. make_header \in Headers /\ jsHeaders \in Headers
    BY <1>5, MakeHeaderType DEF HInv, HTypeOK
  <2> QED
    BY <2>1, ConcatProperties
<1>7. u \in Text /\ {} \in Text
  BY DEF HInv, HTypeOK, flushed_url, Text
<1>8. ~flushed => jsHeaders \o make_header = make_header
  BY <1>6, ConcatEmptySeq DEF HInv
<1>9. hs = jsHeaders \o make_header /\ hs \in Headers
  BY <1>6, <1>8
<1> HIDE DEF hs, u
<1>10. jsHeaders' = <<>> /\ <<>> \in Headers
  BY <1>4, EmptySeq DEF HInv
<1>11. HTypeOK'
  <2>1. incoming' \in Message
    BY <1>3, <1>7, <1>9 DEF HInv, HTypeOK, Message
  <2>2. jsUrl' \in Text /\ url' \in Text
    BY <1>4, <1>7 DEF HInv, HTypeOK
  <2> QED
    BY <1>1, <1>2, <1>10, <2>1, <2>2, HttpParserAssumption DEF HInv, HTypeOK
<1>12. CountersAgree'
  BY <1>1, HttpParserAssumption DEF CountersAgree
<1>13. HeadersExact'
  <2>1. CASE trailed
    BY <1>3, <2>1 DEF HeadersExact
  <2>2. CASE ~trailed
    <3>1. IsExactly(hs, first, count)
      BY <1>1, <1>5, <1>9, <2>2, FlushedHeaders
    <3>2. incoming'.headers = hs /\ incoming'.from = first /\ incoming'.to = count
      BY <1>3
    <3> QED
      BY <3>1, <3>2 DEF HeadersExact, IsExactly
  <2> QED
    BY <2>1, <2>2
<1>14. ASSUME ~trailed' PROVE HeadersInPlace'
  BY <1>1, <1>10 DEF HeadersInPlace, InHead
<1> QED
  BY <1>1, <1>10, <1>11, <1>12, <1>13, <1>14 DEF HInv

\* The body, the end of a message, and what is not HTTP leave the headers alone.
LEMMA OthersHold == HInv /\ (on_body \/ on_message_complete \/ ParseError) => HInv'
<1> SUFFICES ASSUME HInv, on_body \/ on_message_complete \/ ParseError PROVE HInv'
  OBVIOUS
<1>1. /\ UNCHANGED <<msg, count, first, trailed, jsHeaders, jsUrl>>
      /\ UNCHANGED <<type, nFields, nValues, fields, values, url, flushed>>
  BY DEF on_body, on_message_complete, ParseError, httpParser, wrapper, script
<1>2. \/ phase = "body" /\ phase' \in {"body", "idle"}
      \/ phase = "trailerValue" /\ phase' = "idle"
      \/ phase' = "dead"
  BY DEF on_body, on_message_complete, ParseError, httpParser
<1>3. /\ incoming' \in Message
      /\ incoming'.headers = incoming.headers /\ incoming'.trailed = incoming.trailed
      /\ incoming'.from = incoming.from /\ incoming'.to = incoming.to
  <2>1. incoming \in Message /\ msg \in Nat
    BY DEF HInv, HTypeOK
  <2>2. CASE on_body
    <3>1. incoming.body \cup {msg} \in Text
      BY <2>1 DEF Message, Text
    <3> QED
      BY <2>1, <2>2, <3>1 DEF on_body, parserOnBody, Message
  <2>3. CASE on_message_complete
    BY <2>1, <2>3 DEF on_message_complete, parserOnMessageComplete, Message
  <2>4. CASE ParseError
    BY <2>1, <2>4 DEF ParseError, script
  <2> QED
    BY <2>2, <2>3, <2>4
<1>4. HTypeOK'
  BY <1>1, <1>2, <1>3 DEF HInv, HTypeOK
<1>5. phase' \in {"body", "idle", "dead"}
  BY <1>2
<1>6. CountersAgree'
  BY <1>1, <1>5 DEF HInv, CountersAgree
<1>7. HeadersExact'
  BY <1>3 DEF HInv, HeadersExact
<1>8. ASSUME ~trailed' PROVE HeadersInPlace'
  BY <1>1, <1>2, <1>8 DEF HInv, HeadersInPlace, InHead
<1>9. phase' \in {"idle", "body"} => nFields' = nValues'
  BY <1>1, <1>2 DEF HInv, CountersAgree
<1> QED
  BY <1>1, <1>4, <1>5, <1>6, <1>7, <1>8, <1>9 DEF HInv

\* Every step of the parser and its callbacks keeps the invariant.
LEMMA StepHolds == HInv /\ [HNext]_hvars => HInv'
<1> SUFFICES ASSUME HInv, [HNext]_hvars PROVE HInv'
  OBVIOUS
<1>1. CASE UNCHANGED hvars
  BY <1>1 DEF HInv, HTypeOK, CountersAgree, HeadersExact, HeadersInPlace, InHead, Mid,
              IsExactly, Exactly, hvars, httpParser, wrapper, script
<1> QED
  BY <1>1, BeginHolds, UrlHolds, FieldStartHolds, FieldGoesOnHolds, ValueHolds,
     HeadersCompleteHolds, OthersHold DEF HNext

-----------------------------------------------------------------------------
\* The inductive invariant holds of every connection, whatever its messages and
\* however http-parser cuts them.
THEOREM HInvariance == HSpec => []HInv
  BY InitHolds, StepHolds, PTL DEF HSpec

\* A message gets exactly its headers in order, for every number of slots and
\* of headers, across the flushes at HEADER_MAX and across messages, unless a
\* message before it had trailing headers.
THEOREM HeadersCorrect == HSpec => []HeadersExact
<1>1. HInv => HeadersExact
  BY DEF HInv
<1> QED
  BY <1>1, HInvariance, PTL

\* The assertions on n_fields and n_values never fail and the slots are never
\* exceeded, trailing headers included.
THEOREM CountersCorrect == HSpec => []CountersAgree
<1>1. HInv => CountersAgree
  BY DEF HInv
<1> QED
  BY <1>1, HInvariance, PTL

-----------------------------------------------------------------------------
(* The url of a request.                                                   *)

\* parser.url is of the present message only, and from its first fragment until the
\* headers are complete the message's url is there or was flushed to _url.
UrlInPlace ==
  type = "request" =>
    /\ url \subseteq {msg}
    /\ phase \in {"url", "field", "value"} => msg \in url \/ (flushed /\ msg \in jsUrl)

UrlInv == UrlInPlace /\ UrlExact

\* A header that uses up the slots moves the url to _url.
LEMMA FieldMovesUrl ==
  ASSUME UrlInPlace, on_header_field, UNCHANGED <<msg, type>>,
         phase' \in {"url", "field", "value"} => phase \in {"url", "field", "value"}
  PROVE  UrlInPlace'
<1>1. CASE overflow
  BY <1>1 DEF on_header_field, flush, parserOnHeaders, flushed_url, UrlInPlace
<1>2. CASE ~overflow
  BY <1>2 DEF on_header_field, UrlInPlace
<1> QED
  BY <1>1, <1>2

\* Every step keeps the url of the message and of what became an IncomingMessage.
LEMMA StepUrl == HInv /\ UrlInv /\ [HNext]_hvars => UrlInv'
<1> SUFFICES ASSUME HInv, UrlInv, [HNext]_hvars PROVE UrlInv'
  OBVIOUS
<1> USE DEF UrlInv
<1>1. ASSUME UNCHANGED <<type, incoming>> PROVE UrlExact'
  BY <1>1 DEF UrlExact
<1>2. CASE UNCHANGED hvars
  BY <1>1, <1>2 DEF hvars, httpParser, wrapper, script, UrlInPlace
<1>3. CASE on_message_begin
  BY <1>1, <1>3 DEF on_message_begin, script, UrlInPlace
<1>4. CASE on_url
  BY <1>1, <1>4 DEF on_url, script, UrlInPlace
<1>5. CASE FieldStart
  <2>1. UrlInPlace'
    <3>1. type = "request" => (phase' \in {"url", "field", "value"}
                                 => phase \in {"url", "field", "value"})
      BY <1>5 DEF FieldStart, HeadersMayFollow
    <3>2. CASE type = "request"
      BY <1>5, <3>1, <3>2, FieldMovesUrl DEF FieldStart
    <3>3. CASE type # "request"
      BY <1>5, <3>3 DEF FieldStart, UrlInPlace
    <3> QED
      BY <3>2, <3>3
  <2> QED
    BY <1>1, <1>5, <2>1 DEF FieldStart
<1>6. CASE FieldGoesOn
  <2>1. UrlInPlace'
    BY <1>6, FieldMovesUrl DEF FieldGoesOn, httpParser
  <2> QED
    BY <1>1, <1>6, <2>1 DEF FieldGoesOn
<1>7. CASE Value
  <2>1. UNCHANGED <<msg, type, url, flushed, jsUrl, incoming>>
    BY <1>7 DEF Value, script
  <2>2. phase' \in {"url", "field", "value"} => phase \in {"url", "field", "value"}
    BY <1>7 DEF Value
  <2> QED
    BY <1>1, <2>1, <2>2 DEF UrlInPlace
<1>8. CASE on_headers_complete
  <2>1. UrlInPlace'
    BY <1>8 DEF on_headers_complete, UrlInPlace
  <2>2. ASSUME type' = "request", ~incoming'.late PROVE incoming'.url = {incoming'.msg}
    <3>1. /\ incoming'.msg = msg /\ incoming'.late = (jsUrl \ {msg} # {})
          /\ incoming'.url = IF flushed THEN jsUrl \cup flushed_url ELSE flushed_url
          /\ type = "request"
      BY <1>8, <2>2 DEF on_headers_complete, parserOnHeadersComplete
    <3>2. phase \in {"url", "field", "value"}
      BY <1>8, <3>1 DEF on_headers_complete, HeadersMayFollow, InHead
    <3>3. flushed_url = url /\ url \subseteq {msg} /\ jsUrl \subseteq {msg}
          /\ (msg \in url \/ (flushed /\ msg \in jsUrl))
      BY <2>2, <3>1, <3>2 DEF UrlInPlace, flushed_url
    <3> QED
      BY <3>1, <3>3
  <2> QED
    BY <2>1, <2>2 DEF UrlExact
<1>9. CASE on_body \/ on_message_complete \/ ParseError
  <2>1. /\ UNCHANGED <<msg, type, url, flushed, jsUrl>>
        /\ phase' \notin {"url", "field", "value"}
    BY <1>9 DEF on_body, on_message_complete, ParseError, httpParser, wrapper, script
  <2>2. /\ incoming'.msg = incoming.msg /\ incoming'.late = incoming.late
        /\ incoming'.url = incoming.url
    BY <1>9 DEF on_body, on_message_complete, ParseError, parserOnBody,
                parserOnMessageComplete, script, HInv, HTypeOK, Message
  <2> QED
    BY <2>1, <2>2 DEF UrlInPlace, UrlExact
<1> QED
  BY <1>2, <1>3, <1>4, <1>5, <1>6, <1>7, <1>8, <1>9 DEF HNext

\* A request gets its own url, whole, however it is cut and whether the slots were
\* flushed before it ended, unless _url still holds that of an earlier request.
THEOREM UrlCorrect == HSpec => []UrlExact
<1>1. HInit => UrlInv
  BY DEF HInit, UrlInv, UrlInPlace, UrlExact, NoMessage
<1>2. UrlInv => UrlExact
  BY DEF UrlInv
<1> QED
  BY <1>1, <1>2, StepUrl, HInvariance, PTL DEF HSpec
=============================================================================
