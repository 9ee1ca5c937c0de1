--------------------------- MODULE WritableProofs ---------------------------
(***************************************************************************)
(* Proofs about Writable for every high water mark, every set of chunk     *)
(* lengths and any number of chunks.                                       *)
(***************************************************************************)
EXTENDS Writable, TLAPS

-----------------------------------------------------------------------------
(* The inductive invariant.                                                *)

\* No chunk reaches beyond the bytes accepted; with ByteOrder this makes
\* `length - writingLength` of _onwrite a natural number.
WithinAccepted ==
  /\ flushed <= HandedOut /\ HandedOut <= accepted
  /\ \A i \in 1 .. Len(buffer) : buffer[i].from + buffer[i].len <= accepted

\* Only a stream that is ready writes.
WritingIsReady == writing => ready

WInv == /\ WTypeOK /\ ByteOrder /\ WithinAccepted
        /\ LengthAccounting /\ NothingStranded /\ WritingIsReady /\ Backpressure

Idle == ~writing /\ buffer = <<>>

\* With a user who does not write between end() and 'finish', a stream that
\* has ended, or whose 'finish' is queued, stays idle.
FinishInv == /\ ended => ending /\ Idle
             /\ \A i \in 1 .. Len(ticks) : ticks[i] = "finish" => ending /\ Idle

-----------------------------------------------------------------------------
\* What Append does to a sequence.
LEMMA AppendFacts ==
  ASSUME NEW S, NEW s \in Seq(S), NEW e \in S
  PROVE  /\ Append(s, e) \in Seq(S)
         /\ Len(Append(s, e)) = Len(s) + 1
         /\ Append(s, e)[Len(s) + 1] = e
         /\ \A i \in 1 .. Len(s) : Append(s, e)[i] = s[i]
         /\ Append(s, e) # <<>>
  OBVIOUS

\* What taking the first chunk off the buffer leaves.
LEMMA TailFacts ==
  ASSUME NEW S, NEW s \in Seq(S), s # <<>>
  PROVE  /\ Head(s) = s[1] /\ s[1] \in S
         /\ Tail(s) \in Seq(S)
         /\ Len(s) \in Nat \ {0} /\ Len(Tail(s)) = Len(s) - 1
         /\ \A i \in 1 .. Len(s) - 1 : Tail(s)[i] = s[i + 1]
  OBVIOUS

\* The stream that WritableState() creates satisfies both invariants.
LEMMA InitInv == WInit => WInv /\ FinishInv
<1> SUFFICES ASSUME WInit PROVE WInv /\ FinishInv
  OBVIOUS
<1>1. WTypeOK
  <2>1. cur \in Chunk
    BY DEF WInit, Chunk
  <2>2. buffer \in Seq(Chunk) /\ ticks \in Seq({"finish", "callback"})
    BY DEF WInit
  <2>3. chunks \in 0 .. MaxChunks
    BY WritableAssumption DEF WInit
  <2> QED BY <2>1, <2>2, <2>3 DEF WInit, WTypeOK
<1>2. HandedOut = 0 /\ Len(buffer) = 0 /\ Len(ticks) = 0
  BY DEF WInit, HandedOut
<1>3. ByteOrder /\ WithinAccepted
  BY <1>2 DEF WInit, ByteOrder, WithinAccepted
<1>4. LengthAccounting /\ NothingStranded /\ WritingIsReady /\ Backpressure
  BY DEF WInit, LengthAccounting, NothingStranded, WritingIsReady, Backpressure
<1>5. FinishInv
  BY <1>2 DEF WInit, FinishInv
<1> QED BY <1>1, <1>3, <1>4, <1>5 DEF WInv

\* What writeOrBuffer does with a chunk, for the callers in write and end.
LEMMA AcceptKeepsInv ==
  ASSUME WInv, NEW n \in Nat, writeOrBuffer(n), chunks < MaxChunks,
         UNCHANGED <<ready, ended, eof, flushed>>,
         ending' \in BOOLEAN, ticks' \in Seq({"finish", "callback"})
  PROVE  WInv'
<1> DEFINE c == [from |-> accepted, len |-> n]
<1> USE DEF WInv, WTypeOK
<1>1. c \in Chunk
  BY DEF Chunk
<1>2. WTypeOK'
  <2>1. buffer' \in Seq(Chunk)
    <3>1. Append(buffer, c) \in Seq(Chunk)
      BY <1>1, AppendFacts
    <3> QED BY <3>1 DEF writeOrBuffer
  <2>5. cur' \in Chunk /\ writing' \in BOOLEAN
    BY <1>1 DEF writeOrBuffer, doWrite
  <2>2. writingLength' \in Nat
    BY DEF writeOrBuffer, doWrite
  <2>3. needDrain' \in BOOLEAN
    BY DEF writeOrBuffer
  <2>4. length' \in Nat /\ accepted' \in Nat /\ chunks' \in 0 .. MaxChunks
    BY WritableAssumption DEF writeOrBuffer
  <2> QED BY <2>1, <2>2, <2>3, <2>4, <2>5
<1>3. CASE ~ready \/ writing \/ buffer # <<>>
  <2>1. /\ buffer' = Append(buffer, c) /\ UNCHANGED <<writing, writingLength, cur>>
        /\ length' = length + n /\ accepted' = accepted + n
    BY <1>3 DEF writeOrBuffer
  <2>2. /\ Len(buffer') = Len(buffer) + 1
        /\ buffer'[Len(buffer) + 1] = c
        /\ \A i \in 1 .. Len(buffer) : buffer'[i] = buffer[i]
        /\ buffer' # <<>>
    BY <1>1, <2>1, AppendFacts
  <2>3. HandedOut' = HandedOut /\ HandedOut \in Nat
    BY <2>1 DEF HandedOut, Chunk
  <2>4. ByteOrder'
    <3>1. (writing => cur.from = flushed)'
      BY <2>1 DEF ByteOrder
    <3>2. (buffer # <<>> => /\ buffer[1].from = HandedOut
                            /\ buffer[Len(buffer)].from + buffer[Len(buffer)].len = accepted)'
      <4>1. CASE buffer = <<>>
        BY <4>1, <2>1, <2>2, <2>3 DEF ByteOrder
      <4>2. CASE buffer # <<>>
        BY <4>2, <2>1, <2>2, <2>3 DEF ByteOrder
      <4> QED BY <4>1, <4>2
    <3>3. (\A i \in 1 .. Len(buffer) - 1 :
             buffer[i + 1].from = buffer[i].from + buffer[i].len)'
      <4> SUFFICES ASSUME NEW i \in 1 .. Len(buffer)
                   PROVE  buffer'[i + 1].from = buffer'[i].from + buffer'[i].len
        BY <2>2
      <4>1. CASE i = Len(buffer)
        BY <4>1, <2>2 DEF ByteOrder
      <4>2. CASE i \in 1 .. Len(buffer) - 1
        <5>1. buffer'[i] = buffer[i] /\ buffer'[i + 1] = buffer[i + 1]
          BY <4>2, <2>2
        <5> QED BY <4>2, <5>1 DEF ByteOrder
      <4> QED BY <4>1, <4>2
    <3> QED BY <3>1, <3>2, <3>3, <2>2 DEF ByteOrder
  <2>5. WithinAccepted'
    <3> SUFFICES ASSUME NEW i \in 1 .. Len(buffer) + 1
                 PROVE  buffer'[i].from + buffer'[i].len <= accepted'
      BY <2>1, <2>2, <2>3 DEF WithinAccepted
    <3>1. CASE i = Len(buffer) + 1
      BY <3>1, <2>1, <2>2
    <3>2. CASE i \in 1 .. Len(buffer)
      <4>1. buffer'[i] = buffer[i] /\ buffer[i] \in Chunk
        BY <3>2, <2>2
      <4>2. buffer[i].from + buffer[i].len <= accepted
        BY <3>2 DEF WithinAccepted
      <4> QED BY <4>1, <4>2, <2>1 DEF Chunk
    <3> QED BY <3>1, <3>2
  <2>6. LengthAccounting'
    BY <2>1 DEF LengthAccounting
  <2>7. NothingStranded' /\ WritingIsReady'
    BY <2>1, <1>3 DEF NothingStranded, WritingIsReady
  <2>8. Backpressure'
    <3>1. needDrain' = (needDrain \/ length + n >= HighWaterMark) /\ length' = length + n
      BY DEF writeOrBuffer
    <3>2. ~needDrain' => ~(length + n >= HighWaterMark)
      BY <3>1, Zenon
    <3>3. ~(length + n >= HighWaterMark) => length + n < HighWaterMark
      BY WritableAssumption
    <3> QED BY <3>1, <3>2, <3>3 DEF Backpressure
  <2> QED BY <1>2, <2>4, <2>5, <2>6, <2>7, <2>8
<1>4. CASE ready /\ ~writing /\ buffer = <<>>
  <2>1. /\ writing' = TRUE /\ writingLength' = n /\ cur' = c /\ buffer' = <<>>
        /\ length' = length + n /\ accepted' = accepted + n
    BY <1>4 DEF writeOrBuffer, doWrite
  <2>2. flushed = accepted
    BY <1>4 DEF ByteOrder, HandedOut
  <2>3. HandedOut' = accepted'
    BY <2>1 DEF HandedOut
  <2>4. ByteOrder' /\ WithinAccepted' /\ LengthAccounting'
    BY <2>1, <2>2, <2>3 DEF ByteOrder, WithinAccepted, LengthAccounting
  <2>5. NothingStranded' /\ WritingIsReady'
    BY <2>1, <1>4 DEF NothingStranded, WritingIsReady
  <2>6. Backpressure'
    <3>1. needDrain' = (needDrain \/ length + n >= HighWaterMark) /\ length' = length + n
      BY DEF writeOrBuffer
    <3>2. ~needDrain' => ~(length + n >= HighWaterMark)
      BY <3>1, Zenon
    <3>3. ~(length + n >= HighWaterMark) => length + n < HighWaterMark
      BY WritableAssumption
    <3> QED BY <3>1, <3>2, <3>3 DEF Backpressure
  <2> QED BY <1>2, <2>4, <2>5, <2>6
<1> QED BY <1>3, <1>4

\* What writeBuffered does with the next chunk of the buffer, for its callers
\* _readyToWrite and _onwrite: f is the value of flushed that they leave.
LEMMA NextChunkKeepsInv ==
  ASSUME WInv, writeBuffered, ready', ready' \in BOOLEAN,
         flushed' = HandedOut, length' = accepted - flushed',
         UNCHANGED <<ending, eof, ticks, accepted, chunks>>
  PROVE  WInv'
<1> USE DEF WInv, WTypeOK
<1>1. HandedOut \in Nat /\ HandedOut <= accepted
  BY DEF HandedOut, Chunk, WithinAccepted
<1>2. CASE buffer = <<>>
  <2>1. /\ writing' = FALSE /\ writingLength' = 0 /\ UNCHANGED <<buffer, cur>>
        /\ ended' \in BOOLEAN /\ needDrain' \in BOOLEAN
    BY <1>2 DEF writeBuffered, onEmptyBuffer
  <2>2. flushed' = accepted' /\ HandedOut' = accepted' /\ length' = 0
    BY <1>2, <2>1 DEF ByteOrder, HandedOut
  <2>3. WTypeOK'
    <3>1. length' \in Nat /\ writingLength' \in Nat /\ flushed' \in Nat /\ accepted' \in Nat
      BY <2>1, <2>2
    <3>2. /\ buffer' \in Seq(Chunk) /\ cur' \in Chunk /\ eof' \in EofMarks
          /\ ticks' \in Seq({"finish", "callback"}) /\ chunks' \in 0 .. MaxChunks
          /\ ending' \in BOOLEAN
      BY <2>1
    <3> QED BY <2>1, <3>1, <3>2
  <2>4. Len(buffer') = 0
    BY <1>2, <2>1
  <2>5. ByteOrder' /\ WithinAccepted'
    BY <1>1, <1>2, <2>1, <2>2, <2>4 DEF ByteOrder, WithinAccepted
  <2>6. LengthAccounting' /\ NothingStranded' /\ WritingIsReady' /\ Backpressure'
    BY <1>1, <1>2, <2>1, <2>2
       DEF LengthAccounting, NothingStranded, WritingIsReady, Backpressure
  <2> QED BY <2>3, <2>5, <2>6
<1>3. CASE buffer # <<>>
  <2>1. /\ writing' = TRUE /\ cur' = Head(buffer) /\ writingLength' = Head(buffer).len
        /\ buffer' = Tail(buffer) /\ UNCHANGED <<needDrain, ended>>
    BY <1>3 DEF writeBuffered, doWrite
  <2>2. /\ Head(buffer) = buffer[1] /\ buffer[1] \in Chunk
        /\ buffer' \in Seq(Chunk)
        /\ Len(buffer) \in Nat \ {0} /\ Len(buffer') = Len(buffer) - 1
        /\ \A i \in 1 .. Len(buffer) - 1 : buffer'[i] = buffer[i + 1]
    BY <1>3, <2>1, TailFacts
  <2>3. WTypeOK'
    BY <2>1, <2>2, <1>1 DEF Chunk
  <2>4. /\ HandedOut' = buffer[1].from + buffer[1].len
        /\ cur'.from = flushed'
    BY <1>3, <2>1, <2>2 DEF HandedOut, ByteOrder
  <2>5. buffer' = <<>> => Len(buffer) = 1
    BY <1>3, <2>2
  <2>6. ByteOrder'
    <3>1. (buffer = <<>> => HandedOut = accepted)'
      BY <1>3, <2>4, <2>5 DEF ByteOrder
    <3>2. (buffer # <<>> => /\ buffer[1].from = HandedOut
                            /\ buffer[Len(buffer)].from + buffer[Len(buffer)].len = accepted)'
      <4>1. CASE Len(buffer) = 1
        <5>1. buffer' = <<>>
          BY <4>1, <2>2
        <5> QED BY <5>1
      <4>2. CASE Len(buffer) >= 2
        <5>1. buffer'[1] = buffer[2] /\ buffer'[Len(buffer')] = buffer[Len(buffer)]
          BY <4>2, <2>2
        <5>2. buffer[2].from = buffer[1].from + buffer[1].len
          BY <4>2 DEF ByteOrder
        <5> QED BY <1>3, <5>1, <5>2, <2>4 DEF ByteOrder
      <4> QED BY <4>1, <4>2, <2>2
    <3>3. (\A i \in 1 .. Len(buffer) - 1 :
             buffer[i + 1].from = buffer[i].from + buffer[i].len)'
      <4>0. Len(buffer') - 1 = Len(buffer) - 2
        BY <2>2
      <4> SUFFICES ASSUME NEW i \in 1 .. Len(buffer) - 2
                   PROVE  buffer'[i + 1].from = buffer'[i].from + buffer'[i].len
        BY <4>0
      <4>1. buffer'[i + 1] = buffer[i + 2] /\ buffer'[i] = buffer[i + 1]
        BY <2>2
      <4>2. buffer[(i + 1) + 1].from = buffer[i + 1].from + buffer[i + 1].len
        BY DEF ByteOrder
      <4> QED BY <4>1, <4>2
    <3> QED BY <3>1, <3>2, <3>3, <2>4 DEF ByteOrder
  <2>7. WithinAccepted'
    <3>1. buffer[1].from + buffer[1].len <= accepted
      BY <1>3, <2>2 DEF WithinAccepted
    <3>2. (flushed <= HandedOut /\ HandedOut <= accepted)'
      BY <3>1, <2>4, <2>1, <2>2 DEF Chunk
    <3>3. (\A i \in 1 .. Len(buffer) : buffer[i].from + buffer[i].len <= accepted)'
      <4> SUFFICES ASSUME NEW i \in 1 .. Len(buffer) - 1
                   PROVE  buffer'[i].from + buffer'[i].len <= accepted
        BY <2>2
      <4>1. i + 1 \in 1 .. Len(buffer) /\ buffer'[i] = buffer[i + 1]
        BY <2>2
      <4> QED BY <4>1 DEF WithinAccepted
    <3> QED BY <3>2, <3>3 DEF WithinAccepted
  <2>8. LengthAccounting' /\ NothingStranded' /\ WritingIsReady'
    BY <1>1, <2>1 DEF LengthAccounting, NothingStranded, WritingIsReady
  <2>9. Backpressure'
    <3>1. length' <= length
      BY <1>1 DEF LengthAccounting, WithinAccepted
    <3> QED BY <3>1, <2>1, <2>3, WritableAssumption DEF Backpressure
  <2> QED BY <2>3, <2>6, <2>7, <2>8, <2>9
<1> QED BY <1>2, <1>3

\* Steps that leave the buffer alone.
LEMMA TicksKeepInv ==
  ASSUME WInv, UNCHANGED <<buffer, length, ready, writing, writingLength, needDrain>>,
         UNCHANGED <<eof, cur, accepted, chunks, flushed>>,
         ending' \in BOOLEAN, ended' \in BOOLEAN, ticks' \in Seq({"finish", "callback"})
  PROVE  WInv'
  BY DEF WInv, WTypeOK, ByteOrder, WithinAccepted, HandedOut, LengthAccounting,
         NothingStranded, WritingIsReady, Backpressure

\* Every step of the user, of the concrete stream and of the ticks keeps WInv.
LEMMA StepInv == WInv /\ [WNext]_wvars => WInv'
<1> SUFFICES ASSUME WInv, [WNext]_wvars PROVE WInv'
  OBVIOUS
<1>T. WTypeOK
  BY DEF WInv
<1>1. ASSUME NEW n \in Lens, NEW callback \in BOOLEAN, Write(n, callback)
      PROVE  WInv'
  <2>0. n \in Nat
    BY WritableAssumption
  <2>1. CASE ended
    <3>1. ticks' \in Seq({"finish", "callback"})
      BY <1>1, <2>1, <1>T, AppendFacts DEF Write, writeAfterEnd, WTypeOK
    <3>2. /\ UNCHANGED <<buffer, length, ready, writing, writingLength, needDrain, ending>>
          /\ UNCHANGED <<ended, eof, cur, accepted, chunks, flushed>>
      BY <1>1, <2>1 DEF Write, writeAfterEnd, state
    <3> QED BY <3>1, <3>2, <1>T, TicksKeepInv DEF WTypeOK
  <2>2. CASE ~ended
    <3>1. /\ writeOrBuffer(n) /\ chunks < MaxChunks
          /\ UNCHANGED <<ready, ending, ended, eof, ticks, flushed>>
      BY <1>1, <2>2 DEF Write
    <3> QED BY <3>1, <2>0, <1>T, AcceptKeepsInv DEF WTypeOK
  <2> QED BY <2>1, <2>2
<1>2. ASSUME NEW n \in Nat, EndWithChunk(n)
      PROVE  WInv'
  <2>1. /\ writeOrBuffer(n) /\ chunks < MaxChunks
        /\ UNCHANGED <<ready, ended, eof, flushed>>
    BY <1>2 DEF EndWithChunk
  <2>2. ending' \in BOOLEAN /\ ticks' \in Seq({"finish", "callback"})
    BY <1>2, <1>T, AppendFacts DEF EndWithChunk, endWritable, WTypeOK
  <2> QED BY <2>1, <2>2, AcceptKeepsInv
<1>3. ASSUME EndWithoutChunk
      PROVE  WInv'
  <2>1. ending' \in BOOLEAN /\ ticks' \in Seq({"finish", "callback"})
    BY <1>3, <1>T, AppendFacts DEF EndWithoutChunk, endWritable, WTypeOK
  <2>2. /\ UNCHANGED <<buffer, length, ready, writing, writingLength, needDrain, ended>>
        /\ UNCHANGED <<eof, cur, accepted, chunks, flushed>>
    BY <1>3 DEF EndWithoutChunk
  <2> QED BY <2>1, <2>2, <1>T, TicksKeepInv DEF WTypeOK
<1>4. ASSUME End PROVE WInv'
  <2>1. eof \in Nat
    BY <1>T, WritableAssumption DEF WTypeOK
  <2>2. CASE \E n \in Lens : EndWithChunk(IF ending THEN n ELSE n + eof)
    <3>1. PICK n \in Lens : EndWithChunk(IF ending THEN n ELSE n + eof)
      BY <2>2
    <3>2. (IF ending THEN n ELSE n + eof) \in Nat
      BY <2>1, WritableAssumption
    <3> QED BY <3>1, <3>2, <1>2
  <2>3. CASE EndWithChunk(eof)
    BY <2>3, <2>1, <1>2
  <2>4. CASE EndWithoutChunk
    BY <2>4, <1>3
  <2> QED BY <1>4, <2>2, <2>3, <2>4 DEF End
<1>5. ASSUME readyToWrite PROVE WInv'
  <2>1. ~writing /\ flushed = HandedOut
    BY <1>5 DEF readyToWrite, WInv, WritingIsReady, HandedOut
  <2>2. /\ writeBuffered /\ ready' /\ ready' \in BOOLEAN
        /\ UNCHANGED <<length, ending, eof, ticks, accepted, chunks, flushed>>
    BY <1>5 DEF readyToWrite
  <2>3. length' = accepted - flushed'
    BY <2>2 DEF WInv, LengthAccounting
  <2> QED BY <2>1, <2>2, <2>3, NextChunkKeepsInv
<1>6. ASSUME onwrite PROVE WInv'
  <2>1. writing /\ ready /\ flushed' = HandedOut
    BY <1>6 DEF onwrite, WInv, WritingIsReady, HandedOut
  <2>2. /\ writeBuffered /\ UNCHANGED <<ready, ending, eof, ticks, accepted, chunks>>
        /\ length' = length - writingLength
    BY <1>6 DEF onwrite
  <2>3. /\ writingLength = cur.len /\ length = accepted - flushed
        /\ cur.from = flushed /\ HandedOut = cur.from + cur.len
    BY <2>1 DEF WInv, LengthAccounting, ByteOrder, HandedOut
  <2>4. length' = accepted - flushed'
    BY <2>1, <2>2, <2>3, <1>T DEF WTypeOK, Chunk
  <2> QED BY <2>1, <2>2, <2>4, <1>T, NextChunkKeepsInv DEF WTypeOK
<1>7. ASSUME Tick PROVE WInv'
  <2>1. ticks' \in Seq({"finish", "callback"}) /\ ended' \in BOOLEAN
    BY <1>7, <1>T DEF Tick, WTypeOK
  <2>2. /\ UNCHANGED <<buffer, length, ready, writing, writingLength, needDrain, ending>>
        /\ UNCHANGED <<eof, cur, accepted, chunks, flushed>>
    BY <1>7 DEF Tick
  <2> QED BY <2>1, <2>2, <1>T, TicksKeepInv DEF WTypeOK
<1>8. CASE UNCHANGED wvars
  BY <1>8, <1>T, TicksKeepInv DEF wvars, state, WTypeOK
<1> QED BY <1>1, <1>4, <1>5, <1>6, <1>7, <1>8 DEF WNext

-----------------------------------------------------------------------------
(* The theorems about any user.                                            *)

\* Every stream always satisfies the inductive invariant.
THEOREM Invariance == WSpec => []WInv
<1>1. WInit => WInv
  BY InitInv
<1>2. WInv /\ [WNext]_wvars => WInv'
  BY StepInv
<1> QED BY <1>1, <1>2, PTL DEF WSpec

\* The fields of WritableState keep their types; in particular the length that
\* _onwrite decreases never becomes negative.
THEOREM TypeCorrect == WSpec => []WTypeOK
<1>1. WInv => WTypeOK
  BY DEF WInv
<1> QED BY <1>1, Invariance, PTL

\* Whatever the user and the concrete stream do, the bytes reach _write in the
\* order of the calls of write and end, none lost and none twice.
THEOREM BytesInOrder == WSpec => []ByteOrder
<1>1. WInv => ByteOrder
  BY DEF WInv
<1> QED BY <1>1, Invariance, PTL

\* state.length counts exactly the bytes that are underway.
THEOREM LengthCorrect == WSpec => []LengthAccounting
<1>1. WInv => LengthAccounting
  BY DEF WInv
<1> QED BY <1>1, Invariance, PTL

\* write returns false as soon as the high water mark is reached, and until
\* 'drain'.
THEOREM BackpressureCorrect == WSpec => []Backpressure
<1>1. WInv => Backpressure
  BY DEF WInv
<1> QED BY <1>1, Invariance, PTL

\* A ready stream with chunks in its buffer has a write underway.
THEOREM NoChunkStranded == WSpec => []NothingStranded
<1>1. WInv => NothingStranded
  BY DEF WInv
<1> QED BY <1>1, Invariance, PTL

-----------------------------------------------------------------------------
(* The theorems about a user who does not write between end() and 'finish'. *)

\* An idle stream stays idle for such a user once its end was requested.
LEMMA StepFinishInv ==
  ASSUME ~WriteAfterEnd, WInv, FinishInv, [WNext]_wvars
  PROVE  FinishInv'
<1>T. WTypeOK
  BY DEF WInv
<1>0. \A n, callback : Write(n, callback) => ended \/ ~ending
  BY DEF Write, MayWrite
<1>1. ASSUME NEW n \in Lens, NEW callback \in BOOLEAN, Write(n, callback)
      PROVE  FinishInv'
  <2>1. CASE ended
    <3>1. /\ UNCHANGED <<buffer, writing, ending, ended>>
          /\ ticks' = IF callback THEN Append(ticks, "callback") ELSE ticks
      BY <1>1, <2>1 DEF Write, writeAfterEnd, state
    <3>2. ending' /\ Idle'
      BY <2>1, <3>1 DEF FinishInv, Idle
    <3> QED BY <3>2 DEF FinishInv
  <2>2. CASE ~ended
    <3>1. ~ending /\ UNCHANGED <<ended, ending, ticks>>
      BY <1>1, <2>2, <1>0 DEF Write
    <3> QED BY <3>1, <2>2 DEF FinishInv
  <2> QED BY <2>1, <2>2
<1>2. ASSUME NEW n, EndWithChunk(n)
      PROVE  FinishInv'
  <2>1. ~ended /\ ~ending /\ UNCHANGED ended /\ endWritable
    BY <1>2 DEF EndWithChunk, MayWrite
  <2>2. \A i \in 1 .. Len(ticks) : ticks[i] # "finish"
    BY <2>1 DEF FinishInv
  <2>3. CASE ~writing' /\ buffer' = <<>>
    BY <2>3, <2>1 DEF FinishInv, Idle, endWritable
  <2>4. CASE ~(~writing' /\ buffer' = <<>>)
    BY <2>4, <2>1, <2>2 DEF FinishInv, endWritable
  <2> QED BY <2>3, <2>4
<1>3. ASSUME EndWithoutChunk
      PROVE  FinishInv'
  <2>1. ~ending /\ ~ended /\ UNCHANGED ended /\ endWritable
    BY <1>3 DEF EndWithoutChunk, FinishInv
  <2>2. \A i \in 1 .. Len(ticks) : ticks[i] # "finish"
    BY <2>1 DEF FinishInv
  <2>3. CASE ~writing' /\ buffer' = <<>>
    BY <2>3, <2>1 DEF FinishInv, Idle, endWritable
  <2>4. CASE ~(~writing' /\ buffer' = <<>>)
    BY <2>4, <2>1, <2>2 DEF FinishInv, endWritable
  <2> QED BY <2>3, <2>4
<1>4. ASSUME readyToWrite \/ onwrite
      PROVE  FinishInv'
  <2>1. writeBuffered /\ UNCHANGED <<ending, ticks>>
    BY <1>4 DEF readyToWrite, onwrite
  <2>2. CASE buffer = <<>>
    <3>1. ~writing' /\ buffer' = <<>> /\ ended' = (ended \/ ending)
      BY <2>1, <2>2 DEF writeBuffered, onEmptyBuffer
    <3> QED BY <3>1, <2>1 DEF FinishInv, Idle
  <2>3. CASE buffer # <<>>
    <3>1. UNCHANGED ended
      BY <2>1, <2>3 DEF writeBuffered
    <3> QED BY <3>1, <2>1, <2>3 DEF FinishInv, Idle
  <2> QED BY <2>2, <2>3
<1>5. ASSUME Tick
      PROVE  FinishInv'
  <2>1. /\ ticks # <<>> /\ ticks' = Tail(ticks)
        /\ ended' = (ended \/ Head(ticks) = "finish")
        /\ UNCHANGED <<buffer, writing, ending>>
    BY <1>5 DEF Tick
  <2>2. /\ Head(ticks) = ticks[1] /\ Len(ticks) \in Nat \ {0}
        /\ Len(ticks') = Len(ticks) - 1
        /\ \A i \in 1 .. Len(ticks) - 1 : ticks'[i] = ticks[i + 1]
    BY <2>1, <1>T, TailFacts DEF WTypeOK
  <2>3. ended' => ending' /\ Idle'
    <3>1. ended \/ ticks[1] = "finish" => ending /\ Idle
      BY <2>2 DEF FinishInv
    <3> QED BY <3>1, <2>1, <2>2, Zenon DEF Idle
  <2>4. ASSUME NEW i \in 1 .. Len(ticks'), ticks'[i] = "finish"
        PROVE  ending' /\ Idle'
    <3>1. i + 1 \in 1 .. Len(ticks) /\ ticks[i + 1] = "finish"
      BY <2>2, <2>4
    <3> QED BY <3>1, <2>1 DEF FinishInv, Idle
  <2> QED BY <2>3, <2>4 DEF FinishInv
<1>6. CASE UNCHANGED wvars
  BY <1>6 DEF wvars, state, FinishInv, Idle
<1>7. End => FinishInv'
  BY <1>2, <1>3 DEF End
<1> QED BY <1>1, <1>4, <1>5, <1>6, <1>7 DEF WNext

\* 'finish' means that everything is flushed.  The hypothesis is needed: the
\* run of WritableDoc.cfg shows 'finish' before the data without it.
THEOREM FinishCorrect ==
  ASSUME ~WriteAfterEnd
  PROVE  WSpec => []FinishMeansFlushed
<1>1. WInit => FinishInv
  BY InitInv
<1>2. WInv /\ FinishInv /\ [WNext]_wvars => FinishInv'
  BY StepFinishInv
<1>3. WInv /\ FinishInv => FinishMeansFlushed
  BY DEF WInv, FinishInv, FinishMeansFlushed, ByteOrder, HandedOut, Idle
<1> QED BY <1>1, <1>2, <1>3, Invariance, PTL DEF WSpec

-----------------------------------------------------------------------------
(* Writable implements the abstract pipe: the safety part of               *)
(* ImplementsPipe.  Its liveness is left to TLC.                           *)

\* Two numbers whose difference is zero are equal.
LEMMA NoDifference == \A a, b \in Nat : a - b = 0 => a = b
  OBVIOUS

\* A step of the stream is a step of the pipe.
LEMMA StepIsPipeStep ==
  ASSUME ~WriteAfterEnd, WInv, FinishInv, [WNext]_wvars, WInv'
  PROVE  [Pipe!Accept \/ Pipe!Emit]_(Pipe!pipe)
<1>T. WTypeOK /\ WTypeOK'
  BY DEF WInv
<1>1. ASSUME NEW n \in Nat, writeOrBuffer(n), ~ending, UNCHANGED <<ended, flushed>>
      PROVE  Pipe!Accept
  <2>1. accepted' = accepted + n /\ needDrain' = (needDrain \/ length + n >= HighWaterMark)
    BY <1>1 DEF writeOrBuffer
  <2>2. needDrain' \in {needDrain, TRUE}
    BY <2>1, <1>T DEF WTypeOK
  <2>3. accepted' \in Nat /\ accepted' >= accepted
    BY <2>1, <1>T DEF WTypeOK
  <2>4. ~needDrain' => accepted' = flushed \/ accepted' - flushed < HighWaterMark
    <3>1. length' = accepted' - flushed /\ flushed <= accepted'
      BY <1>1 DEF WInv, LengthAccounting
    <3>2. ~needDrain' => length' = 0 \/ length' < HighWaterMark
      BY DEF WInv, Backpressure
    <3>3. accepted' \in Nat /\ flushed \in Nat
      BY <2>3, <1>T DEF WTypeOK
    <3>4. length' = 0 => accepted' = flushed
      BY <3>1, <3>3, NoDifference
    <3>5. length' < HighWaterMark => accepted' - flushed < HighWaterMark
      BY <3>1
    <3> QED BY <3>2, <3>4, <3>5
  <2> QED BY <1>1, <2>2, <2>3, <2>4, <1>T DEF Pipe!Accept, WTypeOK
<1>2. ASSUME NEW n \in Lens, NEW callback \in BOOLEAN, Write(n, callback)
      PROVE  Pipe!Accept \/ UNCHANGED Pipe!pipe
  <2>1. CASE ended
    BY <1>2, <2>1 DEF Write, writeAfterEnd, state, Pipe!pipe
  <2>2. CASE ~ended
    <3>1. n \in Nat /\ writeOrBuffer(n) /\ ~ending /\ UNCHANGED <<ended, flushed>>
      BY <1>2, <2>2, WritableAssumption DEF Write, MayWrite
    <3> QED BY <3>1, <1>1
  <2> QED BY <2>1, <2>2
<1>3. ASSUME NEW n \in Nat, EndWithChunk(n)
      PROVE  Pipe!Accept
  <2>1. writeOrBuffer(n) /\ ~ending /\ UNCHANGED <<ended, flushed>>
    BY <1>3 DEF EndWithChunk, MayWrite
  <2> QED BY <2>1, <1>1
<1>4. ASSUME EndWithoutChunk
      PROVE  Pipe!Accept
  <2>1. /\ ~ending /\ ending' = TRUE
        /\ UNCHANGED <<accepted, flushed, needDrain, ended, length>>
    BY <1>4 DEF EndWithoutChunk, endWritable
  <2>2. ~needDrain' => accepted' = flushed \/ accepted' - flushed < HighWaterMark
    BY <2>1, <1>T DEF WInv, Backpressure, LengthAccounting, WTypeOK
  <2> QED BY <2>1, <2>2, <1>T DEF Pipe!Accept, WTypeOK
<1>5. ASSUME End PROVE Pipe!Accept
  <2>1. eof \in Nat
    BY <1>T, WritableAssumption DEF WTypeOK
  <2>2. CASE \E n \in Lens : EndWithChunk(IF ending THEN n ELSE n + eof)
    <3>1. PICK n \in Lens : EndWithChunk(IF ending THEN n ELSE n + eof)
      BY <2>2
    <3>2. (IF ending THEN n ELSE n + eof) \in Nat
      BY <2>1, WritableAssumption
    <3> QED BY <3>1, <3>2, <1>3
  <2> QED BY <1>5, <2>1, <2>2, <1>3, <1>4 DEF End
<1>6. ASSUME readyToWrite \/ onwrite
      PROVE  Pipe!Emit
  <2>0. flushed' = HandedOut
    BY <1>6 DEF readyToWrite, onwrite, WInv, WritingIsReady, HandedOut
  <2>1. /\ writeBuffered /\ UNCHANGED <<ending, accepted>>
        /\ flushed' = HandedOut /\ flushed <= HandedOut /\ HandedOut <= accepted
    BY <2>0, <1>6 DEF readyToWrite, onwrite, WInv, WithinAccepted
  <2>2. flushed' \in Nat /\ flushed' >= flushed /\ flushed' <= accepted
    BY <2>1, <1>T DEF WTypeOK
  <2>3. CASE buffer # <<>>
    BY <2>1, <2>2, <2>3 DEF writeBuffered, Pipe!Emit
  <2>4. CASE buffer = <<>>
    <3>1. flushed' = accepted
      BY <2>1, <2>4 DEF WInv, ByteOrder
    <3>2. ended' = (ended \/ ending) /\ needDrain' = (needDrain /\ ending)
      BY <2>1, <2>4 DEF writeBuffered, onEmptyBuffer
    <3>3. CASE ending
      BY <3>1, <3>2, <3>3, <2>1, <2>2, <1>T DEF Pipe!Emit, WTypeOK
    <3>4. CASE ~ending
      BY <3>1, <3>2, <3>4, <2>1, <2>2, <1>T DEF Pipe!Emit, WTypeOK
    <3> QED BY <3>3, <3>4
  <2> QED BY <2>3, <2>4
<1>7. ASSUME Tick
      PROVE  Pipe!Emit
  <2>1. /\ ticks # <<>> /\ ended' = (ended \/ Head(ticks) = "finish")
        /\ UNCHANGED <<ending, accepted, flushed, needDrain>>
    BY <1>7 DEF Tick
  <2>2. Head(ticks) = ticks[1] /\ Len(ticks) \in Nat \ {0}
    BY <2>1, <1>T, TailFacts DEF WTypeOK
  <2>3. flushed' \in Nat /\ flushed' >= flushed /\ flushed' <= accepted
    BY <2>1, <1>T DEF WTypeOK, WInv, LengthAccounting
  <2>4. CASE Head(ticks) = "finish"
    <3>1. ending /\ Idle
      BY <2>2, <2>4 DEF FinishInv
    <3>2. flushed' = accepted
      BY <3>1, <2>1 DEF WInv, ByteOrder, HandedOut, Idle
    <3> QED BY <3>1, <3>2, <2>1, <2>3, <2>4 DEF Pipe!Emit
  <2>5. CASE Head(ticks) # "finish"
    <3>1. ended' = ended
      BY <2>1, <2>5, <1>T DEF WTypeOK
    <3> QED BY <3>1, <2>1, <2>3 DEF Pipe!Emit
  <2> QED BY <2>4, <2>5
<1>8. CASE UNCHANGED wvars
  BY <1>8 DEF wvars, state, Pipe!pipe
<1>9. CASE WNext
  BY <1>2, <1>5, <1>6, <1>7, <1>9 DEF WNext
<1> QED BY <1>8, <1>9

\* Every behaviour of the stream is one of the pipe.
THEOREM Refinement ==
  ASSUME ~WriteAfterEnd
  PROVE  WSpec => Pipe!PipeInit /\ [][Pipe!Accept \/ Pipe!Emit]_(Pipe!pipe)
<1>1. WInit => Pipe!PipeInit /\ FinishInv
  BY InitInv DEF WInit, Pipe!PipeInit
<1>2. WInv /\ FinishInv /\ [WNext]_wvars => FinishInv'
  BY StepFinishInv
<1>3. WInv /\ FinishInv /\ [WNext]_wvars /\ WInv' => [Pipe!Accept \/ Pipe!Emit]_(Pipe!pipe)
  BY StepIsPipeStep
<1> QED BY <1>1, <1>2, <1>3, Invariance, PTL DEF WSpec

=============================================================================
