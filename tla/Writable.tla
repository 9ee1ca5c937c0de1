------------------------------ MODULE Writable ------------------------------
(***************************************************************************)
(* stream.Writable (src/src/js/stream_writable.js): a stream that buffers  *)
(* chunks and passes them one at a time to the _write of the concrete      *)
(* stream (net.Socket).  The bytes that were accepted are numbered 0, 1,   *)
(* 2, ...; a chunk is the interval of numbers [from, from + len), so that  *)
(* losing, repeating or reordering a byte shows.                           *)
(*                                                                         *)
(* The listeners of 'drain' and 'finish' and the callback of a write are   *)
(* run when the handler that emits them has done everything else, so what  *)
(* they call is a step of its own.  _write is asynchronous: the concrete   *)
(* stream calls afterWrite later (OnWrite).                                *)
(***************************************************************************)
EXTENDS Naturals, Sequences

CONSTANTS
  HighWaterMark,   \* options.highWaterMark
  Lens,            \* the lengths of the chunks that are written
  MaxChunks,       \* bound on the chunks that are accepted
  EofMarks,        \* possible lengths of the mark that end() adds (0: not NuttX)
  WriteAfterEnd    \* may the user write between end() and 'finish'?

ASSUME WritableAssumption ==
  /\ HighWaterMark \in Nat
  /\ Lens \subseteq Nat
  /\ MaxChunks \in Nat
  /\ EofMarks \subseteq Nat
  /\ WriteAfterEnd \in BOOLEAN

VARIABLES
  buffer, length, ready, writing, writingLength, needDrain, ending, ended,
             \* the fields of WritableState
  eof,       \* the length of the platform's mark, never changed
  cur,       \* the chunk that was last passed to _write
  ticks,     \* what the stream queued with process.nextTick
  accepted,  \* number of bytes accepted by write
  chunks,    \* number of chunks accepted by write
  flushed    \* end of the last chunk that _write has reported written

state == <<buffer, length, ready, writing, writingLength, needDrain, ending, ended>>
wvars == <<state, eof, cur, ticks, accepted, chunks, flushed>>

Chunk == [from : Nat, len : Nat]

WTypeOK ==
  /\ buffer \in Seq(Chunk)
  /\ length \in Nat /\ writingLength \in Nat
  /\ ready \in BOOLEAN /\ writing \in BOOLEAN /\ needDrain \in BOOLEAN
  /\ ending \in BOOLEAN /\ ended \in BOOLEAN
  /\ eof \in EofMarks
  /\ cur \in Chunk
  /\ ticks \in Seq({"finish", "callback"})
  /\ accepted \in Nat /\ chunks \in 0 .. MaxChunks /\ flushed \in Nat

\* WritableState()
WInit ==
  /\ buffer = <<>> /\ length = 0
  /\ ready = FALSE /\ writing = FALSE /\ writingLength = 0
  /\ needDrain = FALSE /\ ending = FALSE /\ ended = FALSE
  /\ eof \in EofMarks
  /\ cur = [from |-> 0, len |-> 0]
  /\ ticks = <<>>
  /\ accepted = 0 /\ chunks = 0 /\ flushed = 0

-----------------------------------------------------------------------------
(* The internal functions of the module.                                   *)

doWrite(c) ==
  /\ writing' = TRUE
  /\ writingLength' = c.len
  /\ cur' = c

\* Mutant: the test of `writing` is missing, and doWrite refuses the chunk.
writeOrBuffer_WhileWriting(n) ==
  LET c == [from |-> accepted, len |-> n]
  IN  /\ length' = length + n
      /\ accepted' = accepted + n /\ chunks' = chunks + 1
      /\ IF ~ready \/ buffer # <<>>
         THEN buffer' = Append(buffer, c) /\ UNCHANGED <<writing, writingLength, cur>>
         ELSE /\ IF writing THEN UNCHANGED <<writing, writingLength, cur>> ELSE doWrite(c)
              /\ UNCHANGED buffer
      /\ needDrain' = (needDrain \/ length + n >= HighWaterMark)

\* The chunk of the next n bytes is written out or put into the buffer.
writeOrBuffer(n) ==
  LET c == [from |-> accepted, len |-> n]
  IN  /\ length' = length + n
      /\ accepted' = accepted + n /\ chunks' = chunks + 1
      /\ IF ~ready \/ writing \/ buffer # <<>>
         THEN buffer' = Append(buffer, c) /\ UNCHANGED <<writing, writingLength, cur>>
         ELSE doWrite(c) /\ UNCHANGED buffer
      /\ needDrain' = (needDrain \/ length + n >= HighWaterMark)

\* emit('error') throws when nobody listens; the callback is queued only when
\* there is a listener and a callback.
writeAfterEnd(callback) ==
  /\ ticks' = IF callback THEN Append(ticks, "callback") ELSE ticks
  /\ UNCHANGED <<state, eof, cur, accepted, chunks, flushed>>

\* Nothing is left to write: 'finish' if the stream is ending, else 'drain' if
\* it was promised.
onEmptyBuffer ==
  /\ ended' = (ended \/ ending)
  /\ needDrain' = (needDrain /\ ending)

\* Mutant: 'drain' after every chunk.
writeBuffered_DrainsEarly ==
  IF buffer = <<>>
  THEN onEmptyBuffer /\ writing' = FALSE /\ writingLength' = 0 /\ UNCHANGED <<buffer, cur>>
  ELSE doWrite(Head(buffer)) /\ buffer' = Tail(buffer) /\ needDrain' = FALSE /\ UNCHANGED ended

\* Called when nothing is being written.
writeBuffered ==
  IF buffer = <<>>
  THEN onEmptyBuffer /\ writing' = FALSE /\ writingLength' = 0 /\ UNCHANGED <<buffer, cur>>
  ELSE doWrite(Head(buffer)) /\ buffer' = Tail(buffer) /\ UNCHANGED <<needDrain, ended>>

-----------------------------------------------------------------------------
(* The operations.                                                         *)

\* The user's discipline: no write between end() and 'finish'.
MayWrite == WriteAfterEnd \/ ~ending \/ ended

\* writable.write(chunk, callback)
Write(n, callback) ==
  /\ MayWrite
  /\ IF ended
     THEN writeAfterEnd(callback) /\ Len(ticks) < 2
     ELSE /\ chunks < MaxChunks
          /\ writeOrBuffer(n)
          /\ UNCHANGED <<ready, ending, ended, eof, ticks, flushed>>

\* Mutant: 'finish' at the next tick, whatever is underway.
endWritable_Always ==
  /\ ending' = TRUE
  /\ ticks' = Append(ticks, "finish")

\* Mutant: 'finish' is left to the last _onwrite, which an idle stream never sees.
endWritable_Never == ending' = TRUE /\ UNCHANGED ticks

\* endWritable, after the last chunk was written or buffered.
endWritable ==
  /\ ending' = TRUE
  /\ ticks' = IF ~writing' /\ buffer' = <<>> THEN Append(ticks, "finish") ELSE ticks

\* writable.end() with a chunk of n bytes, NuttX' mark included.  end() of a
\* stream that has ended only reports 'write after end'.
EndWithChunk(n) ==
  /\ MayWrite /\ ~ended /\ chunks < MaxChunks
  /\ writeOrBuffer(n)
  /\ IF ending THEN UNCHANGED <<ending, ticks>> ELSE endWritable
  /\ UNCHANGED <<ready, ended, eof, flushed>>

EndWithoutChunk ==
  /\ ~ending
  /\ UNCHANGED <<buffer, length, ready, writing, writingLength, needDrain, ended>>
  /\ endWritable
  /\ UNCHANGED <<eof, cur, accepted, chunks, flushed>>

\* What end([chunk]) makes of its argument: the mark is added by the first
\* end() only.
End ==
  \/ \E n \in Lens : EndWithChunk(IF ending THEN n ELSE n + eof)
  \/ eof > 0 /\ ~ending /\ EndWithChunk(eof)
  \/ eof = 0 /\ EndWithoutChunk

\* Mutant: the buffer is not looked at when the stream becomes ready.
readyToWrite_OnlyFlag ==
  /\ ~ready /\ ready' = TRUE
  /\ UNCHANGED <<buffer, writing, writingLength, cur, needDrain, ended>>
  /\ UNCHANGED <<length, ending, eof, ticks, accepted, chunks, flushed>>

\* _readyToWrite: the concrete stream has become usable.
readyToWrite ==
  /\ ~ready /\ ready' = TRUE
  /\ writeBuffered
  /\ UNCHANGED <<length, ending, eof, ticks, accepted, chunks, flushed>>

\* _onwrite: the concrete stream reports the chunk written.
onwrite ==
  /\ writing
  /\ length' = length - writingLength
  /\ flushed' = cur.from + cur.len
  /\ writeBuffered
  /\ UNCHANGED <<ready, ending, eof, ticks, accepted, chunks>>

\* A tick that the stream has queued runs: emitFinish, or the user's callback.
Tick ==
  /\ ticks # <<>> /\ ticks' = Tail(ticks)
  /\ ended' = (ended \/ Head(ticks) = "finish")
  /\ UNCHANGED <<buffer, length, ready, writing, writingLength, needDrain, ending>>
  /\ UNCHANGED <<eof, cur, accepted, chunks, flushed>>

-----------------------------------------------------------------------------
WNext == \/ \E n \in Lens, callback \in BOOLEAN : Write(n, callback)
         \/ End \/ readyToWrite \/ onwrite \/ Tick

\* Ticks run; the concrete stream becomes ready and reports its writes.
WFairness == WF_wvars(Tick) /\ WF_wvars(readyToWrite) /\ WF_wvars(onwrite)

WSpec == WInit /\ [][WNext]_wvars /\ WFairness

-----------------------------------------------------------------------------
(* Properties.                                                             *)

\* The number of bytes that were passed to _write.
HandedOut == IF writing THEN cur.from + cur.len ELSE flushed

\* Every accepted byte that is not flushed is underway exactly once and in
\* order: the chunk being written starts where the last one ended, the buffer
\* goes on from there without a gap, and ends with the last byte accepted
\* (write, writeBuffered and the reentrant calls from their callbacks).
ByteOrder ==
  /\ writing => cur.from = flushed
  /\ buffer = <<>> => HandedOut = accepted
  /\ buffer # <<>> => /\ buffer[1].from = HandedOut
                      /\ buffer[Len(buffer)].from + buffer[Len(buffer)].len = accepted
  /\ \A i \in 1 .. Len(buffer) - 1 :
        buffer[i + 1].from = buffer[i].from + buffer[i].len

\* state.length, which write and _onwrite update separately, is at any time the
\* number of bytes accepted and not flushed, and a write that goes on has the
\* length that _onwrite will subtract.
LengthAccounting ==
  /\ length = accepted - flushed /\ flushed <= accepted
  /\ writing => writingLength = cur.len
  /\ ~writing => writingLength = 0

\* Backpressure: a user who was not told to wait has less than the high water
\* mark underway, so one who obeys bounds the buffer.
Backpressure == ~needDrain => length = 0 \/ length < HighWaterMark

\* The buffer is never left behind by an idle stream: once ready, chunks are
\* buffered only while a write is underway, so an _onwrite is still to come.
NothingStranded == ready /\ buffer # <<>> => writing

\* 'finish' is emitted only when end() was called and everything accepted has
\* been flushed.  docs/IoT.js-API-Stream.md: "After `writable.end()` has been
\* called, and all data has been flushed, this event will be fired."
FinishMeansFlushed == ended => ending /\ flushed = accepted

\* The stream implements the abstract pipe, its liveness included: end() is
\* followed by 'finish', and a write that returned false by 'drain' or 'finish'.
Pipe == INSTANCE BytePipe WITH acc <- accepted, out <- flushed, paused <- needDrain,
                               fin <- ending, closed <- ended
ImplementsPipe == Pipe!PipeSpec

=============================================================================
