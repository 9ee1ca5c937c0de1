------------------------------ MODULE Readable ------------------------------
(***************************************************************************)
(* stream.Readable (src/src/js/stream_readable.js): a source pushes chunks *)
(* and finally EOF; the consumer gets them as 'data' events in flowing     *)
(* mode and by read() in paused mode.                                      *)
(*                                                                         *)
(* As in Writable the bytes pushed are numbered and a chunk is the         *)
(* interval [from, from + len).  emitData still has work to do after the   *)
(* listeners of 'data' return, so the listeners that are running are       *)
(* counted: any operation may be called from inside a listener.            *)
(***************************************************************************)
EXTENDS Naturals, Sequences

CONSTANTS Lens,       \* lengths of the chunks that are pushed
          MaxChunks,  \* bound on the chunks pushed
          MaxDepth,   \* bound on nested 'data' listeners
          Sizes       \* arguments of read(); a large one stands for none

ASSUME ReadableAssumption ==
  /\ Lens \subseteq Nat /\ MaxChunks \in Nat /\ MaxDepth \in Nat /\ Sizes \subseteq Nat

VARIABLES
  buffer, length, flowing, ended, endEmitted,   \* ReadableState
  depth,      \* 'data' listeners that are running, nested in each other
  pushed,     \* bytes accepted by push
  chunks,     \* chunks accepted by push
  delivered,  \* end of the last interval of bytes given to the consumer
  assertion,  \* the assertion of emitData failed
  threw       \* a 'data' listener has thrown

rvars == <<buffer, length, flowing, ended, endEmitted, depth, pushed, chunks, delivered,
           assertion, threw>>

Chunk == [from : Nat, len : Nat]

RTypeOK ==
  /\ buffer \in Seq(Chunk) /\ length \in Nat
  /\ flowing \in BOOLEAN /\ ended \in BOOLEAN /\ endEmitted \in BOOLEAN
  /\ depth \in 0 .. MaxDepth
  /\ pushed \in Nat /\ chunks \in 0 .. MaxChunks /\ delivered \in Nat
  /\ assertion \in BOOLEAN /\ threw \in BOOLEAN

\* ReadableState()
RInit ==
  /\ buffer = <<>> /\ length = 0
  /\ flowing = FALSE /\ ended = FALSE /\ endEmitted = FALSE
  /\ depth = 0 /\ pushed = 0 /\ chunks = 0 /\ delivered = 0
  /\ assertion = FALSE /\ threw = FALSE

-----------------------------------------------------------------------------
(* The internal functions.                                                 *)

\* readBuffer gives null when there is nothing, or only empty chunks, and else
\* the concatenation of all the chunks.
HasData   == buffer # <<>> /\ length # 0
ConcatEnd == buffer[Len(buffer)].from + buffer[Len(buffer)].len

\* Mutant: the length is not reset.
readBuffer_KeepsLength == buffer' = <<>> /\ UNCHANGED length

readBuffer == buffer' = <<>> /\ length' = 0

\* 'end' is emitted once, when the stream has ended and nothing is buffered.
emitEnd == endEmitted' = TRUE

\* emitData hands over the bytes up to `to` and starts the 'data' listeners.
\* It first asserts that readBuffer finds nothing; a failing assertion has
\* emptied the buffer and throws.
emitData(to, isEmpty) ==
  IF isEmpty
  THEN /\ depth < MaxDepth /\ depth' = depth + 1
       /\ delivered' = to
       /\ UNCHANGED assertion
  ELSE assertion' = TRUE /\ UNCHANGED <<depth, delivered>>

-----------------------------------------------------------------------------
(* The source.                                                             *)

\* push of a chunk.  After EOF it emits 'error' and changes nothing.
push(n) ==
  /\ ~ended /\ chunks < MaxChunks
  /\ pushed' = pushed + n /\ chunks' = chunks + 1
  /\ IF flowing
     THEN /\ IF HasData THEN readBuffer ELSE UNCHANGED <<buffer, length>>
          /\ emitData(pushed + n, ~HasData)
     ELSE /\ length' = length + n
          /\ buffer' = Append(buffer, [from |-> pushed, len |-> n])
          /\ UNCHANGED <<depth, delivered, assertion>>
  /\ UNCHANGED <<flowing, ended, endEmitted, threw>>

\* Mutant: 'end' as soon as EOF is pushed.
pushEof_EndsAtOnce ==
  /\ ended' = TRUE /\ emitEnd
  /\ UNCHANGED <<buffer, length, flowing, depth, pushed, chunks, delivered, assertion, threw>>

\* push(null): onEof
pushEof ==
  /\ ended' = TRUE
  /\ IF length = 0 THEN emitEnd ELSE UNCHANGED endEmitted
  /\ UNCHANGED <<buffer, length, flowing, depth, pushed, chunks, delivered, assertion, threw>>

-----------------------------------------------------------------------------
(* The consumer.                                                           *)

\* read(n) gives everything when n is at least the length.  A smaller positive
\* n is not implemented: it throws.
read(n) ==
  /\ n = 0 \/ n >= length
  /\ IF n > 0 /\ HasData
     THEN readBuffer /\ delivered' = ConcatEnd
     ELSE UNCHANGED <<buffer, length, delivered>>
  /\ IF ended /\ length' = 0 THEN emitEnd ELSE UNCHANGED endEmitted
  /\ UNCHANGED <<flowing, ended, depth, pushed, chunks, assertion, threw>>

pause ==
  /\ flowing /\ flowing' = FALSE
  /\ UNCHANGED <<buffer, length, ended, endEmitted, depth, pushed, chunks, delivered,
                 assertion, threw>>

\* Mutant: what was buffered stays buffered.
resume_OnlyFlag ==
  /\ ~flowing /\ flowing' = TRUE
  /\ UNCHANGED <<buffer, length, depth, delivered, assertion>>
  /\ UNCHANGED <<ended, endEmitted, pushed, chunks, threw>>

\* resume(), also called by on('data').  readBuffer empties the buffer before
\* emitData looks at it.
resume ==
  /\ ~flowing /\ flowing' = TRUE
  /\ IF length > 0
     THEN readBuffer /\ emitData(ConcatEnd, TRUE)
     ELSE UNCHANGED <<buffer, length, depth, delivered, assertion>>
  /\ UNCHANGED <<ended, endEmitted, pushed, chunks, threw>>

\* Mutant: emitData ends with the emission of 'data'.
DataReturns_NoEnd ==
  /\ depth > 0 /\ depth' = depth - 1
  /\ UNCHANGED <<buffer, length, flowing, ended, endEmitted, pushed, chunks, delivered,
                 assertion, threw>>

\* The innermost 'data' listeners return, emitData goes on.
DataReturns ==
  /\ depth > 0 /\ depth' = depth - 1
  /\ IF ended /\ length = 0 THEN emitEnd ELSE UNCHANGED endEmitted
  /\ UNCHANGED <<buffer, length, flowing, ended, pushed, chunks, delivered, assertion, threw>>

\* A listener throws; the exception leaves every emitData that is active.
DataThrows ==
  /\ depth > 0 /\ depth' = 0
  /\ threw' = TRUE
  /\ UNCHANGED <<buffer, length, flowing, ended, endEmitted, pushed, chunks, delivered,
                 assertion>>

-----------------------------------------------------------------------------
RNext == \/ \E n \in Lens : push(n)
         \/ pushEof \/ pause \/ resume \/ DataReturns \/ DataThrows
         \/ \E n \in Sizes : read(n)

\* Listeners return, and the consumer does not leave a paused stream alone.
RFairness == WF_rvars(DataReturns) /\ SF_rvars(\E n \in Sizes : n > length /\ length > 0 /\ read(n))

RSpec == RInit /\ [][RNext]_rvars /\ RFairness

-----------------------------------------------------------------------------
(* Properties.                                                             *)

\* The bytes between those delivered and those pushed are exactly the buffered
\* ones, in order, whatever mode changes and nested listeners happen in between.
DataOrder ==
  /\ length = pushed - delivered /\ delivered <= pushed
  /\ \A b \in delivered .. pushed - 1 : \E i \in 1 .. Len(buffer) :
        buffer[i].from <= b /\ b < buffer[i].from + buffer[i].len
  /\ \A i \in 1 .. Len(buffer) :
        buffer[i].len > 0 => delivered <= buffer[i].from
                             /\ buffer[i].from + buffer[i].len <= pushed
  /\ \A i, j \in 1 .. Len(buffer) :
        i < j => buffer[i].from + buffer[i].len <= buffer[j].from

\* The assertion in emitData never fails: a flowing stream has nothing buffered,
\* also when a 'data' listener pauses, pushes and resumes.
AssertionHolds == ~assertion /\ (flowing => length = 0)

\* 'end' comes after EOF and after all the data, and nothing comes after 'end'.
EndIsLast == endEmitted => ended /\ delivered = pushed

\* A consumer who reads what is buffered gets 'end' after EOF, unless a listener
\* throws.
EndComes == ended ~> (endEmitted \/ threw)

=============================================================================
