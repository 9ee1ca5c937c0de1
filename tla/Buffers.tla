------------------------------- MODULE Buffers -------------------------------
(***************************************************************************)
(* An application that calls one function of Buffer with arguments in and  *)
(* out of range, or works on one iotjs_string_t with several calls, as the *)
(* http parser and wrap_eval do.  The functions are those of BufferOps;    *)
(* the properties compare what they leave with definitions that do not     *)
(* follow the loops of the code.                                           *)
(***************************************************************************)
EXTENDS BufferOps, FiniteSets

CONSTANTS
  Bytes,      \* the bytes that buffers hold
  MaxLength,  \* bound on the length of a buffer
  MaxShort,   \* bound on that of one that is compared or joined, and on the characters of a string
  MaxCalls    \* bound on the calls on the iotjs_string_t

ASSUME BuffersAssumption ==
  Bytes \subseteq Byte /\ MaxLength \in Nat /\ MaxShort \in Nat /\ MaxCalls \in Nat

VARIABLES
  made,    \* the call of a function of Buffer that was made, with its results
  str,     \* the iotjs_string_t
  meant,   \* what was appended to it since it was empty
  changes  \* the number of calls on it

bvars == <<made, str, meant, changes>>

Contents == UNION {[1..n -> Bytes] : n \in 0..MaxLength}
Indices == -1..(MaxLength + 1)
Characters == {<<b>> : b \in Bytes \cap 1..127} \cup {<<195, 169>>}
Strings == UNION {[1..n -> Characters] : n \in 0..smaller(MaxLength, MaxShort)}

BInit ==
  /\ made = [op |-> "none"]
  /\ str = string_create(<<>>) /\ meant = <<>> /\ changes = 0

\* Nothing was called yet, and the result of the first call, of a function of Buffer.
FirstCall == made.op = "none" /\ changes = 0
Called(result) == made' = result /\ UNCHANGED <<str, meant, changes>>

-----------------------------------------------------------------------------

\* buf.copy(target, ...), also with buf itself as the target.
Copy ==
  /\ FirstCall
  /\ \E src, dst \in Contents, same \in BOOLEAN, at, from, to \in Indices :
       LET r == nativeCopy(src, dst, same, at, from, to) IN
       /\ same => src = dst
       /\ ~copyThrows(at, from, to)
       /\ Called([op |-> "copy", src |-> src, dst |-> dst, same |-> same,
                  at |-> at, from |-> from, to |-> to,
                  copied |-> r.copied, after |-> r.bytes])

\* buf.write(string, offset, length)
Write ==
  /\ FirstCall
  /\ \E buf \in Contents, string \in Strings, at, length \in Indices :
       LET r == nativeWrite(buf, utf8(string), at, length) IN
       /\ ~writeThrows(buf, string, at)
       /\ Called([op |-> "write", buf |-> buf, string |-> string, at |-> at,
                  length |-> length, copied |-> r.copied, after |-> r.bytes])

\* buf.slice(start, end)
Slice ==
  /\ FirstCall
  /\ \E buf \in Contents, start, end \in Indices :
       Called([op |-> "slice", buf |-> buf, start |-> start, end |-> end,
               slice |-> slice(buf, start, end)])

\* buf.toString(start, end), in a build with assertions or without them (NDEBUG).
\* After a failed assertion there is no process that could make another call.
Text ==
  /\ FirstCall
  /\ \E buf \in Contents, start, end \in Indices, asserting \in BOOLEAN :
       \/ /\ toStringAborts(buf, asserting)
          /\ Called([op |-> "aborted", buf |-> buf])
       \/ /\ ~toStringAborts(buf, asserting)
          /\ Called([op |-> "toString", buf |-> buf, start |-> start, end |-> end,
                     text |-> toString(buf, start, end)])

\* buf.compare(otherBuffer), of three buffers with each other
Compare ==
  /\ FirstCall
  /\ \E x, y, z \in {c \in Contents : Len(c) <= MaxShort} :
       Called([op |-> "compare", x |-> x, y |-> y, xy |-> bufferwrap_compare(x, y),
               yx |-> bufferwrap_compare(y, x), yz |-> bufferwrap_compare(y, z),
               xz |-> bufferwrap_compare(x, z)])

\* new Buffer(string), and Buffer.concat(list)
Create ==
  /\ FirstCall
  /\ \/ \E string \in Strings :
          Called([op |-> "new", string |-> string, bytes |-> bufferOf(string)])
     \/ \E x, y, z \in {c \in Contents : Len(c) <= MaxShort} :
          Called([op |-> "concat", list |-> <<x, y, z>>, bytes |-> concat(<<x, y, z>>)])

\* One more call on the iotjs_string_t.
StringCall(s, m) ==
  /\ made.op = "none" /\ changes < MaxCalls
  /\ str' = s /\ meant' = m /\ changes' = changes + 1
  /\ UNCHANGED made

StringAppend ==
  \E data \in Contents, size \in {-1} \cup 0..MaxLength :
    /\ size <= Len(data)
    /\ StringCall(string_append(str, data, size),
                  meant \o strncpy(data, IF size < 0 THEN Len(cString(data)) ELSE size))
StringReserve ==
  \E capacity \in 1..(2 * MaxLength) : StringCall(string_reserve(str, capacity), meant)
StringEmpty == StringCall(string_make_empty(str), <<>>)

BNext ==
  \/ Copy \/ Write \/ Slice \/ Text \/ Compare \/ Create
  \/ StringAppend \/ StringReserve \/ StringEmpty

BSpec == BInit /\ [][BNext]_bvars

-----------------------------------------------------------------------------
(* What the functions of Buffer should leave, stated without their loops.  *)

Clamp(i, len) == IF i < 0 THEN 0 ELSE smaller(i, len)

\* The result of buf.copy() is that of a move of the bytes, except that a
\* forward copy within one buffer repeats the first at - from of them.
CopyExact ==
  made.op = "copy" =>
    LET at == Clamp(made.at, Len(made.dst))
        from == Clamp(made.from, Len(made.src))
        to == Clamp(made.to, Len(made.src))
        n == made.copied
        overlaps == made.same /\ from < at
    IN /\ n = IF to <= from THEN 0 ELSE smaller(to - from, Len(made.dst) - at)
       /\ Len(made.after) = Len(made.dst)
       /\ \A i \in 0..(Len(made.dst) - 1) : made.after[i + 1] =
            IF i < at \/ i >= at + n THEN made.dst[i + 1]
            ELSE made.src[from + (IF overlaps THEN (i - at) % (at - from) ELSE i - at) + 1]

\* buf.write() writes a prefix of the string's bytes, and as much of it as
\* length and the buffer leave room for, and touches nothing else.
WriteExact ==
  made.op = "write" =>
    LET bytes == utf8(made.string)
        at == Clamp(made.at, Len(made.buf))
    IN /\ made.copied = smaller(Clamp(made.length, Len(made.buf) - at), Len(bytes))
       /\ \A i \in 1..Len(made.buf) : made.after[i] =
            IF i <= at \/ i > at + made.copied THEN made.buf[i] ELSE bytes[i - at]

\* slice() takes the bytes whose index is in the range, a negative index
\* counting from the end.
SliceExact ==
  made.op = "slice" =>
    LET len == Len(made.buf)
        from == Clamp(IF made.start < 0 THEN len + made.start ELSE made.start, len)
        to == Clamp(IF made.end < 0 THEN len + made.end ELSE made.end, len)
    IN /\ Len(made.slice) = Cardinality({i \in 1..len : i > from /\ i <= to})
       /\ \A i \in 1..Len(made.slice) : made.slice[i] = made.buf[from + i]

\* The text of a range, whose indices are both counted from the start, ends at its
\* first NUL; of all the calls only toString of an empty buffer ends the process.
TextExact ==
  /\ made.op = "toString" =>
       LET len == Len(made.buf)
           from == Clamp(made.start, len)
           to == Clamp(made.end, len)
           n == Len(made.text)
       IN /\ n = 0 \/ from + n <= to
          /\ \A i \in 1..n : made.text[i] = made.buf[from + i] /\ made.text[i] # NUL
          /\ from + n < to => made.buf[from + n + 1] = NUL
  /\ made.op = "aborted" => made.buf = <<>>

\* compare() is a total order in which only equal buffers are equal.
CompareExact ==
  made.op = "compare" =>
    /\ made.xy = -made.yx
    /\ (made.xy = 0) <=> (made.x = made.y)
    /\ (made.xy < 0 /\ made.yz <= 0) => made.xz < 0

\* A character of the string has more than one byte.  The Buffer, which has as many
\* bytes as the string has characters (buffer.js:33), is too short then for what
\* docs/IoT.js-API-Buffer.md:25 promises, "a new buffer containing given `str`".
Long(string) == \E i \in 1..Len(string) : Len(string[i]) > 1

\* A Buffer of a string holds the string, or, if that is Long, as many of its bytes as
\* it has characters; concat() joins its arguments in order.
CreateExact ==
  /\ made.op = "new" =>
       IF Long(made.string)
       THEN /\ Len(made.bytes) = Len(made.string)
            /\ IsPrefix(made.bytes, utf8(made.string))
       ELSE made.bytes = utf8(made.string)
  /\ made.op = "concat" => made.bytes = FlattenSeq(made.list)

\* Every function of Buffer leaves what it should, for arguments below, in
\* and above the range, empty buffers and buffers copied onto themselves
\* (bound_range and iotjs_bufferwrap_copy_internal, which all of them use), with the
\* two exceptions that the parts name: a Long string is cut, and toString of an empty
\* buffer ends a process whose build has assertions.
BufferOpsExact ==
  CopyExact /\ WriteExact /\ SliceExact /\ TextExact /\ CompareExact /\ CreateExact

\* After any sequence of calls an iotjs_string_t holds what was appended,
\* within the memory it has, and has memory of its own exactly when its
\* capacity is not 0, which is what its assertions and its destructor rely on.
StringSound ==
  /\ str.bytes = meant
  /\ Len(str.bytes) <= str.cap
  /\ str.heap <=> str.cap > 0
=============================================================================
