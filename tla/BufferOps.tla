------------------------------ MODULE BufferOps ------------------------------
(***************************************************************************)
(* What the functions of Buffer (src/src/js/buffer.js over                 *)
(* src/src/module/iotjs_module_buffer.c) and of iotjs_string_t             *)
(* (src/src/iotjs_string.c) compute.  A buffer is the sequence of its      *)
(* bytes; the index i of C is the index i + 1 here.  A string of           *)
(* JavaScript is a sequence of characters, and a character the sequence of *)
(* its bytes in UTF-8.                                                     *)
(***************************************************************************)
EXTENDS Integers, SequencesExt

CONSTANT CharSigned   \* char of the build has a sign (it has on x86, not on ARM)

ASSUME CharAssumption == CharSigned \in BOOLEAN

Byte == 0..255
NUL == 0

smaller(m, n) == IF m < n THEN m ELSE n

\* The value of a byte that is read through a char.
char(b) == IF CharSigned /\ b > 127 THEN b - 256 ELSE b

\* strlen and strnlen: the bytes before the first NUL.
cString(bytes) ==
  IF \E i \in 1..Len(bytes) : bytes[i] = NUL
  THEN SubSeq(bytes, 1, SelectInSeq(bytes, LAMBDA b : b = NUL) - 1)
  ELSE bytes

-----------------------------------------------------------------------------
(* The native half of Buffer.                                              *)

bound_range(index, low, upper) ==
  IF index < low THEN low ELSE IF index > upper THEN upper ELSE index

\* iotjs_bufferwrap_create: calloc, and no memory at all for length 0.
bufferwrap_create(length) == [i \in 1..length |-> NUL]

\* iotjs_bufferwrap_copy_internal.  The loop goes forward, and reads what it
\* wrote when source and destination are the same memory.
copy_internal(dst, src, same, src_from, src_to, dst_from) ==
  LET room == smaller(src_to - src_from, Len(dst) - dst_from)
      n == IF room < 0 THEN 0 ELSE room
      after[k \in 0..n] ==
        IF k = 0 THEN dst
        ELSE [after[k - 1] EXCEPT ![dst_from + k] =
                IF same THEN after[k - 1][src_from + k] ELSE src[src_from + k]]
  IN [copied |-> n, bytes |-> after[n]]

\* Mutant: a buffer equals the buffers that it begins.
bufferwrap_compare_Prefix(x, y) ==
  LET differ == {i \in 1..smaller(Len(x), Len(y)) : x[i] # y[i]}
      first == CHOOSE i \in differ : \A j \in differ : i <= j
  IN IF differ = {} THEN 0 ELSE IF char(x[first]) < char(y[first]) THEN -1 ELSE 1

\* iotjs_bufferwrap_compare: the first difference decides, then the length.
bufferwrap_compare(x, y) ==
  LET differ == {i \in 1..smaller(Len(x), Len(y)) : x[i] # y[i]}
      first == CHOOSE i \in differ : \A j \in differ : i <= j
  IN CASE differ # {} -> IF char(x[first]) < char(y[first]) THEN -1 ELSE 1
       [] differ = {} /\ Len(x) < Len(y) -> -1
       [] differ = {} /\ Len(x) > Len(y) -> 1
       [] OTHER -> 0

\* Copy
nativeCopy(src, dst, same, dst_start, src_start, src_end) ==
  LET from == bound_range(src_start, 0, Len(src))
      to == bound_range(src_end, 0, Len(src))
  IN copy_internal(dst, src, same, from, IF to < from THEN from ELSE to,
                   bound_range(dst_start, 0, Len(dst)))

\* Write
nativeWrite(buf, bytes, offset, length) ==
  LET at == bound_range(offset, 0, Len(buf))
      fits == bound_range(length, 0, Len(buf) - at)
  IN copy_internal(buf, bytes, FALSE, 0, bound_range(fits, 0, Len(bytes)), at)

\* Slice: a new buffer, not a view of the old one.
slice(buf, start, end) ==
  LET len == Len(buf)
      index(i) == bound_range(IF i < 0 THEN i + len ELSE i, 0, len)
      from == index(start)
      to == IF index(end) < from THEN from ELSE index(end)
  IN copy_internal(bufferwrap_create(to - from), buf, FALSE, from, to, 0).bytes

\* ToString.  data is NULL for a buffer of length 0, which has no memory; in a build
\* that has assertions the first one of iotjs_string_create_with_size ends the process.
toStringAborts(buf, asserting) == asserting /\ Len(buf) = 0
toString(buf, start, end) ==
  LET from == bound_range(start, 0, Len(buf))
      to == bound_range(end, 0, Len(buf))
  IN cString(SubSeq(buf, from + 1, IF to < from THEN from ELSE to))

-----------------------------------------------------------------------------
(* buffer.js.                                                              *)

utf8(string) == FlattenSeq(string)

\* Buffer.byteLength counts characters, where the documentation has the number of
\* bytes (docs/IoT.js-API-Buffer.md:36).
byteLength(string) == Len(string)

\* Buffer.prototype.copy and write throw a RangeError in these cases.
copyThrows(target_start, source_start, source_end) ==
  source_end > source_start /\ target_start < 0
writeThrows(buf, string, offset) ==
  Len(string) > 0 /\ (offset < 0 \/ offset >= Len(buf))

\* new Buffer(string)
bufferOf(string) ==
  LET new == bufferwrap_create(byteLength(string))
  IN nativeWrite(new, utf8(string), 0, Len(new)).bytes

\* Buffer.concat: each element is copied to where the one before it ends.
concat(list) ==
  LET ends[k \in 0..Len(list)] == IF k = 0 THEN 0 ELSE ends[k - 1] + Len(list[k])
      filled[k \in 0..Len(list)] ==
        IF k = 0 THEN bufferwrap_create(ends[Len(list)])
        ELSE nativeCopy(list[k], filled[k - 1], FALSE, ends[k - 1], 0, Len(list[k])).bytes
  IN filled[Len(list)]

-----------------------------------------------------------------------------
(* iotjs_string_t: its bytes, its capacity, and whether data points to     *)
(* memory of its own (FALSE: to iotjs_empty_string).  A string has memory  *)
(* for cap + 1 bytes.                                                      *)

\* iotjs_string_create_with_size
string_create(data) == [bytes |-> data, cap |-> Len(data), heap |-> Len(data) > 0]

\* iotjs_string_reserve
string_reserve(s, capacity) ==
  IF s.cap >= capacity THEN s ELSE [s EXCEPT !.cap = capacity, !.heap = TRUE]

\* iotjs_string_make_empty
string_make_empty(s) == IF s.heap THEN string_create(<<>>) ELSE s

\* strncpy of size bytes: what follows a NUL is filled with NULs.
strncpy(data, size) ==
  [i \in 1..size |-> IF i <= Len(cString(data)) THEN data[i] ELSE NUL]

\* Mutant: the capacity is doubled once.
nextCapacity_Once(cap, needed) == 2 * cap

\* The while loop of iotjs_string_append, which doubles the capacity.
nextCapacity(cap, needed) ==
  LET doubled[k \in 0..needed] == IF k = 0 THEN cap ELSE 2 * doubled[k - 1]
      times == CHOOSE k \in 0..needed :
        /\ doubled[k] >= needed
        /\ \A j \in 0..(k - 1) : doubled[j] < needed
  IN doubled[times]

\* iotjs_string_append; a negative size means strlen(data).
string_append(s, data, size) ==
  LET n == IF size < 0 THEN Len(cString(data)) ELSE size
      needed == Len(s.bytes) + n
      cap == CASE s.cap = 0 -> n
               [] s.cap > 0 /\ s.cap >= needed -> s.cap
               [] OTHER -> nextCapacity(s.cap, needed)
  IN IF n = 0 THEN s
     ELSE [bytes |-> s.bytes \o strncpy(data, n), cap |-> cap, heap |-> TRUE]
=============================================================================
