---------------------------------- MODULE Fs ----------------------------------
(***************************************************************************)
(* The file system module (src/src/js/fs.js over                           *)
(* src/src/module/iotjs_module_fs.c): readFile and writeFile, which chain  *)
(* requests of libuv that worker threads carry out, their synchronous      *)
(* forms, and the plain calls, of which stat stands for all that differ in *)
(* the system call alone (stat, exists, mkdir, rmdir, unlink, rename).     *)
(*                                                                         *)
(* A worker carries out a request at any time, also while JavaScript runs; *)
(* AfterAsync calls back when JavaScript has returned.  A descriptor is a  *)
(* number of the kernel's table, taken by open and free again after close. *)
(* The paths of readFile and writeFile name regular files that exist; what *)
(* the kernel does is external and may fail as Faults says.                *)
(***************************************************************************)
EXTENDS BufferOps, FiniteSets

CONSTANTS
  Ops,       \* the calls that the application makes, each once: small integers
  Paths,     \* the files
  Kinds,     \* the functions it calls
  Segment,   \* what readFile reads and writeFile writes at once: 1023 in the code
  Lengths,   \* the lengths of the files, and of the data that is written
  MaxTries,  \* bound on the writes at an offset that is not a number
  Faults     \* of "open", "read", "write", "close", "short", "refuse"

None == "none"

ASSUME FsAssumption ==
  /\ Ops \subseteq Nat \ {0} /\ IsFiniteSet(Ops) /\ Segment \in Nat \ {0}
  /\ Paths # {} /\ None \notin Paths /\ MaxTries \in Nat
  /\ Lengths \subseteq Nat /\ \E n \in Lengths : \A m \in Lengths : m <= n
  /\ Kinds \subseteq {"readFile", "writeFile", "readFileSync", "writeFileSync",
                      "stat", "statSync", "readdir"}
  /\ Faults \subseteq {"open", "read", "write", "close", "short", "refuse"}

NaN == -1
Nobody == 0
Closed == [op |-> Nobody, path |-> None, pos |-> 0, mode |-> None]
Fds == 1..(1 + Cardinality(Ops))

\* The files at the start are the longest there are.  They only differ in
\* name, so it does not matter which one the first call uses.
longest == CHOOSE n \in Lengths : \A m \in Lengths : m <= n
PathsOf(o) == IF \A p \in Ops : o <= p THEN {CHOOSE p \in Paths : TRUE} ELSE Paths

VARIABLES
  kernel,   \* the descriptors and the contents of the files
  reqs,     \* the requests, from FS_ASYNC to the end of AfterAsync
  ops,      \* what the closures of each call hold, and what came of it
  busy      \* the call that runs synchronously, or Nobody

fsvars == <<kernel, reqs, ops, busy>>

Blank ==
  [kind |-> None, path |-> None, data |-> <<>>, fd |-> 0, buffers |-> <<>>,
   written |-> 0, step |-> None, tries |-> 0,
   failed |-> FALSE,      \* a read or a write of it has failed
   threw |-> FALSE,       \* an exception has left a callback of it
   disturbed |-> FALSE,   \* another call has written to its file meanwhile
   ended |-> 0,           \* how often its callback was called, or it returned
   err |-> FALSE, got |-> <<>>, disk |-> <<>>]  \* with what, and the file then

Init ==
  /\ kernel = [fds |-> [f \in Fds |-> Closed],
               disk |-> [p \in Paths |-> [i \in 1..longest |-> i]]]
  /\ reqs = <<>> /\ busy = Nobody
  /\ ops = [o \in Ops |-> Blank]

-----------------------------------------------------------------------------
(* The kernel (external).  A system call yields the kernel after it, an    *)
(* error or a number, and the bytes that it read.                          *)

Answer(k, err, n, bytes) == [kernel |-> k, err |-> err, n |-> n, bytes |-> bytes]
Failure(k) == Answer(k, TRUE, 0, <<>>)
MayFail(call, k) == IF call \in Faults THEN {Failure(k)} ELSE {}
MayBeShort(n) == IF "short" \in Faults /\ n > 0 THEN 1..n ELSE {n}

\* The bytes of a file after a write at a position in it.
Overwrite(file, pos, bytes) ==
  LET end == pos + Len(bytes) IN
  [i \in 1..(IF end > Len(file) THEN end ELSE Len(file)) |->
     CASE i > pos /\ i <= end -> bytes[i - pos]
       [] i <= pos /\ i > Len(file) -> NUL
       [] OTHER -> file[i]]

SysOpen(k, r) ==
  LET fd == CHOOSE f \in Fds : k.fds[f] = Closed /\ \A g \in 1..(f - 1) : k.fds[g] # Closed
      opened == [k EXCEPT !.fds[fd] = [op |-> r.op, path |-> r.path, pos |-> 0, mode |-> r.mode],
                          !.disk[r.path] = IF r.mode = "w" THEN <<>> ELSE @]
  IN MayFail("open", k) \cup {Answer(opened, FALSE, fd, <<>>)}

SysRead(k, r) ==
  LET f == k.fds[r.fd]
      left == Len(k.disk[f.path]) - f.pos
  IN IF f = Closed \/ f.mode = "w" THEN {Failure(k)}
     ELSE MayFail("read", k) \cup
          {Answer([k EXCEPT !.fds[r.fd].pos = @ + n], FALSE, n,
                  SubSeq(k.disk[f.path], f.pos + 1, f.pos + n)) :
             n \in MayBeShort(IF left < 0 THEN 0 ELSE smaller(left, r.n))}

\* A NaN becomes INT_MIN on x86, where no memory is mapped: an error; and 0
\* on ARM: nothing is written.
SysWrite(k, r) ==
  LET f == k.fds[r.fd] IN
  CASE f = Closed \/ f.mode = "r" -> {Failure(k)}
    [] f # Closed /\ f.mode = "w" /\ r.pos = NaN -> {Failure(k), Answer(k, FALSE, 0, <<>>)}
    [] OTHER -> MayFail("write", k) \cup
         {Answer([k EXCEPT !.disk[f.path] = Overwrite(@, r.pos, SubSeq(r.bytes, 1, n))],
                 FALSE, n, <<>>) : n \in MayBeShort(Len(r.bytes))}

SysClose(k, r) ==
  LET closed == [k EXCEPT !.fds[r.fd] = Closed] IN
  IF k.fds[r.fd] = Closed THEN {Failure(k)}
  ELSE MayFail("close", closed) \cup {Answer(closed, FALSE, 0, <<>>)}

SysPlain(k) == {Failure(k), Answer(k, FALSE, 0, <<>>)}

Outcomes(k, r) ==
  CASE r.call = "open" -> SysOpen(k, r)
    [] r.call = "read" -> SysRead(k, r)
    [] r.call = "write" -> SysWrite(k, r)
    [] r.call = "close" -> SysClose(k, r)
    [] r.call = "stat" -> SysPlain(k)

\* The calls that a write or a truncation by r disturbs.
Disturb(r, k, after) ==
  [p \in Ops |->
     [ops[p] EXCEPT !.disturbed = @ \/ (p # r.op /\ ops[p].kind # None /\ ops[p].ended = 0
                      /\ k.disk[ops[p].path] # after.disk[ops[p].path])]]

-----------------------------------------------------------------------------
(* The requests that fs.js makes.                                          *)

Request(o, call, cb) ==
  [op |-> o, call |-> call, cb |-> cb, path |-> ops[o].path, mode |-> None, fd |-> 0,
   n |-> 0, pos |-> 0, bytes |-> <<>>, stage |-> "queued", answer |-> None]

open(o, mode) == [Request(o, "open", "opened") EXCEPT !.mode = mode]
read(o, fd) == [Request(o, "read", "afterRead") EXCEPT !.fd = fd, !.n = Segment]
close(o, fd, cb) == [Request(o, "close", cb) EXCEPT !.fd = fd]

\* write() of writeFile; the arguments that it passes to the handler Write.
tryN(len, written) == IF len - written >= Segment + 1 THEN Segment ELSE len - written
write(o, c) ==
  [Request(o, "write", "afterWrite") EXCEPT
     !.fd = c.fd, !.pos = c.written,
     !.bytes = IF c.written = NaN THEN <<>>
               ELSE SubSeq(c.data, c.written + 1, c.written + tryN(Len(c.data), c.written))]

\* The checks of the handler Write: a buffer without bytes makes it throw.
WriteThrows(c) ==
  \/ Len(c.data) = 0
  \/ c.written # NaN /\ \/ c.written >= Len(c.data)
                        \/ c.written + tryN(Len(c.data), c.written) > Len(c.data)

-----------------------------------------------------------------------------
(* The functions that call back.  Each yields the closure's variables and  *)
(* the requests that it makes.                                             *)

Then(c, calls) == [op |-> c, calls |-> calls]

\* The user's callback, or the return to the user.
callback(c, err, got) ==
  [c EXCEPT !.ended = @ + 1, !.err = err, !.got = got, !.step = "end",
            !.disk = IF c.path = None THEN <<>> ELSE kernel.disk[c.path]]

\* write() of writeFile: an exception leaves the callback that called it.
writeNext(o, c) ==
  IF WriteThrows(c) THEN Then([c EXCEPT !.threw = TRUE], <<>>) ELSE Then(c, <<write(o, c)>>)

opened(o, c, a) ==
  IF a.err THEN Then(callback(c, TRUE, <<>>), <<>>)
  ELSE LET d == [c EXCEPT !.fd = a.n] IN
       IF c.kind = "readFile" THEN Then(d, <<read(o, a.n)>>) ELSE writeNext(o, d)

\* Mutant: the whole buffer is kept, not the bytes that were read.
afterRead_WholeBuffer(o, c, a) ==
  IF a.err \/ a.n = 0 THEN Then([c EXCEPT !.failed = a.err], <<close(o, c.fd, "readEnd")>>)
  ELSE Then([c EXCEPT !.buffers = Append(@, a.bytes \o bufferwrap_create(Segment - a.n))],
            <<read(o, c.fd)>>)

\* Mutant: reading goes on at the end of the file.
afterRead_NoElse(o, c, a) ==
  IF a.err \/ a.n = 0
  THEN Then([c EXCEPT !.failed = a.err], <<close(o, c.fd, "readEnd"), read(o, c.fd)>>)
  ELSE Then([c EXCEPT !.buffers = Append(@, a.bytes)], <<read(o, c.fd)>>)

\* afterRead goes on after an error: fs.read made bytesRead 0.
afterRead(o, c, a) ==
  IF a.err
  THEN Then([c EXCEPT !.failed = TRUE], <<close(o, c.fd, "closed"), close(o, c.fd, "readEnd")>>)
  ELSE IF a.n = 0 THEN Then(c, <<close(o, c.fd, "readEnd")>>)
  ELSE LET buffer == a.bytes \o bufferwrap_create(Segment - a.n) IN
       Then([c EXCEPT !.buffers = Append(@, slice(buffer, 0, a.n))], <<read(o, c.fd)>>)

\* afterWrite goes on after an error: n is undefined, and written + n is NaN.
afterWrite(o, c, a) ==
  IF a.err
  THEN LET d == [c EXCEPT !.failed = TRUE, !.written = NaN, !.tries = @ + 1] IN
       Then(d, <<close(o, c.fd, "closed"), write(o, d)>>)
  ELSE IF a.n <= 0 \/ (c.written # NaN /\ c.written + a.n = Len(c.data))
  THEN Then(c, <<close(o, c.fd, "closed")>>)
  ELSE writeNext(o, [c EXCEPT !.written = @ + a.n])

CallBack(o, c, r, a) ==
  CASE r.cb = "opened" -> opened(o, c, a)
    [] r.cb = "afterRead" -> afterRead(o, c, a)
    [] r.cb = "afterWrite" -> afterWrite(o, c, a)
    [] r.cb = "readEnd" -> Then(callback(c, a.err, concat(c.buffers)), <<>>)
    [] r.cb = "closed" -> Then(callback(c, a.err, <<>>), <<>>)
    [] r.cb = "plain" -> Then(callback(c, a.err, <<>>), <<>>)

-----------------------------------------------------------------------------
(* FS_ASYNC and the callbacks of libuv.                                    *)

\* Mutant: nobody is told that libuv refused the request.
FS_ASYNC_Silent(r) ==
  \/ reqs' = Append(reqs, r)
  \/ "refuse" \in Faults /\ r.call \in {"open", "stat"} /\ UNCHANGED reqs

\* A request is queued; or libuv refuses it, when it has no memory for the copy
\* of a path, and then the callback runs at once.
FS_ASYNC(r) ==
  \/ reqs' = Append(reqs, r)
  \/ /\ "refuse" \in Faults /\ r.call \in {"open", "stat"}
     /\ reqs' = Append(reqs, [r EXCEPT !.stage = "refused",
                                !.answer = [err |-> TRUE, n |-> 0, bytes |-> <<>>]])

Refused == \E i \in 1..Len(reqs) : reqs[i].stage = "refused"
Idle == busy = Nobody /\ ~Refused

\* A worker thread carries out a request, at any time.
Work(i) ==
  LET r == reqs[i] IN
  /\ r.stage = "queued"
  /\ \E a \in Outcomes(kernel, r) :
       /\ kernel' = a.kernel
       /\ ops' = Disturb(r, kernel, a.kernel)
       /\ reqs' = [reqs EXCEPT ![i].stage = "done",
                               ![i].answer = [err |-> a.err, n |-> a.n, bytes |-> a.bytes]]
  /\ UNCHANGED busy

\* AfterAsync, with the callback that it calls: of a request that is done when
\* JavaScript has returned, of a refused one inside the call that made it.
AfterAsync(i) ==
  LET r == reqs[i]
      o == r.op
      then == CallBack(o, ops[o], r, r.answer)
  IN /\ r.stage = "refused" \/ (r.stage = "done" /\ Idle)
     /\ then.op.tries <= MaxTries
     /\ ops' = [ops EXCEPT ![o] = then.op]
     /\ reqs' = RemoveAt(reqs, i) \o then.calls
     /\ UNCHANGED <<kernel, busy>>

-----------------------------------------------------------------------------
(* The calls of the application.                                           *)

\* The calls are numbered in the order in which they are made.
MayCall(o, kind) ==
  /\ Idle /\ kind \in Kinds /\ ops[o].kind = None
  /\ \A p \in Ops : p < o => ops[p].kind # None

Begin(o, kind, path, data) ==
  /\ MayCall(o, kind)
  /\ ops' = [ops EXCEPT ![o].kind = kind, ![o].path = path, ![o].data = data,
                        ![o].step = "open"]

DataOf(o, len) == [i \in 1..len |-> 10 * o + i]

readFile(o, path) ==
  /\ Begin(o, "readFile", path, <<>>)
  /\ FS_ASYNC([open(o, "r") EXCEPT !.path = path])
  /\ UNCHANGED <<kernel, busy>>

writeFile(o, path, len) ==
  /\ Begin(o, "writeFile", path, DataOf(o, len))
  /\ FS_ASYNC([open(o, "w") EXCEPT !.path = path])
  /\ UNCHANGED <<kernel, busy>>

\* fs.stat, and mkdir, rmdir, unlink and rename, with a callback.
plainCall(o, path) ==
  /\ Begin(o, "stat", path, <<>>)
  /\ FS_ASYNC(Request(o, "stat", "plain"))
  /\ UNCHANGED <<kernel, busy>>

\* The same without a callback, by FS_SYNC and AfterSync: they return, or throw.
plainSync(o, path, kind) ==
  /\ MayCall(o, kind)
  /\ \E a \in Outcomes(kernel, Request(o, "stat", "plain")) :
       ops' = [ops EXCEPT ![o] = callback([@ EXCEPT !.kind = kind, !.path = path], a.err, <<>>)]
  /\ UNCHANGED <<kernel, reqs, busy>>

\* The handler ReadDir looks for the callback behind the last argument, finds
\* none, and always works synchronously.
readdir(o, path) == plainSync(o, path, "readdir")

\* readFileSync and writeFileSync hold JavaScript until they return.
Sync(o, kind, path, len) ==
  /\ Begin(o, kind, path, DataOf(o, len))
  /\ busy' = o
  /\ UNCHANGED <<kernel, reqs>>

\* The system call r of theirs is answered by a, and leaves the variables c.
SyncCall(o, r, a, c) ==
  /\ kernel' = a.kernel
  /\ ops' = [Disturb(r, kernel, a.kernel) EXCEPT ![o] = c]
  /\ UNCHANGED reqs

\* openSync, which throws an error of open.
SyncOpen(o) ==
  LET c == ops[o]
      r == open(o, IF c.kind = "readFileSync" THEN "r" ELSE "w")
  IN /\ busy = o /\ c.step = "open"
     /\ \E a \in Outcomes(kernel, r) :
          /\ SyncCall(o, r, a, IF a.err THEN callback(c, TRUE, <<>>)
                               ELSE [c EXCEPT !.fd = a.n, !.step = "loop"])
          /\ busy' = IF a.err THEN Nobody ELSE o

\* The loop of readFileSync, which ends silently when a read throws.
SyncRead(o) ==
  LET c == ops[o]
      buffer(a) == a.bytes \o bufferwrap_create(Segment - a.n)
  IN /\ busy = o /\ c.step = "loop" /\ c.kind = "readFileSync"
     /\ \E a \in Outcomes(kernel, read(o, c.fd)) :
          SyncCall(o, read(o, c.fd), a,
                   IF a.err \/ a.n = 0 THEN [c EXCEPT !.step = "close", !.failed = a.err]
                   ELSE [c EXCEPT !.buffers = Append(@, slice(buffer(a), 0, a.n))])
     /\ UNCHANGED busy

\* The loop of writeFileSync, which ends silently when a write throws.
SyncWrite(o) ==
  LET c == ops[o] IN
  /\ busy = o /\ c.step = "loop" /\ c.kind = "writeFileSync"
  /\ \/ /\ WriteThrows(c)
        /\ ops' = [ops EXCEPT ![o].step = "close"]
        /\ UNCHANGED <<kernel, reqs>>
     \/ /\ ~WriteThrows(c)
        /\ \E a \in Outcomes(kernel, write(o, c)) :
             SyncCall(o, write(o, c), a,
                      [c EXCEPT !.written = @ + a.n, !.failed = a.err,
                         !.step = IF a.err \/ c.written + a.n = Len(c.data)
                                  THEN "close" ELSE "loop"])
  /\ UNCHANGED busy

\* closeSync, and the return; an error of close is thrown.
SyncClose(o) ==
  LET c == ops[o]
      r == close(o, c.fd, "closed")
  IN /\ busy = o /\ c.step = "close"
     /\ \E a \in Outcomes(kernel, r) :
          SyncCall(o, r, a, callback(c, a.err, concat(c.buffers)))
     /\ busy' = Nobody

SyncStep(o) == SyncOpen(o) \/ SyncRead(o) \/ SyncWrite(o) \/ SyncClose(o)

Next ==
  \/ \E i \in 1..Len(reqs) : Work(i) \/ AfterAsync(i)
  \/ \E o \in Ops : \E path \in PathsOf(o) :
       \/ readFile(o, path) \/ plainCall(o, path)
       \/ plainSync(o, path, "statSync") \/ readdir(o, path)
       \/ \E len \in Lengths : writeFile(o, path, len) \/ Sync(o, "writeFileSync", path, len)
       \/ Sync(o, "readFileSync", path, 0)
  \/ \E o \in Ops : SyncStep(o)

Spec == Init /\ [][Next]_fsvars

-----------------------------------------------------------------------------

\* No read and no write has failed.  The code goes on after such an error with
\* a descriptor that it has closed, which then is another call's.
NoFailure == \A o \in Ops : ~ops[o].failed

\* A call that reports success has moved the whole file: readFile and
\* readFileSync got what the file holds, and it holds what writeFile and
\* writeFileSync were given, over all lengths, short reads and writes and the
\* boundary of a segment, unless another call wrote to the file meanwhile.
TransferWhole ==
  NoFailure =>
    \A o \in Ops : (ops[o].ended > 0 /\ ~ops[o].err /\ ~ops[o].disturbed) =>
      /\ ops[o].kind \in {"readFile", "readFileSync"} => ops[o].got = ops[o].disk
      /\ ops[o].kind \in {"writeFile", "writeFileSync"} => ops[o].disk = ops[o].data

UsesOwnDescriptor ==
  /\ \A i \in 1..Len(reqs) :
       (reqs[i].stage = "queued" /\ reqs[i].call \in {"read", "write", "close"}) =>
         kernel.fds[reqs[i].fd].op = reqs[i].op
  /\ \A o \in Ops : (busy = o /\ ops[o].step \in {"loop", "close"}) =>
       kernel.fds[ops[o].fd].op = o

LeavesNothing(o) ==
  /\ \A i \in 1..Len(reqs) : reqs[i].op # o
  /\ ~ops[o].err => \A f \in Fds : kernel.fds[f].op # o

\* A request that waits for a worker, and a synchronous call, use a descriptor
\* that the same call has opened, and that nobody has closed (and perhaps
\* opened for another file) meanwhile.  A call whose reads and writes succeeded
\* calls back once; by then it has nothing underway, and has given its
\* descriptor back unless it reports an error of the close itself.
DescriptorsOwned ==
  /\ NoFailure => UsesOwnDescriptor
  /\ NoFailure => \A o \in Ops : ops[o].ended > 0 => LeavesNothing(o)
  /\ \A o \in Ops : ~ops[o].failed => ops[o].ended <= 1

\* A call is never forgotten, also after any error: until it has called back or
\* returned, a request of it is underway or it still runs.  The exception is a
\* writeFile of no data, whose exception leaves the callback of open.
NeverForgotten ==
  \A o \in Ops : (ops[o].kind # None /\ ops[o].ended = 0 /\ ~ops[o].threw) =>
    busy = o \/ \E i \in 1..Len(reqs) : reqs[i].op = o
=============================================================================
