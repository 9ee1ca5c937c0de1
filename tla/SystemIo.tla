------------------------------- MODULE SystemIo -------------------------------
(***************************************************************************)
(* What the device modules share: the requests that they hand to worker    *)
(* threads with uv_queue_work (external, libtuv), and the helpers of       *)
(* src/src/platform/iotjs_systemio-linux.c on the files that the kernel    *)
(* keeps for a pin under /sys/class.                                       *)
(*                                                                         *)
(* The threads take the requests in order, and their steps interleave with *)
(* each other and with JavaScript; the loop calls back in the order in     *)
(* which they finish.  Writing a pin to `export` makes its directory       *)
(* appear, some time later, and its files, which may stay inaccessible.    *)
(***************************************************************************)
EXTENDS Integers, SequencesExt, FiniteSets

CONSTANTS
  Pins,         \* the pins, or the objects of i2c: 1..n
  Threads,      \* the threads of the pool (4 in libtuv)
  MaxRequests,  \* bound on the requests
  CountLimit,   \* how often DeviceExport waits: 10 per file in the code
  Faulty        \* whether a system call may fail although it should not

ASSUME SystemIoAssumption ==
  /\ IsFiniteSet(Pins) /\ Pins = 1..Cardinality(Pins) /\ Threads \in Nat \ {0} /\ MaxRequests \in Nat
  /\ CountLimit \in Nat \ {0} /\ Faulty \in BOOLEAN

None == -1     \* no value
Undefined == -2
All == 0       \* in place of a pin: every pin

VARIABLES
  work,     \* the requests that wait for a thread, or that one carries out
  done,     \* those that are finished and wait for the loop
  asked,    \* the number of requests so far
  node,     \* per pin: "absent", "requested", "made" (its directory), "ready"
  attr,     \* per pin: what its files hold
  want,     \* per pin: what the calls that reported success have asked for
  raced,    \* per pin: two requests for it were underway at the same time
  aborted   \* an assertion has failed, or an exception was not caught

pool == <<work, done, asked>>
sysfs == <<node, attr>>
sysvars == <<work, done, asked, node, attr, want, raced, aborted>>

-----------------------------------------------------------------------------
(* The requests.  The reqwraps and their data are allocated with calloc,   *)
(* and 0 is the code of success.                                           *)

Request(op, pin) ==
  [op |-> op, pin |-> pin, pc |-> "queued", count |-> 0, result |-> "ok",
   x |-> None, y |-> None,   \* the arguments of the call
   rest |-> {}]              \* what a loop of the worker has still to do

Underway == work \o done
Touches(r, p) == r.pin = p \/ r.pin = All

\* The pins that r and a request that is underway are both for.
Collides(r, p) == Touches(r, p) /\ \E i \in 1..Len(Underway) : Touches(Underway[i], p)

uv_queue_work(r) ==
  /\ asked < MaxRequests
  /\ asked' = asked + 1
  /\ work' = Append(work, r)
  /\ UNCHANGED done

\* A thread may take the request at i, or goes on with it.
First(i) == \A j \in 1..(i - 1) : work[j].pc # "queued"
Free == Cardinality({j \in 1..Len(work) : work[j].pc # "queued"}) < Threads
Takes(i) == work[i].pc = "queued" /\ First(i) /\ Free

\* The worker is at pc; for the place where it begins this includes that a
\* thread takes the request.
At(i, pc) == work[i].pc = pc
Begins(i, op) == Takes(i) /\ work[i].op = op

\* The worker goes on at another place, or returns.
Continue(i, r) == work' = [work EXCEPT ![i] = r] /\ UNCHANGED <<done, asked>>
Goto(i, pc) == Continue(i, [work[i] EXCEPT !.pc = pc])
Return(i, result) ==
  /\ work' = RemoveAt(work, i)
  /\ done' = Append(done, [work[i] EXCEPT !.result = result, !.pc = "done",
                                         !.count = 0])
  /\ UNCHANGED asked
GoOn(i, pc) == IF pc = "end" THEN Return(i, "ok") ELSE Goto(i, pc)

\* The loop takes the first finished request.
Dispatch == done # <<>> /\ done' = Tail(done) /\ UNCHANGED <<work, asked>>

IOTJS_ASSERT(condition) == aborted' = (aborted \/ ~condition)

\* What the files hold when a pin is exported: those of gpio, and those of pwm.
Fresh == [dir |-> 1, value |-> 0, period |-> 0, duty |-> 0, enable |-> FALSE]

\* Nothing is known of a pin.
Unknown == [exported |-> None, dir |-> None, value |-> None,
            period |-> None, percent |-> None]

\* A call has failed, and it may have changed something, or a pin may appear
\* that nobody waits for any more.
Spoiled == [Unknown EXCEPT !.exported = Undefined]

-----------------------------------------------------------------------------
(* The helpers of iotjs_systemio-linux.c.                                  *)

DeviceCheckPath(p) == node[p] \in {"made", "ready"}

\* Whether the value was written, and whether it returns true: a write or a
\* close may fail.  A file that is not there cannot be opened.
DeviceOpenWriteClose(exists) ==
  IF exists
  THEN {[wrote |-> TRUE, ok |-> TRUE]} \cup
       (IF Faulty THEN {[wrote |-> w, ok |-> FALSE] : w \in BOOLEAN} ELSE {})
  ELSE {[wrote |-> FALSE, ok |-> FALSE]}

\* A file of a pin can be read, and its descriptor closed.
DeviceOpenReadClose(p) ==
  IF node[p] # "ready" THEN {FALSE} ELSE IF Faulty THEN BOOLEAN ELSE {TRUE}

\* The worker of request i writes, after which the kernel holds n and a, and
\* goes on at pc, or returns the error code.
WriteStep(i, exists, n, a, pc, err) ==
  \E w \in DeviceOpenWriteClose(exists) :
    /\ IF w.wrote THEN node' = n /\ attr' = a ELSE UNCHANGED sysfs
    /\ IF w.ok THEN GoOn(i, pc) ELSE Return(i, err)

\* The loop that waits for the directory.
WaitDirectory(i) ==
  LET r == work[i] IN
  IF DeviceCheckPath(r.pin) \/ r.count >= CountLimit THEN Goto(i, "files")
  ELSE Continue(i, [r EXCEPT !.count = @ + 1])

\* The loop that waits until the files can be read, and the result of both.
WaitFiles(i, pc, err) ==
  LET r == work[i] IN
  \E readable \in DeviceOpenReadClose(r.pin) :
    CASE readable \/ r.count >= CountLimit ->
           IF r.count < CountLimit THEN Continue(i, [r EXCEPT !.pc = pc, !.count = 0])
           ELSE Return(i, err)
      [] OTHER -> Continue(i, [r EXCEPT !.count = @ + 1])

\* DeviceExport in the worker of request i, which goes on at pc when it
\* returns true, and returns err otherwise.  The kernel refuses a second export.
DeviceExport(i, pc, err) ==
  LET r == work[i]
      p == r.pin
  IN \/ /\ r.pc = "check"
        /\ Goto(i, IF DeviceCheckPath(p) THEN pc ELSE "export")
        /\ UNCHANGED sysfs
     \/ /\ r.pc = "export"
        /\ WriteStep(i, node[p] = "absent", [node EXCEPT ![p] = "requested"],
                     [attr EXCEPT ![p] = Fresh], "directory", err)
     \/ /\ r.pc = "directory" /\ WaitDirectory(i) /\ UNCHANGED sysfs
     \/ /\ r.pc = "files" /\ WaitFiles(i, pc, err) /\ UNCHANGED sysfs

\* DeviceUnexport, and UnexportPin of gpio: the kernel refuses a pin that is
\* not exported.
DeviceUnexport(p) == DeviceOpenWriteClose(node[p] # "absent")
Unexported(p) == [node EXCEPT ![p] = "absent"]

\* The kernel (external): what was exported appears, in two steps.
Appear(p) ==
  /\ \/ node[p] = "requested" /\ node' = [node EXCEPT ![p] = "made"]
     \/ node[p] = "made" /\ node' = [node EXCEPT ![p] = "ready"]
  /\ UNCHANGED <<work, done, asked, attr, want, raced, aborted>>

-----------------------------------------------------------------------------

\* Nothing is underway for the pin, and never were two requests at once.
Settled(p) == ~raced[p] /\ \A i \in 1..Len(Underway) : ~Touches(Underway[i], p)

SysInit ==
  /\ work = <<>> /\ done = <<>> /\ asked = 0
  /\ node = [p \in Pins |-> "absent"]
  /\ attr = [p \in Pins |-> Fresh]
  /\ want = [p \in Pins |-> Unknown]
  /\ raced = [p \in Pins |-> FALSE]
  /\ aborted = FALSE
=============================================================================
