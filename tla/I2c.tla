--------------------------------- MODULE I2c ----------------------------------
(***************************************************************************)
(* The i2c module: src/src/js/i2c.js, src/src/module/iotjs_module_i2c.c    *)
(* and the workers for Linux in                                            *)
(* src/src/platform/iotjs_module_i2c-linux-general.inl.h.                  *)
(*                                                                         *)
(* All objects share one descriptor, the global `fd`, and one slave        *)
(* address: every call sets the address in JavaScript's thread and leaves  *)
(* the transfer to a worker, which uses whatever the two are by then.      *)
(* close() keeps the number in `fd`, which the kernel may give to a file   *)
(* of another part of the process.  The objects are the elements of Pins.  *)
(***************************************************************************)
EXTENDS SystemIo

CONSTANTS
  Buses,        \* the devices /dev/i2c-N, as numbers
  Present,      \* the addresses at which a slave answers, on every bus
  Addresses,    \* the numbers that objects get as addresses
  MaxAddress,   \* I2C_MAX_ADDRESS, beyond which the kernel refuses one: 128 in the code
  AddrModulus,  \* an address is passed in a uint8_t: 256 in the code
  MaxFiles,     \* how many descriptors the process may have
  Lengths,      \* the lengths of transfers
  BlockMax,     \* I2C_SMBUS_BLOCK_MAX: 32 in the code
  LenModulus    \* the length is kept in a uint8_t: 256 in the code

ASSUME I2cAssumption ==
  /\ Buses \subseteq Nat /\ Lengths \subseteq Nat /\ Addresses \subseteq Nat
  /\ MaxAddress \in Nat \ {0} /\ AddrModulus \in Nat \ {0} /\ MaxAddress <= AddrModulus
  /\ Present \subseteq 0..(MaxAddress - 1) /\ MaxFiles \in Nat \ {0}
  /\ BlockMax \in Nat /\ LenModulus \in Nat \ {0}

VARIABLE i2c

\* The descriptors of the process.  Number 0, the standard input, is never closed.
Numbers == 0..(MaxFiles - 1)
NoFile == [kind |-> "free", bus |-> None, slave |-> None]
OtherFile == [kind |-> "other", bus |-> None, slave |-> None]
BusFile(bus) == [kind |-> "bus", bus |-> bus, slave |-> 0]

\* The globals fd and addr, of which fd starts as 0; the table of the descriptors, and
\* those numbers that other parts of the process have opened; and the objects with
\* their buses and addresses.  stale: close() was called since the last open(), or
\* there was none; again: it was called a second time.
I2cInit ==
  i2c = [fd |-> 0, addr |-> 0,
         files |-> [n \in Numbers |-> IF n = 0 THEN OtherFile ELSE NoFile],
         others |-> {}, stale |-> TRUE, again |-> FALSE,
         state |-> [o \in Pins |-> "none"], bus |-> [o \in Pins |-> None],
         address |-> [o \in Pins |-> None]]

\* fd is the descriptor of a bus, or of another file.
Opened(k) == k.fd \in Numbers /\ k.files[k.fd].kind = "bus"
Mistaken(k) == k.fd \in Numbers /\ k.files[k.fd].kind = "other"

\* ioctl(fd, I2C_SLAVE_FORCE, address), the result of which nobody looks at: the kernel
\* refuses an address that is too large, and a file that is no bus does not know it.
Addressable(address) == address < MaxAddress
Slave(k, address) ==
  IF Opened(k) /\ Addressable(address) THEN [k EXCEPT !.files[k.fd].slave = address] ELSE k

\* I2cSetAddress, with the conversion of its argument.
uint8(address) == address % AddrModulus
I2cSetAddress(k, address) == Slave([k EXCEPT !.addr = uint8(address)], uint8(address))

\* The new descriptor gets the lowest number that is free.
Lowest(k, n) == /\ n \in Numbers /\ k.files[n].kind = "free"
                /\ \A m \in 0..(n - 1) : k.files[m].kind # "free"

-----------------------------------------------------------------------------
(* The calls.                                                              *)

Transfers == {"write", "writeByte", "writeBlock", "read", "readByte", "readBlock", "stream"}

\* The length of a transfer is kept in a uint8_t (GetI2cArray).
buf_len(len) == len % LenModulus

\* len is what the call asks for, buf_len what the request keeps of it; bus,
\* slave and moved say what the worker did.
I2cRequest(op, o, len) ==
  [op |-> op, pin |-> o, pc |-> "queued", count |-> 0, result |-> "ok",
   len |-> len, buf_len |-> buf_len(len), bus |-> None, slave |-> None, moved |-> 0,
   rest |-> {}]

\* Two requests disturb each other unless they are transfers of one object; and
\* a transfer of an object that is not open yet, or after close(), is disturbed in any
\* case.
Disturbs(q, r) == q.pin # r.pin \/ {q.op, r.op} \cap {"open", "scan"} # {}
NowRaced(r) ==
  [p \in Pins |->
     \/ raced[p]
     \/ p = r.pin /\ r.op # "open" /\ (i2c.state[p] # "open" \/ i2c.stale)
     \/ \E i \in 1..Len(Underway) :
          Disturbs(Underway[i], r) /\ (p = r.pin \/ p = Underway[i].pin)]

\* close() and setAddress() disturb all that is underway.
NowDisturbed == [p \in Pins |-> raced[p] \/ \E i \in 1..Len(Underway) : Underway[i].pin = p]

I2C_ASYNC(r) == uv_queue_work(r) /\ raced' = NowRaced(r)

\* new I2C(address, options).  The objects are made in the order of their numbers.
i2cOpen(o, bus, address) ==
  /\ i2c.state[o] = "none" /\ \A p \in 1..(o - 1) : i2c.state[p] # "none"
  /\ i2c' = [i2c EXCEPT !.state[o] = "opening", !.bus[o] = bus, !.address[o] = address]
  /\ I2C_ASYNC(I2cRequest("open", o, 0))
  /\ UNCHANGED <<node, attr, want, aborted>>

\* Mutant: the address is not set before a transfer.
i2cTransfer_NoAddress(o, op, len) ==
  /\ i2c.state[o] # "none"
  /\ I2C_ASYNC(I2cRequest(op, o, len))
  /\ UNCHANGED <<node, attr, want, aborted, i2c>>

\* write, writeByte, writeBytes, read, readByte, readBytes and stream.
i2cTransfer(o, op, len) ==
  /\ i2c.state[o] # "none"
  /\ i2c' = I2cSetAddress(i2c, i2c.address[o])
  /\ I2C_ASYNC(I2cRequest(op, o, len))
  /\ UNCHANGED <<node, attr, want, aborted>>

i2cScan(o) ==
  /\ i2c.state[o] # "none"
  /\ I2C_ASYNC(I2cRequest("scan", o, 0))
  /\ UNCHANGED <<node, attr, want, aborted, i2c>>

\* The bound on the requests also bounds the calls of setAddress and the files of others.
Counted == asked < MaxRequests /\ asked' = asked + 1

\* setAddress(address), which users may also call.
i2cSetAddress(o, address) ==
  /\ i2c.state[o] # "none" /\ Counted
  /\ i2c' = [I2cSetAddress(i2c, address) EXCEPT !.address[o] = address]
  /\ raced' = NowDisturbed
  /\ UNCHANGED <<work, done, node, attr, want, aborted>>

\* close() of any object closes the descriptor of all, and keeps its number: the next
\* close() closes what that number stands for by then.
I2cClose ==
  /\ i2c.fd > 0
  /\ i2c' = [i2c EXCEPT !.files[i2c.fd] = NoFile, !.stale = TRUE, !.again = @ \/ i2c.stale]
  /\ raced' = NowDisturbed
  /\ UNCHANGED <<pool, node, attr, want, aborted>>

\* Another part of the process opens a file, or closes the number of one of its files.
Elsewhere ==
  /\ \/ \E n \in Numbers :
          /\ Lowest(i2c, n) /\ Counted
          /\ i2c' = [i2c EXCEPT !.files[n] = OtherFile, !.others = @ \cup {n}]
     \/ \E n \in i2c.others :
          /\ i2c' = [i2c EXCEPT !.files[n] = NoFile, !.others = @ \ {n}]
          /\ UNCHANGED asked
  /\ UNCHANGED <<work, done, sysfs, want, raced, aborted>>

-----------------------------------------------------------------------------
(* The workers.                                                            *)

\* Without a free number, open() fails.
OpenWorker(i) ==
  LET r == work[i] IN
  /\ Begins(i, "open")
  /\ \/ \E n \in Numbers :
          /\ Lowest(i2c, n)
          /\ i2c' = [i2c EXCEPT !.files[n] = BusFile(i2c.bus[r.pin]), !.fd = n, !.stale = FALSE]
          /\ Return(i, "ok")
     \/ /\ Faulty \/ ~\E n \in Numbers : Lowest(i2c, n)
        /\ i2c' = [i2c EXCEPT !.fd = -1]
        /\ Return(i, "open")

\* The slave that is selected is there.
Answered(k) == Opened(k) /\ k.files[k.fd].slave \in Present

\* The slave is selected and probed, one after the other, and at the end the
\* address is what the global says; an error only means that nobody answers.
ScanWorker(i) ==
  LET r == work[i] IN
  \/ /\ Begins(i, "scan") \/ (At(i, "scan") /\ r.count < MaxAddress)
     /\ i2c' = Slave(i2c, r.count) /\ Goto(i, "probe")
  \/ /\ At(i, "probe")
     /\ \E answers \in {TRUE, ~Faulty} :
          Continue(i, [r EXCEPT !.pc = "scan", !.count = @ + 1, !.rest =
            IF answers /\ Answered(i2c) THEN @ \cup {r.count} ELSE @])
     /\ UNCHANGED i2c
  \/ /\ At(i, "scan") /\ ~(r.count < MaxAddress)
     /\ i2c' = Slave(i2c, i2c.addr) /\ Return(i, "ok")

\* The bytes that a transfer of n bytes may move, by ioctl or by read and write; -1 is an
\* error.  Any file can be read and written, but only a bus knows the ioctl.
Moved(k, n) == IF ~Answered(k) THEN {-1} ELSE IF Faulty THEN -1..n ELSE {n}
RawMoved(k, n) == IF Mistaken(k) THEN -1..n ELSE Moved(k, n)
Clamped(n) == IF n > BlockMax THEN BlockMax ELSE n

\* A request whose system call, of all or nothing or of bytes, was made.
Transferred(i, n, err) ==
  LET k == i2c
      r == work[i]
  IN /\ work' = RemoveAt(work, i)
     /\ done' = Append(done,
          [r EXCEPT !.pc = "done", !.moved = n, !.result = err,
                    !.bus = IF Opened(k) THEN k.files[k.fd].bus ELSE None,
                    !.slave = IF Opened(k) THEN k.files[k.fd].slave ELSE None])
     /\ UNCHANGED <<asked, i2c>>

WriteWorker(i) ==
  /\ Begins(i, "write")
  /\ \E n \in RawMoved(i2c, work[i].buf_len) :
       Transferred(i, n, IF n # work[i].buf_len THEN "write" ELSE "ok")

WriteByteWorker(i) ==
  /\ Begins(i, "writeByte")
  /\ \E n \in Moved(i2c, 1) \ {0} : Transferred(i, n, IF n = -1 THEN "write" ELSE "ok")

\* I2cSmbusWriteI2cBlockData sends no more than a block, all of it or nothing.
WriteBlockWorker(i) ==
  LET len == Clamped(work[i].buf_len) IN
  /\ Begins(i, "writeBlock")
  /\ \E n \in Moved(i2c, len) \cap {-1, len} :
       Transferred(i, n, IF n = -1 THEN "write" ELSE "ok")

ReadWorker(i) ==
  /\ Begins(i, "read")
  /\ \E n \in RawMoved(i2c, work[i].buf_len) :
       Transferred(i, n, IF n # work[i].buf_len THEN "read" ELSE "ok")

ReadByteWorker(i) ==
  /\ Begins(i, "readByte")
  /\ \E n \in Moved(i2c, 1) \ {0} : Transferred(i, n, IF n = -1 THEN "read" ELSE "ok")

\* I2cSmbusReadI2cBlockData asks for no more than a block.
ReadBlockWorker(i) ==
  /\ Begins(i, "readBlock") \/ Begins(i, "stream")
  /\ \E n \in Moved(i2c, Clamped(work[i].buf_len)) :
       Transferred(i, n, IF n # work[i].buf_len THEN "readBlock" ELSE "ok")

I2cWorker(i) ==
  /\ \/ OpenWorker(i) \/ ScanWorker(i)
     \/ WriteWorker(i) \/ WriteByteWorker(i) \/ WriteBlockWorker(i)
     \/ ReadWorker(i) \/ ReadByteWorker(i) \/ ReadBlockWorker(i)
  /\ UNCHANGED <<node, attr, want, raced, aborted>>

-----------------------------------------------------------------------------

\* AfterI2CWork with the ticks of the callback, which run before it returns:
\* after open the address is set, or the error is thrown; stream() calls
\* itself again.
AfterI2CWork ==
  LET r == Head(done)
      again == r.op = "stream" /\ r.result = "ok" /\ asked < MaxRequests
      next == I2cRequest("stream", r.pin, r.len)
  IN /\ done # <<>>
     /\ IF again
        THEN /\ work' = Append(work, next) /\ done' = Tail(done) /\ asked' = asked + 1
             /\ raced' = NowRaced(next)
        ELSE Dispatch /\ UNCHANGED raced
     /\ i2c' = CASE r.op = "open" /\ r.result = "ok" ->
                      I2cSetAddress([i2c EXCEPT !.state[r.pin] = "open"], i2c.address[r.pin])
                 [] r.op # "open" /\ again -> I2cSetAddress(i2c, i2c.address[r.pin])
                 [] OTHER -> i2c
     /\ aborted' = (aborted \/ (r.op = "open" /\ r.result # "ok"))
     /\ UNCHANGED <<node, attr, want>>

I2cNext ==
  \/ \E o \in Pins :
       \/ \E bus \in Buses, address \in Addresses : i2cOpen(o, bus, address)
       \/ \E address \in Addresses : i2cSetAddress(o, address)
       \/ \E op \in {"writeByte", "readByte"} : i2cTransfer(o, op, 1)
       \/ \E op \in Transfers \ {"writeByte", "readByte"}, len \in Lengths : i2cTransfer(o, op, len)
       \/ i2cScan(o)
  \/ I2cClose \/ Elsewhere
  \/ \E i \in 1..Len(work) : I2cWorker(i)
  \/ AfterI2CWork

-----------------------------------------------------------------------------

OneBus == Cardinality({i2c.bus[o] : o \in Pins} \ {None}) <= 1

\* A transfer that reports success has moved as many bytes as it was asked for,
\* up to 255, or the 32 of a block that is written, to or from the device of its
\* object on the object's bus, and a scan finds slaves that are there, unless another
\* object's call, a scan, an opening, close() or setAddress() overlapped it, or it was
\* called before the opening or after close(), or
\*   - the objects are not all on one bus,
\*   - the address is none that the kernel takes: the refusal is not looked at
\*     (i2c-linux:173), the last slave stays selected, or, above 255, another is,
\*   - close() was called on what it had closed already, see below.
I2cTruth ==
  \A i \in 1..Len(done) :
    LET r == done[i]
        address == i2c.address[r.pin]
    IN (r.result = "ok" /\ ~raced[r.pin]) =>
         /\ (r.op \in Transfers /\ ~i2c.again) =>
              /\ OneBus => r.bus = i2c.bus[r.pin]
              /\ Addressable(address) => r.slave = address
         /\ (r.op \in Transfers /\ r.len < LenModulus
             /\ (r.op = "writeBlock" => r.len <= BlockMax)) => r.moved = r.len
         /\ r.op = "scan" => r.rest \subseteq Present

\* What other parts of the process have opened stays theirs; unless close() is called
\* a second time, which closes the number again (i2c-linux:225-229), although it may
\* be the number of one of their files by then.
OthersKeepFiles == ~i2c.again => \A n \in i2c.others : i2c.files[n] = OtherFile
=============================================================================
