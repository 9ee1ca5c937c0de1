------------------------------ MODULE DevicesProofs ------------------------------
(***************************************************************************)
(* Proofs about gpio, i2c and pwm, for any number of pins, threads and     *)
(* requests, and whichever system calls fail.                              *)
(*                                                                         *)
(* The requests that wait, run and are finished are one list, Underway,    *)
(* which a step changes by one request (Evolves).  As long as nothing has  *)
(* overlapped at a pin there is at most one request for it, and the place  *)
(* of its worker says what the files of the pin are (GpioKnows, PwmKnows); *)
(* without one they are what the calls that reported success have asked    *)
(* for (GpioAtRest, PwmAtRest).  For i2c, two requests that disturb each   *)
(* other both know it; as long as a transfer does not, the one descriptor  *)
(* of all objects is set to its slave, or closed (Alone).                  *)
(***************************************************************************)
EXTENDS Devices, SequenceTheorems, FiniteSetTheorems, TLAPS

\* The requests of gpio and of pwm.
RequestRecord ==
  [op : {"initialize", "release", "open", "write", "read",
         "export", "setPeriod", "setFrequency", "setDutyCycle", "setEnable", "unexport"},
   pin : Int,
   pc : {"queued", "check", "export", "directory", "files", "direction", "mode", "unexport",
         "period", "duty", "done"},
   count : Nat, result : {"ok", "sys", "initialize", "write", "export"},
   x : Int, y : Int, rest : SUBSET Pins]

\* What a pin's files hold, what is known of it, and the options of its PWM object.
AttrRecord == [dir : Int, value : Int, period : Int, duty : Int, enable : BOOLEAN]
WantRecord == [exported : Int, dir : Int, value : Int, period : Int, percent : Int]
OptionsRecord == [made : BOOLEAN, period : Int, dutyCycle : Int]

\* The types of the variables, but for the requests.
Nodes == {"absent", "requested", "made", "ready"}
SysType ==
  /\ node \in [Pins -> Nodes]
  /\ attr \in [Pins -> AttrRecord] /\ want \in [Pins -> WantRecord]
  /\ raced \in [Pins -> BOOLEAN] /\ aborted \in BOOLEAN
  /\ pwm \in [Pins -> OptionsRecord]
  /\ gpio \in [initializing : BOOLEAN, initialized : BOOLEAN, native : BOOLEAN,
               overlapped : BOOLEAN, badMode : BOOLEAN]

\* gpio: a pin for which nothing is underway.
GpioAtRest(n, a, w) ==
  w # Spoiled =>
    /\ n \in {"absent", "ready"}
    /\ w.exported = 0 => n = "absent"
    /\ w.exported = 1 => n = "ready" /\ a.dir = w.dir
    /\ w.value # None => a.value = w.value /\ a.dir = kGpioDirectionOut

\* gpio: a pin for which the request r alone is underway.
GpioKnows(p, n, a, w, r) ==
  /\ r.pc = "queued" => GpioAtRest(n, a, w)
  /\ r.pc = "unexport" /\ r.result = "ok" /\ w # Spoiled /\ p \notin r.rest => n = "absent"
  /\ r.pc = "mode" => /\ n = "ready" /\ a.dir = r.x
                      /\ r.x = kGpioDirectionOut => a.value = 0
  /\ r.pc = "done" => /\ GpioAtRest(n, a, gpioLearn(r, w))
                      /\ r.op = "read" /\ r.result = "ok" /\ w.value # None => r.x = w.value

\* pwm: what the device has of that which is known of it.
PwmDevice(n, a, w) ==
  w # Spoiled =>
    /\ w.exported = 1 => n = "ready"
    /\ w.period # None => a.period = w.period
    /\ w.percent # None /\ w.period # None /\ Fits(w.percent, a.period) =>
         a.duty = (w.percent * a.period) \div 100

\* pwm: the options have the period that is known.
PwmTied(w, o) == w # Spoiled /\ w.period # None => o.period = w.period /\ w.period >= 0

\* pwm: a pin for which nothing is underway.
PwmAtRest(n, a, w, o) ==
  /\ ~o.made => n = "absent" /\ w = Unknown
  /\ PwmDevice(n, a, w) /\ PwmTied(w, o)

\* pwm: a pin for which the request r alone is underway.
PwmKnows(n, a, w, o, r) ==
  /\ o.made
  /\ r.op = "export" /\ r.pc # "done" => w = Unknown
  /\ r.op = "export" /\ r.pc \in {"queued", "check", "export"} => n = "absent"
  /\ r.op = "export" /\ r.pc \in {"queued", "check", "export", "directory", "files", "period"} =>
       r.x \in {o.period, 0}
  /\ r.pc \in {"period", "duty"} => n = "ready"
  /\ r.pc = "duty" /\ r.x >= 0 => a.period = r.x /\ r.x = o.period
  /\ r.op = "setPeriod" /\ r.pc = "queued" => PwmDevice(n, a, w) /\ r.x = o.period /\ r.x >= 0
  /\ r.op \in {"setDutyCycle", "setEnable", "unexport"} /\ r.pc = "queued" =>
       PwmDevice(n, a, w) /\ PwmTied(w, o)
  /\ r.op = "setDutyCycle" /\ r.pc = "queued" => r.x = o.period /\ r.y >= 0
  /\ r.pc = "done" /\ r.op # "setFrequency" => PwmAtRest(n, a, pwmLearn(r, w), o)

AtRest(m, n, a, w, o) ==
  IF m = "gpio" THEN GpioAtRest(n, a, w) ELSE PwmAtRest(n, a, w, o)
Knows(m, p, n, a, w, o, r) ==
  IF m = "gpio" THEN GpioKnows(p, n, a, w, r) ELSE PwmKnows(n, a, w, o, r)

\* The two, of the state.
RestOf(p) == AtRest(module, node[p], attr[p], want[p], pwm[p])
KnowsOf(p, r) == Knows(module, p, node[p], attr[p], want[p], pwm[p], r)

\* No two requests that are underway are for the same pin unless it says so; as
\* long as it does not, the request for a pin, or that there is none, says how it is.
PinInv ==
  /\ \A i, j \in 1..Len(Underway), p \in Pins :
       Touches(Underway[i], p) /\ Touches(Underway[j], p) /\ i # j => raced[p]
  /\ \A i \in 1..Len(Underway), p \in Pins :
       Touches(Underway[i], p) /\ ~raced[p] => KnowsOf(p, Underway[i])
  /\ \A p \in Pins : Settled(p) => RestOf(p)

\* The places of gpio's workers.
GpioPlace(r) ==
  /\ r.op \in {"initialize", "release", "open", "write", "read"}
  /\ r.pin \in IF r.op \in {"initialize", "release"} THEN {All} ELSE Pins
  /\ r.op = "open" => r.pc \in {"queued", "check", "export", "directory", "files",
                                "direction", "mode", "done"}
  /\ r.op = "release" => r.pc \in {"queued", "unexport", "done"}
  /\ r.op \in {"initialize", "write", "read"} => r.pc \in {"queued", "done"}
  /\ r.pc \in {"check", "export", "directory", "files", "direction", "mode"} =>
       r.x # kGpioDirectionNone
  /\ r.op = "open" => r.x \in kGpioDirectionNone..kGpioDirectionOut

\* The places of pwm's workers.
PwmPlace(r) ==
  /\ r.op \in {"export", "setPeriod", "setFrequency", "setDutyCycle", "setEnable", "unexport"}
  /\ r.pin \in Pins
  /\ r.op = "export" => r.pc \in {"queued", "check", "export", "directory", "files",
                                  "period", "duty", "done"}
  /\ r.op # "export" => r.pc \in {"queued", "done"}

\* The requests that wait or are carried out, and those that are finished.
Lists(S) ==
  /\ work \in Seq(S) /\ done \in Seq(S)
  /\ \A i \in 1..Len(work) : work[i].pc # "done"
  /\ \A i \in 1..Len(done) : done[i].pc = "done"
Requests == Lists(RequestRecord)

\* gpio: the flags and the requests.  initialize() is alone, and so is release()
\* unless a call overlapped it.
GpioFlags ==
  /\ gpio.native = gpio.initialized
  /\ gpio.initialized => gpio.initializing
  /\ ~gpio.initializing => Len(Underway) = 0
  /\ \A i \in 1..Len(Underway) :
       LET r == Underway[i] IN
       /\ r.op = "initialize" => ~gpio.native /\ Len(Underway) = 1
       /\ r.op # "initialize" /\ ~gpio.overlapped => gpio.native
       /\ r.op = "release" /\ ~gpio.overlapped => Len(Underway) = 1
       /\ r.op = "open" /\ r.x # kGpioDirectionNone
          /\ r.y \in {kGpioModeNone, kGpioModeOpendrain} => gpio.badMode

GpioInv ==
  /\ SysType /\ Requests /\ GpioFlags /\ GpioAsserts /\ PinInv
  /\ \A i \in 1..Len(Underway) : GpioPlace(Underway[i])

PwmInv ==
  /\ SysType /\ Requests /\ PinInv
  /\ \A i \in 1..Len(Underway) : PwmPlace(Underway[i])
  /\ \A i \in 1..Len(done) : done[i].op = "setFrequency" => aborted
  /\ \A p \in Pins : attr[p].duty <= attr[p].period

-----------------------------------------------------------------------------
\* i2c

\* The requests of i2c.
TransferRecord ==
  [op : Transfers \cup {"open", "scan"}, pin : Pins, pc : {"queued", "probe", "scan", "done"},
   count : Nat, result : {"ok", "open", "write", "read", "readBlock"}, len : Nat, buf_len : Nat,
   bus : Int, slave : Int, moved : Int, rest : SUBSET Nat]

\* With k for i2c: the buses that objects were made for; that the slave of the open
\* descriptor is s, or, if that is possible, the one of object p.
BusesUsed(k) == {k.bus[o] : o \in Pins} \ {None}
Selects(k, s) == Opened(k) => k.files[k.fd].slave = s
Addressed(k, p) == Addressable(k.address[p]) => Selects(k, k.address[p])

FileRecord == [kind : {"free", "other", "bus"}, bus : Int, slave : Int]
I2cRecord ==
  [fd : Numbers \cup {-1}, addr : Nat, files : [Numbers -> FileRecord],
   others : SUBSET Numbers, stale : BOOLEAN, again : BOOLEAN,
   state : [Pins -> {"none", "opening", "open"}], bus : [Pins -> Nat \cup {None}],
   address : [Pins -> Nat \cup {None}]]

\* As long as no close() was one too many, the files of others are theirs, and fd is a
\* bus, or nothing after an open() that failed, until it is closed.
FilesApart(k) ==
  ~k.again =>
    /\ \A n \in k.others : k.files[n] = OtherFile
    /\ ~k.stale => k.fd = -1 \/ k.files[k.fd].kind = "bus"
BusType(k) ==
  /\ k \in I2cRecord
  /\ \A o \in Pins : k.state[o] = "none" <=> k.bus[o] = None
  /\ \A o \in Pins : k.state[o] # "none" => k.address[o] \in Nat
  /\ \A n \in Numbers : k.files[n].kind = "bus" => k.files[n].bus \in BusesUsed(k)
  /\ FilesApart(k)
I2cType ==
  /\ raced \in [Pins -> BOOLEAN] /\ aborted \in BOOLEAN /\ Lists(TransferRecord)
  /\ BusType(i2c)

\* What the worker of a transfer that reports success did; m is raced.
Success(k, m, r) ==
  /\ ~m[r.pin] /\ ~k.again =>
       /\ r.bus \in BusesUsed(k)
       /\ Addressable(k.address[r.pin]) => r.slave = k.address[r.pin]
  /\ r.op = "writeBlock" => r.moved = Clamped(r.buf_len)
  /\ r.op \in {"writeByte", "readByte"} => r.moved = 1
  /\ r.op \in Transfers \ {"writeBlock", "writeByte", "readByte"} => r.moved = r.buf_len

\* A request for itself: as long as nothing disturbs it the descriptor is set to its
\* slave.
Alone(k, m, r) ==
  /\ k.state[r.pin] # "none"
  /\ r.buf_len = buf_len(r.len)
  /\ r.op \in {"writeByte", "readByte"} => r.len = 1
  /\ r.pc \in {"probe", "scan"} => r.op = "scan"
  /\ r.pc = "queued" => r.count = 0
  /\ ~m[r.pin] =>
       /\ r.op \in Transfers => ~k.stale /\ Addressed(k, r.pin)
       /\ r.pc = "probe" => Selects(k, r.count)
       /\ r.rest \subseteq Present
  /\ r.pc = "done" /\ r.result = "ok" /\ r.op \in Transfers => Success(k, m, r)

\* Requests that disturb each other are known to.
I2cRequests ==
  /\ \A i \in 1..Len(Underway) : Alone(i2c, raced, Underway[i])
  /\ \A i, j \in 1..Len(Underway) :
       i # j /\ Disturbs(Underway[i], Underway[j]) =>
         raced[Underway[i].pin] /\ raced[Underway[j].pin]

I2cInv == I2cType /\ I2cRequests

DevicesInv ==
  /\ module \in {"gpio", "i2c", "pwm"}
  /\ module = "gpio" => GpioInv
  /\ module = "pwm" => PwmInv
  /\ module = "i2c" => I2cInv
-----------------------------------------------------------------------------
(* The requests that are underway, as one list.                            *)

\* The requests U become V: the one at y is gone, and at most one of R is new.
Evolves(U, V, y, R) ==
  \E f \in [1..Len(V) -> 0..Len(U)] :
    /\ \A k \in 1..Len(V) : f[k] # y
    /\ \A k \in 1..Len(V) : IF f[k] = 0 THEN V[k] \in R ELSE V[k] = U[f[k]]
    /\ \A k, l \in 1..Len(V) : f[k] = f[l] => k = l
    /\ \A j \in 1..Len(U) : j # y => \E k \in 1..Len(V) : f[k] = j
    /\ R # {} => \E k \in 1..Len(V) : f[k] = 0

\* u is the list q followed by the list d.
Joined(q, d, u) ==
  /\ Len(u) = Len(q) + Len(d)
  /\ \A k \in 1..Len(q) : u[k] = q[k]
  /\ \A k \in 1..Len(d) : u[Len(q) + k] = d[k]
  /\ \A k \in (Len(q) + 1)..Len(u) : u[k] = d[k - Len(q)] /\ k - Len(q) \in 1..Len(d)

\* What concatenation makes.
LEMMA ListOf ==
  ASSUME NEW S, NEW q \in Seq(S), NEW d \in Seq(S)
  PROVE  q \o d \in Seq(S) /\ Joined(q, d, q \o d)
<1> DEFINE u == q \o d
<1>1. /\ u \in Seq(S) /\ Len(u) = Len(q) + Len(d)
      /\ \A k \in 1..(Len(q) + Len(d)) : u[k] = IF k <= Len(q) THEN q[k] ELSE d[k - Len(q)]
  BY ConcatProperties
<1> HIDE DEF u
<1>2. Len(q) \in Nat /\ Len(d) \in Nat OBVIOUS
<1>3. ASSUME NEW k \in 1..Len(q) PROVE u[k] = q[k]
  <2>1. k \in 1..(Len(q) + Len(d)) /\ k <= Len(q) BY <1>2
  <2> QED BY <1>1, <2>1
<1>4. ASSUME NEW k \in (Len(q) + 1)..Len(u) PROVE u[k] = d[k - Len(q)] /\ k - Len(q) \in 1..Len(d)
  <2>1. k \in 1..(Len(q) + Len(d)) /\ ~(k <= Len(q)) /\ k - Len(q) \in 1..Len(d) BY <1>1, <1>2
  <2> QED BY <1>1, <2>1
<1>5. ASSUME NEW k \in 1..Len(d) PROVE u[Len(q) + k] = d[k]
  <2>1. Len(q) + k \in (Len(q) + 1)..Len(u) /\ Len(q) + k - Len(q) = k BY <1>1, <1>2
  <2> QED BY <1>4, <2>1
<1>6. Joined(q, d, u) BY <1>1, <1>3, <1>4, <1>5 DEF Joined
<1> QED BY <1>1, <1>6 DEF u

\* A request is queued.
LEMMA AppendEvolves ==
  ASSUME NEW S, NEW q \in Seq(S), NEW d \in Seq(S), NEW r \in S
  PROVE  Evolves(q \o d, Append(q, r) \o d, Len(q \o d) + 1, {r})
<1> DEFINE b == Append(q, r)
           U == q \o d
           V == b \o d
           f == [k \in 1..Len(V) |-> IF k <= Len(q) THEN k ELSE IF k = Len(q) + 1 THEN 0 ELSE k - 1]
<1>1. Len(q) \in Nat /\ Len(d) \in Nat OBVIOUS
<1>2. /\ b \in Seq(S) /\ Len(b) = Len(q) + 1 /\ b[Len(q) + 1] = r
      /\ \A k \in 1..Len(q) : b[k] = q[k]
  OBVIOUS
<1>3. Joined(q, d, U) BY ListOf
<1> HIDE DEF b
<1>4. Joined(b, d, V) BY <1>2, ListOf
<1> HIDE DEF U, V
<1>5. f \in [1..Len(V) -> 0..Len(U)] BY <1>1, <1>2, <1>3, <1>4 DEF Joined
<1>6. \A k \in 1..Len(V) : f[k] = IF k <= Len(q) THEN k ELSE IF k = Len(q) + 1 THEN 0 ELSE k - 1
  OBVIOUS
<1> HIDE DEF f
<1>7. \A k \in 1..Len(V) : f[k] # Len(U) + 1 BY <1>1, <1>3, <1>5 DEF Joined
<1>8. ASSUME NEW k \in 1..Len(V) PROVE IF f[k] = 0 THEN V[k] \in {r} ELSE V[k] = U[f[k]]
  <2>1. CASE k <= Len(q)
    <3>1. k \in 1..Len(q) /\ k \in 1..Len(b) /\ k # 0 BY <1>1, <1>2, <2>1
    <3> QED BY <1>2, <1>3, <1>4, <1>6, <2>1, <3>1 DEF Joined
  <2>2. CASE k = Len(q) + 1
    <3>1. k \in 1..Len(b) /\ ~(k <= Len(q)) BY <1>1, <1>2, <2>2
    <3> QED BY <1>2, <1>4, <1>6, <2>2, <3>1 DEF Joined
  <2>3. CASE k > Len(q) + 1
    <3>1. k \in Nat /\ k <= Len(q) + 1 + Len(d) /\ f[k] = k - 1 BY <1>1, <1>2, <1>4, <1>6, <2>3 DEF Joined
    <3> DEFINE m == k - Len(b)
    <3>2. m \in 1..Len(d) /\ k = Len(b) + m /\ f[k] = Len(q) + m /\ f[k] # 0
      BY <1>1, <1>2, <2>3, <3>1
    <3> HIDE DEF m
    <3> QED BY <1>3, <1>4, <3>2 DEF Joined
  <2> QED BY <1>1, <2>1, <2>2, <2>3
<1>9. \A k, l \in 1..Len(V) : f[k] = f[l] => k = l BY <1>1, <1>6
<1>10. ASSUME NEW j \in 1..Len(U) PROVE \E k \in 1..Len(V) : f[k] = j
  <2>1. CASE j <= Len(q)
    <3>1. j \in 1..Len(V) BY <1>1, <1>2, <1>3, <1>4 DEF Joined
    <3> QED BY <1>6, <2>1, <3>1
  <2>2. CASE ~(j <= Len(q))
    <3>1. j + 1 \in 1..Len(V) /\ ~(j + 1 <= Len(q)) /\ j + 1 # Len(q) + 1 /\ j + 1 - 1 = j
      BY <1>1, <1>2, <1>3, <1>4, <2>2 DEF Joined
    <3> QED BY <1>6, <3>1
  <2> QED BY <2>1, <2>2
<1>11. Len(q) + 1 \in 1..Len(V) /\ f[Len(q) + 1] = 0
  <2>1. Len(q) + 1 \in 1..Len(V) /\ ~(Len(q) + 1 <= Len(q)) BY <1>1, <1>2, <1>4 DEF Joined
  <2> QED BY <1>6, <2>1
<1>12. Evolves(U, V, Len(U) + 1, {r}) BY <1>5, <1>7, <1>8, <1>9, <1>10, <1>11 DEF Evolves
<1> QED BY <1>12 DEF U, V, b

\* A worker goes on.
LEMMA ContinueEvolves ==
  ASSUME NEW S, NEW q \in Seq(S), NEW d \in Seq(S), NEW i \in 1..Len(q), NEW r \in S
  PROVE  Evolves(q \o d, [q EXCEPT ![i] = r] \o d, i, {r})
<1> DEFINE b == [q EXCEPT ![i] = r]
           U == q \o d
           V == b \o d
           f == [k \in 1..Len(V) |-> IF k = i THEN 0 ELSE k]
<1>1. Len(q) \in Nat /\ Len(d) \in Nat /\ i \in Nat OBVIOUS
<1>2. /\ b \in Seq(S) /\ Len(b) = Len(q) /\ b[i] = r
      /\ \A k \in 1..Len(q) : k # i => b[k] = q[k]
  OBVIOUS
<1>3. Joined(q, d, U) BY ListOf
<1> HIDE DEF b
<1>4. Joined(b, d, V) BY <1>2, ListOf
<1> HIDE DEF U, V
<1>5. f \in [1..Len(V) -> 0..Len(U)] BY <1>1, <1>2, <1>3, <1>4 DEF Joined
<1>6. \A k \in 1..Len(V) : f[k] = IF k = i THEN 0 ELSE k OBVIOUS
<1> HIDE DEF f
<1>7. ASSUME NEW k \in 1..Len(V) PROVE IF f[k] = 0 THEN V[k] \in {r} ELSE V[k] = U[f[k]]
  <2>1. k # 0 OBVIOUS
  <2>2. CASE k = i BY <1>2, <1>4, <1>6, <2>2 DEF Joined
  <2>3. CASE k # i /\ k <= Len(q)
    <3>1. k \in 1..Len(q) BY <1>1, <2>3
    <3> QED BY <1>2, <1>3, <1>4, <1>6, <2>1, <2>3, <3>1 DEF Joined
  <2>4. CASE k # i /\ ~(k <= Len(q))
    <3>1. k \in (Len(q) + 1)..Len(U) /\ k \in (Len(b) + 1)..Len(V) BY <1>1, <1>2, <1>3, <1>4, <2>4 DEF Joined
    <3> QED BY <1>2, <1>3, <1>4, <1>6, <2>1, <2>4, <3>1 DEF Joined
  <2> QED BY <2>2, <2>3, <2>4
<1>8. \A k \in 1..Len(V) : f[k] # i BY <1>1, <1>6
<1>9. \A k, l \in 1..Len(V) : f[k] = f[l] => k = l BY <1>6
<1>10. \A j \in 1..Len(U) : j # i => \E k \in 1..Len(V) : f[k] = j BY <1>2, <1>3, <1>4, <1>6 DEF Joined
<1>11. i \in 1..Len(V) /\ f[i] = 0 BY <1>1, <1>2, <1>4, <1>6 DEF Joined
<1>12. Evolves(U, V, i, {r}) BY <1>5, <1>7, <1>8, <1>9, <1>10, <1>11 DEF Evolves
<1> QED BY <1>12 DEF U, V, b

\* The list q without its element i.
LEMMA ListWithout ==
  ASSUME NEW S, NEW q \in Seq(S), NEW i \in 1..Len(q)
  PROVE  LET b == RemoveAt(q, i) IN
         /\ b \in Seq(S) /\ Len(b) = Len(q) - 1
         /\ \A k \in 1..(i - 1) : b[k] = q[k]
         /\ \A k \in i..(Len(q) - 1) : b[k] = q[k + 1]
<1> DEFINE l == SubSeq(q, 1, i - 1)
           m == SubSeq(q, i + 1, Len(q))
           b == l \o m
<1>1. i \in Nat /\ Len(q) \in Nat /\ i >= 1 /\ i <= Len(q) OBVIOUS
<1>2. l \in Seq(S) /\ Len(l) = i - 1 /\ \A k \in 1..(i - 1) : l[k] = q[k] OBVIOUS
<1>3. m \in Seq(S) /\ Len(m) = Len(q) - i /\ \A k \in 1..Len(m) : m[k] = q[i + k] OBVIOUS
<1>4. RemoveAt(q, i) = b BY DEF RemoveAt
<1> HIDE DEF l, m
<1>5. b \in Seq(S) /\ Joined(l, m, b) BY <1>2, <1>3, ListOf
<1> HIDE DEF b
<1>6. Len(b) = Len(q) - 1 BY <1>1, <1>2, <1>3, <1>5 DEF Joined
<1>7. \A k \in 1..(i - 1) : b[k] = q[k] BY <1>2, <1>5 DEF Joined
<1>8. ASSUME NEW k \in i..(Len(q) - 1) PROVE b[k] = q[k + 1]
  <2>1. k \in (Len(l) + 1)..Len(b) BY <1>1, <1>2, <1>6
  <2>2. b[k] = m[k - Len(l)] /\ k - Len(l) \in 1..Len(m) BY <1>5, <2>1 DEF Joined
  <2>3. m[k - Len(l)] = q[i + (k - Len(l))] BY <1>3, <2>2
  <2>4. i + (k - Len(l)) = k + 1 BY <1>1, <1>2
  <2> QED BY <2>2, <2>3, <2>4
<1> QED BY <1>4, <1>5, <1>6, <1>7, <1>8

\* A worker returns.
LEMMA ReturnEvolves ==
  ASSUME NEW S, NEW q \in Seq(S), NEW d \in Seq(S), NEW i \in 1..Len(q), NEW r \in S
  PROVE  Evolves(q \o d, RemoveAt(q, i) \o Append(d, r), i, {r})
<1> DEFINE b == RemoveAt(q, i)
           e == Append(d, r)
           U == q \o d
           V == b \o e
           f == [k \in 1..Len(V) |-> IF k < i THEN k ELSE IF k = Len(U) THEN 0 ELSE k + 1]
<1>1. Len(q) \in Nat /\ Len(d) \in Nat /\ i \in Nat /\ i >= 1 /\ i <= Len(q) OBVIOUS
<1>2. /\ b \in Seq(S) /\ Len(b) = Len(q) - 1
      /\ \A k \in 1..(i - 1) : b[k] = q[k]
      /\ \A k \in i..(Len(q) - 1) : b[k] = q[k + 1]
  BY ListWithout
<1>3. /\ e \in Seq(S) /\ Len(e) = Len(d) + 1 /\ e[Len(d) + 1] = r
      /\ \A k \in 1..Len(d) : e[k] = d[k]
  OBVIOUS
<1>4. Joined(q, d, U) BY ListOf
<1> HIDE DEF b, e
<1>5. Joined(b, e, V) BY <1>2, <1>3, ListOf
<1> HIDE DEF U, V
<1>6. Len(U) = Len(q) + Len(d) /\ Len(V) = Len(U) BY <1>1, <1>2, <1>3, <1>4, <1>5 DEF Joined
<1>7. f \in [1..Len(V) -> 0..Len(U)] BY <1>1, <1>6
<1>8. \A k \in 1..Len(V) : f[k] = IF k < i THEN k ELSE IF k = Len(U) THEN 0 ELSE k + 1 OBVIOUS
<1> HIDE DEF f
<1>9. ASSUME NEW k \in 1..Len(V) PROVE IF f[k] = 0 THEN V[k] \in {r} ELSE V[k] = U[f[k]]
  <2>1. CASE k < i
    <3>1. k \in 1..(i - 1) /\ k \in 1..Len(b) /\ k \in 1..Len(q) /\ k # 0 BY <1>1, <1>2, <2>1
    <3>2. V[k] = b[k] /\ U[k] = q[k] BY <1>4, <1>5, <3>1 DEF Joined
    <3> QED BY <1>2, <1>8, <2>1, <3>1, <3>2
  <2>2. CASE k >= i /\ k < Len(q)
    <3>1. k \in i..(Len(q) - 1) /\ k \in 1..Len(b) /\ k + 1 \in 1..Len(q) BY <1>1, <1>2, <2>2
    <3>2. V[k] = b[k] /\ U[k + 1] = q[k + 1] BY <1>4, <1>5, <3>1 DEF Joined
    <3>3. f[k] = k + 1 /\ f[k] # 0 BY <1>1, <1>6, <1>8, <2>2
    <3> QED BY <1>2, <3>1, <3>2, <3>3
  <2>3. CASE k >= Len(q) /\ k < Len(U)
    <3> DEFINE l == k - Len(b)
    <3>1. l \in 1..Len(d) /\ l \in 1..Len(e) /\ k = Len(b) + l /\ k + 1 = Len(q) + l
      BY <1>1, <1>2, <1>3, <1>6, <2>3
    <3>2. f[k] = k + 1 /\ f[k] # 0 BY <1>1, <1>6, <1>8, <2>3
    <3> HIDE DEF l
    <3>3. V[k] = e[l] /\ U[k + 1] = d[l] BY <1>4, <1>5, <3>1 DEF Joined
    <3> QED BY <1>3, <3>1, <3>2, <3>3
  <2>4. CASE k = Len(U)
    <3>1. ~(k < i) /\ Len(d) + 1 \in 1..Len(e) /\ k = Len(b) + (Len(d) + 1)
      BY <1>1, <1>2, <1>3, <1>6, <2>4
    <3>2. V[k] = e[Len(d) + 1] BY <1>5, <3>1 DEF Joined
    <3> QED BY <1>3, <1>8, <2>4, <3>1, <3>2
  <2> QED BY <1>1, <1>6, <2>1, <2>2, <2>3, <2>4
<1>10. \A k \in 1..Len(V) : f[k] # i BY <1>1, <1>8
<1>11. \A k, l \in 1..Len(V) : f[k] = f[l] => k = l BY <1>1, <1>6, <1>8
<1>12. ASSUME NEW j \in 1..Len(U), j # i PROVE \E k \in 1..Len(V) : f[k] = j
  <2>1. CASE j < i BY <1>6, <1>8, <2>1
  <2>2. CASE j > i
    <3>1. j - 1 \in 1..Len(V) /\ ~(j - 1 < i) /\ j - 1 # Len(U) /\ j - 1 + 1 = j
      BY <1>1, <1>6, <2>2
    <3> QED BY <1>8, <3>1
  <2> QED BY <1>1, <1>12, <2>1, <2>2
<1>13. Len(U) \in 1..Len(V) /\ f[Len(U)] = 0
  <2>1. Len(U) \in 1..Len(V) /\ ~(Len(U) < i) BY <1>1, <1>6
  <2> QED BY <1>8, <2>1
<1>14. Evolves(U, V, i, {r}) BY <1>7, <1>9, <1>10, <1>11, <1>12, <1>13 DEF Evolves
<1> QED BY <1>14 DEF U, V, b, e

\* The first of the finished requests calls back.
LEMMA TailEvolves ==
  ASSUME NEW S, NEW q \in Seq(S), NEW d \in Seq(S), d # <<>>
  PROVE  Evolves(q \o d, q \o Tail(d), Len(q) + 1, {})
<1> DEFINE e == Tail(d)
           U == q \o d
           V == q \o e
           f == [k \in 1..Len(V) |-> IF k <= Len(q) THEN k ELSE k + 1]
<1>1. Len(q) \in Nat /\ Len(d) \in Nat /\ Len(d) > 0 OBVIOUS
<1>2. e \in Seq(S) /\ Len(e) = Len(d) - 1 /\ \A k \in 1..Len(e) : e[k] = d[k + 1] OBVIOUS
<1>3. Joined(q, d, U) BY ListOf
<1> HIDE DEF e
<1>4. Joined(q, e, V) BY <1>2, ListOf
<1> HIDE DEF U, V
<1>5. Len(U) = Len(q) + Len(d) /\ Len(V) = Len(U) - 1 BY <1>1, <1>2, <1>3, <1>4 DEF Joined
<1>6. f \in [1..Len(V) -> 0..Len(U)] BY <1>1, <1>5
<1>7. \A k \in 1..Len(V) : f[k] = IF k <= Len(q) THEN k ELSE k + 1 OBVIOUS
<1> HIDE DEF f
<1>8. ASSUME NEW k \in 1..Len(V) PROVE f[k] # 0 /\ V[k] = U[f[k]]
  <2>1. CASE k <= Len(q)
    <3>1. k \in 1..Len(q) /\ k # 0 BY <1>1, <2>1
    <3> QED BY <1>3, <1>4, <1>7, <2>1, <3>1 DEF Joined
  <2>2. CASE ~(k <= Len(q))
    <3> DEFINE l == k - Len(q)
    <3>1. /\ l \in 1..Len(e) /\ l + 1 \in 1..Len(d) /\ k = Len(q) + l
          /\ k + 1 = Len(q) + (l + 1) /\ k + 1 # 0
      BY <1>1, <1>2, <1>5, <2>2
    <3> HIDE DEF l
    <3>2. V[k] = e[l] /\ U[k + 1] = d[l + 1] BY <1>3, <1>4, <3>1 DEF Joined
    <3> QED BY <1>2, <1>7, <2>2, <3>1, <3>2
  <2> QED BY <2>1, <2>2
<1>9. \A k \in 1..Len(V) : f[k] # Len(q) + 1 BY <1>1, <1>7
<1>10. \A k, l \in 1..Len(V) : f[k] = f[l] => k = l BY <1>1, <1>7
<1>11. ASSUME NEW j \in 1..Len(U), j # Len(q) + 1 PROVE \E k \in 1..Len(V) : f[k] = j
  <2>1. CASE j <= Len(q)
    <3>1. j \in 1..Len(V) BY <1>1, <1>5, <2>1
    <3> QED BY <1>7, <2>1, <3>1
  <2>2. CASE ~(j <= Len(q))
    <3>1. j - 1 \in 1..Len(V) /\ ~(j - 1 <= Len(q)) /\ j - 1 + 1 = j BY <1>1, <1>5, <1>11, <2>2
    <3> QED BY <1>7, <3>1
  <2> QED BY <2>1, <2>2
<1>12. Evolves(U, V, Len(q) + 1, {}) BY <1>6, <1>8, <1>9, <1>10, <1>11 DEF Evolves
<1> QED BY <1>12 DEF U, V, e

\* The first of the finished requests calls back, and makes another.
LEMMA AgainEvolves ==
  ASSUME NEW S, NEW q \in Seq(S), NEW d \in Seq(S), d # <<>>, NEW r \in S
  PROVE  Evolves(q \o d, Append(q, r) \o Tail(d), Len(q) + 1, {r})
<1> DEFINE b == Append(q, r)
           e == Tail(d)
           U == q \o d
           V == b \o e
           f == [k \in 1..Len(V) |-> IF k = Len(q) + 1 THEN 0 ELSE k]
<1>1. Len(q) \in Nat /\ Len(d) \in Nat /\ Len(d) > 0 OBVIOUS
<1>2. e \in Seq(S) /\ Len(e) = Len(d) - 1 /\ \A k \in 1..Len(e) : e[k] = d[k + 1] OBVIOUS
<1>3. /\ b \in Seq(S) /\ Len(b) = Len(q) + 1 /\ b[Len(q) + 1] = r
      /\ \A k \in 1..Len(q) : b[k] = q[k]
  OBVIOUS
<1>4. Joined(q, d, U) BY ListOf
<1> HIDE DEF b, e
<1>5. Joined(b, e, V) BY <1>2, <1>3, ListOf
<1> HIDE DEF U, V
<1>6. Len(U) = Len(q) + Len(d) /\ Len(V) = Len(U) BY <1>1, <1>2, <1>3, <1>4, <1>5 DEF Joined
<1>7. f \in [1..Len(V) -> 0..Len(U)] BY <1>1, <1>6
<1>8. \A k \in 1..Len(V) : f[k] = IF k = Len(q) + 1 THEN 0 ELSE k OBVIOUS
<1> HIDE DEF f
<1>9. ASSUME NEW k \in 1..Len(V) PROVE IF f[k] = 0 THEN V[k] \in {r} ELSE V[k] = U[f[k]]
  <2>1. CASE k <= Len(q)
    <3>1. k \in 1..Len(q) /\ k \in 1..Len(b) /\ k # 0 /\ k # Len(q) + 1 BY <1>1, <1>3, <2>1
    <3> QED BY <1>3, <1>4, <1>5, <1>8, <3>1 DEF Joined
  <2>2. CASE k = Len(q) + 1
    <3>1. k \in 1..Len(b) BY <1>1, <1>3, <2>2
    <3> QED BY <1>3, <1>5, <1>8, <2>2, <3>1 DEF Joined
  <2>3. CASE k > Len(q) + 1
    <3> DEFINE l == k - Len(b)
    <3>1. /\ l \in 1..Len(e) /\ l + 1 \in 1..Len(d) /\ k = Len(b) + l
          /\ k = Len(q) + (l + 1) /\ k # 0 /\ k # Len(q) + 1
      BY <1>1, <1>2, <1>3, <1>6, <2>3
    <3> HIDE DEF l
    <3>2. V[k] = e[l] /\ U[k] = d[l + 1] BY <1>4, <1>5, <3>1 DEF Joined
    <3> QED BY <1>2, <1>8, <3>1, <3>2
  <2> QED BY <1>1, <2>1, <2>2, <2>3
<1>10. \A k \in 1..Len(V) : f[k] # Len(q) + 1 BY <1>1, <1>8
<1>11. \A k, l \in 1..Len(V) : f[k] = f[l] => k = l BY <1>8
<1>12. \A j \in 1..Len(U) : j # Len(q) + 1 => \E k \in 1..Len(V) : f[k] = j BY <1>6, <1>8
<1>13. Len(q) + 1 \in 1..Len(V) /\ f[Len(q) + 1] = 0
  <2>1. Len(q) + 1 \in 1..Len(V) BY <1>1, <1>6
  <2> QED BY <1>8, <2>1
<1>14. Evolves(U, V, Len(q) + 1, {r}) BY <1>7, <1>9, <1>10, <1>11, <1>12, <1>13 DEF Evolves
<1> QED BY <1>14 DEF U, V, b, e
-----------------------------------------------------------------------------
(* The pins, whichever of the two modules uses them.                       *)

\* A step leaves the pin p as it is.
Same(p) == node'[p] = node[p] /\ attr'[p] = attr[p] /\ want'[p] = want[p] /\ pwm'[p] = pwm[p]

\* The request at y is for the pin p.
Held(y, p) == y \in 1..Len(Underway) /\ Touches(Underway[y], p)

\* A step takes the request at y away and adds r, or nothing, and concerns the pins
\* that these are for.
LEMMA PinsEvolve ==
  ASSUME PinInv, NEW r, NEW R \in {{}, {r}}, NEW y \in Nat, Evolves(Underway, Underway', y, R),
         module' = module, raced \in [Pins -> BOOLEAN], raced' \in [Pins -> BOOLEAN],
         \A p \in Pins : raced[p] => raced'[p],
         \A p \in Pins : ~raced'[p] /\ R # {} /\ Touches(r, p) =>
           /\ \A j \in 1..Len(Underway) : j # y => ~Touches(Underway[j], p)
           /\ KnowsOf(p, r)',
         \A p \in Pins : ~raced'[p] /\ ~(R # {} /\ Touches(r, p)) =>
           IF Held(y, p) THEN RestOf(p)' ELSE Same(p)
  PROVE  PinInv'
<1> DEFINE U == Underway
           V == Underway'
<1>1. PICK f \in [1..Len(V) -> 0..Len(U)] :
        /\ \A k \in 1..Len(V) : f[k] # y
        /\ \A k \in 1..Len(V) : IF f[k] = 0 THEN V[k] \in R ELSE V[k] = U[f[k]]
        /\ \A k, l \in 1..Len(V) : f[k] = f[l] => k = l
        /\ \A j \in 1..Len(U) : j # y => \E k \in 1..Len(V) : f[k] = j
        /\ R # {} => \E k \in 1..Len(V) : f[k] = 0
  BY DEF Evolves
<1>2. \A k \in 1..Len(V) : f[k] = 0 => R # {} /\ V[k] = r BY <1>1
<1>3. \A k \in 1..Len(V) : f[k] # 0 => f[k] \in 1..Len(U) /\ f[k] # y /\ V[k] = U[f[k]]
  <2>1. \A k \in 1..Len(V) : f[k] \in 0..Len(U) BY <1>1
  <2> QED BY <1>1, <2>1
<1>4. /\ \A i, j \in 1..Len(U), p \in Pins : Touches(U[i], p) /\ Touches(U[j], p) /\ i # j => raced[p]
      /\ \A i \in 1..Len(U), p \in Pins : Touches(U[i], p) /\ ~raced[p] => KnowsOf(p, U[i])
      /\ \A p \in Pins : Settled(p) => RestOf(p)
  BY DEF PinInv
<1> HIDE DEF U, V
<1>5. ASSUME NEW p \in Pins, ~raced'[p],
             NEW k \in 1..Len(V), Touches(V[k], p), NEW l \in 1..Len(V), Touches(V[l], p)
      PROVE  k = l
  <2>1. ~raced[p] BY <1>5
  <2>2. CASE f[k] = 0 /\ f[l] = 0 BY <1>1, <2>2
  <2>3. CASE f[k] # 0 /\ f[l] # 0
    <3>1. f[k] = f[l] BY <1>3, <1>4, <1>5, <2>1, <2>3
    <3> QED BY <1>1, <3>1
  <2>4. CASE f[k] = 0 /\ f[l] # 0 BY <1>2, <1>3, <1>5, <2>4 DEF U
  <2>5. CASE f[k] # 0 /\ f[l] = 0 BY <1>2, <1>3, <1>5, <2>5 DEF U
  <2> QED BY <2>2, <2>3, <2>4, <2>5
<1>6. ASSUME NEW p \in Pins, ~raced'[p], NEW k \in 1..Len(V), Touches(V[k], p)
      PROVE  KnowsOf(p, Underway[k])'
  <2>1. ~raced[p] BY <1>6
  <2>2. CASE f[k] = 0
    <3>1. R # {} /\ V[k] = r BY <1>2, <2>2
    <3>2. KnowsOf(p, r)' BY <1>6, <3>1
    <3> QED BY <3>1, <3>2 DEF KnowsOf, V
  <2>3. CASE f[k] # 0
    <3>1. f[k] \in 1..Len(U) /\ f[k] # y /\ V[k] = U[f[k]] BY <1>3, <2>3
    <3>2. ~(R # {} /\ Touches(r, p)) BY <1>6, <3>1 DEF U
    <3>3. ~Held(y, p) BY <1>4, <1>6, <2>1, <3>1 DEF Held, U
    <3>4. Same(p) BY <1>6, <3>2, <3>3
    <3>5. KnowsOf(p, U[f[k]]) BY <1>4, <1>6, <2>1, <3>1
    <3> QED BY <3>1, <3>4, <3>5 DEF KnowsOf, Same, V
  <2> QED BY <2>2, <2>3
<1>7. ASSUME NEW p \in Pins, ~raced'[p], \A k \in 1..Len(V) : ~Touches(V[k], p)
      PROVE  RestOf(p)'
  <2>1. ~raced[p] BY <1>7
  <2>2. ~(R # {} /\ Touches(r, p)) BY <1>1, <1>2, <1>7
  <2>3. CASE Held(y, p) BY <1>7, <2>2, <2>3
  <2>4. CASE ~Held(y, p)
    <3>1. Same(p) BY <1>7, <2>2, <2>4
    <3>2. ASSUME NEW j \in 1..Len(U) PROVE ~Touches(U[j], p)
      <4>1. CASE j = y BY <2>4, <4>1 DEF Held, U
      <4>2. CASE j # y
        <5>1. PICK k \in 1..Len(V) : f[k] = j BY <1>1, <4>2
        <5>2. V[k] = U[j] BY <1>3, <5>1
        <5> QED BY <1>7, <5>2
      <4> QED BY <4>1, <4>2
    <3>3. Settled(p) BY <2>1, <3>2 DEF Settled, U
    <3> QED BY <1>4, <3>1, <3>3 DEF RestOf, Same
  <2> QED BY <2>3, <2>4
<1> QED BY <1>5, <1>6, <1>7 DEF PinInv, Settled, V

\* The request at i is carried on, or its worker returns.
Becomes(i, r) ==
  \/ r.pc # "done" /\ work' = [work EXCEPT ![i] = r] /\ done' = done
  \/ r.pc = "done" /\ work' = RemoveAt(work, i) /\ done' = Append(done, r)

\* Where the requests that are underway are.
LEMMA ListsAt ==
  ASSUME NEW S, Lists(S)
  PROVE  /\ Underway \in Seq(S) /\ Joined(work, done, Underway)
         /\ Len(work) \in Nat /\ Len(done) \in Nat /\ Len(Underway) = Len(work) + Len(done)
<1>1. Underway \in Seq(S) /\ Joined(work, done, Underway) BY ListOf DEF Lists, Underway
<1> QED BY <1>1 DEF Lists, Joined

\* The same for the requests of gpio and of pwm.
LEMMA UnderwayAt ==
  ASSUME Requests
  PROVE  /\ Underway \in Seq(RequestRecord) /\ Joined(work, done, Underway)
         /\ Len(work) \in Nat /\ Len(done) \in Nat /\ Len(Underway) = Len(work) + Len(done)
  BY ListsAt DEF Requests

\* A request is queued, and its pins know whether it races.
LEMMA PinsQueue ==
  ASSUME PinInv, Requests, module' = module, raced \in [Pins -> BOOLEAN],
         NEW r \in RequestRecord, uv_queue_work(r),
         raced' = [p \in Pins |-> raced[p] \/ Collides(r, p)],
         UNCHANGED <<node, attr, want>>,
         \A p \in Pins : ~Touches(r, p) => pwm'[p] = pwm[p],
         \A p \in Pins : Touches(r, p) /\ RestOf(p) => KnowsOf(p, r)'
  PROVE  PinInv'
<1> DEFINE y == Len(Underway) + 1
<1>1. Underway \in Seq(RequestRecord) BY ListOf DEF Requests, Lists, Underway
<1>2. y \in Nat /\ y \notin 1..Len(Underway) BY <1>1
<1>3. Evolves(Underway, Underway', y, {r})
  BY AppendEvolves DEF Requests, Lists, Underway, uv_queue_work
<1> HIDE DEF y
<1>4. raced' \in [Pins -> BOOLEAN] /\ \A p \in Pins : raced[p] => raced'[p] BY DEF Collides
<1>5. ASSUME NEW p \in Pins, ~raced'[p], Touches(r, p)
      PROVE  /\ \A j \in 1..Len(Underway) : ~Touches(Underway[j], p)
             /\ KnowsOf(p, r)'
  <2>1. ~raced[p] /\ \A j \in 1..Len(Underway) : ~Touches(Underway[j], p) BY <1>5 DEF Collides
  <2>2. RestOf(p) BY <2>1 DEF PinInv, Settled
  <2> QED BY <1>5, <2>1, <2>2
<1>6. \A p \in Pins : ~Touches(r, p) => ~Held(y, p) /\ Same(p) BY <1>2 DEF Held, Same
<1> QED BY <1>2, <1>3, <1>4, <1>5, <1>6, PinsEvolve

\* A worker changes the pins that its request is for.
LEMMA PinsWork ==
  ASSUME PinInv, Requests, module' = module, raced \in [Pins -> BOOLEAN], raced' = raced,
         NEW i \in 1..Len(work), NEW r \in RequestRecord, Becomes(i, r), r.pin = work[i].pin,
         \A p \in Pins : ~Touches(r, p) => Same(p),
         \A p \in Pins : Touches(r, p) /\ KnowsOf(p, work[i]) /\ ~raced[p] => KnowsOf(p, r)'
  PROVE  PinInv'
<1>1. Evolves(Underway, Underway', i, {r})
  BY ContinueEvolves, ReturnEvolves DEF Requests, Lists, Underway, Becomes
<1>2. i \in 1..Len(Underway) /\ Underway[i] = work[i] BY UnderwayAt DEF Joined
<1>3. \A p \in Pins : Touches(r, p) <=> Touches(Underway[i], p) BY <1>2 DEF Touches
<1>4. ASSUME NEW p \in Pins, ~raced'[p], Touches(r, p)
      PROVE  /\ \A j \in 1..Len(Underway) : j # i => ~Touches(Underway[j], p)
             /\ KnowsOf(p, r)'
  <2>1. \A j \in 1..Len(Underway) : j # i => ~Touches(Underway[j], p)
    BY <1>2, <1>3, <1>4 DEF PinInv
  <2>2. KnowsOf(p, Underway[i]) BY <1>2, <1>3, <1>4 DEF PinInv
  <2> QED BY <1>2, <1>4, <2>1, <2>2
<1>5. \A p \in Pins : ~Touches(r, p) => ~Held(i, p) /\ Same(p) BY <1>3 DEF Held
<1>6. i \in Nat OBVIOUS
<1> QED BY <1>1, <1>4, <1>5, <1>6, PinsEvolve

\* A request calls back.
LEMMA PinsDispatch ==
  ASSUME PinInv, Requests, module' = module, raced \in [Pins -> BOOLEAN], raced' = raced,
         Dispatch, NEW r, r = Head(done),
         \A p \in Pins : ~Touches(r, p) => Same(p),
         \A p \in Pins : Touches(r, p) /\ KnowsOf(p, r) /\ ~raced[p] => RestOf(p)'
  PROVE  PinInv'
<1> DEFINE y == Len(work) + 1
<1>1. Evolves(Underway, Underway', y, {}) BY TailEvolves DEF Requests, Lists, Underway, Dispatch
<1>2. y \in Nat /\ y \in 1..Len(Underway) /\ Underway[y] = r
  <2>1. 1 \in 1..Len(done) /\ done[1] = r BY DEF Requests, Lists, Dispatch
  <2>2. Underway[Len(work) + 1] = done[1] BY <2>1, UnderwayAt DEF Joined
  <2> QED BY <2>1, <2>2, UnderwayAt
<1> HIDE DEF y
<1>3. \A p \in Pins : Held(y, p) <=> Touches(r, p) BY <1>2 DEF Held
<1>4. ASSUME NEW p \in Pins, ~raced'[p] PROVE IF Held(y, p) THEN RestOf(p)' ELSE Same(p)
  <2>1. CASE Held(y, p)
    <3>1. KnowsOf(p, r) BY <1>2, <1>3, <1>4, <2>1 DEF PinInv
    <3> QED BY <1>3, <1>4, <2>1, <3>1
  <2>2. CASE ~Held(y, p) BY <1>3, <2>2
  <2> QED BY <2>1, <2>2
<1> QED BY <1>1, <1>2, <1>4, PinsEvolve

\* What is underway after a step was so before, or is new.
LEMMA EvolvesFrom ==
  ASSUME NEW U, NEW V, NEW y, NEW R, Evolves(U, V, y, R)
  PROVE  \A k \in 1..Len(V) : V[k] \in R \/ \E j \in 1..Len(U) : j # y /\ V[k] = U[j]
<1>1. PICK f \in [1..Len(V) -> 0..Len(U)] :
        /\ \A k \in 1..Len(V) : f[k] # y
        /\ \A k \in 1..Len(V) : IF f[k] = 0 THEN V[k] \in R ELSE V[k] = U[f[k]]
  BY DEF Evolves
<1> SUFFICES ASSUME NEW k \in 1..Len(V)
             PROVE  V[k] \in R \/ \E j \in 1..Len(U) : j # y /\ V[k] = U[j]
  OBVIOUS
<1>2. CASE f[k] = 0 BY <1>1, <1>2
<1>3. CASE f[k] # 0
  <2>1. f[k] \in 1..Len(U) /\ f[k] # y /\ V[k] = U[f[k]]
    <3>1. f[k] \in 0..Len(U) BY <1>1
    <3> QED BY <1>1, <1>3, <3>1
  <2> QED BY <2>1
<1> QED BY <1>2, <1>3

\* The requests after one was queued.
LEMMA ListsQueue ==
  ASSUME NEW S, Lists(S), NEW r \in S, r.pc = "queued", uv_queue_work(r)
  PROVE  /\ Lists(S)' /\ Len(Underway') = Len(Underway) + 1
         /\ \A k \in 1..Len(Underway') :
              Underway'[k] = r \/ \E j \in 1..Len(Underway) : Underway'[k] = Underway[j]
<1>1. /\ work' \in Seq(S) /\ Len(work') = Len(work) + 1 /\ work'[Len(work) + 1] = r
      /\ \A k \in 1..Len(work) : work'[k] = work[k]
  BY DEF Lists, uv_queue_work
<1>2. done' = done BY DEF uv_queue_work
<1>3. \A k \in 1..Len(work') : k \in 1..Len(work) \/ k = Len(work) + 1 BY <1>1 DEF Lists
<1>4. Lists(S)' BY <1>1, <1>2, <1>3 DEF Lists
<1>5. Len(Underway') = Len(Underway) + 1
  <2>1. Len(Underway') = Len(work') + Len(done') BY <1>4, ListOf DEF Lists, Underway, Joined
  <2>2. Len(Underway) = Len(work) + Len(done) /\ Len(work) \in Nat /\ Len(done) \in Nat
    BY ListsAt
  <2> QED BY <1>1, <1>2, <2>1, <2>2
<1>6. Evolves(Underway, Underway', Len(Underway) + 1, {r})
  BY AppendEvolves DEF Lists, Underway, uv_queue_work
<1>7. \A k \in 1..Len(Underway') : Underway'[k] \in {r} \/
        \E j \in 1..Len(Underway) : j # Len(Underway) + 1 /\ Underway'[k] = Underway[j]
  BY <1>6, EvolvesFrom
<1> QED BY <1>4, <1>5, <1>7

\* The requests after a worker has made a step.
LEMMA ListsWork ==
  ASSUME NEW S, Lists(S), NEW i \in 1..Len(work), NEW r \in S, Becomes(i, r)
  PROVE  /\ Lists(S)' /\ Len(Underway') = Len(Underway)
         /\ \A k \in 1..Len(Underway') :
              Underway'[k] = r \/ \E j \in 1..Len(Underway) : Underway'[k] = Underway[j]
<1>1. ASSUME r.pc # "done" /\ work' = [work EXCEPT ![i] = r] /\ done' = done
      PROVE  Lists(S)'
  <2>1. /\ work' \in Seq(S) /\ Len(work') = Len(work) /\ work'[i] = r
        /\ \A k \in 1..Len(work) : k # i => work'[k] = work[k]
    BY <1>1 DEF Lists
  <2> QED BY <1>1, <2>1 DEF Lists
<1>2. ASSUME r.pc = "done" /\ work' = RemoveAt(work, i) /\ done' = Append(done, r)
      PROVE  Lists(S)'
  <2>1. /\ work' \in Seq(S) /\ Len(work') = Len(work) - 1
        /\ \A k \in 1..(i - 1) : work'[k] = work[k]
        /\ \A k \in i..(Len(work) - 1) : work'[k] = work[k + 1]
    BY <1>2, ListWithout DEF Lists
  <2>2. /\ done' \in Seq(S) /\ Len(done') = Len(done) + 1
        /\ done'[Len(done) + 1] = r /\ \A k \in 1..Len(done) : done'[k] = done[k]
    BY <1>2 DEF Lists
  <2>3. ASSUME NEW k \in 1..Len(work') PROVE work'[k].pc # "done"
    <3>1. Len(work) \in Nat BY DEF Lists
    <3>2. CASE k < i
      <4>1. k \in 1..(i - 1) /\ k \in 1..Len(work) BY <2>1, <3>1, <3>2
      <4> QED BY <2>1, <4>1 DEF Lists
    <3>3. CASE ~(k < i)
      <4>1. k \in i..(Len(work) - 1) /\ k + 1 \in 1..Len(work) BY <2>1, <3>1, <3>3
      <4> QED BY <2>1, <4>1 DEF Lists
    <3> QED BY <3>2, <3>3
  <2>4. \A k \in 1..Len(done') : k \in 1..Len(done) \/ k = Len(done) + 1 BY <2>2 DEF Lists
  <2> QED BY <1>2, <2>1, <2>2, <2>3, <2>4 DEF Lists
<1>3. Lists(S)' BY <1>1, <1>2 DEF Becomes
<1>4. Len(Underway') = Len(Underway)
  <2>1. Len(Underway') = Len(work') + Len(done') BY <1>3, ListOf DEF Lists, Underway, Joined
  <2>2. Len(work') + Len(done') = Len(work) + Len(done)
    <3>1. CASE work' = [work EXCEPT ![i] = r] /\ done' = done BY <3>1 DEF Lists
    <3>2. CASE work' = RemoveAt(work, i) /\ done' = Append(done, r)
      <4>1. Len(work') = Len(work) - 1 BY <3>2, ListWithout DEF Lists
      <4>2. Len(done') = Len(done) + 1 BY <3>2 DEF Lists
      <4>3. Len(work) \in Nat /\ Len(done) \in Nat BY DEF Lists
      <4> QED BY <4>1, <4>2, <4>3
    <3> QED BY <3>1, <3>2 DEF Becomes
  <2> QED BY <2>1, <2>2, ListsAt
<1>5. Evolves(Underway, Underway', i, {r})
  BY ContinueEvolves, ReturnEvolves DEF Lists, Underway, Becomes
<1>6. \A k \in 1..Len(Underway') : Underway'[k] \in {r} \/
        \E j \in 1..Len(Underway) : j # i /\ Underway'[k] = Underway[j]
  BY <1>5, EvolvesFrom
<1> QED BY <1>3, <1>4, <1>6

\* The requests after the loop has called one back.
LEMMA ListsDispatch ==
  ASSUME NEW S, Lists(S), Dispatch
  PROVE  /\ Lists(S)' /\ Len(Underway') = Len(Underway) - 1
         /\ Len(work) + 1 \in 1..Len(Underway) /\ Underway[Len(work) + 1] = Head(done)
         /\ Head(done) \in S /\ Head(done).pc = "done" /\ 1 \in 1..Len(done)
         /\ \A k \in 1..Len(done') : k + 1 \in 1..Len(done) /\ done'[k] = done[k + 1]
         /\ \A k \in 1..Len(Underway') :
              \E j \in 1..Len(Underway) : Underway'[k] = Underway[j]
<1>1. /\ work' = work /\ done' \in Seq(S) /\ Len(done') = Len(done) - 1
      /\ Len(done) > 0 /\ \A k \in 1..Len(done') : done'[k] = done[k + 1]
  BY DEF Lists, Dispatch
<1>2. Len(work) \in Nat /\ Len(done) \in Nat BY DEF Lists
<1>3. \A k \in 1..Len(done') : k + 1 \in 1..Len(done) BY <1>1, <1>2
<1>4. Lists(S)' BY <1>1, <1>3 DEF Lists
<1>5. Len(Underway') = Len(work') + Len(done') BY <1>4, ListOf DEF Lists, Underway, Joined
<1>6. Len(Underway') = Len(Underway) - 1 BY <1>1, <1>2, <1>5, ListsAt
<1>7. 1 \in 1..Len(done) /\ Head(done) = done[1] BY <1>1, <1>2 DEF Lists
<1>8. Len(work) + 1 \in 1..Len(Underway) /\ Underway[Len(work) + 1] = Head(done)
  <2>1. Underway[Len(work) + 1] = done[1] BY <1>7, ListsAt DEF Joined
  <2> QED BY <1>1, <1>2, <1>7, <2>1, ListsAt
<1>9. Head(done) \in S /\ Head(done).pc = "done" BY <1>7 DEF Lists
<1>10. Evolves(Underway, Underway', Len(work) + 1, {})
  BY TailEvolves DEF Lists, Underway, Dispatch
<1>11. \A k \in 1..Len(Underway') : Underway'[k] \in {} \/
         \E j \in 1..Len(Underway) : j # Len(work) + 1 /\ Underway'[k] = Underway[j]
  BY <1>10, EvolvesFrom
<1> QED BY <1>1, <1>3, <1>4, <1>6, <1>7, <1>8, <1>9, <1>11

\* The same for the requests of gpio and of pwm.
LEMMA RequestsQueue ==
  ASSUME Requests, NEW r \in RequestRecord, r.pc = "queued", uv_queue_work(r)
  PROVE  /\ Requests' /\ Len(Underway') = Len(Underway) + 1
         /\ \A k \in 1..Len(Underway') :
              Underway'[k] = r \/ \E j \in 1..Len(Underway) : Underway'[k] = Underway[j]
  BY ListsQueue DEF Requests

\* A worker goes on, or returns.
LEMMA RequestsWork ==
  ASSUME Requests, NEW i \in 1..Len(work), NEW r \in RequestRecord, Becomes(i, r)
  PROVE  /\ Requests' /\ Len(Underway') = Len(Underway)
         /\ \A k \in 1..Len(Underway') :
              Underway'[k] = r \/ \E j \in 1..Len(Underway) : Underway'[k] = Underway[j]
  BY ListsWork DEF Requests

\* A finished request calls back.
LEMMA RequestsDispatch ==
  ASSUME Requests, Dispatch
  PROVE  /\ Requests' /\ Len(Underway') = Len(Underway) - 1
         /\ Len(work) + 1 \in 1..Len(Underway) /\ Underway[Len(work) + 1] = Head(done)
         /\ Head(done) \in RequestRecord /\ Head(done).pc = "done" /\ 1 \in 1..Len(done)
         /\ \A k \in 1..Len(done') : k + 1 \in 1..Len(done) /\ done'[k] = done[k + 1]
         /\ \A k \in 1..Len(Underway') :
              \E j \in 1..Len(Underway) : Underway'[k] = Underway[j]
  BY ListsDispatch DEF Requests

\* A request whose worker has returned.
Returned(q, result) == [q EXCEPT !.result = result, !.pc = "done", !.count = 0]

\* What a worker's step makes of its request.
LEMMA ReturnBecomes ==
  ASSUME Requests, NEW i \in 1..Len(work), NEW result \in {"ok", "sys", "initialize", "write", "export"},
         Return(i, result)
  PROVE  Returned(work[i], result) \in RequestRecord /\ Becomes(i, Returned(work[i], result))
<1>1. work[i] \in RequestRecord BY DEF Requests, Lists
<1>2. Returned(work[i], result) \in RequestRecord /\ Returned(work[i], result).pc = "done"
  BY <1>1 DEF Returned, RequestRecord
<1> QED BY <1>2 DEF Returned, Return, Becomes
-----------------------------------------------------------------------------
(* The workers of gpio.                                                    *)

\* A write that succeeds has written, to a file that is there.
LEMMA WriteOutcome ==
  ASSUME NEW exists \in BOOLEAN, NEW w \in DeviceOpenWriteClose(exists)
  PROVE  w.wrote \in BOOLEAN /\ w.ok \in BOOLEAN /\ (w.ok => w.wrote) /\ (w.wrote => exists)
<1>1. CASE exists
  <2>1. w = [wrote |-> TRUE, ok |-> TRUE] \/ \E b \in BOOLEAN : w = [wrote |-> b, ok |-> FALSE]
    BY <1>1 DEF DeviceOpenWriteClose
  <2>2. CASE w = [wrote |-> TRUE, ok |-> TRUE] BY <1>1, <2>2
  <2>3. CASE \E b \in BOOLEAN : w = [wrote |-> b, ok |-> FALSE]
    <3>1. PICK b \in BOOLEAN : w = [wrote |-> b, ok |-> FALSE] BY <2>3
    <3>2. w.wrote = b /\ w.ok = FALSE BY <3>1
    <3> QED BY <1>1, <3>2
  <2> QED BY <2>1, <2>2, <2>3
<1>2. CASE ~exists
  <2>1. w = [wrote |-> FALSE, ok |-> FALSE] BY <1>2 DEF DeviceOpenWriteClose
  <2> QED BY <2>1
<1> QED BY <1>1, <1>2

\* All is not the number of a pin.
LEMMA AllIsNoPin == All \notin Pins /\ Pins \subseteq Int
<1>1. Cardinality(Pins) \in Nat /\ Pins = 1..Cardinality(Pins)
  BY SystemIoAssumption, FS_CardinalityType
<1> QED BY <1>1 DEF All

\* A step of a worker, which is as good as what it says of its pins.
LEMMA GpioWorks ==
  ASSUME GpioInv, module = "gpio", module' = module, NEW i \in 1..Len(work),
         NEW r \in RequestRecord, Becomes(i, r), r.op = work[i].op, r.pin = work[i].pin,
         GpioPlace(r), r.op = "open" => r.x = work[i].x /\ r.y = work[i].y,
         UNCHANGED <<gpio, raced, want, pwm>>,
         node' \in [Pins -> Nodes], attr' \in [Pins -> AttrRecord], aborted' \in BOOLEAN,
         aborted' => gpio.overlapped \/ gpio.badMode,
         \A p \in Pins : ~Touches(r, p) => node'[p] = node[p] /\ attr'[p] = attr[p],
         \A p \in Pins : Touches(r, p) /\ GpioKnows(p, node[p], attr[p], want[p], work[i]) =>
           GpioKnows(p, node'[p], attr'[p], want[p], r)
  PROVE  GpioInv'
<1>1. SysType' BY DEF GpioInv, SysType
<1>2. /\ Requests' /\ Len(Underway') = Len(Underway)
      /\ \A k \in 1..Len(Underway') :
           Underway'[k] = r \/ \E j \in 1..Len(Underway) : Underway'[k] = Underway[j]
  BY RequestsWork DEF GpioInv
<1>3. i \in 1..Len(Underway) /\ Underway[i] = work[i] BY UnderwayAt DEF GpioInv, Joined
<1>4. \A k \in 1..Len(Underway') : GpioPlace(Underway'[k]) BY <1>2 DEF GpioInv
<1>5. GpioAsserts' BY DEF GpioAsserts
<1>6. PinInv'
  <2>1. \A p \in Pins : ~Touches(r, p) => Same(p) BY DEF Same
  <2>2. \A p \in Pins : Touches(r, p) /\ KnowsOf(p, work[i]) /\ ~raced[p] => KnowsOf(p, r)'
    BY DEF KnowsOf, Knows
  <2>3. raced \in [Pins -> BOOLEAN] /\ PinInv /\ Requests BY DEF GpioInv, SysType
  <2> QED BY <2>1, <2>2, <2>3, PinsWork
<1>7. GpioFlags'
  <2> DEFINE Fine(q) ==
               /\ q.op = "initialize" => ~gpio.native /\ Len(Underway) = 1
               /\ q.op # "initialize" /\ ~gpio.overlapped => gpio.native
               /\ q.op = "release" /\ ~gpio.overlapped => Len(Underway) = 1
               /\ q.op = "open" /\ q.x # kGpioDirectionNone
                  /\ q.y \in {kGpioModeNone, kGpioModeOpendrain} => gpio.badMode
  <2>1. \A k \in 1..Len(Underway) : Fine(Underway[k]) BY DEF GpioInv, GpioFlags
  <2>2. Fine(r)
    <3>1. Fine(work[i]) BY <1>3, <2>1
    <3> QED BY <3>1
  <2> HIDE DEF Fine
  <2>3. \A k \in 1..Len(Underway') : Fine(Underway'[k]) BY <1>2, <2>1, <2>2
  <2> QED BY <1>2, <2>3 DEF GpioInv, GpioFlags, Fine
<1> QED BY <1>1, <1>2, <1>4, <1>5, <1>6, <1>7 DEF GpioInv

\* A request that is carried out, and what the flags say of it.
LEMMA GpioUnderway ==
  ASSUME GpioInv, NEW i \in 1..Len(work)
  PROVE  /\ work[i] \in RequestRecord /\ GpioPlace(work[i]) /\ work[i].pc # "done"
         /\ ~gpio.overlapped => gpio.native = (work[i].op # "initialize")
         /\ work[i].op = "open" /\ work[i].x # kGpioDirectionNone
            /\ work[i].y \in {kGpioModeNone, kGpioModeOpendrain} => gpio.badMode
<1>1. i \in 1..Len(Underway) /\ Underway[i] = work[i] BY UnderwayAt DEF GpioInv, Joined
<1>2. work[i] \in RequestRecord /\ work[i].pc # "done" BY DEF GpioInv, Requests, Lists
<1>3. gpio.native \in BOOLEAN BY DEF GpioInv, SysType
<1>4. /\ work[i].op = "initialize" => ~gpio.native
      /\ work[i].op # "initialize" /\ ~gpio.overlapped => gpio.native
      /\ work[i].op = "open" /\ work[i].x # kGpioDirectionNone
         /\ work[i].y \in {kGpioModeNone, kGpioModeOpendrain} => gpio.badMode
  BY <1>1 DEF GpioInv, GpioFlags
<1> QED BY <1>1, <1>2, <1>3, <1>4 DEF GpioInv

\* The assertion with which a worker begins.
LEMMA WorkerAsserts ==
  ASSUME GpioInv, ~aborted, NEW i \in 1..Len(work), NEW op, WORKER_INIT(i, op)
  PROVE  /\ aborted' \in BOOLEAN /\ (aborted' => gpio.overlapped \/ gpio.badMode)
         /\ work[i].pc = "queued" /\ work[i].op = op
<1>1. work[i].pc = "queued" /\ work[i].op = op BY DEF WORKER_INIT, Begins, Takes
<1>2. aborted' = (aborted \/ ~(gpio.native = (op # "initialize")))
  BY DEF WORKER_INIT, IOTJS_ASSERT
<1>3. ~gpio.overlapped => gpio.native = (op # "initialize") BY <1>1, GpioUnderway
<1> QED BY <1>1, <1>2, <1>3

\* A request that fails leaves nothing that is known.
LEMMA FailureSpoils ==
  ASSUME NEW p, NEW n, NEW a, NEW w, NEW r, r.pc = "done", r.result # "ok", r.op # "read"
  PROVE  GpioKnows(p, n, a, w, r)
<1>1. gpioLearn(r, w) = Spoiled BY DEF gpioLearn
<1> QED BY <1>1 DEF GpioKnows, GpioAtRest

\* initialize()
LEMMA InitializeKeeps ==
  ASSUME GpioInv, module = "gpio", module' = module, ~aborted, NEW i \in 1..Len(work),
         InitializeGpioWorker(i), UNCHANGED <<want, raced, gpio, pwm>>
  PROVE  GpioInv'
<1>1. /\ aborted' \in BOOLEAN /\ (aborted' => gpio.overlapped \/ gpio.badMode)
      /\ work[i].pc = "queued" /\ work[i].op = "initialize"
  BY WorkerAsserts DEF InitializeGpioWorker
<1>2. PICK result \in {"ok", "initialize"} : Return(i, result) BY DEF InitializeGpioWorker
<1>3. work[i] \in RequestRecord /\ GpioPlace(work[i]) BY GpioUnderway
<1>4. PICK r : r = Returned(work[i], result) OBVIOUS
<1>5. r \in RequestRecord /\ Becomes(i, r) BY <1>2, <1>4, ReturnBecomes DEF GpioInv
<1>6. /\ r.pc = "done" /\ r.op = "initialize" /\ r.pin = work[i].pin /\ r.result = result
      /\ GpioPlace(r)
  BY <1>1, <1>3, <1>4 DEF Returned, RequestRecord, GpioPlace
<1>7. ASSUME NEW p \in Pins, GpioKnows(p, node[p], attr[p], want[p], work[i])
      PROVE  GpioKnows(p, node[p], attr[p], want[p], r)
  <2>1. GpioAtRest(node[p], attr[p], want[p]) BY <1>1, <1>7 DEF GpioKnows
  <2>2. gpioLearn(r, want[p]) \in {want[p], Spoiled} BY <1>6 DEF gpioLearn
  <2> QED BY <1>6, <2>1, <2>2 DEF GpioKnows, GpioAtRest
<1>8. node' = node /\ attr' = attr BY DEF InitializeGpioWorker, sysfs
<1>9. node \in [Pins -> Nodes] /\ attr \in [Pins -> AttrRecord] BY DEF GpioInv, SysType
<1> QED BY <1>1, <1>3, <1>5, <1>6, <1>7, <1>8, <1>9, GpioWorks

\* release()
LEMMA ReleaseKeeps ==
  ASSUME GpioInv, module = "gpio", module' = module, ~aborted, NEW i \in 1..Len(work),
         ReleaseGpioWorker(i), UNCHANGED <<want, raced, gpio, pwm>>
  PROVE  GpioInv'
<1> DEFINE q == work[i]
<1>1. q \in RequestRecord /\ GpioPlace(q) /\ q.pc # "done" BY GpioUnderway
<1>2. node \in [Pins -> Nodes] /\ attr \in [Pins -> AttrRecord] /\ aborted \in BOOLEAN
  BY DEF GpioInv, SysType
<1>3. CASE /\ WORKER_INIT(i, "release")
           /\ Continue(i, [q EXCEPT !.pc = "unexport", !.rest = {p \in Pins : DeviceCheckPath(p)}])
           /\ UNCHANGED sysfs
  <2>1. /\ aborted' \in BOOLEAN /\ (aborted' => gpio.overlapped \/ gpio.badMode)
        /\ q.pc = "queued" /\ q.op = "release"
    BY <1>3, WorkerAsserts
  <2>2. PICK r : r = [q EXCEPT !.pc = "unexport", !.rest = {p \in Pins : DeviceCheckPath(p)}]
    OBVIOUS
  <2>3. /\ r \in RequestRecord /\ r.pc = "unexport" /\ r.op = "release" /\ r.pin = q.pin
        /\ r.rest = {p \in Pins : DeviceCheckPath(p)}
    BY <1>1, <2>1, <2>2 DEF RequestRecord
  <2>4. Becomes(i, r) BY <1>3, <2>2, <2>3 DEF Continue, Becomes
  <2>5. GpioPlace(r) BY <1>1, <2>1, <2>3 DEF GpioPlace
  <2>6. ASSUME NEW p \in Pins, GpioKnows(p, node[p], attr[p], want[p], q)
        PROVE  GpioKnows(p, node[p], attr[p], want[p], r)
    <3>1. GpioAtRest(node[p], attr[p], want[p]) BY <2>1, <2>6 DEF GpioKnows
    <3>2. p \notin r.rest /\ want[p] # Spoiled => node[p] = "absent"
      BY <2>3, <3>1 DEF GpioAtRest, DeviceCheckPath
    <3> QED BY <2>3, <3>2 DEF GpioKnows
  <2>7. node' = node /\ attr' = attr BY <1>3 DEF sysfs
  <2> QED BY <1>1, <1>2, <2>1, <2>3, <2>4, <2>5, <2>6, <2>7, GpioWorks
<1>4. CASE /\ At(i, "unexport") /\ q.rest # {}
           /\ \E p \in q.rest : \E w \in DeviceUnexport(p) :
                /\ node' = IF w.wrote THEN Unexported(p) ELSE node
                /\ Continue(i, [q EXCEPT !.rest = @ \ {p}, !.result = IF w.ok THEN @ ELSE "sys"])
           /\ UNCHANGED <<attr, aborted>>
  <2>1. q.pc = "unexport" /\ q.op = "release" /\ q.pin = All BY <1>1, <1>4 DEF At, GpioPlace
  <2>2. PICK u \in q.rest : \E w \in DeviceUnexport(u) :
          /\ node' = IF w.wrote THEN Unexported(u) ELSE node
          /\ Continue(i, [q EXCEPT !.rest = @ \ {u}, !.result = IF w.ok THEN @ ELSE "sys"])
    BY <1>4
  <2> PICK w \in DeviceUnexport(u) :
          /\ node' = IF w.wrote THEN Unexported(u) ELSE node
          /\ Continue(i, [q EXCEPT !.rest = @ \ {u}, !.result = IF w.ok THEN @ ELSE "sys"])
    BY <2>2
  <2>3. u \in Pins BY <1>1, <2>2 DEF RequestRecord
  <2>4. w.wrote \in BOOLEAN /\ w.ok \in BOOLEAN /\ (w.ok => w.wrote)
    BY <2>2, WriteOutcome DEF DeviceUnexport
  <2>5. PICK r : r = [q EXCEPT !.rest = @ \ {u}, !.result = IF w.ok THEN @ ELSE "sys"] OBVIOUS
  <2>6. /\ r \in RequestRecord /\ r.pc = "unexport" /\ r.op = "release" /\ r.pin = All
        /\ r.rest = q.rest \ {u} /\ r.result = IF w.ok THEN q.result ELSE "sys"
    BY <1>1, <2>1, <2>5 DEF RequestRecord
  <2>7. Becomes(i, r) BY <2>2, <2>5, <2>6 DEF Continue, Becomes
  <2>8. GpioPlace(r) BY <2>6 DEF GpioPlace
  <2>9. /\ node' \in [Pins -> Nodes] /\ (w.ok => node'[u] = "absent")
        /\ \A p \in Pins : p # u => node'[p] = node[p]
        /\ \A p \in Pins : node[p] = "absent" => node'[p] = "absent"
    BY <1>2, <2>2, <2>3, <2>4 DEF Unexported, Nodes
  <2>10. ASSUME NEW p \in Pins, GpioKnows(p, node[p], attr[p], want[p], q)
         PROVE  GpioKnows(p, node'[p], attr[p], want[p], r)
    <3>1. r.result = "ok" => w.ok /\ q.result = "ok" BY <2>4, <2>6
    <3>2. p \notin r.rest => p = u \/ p \notin q.rest BY <2>6
    <3>3. q.result = "ok" /\ want[p] # Spoiled /\ p \notin q.rest => node[p] = "absent"
      BY <2>1, <2>10 DEF GpioKnows
    <3>4. r.result = "ok" /\ want[p] # Spoiled /\ p \notin r.rest => node'[p] = "absent"
      BY <2>9, <3>1, <3>2, <3>3
    <3> QED BY <2>6, <3>4 DEF GpioKnows
  <2>11. attr' = attr /\ aborted' = aborted BY <1>4
  <2>12. \A p \in Pins : Touches(r, p) BY <2>6 DEF Touches
  <2> QED BY <1>2, <2>1, <2>6, <2>7, <2>8, <2>9, <2>10, <2>11, <2>12, GpioWorks
<1>5. CASE /\ At(i, "unexport") /\ q.rest = {} /\ Return(i, q.result)
           /\ UNCHANGED <<node, attr, aborted>>
  <2>1. q.pc = "unexport" /\ q.op = "release" BY <1>1, <1>5 DEF At, GpioPlace
  <2>2. PICK r : r = Returned(q, q.result) OBVIOUS
  <2>3. r \in RequestRecord /\ Becomes(i, r)
    BY <1>1, <1>5, <2>2, ReturnBecomes DEF GpioInv, RequestRecord
  <2>4. r.pc = "done" /\ r.op = "release" /\ r.pin = q.pin /\ r.result = q.result
    BY <1>1, <2>1, <2>2 DEF RequestRecord, Returned
  <2>5. GpioPlace(r) BY <1>1, <2>1, <2>4 DEF GpioPlace
  <2>6. ASSUME NEW p \in Pins, GpioKnows(p, node[p], attr[p], want[p], q)
        PROVE  GpioKnows(p, node[p], attr[p], want[p], r)
    <3>1. CASE r.result = "ok" /\ want[p] # Spoiled
      <4>1. node[p] = "absent" BY <1>5, <2>1, <2>4, <2>6, <3>1 DEF GpioKnows
      <4>2. gpioLearn(r, want[p]) = [Unknown EXCEPT !.exported = 0] BY <2>4, <3>1 DEF gpioLearn
      <4> QED BY <2>4, <4>1, <4>2 DEF GpioKnows, GpioAtRest, Unknown, None
    <3>2. CASE ~(r.result = "ok" /\ want[p] # Spoiled)
      <4>1. gpioLearn(r, want[p]) = Spoiled BY <2>4, <3>2 DEF gpioLearn
      <4> QED BY <2>4, <4>1 DEF GpioKnows, GpioAtRest
    <3> QED BY <3>1, <3>2
  <2> QED BY <1>1, <1>2, <1>5, <2>1, <2>3, <2>4, <2>5, <2>6, GpioWorks
<1> QED BY <1>3, <1>4, <1>5 DEF ReleaseGpioWorker

\* A worker of open() goes on at a place that says nothing of its pin, or returns an
\* error.
LEMMA OpenGoesOn ==
  ASSUME GpioInv, module = "gpio", module' = module, NEW i \in 1..Len(work),
         NEW q, q = work[i], q.op = "open", q.x # kGpioDirectionNone,
         UNCHANGED <<want, raced, gpio, pwm>>,
         aborted' \in BOOLEAN, aborted' => gpio.overlapped \/ gpio.badMode,
         NEW r, Becomes(i, r),
         \/ /\ \E pc \in {"check", "export", "directory", "files", "direction"}, n \in Nat :
                 r = [q EXCEPT !.pc = pc, !.count = n]
         \/ r = Returned(q, "sys"),
         node' \in [Pins -> Nodes], attr' \in [Pins -> AttrRecord],
         \A p \in Pins : p # q.pin => node'[p] = node[p] /\ attr'[p] = attr[p]
  PROVE  GpioInv'
<1>1. q \in RequestRecord /\ GpioPlace(q) BY GpioUnderway
<1>2. /\ r \in RequestRecord /\ r.op = "open" /\ r.pin = q.pin /\ r.x = q.x /\ r.y = q.y
      /\ \/ r.pc \in {"check", "export", "directory", "files", "direction"}
         \/ r.pc = "done" /\ r.result = "sys"
  <2>1. CASE \E pc \in {"check", "export", "directory", "files", "direction"}, n \in Nat :
               r = [q EXCEPT !.pc = pc, !.count = n]
    BY <1>1, <2>1 DEF RequestRecord
  <2>2. CASE r = Returned(q, "sys") BY <1>1, <2>2 DEF RequestRecord, Returned
  <2> QED BY <2>1, <2>2
<1>3. GpioPlace(r) BY <1>1, <1>2 DEF GpioPlace
<1>4. \A p \in Pins : GpioKnows(p, node'[p], attr'[p], want[p], r)
  BY <1>2, FailureSpoils DEF GpioKnows
<1>5. \A p \in Pins : ~Touches(r, p) => p # q.pin BY <1>2 DEF Touches
<1> QED BY <1>2, <1>3, <1>4, <1>5, GpioWorks

\* A worker of open() that waits for the pin to appear.
LEMMA ExportKeeps ==
  ASSUME GpioInv, module = "gpio", module' = module, ~aborted, NEW i \in 1..Len(work),
         DeviceExport(i, "direction", "sys"), UNCHANGED <<aborted, want, raced, gpio, pwm>>
  PROVE  GpioInv'
<1> DEFINE q == work[i]
           u == q.pin
<1>1. q \in RequestRecord /\ GpioPlace(q) /\ q.pc # "done" BY GpioUnderway
<1>2. q.pc \in {"check", "export", "directory", "files"} BY DEF DeviceExport
<1>3. q.op = "open" /\ q.x # kGpioDirectionNone /\ u \in Pins /\ q.count \in Nat
  BY <1>1, <1>2 DEF GpioPlace, RequestRecord
<1>4. node \in [Pins -> Nodes] /\ attr \in [Pins -> AttrRecord] /\ aborted' = FALSE
  BY DEF GpioInv, SysType
<1>5. ASSUME NEW r, Becomes(i, r),
             \/ /\ \E pc \in {"check", "export", "directory", "files", "direction"}, n \in Nat :
                     r = [q EXCEPT !.pc = pc, !.count = n]
             \/ r = Returned(q, "sys"),
             node' \in [Pins -> Nodes], attr' \in [Pins -> AttrRecord],
             \A p \in Pins : p # u => node'[p] = node[p] /\ attr'[p] = attr[p]
      PROVE  GpioInv'
  BY <1>3, <1>4, <1>5, OpenGoesOn
<1>6. ASSUME NEW pc \in {"check", "export", "directory", "files", "direction"}, NEW n \in Nat,
             Continue(i, [q EXCEPT !.pc = pc, !.count = n])
      PROVE  \E r : /\ Becomes(i, r)
                    /\ \E c \in {"check", "export", "directory", "files", "direction"}, m \in Nat :
                         r = [q EXCEPT !.pc = c, !.count = m]
  <2>1. [q EXCEPT !.pc = pc, !.count = n].pc = pc BY <1>1 DEF RequestRecord
  <2> QED BY <1>6, <2>1 DEF Becomes, Continue
<1>7. ASSUME NEW pc \in {"check", "export", "directory", "files", "direction"}, Goto(i, pc)
      PROVE  Continue(i, [q EXCEPT !.pc = pc, !.count = q.count])
  <2>1. [q EXCEPT !.pc = pc] = [q EXCEPT !.pc = pc, !.count = q.count]
    BY <1>1 DEF RequestRecord
  <2> QED BY <1>7, <2>1 DEF Goto
<1>8. ASSUME Return(i, "sys") PROVE Becomes(i, Returned(q, "sys"))
  BY <1>8, ReturnBecomes DEF GpioInv
<1>9. CASE q.pc = "check"
  <2>1. PICK pc \in {"direction", "export"} : Goto(i, pc) BY <1>9 DEF DeviceExport
  <2>2. node' = node /\ attr' = attr BY <1>9 DEF DeviceExport, sysfs
  <2> QED BY <1>3, <1>4, <1>5, <1>6, <1>7, <2>1, <2>2
<1>10. CASE q.pc = "export"
  <2>1. WriteStep(i, node[u] = "absent", [node EXCEPT ![u] = "requested"],
                  [attr EXCEPT ![u] = Fresh], "directory", "sys")
    BY <1>10 DEF DeviceExport
  <2>2. PICK w \in DeviceOpenWriteClose(node[u] = "absent") :
          /\ IF w.wrote THEN node' = [node EXCEPT ![u] = "requested"] /\ attr' = [attr EXCEPT ![u] = Fresh]
             ELSE UNCHANGED sysfs
          /\ IF w.ok THEN GoOn(i, "directory") ELSE Return(i, "sys")
    BY <2>1 DEF WriteStep
  <2>3. GoOn(i, "directory") <=> Goto(i, "directory") BY DEF GoOn
  <2>4. Fresh \in AttrRecord BY DEF Fresh, AttrRecord
  <2>5. /\ node' \in [Pins -> Nodes] /\ attr' \in [Pins -> AttrRecord]
        /\ \A p \in Pins : p # u => node'[p] = node[p] /\ attr'[p] = attr[p]
    BY <1>4, <2>2, <2>4 DEF Nodes, sysfs
  <2>6. Goto(i, "directory") \/ Return(i, "sys") BY <2>2, <2>3
  <2> QED BY <1>3, <1>5, <1>6, <1>7, <1>8, <2>5, <2>6
<1>11. CASE q.pc = "directory"
  <2>1. node' = node /\ attr' = attr BY <1>11 DEF DeviceExport, sysfs
  <2>2. Goto(i, "files") \/ Continue(i, [q EXCEPT !.count = @ + 1])
    BY <1>11 DEF DeviceExport, WaitDirectory
  <2>3. PICK n \in Nat : n = q.count + 1 BY <1>3
  <2>4. [q EXCEPT !.count = @ + 1] = [q EXCEPT !.pc = "directory", !.count = n]
    BY <1>1, <1>11, <2>3 DEF RequestRecord
  <2> QED BY <1>3, <1>4, <1>5, <1>6, <1>7, <2>1, <2>2, <2>4
<1>12. CASE q.pc = "files"
  <2>1. node' = node /\ attr' = attr BY <1>12 DEF DeviceExport, sysfs
  <2>2. \/ Continue(i, [q EXCEPT !.pc = "direction", !.count = 0]) \/ Return(i, "sys")
        \/ Continue(i, [q EXCEPT !.count = @ + 1])
    BY <1>12 DEF DeviceExport, WaitFiles
  <2>3. PICK n \in Nat : n = q.count + 1 BY <1>3
  <2>4. [q EXCEPT !.count = @ + 1] = [q EXCEPT !.pc = "files", !.count = n]
    BY <1>1, <1>12, <2>3 DEF RequestRecord
  <2> QED BY <1>3, <1>4, <1>5, <1>6, <1>8, <2>1, <2>2, <2>4
<1> QED BY <1>2, <1>9, <1>10, <1>11, <1>12

\* open(), and the direction and the mode that it sets.
LEMMA OpenKeeps ==
  ASSUME GpioInv, module = "gpio", module' = module, ~aborted, NEW i \in 1..Len(work),
         OpenGpioWorker(i), UNCHANGED <<want, raced, gpio, pwm>>
  PROVE  GpioInv'
<1> DEFINE q == work[i]
           u == q.pin
<1>1. q \in RequestRecord /\ GpioPlace(q) /\ q.pc # "done" BY GpioUnderway
<1>2. node \in [Pins -> Nodes] /\ attr \in [Pins -> AttrRecord] /\ aborted = FALSE
  BY DEF GpioInv, SysType
<1>3. CASE /\ q.x = kGpioDirectionNone /\ WORKER_INIT(i, "open")
           /\ WriteStep(i, node[u] # "absent", Unexported(u), attr, "end", "sys")
  <2>1. /\ aborted' \in BOOLEAN /\ (aborted' => gpio.overlapped \/ gpio.badMode)
        /\ q.pc = "queued" /\ q.op = "open"
    BY <1>3, WorkerAsserts
  <2>2. u \in Pins BY <1>1, <2>1 DEF GpioPlace
  <2>3. PICK w \in DeviceOpenWriteClose(node[u] # "absent") :
          /\ IF w.wrote THEN node' = Unexported(u) /\ attr' = attr ELSE UNCHANGED sysfs
          /\ IF w.ok THEN GoOn(i, "end") ELSE Return(i, "sys")
    BY <1>3 DEF WriteStep
  <2>4. w.wrote \in BOOLEAN /\ w.ok \in BOOLEAN /\ (w.ok => w.wrote) BY <2>3, WriteOutcome
  <2>5. PICK result \in {"ok", "sys"} : Return(i, result) /\ (result = "ok" => w.ok)
    BY <2>3, <2>4 DEF GoOn
  <2>6. PICK r : r = Returned(q, result) OBVIOUS
  <2>7. r \in RequestRecord /\ Becomes(i, r) BY <2>5, <2>6, ReturnBecomes DEF GpioInv
  <2>8. /\ r.pc = "done" /\ r.op = "open" /\ r.pin = u /\ r.result = result
        /\ r.x = kGpioDirectionNone /\ r.y = q.y
    BY <1>1, <1>3, <2>1, <2>6 DEF Returned, RequestRecord
  <2>9. GpioPlace(r)
    BY <2>2, <2>8 DEF GpioPlace, kGpioDirectionNone, kGpioDirectionOut
  <2>10. /\ node' \in [Pins -> Nodes] /\ attr' = attr
         /\ \A p \in Pins : p # u => node'[p] = node[p]
         /\ result = "ok" => node'[u] = "absent"
    BY <1>2, <2>2, <2>3, <2>4, <2>5 DEF Unexported, Nodes, sysfs
  <2>11. GpioKnows(u, node'[u], attr[u], want[u], r)
    <3>1. CASE result = "ok" /\ want[u] # Spoiled
      <4>1. gpioLearn(r, want[u]) = [Unknown EXCEPT !.exported = 0, !.dir = None, !.value = None]
        BY <2>8, <3>1 DEF gpioLearn, kGpioDirectionNone, kGpioDirectionOut
      <4> QED BY <2>8, <2>10, <3>1, <4>1 DEF GpioKnows, GpioAtRest, Unknown
    <3>2. CASE ~(result = "ok" /\ want[u] # Spoiled)
      <4>1. gpioLearn(r, want[u]) = Spoiled BY <2>8, <3>2 DEF gpioLearn
      <4> QED BY <2>8, <4>1 DEF GpioKnows, GpioAtRest
    <3> QED BY <3>1, <3>2
  <2>12. \A p \in Pins : Touches(r, p) <=> p = u BY <2>2, <2>8, AllIsNoPin DEF Touches
  <2> QED BY <1>2, <1>3, <2>1, <2>7, <2>8, <2>9, <2>10, <2>11, <2>12, GpioWorks
<1>4. CASE /\ q.x # kGpioDirectionNone /\ WORKER_INIT(i, "open")
           /\ Goto(i, "check") /\ UNCHANGED sysfs
  <2>1. /\ aborted' \in BOOLEAN /\ (aborted' => gpio.overlapped \/ gpio.badMode)
        /\ q.pc = "queued" /\ q.op = "open"
    BY <1>4, WorkerAsserts
  <2>2. PICK r : r = [q EXCEPT !.pc = "check", !.count = q.count] OBVIOUS
  <2>3. r = [q EXCEPT !.pc = "check"] /\ r.pc = "check" /\ q.count \in Nat
    BY <1>1, <2>2 DEF RequestRecord
  <2>4. Becomes(i, r) BY <1>4, <2>3 DEF Becomes, Goto, Continue
  <2>5. node' = node /\ attr' = attr BY <1>4 DEF sysfs
  <2> QED BY <1>2, <1>4, <2>1, <2>2, <2>3, <2>4, <2>5, OpenGoesOn
<1>5. CASE DeviceExport(i, "direction", "sys") /\ UNCHANGED aborted BY <1>5, ExportKeeps
<1>6. CASE At(i, "direction") /\ SetPinDirection(i) /\ UNCHANGED aborted
  <2>1. q.pc = "direction" BY <1>6 DEF At
  <2>2. q.op = "open" /\ q.x # kGpioDirectionNone /\ u \in Pins /\ q.x \in Int
    BY <1>1, <2>1 DEF GpioPlace, RequestRecord
  <2> DEFINE a == [attr EXCEPT ![u].dir = q.x,
                               ![u].value = IF q.x = kGpioDirectionOut THEN 0 ELSE @]
  <2>3. PICK w \in DeviceOpenWriteClose(node[u] = "ready") :
          /\ IF w.wrote THEN node' = node /\ attr' = a ELSE UNCHANGED sysfs
          /\ IF w.ok THEN GoOn(i, "mode") ELSE Return(i, "sys")
    BY <1>6 DEF SetPinDirection, WriteStep
  <2>4. w.wrote \in BOOLEAN /\ w.ok \in BOOLEAN /\ (w.ok => w.wrote) /\ (w.wrote => node[u] = "ready")
    BY <2>3, WriteOutcome
  <2>5. /\ a \in [Pins -> AttrRecord] /\ \A p \in Pins : p # u => a[p] = attr[p]
        /\ a[u].dir = q.x /\ (q.x = kGpioDirectionOut => a[u].value = 0)
    <3>0. attr[u] \in AttrRecord /\ attr[u].value \in Int BY <1>2, <2>2 DEF AttrRecord
    <3>1. PICK v \in Int : v = IF q.x = kGpioDirectionOut THEN 0 ELSE attr[u].value BY <3>0
    <3>2. PICK e : e = [attr[u] EXCEPT !.dir = q.x, !.value = v] OBVIOUS
    <3>3. e \in AttrRecord /\ e.dir = q.x /\ e.value = v BY <1>2, <2>2, <3>1, <3>2 DEF AttrRecord
    <3>4. a = [attr EXCEPT ![u] = e] BY <1>2, <2>2, <3>1, <3>2 DEF AttrRecord
    <3> QED BY <1>2, <2>2, <3>1, <3>3, <3>4
  <2> HIDE DEF a
  <2>6. /\ node' = node /\ attr' \in [Pins -> AttrRecord]
        /\ \A p \in Pins : p # u => attr'[p] = attr[p]
    BY <1>2, <2>3, <2>5 DEF sysfs
  <2>7. CASE w.ok
    <3>1. PICK r : r = [q EXCEPT !.pc = "mode"] OBVIOUS
    <3>2. /\ r \in RequestRecord /\ r.pc = "mode" /\ r.op = "open" /\ r.pin = u /\ r.x = q.x
          /\ r.y = q.y
      BY <1>1, <2>2, <3>1 DEF RequestRecord
    <3>3. Becomes(i, r) BY <2>3, <2>7, <3>1, <3>2 DEF GoOn, Goto, Continue, Becomes
    <3>4. GpioPlace(r) BY <1>1, <2>2, <3>2 DEF GpioPlace
    <3>5. GpioKnows(u, node[u], attr'[u], want[u], r) BY <2>3, <2>4, <2>5, <2>7, <3>2 DEF GpioKnows
    <3>6. \A p \in Pins : Touches(r, p) <=> p = u BY <2>2, <3>2, AllIsNoPin DEF Touches
    <3> QED BY <1>2, <1>6, <2>2, <2>6, <3>2, <3>3, <3>4, <3>5, <3>6, GpioWorks
  <2>8. CASE ~w.ok
    <3>1. Return(i, "sys") BY <2>3, <2>8
    <3>2. Becomes(i, Returned(q, "sys")) BY <3>1, ReturnBecomes DEF GpioInv
    <3> QED BY <1>2, <1>6, <2>2, <2>6, <3>2, OpenGoesOn
  <2> QED BY <2>7, <2>8
<1>7. CASE At(i, "mode") /\ SetPinMode(i)
  <2>1. q.pc = "mode" BY <1>7 DEF At
  <2>2. q.op = "open" /\ q.x # kGpioDirectionNone /\ u \in Pins /\ q.x \in Int
    BY <1>1, <2>1 DEF GpioPlace, RequestRecord
  <2>3. aborted' = (aborted \/ ~(q.y \notin {kGpioModeNone, kGpioModeOpendrain}))
    BY <1>7 DEF SetPinMode, IOTJS_ASSERT
  <2>4. aborted' \in BOOLEAN /\ (aborted' => gpio.badMode) BY <1>2, <2>2, <2>3, GpioUnderway
  <2>5. node' = node /\ attr' = attr /\ Return(i, "ok") BY <1>7 DEF SetPinMode, sysfs
  <2>6. PICK r : r = Returned(q, "ok") OBVIOUS
  <2>7. r \in RequestRecord /\ Becomes(i, r) BY <2>5, <2>6, ReturnBecomes DEF GpioInv
  <2>8. /\ r.pc = "done" /\ r.op = "open" /\ r.pin = u /\ r.result = "ok" /\ r.x = q.x
        /\ r.y = q.y
    BY <1>1, <2>2, <2>6 DEF Returned, RequestRecord
  <2>9. GpioPlace(r) BY <1>1, <2>2, <2>8 DEF GpioPlace
  <2>10. ASSUME GpioKnows(u, node[u], attr[u], want[u], q)
         PROVE  GpioKnows(u, node[u], attr[u], want[u], r)
    <3>1. node[u] = "ready" /\ attr[u].dir = q.x /\ (q.x = kGpioDirectionOut => attr[u].value = 0)
      BY <2>1, <2>10 DEF GpioKnows
    <3>2. CASE want[u] # Spoiled
      <4>1. gpioLearn(r, want[u]) =
              [Unknown EXCEPT !.exported = 1, !.dir = q.x,
                              !.value = IF q.x = kGpioDirectionOut THEN 0 ELSE None]
        BY <2>2, <2>8, <3>2 DEF gpioLearn
      <4> QED BY <2>8, <3>1, <4>1 DEF GpioKnows, GpioAtRest, Unknown
    <3>3. CASE want[u] = Spoiled
      <4>1. gpioLearn(r, want[u]) = Spoiled BY <2>8, <3>3 DEF gpioLearn
      <4> QED BY <2>8, <4>1 DEF GpioKnows, GpioAtRest
    <3> QED BY <3>2, <3>3
  <2>11. \A p \in Pins : Touches(r, p) <=> p = u BY <2>2, <2>8, AllIsNoPin DEF Touches
  <2> QED BY <1>2, <2>2, <2>4, <2>5, <2>7, <2>8, <2>9, <2>10, <2>11, GpioWorks
<1> QED BY <1>3, <1>4, <1>5, <1>6, <1>7 DEF OpenGpioWorker

\* write()
LEMMA WriteKeeps ==
  ASSUME GpioInv, module = "gpio", module' = module, ~aborted, NEW i \in 1..Len(work),
         WriteGpioWorker(i), UNCHANGED <<want, raced, gpio, pwm>>
  PROVE  GpioInv'
<1> DEFINE q == work[i]
           u == q.pin
           a == [attr EXCEPT ![u].value = q.x]
<1>1. q \in RequestRecord /\ GpioPlace(q) BY GpioUnderway
<1>2. node \in [Pins -> Nodes] /\ attr \in [Pins -> AttrRecord] BY DEF GpioInv, SysType
<1>3. /\ aborted' \in BOOLEAN /\ (aborted' => gpio.overlapped \/ gpio.badMode)
      /\ q.pc = "queued" /\ q.op = "write"
  BY WorkerAsserts DEF WriteGpioWorker
<1>4. u \in Pins /\ q.x \in Int BY <1>1, <1>3 DEF GpioPlace, RequestRecord
<1>5. PICK w \in DeviceOpenWriteClose(node[u] = "ready" /\ attr[u].dir = kGpioDirectionOut) :
        /\ IF w.wrote THEN node' = node /\ attr' = a ELSE UNCHANGED sysfs
        /\ IF w.ok THEN GoOn(i, "end") ELSE Return(i, "sys")
  BY DEF WriteGpioWorker, WriteStep
<1>6. /\ w.wrote \in BOOLEAN /\ w.ok \in BOOLEAN /\ (w.ok => w.wrote)
      /\ w.wrote => node[u] = "ready" /\ attr[u].dir = kGpioDirectionOut
  BY <1>5, WriteOutcome
<1>7. /\ a \in [Pins -> AttrRecord] /\ \A p \in Pins : p # u => a[p] = attr[p]
      /\ a[u].value = q.x /\ a[u].dir = attr[u].dir
  BY <1>2, <1>4 DEF AttrRecord
<1> HIDE DEF a
<1>8. /\ node' = node /\ attr' \in [Pins -> AttrRecord]
      /\ \A p \in Pins : p # u => attr'[p] = attr[p]
  BY <1>2, <1>5, <1>7 DEF sysfs
<1>9. PICK result \in {"ok", "sys"} : Return(i, result) /\ (result = "ok" => w.ok)
  BY <1>5, <1>6 DEF GoOn
<1>10. PICK r : r = Returned(q, result) OBVIOUS
<1>11. r \in RequestRecord /\ Becomes(i, r) BY <1>9, <1>10, ReturnBecomes DEF GpioInv
<1>12. r.pc = "done" /\ r.op = "write" /\ r.pin = u /\ r.result = result /\ r.x = q.x
  BY <1>1, <1>3, <1>10 DEF Returned, RequestRecord
<1>13. GpioPlace(r) BY <1>4, <1>12 DEF GpioPlace
<1>14. ASSUME GpioKnows(u, node[u], attr[u], want[u], q)
       PROVE  GpioKnows(u, node[u], attr'[u], want[u], r)
  <2>1. GpioAtRest(node[u], attr[u], want[u]) BY <1>3, <1>14 DEF GpioKnows
  <2>2. CASE result = "ok" /\ want[u] # Spoiled
    <3>1. /\ node[u] = "ready" /\ attr'[u].dir = kGpioDirectionOut /\ attr[u].dir = kGpioDirectionOut
          /\ attr'[u].value = q.x
      BY <1>5, <1>6, <1>7, <1>9, <2>2
    <3>2. gpioLearn(r, want[u]) = [want[u] EXCEPT !.value = q.x]
      BY <1>12, <2>2 DEF gpioLearn
    <3>3. want[u] \in WantRecord BY <1>4 DEF GpioInv, SysType
    <3>4. LET v == gpioLearn(r, want[u]) IN
          v.exported = want[u].exported /\ v.dir = want[u].dir /\ v.value = q.x
      BY <3>2, <3>3 DEF WantRecord
    <3> QED BY <1>12, <2>1, <2>2, <3>1, <3>4 DEF GpioKnows, GpioAtRest
  <2>3. CASE ~(result = "ok" /\ want[u] # Spoiled)
    <3>1. gpioLearn(r, want[u]) = Spoiled BY <1>12, <2>3 DEF gpioLearn
    <3> QED BY <1>12, <3>1 DEF GpioKnows, GpioAtRest
  <2> QED BY <2>2, <2>3
<1>15. \A p \in Pins : Touches(r, p) <=> p = u BY <1>4, <1>12, AllIsNoPin DEF Touches
<1> QED BY <1>2, <1>3, <1>8, <1>11, <1>12, <1>13, <1>14, <1>15, GpioWorks

\* read()
LEMMA ReadKeeps ==
  ASSUME GpioInv, module = "gpio", module' = module, ~aborted, NEW i \in 1..Len(work),
         ReadGpioWorker(i), UNCHANGED <<want, raced, gpio, pwm>>
  PROVE  GpioInv'
<1> DEFINE q == work[i]
           u == q.pin
<1>1. q \in RequestRecord /\ GpioPlace(q) BY GpioUnderway
<1>2. node \in [Pins -> Nodes] /\ attr \in [Pins -> AttrRecord] BY DEF GpioInv, SysType
<1>3. /\ aborted' \in BOOLEAN /\ (aborted' => gpio.overlapped \/ gpio.badMode)
      /\ q.pc = "queued" /\ q.op = "read"
  BY WorkerAsserts DEF ReadGpioWorker
<1>4. u \in Pins BY <1>1, <1>3 DEF GpioPlace
<1>5. node' = node /\ attr' = attr BY DEF ReadGpioWorker, sysfs
<1>6. ASSUME NEW r \in RequestRecord, Becomes(i, r), r.pc = "done", r.op = "read", r.pin = u,
             r.result = "ok" /\ attr[u].dir = kGpioDirectionOut => r.x = attr[u].value
      PROVE  GpioInv'
  <2>1. GpioPlace(r) BY <1>4, <1>6 DEF GpioPlace
  <2>2. ASSUME GpioKnows(u, node[u], attr[u], want[u], q)
        PROVE  GpioKnows(u, node[u], attr[u], want[u], r)
    <3>1. GpioAtRest(node[u], attr[u], want[u]) BY <1>3, <2>2 DEF GpioKnows
    <3>2. gpioLearn(r, want[u]) = want[u] BY <1>6 DEF gpioLearn
    <3>3. want[u] = Spoiled => want[u].value = None BY DEF Spoiled, Unknown
    <3> QED BY <1>6, <3>1, <3>2, <3>3 DEF GpioKnows, GpioAtRest
  <2>3. \A p \in Pins : Touches(r, p) <=> p = u BY <1>4, <1>6, AllIsNoPin DEF Touches
  <2> QED BY <1>2, <1>3, <1>5, <1>6, <2>1, <2>2, <2>3, GpioWorks
<1>7. CASE Return(i, "sys")
  <2>1. PICK r : r = Returned(q, "sys") OBVIOUS
  <2>2. r \in RequestRecord /\ Becomes(i, r) BY <1>7, <2>1, ReturnBecomes DEF GpioInv
  <2>3. r.pc = "done" /\ r.op = "read" /\ r.pin = u /\ r.result = "sys"
    BY <1>1, <1>3, <2>1 DEF Returned, RequestRecord
  <2> QED BY <1>6, <2>2, <2>3
<1>8. CASE \E value \in {0, 1} :
             /\ attr[u].dir = kGpioDirectionOut => value = attr[u].value
             /\ work' = RemoveAt(work, i)
             /\ done' = Append(done, [q EXCEPT !.x = value, !.pc = "done"])
  <2>1. PICK value \in {0, 1} :
          /\ attr[u].dir = kGpioDirectionOut => value = attr[u].value
          /\ work' = RemoveAt(work, i)
          /\ done' = Append(done, [q EXCEPT !.x = value, !.pc = "done"])
    BY <1>8
  <2>2. PICK r : r = [q EXCEPT !.x = value, !.pc = "done"] OBVIOUS
  <2>3. r \in RequestRecord /\ r.pc = "done" /\ r.op = "read" /\ r.pin = u /\ r.x = value
    <3>1. value \in Int BY <2>1
    <3> QED BY <1>1, <1>3, <2>2, <3>1 DEF RequestRecord
  <2>4. Becomes(i, r) BY <2>1, <2>2, <2>3 DEF Becomes
  <2> QED BY <1>6, <2>1, <2>3, <2>4
<1> QED BY <1>7, <1>8 DEF ReadGpioWorker

-----------------------------------------------------------------------------
(* The calls of gpio, what calls back, and the kernel.                     *)

\* A call queues a request for a pin, or for all.
LEMMA GpioCalls ==
  ASSUME GpioInv, module = "gpio", module' = module, ~aborted, NEW r \in RequestRecord,
         r.pc = "queued", GpioPlace(r), NEW initialized \in BOOLEAN, GPIO_ASYNC(r, initialized),
         gpio.initialized = initialized, initialized = (r.op # "initialize"),
         r.op = "initialize" => ~gpio.initializing,
         UNCHANGED pwm, gpio' \in [initializing : BOOLEAN, initialized : BOOLEAN,
                                  native : BOOLEAN, overlapped : BOOLEAN, badMode : BOOLEAN],
         gpio'.initializing, gpio'.initialized = gpio.initialized, gpio'.native = gpio.native,
         gpio.overlapped => gpio'.overlapped, gpio.badMode => gpio'.badMode,
         r.op = "release" /\ Underway # <<>> => gpio'.overlapped,
         r.op # "release" /\ releasing => gpio'.overlapped,
         r.op = "open" /\ r.x # kGpioDirectionNone
            /\ r.y \in {kGpioModeNone, kGpioModeOpendrain} => gpio'.badMode
  PROVE  GpioInv'
<1>1. /\ SysType /\ Requests /\ GpioFlags /\ PinInv
      /\ \A i \in 1..Len(Underway) : GpioPlace(Underway[i])
  BY DEF GpioInv
<1>2. aborted' = (aborted \/ ~(gpio.native = initialized)) BY DEF GPIO_ASYNC, IOTJS_ASSERT
<1>3. aborted' = FALSE
  <2>1. gpio.native = gpio.initialized /\ gpio.native \in BOOLEAN BY <1>1 DEF SysType, GpioFlags
  <2> QED BY <1>2, <2>1
<1>4. /\ uv_queue_work(r) /\ raced' = [p \in Pins |-> raced[p] \/ Collides(r, p)]
      /\ UNCHANGED <<node, attr, want>>
  BY DEF GPIO_ASYNC
<1>5. SysType'
  <2>1. raced' \in [Pins -> BOOLEAN] BY <1>1, <1>4 DEF SysType, Collides
  <2> QED BY <1>1, <1>3, <1>4, <2>1 DEF SysType
<1>6. /\ Requests' /\ Len(Underway') = Len(Underway) + 1
      /\ \A k \in 1..Len(Underway') :
           Underway'[k] = r \/ \E j \in 1..Len(Underway) : Underway'[k] = Underway[j]
  BY <1>1, <1>4, RequestsQueue
<1>7. PinInv'
  <2>1. \A p \in Pins : Touches(r, p) /\ RestOf(p) => KnowsOf(p, r)'
    BY <1>4 DEF RestOf, KnowsOf, AtRest, Knows, GpioKnows
  <2>2. raced \in [Pins -> BOOLEAN] BY <1>1 DEF SysType
  <2> QED BY <1>1, <1>4, <2>1, <2>2, PinsQueue
<1>8. \A k \in 1..Len(Underway') : GpioPlace(Underway'[k]) BY <1>1, <1>6
<1>9. Len(Underway) \in Nat /\ (Len(Underway) = 0 <=> Underway = <<>>)
  BY <1>1, UnderwayAt
<1>10. GpioFlags'
  <2> DEFINE Fine(q) ==
               /\ q.op = "initialize" => ~gpio'.native /\ Len(Underway') = 1
               /\ q.op # "initialize" /\ ~gpio'.overlapped => gpio'.native
               /\ q.op = "release" /\ ~gpio'.overlapped => Len(Underway') = 1
               /\ q.op = "open" /\ q.x # kGpioDirectionNone
                  /\ q.y \in {kGpioModeNone, kGpioModeOpendrain} => gpio'.badMode
  <2>1. gpio.native = gpio.initialized /\ gpio.native \in BOOLEAN BY <1>1 DEF SysType, GpioFlags
  <2>2. Fine(r)
    <3>1. r.op = "initialize" => Len(Underway) = 0 BY <1>1 DEF GpioFlags
    <3>2. r.op = "release" /\ ~gpio'.overlapped => Len(Underway) = 0 BY <1>9
    <3> QED BY <1>6, <1>9, <2>1, <3>1, <3>2
  <2>3. ASSUME NEW j \in 1..Len(Underway) PROVE Fine(Underway[j])
    <3>1. r.op # "initialize" BY <1>1, <1>9 DEF GpioFlags
    <3>2. gpio.native BY <2>1, <3>1
    <3>3. Underway[j].op # "initialize" BY <1>1, <3>2 DEF GpioFlags
    <3>4. Underway[j].op = "release" => gpio'.overlapped
      <4>1. Underway # <<>> BY <1>9
      <4>2. Underway[j].op = "release" => releasing BY DEF releasing
      <4> QED BY <4>1, <4>2
    <3>5. Underway[j].op = "open" /\ Underway[j].x # kGpioDirectionNone
            /\ Underway[j].y \in {kGpioModeNone, kGpioModeOpendrain} => gpio.badMode
      BY <1>1 DEF GpioFlags
    <3> QED BY <3>2, <3>3, <3>4, <3>5
  <2> HIDE DEF Fine
  <2>4. \A k \in 1..Len(Underway') : Fine(Underway'[k]) BY <1>6, <2>2, <2>3
  <2> QED BY <2>1, <2>4 DEF GpioFlags, Fine
<1>11. GpioAsserts' BY <1>3 DEF GpioAsserts
<1> QED BY <1>5, <1>6, <1>7, <1>8, <1>10, <1>11 DEF GpioInv

\* A request is made with one argument, or with none.
LEMMA ArgumentsGiven ==
  ASSUME NEW q \in RequestRecord, q.x = None, q.y = None, NEW v \in Int
  PROVE  /\ [q EXCEPT !.x = v] = [q EXCEPT !.x = v, !.y = None]
         /\ q = [q EXCEPT !.x = None, !.y = None]
<1>1. [q EXCEPT !.x = v] = [q EXCEPT !.x = v, !.y = None] BY DEF RequestRecord
<1>2. q = [q EXCEPT !.x = None, !.y = None] BY DEF RequestRecord
<1> QED BY <1>1, <1>2

\* The calls.
LEMMA GpioCallsKeep ==
  ASSUME GpioInv, module = "gpio", module' = module, ~aborted, UNCHANGED pwm,
         \/ Initialize \/ Release
         \/ \E pin \in Pins :
              \/ \E dir \in {kGpioDirectionIn, kGpioDirectionOut}, mode \in Modes : gpioOpen(pin, dir, mode)
              \/ gpioOpen(pin, kGpioDirectionNone, kGpioModeNone)
              \/ \E value \in {0, 1} : gpioWrite(pin, value)
              \/ gpioRead(pin)
  PROVE  GpioInv'
<1>1. /\ gpio \in [initializing : BOOLEAN, initialized : BOOLEAN, native : BOOLEAN,
                   overlapped : BOOLEAN, badMode : BOOLEAN]
      /\ gpio.initialized => gpio.initializing
  BY DEF GpioInv, SysType, GpioFlags
<1>2. None \in Int /\ All \in Int BY DEF None, All
<1>3. CASE Initialize
  <2>1. PICK r : r = Request("initialize", All) OBVIOUS
  <2>2. /\ r \in RequestRecord /\ r.op = "initialize" /\ r.pin = All /\ r.pc = "queued"
    BY <1>2, <2>1 DEF Request, RequestRecord
  <2>3. GpioPlace(r) BY <2>2 DEF GpioPlace
  <2>4. /\ ~gpio.initialized /\ ~gpio.initializing /\ gpio' = [gpio EXCEPT !.initializing = TRUE]
        /\ GPIO_ASYNC(r, FALSE)
    BY <1>3, <2>1 DEF Initialize
  <2>5. gpio' \in [initializing : BOOLEAN, initialized : BOOLEAN, native : BOOLEAN,
                   overlapped : BOOLEAN, badMode : BOOLEAN]
        /\ gpio'.initializing /\ gpio'.initialized = gpio.initialized /\ gpio'.native = gpio.native
        /\ gpio'.overlapped = gpio.overlapped /\ gpio'.badMode = gpio.badMode
    BY <1>1, <2>4
  <2>6. ~releasing
    <3>1. Len(Underway) = 0 BY <2>4 DEF GpioInv, GpioFlags
    <3> QED BY <3>1 DEF releasing
  <2>7. gpio.initialized = FALSE BY <1>1, <2>4
  <2> QED BY <2>2, <2>3, <2>4, <2>5, <2>6, <2>7, GpioCalls
<1>4. CASE Release
  <2>1. PICK r : r = Request("release", All) OBVIOUS
  <2>2. /\ r \in RequestRecord /\ r.op = "release" /\ r.pin = All /\ r.pc = "queued"
    BY <1>2, <2>1 DEF Request, RequestRecord
  <2>3. GpioPlace(r) BY <2>2 DEF GpioPlace
  <2>4. /\ gpio.initialized /\ gpio' = [gpio EXCEPT !.overlapped = @ \/ Underway # <<>>]
        /\ GPIO_ASYNC(r, TRUE)
    BY <1>4, <2>1 DEF Release
  <2>5. gpio' \in [initializing : BOOLEAN, initialized : BOOLEAN, native : BOOLEAN,
                   overlapped : BOOLEAN, badMode : BOOLEAN]
        /\ gpio'.initializing /\ gpio'.initialized = gpio.initialized /\ gpio'.native = gpio.native
        /\ gpio'.overlapped = (gpio.overlapped \/ Underway # <<>>) /\ gpio'.badMode = gpio.badMode
    BY <1>1, <2>4
  <2>6. gpio.initialized = TRUE BY <1>1, <2>4
  <2> QED BY <2>2, <2>3, <2>4, <2>5, <2>6, GpioCalls
<1>5. ASSUME NEW pin \in Pins, NEW op \in {"open", "write", "read"}, NEW x \in Int, NEW y \in Int,
             gpio.initialized, NEW bad \in BOOLEAN,
             gpio' = [gpio EXCEPT !.overlapped = @ \/ releasing, !.badMode = @ \/ bad],
             op = "open" => x \in kGpioDirectionNone..kGpioDirectionOut,
             op = "open" /\ x # kGpioDirectionNone
               /\ y \in {kGpioModeNone, kGpioModeOpendrain} => bad,
             GPIO_ASYNC([Request(op, pin) EXCEPT !.x = x, !.y = y], TRUE)
      PROVE  GpioInv'
  <2>1. PICK r : r = [Request(op, pin) EXCEPT !.x = x, !.y = y] OBVIOUS
  <2>2. /\ r \in RequestRecord /\ r.op = op /\ r.pin = pin /\ r.pc = "queued" /\ r.x = x /\ r.y = y
    BY <1>2, <2>1, AllIsNoPin DEF Request, RequestRecord
  <2>3. GpioPlace(r) BY <1>5, <2>2 DEF GpioPlace
  <2>4. gpio' \in [initializing : BOOLEAN, initialized : BOOLEAN, native : BOOLEAN,
                   overlapped : BOOLEAN, badMode : BOOLEAN]
        /\ gpio'.initializing /\ gpio'.initialized = gpio.initialized /\ gpio'.native = gpio.native
        /\ gpio'.overlapped = (gpio.overlapped \/ releasing) /\ gpio'.badMode = (gpio.badMode \/ bad)
    BY <1>1, <1>5 DEF releasing
  <2>5. gpio.initialized = TRUE BY <1>1, <1>5
  <2> QED BY <1>5, <2>1, <2>2, <2>3, <2>4, <2>5, GpioCalls
<1>6. gpio.badMode \in BOOLEAN /\ \A f : [gpio EXCEPT !.overlapped = f] =
        [gpio EXCEPT !.overlapped = f, !.badMode = @ \/ FALSE]
  BY <1>1
<1>7. CASE \E pin \in Pins, dir \in {kGpioDirectionIn, kGpioDirectionOut}, mode \in Modes :
             gpioOpen(pin, dir, mode)
  <2>1. PICK pin \in Pins, dir \in {kGpioDirectionIn, kGpioDirectionOut}, mode \in Modes :
          gpioOpen(pin, dir, mode)
    BY <1>7
  <2>2. mode \in Int BY <2>1, GpioAssumption DEF kGpioModeNone, kGpioModeOpendrain
  <2>3. dir \in Int /\ dir \in kGpioDirectionNone..kGpioDirectionOut /\ dir # kGpioDirectionNone
    BY DEF kGpioDirectionNone, kGpioDirectionIn, kGpioDirectionOut
  <2>4. PICK bad \in BOOLEAN :
          bad = (dir # kGpioDirectionNone /\ mode \in {kGpioModeNone, kGpioModeOpendrain})
    OBVIOUS
  <2> QED BY <1>5, <2>1, <2>2, <2>3, <2>4 DEF gpioOpen
<1>8. CASE \E pin \in Pins : gpioOpen(pin, kGpioDirectionNone, kGpioModeNone)
  <2>1. PICK pin \in Pins : gpioOpen(pin, kGpioDirectionNone, kGpioModeNone) BY <1>8
  <2>2. kGpioDirectionNone \in Int /\ kGpioDirectionNone \in kGpioDirectionNone..kGpioDirectionOut
        /\ kGpioModeNone \in Int
    BY DEF kGpioDirectionNone, kGpioDirectionOut, kGpioModeNone
  <2>3. /\ gpio.initialized
        /\ gpio' = [gpio EXCEPT !.overlapped = @ \/ releasing, !.badMode = @ \/ FALSE]
        /\ GPIO_ASYNC([Request("open", pin) EXCEPT !.x = kGpioDirectionNone, !.y = kGpioModeNone], TRUE)
    BY <2>1 DEF gpioOpen
  <2> QED BY <1>5, <2>2, <2>3
<1>9. CASE \E pin \in Pins, value \in {0, 1} : gpioWrite(pin, value)
  <2>1. PICK pin \in Pins, value \in {0, 1} : gpioWrite(pin, value) BY <1>9
  <2>2. value \in Int /\ pin \in Int BY AllIsNoPin
  <2>3. [Request("write", pin) EXCEPT !.x = value] =
          [Request("write", pin) EXCEPT !.x = value, !.y = None]
    <3>1. PICK q : q = Request("write", pin) OBVIOUS
    <3>2. q \in RequestRecord /\ q.x = None /\ q.y = None
      BY <1>2, <2>2, <3>1 DEF Request, RequestRecord
    <3> QED BY <1>2, <2>2, <3>1, <3>2, ArgumentsGiven
  <2>4. /\ gpio.initialized
        /\ gpio' = [gpio EXCEPT !.overlapped = @ \/ releasing, !.badMode = @ \/ FALSE]
        /\ GPIO_ASYNC([Request("write", pin) EXCEPT !.x = value, !.y = None], TRUE)
    BY <1>6, <2>1, <2>3 DEF gpioWrite
  <2> QED BY <1>2, <1>5, <2>2, <2>4
<1>10. CASE \E pin \in Pins : gpioRead(pin)
  <2>1. PICK pin \in Pins : gpioRead(pin) BY <1>10
  <2>2. pin \in Int BY AllIsNoPin
  <2>3. Request("read", pin) = [Request("read", pin) EXCEPT !.x = None, !.y = None]
    <3>1. PICK q : q = Request("read", pin) OBVIOUS
    <3>2. q \in RequestRecord /\ q.x = None /\ q.y = None
      BY <1>2, <2>2, <3>1 DEF Request, RequestRecord
    <3> QED BY <1>2, <2>2, <3>1, <3>2, ArgumentsGiven
  <2>4. /\ gpio.initialized
        /\ gpio' = [gpio EXCEPT !.overlapped = @ \/ releasing, !.badMode = @ \/ FALSE]
        /\ GPIO_ASYNC([Request("read", pin) EXCEPT !.x = None, !.y = None], TRUE)
    BY <1>6, <2>1, <2>3 DEF gpioRead
  <2> QED BY <1>2, <1>5, <2>4
<1> QED BY <1>3, <1>4, <1>7, <1>8, <1>9, <1>10

\* A pin that appears was not known to be there, or not to be.
LEMMA AppearKeepsPins ==
  ASSUME PinInv, module' = module, UNCHANGED pwm, NEW u \in Pins, Appear(u),
         node \in [Pins -> Nodes]
  PROVE  PinInv' /\ node' \in [Pins -> Nodes]
<1>1. UNCHANGED <<work, done, attr, want, raced>> BY DEF Appear
<1>2. Underway' = Underway BY <1>1 DEF Underway
<1>3. /\ node' \in [Pins -> Nodes]
      /\ \A p \in Pins : node'[p] = node[p] \/ node[p] \in {"requested", "made"}
  BY DEF Appear, Nodes
<1>4. ASSUME NEW p \in Pins, NEW r, KnowsOf(p, r) PROVE KnowsOf(p, r)'
  <2>1. CASE node'[p] = node[p] BY <1>1, <1>4, <2>1 DEF KnowsOf
  <2>2. CASE node[p] \in {"requested", "made"}
    BY <1>1, <1>4, <2>2 DEF KnowsOf, Knows, GpioKnows, GpioAtRest, PwmKnows, PwmAtRest, PwmDevice
  <2> QED BY <1>3, <2>1, <2>2
<1>5. ASSUME NEW p \in Pins, RestOf(p) PROVE RestOf(p)'
  <2>1. CASE node'[p] = node[p] BY <1>1, <1>5, <2>1 DEF RestOf
  <2>2. CASE node[p] \in {"requested", "made"}
    BY <1>1, <1>5, <2>2 DEF RestOf, AtRest, GpioAtRest, PwmAtRest, PwmDevice
  <2> QED BY <1>3, <2>1, <2>2
<1>6. /\ \A i, j \in 1..Len(Underway), p \in Pins :
           Touches(Underway[i], p) /\ Touches(Underway[j], p) /\ i # j => raced[p]
      /\ \A i \in 1..Len(Underway), p \in Pins :
           Touches(Underway[i], p) /\ ~raced[p] => KnowsOf(p, Underway[i])
      /\ \A p \in Pins : Settled(p) => RestOf(p)
  BY DEF PinInv
<1>7. \A i \in 1..Len(Underway), p \in Pins : KnowsOf(p, Underway[i]) => KnowsOf(p, Underway[i])'
  <2> SUFFICES ASSUME NEW i \in 1..Len(Underway), NEW p \in Pins, KnowsOf(p, Underway[i])
               PROVE  KnowsOf(p, Underway[i])'
    OBVIOUS
  <2>1. PICK r : r = Underway[i] OBVIOUS
  <2>2. KnowsOf(p, r)' BY <1>4, <2>1
  <2> QED BY <1>2, <2>1, <2>2 DEF KnowsOf
<1>8. \A p \in Pins : Settled(p)' <=> Settled(p) BY <1>1, <1>2 DEF Settled
<1>9. PinInv' BY <1>1, <1>2, <1>5, <1>6, <1>7, <1>8 DEF PinInv
<1> QED BY <1>3, <1>9

\* The files of a pin appear.
LEMMA GpioAppearKeeps ==
  ASSUME GpioInv, module' = module, UNCHANGED <<pwm, gpio>>, NEW u \in Pins, Appear(u)
  PROVE  GpioInv'
<1>1. PinInv /\ node \in [Pins -> Nodes] BY DEF GpioInv, SysType
<1>2. PinInv' /\ node' \in [Pins -> Nodes] BY <1>1, AppearKeepsPins
<1>3. UNCHANGED <<work, done, attr, want, raced, aborted>> BY DEF Appear
<1>4. Underway' = Underway BY <1>3 DEF Underway
<1>5. SysType' BY <1>2, <1>3 DEF GpioInv, SysType
<1>6. Requests' /\ GpioFlags' /\ GpioAsserts' /\ \A i \in 1..Len(Underway') : GpioPlace(Underway'[i])
  BY <1>3, <1>4 DEF GpioInv, Requests, Lists, GpioFlags, GpioAsserts
<1> QED BY <1>2, <1>5, <1>6 DEF GpioInv

\* A request calls back: its result becomes what is known of its pins.
LEMMA AfterGpioKeeps ==
  ASSUME GpioInv, module = "gpio", module' = module, UNCHANGED pwm, AfterGPIOWork
  PROVE  GpioInv'
<1>1. PICK r : r = Head(done) OBVIOUS
<1>2. /\ Dispatch /\ gpio' = gpioFlags(r) /\ UNCHANGED <<node, attr, raced, aborted>>
      /\ want' = [p \in Pins |-> IF Touches(r, p) THEN gpioLearn(r, want[p]) ELSE want[p]]
  BY <1>1 DEF AfterGPIOWork
<1>3. SysType /\ Requests /\ GpioFlags /\ GpioAsserts /\ PinInv BY DEF GpioInv
<1>4. /\ Requests' /\ Len(Underway') = Len(Underway) - 1
      /\ Len(work) + 1 \in 1..Len(Underway) /\ Underway[Len(work) + 1] = r
      /\ r \in RequestRecord /\ r.pc = "done"
      /\ \A k \in 1..Len(Underway') : \E j \in 1..Len(Underway) : Underway'[k] = Underway[j]
  BY <1>1, <1>2, <1>3, RequestsDispatch
<1>5. Len(Underway) \in Nat BY <1>3, UnderwayAt
<1>6. PinInv'
  <2>1. \A p \in Pins : ~Touches(r, p) => Same(p) BY <1>2 DEF Same
  <2>2. ASSUME NEW p \in Pins, Touches(r, p), KnowsOf(p, r) PROVE RestOf(p)'
    <3>1. GpioAtRest(node[p], attr[p], gpioLearn(r, want[p]))
      BY <1>4, <2>2 DEF KnowsOf, Knows, GpioKnows
    <3>2. want'[p] = gpioLearn(r, want[p]) BY <1>2, <2>2
    <3> QED BY <1>2, <3>1, <3>2 DEF RestOf, AtRest
  <2>3. raced \in [Pins -> BOOLEAN] BY <1>3 DEF SysType
  <2> QED BY <1>1, <1>2, <1>3, <2>1, <2>2, <2>3, PinsDispatch
<1>7. want' \in [Pins -> WantRecord]
  <2>1. ASSUME NEW w \in WantRecord PROVE gpioLearn(r, w) \in WantRecord
    <3>1. r.x \in Int BY <1>4 DEF RequestRecord
    <3>2. Unknown \in WantRecord /\ Spoiled \in WantRecord
      BY DEF Unknown, Spoiled, WantRecord, None, Undefined
    <3>3. [Unknown EXCEPT !.exported = 0] \in WantRecord BY <3>2 DEF WantRecord
    <3>4. ASSUME NEW e \in Int, NEW d \in Int, NEW v \in Int
          PROVE  [Unknown EXCEPT !.exported = e, !.dir = d, !.value = v] \in WantRecord
      BY <3>2 DEF WantRecord
    <3>5. [w EXCEPT !.value = r.x] \in WantRecord BY <3>1 DEF WantRecord
    <3>6. r.op = "open" => \E e, d, v \in Int : gpioLearn(r, w) \in
            {w, Spoiled, [Unknown EXCEPT !.exported = e, !.dir = d, !.value = v]}
      <4>1. PICK e \in Int : e = IF r.x = kGpioDirectionNone THEN 0 ELSE 1 OBVIOUS
      <4>2. PICK d \in Int : d = IF r.x = kGpioDirectionNone THEN None ELSE r.x
        BY <3>1 DEF None
      <4>3. PICK v \in Int : v = IF r.x = kGpioDirectionOut THEN 0 ELSE None BY DEF None
      <4> QED BY <4>1, <4>2, <4>3 DEF gpioLearn
    <3>7. r.op # "open" => gpioLearn(r, w) \in
            {w, Spoiled, [Unknown EXCEPT !.exported = 0], [w EXCEPT !.value = r.x]}
      BY DEF gpioLearn
    <3>8. CASE r.op = "open"
      <4>1. PICK e \in Int, d \in Int, v \in Int : gpioLearn(r, w) \in
              {w, Spoiled, [Unknown EXCEPT !.exported = e, !.dir = d, !.value = v]}
        BY <3>6, <3>8
      <4>2. [Unknown EXCEPT !.exported = e, !.dir = d, !.value = v] \in WantRecord BY <3>4
      <4> QED BY <3>2, <4>1, <4>2
    <3>9. CASE r.op # "open" BY <3>2, <3>3, <3>5, <3>7, <3>9
    <3> QED BY <3>8, <3>9
  <2> QED BY <1>2, <1>3, <2>1 DEF SysType
<1>8. GpioFlags' /\ GpioAsserts' /\ gpio' \in [initializing : BOOLEAN, initialized : BOOLEAN,
                      native : BOOLEAN, overlapped : BOOLEAN, badMode : BOOLEAN]
  <2>1. /\ gpio \in [initializing : BOOLEAN, initialized : BOOLEAN, native : BOOLEAN,
                     overlapped : BOOLEAN, badMode : BOOLEAN]
        /\ gpio.native = gpio.initialized /\ gpio.initializing
    BY <1>3, <1>4 DEF SysType, GpioFlags
  <2>2. \A k \in 1..Len(Underway) :
          LET q == Underway[k] IN
          /\ q.op = "initialize" => Len(Underway) = 1
          /\ q.op # "initialize" /\ ~gpio.overlapped => gpio.native
          /\ q.op = "release" /\ ~gpio.overlapped => Len(Underway) = 1
          /\ q.op = "open" /\ q.x # kGpioDirectionNone
             /\ q.y \in {kGpioModeNone, kGpioModeOpendrain} => gpio.badMode
    BY <1>3 DEF GpioFlags
  <2>3. /\ r.op = "initialize" => Len(Underway) = 1
        /\ r.op = "release" /\ ~gpio.overlapped => Len(Underway) = 1
    BY <1>4, <2>2
  <2>4. /\ gpio' \in [initializing : BOOLEAN, initialized : BOOLEAN, native : BOOLEAN,
                      overlapped : BOOLEAN, badMode : BOOLEAN]
        /\ gpio'.native = gpio'.initialized /\ gpio'.initializing
        /\ gpio'.overlapped = gpio.overlapped /\ gpio'.badMode = gpio.badMode
        /\ \/ gpio'.native = gpio.native \/ r.op = "initialize" \/ r.op = "release"
    <3>1. CASE r.op = "initialize"
      <4>1. PICK b \in BOOLEAN : b = (r.result = "ok") OBVIOUS
      <4>2. gpio' = [gpio EXCEPT !.native = b, !.initialized = b]
        BY <1>2, <3>1, <4>1 DEF gpioFlags
      <4> QED BY <2>1, <3>1, <4>2
    <3>2. CASE r.op = "release" /\ r.result = "ok"
      <4>1. gpio' = [gpio EXCEPT !.native = FALSE, !.initialized = FALSE]
        BY <1>2, <3>2 DEF gpioFlags
      <4> QED BY <2>1, <3>2, <4>1
    <3>3. CASE r.op # "initialize" /\ ~(r.op = "release" /\ r.result = "ok")
      <4>1. gpio' = gpio BY <1>2, <3>3 DEF gpioFlags
      <4> QED BY <2>1, <4>1
    <3> QED BY <3>1, <3>2, <3>3
  <2>5. ASSUME NEW k \in 1..Len(Underway')
        PROVE  LET q == Underway'[k] IN
               /\ q.op # "initialize"
               /\ ~gpio'.overlapped => gpio'.native
               /\ q.op = "release" => gpio'.overlapped
               /\ q.op = "open" /\ q.x # kGpioDirectionNone
                  /\ q.y \in {kGpioModeNone, kGpioModeOpendrain} => gpio'.badMode
    <3>1. PICK j \in 1..Len(Underway) : Underway'[k] = Underway[j] BY <1>4
    <3>2. Len(Underway) # 1 BY <1>4, <1>5
    <3>3. r.op # "initialize" /\ (r.op = "release" => gpio.overlapped) BY <2>3, <3>2
    <3>4. PICK q : q = Underway[j] OBVIOUS
    <3>5. /\ q.op # "initialize" /\ (~gpio.overlapped => gpio.native)
          /\ q.op = "release" => gpio.overlapped
          /\ q.op = "open" /\ q.x # kGpioDirectionNone
             /\ q.y \in {kGpioModeNone, kGpioModeOpendrain} => gpio.badMode
      BY <2>2, <3>2, <3>4
    <3> QED BY <2>4, <3>1, <3>3, <3>4, <3>5
  <2>6. GpioFlags' BY <2>4, <2>5 DEF GpioFlags
  <2>7. GpioAsserts' BY <1>2, <1>3, <2>4 DEF GpioAsserts
  <2> QED BY <2>4, <2>6, <2>7
<1>9. SysType' BY <1>2, <1>3, <1>7, <1>8 DEF SysType
<1>10. \A k \in 1..Len(Underway') : GpioPlace(Underway'[k]) BY <1>4 DEF GpioInv
<1> QED BY <1>4, <1>6, <1>8, <1>9, <1>10 DEF GpioInv

\* Every step of gpio.
LEMMA GpioNextKeeps ==
  ASSUME GpioInv, module = "gpio", module' = module, ~aborted, UNCHANGED pwm, GpioNext
  PROVE  GpioInv'
<1>1. CASE \E i \in 1..Len(work) : GpioWorker(i)
  <2>1. PICK i \in 1..Len(work) : GpioWorker(i) BY <1>1
  <2>2. /\ \/ InitializeGpioWorker(i) \/ ReleaseGpioWorker(i) \/ OpenGpioWorker(i)
           \/ WriteGpioWorker(i) \/ ReadGpioWorker(i)
        /\ UNCHANGED <<want, raced, gpio, pwm>>
    BY <2>1 DEF GpioWorker
  <2> QED BY <2>2, InitializeKeeps, ReleaseKeeps, OpenKeeps, WriteKeeps, ReadKeeps
<1>2. CASE AfterGPIOWork BY <1>2, AfterGpioKeeps
<1>3. CASE (\E pin \in Pins : Appear(pin)) /\ UNCHANGED gpio BY <1>3, GpioAppearKeeps
<1>4. CASE \/ Initialize \/ Release
           \/ \E pin \in Pins :
                \/ \E dir \in {kGpioDirectionIn, kGpioDirectionOut}, mode \in Modes :
                     gpioOpen(pin, dir, mode)
                \/ gpioOpen(pin, kGpioDirectionNone, kGpioModeNone)
                \/ \E value \in {0, 1} : gpioWrite(pin, value)
                \/ gpioRead(pin)
  BY <1>4, GpioCallsKeep
<1> QED BY <1>1, <1>2, <1>3, <1>4 DEF GpioNext

\* What the invariant says of the pins.
LEMMA GpioInvSays ==
  ASSUME GpioInv, module = "gpio"
  PROVE  GpioAsserts /\ PinAsWanted
<1>1. ASSUME NEW p \in Pins, Settled(p)
      PROVE  /\ want[p].exported = 0 => node[p] = "absent"
             /\ want[p].exported = 1 => node[p] = "ready" /\ attr[p].dir = want[p].dir
             /\ want[p].value # None => attr[p].value = want[p].value
  <2>1. GpioAtRest(node[p], attr[p], want[p]) BY <1>1 DEF GpioInv, PinInv, RestOf, AtRest
  <2>2. want[p] = Spoiled => want[p].exported = Undefined /\ want[p].value = None
    BY DEF Spoiled, Unknown
  <2> QED BY <2>1, <2>2 DEF GpioAtRest, Undefined
<1>2. ASSUME NEW p \in Pins, NEW i \in 1..Len(done), ~raced[p], done[i].op = "read",
             done[i].pin = p, done[i].result = "ok", want[p].value # None
      PROVE  done[i].x = want[p].value
  <2>1. Len(work) + i \in 1..Len(Underway) /\ Underway[Len(work) + i] = done[i]
    <3>1. Requests BY DEF GpioInv
    <3> QED BY <3>1, UnderwayAt DEF Joined
  <2>2. KnowsOf(p, done[i]) BY <1>2, <2>1 DEF GpioInv, PinInv, Touches
  <2>3. done[i].pc = "done" BY DEF GpioInv, Requests, Lists
  <2> QED BY <1>2, <2>2, <2>3 DEF KnowsOf, Knows, GpioKnows
<1> QED BY <1>1, <1>2 DEF GpioInv, PinAsWanted

-----------------------------------------------------------------------------
(* The workers of pwm.                                                     *)

\* A step of a worker, which is as good as what it says of its pin.
LEMMA PwmWorks ==
  ASSUME PwmInv, module = "pwm", module' = module, NEW i \in 1..Len(work),
         NEW r \in RequestRecord, Becomes(i, r), r.op = work[i].op, NEW u, r.pin = u,
         work[i].pin = u, PwmPlace(r),
         UNCHANGED <<gpio, raced, want, pwm>>,
         node' \in [Pins -> Nodes], attr' \in [Pins -> AttrRecord], aborted' \in BOOLEAN,
         aborted => aborted', r.op = "setFrequency" /\ r.pc = "done" => aborted',
         \A p \in Pins : p # u => node'[p] = node[p] /\ attr'[p] = attr[p],
         attr'[u].duty <= attr'[u].period,
         PwmKnows(node[u], attr[u], want[u], pwm[u], work[i]) =>
           PwmKnows(node'[u], attr'[u], want[u], pwm[u], r)
  PROVE  PwmInv'
<1>1. SysType' BY DEF PwmInv, SysType
<1>2. /\ Requests' /\ \A k \in 1..Len(Underway') :
           Underway'[k] = r \/ \E j \in 1..Len(Underway) : Underway'[k] = Underway[j]
  BY RequestsWork DEF PwmInv
<1>3. \A k \in 1..Len(Underway') : PwmPlace(Underway'[k]) BY <1>2 DEF PwmInv
<1>4. u \in Pins BY DEF PwmPlace
<1>5. \A p \in Pins : Touches(r, p) <=> p = u BY <1>4, AllIsNoPin DEF Touches
<1>6. PinInv'
  <2>1. \A p \in Pins : ~Touches(r, p) => Same(p) BY <1>5 DEF Same
  <2>2. \A p \in Pins : Touches(r, p) /\ KnowsOf(p, work[i]) /\ ~raced[p] => KnowsOf(p, r)'
    BY <1>5 DEF KnowsOf, Knows
  <2>3. raced \in [Pins -> BOOLEAN] /\ PinInv /\ Requests BY DEF PwmInv, SysType
  <2> QED BY <2>1, <2>2, <2>3, PinsWork
<1>7. ASSUME NEW k \in 1..Len(done'), done'[k].op = "setFrequency" PROVE aborted'
  <2>1. done \in Seq(RequestRecord) /\ \A j \in 1..Len(done) : done[j].op = "setFrequency" => aborted
    BY DEF PwmInv, Requests, Lists
  <2>2. CASE done' = done BY <1>7, <2>1, <2>2
  <2>3. CASE r.pc = "done" /\ done' = Append(done, r)
    <3>1. (k \in 1..Len(done) /\ done'[k] = done[k]) \/ done'[k] = r BY <2>1, <2>3
    <3> QED BY <1>7, <2>1, <2>3, <3>1
  <2> QED BY <2>2, <2>3 DEF Becomes
<1>8. \A p \in Pins : attr'[p].duty <= attr'[p].period BY DEF PwmInv
<1> QED BY <1>1, <1>2, <1>3, <1>6, <1>7, <1>8 DEF PwmInv

\* A request that is carried out.
LEMMA PwmUnderway ==
  ASSUME PwmInv, NEW i \in 1..Len(work)
  PROVE  work[i] \in RequestRecord /\ PwmPlace(work[i]) /\ work[i].pc # "done"
<1>1. i \in 1..Len(Underway) /\ Underway[i] = work[i] BY UnderwayAt DEF PwmInv, Joined
<1> QED BY <1>1 DEF PwmInv, Requests, Lists

\* A request that fails leaves nothing that is known.
LEMMA PwmFailureSpoils ==
  ASSUME NEW n, NEW a, NEW w, NEW o, NEW r, o.made, r.pc = "done", r.result # "ok"
  PROVE  PwmKnows(n, a, w, o, r)
<1>1. pwmLearn(r, w) = Spoiled BY DEF pwmLearn
<1> QED BY <1>1 DEF PwmKnows, PwmAtRest, PwmDevice, PwmTied

\* A worker that returns, or goes on at another place.
LEMMA PwmReturns ==
  ASSUME PwmInv, module = "pwm", module' = module, NEW i \in 1..Len(work), NEW q, q = work[i],
         NEW u, u = q.pin, NEW result \in {"ok", "write", "export"}, Return(i, result),
         UNCHANGED <<gpio, raced, want, pwm>>,
         node' \in [Pins -> Nodes], attr' \in [Pins -> AttrRecord], aborted' \in BOOLEAN,
         aborted => aborted', q.op = "setFrequency" => aborted',
         \A p \in Pins : p # u => node'[p] = node[p] /\ attr'[p] = attr[p],
         attr'[u].duty <= attr'[u].period,
         PwmKnows(node[u], attr[u], want[u], pwm[u], q) /\ result = "ok" =>
           PwmKnows(node'[u], attr'[u], want[u], pwm[u], Returned(q, "ok"))
  PROVE  PwmInv'
<1>1. q \in RequestRecord /\ PwmPlace(q) BY PwmUnderway
<1>2. PICK r : r = Returned(q, result) OBVIOUS
<1>3. r \in RequestRecord /\ Becomes(i, r) BY <1>2, ReturnBecomes DEF PwmInv
<1>4. r.pc = "done" /\ r.op = q.op /\ r.pin = u /\ r.result = result
  BY <1>1, <1>2 DEF Returned, RequestRecord
<1>5. PwmPlace(r) BY <1>1, <1>4 DEF PwmPlace
<1>6. ASSUME PwmKnows(node[u], attr[u], want[u], pwm[u], q)
      PROVE  PwmKnows(node'[u], attr'[u], want[u], pwm[u], r)
  <2>1. CASE result = "ok" BY <1>2, <1>6, <2>1
  <2>2. CASE result # "ok"
    <3>1. pwm[u].made BY <1>6 DEF PwmKnows
    <3> QED BY <1>4, <2>2, <3>1, PwmFailureSpoils
  <2> QED BY <2>1, <2>2
<1> QED BY <1>3, <1>4, <1>5, <1>6, PwmWorks

\* The worker of export goes on.
LEMMA PwmGoesOn ==
  ASSUME PwmInv, module = "pwm", module' = module, ~aborted, NEW i \in 1..Len(work),
         NEW q, q = work[i], q.op = "export", NEW u, u = q.pin,
         NEW pc \in {"check", "export", "directory", "files", "period", "duty"}, NEW n \in Nat,
         NEW r, r = [q EXCEPT !.pc = pc, !.count = n], Continue(i, r),
         UNCHANGED <<gpio, raced, want, pwm, aborted>>,
         node' \in [Pins -> Nodes], attr' \in [Pins -> AttrRecord],
         \A p \in Pins : p # u => node'[p] = node[p] /\ attr'[p] = attr[p],
         attr'[u].duty <= attr'[u].period,
         PwmKnows(node[u], attr[u], want[u], pwm[u], q) =>
           /\ pc \in {"check", "export"} => node'[u] = "absent"
           /\ pc \in {"check", "export", "directory", "files", "period"} => q.x \in {pwm[u].period, 0}
           /\ pc \in {"period", "duty"} => node'[u] = "ready"
           /\ pc = "duty" /\ q.x >= 0 => attr'[u].period = q.x /\ q.x = pwm[u].period
  PROVE  PwmInv'
<1>1. q \in RequestRecord /\ PwmPlace(q) /\ q.pc # "done" BY PwmUnderway
<1>2. r \in RequestRecord /\ r.pc = pc /\ r.op = "export" /\ r.pin = u /\ r.x = q.x
  BY <1>1 DEF RequestRecord
<1>3. Becomes(i, r) BY <1>2 DEF Becomes, Continue
<1>4. PwmPlace(r) BY <1>1, <1>2 DEF PwmPlace
<1>5. ASSUME PwmKnows(node[u], attr[u], want[u], pwm[u], q)
      PROVE  PwmKnows(node'[u], attr'[u], want[u], pwm[u], r)
  <2>1. pwm[u].made /\ want[u] = Unknown BY <1>1, <1>5 DEF PwmKnows
  <2> QED BY <1>2, <1>5, <2>1 DEF PwmKnows
<1>6. aborted' \in BOOLEAN /\ (aborted => aborted') BY DEF PwmInv, SysType
<1>7. r.op = work[i].op /\ work[i].pin = u /\ (r.op = "setFrequency" /\ r.pc = "done" => aborted')
  BY <1>2
<1>8. UNCHANGED <<gpio, raced, want, pwm>> OBVIOUS
<1>9. PwmKnows(node[u], attr[u], want[u], pwm[u], work[i]) =>
        PwmKnows(node'[u], attr'[u], want[u], pwm[u], r)
  BY <1>5
<1>10. r \in RequestRecord /\ r.pin = u BY <1>2
<1> QED BY <1>3, <1>4, <1>6, <1>7, <1>8, <1>9, <1>10, PwmWorks, ZenonT(60)

\* A worker that exports a pin and waits for it to appear.
LEMMA PwmExportKeeps ==
  ASSUME PwmInv, module = "pwm", module' = module, ~aborted, NEW i \in 1..Len(work),
         DeviceExport(i, "period", "export"), UNCHANGED <<gpio, raced, want, pwm, aborted>>
  PROVE  PwmInv'
<1>1. PICK q : q = work[i] OBVIOUS
<1>2. PICK u : u = q.pin OBVIOUS
<1>3. q \in RequestRecord /\ PwmPlace(q) /\ q.pc # "done" BY <1>1, PwmUnderway
<1>4. q.pc \in {"check", "export", "directory", "files"} BY <1>1 DEF DeviceExport
<1>5. q.op = "export" /\ u \in Pins /\ q.count \in Nat BY <1>2, <1>3, <1>4 DEF PwmPlace, RequestRecord
<1>6. /\ node \in [Pins -> Nodes] /\ attr \in [Pins -> AttrRecord]
      /\ aborted' \in BOOLEAN /\ (aborted => aborted') /\ attr[u].duty <= attr[u].period
  BY <1>5 DEF PwmInv, SysType
<1> DEFINE K == PwmKnows(node[u], attr[u], want[u], pwm[u], q)
<1>7. K => /\ q.pc \in {"check", "export"} => node[u] = "absent"
           /\ q.x \in {pwm[u].period, 0}
  BY <1>4, <1>5 DEF PwmKnows
<1>8. ASSUME NEW pc \in {"export", "directory", "files", "period"}, NEW n \in Nat,
             Continue(i, [q EXCEPT !.pc = pc, !.count = n]),
             node' \in [Pins -> Nodes], attr' \in [Pins -> AttrRecord],
             \A p \in Pins : p # u => node'[p] = node[p] /\ attr'[p] = attr[p],
             attr'[u].duty <= attr'[u].period,
             K => /\ pc = "export" => node'[u] = "absent"
                  /\ pc = "period" => node'[u] = "ready"
      PROVE  PwmInv'
  <2>1. PICK r : r = [q EXCEPT !.pc = pc, !.count = n] OBVIOUS
  <2>2. Continue(i, r) BY <1>8, <2>1
  <2>3. K => /\ pc \in {"check", "export"} => node'[u] = "absent"
             /\ pc \in {"check", "export", "directory", "files", "period"} => q.x \in {pwm[u].period, 0}
             /\ pc \in {"period", "duty"} => node'[u] = "ready"
             /\ pc = "duty" /\ q.x >= 0 => attr'[u].period = q.x /\ q.x = pwm[u].period
    BY <1>7, <1>8
  <2>4. pc \in {"check", "export", "directory", "files", "period", "duty"} OBVIOUS
  <2> QED BY <1>1, <1>2, <1>5, <1>8, <2>1, <2>2, <2>3, <2>4, PwmGoesOn, ZenonT(60)
<1>9. ASSUME Return(i, "export"), node' \in [Pins -> Nodes], attr' \in [Pins -> AttrRecord],
             \A p \in Pins : p # u => node'[p] = node[p] /\ attr'[p] = attr[p],
             attr'[u].duty <= attr'[u].period
      PROVE  PwmInv'
  BY <1>1, <1>2, <1>5, <1>6, <1>9, PwmReturns
<1>10. ASSUME NEW pc PROVE Goto(i, pc) => Continue(i, [q EXCEPT !.pc = pc, !.count = q.count])
  <2>1. [q EXCEPT !.pc = pc] = [q EXCEPT !.pc = pc, !.count = q.count] BY <1>3 DEF RequestRecord
  <2> QED BY <1>1, <2>1 DEF Goto
<1>11. CASE q.pc = "check"
  <2>1. /\ node' = node /\ attr' = attr
        /\ Goto(i, IF DeviceCheckPath(u) THEN "period" ELSE "export")
    BY <1>1, <1>2, <1>11 DEF DeviceExport, sysfs
  <2>2. CASE DeviceCheckPath(u)
    <3>1. ~K BY <1>7, <1>11, <2>2 DEF DeviceCheckPath
    <3>2. Continue(i, [q EXCEPT !.pc = "period", !.count = q.count]) BY <1>10, <2>1, <2>2
    <3> QED BY <1>5, <1>6, <1>8, <2>1, <3>1, <3>2
  <2>3. CASE ~DeviceCheckPath(u)
    <3>1. Continue(i, [q EXCEPT !.pc = "export", !.count = q.count]) BY <1>10, <2>1, <2>3
    <3>2. K => node'[u] = "absent" BY <1>7, <1>11, <2>1
    <3> QED BY <1>5, <1>6, <1>8, <2>1, <3>1, <3>2
  <2> QED BY <2>2, <2>3
<1>12. CASE q.pc = "export"
  <2>1. PICK w \in DeviceOpenWriteClose(node[u] = "absent") :
          /\ IF w.wrote THEN node' = [node EXCEPT ![u] = "requested"] /\ attr' = [attr EXCEPT ![u] = Fresh]
             ELSE UNCHANGED sysfs
          /\ IF w.ok THEN GoOn(i, "directory") ELSE Return(i, "export")
    BY <1>1, <1>2, <1>12 DEF DeviceExport, WriteStep
  <2>2. Fresh \in AttrRecord /\ Fresh.duty <= Fresh.period BY DEF Fresh, AttrRecord
  <2>3. /\ node' \in [Pins -> Nodes] /\ attr' \in [Pins -> AttrRecord]
        /\ \A p \in Pins : p # u => node'[p] = node[p] /\ attr'[p] = attr[p]
    BY <1>6, <2>1, <2>2 DEF Nodes, sysfs
  <2>4. attr'[u] = attr[u] \/ attr'[u] = Fresh BY <1>5, <1>6, <2>1 DEF sysfs
  <2>5. attr'[u].duty <= attr'[u].period BY <1>6, <2>2, <2>4
  <2>6. CASE w.ok
    <3>1. Continue(i, [q EXCEPT !.pc = "directory", !.count = q.count])
      BY <1>10, <2>1, <2>6 DEF GoOn
    <3> QED BY <1>5, <1>8, <2>3, <2>5, <3>1
  <2>7. CASE ~w.ok BY <1>9, <2>1, <2>3, <2>5, <2>7
  <2> QED BY <2>6, <2>7
<1>13. ASSUME NEW pc, pc = q.pc, pc \in {"directory", "files"}
       PROVE  Continue(i, [q EXCEPT !.count = @ + 1]) =>
                \E n \in Nat : Continue(i, [q EXCEPT !.pc = pc, !.count = n])
  <2>1. PICK n \in Nat : n = q.count + 1 BY <1>5
  <2>2. [q EXCEPT !.count = @ + 1] = [q EXCEPT !.pc = pc, !.count = n]
    BY <1>3, <1>13, <2>1 DEF RequestRecord
  <2> QED BY <2>2
<1>14. CASE q.pc = "directory"
  <2>1. node' = node /\ attr' = attr BY <1>1, <1>14 DEF DeviceExport, sysfs
  <2>2. Goto(i, "files") \/ Continue(i, [q EXCEPT !.count = @ + 1])
    BY <1>1, <1>14 DEF DeviceExport, WaitDirectory
  <2>3. PICK pc \in {"directory", "files"}, n \in Nat : Continue(i, [q EXCEPT !.pc = pc, !.count = n])
    BY <1>5, <1>10, <1>13, <1>14, <2>2
  <2> QED BY <1>6, <1>8, <2>1, <2>3
<1>15. CASE q.pc = "files"
  <2>1. node' = node /\ attr' = attr BY <1>1, <1>15 DEF DeviceExport, sysfs
  <2>2. \/ node[u] = "ready" /\ Continue(i, [q EXCEPT !.pc = "period", !.count = 0])
        \/ Return(i, "export")
        \/ Continue(i, [q EXCEPT !.count = @ + 1])
    <3>1. PICK readable \in DeviceOpenReadClose(u) :
            CASE readable \/ q.count >= CountLimit ->
                   IF q.count < CountLimit THEN Continue(i, [q EXCEPT !.pc = "period", !.count = 0])
                   ELSE Return(i, "export")
              [] OTHER -> Continue(i, [q EXCEPT !.count = @ + 1])
      BY <1>1, <1>2, <1>15 DEF DeviceExport, WaitFiles
    <3>2. readable => node[u] = "ready" BY <3>1 DEF DeviceOpenReadClose
    <3>3. CountLimit \in Nat BY SystemIoAssumption
    <3> QED BY <1>5, <3>1, <3>2, <3>3
  <2>3. CASE node[u] = "ready" /\ Continue(i, [q EXCEPT !.pc = "period", !.count = 0])
    BY <1>6, <1>8, <2>1, <2>3
  <2>4. CASE Return(i, "export") BY <1>6, <1>9, <2>1, <2>4
  <2>5. CASE Continue(i, [q EXCEPT !.count = @ + 1])
    <3>1. PICK n \in Nat : Continue(i, [q EXCEPT !.pc = "files", !.count = n]) BY <1>13, <1>15, <2>5
    <3> QED BY <1>6, <1>8, <2>1, <3>1
  <2> QED BY <2>2, <2>3, <2>4, <2>5
<1> QED BY <1>4, <1>11, <1>12, <1>14, <1>15

\* The period is written.
LEMMA PeriodWritten ==
  ASSUME PwmInv, module = "pwm", module' = module, ~aborted, NEW i \in 1..Len(work),
         NEW q, q = work[i], NEW u, u = q.pin, NEW pc \in {"duty", "end"}, SetPwmPeriod(i, pc)
  PROVE  /\ node' = node /\ attr' \in [Pins -> AttrRecord]
         /\ \A p \in Pins : p # u => attr'[p] = attr[p]
         /\ attr'[u].duty <= attr'[u].period
         /\ \/ Return(i, "write")
            \/ node[u] = "ready" /\ q.x > 0 /\ attr'[u].period = q.x /\ GoOn(i, pc)
<1>1. q \in RequestRecord /\ PwmPlace(q) BY PwmUnderway
<1>2. u \in Pins /\ q.x \in Int BY <1>1 DEF PwmPlace, RequestRecord
<1>3. attr \in [Pins -> AttrRecord] /\ attr[u].duty <= attr[u].period
  BY <1>2 DEF PwmInv, SysType
<1> DEFINE a == [attr EXCEPT ![u].period = q.x]
           exists == node[u] = "ready" /\ q.x > 0 /\ q.x >= attr[u].duty
<1>4. PICK w \in DeviceOpenWriteClose(exists) :
        /\ IF w.wrote THEN node' = node /\ attr' = a ELSE UNCHANGED sysfs
        /\ IF w.ok THEN GoOn(i, pc) ELSE Return(i, "write")
  BY DEF SetPwmPeriod, WriteStep
<1>5. w.wrote \in BOOLEAN /\ w.ok \in BOOLEAN /\ (w.ok => w.wrote) /\ (w.wrote => exists)
  BY <1>4, WriteOutcome
<1>6. PICK e : e = [attr[u] EXCEPT !.period = q.x] OBVIOUS
<1>7. e \in AttrRecord /\ e.period = q.x /\ e.duty = attr[u].duty BY <1>2, <1>3, <1>6 DEF AttrRecord
<1>8. a \in [Pins -> AttrRecord] /\ (\A p \in Pins : p # u => a[p] = attr[p]) /\ a[u] = e
  BY <1>2, <1>3, <1>6, <1>7
<1> HIDE DEF a
<1>9. exists => a[u].duty <= a[u].period
  <2>1. attr[u].duty \in Int BY <1>2, <1>3 DEF AttrRecord
  <2> QED BY <1>2, <1>7, <1>8, <2>1
<1> HIDE DEF exists
<1>10. CASE w.wrote
  <2>1. exists => node[u] = "ready" /\ q.x > 0 BY DEF exists
  <2> QED BY <1>4, <1>5, <1>7, <1>8, <1>9, <1>10, <2>1
<1>11. CASE ~w.wrote BY <1>3, <1>4, <1>5, <1>11 DEF sysfs
<1> QED BY <1>5, <1>10, <1>11

\* A product that fits is what it is.
LEMMA ProductFits ==
  ASSUME NEW n \in 0..IntMax
  PROVE  int32(n) = n
<1>1. \A a \in Nat, m \in Nat \ {0} : a < m => a % m = a OBVIOUS
<1>2. IntMax \in Nat BY PwmAssumption
<1>3. n + IntMax + 1 \in Nat /\ 2 * (IntMax + 1) \in Nat \ {0} /\ n + IntMax + 1 < 2 * (IntMax + 1)
  BY <1>2
<1>4. (n + IntMax + 1) % (2 * (IntMax + 1)) = n + IntMax + 1 BY <1>1, <1>3
<1> QED BY <1>2, <1>4 DEF int32

\* The duty cycle is written.
LEMMA DutyWritten ==
  ASSUME PwmInv, module = "pwm", module' = module, ~aborted, NEW i \in 1..Len(work),
         NEW q, q = work[i], NEW u, u = q.pin, SetPwmDutyCycle(i)
  PROVE  /\ node' = node /\ attr' \in [Pins -> AttrRecord]
         /\ \A p \in Pins : p # u => attr'[p] = attr[p]
         /\ attr'[u].duty <= attr'[u].period
         /\ \/ Return(i, "write")
            \/ /\ node[u] = "ready" /\ attr'[u].period = attr[u].period /\ Return(i, "ok")
               /\ q.x >= 0 /\ q.y >= 0 /\ Fits(q.y, q.x) => attr'[u].duty = (q.y * q.x) \div 100
<1>1. q \in RequestRecord /\ PwmPlace(q) BY PwmUnderway
<1>2. u \in Pins /\ q.x \in Int /\ q.y \in Int BY <1>1 DEF PwmPlace, RequestRecord
<1>3. attr \in [Pins -> AttrRecord] /\ attr[u].duty <= attr[u].period
  BY <1>2 DEF PwmInv, SysType
<1>4. PICK duty \in duty_cycle(q) :
        WriteStep(i, node[u] = "ready" /\ duty \in 0..attr[u].period, node,
                  [attr EXCEPT ![u].duty = duty], "end", "write")
  BY DEF SetPwmDutyCycle
<1>5. q.x >= 0 /\ q.y >= 0 /\ Fits(q.y, q.x) => duty = (q.y * q.x) \div 100
  <2> SUFFICES ASSUME q.x >= 0, q.y >= 0, Fits(q.y, q.x)
               PROVE  duty = (q.y * q.x) \div 100
    OBVIOUS
  <2>1. \A x, y \in Nat : y * x \in Nat OBVIOUS
  <2>2. PICK n \in 0..IntMax : n = q.y * q.x BY <1>2, <2>1 DEF Fits
  <2>3. int32(n) = n BY ProductFits
  <2> QED BY <1>4, <2>2, <2>3 DEF duty_cycle
<1> DEFINE a == [attr EXCEPT ![u].duty = duty]
           exists == node[u] = "ready" /\ duty \in 0..attr[u].period
<1>6. PICK w \in DeviceOpenWriteClose(exists) :
        /\ IF w.wrote THEN node' = node /\ attr' = a ELSE UNCHANGED sysfs
        /\ IF w.ok THEN GoOn(i, "end") ELSE Return(i, "write")
  BY <1>4 DEF WriteStep
<1>7. w.wrote \in BOOLEAN /\ w.ok \in BOOLEAN /\ (w.ok => w.wrote) /\ (w.wrote => exists)
  BY <1>6, WriteOutcome
<1>8. PICK e : e = [attr[u] EXCEPT !.duty = duty] OBVIOUS
<1>9. attr[u].period \in Int BY <1>2, <1>3 DEF AttrRecord
<1>10. exists => /\ e \in AttrRecord /\ e.period = attr[u].period /\ e.duty = duty
                 /\ e.duty <= e.period
  <2> SUFFICES ASSUME exists
               PROVE  /\ e \in AttrRecord /\ e.period = attr[u].period /\ e.duty = duty
                      /\ e.duty <= e.period
    OBVIOUS
  <2>1. duty \in Int /\ duty <= attr[u].period BY <1>9
  <2>2. e \in AttrRecord /\ e.period = attr[u].period /\ e.duty = duty
    BY <1>2, <1>3, <1>8, <2>1 DEF AttrRecord
  <2> QED BY <2>1, <2>2
<1>11. exists => a \in [Pins -> AttrRecord] /\ (\A p \in Pins : p # u => a[p] = attr[p]) /\ a[u] = e
  BY <1>2, <1>3, <1>8, <1>10
<1>12. exists => node[u] = "ready" OBVIOUS
<1> HIDE DEF a, exists
<1>13. GoOn(i, "end") => Return(i, "ok") BY DEF GoOn
<1>14. CASE w.wrote BY <1>5, <1>6, <1>7, <1>10, <1>11, <1>12, <1>13, <1>14
<1>15. CASE ~w.wrote BY <1>3, <1>6, <1>7, <1>15 DEF sysfs
<1> QED BY <1>7, <1>14, <1>15

\* export(), and the period and the duty cycle that it sets.
LEMMA ExportWorkerKeeps ==
  ASSUME PwmInv, module = "pwm", module' = module, ~aborted, NEW i \in 1..Len(work),
         ExportWorker(i), UNCHANGED <<gpio, raced, want, pwm, aborted>>
  PROVE  PwmInv'
<1>1. PICK q : q = work[i] OBVIOUS
<1>2. PICK u : u = q.pin OBVIOUS
<1>3. q \in RequestRecord /\ PwmPlace(q) /\ q.pc # "done" BY <1>1, PwmUnderway
<1>4. u \in Pins /\ q.count \in Nat /\ q.x \in Int /\ q.y \in Int
  BY <1>2, <1>3 DEF PwmPlace, RequestRecord
<1>5. /\ node \in [Pins -> Nodes] /\ attr \in [Pins -> AttrRecord]
      /\ aborted' \in BOOLEAN /\ (aborted => aborted') /\ attr[u].duty <= attr[u].period
  BY <1>4 DEF PwmInv, SysType
<1> DEFINE K == PwmKnows(node[u], attr[u], want[u], pwm[u], q)
<1>6. ASSUME NEW pc \in {"check", "period", "duty"}, Goto(i, pc), q.op = "export",
             node' = node, attr' \in [Pins -> AttrRecord],
             \A p \in Pins : p # u => attr'[p] = attr[p],
             attr'[u].duty <= attr'[u].period,
             K => /\ pc = "check" => node[u] = "absent"
                  /\ pc \in {"check", "period"} => q.x \in {pwm[u].period, 0}
                  /\ pc \in {"period", "duty"} => node[u] = "ready"
                  /\ pc = "duty" /\ q.x >= 0 => attr'[u].period = q.x /\ q.x = pwm[u].period
      PROVE  PwmInv'
  <2>1. PICK r : r = [q EXCEPT !.pc = pc, !.count = q.count] OBVIOUS
  <2>2. [q EXCEPT !.pc = pc] = r BY <1>3, <2>1 DEF RequestRecord
  <2>3. Continue(i, r) BY <1>1, <1>6, <2>2 DEF Goto
  <2>4. pc \in {"check", "export", "directory", "files", "period", "duty"} OBVIOUS
  <2>5. K => /\ pc \in {"check", "export"} => node'[u] = "absent"
             /\ pc \in {"check", "export", "directory", "files", "period"} => q.x \in {pwm[u].period, 0}
             /\ pc \in {"period", "duty"} => node'[u] = "ready"
             /\ pc = "duty" /\ q.x >= 0 => attr'[u].period = q.x /\ q.x = pwm[u].period
    BY <1>6
  <2>6. /\ node' \in [Pins -> Nodes]
        /\ \A p \in Pins : p # u => node'[p] = node[p] /\ attr'[p] = attr[p]
    BY <1>5, <1>6
  <2> QED BY <1>1, <1>2, <1>4, <1>6, <2>1, <2>3, <2>4, <2>5, <2>6, PwmGoesOn, ZenonT(60)
<1>7. CASE /\ Begins(i, "export") /\ Goto(i, IF DeviceCheckPath(u) THEN "period" ELSE "check")
           /\ UNCHANGED sysfs
  <2>1. q.op = "export" /\ q.pc = "queued" BY <1>1, <1>7 DEF Begins, Takes
  <2>2. K => node[u] = "absent" /\ q.x \in {pwm[u].period, 0} BY <2>1 DEF PwmKnows
  <2>3. node' = node /\ attr' = attr BY <1>7 DEF sysfs
  <2>4. CASE DeviceCheckPath(u)
    <3>1. ~K BY <2>2, <2>4 DEF DeviceCheckPath
    <3> QED BY <1>5, <1>6, <1>7, <2>1, <2>3, <2>4, <3>1
  <2>5. CASE ~DeviceCheckPath(u) BY <1>5, <1>6, <1>7, <2>1, <2>2, <2>3, <2>5
  <2> QED BY <2>4, <2>5
<1>8. CASE DeviceExport(i, "period", "export") BY <1>8, PwmExportKeeps
<1>9. CASE At(i, "period") /\ IF q.x >= 0 THEN SetPwmPeriod(i, "duty")
                              ELSE GoOn(i, "duty") /\ UNCHANGED sysfs
  <2>1. q.op = "export" /\ q.pc = "period" BY <1>1, <1>3, <1>9 DEF At, PwmPlace
  <2>2. K => node[u] = "ready" /\ q.x \in {pwm[u].period, 0} BY <2>1 DEF PwmKnows
  <2>3. GoOn(i, "duty") => Goto(i, "duty") BY DEF GoOn
  <2>4. CASE q.x >= 0
    <3>1. /\ node' = node /\ attr' \in [Pins -> AttrRecord]
          /\ \A p \in Pins : p # u => attr'[p] = attr[p]
          /\ attr'[u].duty <= attr'[u].period
          /\ \/ Return(i, "write")
             \/ node[u] = "ready" /\ q.x > 0 /\ attr'[u].period = q.x /\ GoOn(i, "duty")
      BY <1>1, <1>2, <1>9, <2>4, PeriodWritten
    <3>2. CASE Return(i, "write") BY <1>1, <1>2, <1>5, <2>1, <3>1, <3>2, PwmReturns
    <3>3. CASE node[u] = "ready" /\ q.x > 0 /\ attr'[u].period = q.x /\ GoOn(i, "duty")
      <4>1. K => q.x = pwm[u].period BY <1>4, <2>2, <3>3
      <4> QED BY <1>6, <2>1, <2>3, <3>1, <3>3, <4>1
    <3> QED BY <3>1, <3>2, <3>3
  <2>5. CASE ~(q.x >= 0)
    <3>1. GoOn(i, "duty") /\ node' = node /\ attr' = attr BY <1>9, <2>5 DEF sysfs
    <3> QED BY <1>5, <1>6, <2>1, <2>2, <2>3, <2>5, <3>1
  <2> QED BY <2>4, <2>5
<1>10. CASE At(i, "duty") /\ IF q.y >= 0 THEN SetPwmDutyCycle(i)
                             ELSE GoOn(i, "end") /\ UNCHANGED sysfs
  <2>1. q.op = "export" /\ q.pc = "duty" BY <1>1, <1>3, <1>10 DEF At, PwmPlace
  <2>2. K => /\ node[u] = "ready" /\ pwm[u].made /\ want[u] = Unknown
             /\ q.x >= 0 => attr[u].period = q.x /\ q.x = pwm[u].period
    BY <2>1 DEF PwmKnows
  <2>3. ASSUME K, attr'[u].period = attr[u].period,
               q.x >= 0 /\ q.y >= 0 /\ Fits(q.y, q.x) => attr'[u].duty = (q.y * q.x) \div 100
        PROVE  PwmKnows(node[u], attr'[u], want[u], pwm[u], Returned(q, "ok"))
    <3>1. PICK r : r = Returned(q, "ok") OBVIOUS
    <3>2. r.pc = "done" /\ r.op = "export" /\ r.result = "ok" /\ r.x = q.x /\ r.y = q.y
      BY <1>3, <2>1, <3>1 DEF Returned, RequestRecord
    <3>3. PICK w : w = pwmLearn(r, want[u]) OBVIOUS
    <3>4. w.exported = 1 /\ w.period = (IF q.x >= 0 THEN q.x ELSE None)
          /\ w.percent = (IF q.y >= 0 THEN q.y ELSE None)
      <4>1. Unknown # Spoiled BY DEF Unknown, Spoiled, None, Undefined
      <4>2. w = [Unknown EXCEPT !.exported = 1, !.period = IF q.x >= 0 THEN q.x ELSE @,
                                !.percent = IF q.y >= 0 THEN q.y ELSE @]
        BY <2>2, <2>3, <3>2, <3>3, <4>1 DEF pwmLearn
      <4> QED BY <4>2 DEF Unknown
    <3>5. PwmAtRest(node[u], attr'[u], w, pwm[u])
      BY <1>4, <2>2, <2>3, <3>4 DEF PwmAtRest, PwmDevice, PwmTied, None
    <3> QED BY <2>2, <2>3, <3>1, <3>2, <3>3, <3>5 DEF PwmKnows
  <2>4. CASE q.y >= 0
    <3>1. /\ node' = node /\ attr' \in [Pins -> AttrRecord]
          /\ \A p \in Pins : p # u => attr'[p] = attr[p]
          /\ attr'[u].duty <= attr'[u].period
          /\ \/ Return(i, "write")
             \/ /\ attr'[u].period = attr[u].period /\ Return(i, "ok")
                /\ q.x >= 0 /\ q.y >= 0 /\ Fits(q.y, q.x) => attr'[u].duty = (q.y * q.x) \div 100
      BY <1>1, <1>2, <1>10, <2>4, DutyWritten
    <3>2. CASE Return(i, "write") BY <1>1, <1>2, <1>5, <2>1, <3>1, <3>2, PwmReturns
    <3>3. CASE /\ attr'[u].period = attr[u].period /\ Return(i, "ok")
               /\ q.x >= 0 /\ q.y >= 0 /\ Fits(q.y, q.x) => attr'[u].duty = (q.y * q.x) \div 100
      <4>1. K => PwmKnows(node'[u], attr'[u], want[u], pwm[u], Returned(q, "ok")) BY <2>3, <3>1, <3>3
      <4> QED BY <1>1, <1>2, <1>5, <2>1, <3>1, <3>3, <4>1, PwmReturns
    <3> QED BY <3>1, <3>2, <3>3
  <2>5. CASE ~(q.y >= 0)
    <3>1. Return(i, "ok") /\ node' = node /\ attr' = attr BY <1>10, <2>5 DEF sysfs, GoOn
    <3>2. K => PwmKnows(node'[u], attr'[u], want[u], pwm[u], Returned(q, "ok")) BY <2>3, <2>5, <3>1
    <3> QED BY <1>1, <1>2, <1>5, <2>1, <3>1, <3>2, PwmReturns
  <2> QED BY <2>4, <2>5
<1> QED BY <1>1, <1>2, <1>7, <1>8, <1>9, <1>10 DEF ExportWorker

\* The other workers return at once.
LEMMA PwmOthersKeep ==
  ASSUME PwmInv, module = "pwm", module' = module, ~aborted, NEW i \in 1..Len(work),
         \/ /\ \/ SetPeriodWorker(i) \/ SetDutyCycleWorker(i)
               \/ SetEnableWorker(i) \/ UnexportWorker(i)
            /\ UNCHANGED aborted
         \/ SetFrequencyWorker(i),
         UNCHANGED <<gpio, raced, want, pwm>>
  PROVE  PwmInv'
<1>1. PICK q : q = work[i] OBVIOUS
<1>2. PICK u : u = q.pin OBVIOUS
<1>3. q \in RequestRecord /\ PwmPlace(q) /\ q.pc # "done" BY <1>1, PwmUnderway
<1>4. u \in Pins /\ q.x \in Int /\ q.y \in Int BY <1>2, <1>3 DEF PwmPlace, RequestRecord
<1>5. /\ node \in [Pins -> Nodes] /\ attr \in [Pins -> AttrRecord] /\ want[u] \in WantRecord
      /\ aborted \in BOOLEAN /\ attr[u].duty <= attr[u].period
  BY <1>4 DEF PwmInv, SysType
<1>6. PICK r : r = Returned(q, "ok") OBVIOUS
<1>7. r.pc = "done" /\ r.op = q.op /\ r.result = "ok" /\ r.x = q.x /\ r.y = q.y
  BY <1>3, <1>6 DEF Returned, RequestRecord
<1> DEFINE K == PwmKnows(node[u], attr[u], want[u], pwm[u], q)
           K2 == PwmKnows(node'[u], attr'[u], want[u], pwm[u], r)
           w == pwmLearn(r, want[u])
<1>8. ASSUME K, q.op \in {"setPeriod", "setDutyCycle", "setEnable", "unexport"},
             PwmDevice(node'[u], attr'[u], w), PwmTied(w, pwm[u])
      PROVE  K2
  <2>1. pwm[u].made BY <1>8 DEF PwmKnows
  <2> HIDE DEF w
  <2>2. PwmAtRest(node'[u], attr'[u], w, pwm[u]) BY <1>8, <2>1 DEF PwmAtRest
  <2> QED BY <1>7, <1>8, <2>1, <2>2 DEF PwmKnows, w
<1>9. want[u] = Spoiled => w = Spoiled BY DEF pwmLearn
<1>10. CASE SetPeriodWorker(i) /\ UNCHANGED aborted
  <2>1. q.op = "setPeriod" /\ q.pc = "queued" BY <1>1, <1>10 DEF SetPeriodWorker, Begins, Takes
  <2>2. /\ node' = node /\ attr' \in [Pins -> AttrRecord]
        /\ \A p \in Pins : p # u => attr'[p] = attr[p]
        /\ attr'[u].duty <= attr'[u].period
        /\ \/ Return(i, "write")
           \/ node[u] = "ready" /\ attr'[u].period = q.x /\ Return(i, "ok")
    BY <1>1, <1>2, <1>10, PeriodWritten DEF SetPeriodWorker, GoOn
  <2>3. CASE Return(i, "write") BY <1>1, <1>2, <1>5, <1>10, <2>1, <2>2, <2>3, PwmReturns
  <2>4. CASE node[u] = "ready" /\ attr'[u].period = q.x /\ Return(i, "ok")
    <3>1. ASSUME K PROVE K2
      <4>1. q.x = pwm[u].period /\ q.x >= 0 BY <2>1, <3>1 DEF PwmKnows
      <4>2. want[u] # Spoiled => w.period = q.x /\ w.percent = None
        <5>1. want[u] # Spoiled => w = [want[u] EXCEPT !.period = q.x, !.percent = None]
          BY <1>7, <2>1 DEF pwmLearn
        <5> QED BY <1>5, <5>1 DEF WantRecord
      <4> HIDE DEF w
      <4>3. PwmDevice(node'[u], attr'[u], w) /\ PwmTied(w, pwm[u])
        BY <1>9, <2>2, <2>4, <4>1, <4>2 DEF PwmDevice, PwmTied
      <4> QED BY <1>8, <2>1, <3>1, <4>3
    <3> QED BY <1>1, <1>2, <1>5, <1>6, <1>10, <2>1, <2>2, <2>4, <3>1, PwmReturns
  <2> QED BY <2>2, <2>3, <2>4
<1>11. CASE SetDutyCycleWorker(i) /\ UNCHANGED aborted
  <2>1. q.op = "setDutyCycle" /\ q.pc = "queued" BY <1>1, <1>11 DEF SetDutyCycleWorker, Begins, Takes
  <2>2. /\ node' = node /\ attr' \in [Pins -> AttrRecord]
        /\ \A p \in Pins : p # u => attr'[p] = attr[p]
        /\ attr'[u].duty <= attr'[u].period
        /\ \/ Return(i, "write")
           \/ /\ node[u] = "ready" /\ attr'[u].period = attr[u].period /\ Return(i, "ok")
              /\ q.x >= 0 /\ q.y >= 0 /\ Fits(q.y, q.x) => attr'[u].duty = (q.y * q.x) \div 100
    BY <1>1, <1>2, <1>11, DutyWritten DEF SetDutyCycleWorker
  <2>3. CASE Return(i, "write") BY <1>1, <1>2, <1>5, <1>11, <2>1, <2>2, <2>3, PwmReturns
  <2>4. CASE /\ node[u] = "ready" /\ attr'[u].period = attr[u].period /\ Return(i, "ok")
             /\ q.x >= 0 /\ q.y >= 0 /\ Fits(q.y, q.x) => attr'[u].duty = (q.y * q.x) \div 100
    <3>1. ASSUME K PROVE K2
      <4>1. /\ q.x = pwm[u].period /\ q.y >= 0 /\ PwmDevice(node[u], attr[u], want[u])
            /\ PwmTied(want[u], pwm[u])
        BY <2>1, <3>1 DEF PwmKnows
      <4>2. want[u] # Spoiled => w.period = want[u].period /\ w.percent = q.y
        <5>1. want[u] # Spoiled => w = [want[u] EXCEPT !.percent = q.y]
          BY <1>7, <2>1 DEF pwmLearn
        <5> QED BY <1>5, <5>1 DEF WantRecord
      <4> HIDE DEF w
      <4>3. PwmDevice(node'[u], attr'[u], w) /\ PwmTied(w, pwm[u])
        BY <1>9, <2>2, <2>4, <4>1, <4>2 DEF PwmDevice, PwmTied
      <4> QED BY <1>8, <2>1, <3>1, <4>3
    <3> QED BY <1>1, <1>2, <1>5, <1>6, <1>11, <2>1, <2>2, <2>4, <3>1, PwmReturns
  <2> QED BY <2>2, <2>3, <2>4
<1>12. CASE SetEnableWorker(i) /\ UNCHANGED aborted
  <2>1. q.op = "setEnable" /\ q.pc = "queued" BY <1>1, <1>12 DEF SetEnableWorker, Begins, Takes
  <2>2. node' = node /\ attr' = attr /\ (Return(i, "ok") \/ Return(i, "write"))
    BY <1>12 DEF SetEnableWorker, WriteStep, GoOn, sysfs
  <2>3. ASSUME K PROVE K2
    <3>1. PwmDevice(node[u], attr[u], want[u]) /\ PwmTied(want[u], pwm[u])
      BY <2>1, <2>3 DEF PwmKnows
    <3>2. w = want[u] BY <1>7, <2>1 DEF pwmLearn
    <3> HIDE DEF w
    <3>3. PwmDevice(node'[u], attr'[u], w) /\ PwmTied(w, pwm[u]) BY <2>2, <3>1, <3>2
    <3> QED BY <1>8, <2>1, <2>3, <3>3
  <2> QED BY <1>1, <1>2, <1>5, <1>6, <1>12, <2>1, <2>2, <2>3, PwmReturns
<1>13. CASE UnexportWorker(i) /\ UNCHANGED aborted
  <2>1. q.op = "unexport" /\ q.pc = "queued" BY <1>1, <1>13 DEF UnexportWorker, Begins, Takes
  <2>2. /\ attr' = attr /\ Return(i, "ok") /\ node' \in {node, Unexported(u)}
    BY <1>1, <1>2, <1>13 DEF UnexportWorker
  <2>3. node' \in [Pins -> Nodes] /\ \A p \in Pins : p # u => node'[p] = node[p]
    BY <1>5, <2>2 DEF Unexported, Nodes
  <2>4. ASSUME K PROVE K2
    <3>1. w \in {Spoiled, Unknown} BY <1>7, <2>1 DEF pwmLearn
    <3> HIDE DEF w
    <3>2. w = Spoiled \/ (w.exported = None /\ w.period = None) BY <3>1 DEF Unknown
    <3>3. PwmDevice(node'[u], attr'[u], w) /\ PwmTied(w, pwm[u])
      BY <3>2 DEF PwmDevice, PwmTied, None
    <3> QED BY <1>8, <2>1, <2>4, <3>3
  <2> QED BY <1>1, <1>2, <1>5, <1>6, <1>13, <2>1, <2>2, <2>3, <2>4, PwmReturns
<1>14. CASE SetFrequencyWorker(i)
  <2>1. q.op = "setFrequency" /\ q.pc = "queued" BY <1>1, <1>14 DEF SetFrequencyWorker, Begins, Takes
  <2>2. node' = node /\ attr' = attr /\ Return(i, "ok") /\ aborted' = TRUE
    BY <1>14 DEF SetFrequencyWorker, sysfs, IOTJS_ASSERT
  <2>3. ASSUME K PROVE K2
    <3>1. pwm[u].made BY <2>3 DEF PwmKnows
    <3> QED BY <1>7, <2>1, <3>1 DEF PwmKnows
  <2> QED BY <1>1, <1>2, <1>5, <1>6, <2>1, <2>2, <2>3, PwmReturns
<1> QED BY <1>10, <1>11, <1>12, <1>13, <1>14

-----------------------------------------------------------------------------
(* The calls of pwm, what calls back, and the kernel.                      *)

\* A call queues a request for a pin, with the options of its object.
LEMMA PwmCalls ==
  ASSUME PwmInv, module = "pwm", module' = module, UNCHANGED gpio, NEW u \in Pins,
         NEW r \in RequestRecord, r.pc = "queued", r.pin = u, PwmPlace(r), PWM_ASYNC(r),
         NEW o \in OptionsRecord, pwm' = [pwm EXCEPT ![u] = o],
         PwmAtRest(node[u], attr[u], want[u], pwm[u]) => PwmKnows(node[u], attr[u], want[u], o, r)
  PROVE  PwmInv'
<1>1. /\ uv_queue_work(r) /\ raced' = [p \in Pins |-> raced[p] \/ Collides(r, p)]
      /\ UNCHANGED <<node, attr, want, aborted>>
  BY DEF PWM_ASYNC
<1>2. SysType /\ Requests /\ PinInv BY DEF PwmInv
<1>3. pwm \in [Pins -> OptionsRecord] /\ raced \in [Pins -> BOOLEAN] BY <1>2 DEF SysType
<1>4. /\ pwm' \in [Pins -> OptionsRecord] /\ pwm'[u] = o
      /\ \A p \in Pins : p # u => pwm'[p] = pwm[p]
  BY <1>3
<1>5. SysType'
  <2>1. raced' \in [Pins -> BOOLEAN] BY <1>1, <1>3 DEF Collides
  <2> QED BY <1>1, <1>2, <1>4, <2>1 DEF SysType
<1>6. /\ Requests' /\ \A k \in 1..Len(Underway') :
           Underway'[k] = r \/ \E j \in 1..Len(Underway) : Underway'[k] = Underway[j]
  BY <1>1, <1>2, RequestsQueue
<1>7. \A p \in Pins : Touches(r, p) <=> p = u BY AllIsNoPin DEF Touches
<1>8. PinInv'
  <2>1. \A p \in Pins : Touches(r, p) /\ RestOf(p) => KnowsOf(p, r)'
    BY <1>1, <1>4, <1>7 DEF RestOf, KnowsOf, AtRest, Knows
  <2>2. \A p \in Pins : ~Touches(r, p) => pwm'[p] = pwm[p] BY <1>4, <1>7
  <2> QED BY <1>1, <1>2, <1>3, <2>1, <2>2, PinsQueue
<1>9. \A k \in 1..Len(Underway') : PwmPlace(Underway'[k]) BY <1>6 DEF PwmInv
<1>10. done' = done BY <1>1 DEF uv_queue_work
<1>11. /\ \A k \in 1..Len(done') : done'[k].op = "setFrequency" => aborted'
       /\ \A p \in Pins : attr'[p].duty <= attr'[p].period
  BY <1>1, <1>10 DEF PwmInv
<1> QED BY <1>5, <1>6, <1>8, <1>9, <1>11 DEF PwmInv

\* The calls.
LEMMA PwmCallsKeep ==
  ASSUME PwmInv, module = "pwm", module' = module, UNCHANGED gpio, NEW pin \in Pins,
         \/ \E options \in OptionsGiven : Export(pin, options)
         \/ \E period \in Periods : SetPeriod(pin, period) \/ SetFrequency(pin, period)
         \/ \E percent \in Percents : SetDutyCycle(pin, percent)
         \/ SetEnable(pin) \/ Unexport(pin)
  PROVE  PwmInv'
<1>1. pin \in Int /\ pwm \in [Pins -> OptionsRecord] /\ pwm[pin] \in OptionsRecord
  BY AllIsNoPin DEF PwmInv, SysType
<1>2. ASSUME NEW op \in {"export", "setPeriod", "setFrequency", "setDutyCycle", "setEnable", "unexport"},
             NEW x \in Int, NEW y \in Int, NEW r, r = [Request(op, pin) EXCEPT !.x = x, !.y = y],
             PWM_ASYNC(r), NEW o \in OptionsRecord, pwm' = [pwm EXCEPT ![pin] = o],
             o.made, op = "export" => ~pwm[pin].made /\ x \in {o.period, 0},
             op = "setPeriod" => x = o.period /\ x >= 0,
             op \in {"setDutyCycle", "setEnable", "unexport"} => o.period = pwm[pin].period,
             op = "setDutyCycle" => x = o.period /\ y >= 0
      PROVE  PwmInv'
  <2>1. /\ r \in RequestRecord /\ r.pc = "queued" /\ r.pin = pin /\ r.op = op /\ r.x = x /\ r.y = y
    BY <1>1, <1>2 DEF Request, RequestRecord
  <2>2. PwmPlace(r) BY <2>1 DEF PwmPlace
  <2>3. PwmAtRest(node[pin], attr[pin], want[pin], pwm[pin]) =>
          PwmKnows(node[pin], attr[pin], want[pin], o, r)
    BY <1>2, <2>1 DEF PwmAtRest, PwmKnows, PwmTied
  <2> QED BY <1>2, <2>1, <2>2, <2>3, PwmCalls
<1>3. ASSUME NEW op, NEW o PROVE
        set_pwmdata(op, pin, o) =
          [Request(op, pin) EXCEPT !.x = IF o.period = Undefined THEN 0 ELSE o.period,
                                   !.y = IF o.dutyCycle = Undefined THEN 0 ELSE o.dutyCycle]
  BY DEF set_pwmdata
<1>4. ASSUME NEW op \in {"export", "setPeriod", "setFrequency", "setDutyCycle"},
             NEW o \in OptionsRecord, PWM_ASYNC(set_pwmdata(op, pin, o)),
             pwm' = [pwm EXCEPT ![pin] = o],
             o.made, op = "export" => ~pwm[pin].made,
             op = "setPeriod" => o.period >= 0,
             op = "setDutyCycle" => /\ o.period = pwm[pin].period /\ o.period # Undefined
                                    /\ o.dutyCycle >= 0
      PROVE  PwmInv'
  <2>1. o.period \in Int /\ o.dutyCycle \in Int BY DEF OptionsRecord
  <2>2. PICK x \in Int : x = IF o.period = Undefined THEN 0 ELSE o.period BY <2>1
  <2>3. PICK y \in Int : y = IF o.dutyCycle = Undefined THEN 0 ELSE o.dutyCycle BY <2>1
  <2>4. PICK r : r = [Request(op, pin) EXCEPT !.x = x, !.y = y] OBVIOUS
  <2>5. PWM_ASYNC(r) BY <1>3, <1>4, <2>2, <2>3, <2>4
  <2>6. /\ x \in {o.period, 0} /\ (op = "setPeriod" => x = o.period /\ x >= 0)
        /\ op = "setDutyCycle" => x = o.period /\ y >= 0
    BY <1>4, <2>1, <2>2, <2>3 DEF Undefined
  <2> QED BY <1>2, <1>4, <2>4, <2>5, <2>6
<1>5. CASE \E options \in OptionsGiven : Export(pin, options)
  <2>1. PICK o \in OptionsGiven : Export(pin, o) BY <1>5
  <2>2. o \in OptionsRecord /\ o.made
    <3>1. -1 \in Int /\ Undefined \in Int /\ Periods \subseteq Int /\ Percents \subseteq Int
      BY PwmAssumption DEF Undefined
    <3>2. \/ o = [made |-> TRUE, period |-> -1, dutyCycle |-> -1]
          \/ o = [made |-> TRUE, period |-> Undefined, dutyCycle |-> Undefined]
          \/ \E n \in Periods \cup {Undefined}, d \in Percents \cup {Undefined},
                f \in Periods \cup {Undefined} : o = Options(n, d, f)
      BY <2>1 DEF OptionsGiven
    <3>3. CASE \E n \in Periods \cup {Undefined}, d \in Percents \cup {Undefined},
                  f \in Periods \cup {Undefined} : o = Options(n, d, f)
      <4>1. PICK n \in Periods \cup {Undefined}, d \in Percents \cup {Undefined},
                 f \in Periods \cup {Undefined} : o = Options(n, d, f)
        BY <3>3
      <4>2. n \in Int /\ d \in Int /\ f \in Int BY <3>1
      <4>3. PICK a \in Int : a = IF f # Undefined THEN f ELSE n BY <4>2
      <4>4. PICK b \in Int : b = IF Undefined \in {n, d, f} THEN -1 ELSE d BY <3>1, <4>2
      <4>5. o = [made |-> TRUE, period |-> a, dutyCycle |-> b]
        BY <4>1, <4>3, <4>4 DEF Options
      <4> QED BY <4>5 DEF OptionsRecord
    <3>4. CASE o = [made |-> TRUE, period |-> -1, dutyCycle |-> -1]
      BY <3>1, <3>4 DEF OptionsRecord
    <3>5. CASE o = [made |-> TRUE, period |-> Undefined, dutyCycle |-> Undefined]
      BY <3>1, <3>5 DEF OptionsRecord
    <3> QED BY <3>2, <3>3, <3>4, <3>5
  <2>3. /\ ~pwm[pin].made /\ pwm' = [pwm EXCEPT ![pin] = o]
        /\ PWM_ASYNC(set_pwmdata("export", pin, o))
    BY <2>1 DEF Export
  <2> QED BY <1>4, <2>2, <2>3
<1>6. CASE \E period \in Periods : SetPeriod(pin, period) \/ SetFrequency(pin, period)
  <2>1. PICK period \in Periods : SetPeriod(pin, period) \/ SetFrequency(pin, period) BY <1>6
  <2>2. PICK o : o = [pwm[pin] EXCEPT !.period = period] OBVIOUS
  <2>3. period \in Nat BY PwmAssumption
  <2>4. o \in OptionsRecord /\ o.period = period /\ o.made = pwm[pin].made
    BY <1>1, <2>2, <2>3 DEF OptionsRecord
  <2>5. PICK op \in {"setPeriod", "setFrequency"} :
          /\ pwm[pin].made /\ pwm' = [pwm EXCEPT ![pin] = o]
          /\ PWM_ASYNC(set_pwmdata(op, pin, o))
    BY <2>1, <2>2 DEF SetPeriod, SetFrequency
  <2>6. o \in OptionsRecord /\ o.made /\ o.period >= 0 BY <2>3, <2>4, <2>5
  <2>7. /\ op \in {"export", "setPeriod", "setFrequency", "setDutyCycle"}
        /\ op # "export" /\ op # "setDutyCycle"
    OBVIOUS
  <2> QED BY <1>4, <2>5, <2>6, <2>7, ZenonT(30)
<1>7. CASE \E percent \in Percents : SetDutyCycle(pin, percent)
  <2>1. PICK percent \in Percents : SetDutyCycle(pin, percent) BY <1>7
  <2>2. PICK o : o = [pwm[pin] EXCEPT !.dutyCycle = percent] OBVIOUS
  <2>3. percent \in Nat BY PwmAssumption
  <2>4. o \in OptionsRecord /\ o.period = pwm[pin].period /\ o.made = pwm[pin].made
        /\ o.dutyCycle = percent
    BY <1>1, <2>2, <2>3 DEF OptionsRecord
  <2>5. /\ pwm[pin].made /\ pwm[pin].period # Undefined /\ pwm' = [pwm EXCEPT ![pin] = o]
        /\ PWM_ASYNC(set_pwmdata("setDutyCycle", pin, o))
    BY <2>1, <2>2 DEF SetDutyCycle
  <2>6. o \in OptionsRecord /\ o.made /\ o.period = pwm[pin].period /\ o.period # Undefined
        /\ o.dutyCycle >= 0
    BY <2>3, <2>4, <2>5
  <2> QED BY <1>4, <2>5, <2>6, ZenonT(30)
<1>8. CASE SetEnable(pin) \/ Unexport(pin)
  <2>1. PICK op \in {"setEnable", "unexport"} :
          pwm[pin].made /\ PWM_ASYNC(Request(op, pin)) /\ pwm' = pwm
    BY <1>8 DEF SetEnable, Unexport
  <2>2. PICK o \in OptionsRecord : o = pwm[pin] BY <1>1
  <2>3. pwm' = [pwm EXCEPT ![pin] = o] BY <1>1, <2>1, <2>2
  <2>4. PICK q : q = Request(op, pin) OBVIOUS
  <2>5. q \in RequestRecord /\ q.x = None /\ q.y = None /\ None \in Int
    BY <1>1, <2>4 DEF Request, RequestRecord, None
  <2>6. q = [q EXCEPT !.x = None, !.y = None] BY <2>5, ArgumentsGiven
  <2>7. PWM_ASYNC(q) /\ q = [Request(op, pin) EXCEPT !.x = None, !.y = None] BY <2>1, <2>4, <2>6
  <2>8. /\ op \in {"export", "setPeriod", "setFrequency", "setDutyCycle", "setEnable", "unexport"}
        /\ op # "export" /\ op # "setPeriod" /\ op # "setDutyCycle"
        /\ o.made /\ o.period = pwm[pin].period
    BY <2>1, <2>2
  <2> QED BY <1>2, <2>3, <2>5, <2>7, <2>8, ZenonT(30)
<1> QED BY <1>5, <1>6, <1>7, <1>8

\* The files of a pin appear.
LEMMA PwmAppearKeeps ==
  ASSUME PwmInv, module' = module, UNCHANGED <<pwm, gpio>>, NEW u \in Pins, Appear(u)
  PROVE  PwmInv'
<1>1. PinInv /\ node \in [Pins -> Nodes] BY DEF PwmInv, SysType
<1>2. PinInv' /\ node' \in [Pins -> Nodes] BY <1>1, AppearKeepsPins
<1>3. UNCHANGED <<work, done, attr, want, raced, aborted>> BY DEF Appear
<1>4. Underway' = Underway BY <1>3 DEF Underway
<1>5. SysType' BY <1>2, <1>3 DEF PwmInv, SysType
<1>6. /\ Requests' /\ \A i \in 1..Len(Underway') : PwmPlace(Underway'[i])
      /\ \A i \in 1..Len(done') : done'[i].op = "setFrequency" => aborted'
      /\ \A p \in Pins : attr'[p].duty <= attr'[p].period
  BY <1>3, <1>4 DEF PwmInv, Requests, Lists
<1> QED BY <1>2, <1>5, <1>6 DEF PwmInv

\* A request calls back: its result becomes what is known of its pin.
LEMMA AfterPwmKeeps ==
  ASSUME PwmInv, module = "pwm", module' = module, ~aborted, UNCHANGED gpio, AfterPwmWork
  PROVE  PwmInv'
<1>1. PICK r : r = Head(done) OBVIOUS
<1>2. /\ Dispatch /\ UNCHANGED <<node, attr, raced, aborted, pwm>>
      /\ want' = [want EXCEPT ![r.pin] = pwmLearn(r, @)]
  BY <1>1 DEF AfterPwmWork
<1>3. SysType /\ Requests /\ PinInv BY DEF PwmInv
<1>4. /\ Requests' /\ Len(work) + 1 \in 1..Len(Underway) /\ Underway[Len(work) + 1] = r
      /\ r \in RequestRecord /\ r.pc = "done" /\ 1 \in 1..Len(done)
      /\ \A k \in 1..Len(done') : k + 1 \in 1..Len(done) /\ done'[k] = done[k + 1]
      /\ \A k \in 1..Len(Underway') : \E j \in 1..Len(Underway) : Underway'[k] = Underway[j]
  BY <1>1, <1>2, <1>3, RequestsDispatch
<1>5. PICK u : u = r.pin OBVIOUS
<1>6. u \in Pins BY <1>4, <1>5 DEF PwmInv, PwmPlace
<1>7. r.op # "setFrequency"
  <2>1. r = done[1] BY <1>1, <1>3 DEF Requests, Lists
  <2> QED BY <1>4, <2>1 DEF PwmInv
<1>8. want \in [Pins -> WantRecord] BY <1>3 DEF SysType
<1>9. want'[u] = pwmLearn(r, want[u]) /\ \A p \in Pins : p # u => want'[p] = want[p]
  BY <1>2, <1>5, <1>6, <1>8
<1>10. \A p \in Pins : Touches(r, p) <=> p = u BY <1>5, <1>6, AllIsNoPin DEF Touches
<1>11. PinInv'
  <2>1. \A p \in Pins : ~Touches(r, p) => Same(p) BY <1>2, <1>9, <1>10 DEF Same
  <2>2. ASSUME NEW p \in Pins, Touches(r, p), KnowsOf(p, r) PROVE RestOf(p)'
    <3>1. p = u BY <1>10, <2>2
    <3>2. PwmAtRest(node[u], attr[u], pwmLearn(r, want[u]), pwm[u])
      BY <1>4, <1>7, <2>2, <3>1 DEF KnowsOf, Knows, PwmKnows
    <3> QED BY <1>2, <1>9, <3>1, <3>2 DEF RestOf, AtRest
  <2>3. raced \in [Pins -> BOOLEAN] BY <1>3 DEF SysType
  <2> QED BY <1>1, <1>2, <1>3, <2>1, <2>2, <2>3, PinsDispatch
<1>12. pwmLearn(r, want[u]) \in WantRecord
  <2>1. PICK w \in WantRecord : w = want[u] BY <1>6, <1>8
  <2>2. r.x \in Int /\ r.y \in Int BY <1>4 DEF RequestRecord
  <2>3. Unknown \in WantRecord /\ Spoiled \in WantRecord /\ None \in Int
    BY DEF Unknown, Spoiled, WantRecord, None, Undefined
  <2>4. PICK a \in Int : a = IF r.x >= 0 THEN r.x ELSE w.period BY <2>2 DEF WantRecord
  <2>5. PICK b \in Int : b = IF r.y >= 0 THEN r.y ELSE w.percent BY <2>2 DEF WantRecord
  <2>6. ASSUME NEW e \in Int, NEW c \in Int, NEW d \in Int
        PROVE  /\ [w EXCEPT !.exported = e, !.period = c, !.percent = d] \in WantRecord
               /\ [w EXCEPT !.period = c, !.percent = d] \in WantRecord
               /\ [w EXCEPT !.percent = d] \in WantRecord
    BY DEF WantRecord
  <2>7. pwmLearn(r, w) \in {Spoiled, Unknown, w, [w EXCEPT !.exported = 1, !.period = a, !.percent = b],
                            [w EXCEPT !.period = r.x, !.percent = None], [w EXCEPT !.percent = r.y]}
    BY <2>4, <2>5 DEF pwmLearn
  <2>8. [w EXCEPT !.exported = 1, !.period = a, !.percent = b] \in WantRecord
    <3>1. PICK e \in Int : e = 1 OBVIOUS
    <3>2. [w EXCEPT !.exported = e, !.period = a, !.percent = b] \in WantRecord BY <2>6
    <3> QED BY <3>1, <3>2
  <2>9. [w EXCEPT !.period = r.x, !.percent = None] \in WantRecord BY <2>2, <2>3, <2>6
  <2>10. [w EXCEPT !.percent = r.y] \in WantRecord BY <2>2, <2>6
  <2> QED BY <2>1, <2>3, <2>7, <2>8, <2>9, <2>10
<1>13. want' \in [Pins -> WantRecord] BY <1>2, <1>5, <1>6, <1>8, <1>12
<1>14. SysType' BY <1>2, <1>3, <1>13 DEF SysType
<1>15. \A k \in 1..Len(Underway') : PwmPlace(Underway'[k]) BY <1>4 DEF PwmInv
<1>16. /\ \A k \in 1..Len(done') : done'[k].op = "setFrequency" => aborted'
       /\ \A p \in Pins : attr'[p].duty <= attr'[p].period
  BY <1>2, <1>4 DEF PwmInv
<1> QED BY <1>4, <1>11, <1>14, <1>15, <1>16 DEF PwmInv

\* Every step of pwm.
LEMMA PwmNextKeeps ==
  ASSUME PwmInv, module = "pwm", module' = module, ~aborted, UNCHANGED gpio, PwmNext
  PROVE  PwmInv'
<1>1. UsedPins \subseteq Pins BY PwmAssumption
<1>2. CASE \E i \in 1..Len(work) : PwmWorker(i)
  <2>1. PICK i \in 1..Len(work) : PwmWorker(i) BY <1>2
  <2>2. UNCHANGED <<gpio, raced, want, pwm>> BY <2>1 DEF PwmWorker
  <2>3. CASE ExportWorker(i) /\ UNCHANGED aborted BY <2>2, <2>3, ExportWorkerKeeps
  <2>4. CASE \/ /\ \/ SetPeriodWorker(i) \/ SetDutyCycleWorker(i)
                   \/ SetEnableWorker(i) \/ UnexportWorker(i)
                /\ UNCHANGED aborted
             \/ SetFrequencyWorker(i)
    BY <2>2, <2>4, PwmOthersKeep
  <2> QED BY <2>1, <2>3, <2>4 DEF PwmWorker
<1>3. CASE AfterPwmWork BY <1>3, AfterPwmKeeps
<1>4. CASE (\E pin \in UsedPins : Appear(pin)) /\ UNCHANGED pwm BY <1>1, <1>4, PwmAppearKeeps
<1>5. CASE \E pin \in UsedPins :
             \/ \E options \in OptionsGiven : Export(pin, options)
             \/ \E period \in Periods : SetPeriod(pin, period) \/ SetFrequency(pin, period)
             \/ \E percent \in Percents : SetDutyCycle(pin, percent)
             \/ SetEnable(pin) \/ Unexport(pin)
  BY <1>1, <1>5, PwmCallsKeep
<1> QED BY <1>2, <1>3, <1>4, <1>5 DEF PwmNext

\* What the invariant says of the pins.
LEMMA PwmInvSays ==
  ASSUME PwmInv, module = "pwm"
  PROVE  PwmTruth
<1>1. ASSUME NEW p \in Pins, Settled(p)
      PROVE  /\ want[p].exported = 1 => node[p] = "ready"
             /\ want[p].period # None => attr[p].period = want[p].period
             /\ want[p].percent # None /\ want[p].period # None
                /\ Fits(want[p].percent, attr[p].period) =>
                  attr[p].duty = (want[p].percent * attr[p].period) \div 100
  <2>1. PwmDevice(node[p], attr[p], want[p]) BY <1>1 DEF PwmInv, PinInv, RestOf, AtRest, PwmAtRest
  <2>2. want[p] = Spoiled => want[p].exported = Undefined /\ want[p].period = None
    BY DEF Spoiled, Unknown
  <2> QED BY <2>1, <2>2 DEF PwmDevice, Undefined
<1>2. \A p \in Pins : attr[p].duty <= attr[p].period BY DEF PwmInv
<1> QED BY <1>1, <1>2 DEF PwmTruth

-----------------------------------------------------------------------------
(* The requests of i2c.                                                    *)

\* A step takes the request at y away and adds r, or nothing.
LEMMA TransfersEvolve ==
  ASSUME I2cRequests, NEW r, NEW R \in {{}, {r}}, NEW y \in Nat,
         Evolves(Underway, Underway', y, R),
         \A j \in 1..Len(Underway) : raced[Underway[j].pin] => raced'[Underway[j].pin],
         \A j \in 1..Len(Underway) : j # y => Alone(i2c', raced', Underway[j]),
         R # {} => Alone(i2c', raced', r),
         \A j \in 1..Len(Underway) : R # {} /\ j # y /\ Disturbs(Underway[j], r) =>
           raced'[r.pin] /\ raced'[Underway[j].pin]
  PROVE  I2cRequests'
<1> DEFINE U == Underway
           V == Underway'
<1>1. PICK f \in [1..Len(V) -> 0..Len(U)] :
        /\ \A k \in 1..Len(V) : f[k] # y
        /\ \A k \in 1..Len(V) : IF f[k] = 0 THEN V[k] \in R ELSE V[k] = U[f[k]]
        /\ \A k, l \in 1..Len(V) : f[k] = f[l] => k = l
  BY DEF Evolves
<1>2. \A k \in 1..Len(V) : f[k] = 0 => R # {} /\ V[k] = r BY <1>1
<1>3. \A k \in 1..Len(V) : f[k] # 0 => f[k] \in 1..Len(U) /\ f[k] # y /\ V[k] = U[f[k]]
  <2>1. \A k \in 1..Len(V) : f[k] \in 0..Len(U) BY <1>1
  <2> QED BY <1>1, <2>1
<1>4. \A i, j \in 1..Len(U) : i # j /\ Disturbs(U[i], U[j]) => raced[U[i].pin] /\ raced[U[j].pin]
  BY DEF I2cRequests
<1>5. \A q, s : Disturbs(q, s) <=> Disturbs(s, q) BY DEF Disturbs
<1>6. \A j \in 1..Len(U) : j # y => Alone(i2c', raced', U[j]) OBVIOUS
<1>7. \A j \in 1..Len(U) : raced[U[j].pin] => raced'[U[j].pin] OBVIOUS
<1>8. \A j \in 1..Len(U) : R # {} /\ j # y /\ Disturbs(U[j], r) => raced'[r.pin] /\ raced'[U[j].pin]
  OBVIOUS
<1> HIDE DEF U, V
<1>9. ASSUME NEW k \in 1..Len(V) PROVE Alone(i2c', raced', V[k])
  <2>1. CASE f[k] = 0 BY <1>2, <2>1
  <2>2. CASE f[k] # 0 BY <1>3, <1>6, <2>2
  <2> QED BY <2>1, <2>2
<1>10. ASSUME NEW k \in 1..Len(V), NEW l \in 1..Len(V), k # l, Disturbs(V[k], V[l])
       PROVE  raced'[V[k].pin] /\ raced'[V[l].pin]
  <2>1. CASE f[k] = 0 /\ f[l] = 0 BY <1>1, <1>10, <2>1
  <2>2. CASE f[k] # 0 /\ f[l] # 0
    <3>1. f[k] # f[l] BY <1>1, <1>10
    <3> QED BY <1>3, <1>4, <1>7, <1>10, <2>2, <3>1
  <2>3. CASE f[k] = 0 /\ f[l] # 0
    <3>1. R # {} /\ V[k] = r /\ f[l] \in 1..Len(U) /\ f[l] # y /\ V[l] = U[f[l]]
      BY <1>2, <1>3, <2>3
    <3>2. Disturbs(U[f[l]], r) BY <1>5, <1>10, <3>1
    <3> QED BY <1>8, <3>1, <3>2
  <2>4. CASE f[k] # 0 /\ f[l] = 0
    <3>1. R # {} /\ V[l] = r /\ f[k] \in 1..Len(U) /\ f[k] # y /\ V[k] = U[f[k]]
      BY <1>2, <1>3, <2>4
    <3>2. Disturbs(U[f[k]], r) BY <1>10, <3>1
    <3> QED BY <1>8, <3>1, <3>2
  <2> QED BY <2>1, <2>2, <2>3, <2>4
<1> QED BY <1>9, <1>10 DEF I2cRequests, V

\* k and m become l and n: a request is known to be disturbed, or the descriptor is
\* still open and set to its slave.
LEMMA AloneKept ==
  ASSUME NEW k, NEW m, NEW l, NEW n, NEW r, Alone(k, m, r), l.state[r.pin] # "none",
         n[r.pin] \in BOOLEAN, m[r.pin] \in BOOLEAN, m[r.pin] => n[r.pin],
         BusesUsed(k) \subseteq BusesUsed(l), k.again => l.again,
         n[r.pin] \/ l.address[r.pin] = k.address[r.pin],
         \/ n[r.pin]
         \/ r.op \in Transfers /\ ~l.stale /\ Addressed(l, r.pin)
         \/ (l.stale => k.stale) /\ \A s : Selects(k, s) => Selects(l, s)
  PROVE  Alone(l, n, r)
<1>1. r.pc = "done" /\ r.result = "ok" /\ r.op \in Transfers => Success(l, n, r)
  BY DEF Alone, Success
<1>2. ~n[r.pin] => /\ r.op \in Transfers => ~l.stale /\ Addressed(l, r.pin)
                   /\ r.pc = "probe" => Selects(l, r.count)
                   /\ r.rest \subseteq Present
  <2>1. "scan" \notin Transfers BY DEF Transfers
  <2> QED BY <2>1 DEF Alone, Addressed
<1> QED BY <1>1, <1>2 DEF Alone

\* What a call of I2cSetAddress or of ioctl leaves alone.
Frame(k, l) ==
  /\ l.state = k.state /\ l.bus = k.bus /\ l.address = k.address
  /\ l.stale = k.stale /\ l.again = k.again

\* What ioctl changes.
LEMMA SlaveIs ==
  ASSUME NEW k, BusType(k), NEW a \in Nat
  PROVE  LET l == Slave(k, a) IN
         BusType(l) /\ Frame(k, l) /\ (Addressable(a) => Selects(l, a))
<1>1. CASE ~(Opened(k) /\ Addressable(a)) BY <1>1 DEF Slave, Selects, Frame
<1>2. CASE Opened(k) /\ Addressable(a)
  <2>1. k.fd \in Numbers /\ k.files[k.fd].kind = "bus" BY <1>2 DEF Opened
  <2>2. k \in I2cRecord /\ k.files \in [Numbers -> FileRecord] BY DEF BusType, I2cRecord
  <2>3. PICK e : e = [k.files[k.fd] EXCEPT !.slave = a] OBVIOUS
  <2>4. e \in FileRecord /\ e.bus = k.files[k.fd].bus /\ e.slave = a /\ e.kind = "bus"
    <3>1. PICK g \in FileRecord : g = k.files[k.fd] BY <2>1, <2>2
    <3>2. e = [g EXCEPT !.slave = a] BY <2>3, <3>1
    <3>3. e \in FileRecord /\ e.bus = g.bus /\ e.slave = a /\ e.kind = g.kind
      BY <3>2 DEF FileRecord
    <3> QED BY <2>1, <3>1, <3>3
  <2>5. PICK f : f = [k.files EXCEPT ![k.fd] = e] OBVIOUS
  <2>6. /\ f \in [Numbers -> FileRecord] /\ f[k.fd] = e
        /\ \A n \in Numbers : n # k.fd => f[n] = k.files[n]
    BY <2>1, <2>2, <2>4, <2>5
  <2>7. PICK l : l = [k EXCEPT !.files = f] OBVIOUS
  <2>8. /\ l \in I2cRecord /\ l.fd = k.fd /\ l.files = f /\ l.others = k.others
        /\ Frame(k, l)
    BY <2>2, <2>6, <2>7 DEF I2cRecord, Frame
  <2>9. Slave(k, a) = l BY <1>2, <2>3, <2>5, <2>7 DEF Slave
  <2>10. \A n \in Numbers : f[n].kind = "bus" => f[n].bus \in BusesUsed(l)
    BY <2>1, <2>4, <2>6, <2>8 DEF BusType, BusesUsed, Frame
  <2>11. FilesApart(l)
    <3>1. OtherFile.kind # "bus" BY DEF OtherFile
    <3>2. ASSUME ~k.again, NEW n \in k.others PROVE f[n] = OtherFile
      <4>1. k.files[n] = OtherFile /\ n \in Numbers BY <2>2, <3>2 DEF BusType, FilesApart, I2cRecord
      <4> QED BY <2>1, <2>6, <3>1, <4>1
    <3> QED BY <2>4, <2>6, <2>8, <3>2 DEF FilesApart, Frame
  <2>12. BusType(l) BY <2>8, <2>10, <2>11 DEF BusType, Frame
  <2>13. Selects(l, a) BY <2>4, <2>6, <2>8 DEF Selects
  <2> QED BY <2>8, <2>9, <2>12, <2>13
<1> QED BY <1>1, <1>2

\* What I2cSetAddress changes, but for the global address.
LEMMA SetAddressIs ==
  ASSUME NEW k, BusType(k), NEW a \in Nat
  PROVE  LET l == I2cSetAddress(k, a) IN
         BusType(l) /\ Frame(k, l) /\ (Addressable(a) => Selects(l, a))
<1>1. PICK m \in Nat \ {0} : m = AddrModulus BY I2cAssumption
<1>2. a % m \in Nat /\ (a < m => a % m = a) OBVIOUS
<1>3. PICK b \in Nat : b = uint8(a) BY <1>1, <1>2 DEF uint8
<1>4. Addressable(a) => b = a
  <2>1. MaxAddress \in Nat /\ MaxAddress <= m BY <1>1, I2cAssumption
  <2>2. Addressable(a) => a < m BY <1>1, <2>1 DEF Addressable
  <2> QED BY <1>1, <1>2, <1>3, <2>2 DEF uint8
<1>5. PICK q : q = [k EXCEPT !.addr = b] OBVIOUS
<1>6. /\ q \in I2cRecord /\ q.files = k.files /\ q.fd = k.fd /\ q.others = k.others
      /\ Frame(k, q)
  BY <1>5 DEF BusType, I2cRecord, Frame
<1>7. BusType(q) BY <1>6 DEF BusType, BusesUsed, FilesApart, Frame
<1>8. I2cSetAddress(k, a) = Slave(q, b) BY <1>3, <1>5 DEF I2cSetAddress
<1>9. PICK l : l = Slave(q, b) OBVIOUS
<1>10. BusType(l) /\ Frame(q, l) /\ (Addressable(b) => Selects(l, b)) BY <1>7, <1>9, SlaveIs
<1>11. Frame(k, l) BY <1>6, <1>10 DEF Frame
<1> QED BY <1>4, <1>8, <1>9, <1>10, <1>11

\* A request that is underway.
LEMMA I2cUnderway ==
  ASSUME I2cInv
  PROVE  /\ Lists(TransferRecord) /\ Underway \in Seq(TransferRecord)
         /\ \A j \in 1..Len(Underway) :
              /\ Underway[j] \in TransferRecord /\ Underway[j].pin \in Pins
              /\ Alone(i2c, raced, Underway[j])
         /\ \A i \in 1..Len(work) :
              i \in 1..Len(Underway) /\ Underway[i] = work[i] /\ work[i].pc # "done"
         /\ \A i \in 1..Len(done) :
              Len(work) + i \in 1..Len(Underway) /\ Underway[Len(work) + i] = done[i]
<1>1. Lists(TransferRecord) /\ I2cRequests BY DEF I2cInv, I2cType
<1>2. Underway \in Seq(TransferRecord) BY <1>1, ListsAt
<1>3. \A j \in 1..Len(Underway) : Underway[j] \in TransferRecord /\ Underway[j].pin \in Pins
  <2>1. \A j \in 1..Len(Underway) : Underway[j] \in TransferRecord BY <1>2
  <2>2. \A r \in TransferRecord : r.pin \in Pins BY DEF TransferRecord
  <2> QED BY <2>1, <2>2
<1>4. /\ Joined(work, done, Underway) /\ Len(work) \in Nat /\ Len(done) \in Nat
      /\ Len(Underway) = Len(work) + Len(done)
  BY <1>1, ListsAt
<1> QED BY <1>1, <1>2, <1>3, <1>4 DEF I2cRequests, Joined, Lists

\* A call queues a request, and those that disturb each other know.
LEMMA I2cQueues ==
  ASSUME I2cInv, NEW r \in TransferRecord, r.pc = "queued", I2C_ASYNC(r), UNCHANGED aborted,
         BusType(i2c'), \A p \in Pins : i2c.state[p] # "none" => i2c'.state[p] # "none",
         BusesUsed(i2c) \subseteq BusesUsed(i2c'), Alone(i2c', raced', r),
         i2c'.stale = i2c.stale, i2c'.again = i2c.again,
         \A p \in Pins : i2c.state[p] # "none" => i2c'.address[p] = i2c.address[p],
         \A j \in 1..Len(Underway) :
           \/ Disturbs(Underway[j], r)
           \/ Underway[j].op \in Transfers /\ Addressed(i2c', Underway[j].pin)
           \/ \A s : Selects(i2c, s) => Selects(i2c', s)
  PROVE  I2cInv'
<1>1. /\ Lists(TransferRecord)
      /\ \A j \in 1..Len(Underway) : Underway[j].pin \in Pins /\ Alone(i2c, raced, Underway[j])
  BY I2cUnderway
<1>2. raced \in [Pins -> BOOLEAN] /\ aborted \in BOOLEAN BY DEF I2cInv, I2cType
<1>3. uv_queue_work(r) /\ raced' = NowRaced(r) BY DEF I2C_ASYNC
<1>4. r.pin \in Pins BY DEF TransferRecord
<1>5. /\ raced' \in [Pins -> BOOLEAN] /\ \A p \in Pins : raced[p] => raced'[p]
      /\ \A j \in 1..Len(Underway) :
           Disturbs(Underway[j], r) => raced'[r.pin] /\ raced'[Underway[j].pin]
  BY <1>1, <1>2, <1>3, <1>4 DEF NowRaced, Disturbs
<1>6. Lists(TransferRecord)' BY <1>1, <1>3, ListsQueue
<1>7. ASSUME NEW j \in 1..Len(Underway) PROVE Alone(i2c', raced', Underway[j])
  <2>1. PICK q : q = Underway[j] OBVIOUS
  <2>2. q.pin \in Pins /\ Alone(i2c, raced, q) BY <1>1, <2>1
  <2>3. i2c'.state[q.pin] # "none" /\ i2c'.address[q.pin] = i2c.address[q.pin]
    BY <2>2 DEF Alone
  <2>4. raced'[q.pin] \in BOOLEAN /\ raced[q.pin] \in BOOLEAN /\ (raced[q.pin] => raced'[q.pin])
    BY <1>2, <1>5, <2>2
  <2>5. \/ raced'[q.pin]
        \/ q.op \in Transfers /\ ~i2c'.stale /\ Addressed(i2c', q.pin)
        \/ (i2c'.stale => i2c.stale) /\ \A s : Selects(i2c, s) => Selects(i2c', s)
    BY <1>5, <2>1, <2>2, <2>4 DEF Alone
  <2>6. Alone(i2c', raced', q) BY <2>2, <2>3, <2>4, <2>5, AloneKept
  <2> QED BY <2>1, <2>6
<1>8. Evolves(Underway, Underway', Len(Underway) + 1, {r})
  BY <1>1, <1>3, AppendEvolves DEF Lists, Underway, uv_queue_work
<1>9. Len(Underway) + 1 \in Nat BY <1>1, ListsAt
<1>10. \A j \in 1..Len(Underway) : raced[Underway[j].pin] => raced'[Underway[j].pin] BY <1>1, <1>5
<1>11. I2cRequests BY DEF I2cInv
<1>12. I2cRequests' BY <1>5, <1>7, <1>8, <1>9, <1>10, <1>11, TransfersEvolve
<1>13. I2cType' BY <1>2, <1>5, <1>6 DEF I2cType
<1> QED BY <1>12, <1>13 DEF I2cInv

\* A step of a worker: those of open and scan alone change the descriptors.
LEMMA I2cWorks ==
  ASSUME I2cInv, NEW i \in 1..Len(work), NEW r \in TransferRecord, Becomes(i, r),
         r.op = work[i].op, r.pin = work[i].pin, UNCHANGED <<raced, aborted>>,
         BusType(i2c'), i2c'.state = i2c.state, i2c'.bus = i2c.bus, i2c'.again = i2c.again,
         Alone(i2c', raced, r),
         r.op \in {"open", "scan"} \/ i2c' = i2c
  PROVE  I2cInv'
<1>1. /\ Lists(TransferRecord) /\ i \in 1..Len(Underway) /\ Underway[i] = work[i]
      /\ \A j \in 1..Len(Underway) : Underway[j].pin \in Pins /\ Alone(i2c, raced, Underway[j])
  BY I2cUnderway
<1>2. raced \in [Pins -> BOOLEAN] /\ aborted \in BOOLEAN /\ I2cRequests
  BY DEF I2cInv, I2cType
<1>3. \A j \in 1..Len(Underway) : Disturbs(Underway[j], r) <=> Disturbs(Underway[j], Underway[i])
  BY <1>1 DEF Disturbs
<1>4. \A j \in 1..Len(Underway) : j # i /\ Disturbs(Underway[j], r) =>
        raced'[r.pin] /\ raced'[Underway[j].pin]
  BY <1>1, <1>2, <1>3 DEF I2cRequests
<1>5. ASSUME NEW j \in 1..Len(Underway), j # i PROVE Alone(i2c', raced', Underway[j])
  <2>1. PICK q : q = Underway[j] OBVIOUS
  <2>2. q.pin \in Pins /\ Alone(i2c, raced, q) /\ raced[q.pin] \in BOOLEAN BY <1>1, <1>2, <2>1
  <2>3. CASE i2c' = i2c BY <2>1, <2>2, <2>3
  <2>4. CASE r.op \in {"open", "scan"}
    <3>1. Disturbs(q, r) BY <2>4 DEF Disturbs
    <3>2. raced[q.pin] BY <1>4, <1>5, <2>1, <3>1
    <3>3. i2c'.state[q.pin] # "none" BY <2>2 DEF Alone
    <3>4. BusesUsed(i2c) \subseteq BusesUsed(i2c') BY DEF BusesUsed
    <3>5. Alone(i2c', raced, q) BY <2>2, <3>2, <3>3, <3>4, AloneKept
    <3> QED BY <2>1, <3>5
  <2> QED BY <2>3, <2>4
<1>6. Evolves(Underway, Underway', i, {r})
  BY <1>1, ContinueEvolves, ReturnEvolves DEF Lists, Underway, Becomes
<1>7. Lists(TransferRecord)' BY <1>1, ListsWork
<1>8. Alone(i2c', raced', r) /\ i \in Nat
      /\ \A j \in 1..Len(Underway) : raced[Underway[j].pin] => raced'[Underway[j].pin]
  OBVIOUS
<1>9. I2cRequests' BY <1>2, <1>4, <1>5, <1>6, <1>8, TransfersEvolve
<1>10. I2cType' BY <1>2, <1>7 DEF I2cType
<1> QED BY <1>9, <1>10 DEF I2cInv

\* The calls.
LEMMA I2cCallsKeep ==
  ASSUME I2cInv, NEW o \in Pins,
         \/ \E bus \in Buses, address \in Addresses : i2cOpen(o, bus, address)
         \/ \E op \in {"writeByte", "readByte"} : i2cTransfer(o, op, 1)
         \/ \E op \in Transfers \ {"writeByte", "readByte"}, len \in Lengths : i2cTransfer(o, op, len)
         \/ i2cScan(o)
  PROVE  I2cInv'
<1>1. /\ \A j \in 1..Len(Underway) :
           /\ Underway[j] \in TransferRecord /\ Underway[j].pin \in Pins
           /\ Alone(i2c, raced, Underway[j])
      /\ BusType(i2c)
  BY I2cUnderway DEF I2cInv, I2cType
<1>2. ASSUME NEW op \in Transfers \cup {"open", "scan"}, NEW len \in Nat, NEW r,
             r = I2cRequest(op, o, len)
      PROVE  /\ r \in TransferRecord /\ r.op = op /\ r.pin = o /\ r.pc = "queued" /\ r.len = len
             /\ r.buf_len = buf_len(len) /\ r.rest = {} /\ r.count = 0
  <2>1. buf_len(len) \in Nat BY I2cAssumption DEF buf_len
  <2> QED BY <1>2, <2>1 DEF I2cRequest, TransferRecord, None
<1>3. ASSUME NEW r, r \in TransferRecord, r.pc = "queued", NEW len, r.len = len,
             r.buf_len = buf_len(len), r.rest = {}, r.count = 0, r.pin = o,
             i2c'.state[o] # "none", r.op \in {"writeByte", "readByte"} => len = 1,
             r.op \in Transfers /\ ~raced'[o] => ~i2c'.stale /\ Addressed(i2c', o)
      PROVE  Alone(i2c', raced', r)
  BY <1>3 DEF Alone
<1>4. CASE \E bus \in Buses, address \in Addresses : i2cOpen(o, bus, address)
  <2>1. PICK bus \in Buses, address \in Addresses : i2cOpen(o, bus, address) BY <1>4
  <2>2. PICK r : r = I2cRequest("open", o, 0) OBVIOUS
  <2>3. /\ r \in TransferRecord /\ r.op = "open" /\ r.pin = o /\ r.pc = "queued" /\ r.len = 0
        /\ r.buf_len = buf_len(0) /\ r.rest = {} /\ r.count = 0
    <3>1. PICK op \in Transfers \cup {"open", "scan"} : op = "open" OBVIOUS
    <3>2. PICK len \in Nat : len = 0 OBVIOUS
    <3>3. r = I2cRequest(op, o, len) BY <2>2, <3>1, <3>2
    <3> QED BY <1>2, <3>1, <3>2, <3>3
  <2>4. /\ i2c.state[o] = "none" /\ I2C_ASYNC(r) /\ aborted' = aborted
        /\ i2c' = [i2c EXCEPT !.state[o] = "opening", !.bus[o] = bus, !.address[o] = address]
    BY <2>1, <2>2, Zenon DEF i2cOpen
  <2>5. bus \in Nat /\ bus # None /\ address \in Nat BY I2cAssumption DEF None
  <2>6. i2c \in I2cRecord /\ i2c.state \in [Pins -> {"none", "opening", "open"}]
        /\ i2c.bus \in [Pins -> Nat \cup {None}] /\ i2c.address \in [Pins -> Nat \cup {None}]
    BY <1>1 DEF BusType, I2cRecord
  <2>7. PICK st : st = [i2c.state EXCEPT ![o] = "opening"] OBVIOUS
  <2>8. PICK bs : bs = [i2c.bus EXCEPT ![o] = bus] OBVIOUS
  <2>20. PICK ad : ad = [i2c.address EXCEPT ![o] = address] OBVIOUS
  <2>9. /\ st \in [Pins -> {"none", "opening", "open"}] /\ bs \in [Pins -> Nat \cup {None}]
        /\ ad \in [Pins -> Nat \cup {None}] /\ st[o] = "opening" /\ bs[o] = bus /\ ad[o] = address
        /\ \A p \in Pins : p # o =>
             st[p] = i2c.state[p] /\ bs[p] = i2c.bus[p] /\ ad[p] = i2c.address[p]
    BY <2>5, <2>6, <2>7, <2>8, <2>20
  <2>10. i2c' = [i2c EXCEPT !.state = st, !.bus = bs, !.address = ad] BY <2>4, <2>7, <2>8, <2>20
  <2>11. /\ i2c' \in I2cRecord /\ i2c'.state = st /\ i2c'.bus = bs /\ i2c'.address = ad
         /\ i2c'.fd = i2c.fd /\ i2c'.files = i2c.files /\ i2c'.others = i2c.others
         /\ i2c'.stale = i2c.stale /\ i2c'.again = i2c.again
    BY <2>6, <2>9, <2>10 DEF I2cRecord
  <2>12. i2c.bus[o] = None BY <1>1, <2>4 DEF BusType
  <2>13. BusesUsed(i2c) \subseteq BusesUsed(i2c') BY <2>9, <2>11, <2>12 DEF BusesUsed
  <2>14. BusType(i2c')
    <3>1. \A p \in Pins : st[p] = "none" <=> bs[p] = None BY <1>1, <2>5, <2>9 DEF BusType
    <3>2. \A p \in Pins : st[p] # "none" => ad[p] \in Nat BY <1>1, <2>5, <2>9 DEF BusType
    <3>3. \A n \in Numbers : i2c.files[n].kind = "bus" => i2c.files[n].bus \in BusesUsed(i2c')
      BY <1>1, <2>13 DEF BusType
    <3>4. FilesApart(i2c') BY <1>1, <2>11 DEF BusType, FilesApart
    <3> QED BY <2>11, <3>1, <3>2, <3>3, <3>4 DEF BusType
  <2>15. \A p \in Pins : i2c.state[p] # "none" =>
           i2c'.state[p] # "none" /\ i2c'.address[p] = i2c.address[p]
    BY <2>4, <2>9, <2>11
  <2>16. \A s : Selects(i2c, s) => Selects(i2c', s) BY <2>11 DEF Selects, Opened
  <2>17. i2c'.state[o] # "none" /\ r.op \notin Transfers /\ r.op \notin {"writeByte", "readByte"}
    BY <2>3, <2>9, <2>11 DEF Transfers
  <2>18. Alone(i2c', raced', r) BY <1>3, <2>3, <2>17
  <2> QED BY <2>3, <2>4, <2>11, <2>13, <2>14, <2>15, <2>16, <2>18, I2cQueues
<1>5. ASSUME NEW op \in Transfers, NEW len \in Nat, i2cTransfer(o, op, len),
             op \in {"writeByte", "readByte"} => len = 1
      PROVE  I2cInv'
  <2>1. PICK r : r = I2cRequest(op, o, len) OBVIOUS
  <2>2. /\ r \in TransferRecord /\ r.op = op /\ r.pin = o /\ r.pc = "queued" /\ r.len = len
        /\ r.buf_len = buf_len(len) /\ r.rest = {} /\ r.count = 0
    BY <1>2, <2>1
  <2>3. /\ i2c.state[o] # "none" /\ i2c' = I2cSetAddress(i2c, i2c.address[o]) /\ I2C_ASYNC(r)
        /\ aborted' = aborted
    BY <1>5, <2>1 DEF i2cTransfer
  <2>4. PICK a \in Nat : a = i2c.address[o] BY <1>1, <2>3 DEF BusType
  <2>5. BusType(i2c') /\ Frame(i2c, i2c') /\ (Addressable(a) => Selects(i2c', a))
    BY <1>1, <2>3, <2>4, SetAddressIs
  <2>10. Addressed(i2c', o) BY <2>4, <2>5 DEF Addressed, Frame
  <2>6. BusesUsed(i2c) \subseteq BusesUsed(i2c') BY <2>5 DEF BusesUsed, Frame
  <2>11. ~raced'[o] => ~i2c'.stale
    <3>1. r.op # "open" BY <2>2 DEF Transfers
    <3>2. raced' = NowRaced(r) BY <2>3 DEF I2C_ASYNC
    <3> QED BY <2>2, <2>5, <3>1, <3>2 DEF NowRaced, Frame
  <2>12. i2c'.state[o] # "none" BY <2>3, <2>5 DEF Frame
  <2>7. Alone(i2c', raced', r) BY <1>3, <1>5, <2>2, <2>10, <2>11, <2>12
  <2>8. ASSUME NEW j \in 1..Len(Underway), ~Disturbs(Underway[j], r)
        PROVE  Underway[j].op \in Transfers /\ Addressed(i2c', Underway[j].pin)
    <3>1. Underway[j].op \in Transfers \cup {"open", "scan"} BY <1>1 DEF TransferRecord
    <3> QED BY <2>2, <2>8, <2>10, <3>1 DEF Disturbs
  <2>9. /\ \A p \in Pins : i2c.state[p] # "none" =>
             i2c'.state[p] # "none" /\ i2c'.address[p] = i2c.address[p]
        /\ i2c'.stale = i2c.stale /\ i2c'.again = i2c.again
    BY <2>5 DEF Frame
  <2> QED BY <2>2, <2>3, <2>5, <2>6, <2>7, <2>8, <2>9, I2cQueues
<1>6. CASE \/ \E op \in {"writeByte", "readByte"} : i2cTransfer(o, op, 1)
           \/ \E op \in Transfers \ {"writeByte", "readByte"}, len \in Lengths : i2cTransfer(o, op, len)
  <2>1. Lengths \subseteq Nat /\ 1 \in Nat BY I2cAssumption
  <2>2. {"writeByte", "readByte"} \subseteq Transfers BY DEF Transfers
  <2> QED BY <1>5, <1>6, <2>1, <2>2
<1>7. CASE i2cScan(o)
  <2>1. PICK r : r = I2cRequest("scan", o, 0) OBVIOUS
  <2>2. /\ r \in TransferRecord /\ r.op = "scan" /\ r.pin = o /\ r.pc = "queued" /\ r.len = 0
        /\ r.buf_len = buf_len(0) /\ r.rest = {} /\ r.count = 0
    <3>1. "scan" \in Transfers \cup {"open", "scan"} /\ 0 \in Nat OBVIOUS
    <3> QED BY <1>2, <2>1, <3>1
  <2>3. i2c.state[o] # "none" /\ i2c' = i2c /\ I2C_ASYNC(r) /\ aborted' = aborted
    BY <1>7, <2>1 DEF i2cScan
  <2>4. r.op \notin Transfers /\ r.op \notin {"writeByte", "readByte"} BY <2>2 DEF Transfers
  <2>5. Alone(i2c', raced', r) BY <1>3, <2>2, <2>3, <2>4
  <2> QED BY <1>1, <2>2, <2>3, <2>5, I2cQueues
<1> QED BY <1>4, <1>6, <1>7

-----------------------------------------------------------------------------
(* The workers of i2c, and what calls back.                                *)

\* What a worker's return makes of its request.
LEMMA I2cReturned ==
  ASSUME I2cInv, NEW i \in 1..Len(work), NEW result \in {"ok", "open"}, Return(i, result),
         work[i].op \in {"open", "scan"}
  PROVE  \E r \in TransferRecord :
           /\ Becomes(i, r) /\ r.op = work[i].op /\ r.pin = work[i].pin /\ r.pc = "done"
           /\ r.len = work[i].len /\ r.buf_len = work[i].buf_len /\ r.rest = work[i].rest
<1>1. PICK q \in TransferRecord : q = work[i] BY I2cUnderway
<1>2. PICK r : r = Returned(q, result) OBVIOUS
<1>3. /\ r \in TransferRecord /\ r.op = q.op /\ r.pin = q.pin /\ r.pc = "done" /\ r.len = q.len
      /\ r.buf_len = q.buf_len /\ r.rest = q.rest
  BY <1>2 DEF Returned, TransferRecord
<1>4. Becomes(i, r) BY <1>1, <1>2, <1>3 DEF Becomes, Return, Returned
<1> QED BY <1>1, <1>3, <1>4

\* open()
LEMMA OpenWorkerKeeps ==
  ASSUME I2cInv, NEW i \in 1..Len(work), OpenWorker(i), UNCHANGED <<raced, aborted>>
  PROVE  I2cInv'
<1>1. PICK q : q = work[i] OBVIOUS
<1>2. q \in TransferRecord /\ q.pin \in Pins /\ Alone(i2c, raced, q) /\ BusType(i2c)
  BY <1>1, I2cUnderway DEF I2cInv, I2cType
<1>3. q.op = "open" BY <1>1, Zenon DEF OpenWorker, Begins
<1>4. i2c \in I2cRecord /\ i2c.files \in [Numbers -> FileRecord] BY <1>2 DEF BusType, I2cRecord
<1>5. ASSUME BusType(i2c'), i2c'.state = i2c.state, i2c'.bus = i2c.bus, i2c'.again = i2c.again,
             NEW result \in {"ok", "open"}, Return(i, result)
      PROVE  I2cInv'
  <2>1. PICK r \in TransferRecord :
          /\ Becomes(i, r) /\ r.op = q.op /\ r.pin = q.pin /\ r.pc = "done"
          /\ r.len = q.len /\ r.buf_len = q.buf_len /\ r.rest = q.rest
    BY <1>1, <1>3, <1>5, I2cReturned
  <2>2. r.op \notin Transfers /\ r.op \notin {"writeByte", "readByte"} BY <1>3, <2>1 DEF Transfers
  <2>3. Alone(i2c', raced, r) BY <1>2, <1>5, <2>1, <2>2 DEF Alone
  <2> QED BY <1>1, <1>3, <1>5, <2>1, <2>3, I2cWorks
<1>6. CASE \E n \in Numbers :
             /\ Lowest(i2c, n)
             /\ i2c' = [i2c EXCEPT !.files[n] = BusFile(i2c.bus[q.pin]), !.fd = n, !.stale = FALSE]
             /\ Return(i, "ok")
  <2>1. PICK n \in Numbers :
          /\ Lowest(i2c, n)
          /\ i2c' = [i2c EXCEPT !.files[n] = BusFile(i2c.bus[q.pin]), !.fd = n, !.stale = FALSE]
          /\ Return(i, "ok")
    BY <1>6, Zenon
  <2>2. i2c.bus[q.pin] \in BusesUsed(i2c) /\ i2c.bus[q.pin] \in Int
    <3>1. i2c.bus[q.pin] \in Nat \cup {None} BY <1>2, <1>4 DEF I2cRecord
    <3>2. i2c.bus[q.pin] # None BY <1>2 DEF Alone, BusType
    <3> QED BY <1>2, <3>1, <3>2 DEF BusesUsed
  <2>3. PICK file : file = BusFile(i2c.bus[q.pin]) OBVIOUS
  <2>4. file \in FileRecord /\ file.bus = i2c.bus[q.pin] /\ file.kind = "bus"
    BY <2>2, <2>3 DEF FileRecord, BusFile
  <2>5. PICK f : f = [i2c.files EXCEPT ![n] = file] OBVIOUS
  <2>6. f \in [Numbers -> FileRecord] /\ f[n] = file /\ \A m \in Numbers : m # n => f[m] = i2c.files[m]
    BY <1>4, <2>4, <2>5
  <2>7. i2c' = [i2c EXCEPT !.files = f, !.fd = n, !.stale = FALSE] BY <2>1, <2>3, <2>5
  <2>8. /\ i2c' \in I2cRecord /\ i2c'.state = i2c.state /\ i2c'.bus = i2c.bus /\ i2c'.files = f
        /\ i2c'.fd = n /\ i2c'.again = i2c.again /\ i2c'.others = i2c.others
        /\ i2c'.address = i2c.address
    BY <1>4, <2>6, <2>7 DEF I2cRecord
  <2>9. \A m \in Numbers : f[m].kind = "bus" => f[m].bus \in BusesUsed(i2c)
    BY <1>2, <2>2, <2>4, <2>6 DEF BusType
  <2>10. FilesApart(i2c')
    <3>1. i2c.files[n].kind = "free" /\ OtherFile.kind = "other" BY <2>1 DEF Lowest, OtherFile
    <3>2. ASSUME ~i2c.again, NEW m \in i2c.others PROVE f[m] = OtherFile
      <4>1. i2c.files[m] = OtherFile /\ m \in Numbers BY <1>2, <1>4, <3>2 DEF BusType, FilesApart, I2cRecord
      <4> QED BY <2>6, <3>1, <4>1
    <3> QED BY <2>4, <2>6, <2>8, <3>2 DEF FilesApart
  <2>11. BusType(i2c') BY <1>2, <2>8, <2>9, <2>10 DEF BusType, BusesUsed
  <2> QED BY <1>5, <2>1, <2>8, <2>11
<1>7. CASE i2c' = [i2c EXCEPT !.fd = -1] /\ Return(i, "open")
  <2>1. PICK n \in {-1} : n = -1 OBVIOUS
  <2>2. i2c' = [i2c EXCEPT !.fd = n] BY <1>7, <2>1
  <2>3. /\ i2c' \in I2cRecord /\ i2c'.state = i2c.state /\ i2c'.bus = i2c.bus
        /\ i2c'.files = i2c.files /\ i2c'.fd = -1 /\ i2c'.again = i2c.again
        /\ i2c'.others = i2c.others /\ i2c'.address = i2c.address
    BY <1>4, <2>1, <2>2 DEF I2cRecord
  <2>4. BusType(i2c') BY <1>2, <2>3 DEF BusType, BusesUsed, FilesApart
  <2> QED BY <1>5, <1>7, <2>3, <2>4
<1> QED BY <1>1, <1>6, <1>7, Zenon DEF OpenWorker

\* scan()
LEMMA ScanWorkerKeeps ==
  ASSUME I2cInv, NEW i \in 1..Len(work), ScanWorker(i), UNCHANGED <<raced, aborted>>
  PROVE  I2cInv'
<1>1. PICK q : q = work[i] OBVIOUS
<1>2. q \in TransferRecord /\ q.pin \in Pins /\ Alone(i2c, raced, q) /\ BusType(i2c)
  BY <1>1, I2cUnderway DEF I2cInv, I2cType
<1>3. q.op = "scan" BY <1>1, <1>2 DEF ScanWorker, Begins, At, Alone
<1>4. q.count \in Nat /\ q.rest \in SUBSET Nat BY <1>2 DEF TransferRecord
<1>5. "scan" \notin Transfers /\ "scan" \notin {"writeByte", "readByte"} BY DEF Transfers
<1>6. CASE /\ Begins(i, "scan") \/ (At(i, "scan") /\ q.count < MaxAddress)
           /\ i2c' = Slave(i2c, q.count) /\ Goto(i, "probe")
  <2>1. Addressable(q.count)
    <3>1. 0 < MaxAddress BY I2cAssumption
    <3>2. Begins(i, "scan") => q.count = 0 BY <1>1, <1>2 DEF Begins, Takes, Alone
    <3> QED BY <1>6, <3>1, <3>2 DEF Addressable
  <2>2. /\ BusType(i2c') /\ i2c'.state = i2c.state /\ i2c'.bus = i2c.bus /\ i2c'.again = i2c.again
        /\ Selects(i2c', q.count)
    BY <1>2, <1>4, <1>6, <2>1, SlaveIs DEF Frame
  <2>3. PICK r : r = [q EXCEPT !.pc = "probe"] OBVIOUS
  <2>4. /\ r \in TransferRecord /\ r.op = q.op /\ r.pin = q.pin /\ r.pc = "probe" /\ r.len = q.len
        /\ r.buf_len = q.buf_len /\ r.rest = q.rest /\ r.count = q.count
    BY <1>2, <2>3 DEF TransferRecord
  <2>5. Becomes(i, r) BY <1>1, <1>6, <2>3, <2>4 DEF Becomes, Goto, Continue
  <2>6. Alone(i2c', raced, r) BY <1>2, <1>3, <1>5, <2>2, <2>4 DEF Alone
  <2> QED BY <1>1, <1>3, <2>2, <2>4, <2>5, <2>6, I2cWorks
<1>7. CASE /\ At(i, "probe")
           /\ \E answers \in {TRUE, ~Faulty} :
                Continue(i, [q EXCEPT !.pc = "scan", !.count = @ + 1, !.rest =
                  IF answers /\ Answered(i2c) THEN @ \cup {q.count} ELSE @])
           /\ UNCHANGED i2c
  <2>1. q.pc = "probe" BY <1>1, <1>7 DEF At
  <2>2. PICK answers \in {TRUE, ~Faulty} :
          Continue(i, [q EXCEPT !.pc = "scan", !.count = @ + 1, !.rest =
            IF answers /\ Answered(i2c) THEN @ \cup {q.count} ELSE @])
    BY <1>7
  <2>3. PICK found : found = IF answers /\ Answered(i2c) THEN q.rest \cup {q.count} ELSE q.rest
    OBVIOUS
  <2>4. found \in SUBSET Nat BY <1>4, <2>3
  <2>5. PICK n \in Nat : n = q.count + 1 BY <1>4
  <2>6. PICK r : r = [q EXCEPT !.pc = "scan", !.count = n, !.rest = found] OBVIOUS
  <2>7. /\ r \in TransferRecord /\ r.op = q.op /\ r.pin = q.pin /\ r.pc = "scan" /\ r.len = q.len
        /\ r.buf_len = q.buf_len /\ r.rest = found
    BY <1>2, <2>4, <2>6 DEF TransferRecord
  <2>8. Becomes(i, r) BY <1>1, <2>2, <2>3, <2>5, <2>6, <2>7 DEF Becomes, Continue
  <2>9. ~raced[q.pin] => found \subseteq Present
    <3>1. ~raced[q.pin] => Selects(i2c, q.count) /\ q.rest \subseteq Present
      BY <1>2, <2>1 DEF Alone
    <3> QED BY <2>3, <3>1 DEF Selects, Answered
  <2>10. Alone(i2c', raced, r) BY <1>2, <1>3, <1>5, <1>7, <2>7, <2>9 DEF Alone
  <2> QED BY <1>1, <1>2, <1>3, <1>7, <2>7, <2>8, <2>10, I2cWorks
<1>8. CASE i2c' = Slave(i2c, i2c.addr) /\ Return(i, "ok")
  <2>1. i2c.addr \in Nat BY <1>2 DEF BusType, I2cRecord
  <2>2. BusType(i2c') /\ i2c'.state = i2c.state /\ i2c'.bus = i2c.bus /\ i2c'.again = i2c.again
    BY <1>2, <1>8, <2>1, SlaveIs DEF Frame
  <2>3. PICK r \in TransferRecord :
          /\ Becomes(i, r) /\ r.op = q.op /\ r.pin = q.pin /\ r.pc = "done"
          /\ r.len = q.len /\ r.buf_len = q.buf_len /\ r.rest = q.rest
    BY <1>1, <1>3, <1>8, I2cReturned
  <2>4. Alone(i2c', raced, r) BY <1>2, <1>3, <1>5, <2>2, <2>3 DEF Alone
  <2> QED BY <1>1, <1>3, <2>2, <2>3, <2>4, I2cWorks
<1> QED BY <1>1, <1>6, <1>7, <1>8 DEF ScanWorker

\* A transfer whose system call was made: when it reports success everything was moved,
\* and if nothing has disturbed it and no close() was one too many the descriptor was a bus.
LEMMA TransferredKeeps ==
  ASSUME I2cInv, NEW i \in 1..Len(work), NEW q, q = work[i], q.op \in Transfers,
         UNCHANGED <<raced, aborted>>, NEW n \in Int,
         NEW err \in {"ok", "write", "read", "readBlock"}, Transferred(i, n, err),
         err = "ok" => /\ Opened(i2c) \/ Mistaken(i2c)
                       /\ q.op = "writeBlock" => n = Clamped(q.buf_len)
                       /\ q.op \in {"writeByte", "readByte"} => n = 1
                       /\ q.op \in Transfers \ {"writeBlock", "writeByte", "readByte"} =>
                            n = q.buf_len
  PROVE  I2cInv'
<1>1. q \in TransferRecord /\ q.pin \in Pins /\ Alone(i2c, raced, q) /\ BusType(i2c)
  BY I2cUnderway DEF I2cInv, I2cType
<1>2. Opened(i2c) => /\ i2c.files[i2c.fd].bus \in Int /\ i2c.files[i2c.fd].slave \in Int
                     /\ i2c.files[i2c.fd].bus \in BusesUsed(i2c)
  <2>1. i2c.files \in [Numbers -> FileRecord] BY <1>1 DEF BusType, I2cRecord
  <2>2. Opened(i2c) => i2c.fd \in Numbers /\ i2c.files[i2c.fd].kind = "bus" BY DEF Opened
  <2>3. Opened(i2c) => i2c.files[i2c.fd] \in FileRecord BY <2>1, <2>2
  <2>4. \A e \in FileRecord : e.bus \in Int /\ e.slave \in Int BY DEF FileRecord
  <2> QED BY <1>1, <2>2, <2>3, <2>4 DEF BusType
<1>3. PICK b \in Int : b = IF Opened(i2c) THEN i2c.files[i2c.fd].bus ELSE None BY <1>2 DEF None
<1>4. PICK s \in Int : s = IF Opened(i2c) THEN i2c.files[i2c.fd].slave ELSE None BY <1>2 DEF None
<1>5. PICK r : r = [q EXCEPT !.pc = "done", !.moved = n, !.result = err, !.bus = b, !.slave = s]
  OBVIOUS
<1>6. /\ r \in TransferRecord /\ r.op = q.op /\ r.pin = q.pin /\ r.pc = "done" /\ r.len = q.len
      /\ r.buf_len = q.buf_len /\ r.rest = q.rest /\ r.moved = n /\ r.result = err /\ r.bus = b
      /\ r.slave = s
  BY <1>1, <1>5 DEF TransferRecord
<1>7. Becomes(i, r) /\ i2c' = i2c BY <1>3, <1>4, <1>5, <1>6 DEF Becomes, Transferred
<1>8. err = "ok" => Success(i2c, raced, r)
  <2>1. ~raced[q.pin] => ~i2c.stale /\ Addressed(i2c, q.pin) BY <1>1 DEF Alone
  <2>2. err = "ok" /\ ~raced[q.pin] /\ ~i2c.again => Opened(i2c)
    <3>1. ~raced[q.pin] /\ ~i2c.again => i2c.fd = -1 \/ i2c.files[i2c.fd].kind = "bus"
      BY <1>1, <2>1 DEF BusType, FilesApart
    <3>2. -1 \notin Numbers BY I2cAssumption DEF Numbers
    <3> QED BY <3>1, <3>2 DEF Opened, Mistaken
  <2>3. err = "ok" /\ ~raced[q.pin] /\ ~i2c.again =>
          b \in BusesUsed(i2c) /\ (Addressable(i2c.address[q.pin]) => s = i2c.address[q.pin])
    BY <1>2, <1>3, <1>4, <2>1, <2>2 DEF Addressed, Selects
  <2> QED BY <1>6, <2>3 DEF Success
<1>9. Alone(i2c, raced, r) BY <1>1, <1>6, <1>8 DEF Alone
<1> QED BY <1>1, <1>6, <1>7, <1>9, I2cWorks

\* write(), read() and the others.
LEMMA TransferWorkersKeep ==
  ASSUME I2cInv, NEW i \in 1..Len(work), UNCHANGED <<raced, aborted>>,
         \/ WriteWorker(i) \/ WriteByteWorker(i) \/ WriteBlockWorker(i)
         \/ ReadWorker(i) \/ ReadByteWorker(i) \/ ReadBlockWorker(i)
  PROVE  I2cInv'
<1>1. PICK q : q = work[i] OBVIOUS
<1>2. q \in TransferRecord /\ q.buf_len \in Nat
  <2>1. q \in TransferRecord BY <1>1, I2cUnderway
  <2> QED BY <2>1 DEF TransferRecord
<1>3. ASSUME NEW l \in Nat, NEW n \in Moved(i2c, l)
      PROVE  n \in Int /\ (n # -1 => Opened(i2c)) /\ n \in -1..l
  BY DEF Moved, Answered
<1>9. ASSUME NEW l \in Nat, NEW n \in RawMoved(i2c, l)
      PROVE  n \in Int /\ (n # -1 => Opened(i2c) \/ Mistaken(i2c))
  BY <1>3 DEF RawMoved
<1>4. BlockMax \in Nat /\ Clamped(q.buf_len) \in Nat BY <1>2, I2cAssumption DEF Clamped
<1>5. CASE WriteWorker(i) \/ ReadWorker(i)
  <2>1. q.op \in {"write", "read"} BY <1>1, <1>5 DEF WriteWorker, ReadWorker, Begins
  <2>2. PICK n \in RawMoved(i2c, q.buf_len), err \in {"ok", "write", "read"} :
          Transferred(i, n, err) /\ (err = "ok" => n = q.buf_len)
    BY <1>1, <1>5 DEF WriteWorker, ReadWorker
  <2>3. n \in Int /\ (err = "ok" => Opened(i2c) \/ Mistaken(i2c)) BY <1>2, <1>9, <2>2
  <2>4. q.op \in Transfers BY <2>1 DEF Transfers
  <2> QED BY <1>1, <2>1, <2>2, <2>3, <2>4, TransferredKeeps
<1>6. CASE WriteByteWorker(i) \/ ReadByteWorker(i)
  <2>1. q.op \in {"writeByte", "readByte"} BY <1>1, <1>6 DEF WriteByteWorker, ReadByteWorker, Begins
  <2>2. PICK n \in Moved(i2c, 1), err \in {"ok", "write", "read"} :
          Transferred(i, n, err) /\ n # 0 /\ (err = "ok" => n # -1)
    BY <1>6 DEF WriteByteWorker, ReadByteWorker
  <2>3. n \in Int /\ (n # -1 => Opened(i2c)) /\ n \in -1..1
    <3>1. 1 \in Nat OBVIOUS
    <3> QED BY <1>3, <3>1
  <2>4. err = "ok" => Opened(i2c) /\ n = 1 BY <2>2, <2>3
  <2>5. q.op \in Transfers BY <2>1 DEF Transfers
  <2> QED BY <1>1, <2>1, <2>2, <2>3, <2>4, <2>5, TransferredKeeps
<1>7. CASE WriteBlockWorker(i)
  <2>1. q.op = "writeBlock" BY <1>1, <1>7 DEF WriteBlockWorker, Begins
  <2>2. PICK n \in Moved(i2c, Clamped(q.buf_len)), err \in {"ok", "write"} :
          /\ Transferred(i, n, err) /\ n \in {-1, Clamped(q.buf_len)} /\ (err = "ok" => n # -1)
    BY <1>1, <1>7 DEF WriteBlockWorker
  <2>3. n \in Int /\ (err = "ok" => Opened(i2c) /\ n = Clamped(q.buf_len)) BY <1>3, <1>4, <2>2
  <2>4. q.op \in Transfers BY <2>1 DEF Transfers
  <2> QED BY <1>1, <2>1, <2>2, <2>3, <2>4, TransferredKeeps
<1>8. CASE ReadBlockWorker(i)
  <2>1. q.op \in {"readBlock", "stream"} BY <1>1, <1>8 DEF ReadBlockWorker, Begins
  <2>2. PICK n \in Moved(i2c, Clamped(q.buf_len)), err \in {"ok", "readBlock"} :
          Transferred(i, n, err) /\ (err = "ok" => n = q.buf_len)
    BY <1>1, <1>8 DEF ReadBlockWorker
  <2>3. n \in Int /\ (err = "ok" => Opened(i2c)) BY <1>2, <1>3, <1>4, <2>2
  <2>4. q.op \in Transfers BY <2>1 DEF Transfers
  <2> QED BY <1>1, <2>1, <2>2, <2>3, <2>4, TransferredKeeps
<1> QED BY <1>5, <1>6, <1>7, <1>8

\* What changes the descriptors from JavaScript's thread disturbs all that is underway.
LEMMA DisturbanceKeeps ==
  ASSUME I2cInv, UNCHANGED <<work, done, aborted>>, raced' = NowDisturbed, BusType(i2c'),
         i2c'.state = i2c.state, i2c'.bus = i2c.bus, i2c.again => i2c'.again
  PROVE  I2cInv'
<1>1. /\ BusType(i2c) /\ I2cRequests /\ raced \in [Pins -> BOOLEAN]
      /\ \A j \in 1..Len(Underway) : Underway[j].pin \in Pins /\ Alone(i2c, raced, Underway[j])
  BY I2cUnderway DEF I2cInv, I2cType
<1>2. raced' \in [Pins -> BOOLEAN] /\ \A j \in 1..Len(Underway) : raced'[Underway[j].pin] = TRUE
  BY <1>1 DEF NowDisturbed
<1>3. BusesUsed(i2c) \subseteq BusesUsed(i2c') BY DEF BusesUsed
<1>4. ASSUME NEW j \in 1..Len(Underway) PROVE Alone(i2c', raced', Underway[j])
  <2>1. PICK q : q = Underway[j] OBVIOUS
  <2>2. q.pin \in Pins /\ Alone(i2c, raced, q) /\ raced[q.pin] \in BOOLEAN /\ raced'[q.pin]
        /\ raced'[q.pin] \in BOOLEAN
    BY <1>1, <1>2, <2>1
  <2>3. i2c'.state[q.pin] # "none" BY <2>2 DEF Alone
  <2>4. Alone(i2c', raced', q) BY <1>3, <2>2, <2>3, AloneKept
  <2> QED BY <2>1, <2>4
<1>5. Underway' = Underway BY DEF Underway
<1>6. I2cRequests' BY <1>1, <1>2, <1>4, <1>5 DEF I2cRequests
<1>7. I2cType' BY <1>2 DEF I2cInv, I2cType, Lists
<1> QED BY <1>6, <1>7 DEF I2cInv

\* close()
LEMMA I2cCloseKeeps ==
  ASSUME I2cInv, I2cClose
  PROVE  I2cInv'
<1>1. UNCHANGED <<work, done, aborted>> /\ raced' = NowDisturbed /\ i2c.fd > 0
  BY DEF I2cClose, pool
<1>2. BusType(i2c) BY DEF I2cInv, I2cType
<1>3. i2c \in I2cRecord /\ i2c.files \in [Numbers -> FileRecord] /\ i2c.fd \in Numbers
  BY <1>1, <1>2 DEF BusType, I2cRecord
<1>4. PICK b \in BOOLEAN : b = (i2c.again \/ i2c.stale) OBVIOUS
<1>5. PICK f : f = [i2c.files EXCEPT ![i2c.fd] = NoFile] OBVIOUS
<1>6. NoFile \in FileRecord /\ NoFile.kind = "free" BY DEF NoFile, FileRecord, None
<1>7. /\ f \in [Numbers -> FileRecord] /\ f[i2c.fd] = NoFile
      /\ \A n \in Numbers : n # i2c.fd => f[n] = i2c.files[n]
  BY <1>3, <1>5, <1>6
<1>8. i2c' = [i2c EXCEPT !.files = f, !.stale = TRUE, !.again = b]
  <2>1. i2c' = [i2c EXCEPT !.files[i2c.fd] = NoFile, !.stale = TRUE, !.again = @ \/ i2c.stale]
    BY Zenon DEF I2cClose
  <2> QED BY <1>3, <1>4, <1>5, <2>1 DEF I2cRecord
<1>9. /\ i2c' \in I2cRecord /\ i2c'.fd = i2c.fd /\ i2c'.files = f /\ i2c'.others = i2c.others
      /\ i2c'.stale = TRUE /\ i2c'.again = b /\ i2c'.state = i2c.state /\ i2c'.bus = i2c.bus
      /\ i2c'.address = i2c.address
  BY <1>3, <1>7, <1>8 DEF I2cRecord
<1>10. FilesApart(i2c')
  <2>1. ASSUME ~b, NEW n \in i2c.others PROVE f[n] = OtherFile
    <3>1. ~i2c.again /\ ~i2c.stale BY <1>4, <2>1
    <3>2. i2c.fd # -1 /\ n \in Numbers BY <1>1, <1>3, <2>1 DEF I2cRecord
    <3>3. i2c.files[n] = OtherFile /\ i2c.files[i2c.fd].kind = "bus"
      BY <1>2, <2>1, <3>1, <3>2 DEF BusType, FilesApart
    <3>4. n # i2c.fd BY <3>3 DEF OtherFile
    <3> QED BY <1>7, <3>2, <3>3, <3>4
  <2> QED BY <1>9, <2>1 DEF FilesApart
<1>11. BusType(i2c') BY <1>2, <1>6, <1>7, <1>9, <1>10 DEF BusType, BusesUsed
<1> QED BY <1>1, <1>4, <1>9, <1>11, DisturbanceKeeps

\* setAddress()
LEMMA SetAddressKeeps ==
  ASSUME I2cInv, NEW o \in Pins, NEW address \in Addresses, i2cSetAddress(o, address)
  PROVE  I2cInv'
<1>1. UNCHANGED <<work, done, aborted>> /\ raced' = NowDisturbed /\ i2c.state[o] # "none"
  BY DEF i2cSetAddress
<1>2. BusType(i2c) /\ address \in Nat BY I2cAssumption DEF I2cInv, I2cType
<1>3. PICK k : k = I2cSetAddress(i2c, address) OBVIOUS
<1>4. BusType(k) /\ Frame(i2c, k) BY <1>2, <1>3, SetAddressIs
<1>5. k \in I2cRecord /\ k.address \in [Pins -> Nat \cup {None}] BY <1>4 DEF BusType, I2cRecord
<1>6. PICK ad : ad = [k.address EXCEPT ![o] = address] OBVIOUS
<1>7. /\ ad \in [Pins -> Nat \cup {None}] /\ ad[o] = address
      /\ \A p \in Pins : p # o => ad[p] = k.address[p]
  BY <1>2, <1>5, <1>6
<1>8. i2c' = [k EXCEPT !.address = ad] BY <1>3, <1>6, Zenon DEF i2cSetAddress
<1>9. /\ i2c' \in I2cRecord /\ i2c'.fd = k.fd /\ i2c'.files = k.files /\ i2c'.others = k.others
      /\ i2c'.stale = k.stale /\ i2c'.again = k.again /\ i2c'.state = k.state
      /\ i2c'.bus = k.bus /\ i2c'.address = ad
  BY <1>5, <1>7, <1>8 DEF I2cRecord
<1>10. BusType(i2c') BY <1>2, <1>4, <1>7, <1>9 DEF BusType, BusesUsed, FilesApart
<1> QED BY <1>1, <1>4, <1>9, <1>10, DisturbanceKeeps DEF Frame

\* Others open and close files of their own, which changes nothing for the bus.
LEMMA ElsewhereKeeps ==
  ASSUME I2cInv, Elsewhere
  PROVE  I2cInv'
<1>1. UNCHANGED <<work, done, raced, aborted>> BY Zenon DEF Elsewhere
<1>2. /\ BusType(i2c) /\ I2cRequests /\ raced \in [Pins -> BOOLEAN]
      /\ \A j \in 1..Len(Underway) : Underway[j].pin \in Pins /\ Alone(i2c, raced, Underway[j])
  BY I2cUnderway DEF I2cInv, I2cType
<1>3. i2c \in I2cRecord /\ i2c.files \in [Numbers -> FileRecord] /\ i2c.others \in SUBSET Numbers
      /\ i2c.fd \in Numbers \cup {-1}
  BY <1>2 DEF BusType, I2cRecord
<1>4. ASSUME NEW n \in Numbers, NEW e \in {NoFile, OtherFile}, NEW set \in SUBSET Numbers,
             i2c' = [i2c EXCEPT !.files[n] = e, !.others = set],
             ~i2c.again => \A m \in set : IF m = n THEN e = OtherFile ELSE m \in i2c.others,
             ~i2c.again => i2c.files[n].kind # "bus"
      PROVE  I2cInv'
  <2>1. PICK f : f = [i2c.files EXCEPT ![n] = e] OBVIOUS
  <2>2. e \in FileRecord /\ e.kind # "bus" BY DEF NoFile, OtherFile, FileRecord, None
  <2>3. f \in [Numbers -> FileRecord] /\ f[n] = e /\ \A m \in Numbers : m # n => f[m] = i2c.files[m]
    BY <1>3, <2>1, <2>2
  <2>4. i2c' = [i2c EXCEPT !.files = f, !.others = set] BY <1>4, <2>1, Zenon
  <2>5. /\ i2c' \in I2cRecord /\ i2c'.fd = i2c.fd /\ i2c'.files = f /\ i2c'.others = set
        /\ Frame(i2c, i2c')
    BY <1>3, <2>3, <2>4 DEF I2cRecord, Frame
  <2>6. FilesApart(i2c')
    <3>1. ASSUME ~i2c.again, NEW m \in set PROVE f[m] = OtherFile
      <4>1. m \in Numbers OBVIOUS
      <4>2. CASE m = n BY <1>4, <2>3, <3>1, <4>2
      <4>3. CASE m # n
        <5>1. m \in i2c.others BY <1>4, <3>1, <4>3
        <5>2. i2c.files[m] = OtherFile BY <1>2, <3>1, <5>1 DEF BusType, FilesApart
        <5> QED BY <2>3, <4>1, <4>3, <5>2
      <4> QED BY <4>2, <4>3
    <3>2. ASSUME ~i2c.again, ~i2c.stale PROVE i2c.fd = -1 \/ f[i2c.fd].kind = "bus"
      <4>1. i2c.fd = -1 \/ i2c.files[i2c.fd].kind = "bus" BY <1>2, <3>2 DEF BusType, FilesApart
      <4> QED BY <1>3, <1>4, <2>3, <3>2, <4>1
    <3> QED BY <2>5, <3>1, <3>2 DEF FilesApart, Frame
  <2>7. BusType(i2c') /\ BusesUsed(i2c) \subseteq BusesUsed(i2c')
    BY <1>2, <2>2, <2>3, <2>5, <2>6 DEF BusType, BusesUsed, Frame
  <2>8. \A s : Selects(i2c, s) => Selects(i2c', s) BY <2>2, <2>3, <2>5 DEF Selects, Opened
  <2>9. ASSUME NEW j \in 1..Len(Underway) PROVE Alone(i2c', raced, Underway[j])
    <3>1. PICK q : q = Underway[j] OBVIOUS
    <3>2. q.pin \in Pins /\ Alone(i2c, raced, q) /\ raced[q.pin] \in BOOLEAN BY <1>2, <3>1
    <3>3. i2c'.state[q.pin] # "none" BY <2>5, <3>2 DEF Alone, Frame
    <3>4. Alone(i2c', raced, q) BY <2>5, <2>7, <2>8, <3>2, <3>3, AloneKept DEF Frame
    <3> QED BY <3>1, <3>4
  <2>10. Underway' = Underway BY <1>1 DEF Underway
  <2>11. I2cRequests' BY <1>1, <1>2, <2>9, <2>10 DEF I2cRequests
  <2>12. I2cType' BY <1>1, <2>7 DEF I2cInv, I2cType, Lists
  <2> QED BY <2>11, <2>12 DEF I2cInv
<1>5. ASSUME NEW n \in Numbers, Lowest(i2c, n),
             i2c' = [i2c EXCEPT !.files[n] = OtherFile, !.others = @ \cup {n}]
      PROVE  I2cInv'
  <2>1. PICK set \in SUBSET Numbers : set = i2c.others \cup {n} BY <1>3
  <2>2. i2c' = [i2c EXCEPT !.files[n] = OtherFile, !.others = set] BY <1>5, <2>1, Zenon
  <2>3. i2c.files[n].kind # "bus" BY <1>5 DEF Lowest
  <2>4. \A m \in set : IF m = n THEN OtherFile = OtherFile ELSE m \in i2c.others BY <2>1
  <2> QED BY <1>4, <2>2, <2>3, <2>4, Zenon
<1>6. ASSUME NEW n \in i2c.others,
             i2c' = [i2c EXCEPT !.files[n] = NoFile, !.others = @ \ {n}]
      PROVE  I2cInv'
  <2>1. PICK set \in SUBSET Numbers : set = i2c.others \ {n} BY <1>3
  <2>2. i2c' = [i2c EXCEPT !.files[n] = NoFile, !.others = set] BY <1>6, <2>1, Zenon
  <2>3. n \in Numbers BY <1>3
  <2>4. ~i2c.again => i2c.files[n].kind # "bus" BY <1>2 DEF BusType, FilesApart, OtherFile
  <2>5. \A m \in set : m # n /\ m \in i2c.others BY <2>1
  <2> QED BY <1>4, <2>2, <2>3, <2>4, <2>5, Zenon
<1> QED BY <1>5, <1>6, Zenon DEF Elsewhere

\* stream() calls itself again.
LEMMA StreamAgainKeeps ==
  ASSUME I2cInv, NEW r, done # <<>>, r = Head(done), r.op = "stream", NEW next,
         next = I2cRequest("stream", r.pin, r.len),
         work' = Append(work, next), done' = Tail(done), raced' = NowRaced(next),
         i2c' = I2cSetAddress(i2c, i2c.address[r.pin]), UNCHANGED aborted
  PROVE  I2cInv'
<1>1. /\ Lists(TransferRecord) /\ BusType(i2c) /\ I2cRequests
      /\ raced \in [Pins -> BOOLEAN] /\ aborted \in BOOLEAN
      /\ \A j \in 1..Len(Underway) :
           /\ Underway[j] \in TransferRecord /\ Underway[j].pin \in Pins
           /\ Alone(i2c, raced, Underway[j])
  BY I2cUnderway DEF I2cInv, I2cType
<1>2. Len(done) \in Nat /\ Len(done) > 0 /\ Head(done) = done[1] /\ Len(work) \in Nat
  BY <1>1 DEF Lists
<1>3. r = done[1] /\ 1 \in 1..Len(done) BY <1>2
<1>4. Len(work) + 1 \in 1..Len(Underway) /\ Underway[Len(work) + 1] = r BY <1>3, I2cUnderway
<1>5. r \in TransferRecord /\ r.pin \in Pins /\ Alone(i2c, raced, r) BY <1>1, <1>4
<1>6. r.len \in Nat BY <1>5 DEF TransferRecord
<1>7. /\ next \in TransferRecord /\ next.op = "stream" /\ next.pin = r.pin /\ next.pc = "queued"
      /\ next.len = r.len /\ next.buf_len = buf_len(r.len) /\ next.rest = {} /\ next.count = 0
  <2>1. buf_len(r.len) \in Nat BY <1>6, I2cAssumption DEF buf_len
  <2>2. PICK op \in Transfers : op = "stream" BY DEF Transfers
  <2>3. PICK p \in Pins : p = r.pin BY <1>5
  <2>4. PICK len \in Nat : len = r.len BY <1>6
  <2>5. PICK b \in Nat : b = buf_len(len) BY <2>1, <2>4
  <2>6. next = [op |-> op, pin |-> p, pc |-> "queued", count |-> 0, result |-> "ok",
                len |-> len, buf_len |-> b, bus |-> None, slave |-> None, moved |-> 0, rest |-> {}]
    BY <2>2, <2>3, <2>4, <2>5 DEF I2cRequest
  <2>7. next \in TransferRecord BY <2>6 DEF TransferRecord, None
  <2> QED BY <2>2, <2>3, <2>4, <2>5, <2>6, <2>7
<1>8. "stream" \in Transfers /\ "stream" \notin {"open", "scan", "writeByte", "readByte"}
  BY DEF Transfers
<1>9. PICK a \in Nat : a = i2c.address[r.pin] BY <1>1, <1>5 DEF BusType, Alone
<1>10. /\ BusType(i2c') /\ Frame(i2c, i2c') /\ Addressed(i2c', r.pin)
  <2>1. BusType(i2c') /\ Frame(i2c, i2c') /\ (Addressable(a) => Selects(i2c', a))
    BY <1>1, <1>9, SetAddressIs
  <2> QED BY <1>9, <2>1 DEF Addressed, Frame
<1>11. BusesUsed(i2c) \subseteq BusesUsed(i2c') BY <1>10 DEF BusesUsed, Frame
<1>12. /\ raced' \in [Pins -> BOOLEAN] /\ \A p \in Pins : raced[p] => raced'[p]
       /\ \A j \in 1..Len(Underway) :
            Disturbs(Underway[j], next) => raced'[next.pin] /\ raced'[Underway[j].pin]
  BY <1>1, <1>5, <1>7 DEF NowRaced, Disturbs
<1>13. Alone(i2c', raced', next)
  <2>1. i2c'.state[next.pin] # "none" BY <1>5, <1>7, <1>10 DEF Alone, Frame
  <2>2. ~raced'[next.pin] => ~i2c'.stale
    <3>1. next.pin \in Pins /\ next.op # "open" BY <1>5, <1>7, <1>8
    <3>2. i2c.stale => NowRaced(next)[next.pin] BY <3>1 DEF NowRaced
    <3>3. i2c'.stale = i2c.stale BY <1>10 DEF Frame
    <3> QED BY <3>2, <3>3
  <2> QED BY <1>7, <1>8, <1>10, <2>1, <2>2 DEF Alone
<1>14. ASSUME NEW j \in 1..Len(Underway) PROVE Alone(i2c', raced', Underway[j])
  <2>1. PICK q : q = Underway[j] OBVIOUS
  <2>2. q \in TransferRecord /\ q.pin \in Pins /\ Alone(i2c, raced, q) BY <1>1, <2>1
  <2>3. i2c'.state[q.pin] # "none" /\ i2c'.address[q.pin] = i2c.address[q.pin]
    BY <1>10, <2>2 DEF Alone, Frame
  <2>4. raced'[q.pin] \in BOOLEAN /\ raced[q.pin] \in BOOLEAN /\ (raced[q.pin] => raced'[q.pin])
    BY <1>1, <1>12, <2>2
  <2>5. raced'[q.pin] \/ (q.op \in Transfers /\ ~i2c'.stale /\ Addressed(i2c', q.pin))
    <3>1. q.op \in Transfers \cup {"open", "scan"} BY <2>2 DEF TransferRecord
    <3>2. CASE Disturbs(q, next) BY <1>12, <2>1, <3>2
    <3>3. CASE ~Disturbs(q, next)
      <4>1. q.op \in Transfers /\ q.pin = r.pin BY <1>7, <3>1, <3>3 DEF Disturbs
      <4>2. ~raced'[q.pin] => ~i2c.stale BY <2>2, <2>4, <4>1 DEF Alone
      <4> QED BY <1>10, <2>4, <4>1, <4>2 DEF Frame
    <3> QED BY <3>2, <3>3
  <2>7. i2c'.again = i2c.again BY <1>10 DEF Frame
  <2>6. Alone(i2c', raced', q) BY <1>11, <2>2, <2>3, <2>4, <2>5, <2>7, AloneKept
  <2> QED BY <2>1, <2>6
<1>15. Evolves(Underway, Underway', Len(work) + 1, {next})
  BY <1>1, <1>7, AgainEvolves DEF Lists, Underway
<1>16. \A j \in 1..Len(Underway) : raced[Underway[j].pin] => raced'[Underway[j].pin]
  BY <1>1, <1>12
<1>17. Len(work) + 1 \in Nat BY <1>2
<1>18. I2cRequests' BY <1>1, <1>12, <1>13, <1>14, <1>15, <1>16, <1>17, TransfersEvolve
<1>19. Lists(TransferRecord)'
  <2>1. /\ work' \in Seq(TransferRecord) /\ Len(work') = Len(work) + 1
        /\ work'[Len(work) + 1] = next /\ \A i \in 1..Len(work) : work'[i] = work[i]
    BY <1>1, <1>7 DEF Lists
  <2>2. /\ done' \in Seq(TransferRecord) /\ Len(done') = Len(done) - 1
        /\ \A i \in 1..Len(done') : done'[i] = done[i + 1]
    BY <1>1 DEF Lists
  <2>3. ASSUME NEW i \in 1..Len(work') PROVE work'[i].pc # "done"
    <3>1. i \in 1..Len(work) \/ i = Len(work) + 1 BY <1>2, <2>1
    <3> QED BY <1>1, <1>7, <2>1, <3>1 DEF Lists
  <2>4. ASSUME NEW i \in 1..Len(done') PROVE done'[i].pc = "done"
    <3>1. i + 1 \in 1..Len(done) BY <1>2, <2>2
    <3> QED BY <1>1, <2>2, <3>1 DEF Lists
  <2> QED BY <2>1, <2>2, <2>3, <2>4 DEF Lists
<1>20. I2cType' BY <1>1, <1>10, <1>12, <1>19 DEF I2cType
<1> QED BY <1>18, <1>20 DEF I2cInv

\* The other requests call back: after an open the descriptor is set to the slave of
\* its object, and all that is underway knows that the open disturbs it.
LEMMA I2cDispatchKeeps ==
  ASSUME I2cInv, Dispatch, NEW r, r = Head(done), UNCHANGED raced, aborted' \in BOOLEAN,
         \/ i2c' = i2c
         \/ /\ r.op = "open"
            /\ i2c' = I2cSetAddress([i2c EXCEPT !.state[r.pin] = "open"], i2c.address[r.pin])
  PROVE  I2cInv'
<1>1. /\ Lists(TransferRecord) /\ BusType(i2c) /\ I2cRequests /\ raced \in [Pins -> BOOLEAN]
      /\ \A j \in 1..Len(Underway) : Underway[j].pin \in Pins /\ Alone(i2c, raced, Underway[j])
  BY I2cUnderway DEF I2cInv, I2cType
<1>2. /\ Lists(TransferRecord)' /\ Len(work) + 1 \in 1..Len(Underway)
      /\ Underway[Len(work) + 1] = r
  BY <1>1, ListsDispatch
<1>3. r.pin \in Pins /\ Alone(i2c, raced, r) BY <1>1, <1>2
<1>4. Evolves(Underway, Underway', Len(work) + 1, {})
  BY <1>1, TailEvolves DEF Lists, Underway, Dispatch
<1>5. Len(work) + 1 \in Nat BY <1>2
<1>6. ASSUME BusType(i2c'), \A j \in 1..Len(Underway) :
               j # Len(work) + 1 => Alone(i2c', raced, Underway[j])
      PROVE  I2cInv'
  <2>1. I2cRequests' BY <1>1, <1>4, <1>5, <1>6, TransfersEvolve
  <2>2. I2cType' BY <1>1, <1>2, <1>6 DEF I2cType
  <2> QED BY <2>1, <2>2 DEF I2cInv
<1>7. CASE i2c' = i2c BY <1>1, <1>6, <1>7
<1>8. CASE /\ r.op = "open"
           /\ i2c' = I2cSetAddress([i2c EXCEPT !.state[r.pin] = "open"], i2c.address[r.pin])
  <2>1. i2c \in I2cRecord /\ i2c.state \in [Pins -> {"none", "opening", "open"}]
    BY <1>1 DEF BusType, I2cRecord
  <2>2. PICK st : st = [i2c.state EXCEPT ![r.pin] = "open"] OBVIOUS
  <2>3. /\ st \in [Pins -> {"none", "opening", "open"}]
        /\ \A p \in Pins : st[p] = "none" <=> i2c.state[p] = "none"
    BY <1>3, <2>1, <2>2 DEF Alone
  <2>4. PICK k : k = [i2c EXCEPT !.state = st] OBVIOUS
  <2>5. /\ k \in I2cRecord /\ k.state = st /\ k.bus = i2c.bus /\ k.files = i2c.files
        /\ k.fd = i2c.fd /\ k.others = i2c.others /\ k.stale = i2c.stale
        /\ k.again = i2c.again /\ k.address = i2c.address
    BY <2>1, <2>3, <2>4 DEF I2cRecord
  <2>6. k = [i2c EXCEPT !.state[r.pin] = "open"] BY <2>2, <2>4
  <2>7. BusType(k) BY <1>1, <2>3, <2>5 DEF BusType, BusesUsed, FilesApart
  <2>8. PICK a \in Nat : a = i2c.address[r.pin] BY <1>1, <1>3 DEF BusType, Alone
  <2>12. i2c' = I2cSetAddress(k, a) BY <1>8, <2>6, <2>8
  <2>9. BusType(i2c') /\ i2c'.state = st /\ i2c'.bus = i2c.bus /\ i2c'.again = i2c.again
    BY <2>5, <2>7, <2>12, SetAddressIs DEF Frame
  <2>10. BusesUsed(i2c) \subseteq BusesUsed(i2c') BY <2>9 DEF BusesUsed
  <2>11. ASSUME NEW j \in 1..Len(Underway), j # Len(work) + 1
         PROVE  Alone(i2c', raced, Underway[j])
    <3>1. PICK q : q = Underway[j] OBVIOUS
    <3>2. q.pin \in Pins /\ Alone(i2c, raced, q) /\ raced[q.pin] \in BOOLEAN BY <1>1, <3>1
    <3>3. Disturbs(q, r) BY <1>8 DEF Disturbs
    <3>4. raced[q.pin] BY <1>1, <1>2, <2>11, <3>1, <3>3 DEF I2cRequests
    <3>5. i2c'.state[q.pin] # "none" BY <2>3, <2>9, <3>2 DEF Alone
    <3>6. Alone(i2c', raced, q) BY <2>9, <2>10, <3>2, <3>4, <3>5, AloneKept
    <3> QED BY <3>1, <3>6
  <2> QED BY <1>6, <2>9, <2>11
<1> QED BY <1>7, <1>8

\* What calls back.
LEMMA AfterI2CKeeps ==
  ASSUME I2cInv, AfterI2CWork
  PROVE  I2cInv'
<1>1. PICK r : r = Head(done) OBVIOUS
<1>2. PICK next : next = I2cRequest("stream", r.pin, r.len) OBVIOUS
<1>3. aborted \in BOOLEAN /\ done # <<>> BY DEF I2cInv, I2cType, AfterI2CWork
<1>4. aborted' = (aborted \/ (r.op = "open" /\ r.result # "ok")) BY <1>1 DEF AfterI2CWork
<1>5. CASE r.op = "stream" /\ r.result = "ok" /\ asked < MaxRequests
  <2>1. work' = Append(work, next) /\ done' = Tail(done) /\ raced' = NowRaced(next)
    BY <1>1, <1>2, <1>5 DEF AfterI2CWork
  <2>2. i2c' = I2cSetAddress(i2c, i2c.address[r.pin]) BY <1>1, <1>5 DEF AfterI2CWork
  <2>3. aborted' = aborted BY <1>3, <1>4, <1>5
  <2> QED BY <1>1, <1>2, <1>3, <1>5, <2>1, <2>2, <2>3, StreamAgainKeeps
<1>6. CASE ~(r.op = "stream" /\ r.result = "ok" /\ asked < MaxRequests)
  <2>1. Dispatch /\ UNCHANGED raced BY <1>1, <1>6 DEF AfterI2CWork
  <2>2. \/ i2c' = i2c
        \/ /\ r.op = "open"
           /\ i2c' = I2cSetAddress([i2c EXCEPT !.state[r.pin] = "open"], i2c.address[r.pin])
    BY <1>1, <1>6 DEF AfterI2CWork
  <2>3. aborted' \in BOOLEAN BY <1>3, <1>4
  <2> QED BY <1>1, <2>1, <2>2, <2>3, I2cDispatchKeeps
<1> QED BY <1>5, <1>6

\* Every step of i2c.
LEMMA I2cNextKeeps ==
  ASSUME I2cInv, I2cNext
  PROVE  I2cInv'
<1>1. CASE \E i \in 1..Len(work) : I2cWorker(i)
  <2>1. PICK i \in 1..Len(work) : I2cWorker(i) BY <1>1
  <2>2. UNCHANGED <<raced, aborted>> BY <2>1 DEF I2cWorker
  <2>3. CASE OpenWorker(i) BY <2>2, <2>3, OpenWorkerKeeps
  <2>4. CASE ScanWorker(i) BY <2>2, <2>4, ScanWorkerKeeps
  <2>5. CASE \/ WriteWorker(i) \/ WriteByteWorker(i) \/ WriteBlockWorker(i)
             \/ ReadWorker(i) \/ ReadByteWorker(i) \/ ReadBlockWorker(i)
    BY <2>2, <2>5, TransferWorkersKeep
  <2> QED BY <2>1, <2>3, <2>4, <2>5 DEF I2cWorker
<1>2. CASE AfterI2CWork BY <1>2, AfterI2CKeeps
<1>3. CASE I2cClose BY <1>3, I2cCloseKeeps
<1>5. CASE Elsewhere BY <1>5, ElsewhereKeeps
<1>6. CASE \E o \in Pins, address \in Addresses : i2cSetAddress(o, address)
  BY <1>6, SetAddressKeeps
<1>4. CASE \E o \in Pins :
             \/ \E bus \in Buses, address \in Addresses : i2cOpen(o, bus, address)
             \/ \E op \in {"writeByte", "readByte"} : i2cTransfer(o, op, 1)
             \/ \E op \in Transfers \ {"writeByte", "readByte"}, len \in Lengths :
                  i2cTransfer(o, op, len)
             \/ i2cScan(o)
  BY <1>4, I2cCallsKeep
<1> QED BY <1>1, <1>2, <1>3, <1>4, <1>5, <1>6 DEF I2cNext

\* When the objects are on one bus, it is the bus of each.
LEMMA OneBusIs ==
  ASSUME BusType(i2c), OneBus, NEW a \in BusesUsed(i2c), NEW b \in BusesUsed(i2c)
  PROVE  a = b
<1> DEFINE f == i2c.bus
           T == {f[o] : o \in Pins}
<1>1. f \in [Pins -> T] /\ IsFiniteSet(Pins)
  BY SystemIoAssumption DEF BusType, I2cRecord
<1>2. f \in Surjection(Pins, T) BY <1>1 DEF Surjection
<1>3. IsFiniteSet(T) BY <1>1, <1>2, FS_Surjection
<1>4. PICK B : B = BusesUsed(i2c) OBVIOUS
<1>5. B = T \ {None} BY <1>4 DEF BusesUsed
<1>6. IsFiniteSet(B) /\ Cardinality(B) \in Nat /\ Cardinality(B) <= 1
  <2>1. IsFiniteSet(B) BY <1>3, <1>5, FS_Subset
  <2> QED BY <1>5, <2>1, FS_CardinalityType DEF OneBus
<1>7. Cardinality(B) # 0 BY <1>4, <1>6, FS_EmptySet
<1>8. \E x : B = {x}
  <2>1. Cardinality(B) = 1 BY <1>6, <1>7
  <2> QED BY <1>6, <2>1, FS_Singleton
<1> QED BY <1>4, <1>8

\* What the invariant says of the files of others.
LEMMA FilesAreKept ==
  ASSUME I2cInv
  PROVE  OthersKeepFiles
BY DEF OthersKeepFiles, BusType, FilesApart, I2cInv, I2cType

\* What the invariant says of the requests that are finished.
LEMMA I2cInvSays ==
  ASSUME I2cInv
  PROVE  I2cTruth
<1>1. BusType(i2c) BY DEF I2cInv, I2cType
<1>2. SUFFICES ASSUME NEW i \in 1..Len(done), NEW r, r = done[i], r.result = "ok", ~raced[r.pin]
               PROVE  /\ r.op \in Transfers /\ ~i2c.again =>
                           /\ OneBus => r.bus = i2c.bus[r.pin]
                           /\ Addressable(i2c.address[r.pin]) => r.slave = i2c.address[r.pin]
                      /\ r.op \in Transfers /\ r.len < LenModulus
                         /\ (r.op = "writeBlock" => r.len <= BlockMax) => r.moved = r.len
                      /\ r.op = "scan" => r.rest \subseteq Present
  BY DEF I2cTruth
<1>3. r \in TransferRecord /\ r.pin \in Pins /\ Alone(i2c, raced, r) /\ r.pc = "done"
  BY <1>2, I2cUnderway DEF Lists
<1>4. r.op = "scan" => r.rest \subseteq Present BY <1>2, <1>3 DEF Alone
<1>5. r.op \in Transfers => Success(i2c, raced, r) BY <1>2, <1>3 DEF Alone
<1>6. ASSUME r.op \in Transfers, ~i2c.again
      PROVE  /\ OneBus => r.bus = i2c.bus[r.pin]
             /\ Addressable(i2c.address[r.pin]) => r.slave = i2c.address[r.pin]
  <2>1. /\ r.bus \in BusesUsed(i2c)
        /\ Addressable(i2c.address[r.pin]) => r.slave = i2c.address[r.pin]
    BY <1>2, <1>5, <1>6 DEF Success
  <2>2. i2c.bus[r.pin] # None BY <1>1, <1>3 DEF Alone, BusType
  <2>3. i2c.bus[r.pin] \in BusesUsed(i2c) BY <1>3, <2>2 DEF BusesUsed
  <2> QED BY <1>1, <2>1, <2>3, OneBusIs
<1>7. ASSUME r.op \in Transfers, r.len < LenModulus, r.op = "writeBlock" => r.len <= BlockMax
      PROVE  r.moved = r.len
  <2>1. r.len \in Nat /\ LenModulus \in Nat \ {0} /\ BlockMax \in Nat
    BY <1>3, I2cAssumption DEF TransferRecord
  <2>2. r.buf_len = r.len
    <3>1. \A a \in Nat, n \in Nat \ {0} : a < n => a % n = a OBVIOUS
    <3>2. r.buf_len = r.len % LenModulus BY <1>3 DEF Alone, buf_len
    <3> QED BY <1>7, <2>1, <3>1, <3>2
  <2>3. CASE r.op = "writeBlock" BY <1>5, <1>7, <2>1, <2>2, <2>3 DEF Success, Clamped
  <2>4. CASE r.op \in {"writeByte", "readByte"} BY <1>3, <1>5, <1>7, <2>4 DEF Success, Alone
  <2>5. CASE r.op \in Transfers \ {"writeBlock", "writeByte", "readByte"}
    BY <1>5, <2>2, <2>5 DEF Success
  <2> QED BY <1>7, <2>3, <2>4, <2>5
<1> QED BY <1>4, <1>6, <1>7

-----------------------------------------------------------------------------
(* The modules together.                                                   *)

\* Nothing is underway at first.
LEMMA DevicesInit ==
  ASSUME Init
  PROVE  DevicesInv
<1>1. /\ work = <<>> /\ done = <<>> /\ Underway = <<>> /\ Len(Underway) = 0
      /\ Len(work) = 0 /\ Len(done) = 0
  <2>1. work = <<>> /\ done = <<>> BY DEF Init, SysInit
  <2>2. <<>> \o <<>> = <<>> /\ Len(<<>>) = 0 OBVIOUS
  <2> QED BY <2>1, <2>2 DEF Underway
<1>2. \A S : Lists(S) BY <1>1 DEF Lists
<1>3. module \in {"gpio", "i2c", "pwm"} BY DevicesAssumption DEF Init
<1>4. \A p \in Pins : /\ node[p] = "absent" /\ attr[p] = Fresh /\ want[p] = Unknown /\ raced[p] = FALSE
                      /\ pwm[p].made = FALSE /\ ~aborted
  BY DEF Init, SysInit, PwmInit
<1>5. SysType
  <2>1. Fresh \in AttrRecord BY DEF Fresh, AttrRecord
  <2>2. Unknown \in WantRecord BY DEF Unknown, WantRecord, None
  <2>3. [made |-> FALSE, period |-> Undefined, dutyCycle |-> Undefined] \in OptionsRecord
    BY DEF OptionsRecord, Undefined
  <2>4. pwm \in [Pins -> OptionsRecord] BY <2>3 DEF Init, PwmInit
  <2>5. attr \in [Pins -> AttrRecord] /\ want \in [Pins -> WantRecord]
    BY <2>1, <2>2 DEF Init, SysInit
  <2>6. node \in [Pins -> Nodes] /\ raced \in [Pins -> BOOLEAN] /\ aborted \in BOOLEAN
    BY DEF Init, SysInit, Nodes
  <2>7. gpio \in [initializing : BOOLEAN, initialized : BOOLEAN, native : BOOLEAN,
                  overlapped : BOOLEAN, badMode : BOOLEAN]
    BY DEF Init, GpioInit
  <2> QED BY <2>4, <2>5, <2>6, <2>7 DEF SysType
<1>6. Unknown.exported = None /\ Unknown.value = None /\ Unknown.period = None BY DEF Unknown
<1>7. ASSUME NEW p \in Pins PROVE RestOf(p)
  <2>1. GpioAtRest("absent", Fresh, Unknown) BY <1>6 DEF GpioAtRest, None
  <2>2. PwmAtRest("absent", Fresh, Unknown, pwm[p])
    BY <1>6 DEF PwmAtRest, PwmDevice, PwmTied, None
  <2> QED BY <1>4, <2>1, <2>2 DEF RestOf, AtRest
<1>8. PinInv BY <1>1, <1>7 DEF PinInv
<1>9. GpioInv
  <2>1. ~gpio.native /\ ~gpio.initialized /\ ~gpio.initializing BY DEF Init, GpioInit
  <2>2. GpioFlags BY <1>1, <2>1, <1>5 DEF GpioFlags, SysType
  <2>3. GpioAsserts BY DEF GpioAsserts, Init, SysInit
  <2> QED BY <1>1, <1>2, <1>5, <1>8, <2>2, <2>3 DEF GpioInv, Requests
<1>10. PwmInv
  <2>1. \A p \in Pins : attr[p].duty <= attr[p].period BY <1>4 DEF Fresh
  <2> QED BY <1>1, <1>2, <1>5, <1>8, <2>1 DEF PwmInv, Requests
<1>11. I2cInv
  <2>5. PICK f : f = [n \in Numbers |-> IF n = 0 THEN OtherFile ELSE NoFile] OBVIOUS
  <2>6. f \in [Numbers -> FileRecord] /\ \A n \in Numbers : f[n].kind # "bus"
    <3>1. OtherFile \in FileRecord /\ NoFile \in FileRecord /\ OtherFile.kind # "bus" /\ NoFile.kind # "bus"
      BY DEF OtherFile, NoFile, FileRecord, None
    <3> QED BY <2>5, <3>1
  <2>7. 0 \in Numbers BY I2cAssumption DEF Numbers
  <2>8. i2c = [fd |-> 0, addr |-> 0, files |-> f, others |-> {}, stale |-> TRUE, again |-> FALSE,
               state |-> [o \in Pins |-> "none"], bus |-> [o \in Pins |-> None],
               address |-> [o \in Pins |-> None]]
    BY <2>5 DEF Init, I2cInit
  <2>1. /\ i2c \in I2cRecord /\ i2c.files = f /\ i2c.others = {} /\ i2c.stale = TRUE
        /\ \A o \in Pins : i2c.state[o] = "none" /\ i2c.bus[o] = None
    BY <2>6, <2>7, <2>8 DEF I2cRecord, None
  <2>2. BusType(i2c) BY <2>1, <2>6 DEF BusType, FilesApart
  <2>3. I2cType BY <1>2, <1>5, <2>2 DEF I2cType, SysType
  <2>4. I2cRequests BY <1>1 DEF I2cRequests
  <2> QED BY <2>3, <2>4 DEF I2cInv
<1> QED BY <1>3, <1>9, <1>10, <1>11 DEF DevicesInv

\* A step is one of the module that is used.
LEMMA DevicesStep ==
  ASSUME DevicesInv, [Next]_devvars
  PROVE  DevicesInv'
<1>1. CASE UNCHANGED devvars
  <2>1. /\ UNCHANGED <<work, done, node, attr, want, raced, aborted, gpio, i2c, pwm, module>>
    BY <1>1 DEF devvars, sysvars
  <2>2. Underway' = Underway BY <2>1 DEF Underway
  <2>3. \A p \in Pins : (Settled(p)' <=> Settled(p)) /\ (RestOf(p)' <=> RestOf(p))
    BY <2>1, <2>2 DEF Settled, RestOf
  <2>4. \A p, r : KnowsOf(p, r)' <=> KnowsOf(p, r) BY <2>1 DEF KnowsOf
  <2>5. PinInv => PinInv' BY <2>1, <2>2, <2>3, <2>4 DEF PinInv
  <2>6. SysType => SysType' BY <2>1 DEF SysType
  <2>7. \A S : Lists(S) => Lists(S)' BY <2>1 DEF Lists
  <2>8. GpioFlags /\ GpioAsserts => GpioFlags' /\ GpioAsserts'
    BY <2>1, <2>2 DEF GpioFlags, GpioAsserts
  <2>9. GpioInv => GpioInv' BY <2>2, <2>5, <2>6, <2>7, <2>8 DEF GpioInv, Requests
  <2>10. PwmInv => PwmInv' BY <2>1, <2>2, <2>5, <2>6, <2>7 DEF PwmInv, Requests
  <2>11. I2cInv => I2cInv' BY <2>1, <2>2, <2>7 DEF I2cInv, I2cType, I2cRequests
  <2> QED BY <2>1, <2>9, <2>10, <2>11 DEF DevicesInv
<1>2. CASE ~aborted /\ module = "gpio" /\ GpioNext /\ UNCHANGED <<i2c, pwm, module>>
  <2>1. GpioInv' BY <1>2, GpioNextKeeps DEF DevicesInv
  <2> QED BY <1>2, <2>1 DEF DevicesInv
<1>3. CASE ~aborted /\ module = "pwm" /\ PwmNext /\ UNCHANGED <<gpio, i2c, module>>
  <2>1. PwmInv' BY <1>3, PwmNextKeeps DEF DevicesInv
  <2> QED BY <1>3, <2>1 DEF DevicesInv
<1>4. CASE module = "i2c" /\ I2cNext /\ UNCHANGED <<gpio, pwm, module>>
  <2>1. I2cInv' BY <1>4, I2cNextKeeps DEF DevicesInv
  <2> QED BY <1>4, <2>1 DEF DevicesInv
<1> QED BY <1>1, <1>2, <1>3, <1>4 DEF Next

\* The inductive invariant: for every number of pins, threads and requests, with
\* failing system calls or without, what is known of a pin follows from the one
\* request that is underway for it.
THEOREM DevicesInvariant == Spec => []DevicesInv
<1>1. Init => DevicesInv BY DevicesInit
<1>2. DevicesInv /\ [Next]_devvars => DevicesInv' BY DevicesStep
<1> QED BY <1>1, <1>2, PTL DEF Spec

\* gpio: no assertion of iotjs_module_gpio.c fails but those that an overlapped
\* release() or a refused mode accounts for, and the pins are as the calls that
\* reported success have left them (src/src/platform/iotjs_module_gpio-linux-general.inl.h).
THEOREM GpioIsSound == Spec => []GpioSound
<1>1. DevicesInv => GpioSound BY GpioInvSays DEF DevicesInv, GpioSound
<1> QED BY <1>1, DevicesInvariant, PTL

\* pwm: the device has the period and the duty cycle that the calls that reported
\* success have asked for, if their product fits an int32_t, and never a duty cycle that is longer than the period.
THEOREM PwmIsSound == Spec => []PwmSound
<1>1. DevicesInv => PwmSound BY PwmInvSays DEF DevicesInv, PwmSound
<1> QED BY <1>1, DevicesInvariant, PTL

\* i2c: a transfer that reports success, and that nothing disturbed, was made with the
\* device of its object, if the address is one that the kernel takes, and moved all its
\* bytes, although all objects share one descriptor that any of them may close; and no
\* close() but one that is one too many takes a file of others.
THEOREM I2cIsSound == Spec => []I2cSound
<1>1. DevicesInv => I2cSound BY I2cInvSays, FilesAreKept DEF DevicesInv, I2cSound
<1> QED BY <1>1, DevicesInvariant, PTL
=============================================================================
