# A TLA+ model of the IoT.js runtime

The repository is IoT.js: a JavaScript runtime for small devices, made of
JavaScript modules (`src/src/js`), their C counterparts (`src/src/module`), a
core that binds JerryScript to libuv (`src/src/*.c`) and code for platforms.
All JavaScript runs in one thread and to completion. What makes the runtime hard
is what happens between two pieces of JavaScript: callbacks of the loop, next
ticks, exceptions, handlers that call each other through events, and objects
that the garbage collector and libuv both know.

Part 1 is the inventory, part 2 the modules and how they correspond to the code,
part 3 the runs, part 4 the proofs, part 5 what is left out, part 6 the plan.
`PROJECT.json` has the same in data: every modelled definition with its lines,
every hazard with its line and the properties that cover it.

## 1. Inventory

| component | state | operations | what makes it correct |
|---|---|---|---|
| process and loop (`iotjs.c`, `iotjs_binding_helper.c`, `js/iotjs.js`) | next tick queue, `more`, `_exiting`, `exitCode`, active handles and requests | run main, uv_run, callbacks, `nextTick`, `_onNextTick`, uncaught exceptions, `exit` | ticks run once, before the loop blocks; work that was started is served; 'exit' once; crashes reported |
| timers (`timers.js`, `iotjs_module_timer.c`) | `Timeout` (callback, handler), `Timer`, uv handle | set, clear, expire, repeat, close, collect | cleared timers do not fire, one-shot ones once, handles outlive their use |
| handle and object wrappers (`iotjs_handlewrap.c`, `iotjs_objectwrap.c`) | the uv handle, a reference to the object | create, close, on_close, destroy | freed only when closed |
| `stream.Writable` | buffer, length, writing, ending, ended | write, end, `_readyToWrite`, `_onwrite` | order, accounting, backpressure, 'finish' |
| `stream.Readable` | buffer, length, flowing, ended | push, read, pause, resume | order, 'end' last, no data while paused |
| `net.Socket` (`net.js`, `iotjs_module_tcp.c`) | SocketState, both streams, timer, tcp handle and requests | connect, write, end, destroy, onread, onfinish, onend, timeout | no data cut off, no use of a closed handle, always closed in the end |
| `net.Server` | handle, `_socketCount` | listen, close, onconnection, a socket's close | 'close' exactly when drained |
| dns | pending lookup | lookup | one answer per request |
| http parser wrapper (`iotjs_module_httpparser.c`, `http_common.js`) | header slots, `flushed`, url, `incoming` | execute, the callbacks of http-parser, flush | all headers of a message, and only those, reach it |
| http client, server and messages (`http_client.js`, `http_server.js`, `http_outgoing.js`, `http_incoming.js`) | request, response, parser, socket | setup, data, end, close, error, timeout, write, finish | a request is told how it ended, a response is flushed, the connection closes |
| dgram (`dgram.js`, `iotjs_module_udp.c`) | bind state, send queue, handle | bind, send, close, receive | sends wait for the bind and keep their order |
| fs (`fs.js`, `iotjs_module_fs.c`) | descriptor, chunks, offset in the closures of a call; requests in worker threads | readFile, writeFile, their synchronous forms, the plain calls | a transfer is whole, descriptors are not mixed up, every call is answered |
| gpio (`gpio.js`, `iotjs_module_gpio.c`, Linux workers) | a flag in JavaScript and one in C, the pins | initialize, release, open, read, write | the flags agree when they are asserted, a pin is as the last calls left it |
| i2c (`i2c.js`, `iotjs_module_i2c.c`, Linux workers) | one descriptor and one address for all objects | open, close, scan, transfers | a transfer goes to the object's device and is whole |
| pwm (`pwm.js`, `iotjs_module_pwm.c`, Linux workers) | the options of an object, period and duty cycle of the pin | export, set, enable, unexport | options and device agree |
| platform I/O (`iotjs_systemio-linux.c`) | files under /sys/class | export, unexport, read, write | what is reported has happened |
| buffer and strings (`buffer.js`, `iotjs_module_buffer.c`, `iotjs_string.c`) | bytes; bytes and capacity | copy, write, slice, toString, compare, concat; append, reserve, make_empty | ranges are clamped, results exact, memory suffices |
| events, module loader | listeners; module cache | emit, once, remove; require | emission over a copy; one instance per module (planned) |
| pin, binding, environment, log, console, util, assert | | conversions, formatting, tables | (not modelled) |

Interactions: C calls JavaScript only through `iotjs_make_callback`, which runs
the next ticks afterwards; JavaScript modules call each other directly and
through events, which are synchronous; `net.Socket` is a `Duplex` and overrides
`_write`; the sockets of a server count down its `_socketCount`; http sits on
`net.Socket` and on a parser that calls back synchronously from `execute`. fs and
the device modules queue requests for worker threads, whose steps interleave with
JavaScript and with each other; the callback runs in JavaScript's thread.

Hard behaviours: nested `_onNextTick`; ticks queued by ticks; exceptions in any
callback; `end`, `destroy`, end of input, shutdown and timeouts in any order;
lookups and requests that are answered after the object they belong to was
closed; values computed before a callback and used after it; the collector;
descriptors, flags and addresses that a worker reads after JavaScript has changed
them; system calls that fail, are short or come too late.

## 2. Modules

`EventLoop` models the interpreter as a stack of frames: the main script, a
callback, a tick with the rest of its batch, the listeners of
'uncaughtException' and of 'exit'. While the stack is not empty only its top
runs: it may call `nextTick`, start or stop I/O, call something that calls back
synchronously (`SyncCallback`), exit, return or throw. When it is empty, the
code of `iotjs_start` and `iotjs_entry` goes on (`pc`). Return and Throw say what
comes next: the rest of the batch, `_onNextTick`, the handler of exceptions or
the end of the process. After `iotjs_start` has released its modules, callbacks
of requests that were started by 'exit' listeners may find them or not: that is a
nondeterministic step (`UseAfterRelease`).

`TickQueue` is the part of it that other components need: a frame runs, then the
clone of the queue, then the loop is idle. `Socket`, `Server` and `Dgram`
extend it. A tick that a tick queues waits for the next event of the loop, of
whatever component (`TicksWait`): uv_run blocks, and the idle timer that could have
woken it may be the one that a destroy() in a tick has cleared.

`Writable` and `Readable` model the streams function by function. Bytes are
numbered and a chunk is an interval of numbers, so order, loss and repetition are
visible and contents are not needed. In `Writable` everything a function does
before it runs user code is one step, as user code always runs last; in
`Readable` it does not, so running 'data' listeners are counted and emitData is
split at the emission. `BytePipe` says what a writable stream promises without
its buffer, flags and ticks.

`Timers` has one record of state per timer: the `Timeout`, the `Timer` object, the
uv handle, the references that keep the object alive. libuv's heap is a
sequence in the order of expiry (a timer is inserted behind those that expire no
later); an iteration of the loop has the phases timers,
poll and closing. Times are relative to the loop's clock.

`Socket` keeps the socket in one record. The handlers of `net.js` call each other
in the middle (onread, push, 'end', onSocketEnd, destroySoon, end, ...), so each is
an operator from the record before the call to the record after it, under the
source's name; an action applies one and queues the ticks it has asked for. The
streams are reduced to what `net.js` reads of them. `native` is an operation on the
tcp handle: on a closed one it is undefined behaviour, and `misused` records it. A
write that libuv refuses has no callback and leaves the stream writing for ever
(`stuck`, `WriteRefused`); `tail` counts the chunks that were accepted after end().

`Server` is the server's handle, count and events; a socket of it is only seen
when it is accepted and when it closes. The count is kept as the code keeps it: a
socket is taken off when its `_server` is still set (`served`, `leaveServer`), however
often it closes.

`Dgram` is written like `Socket`: the UDP socket is one record and each function of
`dgram.js` an operator on it. A message is a model value, and what is kept of it
is where it is: in `_queue`, being resolved, underway in libuv, or answered.
'listening' and 'error' are not the last thing that the code does when it emits
them, so what their listeners call (send, close, an exception) is chosen there
(`ListenerCalls`). The flush of `_queue` is a loop over its calls, a recursive
function of their number (`runCalls`). `Faults` says what goes wrong; a lookup may fail, or libuv refuses
to begin it, and then nobody is told (`LookupRefused`).

`HttpParser` is the wrapper of http-parser with the callbacks of `http_common.js`.
http-parser itself is external: it reports fragments of a url, of fields and of
values in the order of the grammar, trailing headers included. Headers and
messages are numbered, and a text is the set of the numbers of the headers (or
messages) that its fragments are of: text that is missing, repeated from another
header or left from an earlier message shows. Two defects of the code are inside
the model, and the properties name them as conditions: `_url` keeps its text once
headers were flushed (`late`; `http_common.js:65` clears `parser.url`), and the
slots of trailing headers are not emptied for the next message (`trailed`). TLC
finds `UrlExact` or `HeadersExact` violated without these conditions.

`Http` is one end of an HTTP connection, a client's request or a connection of a
server, on the socket of `Socket`, which it extends: its handlers are operators on
the pair of the socket and the state of http, and an action applies them where the
socket emits the event (`OnData`, `OnEnd`, `OnError`, `OnConnect`, `OnTimeout`,
`OnClose`). http-parser is reduced to the callbacks that reach the http modules
(headers complete, body, message complete, error). They come while `execute` runs
(`more`), and ticks of the socket run after each of them, so that finish or the
start of reading may come between two callbacks for one chunk. The user writes and
ends messages and starts to read the response at any time. Where the code
promises nothing the properties name the condition: a parser that has met an
error (`phase = "dead"`; further data call execute on null, http_client.js:147), a
user who writes to a connection that is ending (`late`), one who handles 'timeout'
of a server and has to close the connection himself (`handled`), and a request
whose connect failed (`sock.connected`). TLC finds the properties violated
without the first, the second and the last.

`BufferOps` has the functions of Buffer and of `iotjs_string_t` as operators on
sequences of bytes, with the clamping, the forward copy, the char that has a sign
on some builds (`CharSigned`), the NUL that ends a C string and the assertion that
toString of an empty buffer fails (`toStringAborts`). `Buffers` is an
application that calls them with every argument in and around the range, and a
string that is appended to several times; its properties are reference
definitions that do not follow the loops. They name two exceptions: a string with a
character of several bytes is cut (`Long`), and toString of an empty buffer ends a
process with assertions.

`Fs` models the chains of requests of `fs.js`: each callback (`opened`,
`afterRead`, `afterWrite`) is an operator from the variables of the closure and the
answer to the variables afterwards and the requests it makes, errors included.
`Work` is a worker thread, `AfterAsync` the callback, `FS_ASYNC` queues a request,
which libuv may refuse at once. The kernel is external: a table of descriptors,
whose numbers are used again, and the contents of the files; `Faults` says which
system calls may fail or be short. The synchronous calls are a step per system
call, as workers go on meanwhile (`busy`). `readFile` and `writeFile` use the
operators of `BufferOps` for the segments. The properties have these conditions,
each for a defect of the code that the model has: `NoFailure` (after a failed read
or write the chain goes on with a closed descriptor), `disturbed` (two calls on one
file), `threw` (writeFile of empty data).

`SystemIo` is the thread pool (requests, `work`, `done`) and the helpers for device
files, over a kernel in which an exported pin appears in two steps, later.
`Gpio`, `I2c` and `Pwm` extend it: a call is an action that checks what the
JavaScript and the C function check and queues a request; a worker is one action
per system call, under the source's name; `AfterGPIOWork`, `AfterI2CWork` and
`AfterPwmWork` are the callbacks with the JavaScript they call. `want` is history:
what the calls that reported success have asked for. `Devices` composes the three;
a process uses one of them, as they share nothing but threads. Conditions of the
properties: `raced` (two requests for one pin or bus underway at once),
`Spoiled` (a call for the pin has failed), `overlapped` (a gpio call during
release()), `badMode` (a mode that SetPinMode refuses), `OneBus` (i2c objects on one
bus), `Addressable` (an address that the kernel takes), `again` (close() of i2c was
called twice), `Fits` (a product of duty cycle and period that fits an int32_t).

In `I2c` the kernel's table of descriptors is part of the state. All objects share the
number in `fd`; open takes the lowest free one, close() frees it and keeps it in `fd`,
and other parts of the process open and close files of their own meanwhile
(`Elsewhere`), which may get that number. What is done with it then depends on what
it stands for: a bus, whose slave is the last address that the kernel has taken
(`Slave`: the result of the ioctl is not looked at, and an address is converted to a
uint8_t before), another file, which can be read and written but does not know the
ioctl (`Mistaken`), or nothing.

Users are modelled, too, and some calls are outside what the code supports. The
constants `WriteAfterEnd`, `Habits` and `Relisten` say which ones are made:

* `WriteAfterEnd = TRUE`: write() between end() and 'finish', which makes TLC find
  `FinishMeansFlushed` violated (see the divergences in part 3);
* `Habits`: `"destroyInLookup"` (destroy() or end() while the name is being
  resolved) and `"reconnect"` (connect() after a failed connect) make TLC find
  `DestroyedIsQuiet` violated, as the closed handle is connected (net.js:127);
  `"endEarly"` (end() before the connection is there) makes it find
  `HalfCloseSent` violated, as the failed shutdown is ignored (net.js:414);
  `"timeoutAfterDestroy"` (setTimeout() of a destroyed socket) makes it find
  `DestroyedIsQuiet` violated, as a timer starts that nobody clears (net.js:241);
  `"writeAfterEnd"` (write() between end() and 'finish', which is accepted) is on in the
  run: what was written before end() is not cut off by it (`NoDataCut`), what was
  written after may be; `"pause"` leaves data in the buffer and is on as well.
  `NoDataCut` holds with all of them (proved, part 4);
* `Relisten = TRUE`: listen() before the 'close' of an earlier close(), which makes
  TLC find `CloseMeansDrained` violated.

## 3. Runs

| run | shows | bounds |
|---|---|---|
| `event_loop` | `TicksConserved`, `ExitEmittedOnce`, `LoopProgresses`, `WorkServed` | one request, one handle, two ticks, two nested frames: enough for a tick that queues a tick while a nested `_onNextTick` runs, and for one that starts the only request |
| `writable` | order, backpressure, nothing stranded, 'finish', refinement of `BytePipe` | six chunks of 0..2 bytes and a mark of 3: empty chunks, and both sides of the mark |
| `timers` | `HandleSafe`, `OneShotOnce`, `TimersServed` | two timers, delays 0, 2, 3 (above the maximum 2) and one that is not a number |
| `readable` | `DataOrder`, `AssertionHolds`, `EndIsLast`, `EndComes` | four chunks of 0..2 bytes, three nested listeners |
| `socket` | `NoDataCut`, `DestroyedIsQuiet`, `HalfCloseSent`, `SocketCloses` | two chunks out, two in: one underway and one buffered, or one before end() and one after |
| `server` | `CloseMeansDrained`, `CloseCalledBack` | three clients, three calls of listen and close |
| `dgram` | `SendsConserved`, `ClosedOnce`, `CloseCompletes` | two messages, one with a callback, two calls of bind and close, every fault: a queue with a send and a close behind it, and a second bind after a failed one |
| `http_parser` | `CountersAgree`, `HeadersExact`, `UrlExact` | three slots, six headers, three messages: two flushes in one message, and a flush before another message |
| `fs` | `TransferWhole`, `DescriptorsOwned`, `NeverForgotten` | two calls on two files, lengths 0 and 3 around a segment of 2, every fault: a full segment and a rest, and a descriptor that is closed, taken by the other call and closed again |
| `buffers` | `BufferOpsExact`, `StringSound` | buffers of up to 3 bytes of {0, 65, 200}, indices -1..4: below, in and above the range, NUL, a byte above 127 and a character of two bytes; three calls on a string: empty, doubled once and more often |
| `devices` | `GpioSound`, `I2cSound`, `PwmSound` | two pins or objects, two threads, four requests (three for i2c and pwm, and one pin for pwm), one wait of DeviceExport: every pair of calls, one that reads what they left, and a failed system call anywhere. i2c: two buses, three descriptors, blocks of 1 byte, lengths modulo 3, so that 5 is cut to 2, and two addresses that the kernel knows, modulo 3, so that 5 becomes 2, which it refuses; the bound on requests also bounds the files of others and setAddress(). pwm: an int32_t of at most 15000, which 100 times 200 exceeds and 50 times 200 does not |
| `http` | `ClientTold`, `ServerSound`, `HttpCloses` | two chunks out (and the empty one of end()), two messages in, four callbacks of the parser: a whole response with a body, a second one, a cut one, and a pipelined request |

Every property of a passing run has a mutant in `PROJECT.json`: a form of the
modelled code with a plausible bug under which TLC finds the property violated.

Deadlock is checked except in `writable`, `readable` and `http_parser`, which may
stop (a finished stream has nothing left to do, and a connection may end), and in
`fs`, `buffers` and `devices`, whose application makes a bounded number of calls.

**Known divergences.** The model has what the code does where a comment or a
document says something else, or nothing sensible. They show when a condition of a
property or a constant is changed:

* Ticks that a tick queues wait for the next callback (docs/IoT.js-API-Process.md:58).
* With `WriteAfterEnd`, 'finish' comes before the last write (docs/IoT.js-API-Stream.md:85).
* A refused send of UDP throws a ReferenceError instead of calling its listener
  (docs/IoT.js-API-DGRAM.md:162, dgram.js:307).
* destroySoon, which the listener of 'end' calls, tests `_writableState.finished`,
  which does not exist, and waits for a 'finish' that may have been emitted: a socket
  whose input ends while data are buffered stays open when they are read after
  'finish' (net.js:210, against the comment at net.js:201; `SocketCloses` is violated
  without the exception `Overlooked`).
* A write that libuv refuses, and a lookup of dgram that it refuses, are never answered:
  the error that the native call returns is ignored (net.js:153, dgram.js:123).
* http: data after a parse error call execute on null (http_client.js:147); a request
  whose connect fails while data are unsent is told nothing, as destroy waits for
  'finish'; a server ends its half as soon as the client has ended its own, so that an
  answer given later is lost (http_server.js:236); `req.method` is never set, so the
  body of the response to HEAD is waited for (http_client.js:199); writeHead
  stores headers under the indices of their names (http_server.js:118); a body that
  lasts to the end of the input counts as complete when an error of the socket ends
  it (`parser.finish`, http_client.js:134).
* After a failed read or write readFile and writeFile close twice and call back
  twice (fs.js:229); readFileSync returns what it has; writeFile of empty data
  throws in a callback; readdir never calls back, because the handler looks for the
  callback behind the last argument (iotjs_module_fs.c:456).
* toString of an empty buffer fails an assertion (iotjs_string.c:36);
  `Buffer.byteLength` counts characters (buffer.js:51, against
  docs/IoT.js-API-Buffer.md:36), so a Buffer of a string with others than ASCII is cut
  (against docs/IoT.js-API-Buffer.md:25).
* gpio: open() without a mode fails the assertion of SetPinMode;
  `_initializing` is never reset, so that initialize() after release() throws
  (docs/IoT.js-API-GPIO.md:111).
* i2c: one descriptor and one address for all objects, whichever worker runs when; a
  written block above 32 bytes is cut and reports success; with an address that the
  kernel refuses, or one above 255, a transfer is made with another slave and reports
  success (i2c-linux:173); a second close() closes the number again, whatever it stands
  for by then (i2c-linux:225-229).
* pwm: duty_cycle * period is a product of two int32_t (pwm-linux:82): with 50 % of
  50 ms it overflows, and a wrong duty cycle may be written with success; setEnable writes an empty string and reports success; the constructor drops
  dutyCycle when no frequency is given.
* DeviceOpenReadClose does not close the descriptor after a failed read.

IOTJS_ASSERT does nothing in a build with NDEBUG; the model takes a failed assertion
as the end of the process, and for toString it has both builds.

Not all of these conditions can be seen to be needed in the small runs: TLC finds
I2cSound violated without `Addressable`, `OneBus`, `raced`, the limit of a uint8_t on
lengths, or `again` in `OthersKeepFiles`, and PwmSound without `Fits`; that a transfer
after a second close() may go wrong (`again` in `I2cTruth`), or a block be too long, takes
more requests or lengths than the run has.

**Fairness.** JavaScript runs to completion, so a frame that runs ends (`Return`,
`Throw`, `handleTimeoutReturns`, `DataReturns`), and the loop goes on when it can:
weak fairness for the runtime's own steps. In `EventLoop` a frame may make calls
that run callbacks above it again and again, but not for ever: strong fairness
for its end; and an event that stays ready is reported by one of the next polls:
strong fairness for `Deliver`, which other callbacks interrupt. libuv answers each request it has accepted (`AfterWrite`,
`AfterShutdown`, `AfterConnect`, `AfterClose`, `onwrite`, `onClose`); in `Socket`
these are enabled again and again between frames, hence strong fairness. In
`Dgram` the same is assumed of `OnSend` and of lookups, which end with an answer or
an error if libuv has accepted them. Nothing is assumed of arriving data and connections, or of the lookup
of `Socket`, except in `Server`, where each connection is closed by one of its ends, and nothing of the user, except
that a user who pauses a stream reads on (`Resume`, and `read` in `Readable`) and
that the concrete stream becomes ready (`readyToWrite`). In `Http` the rest of a chunk
is parsed, libuv answers and the idle timer fires (`Due`), and the user reads the
response (`ReadResponse`); nothing is assumed of the peer. No event of
the loop is taken for granted: the ticks run at the end of a frame, but one that a
tick has queued runs with the next event, and uv_run may wait for it for ever. The
properties that depend on such a tick (`SocketCloses`, `CloseCalledBack`,
`CloseCompletes`, `HttpCloses`) therefore end in `[]TicksWait`, and `WorkServed` in the poll
that does not end. `Fs`, `Buffers` and `Devices`
state safety only and assume no fairness; that a call to fs is answered in the end
follows from `NeverForgotten` as far as the kernel answers.

## 4. Proofs

TLAPS checks these for every value of the constants: any set of timers, messages,
clients, calls or pins, any number of ticks, chunks, headers, requests and nested
calls. Each inductive invariant was first checked by TLC on the instance of the run.
A module of proofs may serve two components that lie next to each other.

* `LoopProofs`, of `EventLoop`: `LoopInv` says that a tick is in one place only (it has run, is
  queued, or waits in the rest of a batch on some frame of the stack, `Placed`) and,
  until the process drops its queue, in one at least (`Whole`).
  `TicksConserved` needs the shape of the stack (`Shape`): only a tick frame has
  a batch, so that popping another frame loses nothing. That only late ticks wait
  when the loop polls needs the same of every state in which a batch runs
  (`LateFirst`), as the tick that ends a batch leaves the queue to the loop.
  `ExitEmittedOnce` needs where the process is when `exiting` is set, and that an
  uncaught exception has set the exit code for good (`ExitInv`). The facts on
  sequences (append, tail, concatenation, push and pop of a frame) are lemmas.
* `LoopProofs`, of `Timers`: `HandleSafe` speaks of the timers in libuv's heap, so `TimersInv`
  says what the heap is (`HeapInv`): each active timer once, in the order of expiry,
  and none overdue when the loop polls. `LifeInv` ties `Timeout`, `Timer`, handle and
  the wrapper's reference together: the reference lasts as long as the handle, which
  is why the collector cannot come too early. The lemmas on inserting and removing
  a timer need the least position with a later expiry, which exists because the
  natural numbers are well founded.
* `WritableProofs`: the inductive invariant `WInv` is the type invariant with
  `ByteOrder`, `LengthAccounting`, `Backpressure`, `NothingStranded` and what they
  need of each other: order needs that an idle, ready stream has no buffer
  (otherwise a chunk would be written past the buffered ones), and that length
  never becomes negative needs the accounting of the chunk underway.
  `FinishCorrect` needs more: a queued 'finish' means that the stream is ending and
  has nothing left, which holds only under the assumption `~WriteAfterEnd`.
  `Refinement` shows that initial states and steps map to those of `BytePipe`.
* `IncomingProofs`, of `Readable`: `RInv` adds to the assertion and to `EndIsLast` the accounting
  `length = pushed - delivered` and the shape of the buffer: its last chunk ends
  where the pushed bytes end, and an empty buffer has length 0. `DataOrder` also
  needs that an empty chunk lies within the pushed bytes (`OrderInv`), or the next
  push would not follow it; `read(n)` takes whole chunks and the head of one, and
  the lemmas say what a buffer holds after each.
* `NetProofs`, of `Socket`: the handlers of `net.js` call each other, and so do the lemmas: each
  operator leads from a good socket to a good one (`Good`). Good means that the flags,
  the streams, the handle and the requests agree (`Flow`): a destroyed socket has
  ended, an ended one has nothing left to flush, a socket without a handle has no
  request. The other half are ticks, which run later than they were asked for: 'finish'
  relies on a stream that is ending and flushed, the start of reading on an open
  handle (`Honest`), so every operator also keeps what queued ticks rely on
  (`Later`); the start of reading is moreover queued only within a frame, and
  runs before libuv can close the handle. `NoDataIsCut` holds of
  the users with all `Habits`: what destroy() cuts off was written after end().
  `NothingIsCut` says of those without `"writeAfterEnd"` that nothing is.
  `DestroyedStaysQuiet` has the hypothesis that Habits has neither `"destroyInLookup"` nor
  `"reconnect"` nor `"timeoutAfterDestroy"`, `HalfCloseIsSent` that it has not
  `"endEarly"`: part 2 says what TLC finds otherwise.
* `NetProofs`, of `Server`: a socket that is open refers to the server (`_server` is set)
  and is counted, and each is counted once, so a count of 0 means that none is open;
  the steps need the facts on adding and removing one element of a finite set.
  `CloseCorrect` rests on the invariant that as long
  as a 'close' is queued the server has no handle and no open socket; this
  needs the discipline `~Relisten`.
* `DgramProofs`: `UdpInv` says of each message that it is in one place at most, and in one
  unless it was refused or something was thrown (`Placed`), that the queue holds no
  message twice, and that an open handle, the 'close' that is asked for and the one
  that was emitted are one in all (`Balance`). A bind flushes the queue
  in a loop, between listeners of 'listening' that may send, close or throw. The lemma on
  the loop (`RunFlushes`) is an induction: after k calls the socket and the
  calls that are left hold every message once (`Flushing`). A close in the
  queue gives the handle up in the middle; what the sends behind it find is part of
  the invariant of the loop.
* `IncomingProofs`, of `HttpParser`: the inductive invariant `HInv` says where the headers of the
  message are while they are read (`HeadersInPlace`): those up to `Mid` are in
  `_headers`, in order; the slots below the counters hold the following ones, each
  with exactly its own text; the last one may lack its value. `HeadersExact` alone
  is not inductive, as it only speaks of a message whose headers are complete. A
  flush appends the slots to `_headers`, so the proof rests on a lemma on two lists
  of headers that follow each other (`ExactlyGlue`). `CountersCorrect` holds with
  trailing headers, `HeadersCorrect` of messages without such before them.
  `UrlExact` needs where the url is while the message is read (`UrlInPlace`): in
  `url`, or after a flush in `_url`.
* `WebProofs` extends `NetProofs` and `Http`. Http uses a socket as no user of net
  does, as its own handlers write to, end and destroy it, so the facts on the socket
  come in two strengths: `Sane` and `Follows` for every user, also one that writes to a
  connection that is ending, and `Good` and `Leads` of `NetProofs` until then. Every
  handler has a lemma on the pair of socket and http state. `WebInv` is `Base` (what
  holds of both ends) with `ClientInv` or `ServerSide`. `ClientTold` needs
  `Client(Both)`: the user was told exactly if there was a reason, nothing was thrown
  but after a parse error, a closed client has a closed handle, nothing was read before
  it connected; and that as long as the socket is read, or reading is about to start,
  its data meet a parser (or follow a parse error). `ServerSound` needs `ServerSide`:
  until the user writes too late (`~late`), the socket is sound and connected, every
  answer is accounted for (`Answers`), nothing was thrown, and there is a parser as
  long as the socket is read. `ServerIsSound` has the hypothesis that Habits has neither
  `"destroyInLookup"` nor `"reconnect"` nor `"writeAfterEnd"`; no action of `Http` reads
  Habits, and its run has `Habits = {}`.
* `FsProofs`, of `Buffers`: `BufferOpsExact` has no induction over steps, as a call is
  made once; the proof is about what the loops compute for every input. All of
  them come down to `copy_internal`: if the byte that step k copies is known
  beforehand (`Reads`), so is what the loop leaves (`CopyLeaves`). For two buffers it
  is the byte of the source; in one buffer, with the destination behind the source,
  the loop reads what it wrote, and the byte is that of `Source`, a remainder by the
  distance (`SameRemainder`). concat and utf8 are compared through `Joined` (where
  each part ends), compare through the order `Precedes`, which is shown to be strict
  and transitive, with char injective on bytes whether it has a sign or not. The
  lemmas hold for buffers and lists of any length; the theorem, for every value of
  `MaxLength` and `MaxShort`. `StringSound` is inductive with the types of the three
  fields (`StringInv`); it needs that the loop that doubles the capacity ends
  (`CapacityGrows`): the k-th capacity exceeds k.
* `FsProofs`, of `Fs`: `FsInv` says of every call how many requests it has: one, or it runs, or it
  has ended, until a read or a write of it fails (`OneByOne`); then two chains run
  for it, and only `NeverForgotten` remains. While no call has failed each
  request knows whether its call has a descriptor, and which (`Held`, `Holds`). That an
  open finds the lowest free descriptor needs that one is free: no call has two, and
  there is one more than there are calls (a pigeonhole argument, `LowestFree`,
  for which `FsAssumption` says that `Ops` is finite).
  `TransferWhole` has an invariant of its own, `FsWhole`, above `FsInv`: what is known
  of a call between two steps. A request that waits for a worker, or was answered, says
  how much has been moved (`Waiting`, `Answered`), and so does the step of a call that
  runs (`Runs`): before the open, nothing; with a descriptor, a reader has in `buffers`
  the bytes of its file up to the position of the descriptor, and the file of a writer
  holds the first `written` bytes of its data (`During`); at the close, everything
  (`After`). Nothing is claimed of a call whose file another one has changed
  (`disturbed`). That a step of one call leaves what is known of the others needs `Held`:
  only its own descriptor moves (`Untouched`). What reaches the user is computed by
  `slice` and `concat` (`SliceFirst`, `ConcatJoins`).
* `DevicesProofs`: the requests that wait, run and are finished form one list, and
  every step changes it by one request (`Evolves`, with a lemma for each way: queued,
  goes on, returns, calls back, calls back and asks again). As long as nothing overlapped
  at a pin (`~raced`), at most one request is for it, and the place of its worker
  says what the files of the pin are (`GpioKnows`, `PwmKnows`: for instance, that a
  worker about to set the mode has a ready pin with the right direction); without a
  request they are what the successful calls have asked for (`GpioAtRest`,
  `PwmAtRest`). `GpioFlags` ties the flag of gpio.js to the one in C and to initialize()
  and release() being alone. In i2c all objects share a descriptor, so the
  invariant is about pairs: two requests that disturb each other both know it
  (`I2cRequests`), and as long as a transfer does not, the descriptor is set to its
  slave or is closed (`Alone`). What else is done with the table of descriptors keeps
  that: other parts of the process take and free only numbers that are theirs
  (`FilesApart`), a step changes the file of `fd` at most, and a close() disturbs whatever
  is underway. The set of pins is finite (`SystemIoAssumption`), which
  the buses in use inherit.

Assumptions: the named ASSUMEs of the modules (`LoopAssumption`, `TimersAssumption`,
`WritableAssumption`, `ReadableAssumption`, `SocketAssumption`, `ServerAssumption`,
`DgramAssumption`, `HttpParserAssumption`, `HttpAssumption`, `FsAssumption`,
`CharAssumption`, `BuffersAssumption`,
`SystemIoAssumption`, `GpioAssumption`, `I2cAssumption`, `PwmAssumption`,
`DevicesAssumption`), which TLC evaluates in the runs, and the hypotheses on `Habits`
that stand in four theorems.

Induction: the library's induction theorems take an operator as a parameter, which
the provers cannot instantiate. `DgramProofs` and `FsProofs` prove the case they need in
terms of sets (`SetInduction`: a set of numbers with 0 that is closed under successor
has all numbers, from the well-foundedness of `<`). The recursive functions of the
loops exist because an explicit one satisfies their equation (in `FsProofs`), or by
induction (`DoubledExists` in `FsProofs`, `RunExists`, of the flush loop of
`DgramProofs`).

Only model-checked: all liveness properties (`LoopProgresses`, `WorkServed`, `TimersServed`,
`EndComes`, `SocketCloses`, `CloseCalledBack`, `CloseCompletes`, `HttpCloses`) and the
liveness part of `BytePipe`, as the prover has no rules for fairness and ENABLED.
Every safety property that a run checks is proved.

## 5. What is not modelled

The contents of chunks, arguments and messages; NuttX on the reading side of a
socket; JerryScript, libtuv and http-parser beyond what the code uses of them
(they are submodules, marked external in the map); memory exhaustion; the
components marked "planned" in part 6 and those that the last row of the inventory
names. Of fs, calls of open, read and write by the application itself, and what
stat and readdir return; of the devices, the workers for NuttX and Tizen, the bytes
of i2c and the descriptors that device files lose; `iotjs_string_ext.c`. `address`, `setKeepAlive`, `isPaused` and the options and groups of UDP
sockets read or pass on values only. On NuttX a lookup calls back before it
returns; `Socket` and `Dgram` do not model that. Of http, the contents of
headers and status lines, the request of a server as a stream, destroy of the socket
by the user, and setTimeout of a ClientRequest, which only tells the user.

## 6. Plan

1. Done: `EventLoop`, `Writable` with `BytePipe`, `Timers`, `Readable`, `Socket`,
   `Server`, `Dgram`, `HttpParser`, with the proofs above; `BufferOps` and `Buffers`,
   `Fs`, `SystemIo`, `Gpio`, `I2c`, `Pwm` and `Devices`; `Http` on top of `Socket`.
2. `ModuleLoader` (cache and cycles), `Emitter` (emission over a copy, once).
3. Proofs of the modules of item 2, when they exist; the safety properties of the
   present ones are proved.
