# san-db-ox-clients: a TLA+ development

SanDBox is a single-binary RDBMS. This repository holds its client libraries: five
independent drivers (Rust, Go, Java, Python, TypeScript), each of which launches the
server as a child process (the *direct* transport) or reaches it through a socket, and
speaks JSON Lines over it: one hello line from the server, then one response line per
request line, in order. Responses carry **no request id**, so a response can only be
matched to its request by position. Nearly everything that is hard in the drivers
follows from that sentence and from the child process at the other end of the pipes.

The specifications here model the session and the direct transport of all five drivers,
and of the Rust driver, the most hand-written one, also the socket transport, the line
framer and the codec. TLC checks all of it. TLAPS proves, for every value of the
constants, every safety invariant of the six connections and of the framer, that each
connection refines the abstract one, and that the Rust driver reads and writes numbers,
strings and base64 as their RFCs have them, for texts of any length.

All source paths below are relative to `src/`.

## 1. The system

Every driver has the same layers; each was written for its language's own concurrency.

| Layer | State it keeps | Operations |
| --- | --- | --- |
| client (`Client`, `SanDbOxClient`, `SocketClient`) | a session | `open`, the ops, `overwrite`, `exit_code`, `close` |
| session | `closed`, default time-out, a lock or queue | hello check, `call`, `close`, destructor |
| direct transport | child process, stdin, stderr drain, exit code | `start`, `write_line`, `read_line`, staged `close` |
| reader | one-slot channel, memoized terminal error, a thread | `read_line` with a deadline, `join` |
| socket transport | a socket and its framing buffer | `connect`, `write_line`, `read_line`, `close` |
| line framer | bytes without a newline yet | `push`, `take_line`, the 2 MiB limit |
| codec | none | encode requests, decode hello and responses |

The staged `close` is the same everywhere: close stdin, wait; SIGTERM, wait; SIGKILL,
wait; then join what drains stdout and stderr. How the layers interact differs:

| Driver | Who may call | Serialized by | What a time-out does | Background activity |
| --- | --- | --- | --- | --- |
| Rust (`rust/src`) | one owner (`&mut self`) | the borrow checker | closes the transport before it returns | reader thread, stderr thread |
| Go (`go/sandbox`) | any goroutine | `session.mu` | `go s.t.Close`, returns at once | read loop, stderr copier, `Cmd.Wait`, the goroutine of `CommandContext` |
| Java (`java/src/main`) | any thread, interruptible | `Session.lock` | closes under the lock | reader thread, stderr thread |
| Python (`python/src`) | any thread | `threading.Lock` | closes in a daemon thread | reader thread, stderr thread |
| TypeScript (`typescript/src`) | any async task | a promise queue; `close` bypasses it | starts a teardown promise | stream events |

Behaviour that is hard to test, and what makes each component correct (PROJECT.json
lists every hazard at its line, with the properties that cover it):

* **Sessions.** A caller that gets a response gets the one to its own request, after
  any sequence of time-outs, server deaths, malformed and over-long lines, cancelled
  and refused calls, and from any number of threads. A closed session is closed for
  good. A call with a time-out returns.
* **Direct transports.** After `close`, a time-out or a failed hello nothing is left:
  the child is reaped, its pipes closed, the threads let go. Signals go only to an
  unreaped child, SIGTERM before SIGKILL. `close` ends although the server ignores its
  stdin and SIGTERM, and although a grandchild still holds a pipe.
* **Readers.** The end of the stream and an over-long line are remembered; the reader
  thread never stays parked on a channel nobody takes from; joining it does not wait
  for a line nobody will read.
* **Line framers.** The lines handed out are those of the whole input split at
  newlines, however it was cut into chunks; a line beyond the limit ends the stream.
* **Socket transports.** A partial line survives a time-out; a deadline is honoured
  although the socket can only poll.
* **Codecs.** The hand-written JSON parser accepts JSON and nothing else; 64-bit integers
  and reals survive a round trip; a blob is told apart from text; a reply is a whole
  result, a whole error, or a protocol error.

## 2. The modules

| Module | What it is | Code |
| --- | --- | --- |
| `Child` | **external**: the server behind its pipes, and the lines and requests | how the drivers use it |
| `ChildProofs` | what the proofs need of it: the steps of the server, sequences | |
| `SerialConnection` | abstract: what a connection promises its callers | |
| `RustDirect` | Rust session, direct transport and threaded reader | `rust/src/session.rs`, `client.rs`, `transport/{direct,reader,signal}.rs` |
| `RustDirectProofs` | its inductive invariant, safety and refinement, proved | |
| `GoDirect` | Go session, direct transport, and what it needs of `os/exec` | `go/sandbox/sandbox.go`, `internal/transport/direct.go` |
| `GoDirectProofs` | its inductive invariant, release and refinement, proved for any goroutines | |
| `JavaDirect` | Java session, direct transport and reader thread, with interrupts | `Session.java`, `SanDbOxClient.java`, `internal/transport/{DirectTransport,ReaderThread}.java` |
| `JavaDirectProofs` | its inductive invariant, own answers, release and refinement, proved for any threads | |
| `PythonDirect` | Python session, direct transport and line reader | `_client.py`, `_transport.py` |
| `PythonDirectProofs` | its inductive invariant, release and refinement, proved for any threads | |
| `TypeScriptDirect` | TypeScript session, direct transport and line reader, with the events of node | `client.ts`, `transport.ts` |
| `TypeScriptDirectProofs` | its inductive invariant, the fed waiter, release and refinement, proved | |
| `LineFramer` | bytes in, lines out | `rust/src/transport/mod.rs` |
| `RustSocket` | Rust session over a socket: dial, inline reads against a deadline, the framer | `session.rs`, `client.rs`, `transport/{socket,mod}.rs` |
| `RustSocketProofs` | its inductive invariant, framing, deadline and refinement, proved | |
| `RustTokens` | what JSON is made of: numbers, strings and literals, scanned and written | `codec/json.rs` |
| `JsonTokens` | reference: the numbers and strings of RFC 8259, as a grammar | |
| `RustBase64` | base64, both ways, and RFC 4648 as its reference | `codec/base64.rs` |
| `RustScalars` | the three together: a text that grows piece by piece, and what holds of any | |
| `RustScalarsProofs` | that they are what the references say, proved for every text | |
| `RustJson` | JSON that nests, on top of `RustTokens`: the writer and the recursive-descent parser | `codec/json.rs` |
| `JsonGrammar` | reference: RFC 8259 as a relation between texts and values | |
| `RustCodec` | values, request lines, hello and responses, and the inputs they are tried on | `codec/{encode,decode}.rs`, `value.rs` |
| `MCRustDirect`, `MCRustSocket`, `MCRustCodec`, `MCGoDirect`, `MCJavaDirect`, `MCPythonDirect`, `MCTypeScriptDirect` | the instances TLC checks | |

Each direct-transport module EXTENDS `Child` and composes itself with it: `Next` is a step
of the driver or of the server. `RustSocket` has a peer of its own, because here bytes
matter: it EXTENDS `LineFramer`. All six instantiate `SerialConnection` with a refinement
mapping (`Connection`) and have `ImplementsConnection == Connection!Spec` as a property.
The codec is pure functions; `RustScalars` and `RustCodec` add a small state machine that
builds inputs.

### Child

State: where the server is in its life (`child`), the two pipes as sequences of lines,
the pipes a grandchild holds open, the strongest signal sent, and `room`, how many
lines the stdin pipe takes before a writer has to wait. The server is as bad as the
drivers' own comments and tests allow: its hello may be wrong, any line may be
undecodable or over-long, it may never answer, may die at any moment, may ignore the
end of stdin and SIGTERM, and may not read its stdin. It does keep the protocol's one
promise, a line per request in order. Each line carries, as a ghost, the number of the
request it answers; the drivers' control never looks at it.

### RustDirect

`pc` is the statement the owner is at. The methods take `&mut self`, so there is one.
`Session::call` is `CallStart` (or `CallRefused`), `CallWrite`, `CallFlush`, and one of
`CallAnswered`, `CallFailed`, `CallTimedOut`; a write and its flush are two steps, so that
the server may die or take the line between them. `DirectTransport::close` is
`BeginTeardown`, then `Terminate`, `Kill` and `Reaped` in whatever order the waits end,
then `JoinStderr` and `JoinReader`; `back` is where it returns to, `"gone"` after `Drop`
and after a failed `Session::new`. The reader thread is `ThreadRead` and `ThreadSend` over
the channel `slot`, and `ThreadedReader::read_line` is `GotLine`, `GotTerminal` and
`Expired`. A deadline has no clock: it may have passed whenever the code could find it
passed. The number in `exit_code` is abstracted to known or not known.

### GoDirect

`pc` has an entry per goroutine: the callers, Open, and the asynchronous Close a
cancelled call leaves behind. The lock is explicit, and `Overwrite` lets go of it before
it closes the transport without looking at `s.closed`, so two `Direct.Close` may overlap.
`Cmd.Wait` (external) is two steps, because what it does matters: it collects the status
(a second collector gets none and may overwrite `ProcessState`), then waits for the one
result of the context's goroutine, and closes the read ends of the pipes under their
readers. The read loop's channel has nobody to drop it.

### JavaDirect

`Session.lock` is held for the whole of a call and of a close, so `owner` and one `pc`
are enough; `owes` are the callers between a successful overwrite op and the close that
`overwrite()` goes on to. `flags` is the interrupt status of threads. Each wait looks at
it as the code does: a queue operation throws at once, an interrupted `waitBounded` goes
on to the next signal, `waitForever` after SIGKILL does not give up, an interrupted join
of the stderr thread leaves it running. The ghost `gaveUp` records which waits were given
up, for the properties that hold only without.

### PythonDirect

`pc` has an entry per thread: the callers, connect ("open"), and the daemon thread
("async") that a timed-out call starts. `_call` holds `_lock` from the check of `_closed`
to the decoded response; `close` holds it for its op and closes the transport without it;
`overwrite` takes it twice. So up to three threads may be in `DirectTransport.close` at
once. A buffered stream has a lock of its own: `CloseStderr` and `CloseStdout` wait for the
thread that reads the stream, whatever the join before them did. The reader thread ends
after its terminal item or when it finds its stream closed; it is not let go when it waits
for the queue. A hello beyond the limit leaves connect by an exception nobody closes the
transport for (`HelloRaises`).

### TypeScriptDirect

One thread and an event loop: a step is an event with the promise reactions it sets off.
So `Resolve` goes from a line in the `LineReader` to the settled call in one step, and
`overwrite()` calls `close()` before the next call or event (`pc = "overwritten"` admits
nothing but `OverwriteCloses` and the server). `pc` is the head of the promise queue, and
`DoClose` may come at any point of it. `StdoutData` takes a chunk of any number of lines;
the first goes to the waiter, the others are queued, and `paused` says whether more chunks
come. A line that a chunk cuts counts as unread until the chunk that ends it.
What node does is external: the exit event destroys stdin and resumes the streams,
the end of a stream is emitted once everything was read, the close event once the child
has exited and its streams have ended. `stage` is what `#close` awaits.

### LineFramer and RustSocket

A byte is a record: which line it belongs to (a ghost), what that line is worth once
decoded, and whether it is the newline. `push` and `take_line` are always called
together, so `Pops`, `Waits` and `Refuses` are each both, for any chunk, the empty one
included. `scanned`, the mark that saves searching a long line again, is a variable: that
the part before it has no newline is something the code relies on and never checks. The
ghosts `stream`, `ends` and `lines` remember what was pushed and handed out.

`RustSocket` has no thread but the owner's. `read_line` is a loop: `waiting` says the owner
is in it, `ReadGoesOn` is one more turn, `GotLine`, `GotError` and `Expired` are its ends. A
read takes any number of the bytes that are there. `left` is the clock, in poll
intervals, since that is the granularity the code has: a read that finds nothing lasts
one, one that finds bytes at most one, and the deadline is looked at after each, but not
after a read that a signal interrupted. A dial hands what is left of the time-out to
each address in turn. `polls` is whether the stream has a read time-out, which
`connect_socket` leaves to its caller. The peer may vanish with a line cut anywhere, and
an I/O error may take bytes with it.

A write may fail although the peer is there: `connect_socket` takes any stream, one with a
write time-out, a buffer to flush, or encryption. Then none of the request was sent, a part of it
(`cut`: the next one ends up on the same line, and the peer answers the two as one, with an
error), or all of it. The call fails and the session stays open (`session.rs:86`), so in
the last case the response is still to come and whoever calls next reads it. The ghost
`strays` says that this happened; `ImplementsConnection` says whose answer a caller gets
until it does (section 5).

### The codec

A text is a sequence of character codes. `RustTokens` and `RustJson` follow `json.rs`
function by function, on positions: a loop over characters that only skips is the place
where it stops (`SkipAll`), the loop of `parse_string` a function from each place to what is
found from there on, and only what nests is a RECURSIVE operator. `JsonTokens` and
`JsonGrammar` are written from the RFC, with no position and no state: they say what a text
denotes by how it can be cut, and share only the constructors of values, and the table of
escapes, with the parser. A \u escape, for instance, is a surrogate to the parser when it
lies in a range, and to the grammar when its first five bits say so. A real is its sign, its
digits and a power of ten, infinite or zero beyond the two ends of f64 (`Overflow`, `Underflow`,
to 20 digits); within them its rounding to 53 bits is the
standard library's and left out, and so is the shape of `{:?}`, of which `encode.rs` assumes little: an
integral real may come with or without a point. `Decimal`, `AsI64` and their limits use
`IntWidth` bits. UTF-8 is the standard library's too: texts here are sequences of
characters.

The state machine builds inputs. `RustScalars` has a `text` that `Grow` extends by any piece
of its `kind`, and what holds of the scanners at every place in it. `RustCodec` EXTENDS it
with a list of parameters (`Bind`) and a reply in which `Change` replaces a member by
another sample or takes it away; its steps grow the text or leave it alone, which is all
that `TextSpec` of `RustScalars` says. Every reachable state is an input, every property
says what the codec makes of it. A sample carries its wire form and, written by hand beside
it, what it means as each of the types a member may have.

## 3. The runs

All connection runs use a model of two requests (one in the counterexample runs that need no
more). `CHECK_DEADLOCK FALSE` everywhere: once the connection is closed and every
request was issued, or the bound on an input is reached, the system stops.

| Run | Shows |
| --- | --- |
| `rust_direct` | type, `OwnAnswer`, `ReleasedAtRest`, `ReaderNotParked`, `SignalsUnreapedInOrder`, the refinement, and under fairness `CallAndCloseReturn`, `ReaderThreadEnds` (518 thousand states) |
| `rust_socket` | `LinesAsSent` for every chunking, `DeadlineHonoured`, the refinement, `CallReturns` (2,115 thousand states) |
| `rust_codec` | of texts: `ParsesExactlyJson`, `NumbersExact`, and at every place of each, `NumbersScanned`, `StringsScanned`, `StringsSurvive`, `Base64Strict`; of parameters and replies: `RequestsSurvive`, `RepliesStrict` (446 thousand inputs) |
| `go_direct` | the same as `rust_direct` for two goroutines, an Open context that can end or not, overlapping closes (449 thousand states) |
| `java_direct` | the same for two threads that may be interrupted (833 thousand states) |
| `python_direct` | the same for two threads, the daemon teardown and overlapping closes (373 thousand states) |
| `ts_direct` | the same for the promise queue with `close()` past it, chunks of any number of lines and node's events; `WaiterIsFed` (698 thousand states) |
| `go_stderr` | finding: the last bytes of stderr may be lost |
| `go_open_ctx` | finding: the context of Open kills an open connection's server |
| `java_interrupt` | finding: after an interrupt the next call gets the interrupted call's response |
| `python_reader` | finding: an ordinary close leaves the reader thread in `queue.put` |
| `ts_waiter` | finding: a call without a time-out never settles after `close()` has destroyed its stream |

Properties, in the order of their weight:

* `ImplementsConnection`: refinement of `SerialConnection`: requests in order, one at a
  time, each pending one answered *with its own answer* or failed, a closed connection
  refusing for good (a request in progress may outlast the close). The mapping sends a
  foreign answer to a status the abstract connection does not have, so the refinement
  includes the match of responses to requests; `OwnAnswer` states it alone in Rust. Java,
  which can give a foreign answer, counts it as one in its mapping, and
  `OwnAnswerUninterrupted` says when it cannot. The Rust socket counts it as one only once
  a request was sent whose write failed (`strays`).
* `LinesAsSent`: the lines handed out are the stream split at its newlines, none lost,
  torn or joined, whatever the chunks, and what was scanned has no newline in it
  (`FramedAsSent`); and a line is refused only when more bytes of it than the limit have come
  and no newline, and waited for only up to there (`LimitHonoured`): a line of exactly
  `MAX_LINE_BYTES` is handed out.
* `ParsesExactlyJson`: on every text, the parser's result is the grammar's one value, or
  an error when it has none.
* `NumbersScanned`, `StringsScanned`: at every place of a text, what a scanner takes is a
  number or a string of the grammar with the value it has there, and what the grammar has
  there is taken, all of it. A number may end anywhere, so the second half is of numbers
  that nothing after them can go on. `ParsesExactlyJson` has these for the texts it is
  checked on; alone they are about any text, and proved.
* `StringsSurvive`: what is written of a string is read back as that string, whatever comes
  after it, and without a control character: a newline would end the request line.
* `Base64Strict`: the texts accepted are those of RFC 4648, the bytes are the bits of the
  text, and encoding them again gives the text back exactly if no spare bit is set.
* `RepliesStrict`, `RequestsSurvive`, `NumbersExact`: nothing is defaulted, rounded, truncated
  or sent in part.
* `ReleasedAtRest`: what `close` must have let go of, in every state in which a closed
  session is at rest. For Go it is about the moment no Close runs any more, since
  a Close that finds the session closed returns at once with the child still alive.
* `DeadlineHonoured`: no read and no dial of the socket outlasts its deadline by more than
  one poll interval, even against a peer that sends a byte at a time. Only on a stream
  that polls and in a read that no signal interrupts: both provisos are the code's.
* `WaiterIsFed` (TypeScript): whoever waits for a line finds the stream flowing and nothing
  queued: the backpressure of the reader never holds back what it waits for.
* `ReaderNotParked` (Rust): why `close` reads the response to its close op.
* `SignalsUnreapedInOrder` (Rust): an action property on signals.
* `CallAndCloseReturn` (`CallReturns` alone for the socket),
  `CallReturnsCloseReleases` (Go, Python, where a close may return before all is released) and
  `ReaderThreadEnds`: liveness. The first two join what is said of a call and of a close.
  In Java `ReaderThreadEnds` is of a close without a time-out or an interrupted read: after
  either one the thread may stay parked on the queue with the late line, and does so in the model.
  In TypeScript a close returns unless `HeldBack` stays true: the stream was paused again
  after the exit event, for which section 5 has the code.

### Bounds, and why they are enough

* `MaxRequests = 2`: a response that goes to the wrong caller needs one request that
  leaves it and one that gets it. Safety and refinement are proved for every number in
  all six connections, so the bound only limits what is checked of liveness.
* `room` is 0 (a writer waits until the server has read) or `MaxRequests + 1` (nothing a
  driver writes ever waits); the values between mix the two.
* `holders`: in Rust, Python and TypeScript no grandchild, one on stdout, or one on stderr;
  in Go and Java none or one on stderr, since only the stderr waits depend on it. A grandchild may let go at
  any time or never.
* Lines of the socket's peer have `MaxLineBytes = 1` byte or 2: at the limit and one byte
  beyond it, a newline excluded; a chunk is any prefix of what is there, so it ends
  before, at and after a newline and may hold two lines. Framing is proved for every limit.
* `MCInit` in `MCRustSocket` leaves out a stream that neither polls nor takes a request at
  once: what a read without a deadline and a write that waits do is in the initial states
  that have one of the two.
* The clock counts to 2 past the deadline and stays there; time-outs are 0 and 1 poll
  intervals, names resolve to two addresses, a signal interrupts one read. The
  deadline, too, is proved without these bounds (but the one on the overrun).
* The codec's integers have `IntWidth = 4` bits (-8 to 7), so that both limits and one
  beyond each are short texts; the range of a real is that of f64. Texts have up to 5 structural
  pieces (brackets, separators, a literal, a broken literal, a member), 6 of a number, 5
  of a string (escapes, surrogate halves, control characters and with them a newline),
  6 of base64: every production of the grammar and every branch of the parser is
  reached, several of them nested. What is said of numbers, strings and base64 alone is
  proved without these bounds.
  Requests bind up to 3 parameters; a reply has up to 2 members changed, which is
  what a defect that needs two wrong members, such as `ok` and `error`, takes.
* `MCInit` in `MCGoDirect`, `MCJavaDirect` and `MCTypeScriptDirect` leaves out combinations of the optional
  hazards (a narrow pipe, a grandchild, a context that ends, an interrupt) so that a run
  finishes; each hazard is in some initial state, with every interleaving of the rest.
* `MaxInterrupts = 1`: the status stays set until the user's code clears it, so one
  interrupt already ends every wait of a close in turn. Proved for every number.
* Chunks (TypeScript): any number of the lines that are there, of a living and of a dead
  server; a line beyond the limit ends its chunk while nothing was terminal before, since
  what the reader makes of the rest of it is the same.
* Two callers in Go, Java and Python: the lock admits one at a time, so a third adds only
  names; safety and refinement are proved for every set of threads.

### Fairness

In TypeScript weak fairness of the callbacks that are due; elsewhere of each thread the
driver starts and of the owner's own steps inside a call or close: the scheduler runs
what can run, and timed waits end. `RustSocket` has weak fairness of the owner's steps alone,
none of the peer. Weak fairness of the
server's death once SIGKILL was sent: the kernel does not lose it. Nothing else: the
server need not answer, exit, read or heed SIGTERM, users need not call or close, and a
grandchild need not let go of a pipe. Liveness is therefore stated with what the code
needs and cannot enforce, in the property itself: the request fits the pipe
(`PipeTakesAll`, `fits`: no driver's write has a deadline), the socket polls (`polls`), the stderr pipe ends (`StderrWillEnd`:
the join has none in Rust and Java) or both pipes do (`StreamsWillEnd`: `close()` of a
stream in Python, the close event in TypeScript), the reader does not hold stdout back for good
(`HeldBack` in TypeScript), no `Cmd.Wait` is lost (`WaitLost` in Go).

## 4. What is proved

`RustDirectProofs` proves, for every number of requests, every choice of pipe size,
stderr thread and grandchild: `TypeCorrect`, `OwnAnswerHolds`, `ReleasedHolds`,
`ReaderNotParkedHolds`, `SignalsHold` and `Refinement`. The assumptions are those on the constants in
`Child` and `RustDirect`: `MaxRequests` is a natural number, the choices are sets of
naturals, of sets of pipes, and of stderr-thread states.

All of them rest on one inductive invariant, `IInv`, with these parts:

* `FlightInv`, the heart of it. `OwnAnswer` alone is not inductive: a stray line may sit
  in a pipe, the thread's hand or the channel. `InFlight` counts lines over all four
  places. As long as the reader can still deliver (`Live`) and nothing timed out, nothing
  is on its way outside a call, and during one at most its own request or response.
* `EndInv`: a reader that can deliver no more has no thread. With it `FlightInv` may let
  go after a terminal item: what piles up then, nobody is handed.
* `StageInv`: where the owner is, against what is closed and released. It holds that a
  time-out leaves the session closed, so that `FlightInv` may let go after a time-out too,
  and it carries `ReleasedAtRest` through the stages of the teardown.
* `SignalInv`: which signal each stage has sent, and that none has reaped before.
* `OrderInv`: requests below `issued` are over, the one at `issued` is pending exactly
  during a call, those above are new. The refinement needs it for `Submit` and `Refuse`.

`Refinement` maps `Init` to the abstract `Init` and every step to an abstract step or a
stutter, one case per action.

The four proofs about the other drivers have the same frame, and lemmas about the server
in common (`ChildProofs`: `ChildSteps` says what one of its steps puts on its way). They
make no assumption beyond the ones of `Child` and of their driver's module: the callers
are a set, of any size, in which the names of the other threads are not.

`GoDirectProofs`, `PythonDirectProofs`: `TypeCorrect`, `ReleasedHolds`, `Refinement`. The parts
of their `IInv`:

* `LockInv`: which statements are under the lock and which thread is at one. Two threads in
  one call is what it excludes (`OneCalls`), and a call of a closed session.
* `FlightInv`: whoever holds the lock in a call has at most one line on its way, its own, and
  finds none when it takes the lock of an open session. A call that gives up leaves a line
  behind; it holds all the same because the call sets `closed` in the same critical
  section. Every step that only moves lines on is shown once to keep it (`Flows`, `FlightKept`).
* `ReleaseInv`: what each thread in a close has behind it, and that a closed session is
  released or some thread is still on the path to it. Which thread is the last, the
  proof need not know: whoever leaves has released all (`ReleaseMoved`).
* In Go the path is not enough: a `Cmd.Wait` that lost the child to another one returns with
  the pipes still open. `WaitInv` says that while they are open the one that collected the
  status is not done. `LoopInv` says that the channel is closed only behind the terminal item.
* `OrderInv` as in Rust, with the caller that is in a call.

`JavaDirectProofs`: `TypeCorrect`, `OwnAnswerHolds`, `ReleasedHolds`, `Refinement`. The lock is
held throughout, so `StageInv` is Rust's, with the owner for `back`. `FlightInv` holds as
long as no read was interrupted, which is what `OwnAnswerUninterrupted` says, and the
finding of `java_interrupt` shows that it cannot do without. `ReleasedAtRest` needs no such
proviso: `StageInv` follows the close statement by statement, whichever waits an
interrupt cut short, because the one after SIGKILL is not.

`TypeScriptDirectProofs`: `TypeCorrect`, `WaiterIsFedHolds`, `ReleasedHolds`, `Refinement`.
`close()` goes past the queue, so there may be two lines on their way during a call, and
counting them matches nothing. `NextIsOwn` states the order instead: over the queue, the
pipe from the server and the pipe to it, the first line is that of the call in progress.
`WaiterIsFed` needs `PausedInv`: a paused stream has something queued or has ended.
`StageInv` ties the stages of `#close` to the exit and the close events of node.

`RustSocketProofs` proves of the socket connection, for every line limit, every set of line
lengths, of time-outs and of address counts, and any number of requests and signals:
`TypeCorrect`, `FramedHolds`, `DeadlineHolds` and `Refinement`. Its `IInv` has these parts:

* `FramedAsSent` is inductive by itself, and the longest part: a pop must find in the
  buffer the first newline *of the stream* after the last line, for which it needs that
  the scanned part has none. The lemmas go byte by byte (`SamePart`, `OldLines`,
  `FramedPops`, `FramedKeeps`), because what a chunk appends shifts every index.
* `WireInv` carries the match of responses to requests, as `FlightInv` does for the direct
  transport, but over bytes: as long as the connection can still hand out an answer
  (`Live`) and no request was sent whose write failed, the bytes in the framer and in the
  stream together are at most one line, it is
  of the request in progress, and none is there between calls. `PopsWire` says
  what a pop makes of that, `WirePeer` what the peer may add. `OwnInv` carries what the
  callers were handed on to the refinement mapping (`NoneStale`).
* `LimitHonoured` needs `ReadInv`, that read_line is in its loop only in a read and only
  without a terminal error, and that the buffer is what has come of the open line (`KeptRest`).
* `DeadlineInv`: a read that goes on is within its deadline, which `DeadlineHonoured` alone
  does not say: an overrun of one interval must be the last.
* `StageInv` and `OrderInv` are as above.

`RustScalarsProofs` is about the codec's scalars: `AlwaysStrict`, `AlwaysScansNumbers`,
`AlwaysScansStrings` and `AlwaysSurvives` are four invariants of `rust_codec`, whatever the
pieces and the bounds; the one assumption is that pieces are sequences of code points. They
are stated of `TextSpec`, which is less than `RustCodec` says: its inputs of other kinds are
behaviours of `TextSpec` too. What moves is a text and stays one (`TextInvariant`); all else
is a fact about texts, of any length (`DecodingIsStrict`, `ScanningNumbers`,
`ScanningStrings`, `StringsRoundTrip`).

Such facts call for induction over the text, and the theorems of the library that offer it
take an operator as a parameter, which the provers cannot instantiate. The proofs go by
the place of a counterexample instead: a set of naturals that is not empty has a smallest
member (`Smallest`, from `WFMin`), one with a bound a largest (`Largest`), and the first or
the last place where a claim fails is shown not to be one. Three functions are defined
by recursion, in `ParseString`, `WriteString` and `Strings`; that a function with such a definition
exists at all is shown the same way (`CharsOfIs`, `OutOfIs`, `BodiesOfIs`): one for the places
from m on makes one for those from m - 1 on.

* Base64. Neither `Encode` nor `Decode` is recursive, each gives the element at a place; so the
  proofs go group by group: four sextets and three bytes determine each other (`Octets`,
  `Sextets`, `OctetsOfSextets`). What decode accepts is what is well formed, the padding being
  what follows the data; its bytes are the reference's, which are sums over single bits
  (`SixBits`, `ByteOfBits`, `DecodeIsBytes`). `TripleOfText` says what encoding again makes of a
  block: the same sextets with the spare bits cleared. `RoundTrip`, the other direction, is of any bytes.
* Numbers. Each rule of the grammar is restated at places of the text (`IntOfPiece`,
  `FracOfPiece`, `ExpOfPiece`), and each part of the scanner against its rule, both ways
  (`IntPartIs`, `FracPartIs`, `ExpPartIs`); `NumberIsFound` and `NumberIsTaken` put the parts
  together. Where a part ends is no choice of the grammar: the character after it cannot be in it.
* Strings. The grammar has four ways to write a character, told apart by length.
  `CharIsTaken` and `CharIsFound` say that `ParseChar` takes each of them and nothing else, surrogate
  pairs included; `BodyIsTaken` and `BodyIsFound` carry that over the characters up to the closing
  quote. No two cuts of a text can both be read, since the parser, which does what any
  of them says, does one thing.
* Writing. What `WriteChar` writes is one of those ways (`WriteCharIs`), so what `WriteString` writes is
  a string of the grammar with that meaning, wherever it ends up, and `ScanningStrings` says that
  it is read as such.

**Model-checked only:** all liveness (`CallReturns`, `CallAndCloseReturn`,
`CallReturnsCloseReleases`, `ReaderThreadEnds`: TLAPS does no fairness or ENABLED here), and
of the codec what nests or computes with numbers: `ParsesExactlyJson`, `NumbersExact`,
`RequestsSurvive`, `RepliesStrict`. Values that nest need RECURSIVE operators, in `RustJson`
and in `JsonGrammar`, which tlapm does not hand to its SMT solver; TLC evaluates them on
every bounded input instead. The properties of the runs that expect a violation are false of
the code, so there is nothing to prove; `OwnAnswerHolds` in Java is what is true of one.

## 5. Disagreements with the repository's own words

1. `go_stderr`: `direct.go:100-102` calls draining stderr to completion a hard contract;
   `Cmd.Wait` runs beside the copier and closes the pipe under it.
2. `go_open_ctx`: `sandbox.go:394-396` says Open's context bounds only the attempt;
   `exec.CommandContext` keeps it and kills the child whenever it ends.
3. `java_interrupt`: `Session.java:186-189` says a session left open after an error keeps
   returning that error; an interrupt is not memoized, and the response stays for the
   next caller.
4. `python_reader`: `_client.py:268-271` says `close` leaves nothing dangling. The response to
   its own op fills the queue of one item, the reader thread waits in `put` behind it for
   good, and `close` spends its time-out on the join (confirmed by running the driver: a close of an
   obedient server takes the whole five seconds).
5. `ts_waiter`: `client.ts:285-287` says the same, `client.ts:168-170` that a failed call never
   wedges the queue. `#close` on an exited server waits one deadline and destroys a stdout
   that a grandchild holds; a waiter without a time-out hears of neither end nor error.

Also noted, without a run:

* `session.rs:74-77` says the teardown of a time-out is bounded and terminates "even a hung
  child"; the join of the stderr thread (`direct.rs:185`) has no deadline, so with a
  `StderrSink::Writer` whoever holds stderr holds the caller. The liveness of `rust_direct`
  is stated for a stderr pipe that ends (`StderrWillEnd`) and fails without that.
* `sandbox.go:164-168` promises that no goroutine leaks when a call gives up; the read loop
  stays for good at a channel with a late line in it (`sandbox.go:126`). In `GoDirect` its
  `loop` stays "sending", and no property says that it ends.
* `socket.rs:28-36` bounds a read by its deadline and one poll interval; a read that a signal
  interrupted is retried without a look at the deadline (`socket.rs:156`). `DeadlineHonoured`
  is stated for reads that no signal interrupts.
* `session.rs:77-81` says that after every other read or write error the transport returns the same
  error on every later call; the socket's write errors are not memoized (`socket.rs:113-117`).
  On a socket this driver connected, whose write fails once the peer is gone, it costs another
  error. On a stream given to `connect_socket` that fails a write or a flush with the peer still
  there, the session stays open, the request may have been sent, and the next caller may get the
  response to it. The model has this (`WriteFails`, `strays`), and `ImplementsConnection`
  promises own answers only until it happens.
* `close()` in TypeScript may never return although no grandchild holds a pipe. Node resumes a
  paused stdout once, when the child exits. If a chunk that comes after that has a line nobody
  waits for and more is left to read, the reader pauses the stream again
  (`transport.ts:86-101`) and nobody resumes it: neither its end nor the close event comes,
  and `await this.#closed` (`transport.ts:313`) has no deadline, against `transport.ts:294-298`
  and `client.ts:285-287` ("nothing is left dangling"). It takes a call and a `close()` past it
  that were both answered, the call given up before it read, and the two lines cut across two
  reads; or a server that sends several lines, which `transport.ts:26-30` reckons with.
  `ts_direct` has all of it; without the proviso `HeldBack` its `CallAndCloseReturn` is violated.
* The docs of four drivers call a client "not safe for concurrent use" (`sandbox.go:350-354`,
  `_client.py:294-297`, `client.ts:317-320`, `SanDbOxClient.java:9-16`) and say in the
  same sentence, or in `_client.py:3-7`, that a lock or queue serializes the calls. The models check
  what the code does, callers at once, and find that it is safe: what the docs leave open
  is the order of the calls, not whose answer each gets.
* `SocketTransport::close` lets go of the socket only when the session is dropped.
* The base64 decoder takes texts whose spare bits are not zero, as RFC 4648 (3.5) allows.
* Java's `SocketTransport.readLine` looks at its deadline only after a read that found
  nothing (`SocketTransport.java`), so a peer that sends a byte at a time outlasts it.
* `reader.rs:129-131` says `close` never reads the response to the close op, while
  `session.rs:179-190` does; the code's behaviour is the better one, and `ReaderNotParked`
  is about it.

## 6. What is not modelled, and why

In the modelled parts: which op a call makes (all but `overwrite` behave alike in the
connection; in the codec each has its own replies), the wording of errors, the number in an
exit code, the spawn itself failing (no connection comes to be), the clock of the direct
transports (their deadlines are nondeterministic), Windows' process termination, per-call
contexts that ended before the call, the exit-code getters (Java's reads its field without
the lock), sinks that fail or block, read errors of a pipe other than its end, a
`KeyboardInterrupt` in Python (it would leave a response unread, as the interrupt does in
Java), and a child that could not be spawned in TypeScript, where that is an event. The
depth of nested JSON is not bounded in the code, and the stack it takes is not modelled.

Parts without a module:

* **The socket transports of Go, Python and TypeScript.** Each puts a stream under the read
  side its direct transport already has (Go's read loop and channel, Python's `_LineReader`
  thread, TypeScript's `LineReader`), which `GoDirect`, `PythonDirect` and `TypeScriptDirect`
  model with their sessions. What is their own is a close without stages: Go sets a
  deadline on the connection and closes it; Python shuts the socket down, which wakes
  the reader thread, and joins it; TypeScript ends the stream and destroys it after one
  deadline. There is no child, signal or second pipe, so each is its direct transport with most
  of the teardown left out.
* **Java's socket transport** reads inline, as Rust's does, with the same framer; it asks the
  socket (`setSoTimeout`) or a selector for the exact time left instead of polling, and looks
  at the deadline only when that ran out. `RustSocket` is its model but for that rule, which
  section 5 notes.
* **The codecs of the other drivers.** Go, Python and TypeScript hand JSON and base64 to
  their standard libraries; Java's parser is a translation of the Rust one. The rules of
  the protocol (which members a reply must have, what an error is, how a blob is told
  from text) are those `RustCodec` states; TypeScript's number handling is node's.
* **Types, errors and re-exports** of the drivers: declarations.
* **The SanDBox server**: not in the repository; `Child` and the socket's peer stand for it.
* **Conformance cases and their runners, documentation and scripts**: test data, tests and text.
