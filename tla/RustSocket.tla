----------------------------- MODULE RustSocket -----------------------------
(***************************************************************************)
(* The Rust driver's socket connection: Session (rust/src/session.rs) over *)
(* SocketTransport (transport/socket.rs) and its LineFramer, made by       *)
(* connect_tcp, connect_unix or connect_socket (client.rs).                *)
(*                                                                         *)
(* There is no thread but the owner's: read_line reads the stream itself,  *)
(* any number of bytes at a time, in a loop that looks at the deadline     *)
(* between two reads.  Time is counted in poll intervals (POLL_INTERVAL,   *)
(* the read time-out of the streams this driver connects): a read that     *)
(* finds nothing lasts one, a read that finds bytes at most one.           *)
(*                                                                         *)
(* The peer (EXTERNAL) is a server behind a stream: a hello line, then one *)
(* response line per request; it may be slow, silent, vanish in the middle *)
(* of a line, not read, or send lines beyond the limit.                    *)
(***************************************************************************)
EXTENDS LineFramer

CONSTANTS MaxRequests,   \* bound: how many requests the user issues
          LineLengths,   \* how long the peer's lines may be, newline not counted
          Timeouts,      \* the time-outs in use, in poll intervals
          AddrChoices,   \* how many addresses a name may resolve to
          MaxSignals     \* bound: how many reads a signal interrupts

ASSUME MaxRequestsAssumption == MaxRequests \in Nat
ASSUME LineLengthsAssumption == LineLengths \subseteq Nat \ {0}
ASSUME TimeoutsAssumption    == Timeouts \subseteq Nat
ASSUME AddrAssumption        == AddrChoices \subseteq Nat
ASSUME MaxSignalsAssumption  == MaxSignals \in Nat

VARIABLES
    \* the peer and the stream
    peer,       \* "booting", "serving" or "gone"
    toPeer,     \* request lines the peer has not taken
    fromPeer,   \* bytes of its lines not yet read
    cut,        \* part of a request whose write failed was sent, its newline was not
    strays,     \* ghost: all of one was sent
    fits,       \* a request fits the socket's buffers: writing it does not block
    polls,      \* the stream has a read time-out (connect_socket leaves it to its caller)
    \* Session, and where its owner is in the code
    pc,         \* "dial", "hello", "idle", "write", "read", "closeWrite", "closeRead", "gone"
    back,       \* where close returns to: "idle", or "gone" in Drop
    issued,     \* requests submitted so far; the last one is the one in progress
    outcome,    \* ghost: what each request's caller got
    closed,     \* Session.closed
    bounded,    \* Session.default_timeout.is_some()
    \* SocketTransport, dial_tcp and read_line
    addrs,      \* addresses dial_tcp has not tried, 0 when it has returned
    terminal,   \* the memoized terminal error, or "none"
    waiting,    \* read_line is in its loop
    left,       \* time until the deadline of the dial or of this read_line
    signals     \* how many reads a signal has interrupted so far

linkVars    == <<cut, strays, fits, polls>>
peerVars    == <<peer, toPeer, fromPeer, linkVars>>
sessionVars == <<pc, back, issued, outcome, closed, bounded>>
readVars    == <<terminal, waiting, left, signals>>
vars        == <<framerVars, peerVars, sessionVars, addrs, readVars>>

Ids       == 1..MaxRequests
(* A hello this driver accepts, a response (ok or error), neither.         *)
LineKinds == {"hello", "response", "bad"}
Byte      == [id : 0..MaxRequests, kind : LineKinds, nl : BOOLEAN]
Request   == [op : {"call", "close"}, id : 0..MaxRequests]
Outcomes  == {"none", "pending", "response", "bad", "io", "timeout", "closed"}
ReadErrors == {"eof", "long", "io"}

TypeOK ==
    /\ buf \in Seq(Byte) /\ scanned \in Nat
    /\ stream \in Seq(Byte) /\ ends \in Seq(Nat) /\ lines \in Seq(Seq(Byte))
    /\ peer \in {"booting", "serving", "gone"}
    /\ toPeer \in Seq(Request) /\ fromPeer \in Seq(Byte)
    /\ cut \in BOOLEAN /\ strays \in BOOLEAN /\ fits \in BOOLEAN /\ polls \in BOOLEAN
    /\ pc \in {"dial", "hello", "idle", "write", "read", "closeWrite", "closeRead", "gone"}
    /\ back \in {"idle", "gone"}
    /\ issued \in 0..MaxRequests
    /\ outcome \in [Ids -> [re : 0..MaxRequests, kind : Outcomes]]
    /\ closed \in BOOLEAN /\ bounded \in BOOLEAN
    /\ addrs \in Nat
    /\ terminal \in ReadErrors \cup {"none", "closed"}
    /\ waiting \in BOOLEAN /\ left \in Int /\ signals \in 0..MaxSignals

(* connect_tcp dials first; connect_unix and connect_socket have a stream. *)
Init ==
    /\ FramerInit
    /\ peer = "booting" /\ toPeer = <<>> /\ fromPeer = <<>>
    /\ cut = FALSE /\ strays = FALSE /\ fits \in BOOLEAN /\ polls \in BOOLEAN
    /\ pc \in {"dial", "hello"} /\ (pc = "dial" => polls)
    /\ addrs \in (IF pc = "dial" THEN AddrChoices ELSE {0})
    /\ back = "idle" /\ issued = 0
    /\ outcome = [i \in Ids |-> [re |-> 0, kind |-> "none"]]
    /\ closed = FALSE /\ bounded \in BOOLEAN
    /\ terminal = "none" /\ waiting = FALSE /\ signals = 0
    /\ left \in Timeouts

-----------------------------------------------------------------------------
(* The peer.                                                               *)

LineOf(i, k, n) == [p \in 1..n + 1 |-> [id |-> i, kind |-> k, nl |-> p = n + 1]]

PeerHello ==
    /\ peer = "booting"
    /\ peer' = "serving"
    /\ \E k \in {"hello", "bad"}, n \in LineLengths :
          fromPeer' = fromPeer \o LineOf(0, k, n)
    /\ UNCHANGED <<toPeer, linkVars>>

(* One request in, one line out; the response to the close op is its last. *)
PeerAnswer ==
    /\ peer = "serving" /\ toPeer # <<>>
    /\ toPeer' = Tail(toPeer)
    /\ peer' = IF Head(toPeer).op = "close" THEN "gone" ELSE peer
    /\ \E k \in {"response", "bad"}, n \in LineLengths :
          fromPeer' = fromPeer \o LineOf(Head(toPeer).id, k, n)
    /\ UNCHANGED linkVars

(* It may vanish at any moment, with what is on its way cut anywhere.      *)
PeerGone ==
    /\ peer # "gone"
    /\ peer' = "gone"
    /\ \E n \in 0..Len(fromPeer) : fromPeer' = SubSeq(fromPeer, 1, n)
    /\ UNCHANGED <<toPeer, linkVars>>

PeerStep ==
    /\ PeerHello \/ PeerAnswer \/ PeerGone
    /\ UNCHANGED <<framerVars, sessionVars, addrs, readVars>>

-----------------------------------------------------------------------------
(* dial_tcp.  Each address gets what is left of the time-out; without one  *)
(* TcpStream::connect tries them all.                                      *)

(* Bound: an overrun is counted up to 2 poll intervals.                    *)
Later(d) == IF left - d < 0 - 2 THEN left ELSE left - d

DialGoesOn == pc = "dial" /\ addrs > 0 /\ (bounded => left > 0)

DialConnects ==
    /\ DialGoesOn
    /\ pc' = "hello" /\ addrs' = 0
    /\ UNCHANGED <<framerVars, peerVars, back, issued, outcome, closed, bounded, readVars>>

(* connect_timeout(a, remaining) ends by itself when nothing is left.      *)
DialFails ==
    /\ DialGoesOn
    /\ addrs' = addrs - 1
    /\ \E d \in 0..left : left' = IF bounded THEN left - d ELSE left
    /\ UNCHANGED <<framerVars, peerVars, sessionVars, terminal, waiting, signals>>

DialGivesUp ==
    /\ pc = "dial" /\ ~DialGoesOn
    /\ pc' = "gone" /\ back' = "gone" /\ addrs' = 0
    /\ UNCHANGED <<framerVars, peerVars, issued, outcome, closed, bounded, readVars>>

-----------------------------------------------------------------------------
(* SocketTransport::read_line: how it returns, and how it goes on.         *)

Deadlined == bounded \/ pc = "closeRead"     \* CLOSE_TIMEOUT is always there

Elapse(d) == left' = IF Deadlined THEN Later(d) ELSE left

(* Fault: no deadline is ever looked at.                                   *)
TimedOut_Never == FALSE

TimedOut == Deadlined /\ left' <= 0

(* A read that finds n bytes: Result is what the framer makes of them.     *)
Receives(Result(_)) ==
    /\ waiting
    /\ \E n \in 1..Len(fromPeer) :
          /\ Result(SubSeq(fromPeer, 1, n))
          /\ fromPeer' = SubSeq(fromPeer, n + 1, Len(fromPeer))
    /\ \E d \in 0..1 : Elapse(d)
    /\ UNCHANGED signals

(* A line: an earlier read's, or one this read completes.                  *)
GotLine ==
    /\ terminal = "none"
    /\ \/ ~waiting /\ Pops(<<>>) /\ UNCHANGED <<fromPeer, left, signals>>
       \/ Receives(Pops)
    /\ waiting' = FALSE

(* An error: the memoized one, a line beyond the limit, the end of the     *)
(* stream, or an I/O error (a reset, which may discard bytes).             *)
GotError(e) ==
    /\ \/ /\ ~waiting /\ terminal # "none" /\ e = terminal
          /\ UNCHANGED <<framerVars, fromPeer, left, signals>>
       \/ /\ terminal = "none" /\ e = "long"
          /\ \/ ~waiting /\ Refuses(<<>>) /\ UNCHANGED <<fromPeer, left, signals>>
             \/ Receives(Refuses)
       \/ /\ waiting /\ peer = "gone"
          /\ \/ e = "eof" /\ fromPeer = <<>>
             \/ e = "io"
          /\ UNCHANGED <<framerVars, fromPeer, left, signals>>
    /\ waiting' = FALSE

(* Fault: a read that found bytes does not look at the deadline.           *)
Dribbles_Unchecked == Receives(Waits)

Dribbles == Receives(Waits) /\ ~TimedOut

(* WouldBlock or TimedOut, after one poll interval.                        *)
FindsNothing ==
    /\ waiting /\ polls
    /\ Elapse(1)
    /\ UNCHANGED <<framerVars, fromPeer, signals>>

(* Error::Timeout.  A partial line stays in the framer.                    *)
Expired ==
    /\ Receives(Waits) \/ FindsNothing
    /\ TimedOut
    /\ waiting' = FALSE

(* ErrorKind::Interrupted: the next read starts without a look at the      *)
(* deadline.                                                               *)
ReadInterrupted ==
    /\ waiting /\ signals < MaxSignals
    /\ signals' = signals + 1
    /\ \E d \in 0..1 : Elapse(d)
    /\ UNCHANGED <<framerVars, fromPeer>>

ReadGoesOn ==
    /\ pc \in {"hello", "read", "closeRead"}
    /\ \/ /\ ~waiting /\ terminal = "none" /\ Waits(<<>>)
          /\ left' \in Timeouts
          /\ UNCHANGED <<fromPeer, signals>>
       \/ Dribbles
       \/ FindsNothing /\ ~TimedOut
       \/ ReadInterrupted
    /\ waiting' = TRUE
    /\ UNCHANGED <<peer, toPeer, linkVars, sessionVars, addrs, terminal>>

-----------------------------------------------------------------------------
(* Session::new.  Each byte says which line it is of: so does the newline  *)
(* of the one just popped.                                                 *)

LastLine == stream'[Taken']

HelloAccepted ==
    /\ pc = "hello" /\ GotLine /\ LastLine.kind = "hello"
    /\ pc' = "idle"
    /\ UNCHANGED <<peer, toPeer, linkVars, back, issued, outcome, closed, bounded,
                   addrs, terminal>>

(* transport.close, and there is no Session.                               *)
HelloFailed ==
    /\ pc = "hello"
    /\ \/ GotLine /\ LastLine.kind # "hello"
       \/ \E e \in ReadErrors : GotError(e)
       \/ Expired
    /\ terminal' = "closed"
    /\ pc' = "gone" /\ back' = "gone"
    /\ UNCHANGED <<peer, toPeer, linkVars, issued, outcome, closed, bounded, addrs>>

-----------------------------------------------------------------------------
(* Session::call.                                                          *)

Return(kind, re) == outcome' = [outcome EXCEPT ![issued] = [re |-> re, kind |-> kind]]

SetTimeout ==
    /\ pc = "idle"
    /\ bounded' = ~bounded
    /\ UNCHANGED <<framerVars, peerVars, pc, back, issued, outcome, closed, addrs, readVars>>

CallRefused ==
    /\ pc = "idle" /\ closed /\ issued < MaxRequests
    /\ issued' = issued + 1
    /\ outcome' = [outcome EXCEPT ![issued + 1] = [re |-> 0, kind |-> "closed"]]
    /\ UNCHANGED <<framerVars, peerVars, pc, back, closed, bounded, addrs, readVars>>

CallStart ==
    /\ pc = "idle" /\ ~closed /\ issued < MaxRequests
    /\ issued' = issued + 1
    /\ outcome' = [outcome EXCEPT ![issued + 1] = [re |-> 0, kind |-> "pending"]]
    /\ pc' = "write"
    /\ UNCHANGED <<framerVars, peerVars, back, closed, bounded, addrs, readVars>>

(* A whole line.  With what a failed write left before it, it is one that  *)
(* the peer answers with an error.                                         *)
Sends(request) ==
    /\ toPeer' = Append(toPeer, [request EXCEPT !.op = IF cut THEN "call" ELSE @])
    /\ cut' = FALSE

(* write_all: the socket takes the line, the peer does, or (gone) nobody.  *)
(* The kernel may still take what a vanished peer will never read.         *)
Written(request) ==
    /\ \/ peer # "gone" /\ fits /\ Sends(request)
       \/ peer = "gone" /\ UNCHANGED <<toPeer, cut>>
    /\ UNCHANGED <<peer, fromPeer, strays, fits, polls>>

(* write_all or flush fails, of a peer that is gone, or of a stream that   *)
(* connect_socket was given (buffered, encrypted, with a write time-out):  *)
(* none of the line was sent, part of it, or all of it.                    *)
WriteFails(request) ==
    /\ \/ UNCHANGED <<toPeer, cut, strays>>
       \/ peer # "gone" /\ cut' = TRUE /\ UNCHANGED <<toPeer, strays>>
       \/ peer # "gone" /\ Sends(request) /\ strays' = TRUE
    /\ UNCHANGED <<peer, fromPeer, fits, polls>>

CallRequest  == [op |-> "call", id |-> issued]
CloseRequest == [op |-> "close", id |-> 0]

CallWrite ==
    /\ pc = "write"
    /\ Written(CallRequest)
    /\ pc' = "read"
    /\ UNCHANGED <<framerVars, back, issued, outcome, closed, bounded, addrs, readVars>>

(* A request beyond the buffers is written once the peer reads it.         *)
PeerTakes ==
    /\ pc \in {"write", "closeWrite"} /\ ~fits /\ peer = "serving"
    /\ Sends(IF pc = "write" THEN CallRequest ELSE CloseRequest)
    /\ pc' = IF pc = "write" THEN "read" ELSE "closeRead"
    /\ UNCHANGED <<framerVars, peer, fromPeer, strays, fits, polls, back, issued, outcome,
                   closed, bounded, addrs, readVars>>

(* A write error is returned and not memoized; the session stays open.     *)
CallWriteFails ==
    /\ pc = "write"
    /\ WriteFails(CallRequest)
    /\ Return("io", 0)
    /\ pc' = "idle"
    /\ UNCHANGED <<framerVars, back, issued, closed, bounded, addrs, readVars>>

CallAnswered ==
    /\ pc = "read" /\ GotLine
    /\ Return(IF LastLine.kind = "response" THEN "response" ELSE "bad", LastLine.id)
    /\ pc' = "idle"
    /\ UNCHANGED <<peer, toPeer, linkVars, back, issued, closed, bounded, addrs, terminal>>

(* Memoized by the transport; the session stays open.                      *)
CallFailed ==
    /\ pc = "read"
    /\ \E e \in ReadErrors : GotError(e) /\ terminal' = e
    /\ Return("io", 0)
    /\ pc' = "idle"
    /\ UNCHANGED <<peer, toPeer, linkVars, back, issued, closed, bounded, addrs>>

(* Fault: a time-out is returned like any other read error.                *)
CallTimedOut_StaysOpen ==
    /\ pc = "read" /\ Expired
    /\ Return("timeout", 0)
    /\ pc' = "idle"
    /\ UNCHANGED <<peer, toPeer, linkVars, back, issued, closed, bounded, addrs, terminal>>

(* Fault: a time-out is memoized by read_line and by nobody else.          *)
CallTimedOut_Memoized ==
    /\ pc = "read" /\ Expired
    /\ Return("timeout", 0)
    /\ terminal' = "timeout"
    /\ pc' = "idle"
    /\ UNCHANGED <<peer, toPeer, linkVars, back, issued, closed, bounded, addrs>>

CallTimedOut ==
    /\ pc = "read" /\ Expired
    /\ Return("timeout", 0)
    /\ closed' = TRUE /\ terminal' = "closed"
    /\ pc' = "idle"
    /\ UNCHANGED <<peer, toPeer, linkVars, back, issued, bounded, addrs>>

-----------------------------------------------------------------------------
(* Session::close, and Drop.  SocketTransport::close only sets terminal;   *)
(* the socket itself goes with the Session, when it is dropped.            *)

CloseFrom(b) ==
    /\ pc = "idle" /\ ~closed
    /\ closed' = TRUE
    /\ back' = b
    /\ pc' = "closeWrite"
    /\ UNCHANGED <<framerVars, peerVars, issued, outcome, bounded, addrs, readVars>>

Close == CloseFrom("idle")

Drop ==
    \/ CloseFrom("gone")
    \/ /\ pc = "idle" /\ closed
       /\ pc' = "gone"
       /\ UNCHANGED <<framerVars, peerVars, back, issued, outcome, closed, bounded,
                      addrs, readVars>>

CloseWrite ==
    /\ pc = "closeWrite"
    /\ \/ /\ Written(CloseRequest)
          /\ pc' = "closeRead"
          /\ UNCHANGED readVars
       \/ /\ WriteFails(CloseRequest)
          /\ terminal' = "closed"
          /\ pc' = back
          /\ UNCHANGED <<waiting, left, signals>>
    /\ UNCHANGED <<framerVars, back, issued, outcome, closed, bounded, addrs>>

CloseRead ==
    /\ pc = "closeRead"
    /\ \/ GotLine
       \/ \E e \in ReadErrors : GotError(e)
       \/ Expired
    /\ terminal' = "closed"
    /\ pc' = back
    /\ UNCHANGED <<peer, toPeer, linkVars, back, issued, outcome, closed, bounded, addrs>>

-----------------------------------------------------------------------------
User == SetTimeout \/ CallRefused \/ CallStart \/ Close \/ Drop

OwnerStep ==
    \/ DialConnects \/ DialFails \/ DialGivesUp
    \/ ReadGoesOn \/ HelloAccepted \/ HelloFailed
    \/ CallWrite \/ CallWriteFails \/ CallAnswered \/ CallFailed \/ CallTimedOut
    \/ CloseWrite \/ CloseRead

Next == User \/ OwnerStep \/ PeerTakes \/ PeerStep

Spec == Init /\ [][Next]_vars

(* The owner's thread runs; nothing makes the peer read, answer or vanish. *)
FairSpec == Spec /\ WF_vars(OwnerStep)

-----------------------------------------------------------------------------
(* A line is refused only when more than MaxLineBytes of it have come and  *)
(* no newline, and read_line waits for more of a line only up to there.    *)
LimitHonoured ==
    /\ terminal = "long" => /\ Len(stream) - Taken > MaxLineBytes
                            /\ \A p \in Taken + 1..Len(stream) : ~stream[p].nl
    /\ waiting => Len(stream) - Taken <= MaxLineBytes

(* The framer under this transport, over calls that time out, leave part   *)
(* of a line in it and read on: lines as the peer sent them, every line    *)
(* within the limit, none held beyond it (mod.rs:76-112, socket.rs).       *)
LinesAsSent == FramedAsSent /\ LimitHonoured

(* No read_line, and no dial, outlasts its deadline by more than one poll  *)
(* interval (socket.rs:28-36), even if the peer dribbles byte after byte:  *)
(* provided the stream polls, and no signal interrupts a read (that is     *)
(* retried without a look at the deadline).                                *)
DeadlineHonoured == polls /\ signals = 0 => left >= 0 - 1

Answered == {"response", "bad"}

AbstractPhase ==
    IF closed \/ back = "gone" THEN "closed"
    ELSE IF pc \in {"dial", "hello"} THEN "opening" ELSE "open"

Meaning == [none |-> "new", pending |-> "pending", response |-> "answered",
            bad |-> "answered", io |-> "failed", timeout |-> "failed",
            closed |-> "refused"]

(* Nothing is said of whose answer it is once a request was sent whose     *)
(* caller was told that it failed: the session stays open, and what it     *)
(* reads next may be the response to that one.                             *)
AbstractStatus(o, i) ==
    IF o.kind \in Answered /\ o.re # i /\ ~strays THEN "stale" ELSE Meaning[o.kind]

Connection == INSTANCE SerialConnection WITH
    phase  <- AbstractPhase,
    status <- [i \in Ids |-> AbstractStatus(outcome[i], i)]

(* The socket connection keeps the promise of the direct one: requests in  *)
(* order, one at a time, its own answer or a failure, closed for good.     *)
ImplementsConnection == Connection!Spec

(* A call with a time-out returns, whatever the peer does, if its request  *)
(* fits the socket (a write has no deadline) and the stream polls.         *)
CallReturns == pc \in {"write", "read"} /\ bounded /\ fits /\ polls ~> pc \in {"idle", "gone"}
=============================================================================
