----------------------------- MODULE RustDirect -----------------------------
(***************************************************************************)
(* The Rust driver's direct connection: Session (rust/src/session.rs) over *)
(* DirectTransport (transport/direct.rs) with its ThreadedReader           *)
(* (transport/reader.rs), against the server of module Child.              *)
(*                                                                         *)
(* Three threads run: the owner of the Session (every method takes         *)
(* &mut self, so there is one), the reader thread that frames stdout into  *)
(* lines and hands each over through a channel of one slot, and the stderr *)
(* thread of a StderrSink::Writer.  A deadline has no clock here: a timed  *)
(* wait may expire at any moment the code could find it expired.           *)
(***************************************************************************)
EXTENDS Child

CONSTANT StderrChoices    \* is there a stderr thread: subset of {"none", "running"}

ASSUME StderrAssumption == StderrChoices \subseteq {"none", "running"}

VARIABLES
    \* Session, and where its owner is in the code
    pc,            \* the statement the owner is at
    back,          \* where Transport::close returns to: "idle", or "gone" without a Session
    op,            \* the op of the call in progress
    issued,        \* requests submitted so far; the last one is the one in progress
    outcome,       \* ghost: what each request's caller got
    closed,        \* Session.closed
    bounded,       \* Session.default_timeout.is_some()
    timedOut,      \* ghost: some read_line returned Error::Timeout
    \* DirectTransport
    stdin,         \* self.stdin.is_some()
    exitCode,      \* self.exit_code: "none" or "known"
    stderrThread,  \* self.stderr_thread: "none", "running" or "done" (returned, not joined)
    \* ThreadedReader: the channel, and the reader thread
    reader,        \* self.reader.is_some(): the receiver exists
    slot,          \* the item in the channel
    terminal,      \* the memoized terminal error, or "none"
    thread,        \* the reader thread: "reading", "sending" or "ended"
    held           \* the item the reader thread is sending

sessionVars   == <<pc, back, op, issued, outcome, closed, bounded, timedOut>>
transportVars == <<stdin, exitCode, stderrThread>>
readerVars    == <<reader, slot, terminal, thread, held>>
vars          == <<childVars, sessionVars, transportVars, readerVars>>

Outcomes  == {"none", "pending", "ok", "err", "bad", "io", "timeout", "closed"}

Owner == {"hello", "idle", "write", "flush", "read", "overwritten", "closeWrite",
          "closeFlush", "closeRead", "stdinClosed", "terminated", "killed",
          "joinStderr", "joinReader", "gone"}

SessionTypeOK ==
    /\ pc \in Owner
    /\ back \in {"idle", "gone"}
    /\ op \in {"call", "overwrite"}
    /\ issued \in 0..MaxRequests
    /\ outcome \in [Ids -> [re : 0..MaxRequests, kind : Outcomes]]
    /\ closed \in BOOLEAN /\ bounded \in BOOLEAN /\ timedOut \in BOOLEAN

TransportTypeOK ==
    /\ stdin \in BOOLEAN
    /\ exitCode \in {"none", "known"}
    /\ stderrThread \in {"none", "running", "done"}

ReaderTypeOK ==
    /\ reader \in BOOLEAN
    /\ slot \in Items \cup {NoItem} /\ held \in Items \cup {NoItem}
    /\ terminal \in Terminals \cup {"none"}
    /\ thread \in {"reading", "sending", "ended"}

TypeOK == ChildTypeOK /\ SessionTypeOK /\ TransportTypeOK /\ ReaderTypeOK

(* DirectTransport::start, then Session::new is about to read the hello.   *)
Init ==
    /\ ChildInit
    /\ pc = "hello" /\ back = "idle" /\ op = "call"
    /\ issued = 0
    /\ outcome = [i \in Ids |-> [re |-> 0, kind |-> "none"]]
    /\ closed = FALSE /\ bounded \in BOOLEAN /\ timedOut = FALSE
    /\ stdin = TRUE /\ exitCode = "none"
    /\ stderrThread \in StderrChoices
    /\ reader = TRUE /\ slot = NoItem /\ terminal = "none"
    /\ thread = "reading" /\ held = NoItem

-----------------------------------------------------------------------------
(* The reader thread.  A chunk of several lines is taken a line at a time: *)
(* the rest of the chunk counts as not yet read.                           *)

ThreadRead ==
    /\ thread = "reading"
    /\ \/ /\ fromChild # <<>>
          /\ held' = Head(fromChild)
          /\ fromChild' = Tail(fromChild)
       \/ /\ fromChild = <<>> /\ StdoutEnded
          /\ held' = EofItem
          /\ UNCHANGED fromChild
    /\ thread' = "sending"
    /\ UNCHANGED <<child, toChild, holders, signal, room, reader, slot,
                   terminal, sessionVars, transportVars>>

(* tx.send: waits for the slot, fails once the receiver is dropped.        *)
ThreadSend ==
    /\ thread = "sending"
    /\ \/ /\ reader /\ slot = NoItem
          /\ slot' = held
          /\ thread' = IF held.kind \in Terminals THEN "ended" ELSE "reading"
       \/ /\ ~reader
          /\ thread' = "ended"
          /\ UNCHANGED slot
    /\ held' = NoItem
    /\ UNCHANGED <<reader, terminal, childVars, sessionVars, transportVars>>

(* The stderr thread returns at the end of the child's stderr.             *)
StderrThread ==
    /\ stderrThread = "running" /\ StderrEnded
    /\ stderrThread' = "done"
    /\ UNCHANGED <<stdin, exitCode, childVars, sessionVars, readerVars>>

-----------------------------------------------------------------------------
(* ThreadedReader::read_line: its three ways to return.  (A fourth, the    *)
(* channel disconnected while empty, cannot be: the thread sends a         *)
(* terminal item before it ends as long as the receiver exists.)           *)

GotLine ==
    /\ terminal = "none" /\ slot # NoItem /\ slot.kind \notin Terminals
    /\ slot' = NoItem
    /\ UNCHANGED <<terminal, reader, thread, held>>

GotTerminal ==
    /\ \/ terminal # "none" /\ UNCHANGED terminal
       \/ terminal = "none" /\ slot.kind \in Terminals /\ terminal' = slot.kind
    /\ slot' = NoItem
    /\ UNCHANGED <<reader, thread, held>>

(* Fault: a time-out is memoized, as the terminal errors are.              *)
Expired_Memoized ==
    /\ terminal = "none" /\ slot = NoItem
    /\ timedOut' = TRUE
    /\ terminal' = "timeout"
    /\ UNCHANGED <<reader, slot, thread, held>>

Expired ==
    /\ terminal = "none" /\ slot = NoItem
    /\ timedOut' = TRUE
    /\ UNCHANGED readerVars

(* DirectTransport::write_line fails without stdin, or with EPIPE.         *)
WriteFails == ~stdin \/ child = "dead"

(* Entering DirectTransport::close: returns at once if all is torn down,   *)
(* else drops stdin.                                                       *)
BeginTeardown(b) ==
    /\ back' = b
    /\ stdin' = FALSE
    /\ pc' = IF ~stdin /\ ~reader /\ stderrThread = "none" /\ exitCode = "known"
             THEN b ELSE "stdinClosed"
    /\ UNCHANGED <<exitCode, stderrThread>>

Return(kind, re) == outcome' = [outcome EXCEPT ![issued] = [re |-> re, kind |-> kind]]

-----------------------------------------------------------------------------
(* Session::new.                                                           *)

HelloAccepted ==
    /\ pc = "hello" /\ GotLine /\ slot.kind = "hello"
    /\ pc' = "idle"
    /\ UNCHANGED <<back, op, issued, outcome, closed, bounded, timedOut,
                   childVars, transportVars>>

(* No line, not a hello, or another protocol: the transport is closed and  *)
(* there is no Session.                                                    *)
HelloFailed ==
    /\ pc = "hello"
    /\ \/ GotLine /\ slot.kind # "hello" /\ UNCHANGED timedOut
       \/ GotTerminal /\ UNCHANGED timedOut
       \/ bounded /\ Expired
    /\ BeginTeardown("gone")
    /\ UNCHANGED <<op, issued, outcome, closed, bounded, childVars>>

-----------------------------------------------------------------------------
(* Session::call, for every op, and Client::overwrite on top of it.        *)

SetTimeout ==
    /\ pc = "idle"
    /\ bounded' = ~bounded
    /\ UNCHANGED <<pc, back, op, issued, outcome, closed, timedOut,
                   childVars, transportVars, readerVars>>

CallRefused ==
    /\ pc = "idle" /\ closed /\ issued < MaxRequests
    /\ issued' = issued + 1
    /\ outcome' = [outcome EXCEPT ![issued + 1] = [re |-> 0, kind |-> "closed"]]
    /\ UNCHANGED <<pc, back, op, closed, bounded, timedOut,
                   childVars, transportVars, readerVars>>

(* Fault: call does not look at self.closed.                               *)
CallStart_ClosedUnchecked ==
    /\ pc = "idle" /\ issued < MaxRequests
    /\ issued' = issued + 1
    /\ outcome' = [outcome EXCEPT ![issued + 1] = [re |-> 0, kind |-> "pending"]]
    /\ op' \in {"call", "overwrite"}
    /\ pc' = "write"
    /\ UNCHANGED <<back, closed, bounded, timedOut,
                   childVars, transportVars, readerVars>>

CallStart ==
    /\ pc = "idle" /\ ~closed /\ issued < MaxRequests
    /\ issued' = issued + 1
    /\ outcome' = [outcome EXCEPT ![issued + 1] = [re |-> 0, kind |-> "pending"]]
    /\ op' \in {"call", "overwrite"}
    /\ pc' = "write"
    /\ UNCHANGED <<back, closed, bounded, timedOut,
                   childVars, transportVars, readerVars>>

CallWrite ==
    /\ pc = "write"
    /\ IF WriteFails
       THEN /\ Return("io", 0)
            /\ pc' = "idle"
            /\ UNCHANGED toChild
       ELSE /\ toChild' = Append(toChild, [op |-> op, id |-> issued])
            /\ pc' = "flush"
            /\ UNCHANGED outcome
    /\ UNCHANGED <<back, op, issued, closed, bounded, timedOut,
                   child, fromChild, holders, signal, room, transportVars, readerVars>>

(* write_all and flush return once the pipe has taken all of the line.     *)
CallFlush ==
    /\ pc = "flush"
    /\ \/ /\ Len(toChild) <= room
          /\ pc' = "read"
          /\ UNCHANGED outcome
       \/ /\ Len(toChild) > room /\ child = "dead"
          /\ Return("io", 0)
          /\ pc' = "idle"
    /\ UNCHANGED <<back, op, issued, closed, bounded, timedOut,
                   childVars, transportVars, readerVars>>

(* decode_response_line and response_error: anything but a response is an  *)
(* Error::Protocol, and the session stays open.                            *)
Decoded(line) == IF line.kind \in {"ok", "err"} THEN line.kind ELSE "bad"

CallAnswered ==
    /\ pc = "read" /\ GotLine
    /\ Return(Decoded(slot), slot.id)
    /\ pc' = IF op = "overwrite" /\ slot.kind = "ok" THEN "overwritten" ELSE "idle"
    /\ UNCHANGED <<back, op, issued, closed, bounded, timedOut,
                   childVars, transportVars>>

(* A read error other than a time-out leaves the session open.             *)
CallFailed ==
    /\ pc = "read" /\ GotTerminal
    /\ Return("io", 0)
    /\ pc' = "idle"
    /\ UNCHANGED <<back, op, issued, closed, bounded, timedOut,
                   childVars, transportVars>>

(* Fault: a time-out is returned like any other read error.                *)
CallTimedOut_StaysOpen ==
    /\ pc = "read" /\ bounded /\ Expired
    /\ Return("timeout", 0)
    /\ pc' = "idle"
    /\ UNCHANGED <<back, op, issued, closed, bounded, childVars, transportVars>>

(* Fault: the session is marked closed, its transport is not torn down.    *)
CallTimedOut_NoTeardown ==
    /\ pc = "read" /\ bounded /\ Expired
    /\ Return("timeout", 0)
    /\ closed' = TRUE
    /\ pc' = "idle"
    /\ UNCHANGED <<back, op, issued, bounded, childVars, transportVars>>

CallTimedOut ==
    /\ pc = "read" /\ bounded /\ Expired
    /\ Return("timeout", 0)
    /\ closed' = TRUE
    /\ BeginTeardown("idle")
    /\ UNCHANGED <<op, issued, bounded, childVars>>

-----------------------------------------------------------------------------
(* Session::close, and Drop which calls it.                                *)

CloseFrom(p, b) ==
    /\ pc = p /\ ~closed
    /\ closed' = TRUE
    /\ back' = b
    /\ pc' = "closeWrite"
    /\ UNCHANGED <<op, issued, outcome, bounded, timedOut,
                   childVars, transportVars, readerVars>>

Close          == CloseFrom("idle", "idle")
OverwriteClose == CloseFrom("overwritten", "idle")

Drop ==
    \/ CloseFrom("idle", "gone")
    \/ /\ pc = "idle" /\ closed
       /\ pc' = "gone"
       /\ UNCHANGED <<back, op, issued, outcome, closed, bounded, timedOut,
                      childVars, transportVars, readerVars>>

CloseWrite ==
    /\ pc = "closeWrite"
    /\ IF WriteFails
       THEN BeginTeardown(back) /\ UNCHANGED toChild
       ELSE /\ toChild' = Append(toChild, CloseRequest)
            /\ pc' = "closeFlush"
            /\ UNCHANGED <<back, transportVars>>
    /\ UNCHANGED <<op, issued, outcome, closed, bounded, timedOut,
                   child, fromChild, holders, signal, room, readerVars>>

(* Fault: the response to the close op is not read.                        *)
CloseFlush_NoRead ==
    /\ pc = "closeFlush"
    /\ Len(toChild) <= room \/ child = "dead"
    /\ BeginTeardown(back)
    /\ UNCHANGED <<op, issued, outcome, closed, bounded, timedOut,
                   childVars, readerVars>>

CloseFlush ==
    /\ pc = "closeFlush"
    /\ \/ /\ Len(toChild) <= room
          /\ pc' = "closeRead"
          /\ UNCHANGED <<back, transportVars>>
       \/ /\ Len(toChild) > room /\ child = "dead"
          /\ BeginTeardown(back)
    /\ UNCHANGED <<op, issued, outcome, closed, bounded, timedOut,
                   childVars, readerVars>>

(* The response is read and discarded, for at most CLOSE_TIMEOUT.          *)
CloseRead ==
    /\ pc = "closeRead"
    /\ \/ GotLine /\ UNCHANGED timedOut
       \/ GotTerminal /\ UNCHANGED timedOut
       \/ Expired
    /\ BeginTeardown(back)
    /\ UNCHANGED <<op, issued, outcome, closed, bounded, childVars>>

-----------------------------------------------------------------------------
(* DirectTransport::close: wait, SIGTERM, wait, SIGKILL, wait, then join   *)
(* the stderr thread and the reader thread.                                *)

(* Fault: the status a wait returned is not kept, the stages go on.        *)
Reaped_StatusForgotten ==
    /\ child = "dead"
    /\ \/ pc = "stdinClosed" /\ pc' = pc
       \/ pc = "terminated"  /\ pc' = pc
       \/ pc = "killed"      /\ pc' = "joinStderr"
    /\ exitCode' = "known"
    /\ UNCHANGED <<back, op, issued, outcome, closed, bounded, timedOut,
                   stdin, stderrThread, childVars, readerVars>>

Reaped ==
    /\ pc \in {"stdinClosed", "terminated", "killed"}
    /\ child = "dead"
    /\ exitCode' = "known"
    /\ pc' = "joinStderr"
    /\ UNCHANGED <<back, op, issued, outcome, closed, bounded, timedOut,
                   stdin, stderrThread, childVars, readerVars>>

Signal(from, sig, to) ==
    /\ pc = from
    /\ signal' = sig
    /\ pc' = to
    /\ UNCHANGED <<back, op, issued, outcome, closed, bounded, timedOut, child,
                   toChild, fromChild, holders, room, transportVars, readerVars>>

(* wait_bounded ran to its deadline.                                       *)
Terminate == Signal("stdinClosed", "term", "terminated")

(* Fault: no SIGKILL stage after SIGTERM.                                  *)
Kill_Missing == FALSE

Kill == Signal("terminated", "kill", "killed")

(* join() on the stderr thread has no deadline.                            *)
JoinStderr ==
    /\ pc = "joinStderr" /\ stderrThread # "running"
    /\ stderrThread' = "none"
    /\ pc' = "joinReader"
    /\ UNCHANGED <<back, op, issued, outcome, closed, bounded, timedOut,
                   stdin, exitCode, childVars, readerVars>>

(* Fault: the receiver outlives the close (as_mut where the code has take).*)
JoinReader_ReceiverKept ==
    /\ pc = "joinReader"
    /\ pc' = back
    /\ UNCHANGED <<back, op, issued, outcome, closed, bounded, timedOut,
                   childVars, transportVars, readerVars>>

(* ThreadedReader::join ends with the thread or gives up at its deadline;  *)
(* either way the receiver is dropped, with what the channel holds.        *)
JoinReader ==
    /\ pc = "joinReader"
    /\ reader' = FALSE
    /\ slot' = NoItem
    /\ pc' = back
    /\ UNCHANGED <<back, op, issued, outcome, closed, bounded, timedOut, terminal,
                   thread, held, childVars, transportVars>>

-----------------------------------------------------------------------------
(* What the user of the connection chooses to do, and what the owner's     *)
(* thread then goes through by itself.                                     *)
User == SetTimeout \/ CallRefused \/ CallStart \/ Close \/ Drop

OwnerStep ==
    \/ HelloAccepted \/ HelloFailed
    \/ CallWrite \/ CallFlush \/ CallAnswered \/ CallFailed \/ CallTimedOut
    \/ OverwriteClose \/ CloseWrite \/ CloseFlush \/ CloseRead
    \/ Terminate \/ Kill \/ Reaped \/ JoinStderr \/ JoinReader

ThreadStep == ThreadRead \/ ThreadSend

ChildStep ==
    /\ ChildNext
    /\ UNCHANGED <<sessionVars, transportVars, readerVars>>

Next == User \/ OwnerStep \/ ThreadStep \/ StderrThread \/ ChildStep

Spec == Init /\ [][Next]_vars

(* The scheduler runs every thread that can run, and the kernel delivers   *)
(* SIGKILL.  Nothing makes the server answer or exit, the user call, or a  *)
(* grandchild let go of a pipe.                                            *)
Fairness ==
    /\ WF_vars(OwnerStep)
    /\ WF_vars(ThreadStep)
    /\ WF_vars(StderrThread)
    /\ WF_vars(ChildKilled /\ UNCHANGED <<sessionVars, transportVars, readerVars>>)

FairSpec == Spec /\ Fairness

-----------------------------------------------------------------------------
(* Safety.                                                                 *)

(* Responses carry no id: whatever time-outs, deaths, malformed lines and  *)
(* closes came before, a caller that gets a response (an answer, an error  *)
(* or an undecodable line) gets the one to its own request.                *)
OwnAnswer == \A i \in Ids : outcome[i].kind \in Answered => outcome[i].re = i

(* A session that is closed, or never came to be, and is not in the middle *)
(* of close has left nothing behind: the child is reaped, its exit code    *)
(* kept, its stdin closed, the stderr thread joined and the receiver gone  *)
(* (so that a reader thread parked on the channel is let go).              *)
AtRest == pc = "gone" \/ (pc = "idle" /\ closed)
ReleasedAtRest ==
    AtRest => ~stdin /\ exitCode = "known" /\ stderrThread = "none" /\ ~reader

(* close reads the response to its close op so that the reader thread is   *)
(* not parked on a full channel when it is joined: without a time-out, a   *)
(* reader thread about to be joined has no line left to deliver.           *)
NoLine(item) == item.kind \in Terminals \cup {"none"}
ReaderNotParked ==
    pc = "joinReader" /\ ~timedOut =>
        \/ thread = "ended"
        \/ slot = NoItem /\ NoLine(held) /\ fromChild = <<>>

(* A pid is signalled only while the child is unreaped (signal.rs: after   *)
(* that the pid may be another process), and SIGKILL only after SIGTERM.   *)
SignalsUnreapedInOrder ==
    [][signal' # signal => /\ exitCode = "none"
                           /\ signal' = (IF signal = "none" THEN "term" ELSE "kill")]_vars

-----------------------------------------------------------------------------
(* The promise to callers, on this module's state.  An answer that is not  *)
(* the request's own is "stale", a status the abstract connection lacks.   *)

AbstractPhase ==
    IF closed \/ back = "gone" THEN "closed"
    ELSE IF pc = "hello" THEN "opening" ELSE "open"

Meaning == [none |-> "new", pending |-> "pending", ok |-> "answered",
            err |-> "answered", bad |-> "answered", io |-> "failed",
            timeout |-> "failed", closed |-> "refused"]

AbstractStatus(o, i) ==
    IF o.kind \in Answered /\ o.re # i THEN "stale" ELSE Meaning[o.kind]

Connection == INSTANCE SerialConnection WITH
    phase  <- AbstractPhase,
    status <- [i \in Ids |-> AbstractStatus(outcome[i], i)]

(* The session implements the serial connection: one request at a time in  *)
(* order, its own answer or a failure, refusal for good once closed.       *)
ImplementsConnection == Connection!Spec

-----------------------------------------------------------------------------
(* Liveness, under FairSpec.                                               *)

StderrWillEnd == stderrThread = "none" \/ "stderr" \notin holders
PipeTakesAll  == room > MaxRequests

(* A call with a time-out returns even if the server never answers, reads  *)
(* or dies: the teardown a time-out starts ends, provided requests fit the *)
(* stdin pipe (a write has no deadline) and no grandchild holds the stderr *)
(* that a StderrSink::Writer drains (its thread is joined without one).    *)
CallReturns ==
    pc \in {"write", "flush", "read"} /\ bounded /\ PipeTakesAll /\ StderrWillEnd
        ~> pc \in {"idle", "gone"}

(* close, and a failed Session::new, return under the same provisos.       *)
CloseReturns ==
    pc \in {"closeWrite", "stdinClosed"} /\ PipeTakesAll /\ StderrWillEnd
        ~> pc \in {"idle", "gone"}

(* Both: the owner gets the session back (session.rs:82-106, 170-202).     *)
CallAndCloseReturn == CallReturns /\ CloseReturns

(* After a close the reader thread ends by itself, parked on the channel   *)
(* or not when it was joined, unless a grandchild keeps stdout open.       *)
ReaderThreadEnds == AtRest /\ "stdout" \notin holders ~> thread = "ended"
=============================================================================
