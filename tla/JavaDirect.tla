----------------------------- MODULE JavaDirect -----------------------------
(***************************************************************************)
(* The Java driver's direct connection: Session.java under SanDbOxClient,  *)
(* over DirectTransport.java with its ReaderThread.java, against the       *)
(* server of module Child.                                                 *)
(*                                                                         *)
(* Any thread may call; Session.lock is held for the whole of a call and   *)
(* of a close, so the statements of the one thread that holds it are all   *)
(* there is to model, beside the reader thread and the stderr thread.      *)
(* Threads may be interrupted: every wait of the driver looks at the       *)
(* interrupt status, and every handler sets it again.                      *)
(***************************************************************************)
EXTENDS Child

CONSTANTS Callers,         \* the threads that use the connection
          StderrChoices,   \* is there a stderr thread: subset of {"none", "running"}
          MaxInterrupts    \* bound: how many times a thread is interrupted

ASSUME CallersAssumption   == Callers \cap {"open", "free"} = {}
ASSUME StderrAssumption    == StderrChoices \subseteq {"none", "running"}
ASSUME InterruptAssumption == MaxInterrupts \in Nat

VARIABLES
    \* Session
    owner,         \* Session.lock: who holds it; "open" is the constructor, "free" nobody
    pc,            \* the statement the owner is at
    op,            \* the op of the call in progress
    owes,          \* callers between the overwrite op and the close of overwrite()
    issued,        \* calls that took the lock so far; the last one may be in progress
    outcome,       \* ghost: what each call ended with
    closed,        \* Session.closed
    bounded,       \* Session.timeout is not null
    \* interrupts
    flags,         \* the threads whose interrupt status is set
    left,          \* how many interrupts are still to come
    gaveUp,        \* ghost: what waits were given up, see Waits
    \* DirectTransport
    torn,          \* DirectTransport.closed
    stdin,         \* stdin is not null
    exitCode,      \* "none" or "known"
    stderrThread,  \* "none", "running" or "ended"
    \* ReaderThread
    reader,        \* DirectTransport.reader is not null
    slot,          \* the item in the queue
    terminal,      \* the memoized terminal error, or "none"
    thread,        \* the reader thread: "reading", "putting" or "ended"
    held           \* the item the reader thread is putting

lockVars      == <<owner, pc, owes>>
sessionVars   == <<lockVars, op, issued, outcome, closed, bounded>>
flagVars      == <<flags, left>>
transportVars == <<torn, stdin, exitCode, stderrThread>>
readerVars    == <<reader, slot, terminal, thread, held>>
vars == <<childVars, sessionVars, flagVars, gaveUp, transportVars, readerVars>>

Outcomes == {"none", "pending", "io", "timeout", "closed"} \cup Answered
Calling  == {"write", "flush", "read"}
(* A read at its deadline or at an interrupt, the join of the stderr       *)
(* thread at an interrupt.                                                 *)
Waits    == {"timeout", "interrupt", "join"}
Labels   == Calling \cup {"hello", "unlocked", "closeWrite", "closeFlush", "closeRead",
               "stdinClosed", "terminated", "killed", "joinStderr", "joinReader", "gone"}

TypeOK ==
    /\ ChildTypeOK
    /\ owner \in Callers \cup {"open", "free"} /\ pc \in Labels
    /\ op \in {"call", "overwrite"} /\ owes \subseteq Callers
    /\ issued \in 0..MaxRequests
    /\ outcome \in [Ids -> [re : 0..MaxRequests, kind : Outcomes]]
    /\ closed \in BOOLEAN /\ bounded \in BOOLEAN
    /\ flags \subseteq Callers \cup {"open"} /\ left \in 0..MaxInterrupts
    /\ gaveUp \subseteq Waits
    /\ torn \in BOOLEAN /\ stdin \in BOOLEAN /\ exitCode \in {"none", "known"}
    /\ stderrThread \in {"none", "running", "ended"}
    /\ reader \in BOOLEAN
    /\ slot \in Items \cup {NoItem} /\ held \in Items \cup {NoItem}
    /\ terminal \in Terminals \cup {"none"}
    /\ thread \in {"reading", "putting", "ended"}

(* DirectTransport.start has returned, the constructor of Session is about *)
(* to read the hello.                                                      *)
Init ==
    /\ ChildInit
    /\ owner = "open" /\ pc = "hello" /\ op = "call" /\ owes = {}
    /\ issued = 0 /\ outcome = [i \in Ids |-> [re |-> 0, kind |-> "none"]]
    /\ closed = FALSE /\ bounded \in BOOLEAN
    /\ flags = {} /\ left \in 0..MaxInterrupts /\ gaveUp = {}
    /\ torn = FALSE /\ stdin = TRUE /\ exitCode = "none"
    /\ stderrThread \in StderrChoices
    /\ reader = TRUE /\ slot = NoItem /\ terminal = "none"
    /\ thread = "reading" /\ held = NoItem

-----------------------------------------------------------------------------
(* ReaderThread.runLoop, a line of a chunk at a time.                      *)

ThreadRead ==
    /\ thread = "reading"
    /\ \/ /\ fromChild # <<>>
          /\ held' = Head(fromChild) /\ fromChild' = Tail(fromChild)
       \/ /\ fromChild = <<>> /\ StdoutEnded
          /\ held' = EofItem /\ UNCHANGED fromChild
    /\ thread' = "putting"
    /\ UNCHANGED <<child, toChild, holders, signal, room, reader, slot, terminal,
                   sessionVars, flagVars, gaveUp, transportVars>>

(* queue.put: waits for room, for good once nobody takes any more.         *)
ThreadPut ==
    /\ thread = "putting" /\ slot = NoItem
    /\ slot' = held
    /\ thread' = IF held.kind \in Terminals THEN "ended" ELSE "reading"
    /\ held' = NoItem
    /\ UNCHANGED <<reader, terminal, childVars, sessionVars, flagVars, gaveUp,
                   transportVars>>

(* drainStderr returns at the end of the child's stderr.                   *)
StderrThread ==
    /\ stderrThread = "running" /\ StderrEnded
    /\ stderrThread' = "ended"
    /\ UNCHANGED <<torn, stdin, exitCode, childVars, sessionVars, flagVars, gaveUp,
                   readerVars>>

-----------------------------------------------------------------------------
(* ReaderThread.readLine: its four ways to return.  The queue throws at    *)
(* once, with an item in it or not, if the thread's status is set.         *)
Interrupted == owner \in flags

GotLine ==
    /\ terminal = "none" /\ ~Interrupted
    /\ slot # NoItem /\ slot.kind \notin Terminals
    /\ slot' = NoItem
    /\ UNCHANGED <<terminal, reader, thread, held, gaveUp>>

GotTerminal ==
    /\ \/ terminal # "none" /\ UNCHANGED <<terminal, slot>>
       \/ /\ terminal = "none" /\ ~Interrupted /\ slot.kind \in Terminals
          /\ terminal' = slot.kind /\ slot' = NoItem
    /\ UNCHANGED <<reader, thread, held, gaveUp>>

(* Fault: every error is memoized, not only the terminal ones.             *)
GaveUp_Memoized(why) ==
    /\ terminal = "none"
    /\ terminal' = why
    /\ gaveUp' = gaveUp \cup {why}
    /\ UNCHANGED <<reader, slot, thread, held>>

GaveUp(why) ==
    /\ terminal = "none"
    /\ gaveUp' = gaveUp \cup {why}
    /\ UNCHANGED readerVars

Expired         == ~Interrupted /\ slot = NoItem /\ GaveUp("timeout")
ReadInterrupted == Interrupted /\ GaveUp("interrupt")

WriteFails == ~stdin \/ child = "dead"

(* The lock is let go, and with it the locals of the call.                 *)
Unlock ==
    /\ owner' = "free" /\ op' = "call"
    /\ pc' = IF owner = "open" THEN "gone" ELSE "unlocked"

(* Entering DirectTransport.close.                                         *)
BeginTeardown ==
    /\ torn' = TRUE
    /\ IF torn THEN Unlock /\ UNCHANGED stdin
       ELSE stdin' = FALSE /\ pc' = "stdinClosed" /\ UNCHANGED <<owner, op>>
    /\ UNCHANGED <<exitCode, stderrThread>>

Return(kind, re) == outcome' = [outcome EXCEPT ![issued] = [re |-> re, kind |-> kind]]

-----------------------------------------------------------------------------
(* The constructor of Session.                                             *)

HelloAccepted ==
    /\ pc = "hello" /\ GotLine /\ slot.kind = "hello"
    /\ owner' = "free" /\ pc' = "unlocked"
    /\ UNCHANGED <<op, owes, issued, outcome, closed, bounded, flagVars,
                   childVars, transportVars>>

HelloFailed ==
    /\ pc = "hello"
    /\ \/ GotLine /\ slot.kind # "hello"
       \/ GotTerminal
       \/ bounded /\ Expired
       \/ ReadInterrupted
    /\ BeginTeardown
    /\ UNCHANGED <<owes, issued, outcome, closed, bounded, flagVars, childVars>>

-----------------------------------------------------------------------------
(* Session.setTimeout and Session.call.                                    *)

Free == owner = "free" /\ pc = "unlocked"

SetTimeout ==
    /\ Free
    /\ bounded' = ~bounded
    /\ UNCHANGED <<lockVars, op, issued, outcome, closed, flagVars, gaveUp,
                   childVars, transportVars, readerVars>>

CallRefused(c) ==
    /\ Free /\ c \notin owes /\ closed /\ issued < MaxRequests
    /\ issued' = issued + 1
    /\ outcome' = [outcome EXCEPT ![issued + 1] = [re |-> 0, kind |-> "closed"]]
    /\ UNCHANGED <<lockVars, op, closed, bounded, flagVars, gaveUp,
                   childVars, transportVars, readerVars>>

Admit(c) ==
    /\ Free /\ c \notin owes /\ issued < MaxRequests
    /\ issued' = issued + 1
    /\ outcome' = [outcome EXCEPT ![issued + 1] = [re |-> 0, kind |-> "pending"]]
    /\ op' \in {"call", "overwrite"}
    /\ owner' = c /\ pc' = "write"
    /\ UNCHANGED <<owes, closed, bounded, flagVars, gaveUp,
                   childVars, transportVars, readerVars>>

(* Fault: call does not look at closed.                                    *)
CallStart_ClosedUnchecked(c) == Admit(c)

CallStart(c) == ~closed /\ Admit(c)

CallWrite ==
    /\ pc = "write"
    /\ IF WriteFails
       THEN Return("io", 0) /\ Unlock /\ UNCHANGED toChild
       ELSE /\ toChild' = Append(toChild, [op |-> op, id |-> issued])
            /\ pc' = "flush"
            /\ UNCHANGED <<owner, op, outcome>>
    /\ UNCHANGED <<owes, issued, closed, bounded, child, fromChild, holders, signal,
                   room, flagVars, gaveUp, transportVars, readerVars>>

CallFlush ==
    /\ pc = "flush"
    /\ \/ Len(toChild) <= room /\ pc' = "read" /\ UNCHANGED <<owner, op, outcome>>
       \/ Len(toChild) > room /\ child = "dead" /\ Return("io", 0) /\ Unlock
    /\ UNCHANGED <<owes, issued, closed, bounded, flagVars, gaveUp,
                   childVars, transportVars, readerVars>>

(* Decode.responseLine and Decode.error.                                   *)
Decoded(line) == IF line.kind \in {"ok", "err"} THEN line.kind ELSE "bad"

(* With its answer, overwrite() goes on to close the session.              *)
CallAnswered ==
    /\ pc = "read" /\ GotLine
    /\ Return(Decoded(slot), slot.id)
    /\ owes' = IF op = "overwrite" /\ slot.kind = "ok" THEN owes \cup {owner} ELSE owes
    /\ Unlock
    /\ UNCHANGED <<issued, closed, bounded, flagVars, childVars, transportVars>>

(* Any error but a time-out, an interrupt too, leaves the session open.    *)
CallFailed ==
    /\ pc = "read"
    /\ GotTerminal \/ ReadInterrupted
    /\ Return("io", 0)
    /\ Unlock
    /\ UNCHANGED <<owes, issued, closed, bounded, flagVars, childVars, transportVars>>

(* Fault: a time-out is returned like any other error.                     *)
CallTimedOut_StaysOpen ==
    /\ pc = "read" /\ bounded /\ Expired
    /\ Return("timeout", 0)
    /\ Unlock
    /\ UNCHANGED <<owes, issued, closed, bounded, flagVars, childVars, transportVars>>

(* Fault: readLine waits without its deadline.                             *)
CallTimedOut_Never == FALSE

CallTimedOut ==
    /\ pc = "read" /\ bounded /\ Expired
    /\ Return("timeout", 0)
    /\ closed' = TRUE
    /\ BeginTeardown
    /\ UNCHANGED <<owes, issued, bounded, flagVars, childVars>>

-----------------------------------------------------------------------------
(* Session.close, by a caller or at the end of overwrite().  It returns at *)
(* once from a closed session.                                             *)

CloseStart(c) ==
    /\ Free /\ ~closed
    /\ closed' = TRUE
    /\ owner' = c /\ pc' = "closeWrite"
    /\ owes' = owes \ {c}
    /\ UNCHANGED <<op, issued, outcome, bounded, flagVars, gaveUp,
                   childVars, transportVars, readerVars>>

Close(c) == c \notin owes /\ CloseStart(c)

OverwriteClose(c) ==
    /\ c \in owes
    /\ \/ CloseStart(c)
       \/ /\ Free /\ closed
          /\ owes' = owes \ {c}
          /\ UNCHANGED <<owner, pc, op, issued, outcome, closed, bounded, flagVars, gaveUp,
                         childVars, transportVars, readerVars>>

CloseWrite ==
    /\ pc = "closeWrite"
    /\ IF WriteFails
       THEN BeginTeardown /\ UNCHANGED toChild
       ELSE /\ toChild' = Append(toChild, CloseRequest)
            /\ pc' = "closeFlush"
            /\ UNCHANGED <<owner, op, transportVars>>
    /\ UNCHANGED <<owes, issued, outcome, closed, bounded, child, fromChild, holders,
                   signal, room, flagVars, gaveUp, readerVars>>

(* Fault: the response to the close op is not read.                        *)
CloseFlush_NoRead ==
    /\ pc = "closeFlush"
    /\ Len(toChild) <= room \/ child = "dead"
    /\ BeginTeardown
    /\ UNCHANGED <<owes, issued, outcome, closed, bounded, flagVars, gaveUp,
                   childVars, readerVars>>

CloseFlush ==
    /\ pc = "closeFlush"
    /\ \/ Len(toChild) <= room /\ pc' = "closeRead" /\ UNCHANGED <<owner, op, transportVars>>
       \/ Len(toChild) > room /\ child = "dead" /\ BeginTeardown
    /\ UNCHANGED <<owes, issued, outcome, closed, bounded, flagVars, gaveUp,
                   childVars, readerVars>>

(* The response is read and discarded, for at most CLOSE_TIMEOUT.          *)
CloseRead ==
    /\ pc = "closeRead"
    /\ GotLine \/ GotTerminal \/ Expired \/ ReadInterrupted
    /\ BeginTeardown
    /\ UNCHANGED <<owes, issued, outcome, closed, bounded, flagVars, childVars>>

-----------------------------------------------------------------------------
(* DirectTransport.close.                                                  *)

(* Fault: the wait after SIGKILL gives up on an interrupt, as the other    *)
(* two do (waitBounded where the code has waitForever).                    *)
Reaped_KillInterrupted ==
    /\ pc \in {"stdinClosed", "terminated", "killed"}
    /\ \/ child = "dead" /\ exitCode' = "known"
       \/ pc = "killed" /\ Interrupted /\ UNCHANGED exitCode
    /\ pc' = "joinStderr"
    /\ UNCHANGED <<owner, owes, op, issued, outcome, closed, bounded, flagVars, gaveUp,
                   torn, stdin, stderrThread, childVars, readerVars>>

(* waitBounded returned a status, or waitForever after SIGKILL.            *)
Reaped ==
    /\ pc \in {"stdinClosed", "terminated", "killed"}
    /\ child = "dead"
    /\ exitCode' = "known"
    /\ pc' = "joinStderr"
    /\ UNCHANGED <<owner, owes, op, issued, outcome, closed, bounded, flagVars, gaveUp,
                   torn, stdin, stderrThread, childVars, readerVars>>

(* waitBounded returned null: its deadline, or an interrupt.               *)
Signal(from, sig, to) ==
    /\ pc = from
    /\ signal' = sig
    /\ pc' = to
    /\ UNCHANGED <<owner, owes, op, issued, outcome, closed, bounded, flagVars, gaveUp,
                   child, toChild, fromChild, holders, room, transportVars, readerVars>>

Terminate == Signal("stdinClosed", "term", "terminated")

Kill == Signal("terminated", "kill", "killed")

(* join() on the stderr thread has no deadline; an interrupt ends it.      *)
JoinStderr ==
    /\ pc = "joinStderr"
    /\ \/ stderrThread # "running" /\ UNCHANGED gaveUp
       \/ stderrThread = "running" /\ Interrupted /\ gaveUp' = gaveUp \cup {"join"}
    /\ pc' = "joinReader"
    /\ UNCHANGED <<owner, owes, op, issued, outcome, closed, bounded, flagVars,
                   childVars, transportVars, readerVars>>

(* ReaderThread.join returns, whatever the thread does; the queue and what *)
(* is in it stay the thread's.                                             *)
JoinReader ==
    /\ pc = "joinReader"
    /\ reader' = FALSE
    /\ Unlock
    /\ UNCHANGED <<owes, issued, outcome, closed, bounded, flagVars, gaveUp, slot,
                   terminal, thread, held, childVars, transportVars>>

-----------------------------------------------------------------------------
(* Interrupts come from outside the driver.  One that finds a thread       *)
(* outside of a call, or waiting for the lock, is as good as one that      *)
(* comes when it has the lock: nothing looks at the status before.         *)

Interrupt ==
    /\ owner # "free" /\ owner \notin flags /\ left > 0
    /\ flags' = flags \cup {owner}
    /\ left' = left - 1
    /\ UNCHANGED <<gaveUp, childVars, sessionVars, transportVars, readerVars>>

(* The user's code catches the error and resets the status.                *)
UserClears(c) ==
    /\ c \in flags /\ c # owner /\ c \notin owes
    /\ flags' = flags \ {c}
    /\ UNCHANGED <<left, gaveUp, childVars, sessionVars, transportVars, readerVars>>

User(c) == CallRefused(c) \/ CallStart(c) \/ Close(c) \/ UserClears(c)

OwnerStep ==
    \/ HelloAccepted \/ HelloFailed
    \/ CallWrite \/ CallFlush \/ CallAnswered \/ CallFailed \/ CallTimedOut
    \/ CloseWrite \/ CloseFlush \/ CloseRead
    \/ Terminate \/ Kill \/ Reaped \/ JoinStderr \/ JoinReader

ThreadStep == ThreadRead \/ ThreadPut

ChildStep ==
    /\ ChildNext
    /\ UNCHANGED <<sessionVars, flagVars, gaveUp, transportVars, readerVars>>

Next ==
    \/ SetTimeout
    \/ \E c \in Callers : User(c) \/ OverwriteClose(c)
    \/ OwnerStep \/ ThreadStep \/ StderrThread \/ Interrupt \/ ChildStep

Spec == Init /\ [][Next]_vars

(* Every thread that can run does, and the kernel delivers SIGKILL.        *)
Fairness ==
    /\ WF_vars(OwnerStep)
    /\ WF_vars(ThreadStep) /\ WF_vars(StderrThread)
    /\ WF_vars(ChildKilled
                /\ UNCHANGED <<sessionVars, flagVars, gaveUp, transportVars, readerVars>>)

FairSpec == Spec /\ Fairness

-----------------------------------------------------------------------------
(* Safety.                                                                 *)

(* Session.java:184-189: after any error but a time-out the session stays  *)
(* open because "the transport's own terminal-error memoization already    *)
(* makes it return the same error on every subsequent call", so that a     *)
(* caller gets the response to its own request or none.                    *)
OwnAnswer == \A i \in Ids : outcome[i].kind \in Answered => outcome[i].re = i

(* It does as long as no read was interrupted, whatever threads call and   *)
(* whatever timed out, died, was malformed or closed.                      *)
OwnAnswerUninterrupted == "interrupt" \notin gaveUp => OwnAnswer

(* No call or close is running, and the session is closed or never was.    *)
AtRest == pc = "gone" \/ (Free /\ closed)

(* It left nothing behind, interrupts or not: the child is reaped and its  *)
(* exit code kept, the pipe to it closed, the reader given up; only an     *)
(* interrupt can leave the stderr thread running.                          *)
ReleasedAtRest ==
    AtRest => /\ exitCode = "known" /\ ~stdin /\ ~reader
              /\ stderrThread = "running" => "join" \in gaveUp

-----------------------------------------------------------------------------
(* The promise to callers, with a foreign answer counted as an answer:     *)
(* what OwnAnswer says is left out here.                                   *)

AbstractPhase ==
    IF owner = "open" /\ pc = "hello" THEN "opening"
    ELSE IF closed \/ owner = "open" \/ pc = "gone" THEN "closed" ELSE "open"

Meaning == [none |-> "new", pending |-> "pending", ok |-> "answered",
            err |-> "answered", bad |-> "answered", io |-> "failed",
            timeout |-> "failed", closed |-> "refused"]

Connection == INSTANCE SerialConnection WITH
    phase  <- AbstractPhase,
    status <- [i \in Ids |-> Meaning[outcome[i].kind]]

(* Interrupted or not, any number of threads see one serial connection: a  *)
(* request at a time in the order of the lock, refusal once closed.        *)
ImplementsConnection == Connection!Spec

-----------------------------------------------------------------------------
(* Liveness, under FairSpec.                                               *)

StderrWillEnd == stderrThread = "none" \/ "stderr" \notin holders
PipeTakesAll  == room > MaxRequests
Unlocked      == owner = "free"

(* A call with a time-out lets go of the lock, provided the request fits   *)
(* the stdin pipe and no grandchild holds the stderr that is drained.      *)
CallReturns == pc \in Calling /\ bounded /\ PipeTakesAll /\ StderrWillEnd ~> Unlocked

(* So does close, and the constructor after a bad hello.                   *)
CloseReturns ==
    pc \in {"closeWrite", "stdinClosed"} /\ PipeTakesAll /\ StderrWillEnd ~> Unlocked

(* Both: no thread keeps the lock (Session.java:135-176, 200-243).         *)
CallAndCloseReturn == CallReturns /\ CloseReturns

(* A connection closed without a read given up leaves no reader thread.    *)
(* (With one it may: nobody takes the late line from the queue.)           *)
ReaderThreadEnds ==
    AtRest /\ gaveUp \subseteq {"join"} /\ "stdout" \notin holders ~> thread = "ended"
=============================================================================
