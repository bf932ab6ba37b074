---------------------------- MODULE PythonDirect ----------------------------
(***************************************************************************)
(* The Python driver's direct connection: _Session and Client (_client.py) *)
(* over DirectTransport with its _LineReader (_transport.py), against the  *)
(* server of module Child.                                                 *)
(*                                                                         *)
(* Calls come from several threads and are serialized by _lock.  Besides   *)
(* them run: connect(), the reader thread, the thread that drains stderr,  *)
(* and the daemon thread ("async") that closes the transport when a call   *)
(* has timed out.  A buffered stream has a lock of its own: close() on it  *)
(* waits for the thread that is reading from it.                           *)
(***************************************************************************)
EXTENDS Child

CONSTANTS Callers,        \* threads that use the connection
          StderrChoices   \* is there a drain thread: subset of {"none", "running"}

ASSUME CallersAssumption == Callers \cap {"open", "async", "free"} = {}
ASSUME StderrAssumption  == StderrChoices \subseteq {"none", "running"}

VARIABLES
    pc,            \* each thread: the statement it is at
    op, id,        \* each caller in a call: its op and its number
    timed,         \* each caller in a call: its time-out is not None
    lock,          \* _lock: the caller that holds it, or "free"
    closed,        \* _closed
    issued,        \* calls admitted so far
    outcome,       \* ghost: what each call ended with
    slot,          \* the item in the reader's queue, of size one
    terminal,      \* _terminal: the memoized exception, or "none"
    thread,        \* the reader thread: "reading", "putting" or "ended"
    held,          \* the item the reader thread is putting
    stdin,         \* the stream is open
    stdout,        \* the stream is open
    reaped,        \* Popen.returncode is known
    stderrThread   \* "none", "running" or "ended"

callVars   == <<pc, op, id, timed, lock, closed, issued, outcome>>
readerVars == <<slot, terminal, thread, held>>
procVars   == <<stdin, stdout, reaped, stderrThread>>
vars       == <<childVars, callVars, readerVars, procVars>>

Threads  == Callers \cup {"open", "async"}
Calling  == {"write", "flush", "read"}
Waiting  == {"waitExit", "waitTerm", "waitKill"}
Labels   == {"hello", "idle", "overwritten", "closeWrite", "closeFlush", "closeStdin",
             "closeStderr", "closeStdout", "over", "failed", "raised"}
               \cup Calling \cup Waiting
Outcomes == {"none", "pending", "io", "timeout", "closed"} \cup Answered

TypeOK ==
    /\ ChildTypeOK
    /\ pc \in [Threads -> Labels]
    /\ op \in [Callers -> {"call", "overwrite"}]
    /\ id \in [Callers -> 0..MaxRequests]
    /\ timed \in [Callers -> BOOLEAN]
    /\ lock \in Callers \cup {"free"}
    /\ closed \in BOOLEAN
    /\ issued \in 0..MaxRequests
    /\ outcome \in [Ids -> [re : 0..MaxRequests, kind : Outcomes]]
    /\ slot \in Items \cup {NoItem} /\ held \in Items \cup {NoItem}
    /\ terminal \in Terminals \cup {"none"}
    /\ thread \in {"reading", "putting", "ended"}
    /\ stdin \in BOOLEAN /\ stdout \in BOOLEAN /\ reaped \in BOOLEAN
    /\ stderrThread \in {"none", "running", "ended"}

(* DirectTransport.start has returned and _Session is about to read the    *)
(* hello.                                                                  *)
Init ==
    /\ ChildInit
    /\ pc = [t \in Threads |-> IF t = "open" THEN "hello"
                               ELSE IF t = "async" THEN "over" ELSE "idle"]
    /\ op = [c \in Callers |-> "call"] /\ id = [c \in Callers |-> 0]
    /\ timed = [c \in Callers |-> FALSE]
    /\ lock = "free" /\ closed = FALSE /\ issued = 0
    /\ outcome = [i \in Ids |-> [re |-> 0, kind |-> "none"]]
    /\ slot = NoItem /\ terminal = "none" /\ thread = "reading" /\ held = NoItem
    /\ stdin = TRUE /\ stdout = TRUE /\ reaped = FALSE
    /\ stderrThread \in StderrChoices

-----------------------------------------------------------------------------
(* _LineReader._run: "reading" is inside readline.  On a stream that was   *)
(* closed meanwhile it raises what _run does not catch, and the thread is  *)
(* gone without an item.                                                   *)

ReaderReads ==
    /\ thread = "reading"
    /\ \/ /\ stdout /\ fromChild # <<>>
          /\ held' = Head(fromChild) /\ fromChild' = Tail(fromChild)
          /\ thread' = "putting"
       \/ /\ stdout /\ fromChild = <<>> /\ StdoutEnded
          /\ held' = EofItem /\ thread' = "putting"
          /\ UNCHANGED fromChild
       \/ /\ ~stdout
          /\ thread' = "ended"
          /\ UNCHANGED <<held, fromChild>>
    /\ UNCHANGED <<child, toChild, holders, signal, room, slot, terminal,
                   callVars, procVars>>

(* Queue.put waits for room, for good once nobody takes any more.          *)
ReaderPuts ==
    /\ thread = "putting" /\ slot = NoItem
    /\ slot' = held
    /\ thread' = IF held.kind \in Terminals THEN "ended" ELSE "reading"
    /\ held' = NoItem
    /\ UNCHANGED <<terminal, childVars, callVars, procVars>>

(* _drain returns at the end of the child's stderr.                        *)
Drain ==
    /\ stderrThread = "running" /\ StderrEnded
    /\ stderrThread' = "ended"
    /\ UNCHANGED <<stdin, stdout, reaped, childVars, callVars, readerVars>>

(* _LineReader.read_line: a line, an exception that is remembered, or a    *)
(* time-out on an empty queue.                                             *)
GotLine ==
    /\ terminal = "none" /\ slot # NoItem /\ slot.kind \notin Terminals
    /\ slot' = NoItem
    /\ UNCHANGED <<terminal, thread, held>>

GotTerminal ==
    /\ \/ terminal # "none" /\ UNCHANGED <<terminal, slot>>
       \/ /\ terminal = "none" /\ slot.kind \in Terminals
          /\ terminal' = slot.kind /\ slot' = NoItem
    /\ UNCHANGED <<thread, held>>

(* Fault: a time-out is remembered like the exceptions of the queue.       *)
Expired_Memoized ==
    /\ terminal = "none" /\ slot = NoItem
    /\ terminal' = "timeout"
    /\ UNCHANGED <<slot, thread, held>>

Expired == terminal = "none" /\ slot = NoItem /\ UNCHANGED readerVars

-----------------------------------------------------------------------------
(* _Session.__init__ in connect().                                         *)

HelloAccepted ==
    /\ pc["open"] = "hello" /\ GotLine /\ slot.kind = "hello"
    /\ pc' = [pc EXCEPT !["open"] = "over"]
    /\ UNCHANGED <<op, id, timed, lock, closed, issued, outcome, childVars, procVars>>

(* The end of the stream, a time-out (both are OSError or EOFError), an    *)
(* undecodable hello or another protocol: the transport is closed first.   *)
HelloFailed ==
    /\ pc["open"] = "hello"
    /\ \/ GotLine /\ slot.kind # "hello"
       \/ GotTerminal /\ slot.kind = "eof"
       \/ Expired
    /\ pc' = [pc EXCEPT !["open"] = "closeStdin"]
    /\ UNCHANGED <<op, id, timed, lock, closed, issued, outcome, childVars, procVars>>

(* A line beyond the limit: read_line raises a ProtocolError, which is     *)
(* neither, and nothing is closed.                                         *)
HelloRaises ==
    /\ pc["open"] = "hello" /\ GotTerminal /\ slot.kind = "long"
    /\ pc' = [pc EXCEPT !["open"] = "raised"]
    /\ UNCHANGED <<op, id, timed, lock, closed, issued, outcome, childVars, procVars>>

Opened     == pc["open"] = "over"
CanLock(c) == Opened /\ lock = "free"

-----------------------------------------------------------------------------
(* _Session._call, for every op.                                           *)

Return(c, kind, re) ==
    outcome' = [outcome EXCEPT ![id[c]] = [re |-> re, kind |-> kind]]

CallRefused(c) ==
    /\ pc[c] = "idle" /\ CanLock(c) /\ closed /\ issued < MaxRequests
    /\ issued' = issued + 1
    /\ outcome' = [outcome EXCEPT ![issued + 1] = [re |-> 0, kind |-> "closed"]]
    /\ UNCHANGED <<pc, op, id, timed, lock, closed, childVars, readerVars, procVars>>

Admit(c) ==
    /\ issued < MaxRequests
    /\ issued' = issued + 1
    /\ id' = [id EXCEPT ![c] = issued + 1]
    /\ outcome' = [outcome EXCEPT ![issued + 1] = [re |-> 0, kind |-> "pending"]]
    /\ \E o \in {"call", "overwrite"} : op' = [op EXCEPT ![c] = o]
    /\ \E b \in BOOLEAN : timed' = [timed EXCEPT ![c] = b]
    /\ lock' = c
    /\ pc' = [pc EXCEPT ![c] = "write"]
    /\ UNCHANGED <<closed, childVars, readerVars, procVars>>

(* Fault: _call does not take _lock.                                       *)
CallStart_Unlocked(c) == pc[c] = "idle" /\ Opened /\ ~closed /\ Admit(c)

CallStart(c) == pc[c] = "idle" /\ CanLock(c) /\ ~closed /\ Admit(c)

(* BrokenPipeError.  Nobody writes to a stdin that was closed: _closed is  *)
(* set before.                                                             *)
WriteFails == child = "dead"

(* The lock is let go, with it the locals of the call.                     *)
Unlock(c) ==
    /\ lock' = "free"
    /\ op' = [op EXCEPT ![c] = "call"]
    /\ id' = [id EXCEPT ![c] = 0]
    /\ timed' = [timed EXCEPT ![c] = FALSE]

Leave(c, label) == Unlock(c) /\ pc' = [pc EXCEPT ![c] = label]

CallWrite(c) ==
    /\ pc[c] = "write"
    /\ IF WriteFails
       THEN Return(c, "io", 0) /\ Leave(c, "idle") /\ UNCHANGED toChild
       ELSE /\ toChild' = Append(toChild, [op |-> op[c], id |-> id[c]])
            /\ pc' = [pc EXCEPT ![c] = "flush"]
            /\ UNCHANGED <<op, id, timed, lock, outcome>>
    /\ UNCHANGED <<closed, issued, child, fromChild, holders, signal, room,
                   readerVars, procVars>>

CallFlush(c) ==
    /\ pc[c] = "flush"
    /\ \/ /\ Len(toChild) <= room
          /\ pc' = [pc EXCEPT ![c] = "read"]
          /\ UNCHANGED <<op, id, timed, lock, outcome>>
       \/ /\ Len(toChild) > room /\ child = "dead"
          /\ Return(c, "io", 0) /\ Leave(c, "idle")
    /\ UNCHANGED <<closed, issued, childVars, readerVars, procVars>>

(* decode_response_line; what it cannot decode is a ProtocolError.         *)
Decoded(line) == IF line.kind \in {"ok", "err"} THEN line.kind ELSE "bad"

CallAnswered(c) ==
    /\ pc[c] = "read" /\ GotLine
    /\ Return(c, Decoded(slot), slot.id)
    /\ Leave(c, IF op[c] = "overwrite" /\ slot.kind = "ok" THEN "overwritten" ELSE "idle")
    /\ UNCHANGED <<closed, issued, childVars, procVars>>

(* The session stays open.                                                 *)
CallFailed(c) ==
    /\ pc[c] = "read" /\ GotTerminal
    /\ Return(c, "io", 0) /\ Leave(c, "idle")
    /\ UNCHANGED <<closed, issued, childVars, procVars>>

(* Fault: the session is closed, its transport is not.                     *)
CallTimedOut_NoTeardown(c) ==
    /\ pc[c] = "read" /\ timed[c] /\ Expired
    /\ Return(c, "timeout", 0) /\ Leave(c, "idle")
    /\ closed' = TRUE
    /\ UNCHANGED <<issued, childVars, procVars>>

(* The session is closed, its transport by a daemon thread.                *)
CallTimedOut(c) ==
    /\ pc[c] = "read" /\ timed[c] /\ Expired
    /\ Return(c, "timeout", 0)
    /\ closed' = TRUE
    /\ Unlock(c)
    /\ pc' = [pc EXCEPT ![c] = "idle", !["async"] = "closeStdin"]
    /\ UNCHANGED <<issued, childVars, procVars>>

-----------------------------------------------------------------------------
(* Client.overwrite, once its call has succeeded and let go of the lock.   *)
OverwriteCloses(c) ==
    /\ pc[c] = "overwritten" /\ CanLock(c)
    /\ closed' = TRUE
    /\ pc' = [pc EXCEPT ![c] = "closeStdin"]
    /\ UNCHANGED <<op, id, timed, lock, issued, outcome, childVars, readerVars, procVars>>

(* _Session.close; from a closed session it returns at once.               *)
Close(c) ==
    /\ pc[c] = "idle" /\ CanLock(c) /\ ~closed
    /\ closed' = TRUE
    /\ lock' = c
    /\ pc' = [pc EXCEPT ![c] = "closeWrite"]
    /\ UNCHANGED <<op, id, timed, issued, outcome, childVars, readerVars, procVars>>

CloseWrite(c) ==
    /\ pc[c] = "closeWrite"
    /\ IF WriteFails
       THEN Leave(c, "closeStdin") /\ UNCHANGED toChild
       ELSE /\ toChild' = Append(toChild, CloseRequest)
            /\ pc' = [pc EXCEPT ![c] = "closeFlush"]
            /\ UNCHANGED <<op, id, timed, lock>>
    /\ UNCHANGED <<closed, issued, outcome, child, fromChild, holders, signal, room,
                   readerVars, procVars>>

(* The response to the close op is left to the reader thread.              *)
CloseFlush(c) ==
    /\ pc[c] = "closeFlush"
    /\ Len(toChild) <= room \/ child = "dead"
    /\ Leave(c, "closeStdin")
    /\ UNCHANGED <<closed, issued, outcome, childVars, readerVars, procVars>>

-----------------------------------------------------------------------------
(* DirectTransport.close, by a caller, by connect() or by "async".         *)

At(t, from, to) ==
    /\ pc[t] = from
    /\ pc' = [pc EXCEPT ![t] = to]
    /\ UNCHANGED <<op, id, timed, lock, closed, issued, outcome, readerVars>>

CloseStdin(t) ==
    /\ At(t, "closeStdin", "waitExit")
    /\ stdin' = FALSE
    /\ UNCHANGED <<stdout, reaped, stderrThread, childVars>>

(* Popen.wait, from any number of threads.                                 *)
Reaped(t) ==
    /\ child = "dead"
    /\ \E from \in Waiting : At(t, from, "closeStderr")
    /\ reaped' = TRUE
    /\ UNCHANGED <<stdin, stdout, stderrThread, childVars>>

(* wait() timed out.  terminate() and kill() poll first, and signal only a *)
(* child that is not dead.                                                 *)
Escalate(t, from, sig, to) ==
    /\ At(t, from, to)
    /\ signal' = IF child = "dead" \/ signal = "kill" THEN signal ELSE sig
    /\ reaped' = (reaped \/ child = "dead")
    /\ UNCHANGED <<child, toChild, fromChild, holders, room,
                   stdin, stdout, stderrThread>>

Terminate(t) == Escalate(t, "waitExit", "term", "waitTerm")

(* Fault: no kill() after terminate().                                     *)
Kill_Missing(t) == FALSE

Kill(t) == Escalate(t, "waitTerm", "kill", "waitKill")

(* The join of the drain thread is bounded, but then close() of the stream *)
(* it reads waits for it all the same.                                     *)
CloseStderr(t) ==
    /\ At(t, "closeStderr", "closeStdout")
    /\ stderrThread # "running"
    /\ UNCHANGED <<procVars, childVars>>

(* So it is with the reader thread: its join may time out, and close()     *)
(* waits for it if it is in readline, not if it waits for the queue.       *)
CloseStdout(t) ==
    /\ \/ t \in Callers /\ At(t, "closeStdout", "idle")
       \/ t = "open"    /\ At(t, "closeStdout", "failed")
       \/ t = "async"   /\ At(t, "closeStdout", "over")
    /\ thread # "reading"
    /\ stdout' = FALSE
    /\ UNCHANGED <<stdin, reaped, stderrThread, childVars>>

(* Client.exit_code polls, and so may reap.                                *)
ExitCode ==
    /\ Opened /\ child = "dead" /\ ~reaped
    /\ reaped' = TRUE
    /\ UNCHANGED <<stdin, stdout, stderrThread, childVars, callVars, readerVars>>

-----------------------------------------------------------------------------
User(c) == CallRefused(c) \/ CallStart(c) \/ Close(c)

CallerStep(c) ==
    \/ CallWrite(c) \/ CallFlush(c) \/ CallAnswered(c) \/ CallFailed(c)
    \/ CallTimedOut(c) \/ OverwriteCloses(c) \/ CloseWrite(c) \/ CloseFlush(c)

CloseStep(t) ==
    \/ CloseStdin(t) \/ Terminate(t) \/ Kill(t) \/ Reaped(t)
    \/ CloseStderr(t) \/ CloseStdout(t)

ReaderStep == ReaderReads \/ ReaderPuts

ChildStep == ChildNext /\ UNCHANGED <<callVars, readerVars, procVars>>

Next ==
    \/ HelloAccepted \/ HelloFailed \/ HelloRaises
    \/ \E c \in Callers : User(c) \/ CallerStep(c)
    \/ \E t \in Threads : CloseStep(t)
    \/ ReaderStep \/ Drain \/ ExitCode \/ ChildStep

Spec == Init /\ [][Next]_vars

(* Every thread that can run does, and the kernel delivers SIGKILL.        *)
Fairness ==
    /\ \A c \in Callers : WF_vars(CallerStep(c))
    /\ \A t \in Threads : WF_vars(CloseStep(t))
    /\ WF_vars(ReaderStep) /\ WF_vars(Drain)
    /\ WF_vars(ChildKilled /\ UNCHANGED <<callVars, readerVars, procVars>>)

FairSpec == Spec /\ Fairness

-----------------------------------------------------------------------------
(* Safety.                                                                 *)

(* Once the session is closed, or its hello was refused, and no close runs *)
(* any more, the child is reaped, both streams are closed, stderr is       *)
(* drained and the lock is free.                                           *)
AtRest == /\ closed \/ pc["open"] = "failed"
          /\ \A t \in Threads : pc[t] \in {"idle", "over", "failed"}
ReleasedAtRest ==
    AtRest => reaped /\ ~stdin /\ ~stdout /\ stderrThread # "running" /\ lock = "free"

-----------------------------------------------------------------------------
(* The promise to callers.                                                 *)

AbstractPhase ==
    IF pc["open"] = "hello" THEN "opening"
    ELSE IF Opened /\ ~closed THEN "open" ELSE "closed"

Meaning == [none |-> "new", pending |-> "pending", ok |-> "answered",
            err |-> "answered", bad |-> "answered", io |-> "failed",
            timeout |-> "failed", closed |-> "refused"]

AbstractStatus(o, i) ==
    IF o.kind \in Answered /\ o.re # i THEN "stale" ELSE Meaning[o.kind]

Connection == INSTANCE SerialConnection WITH
    phase  <- AbstractPhase,
    status <- [i \in Ids |-> AbstractStatus(outcome[i], i)]

(* Any number of threads see one serial connection, whatever times out and *)
(* closes; responses carry no id, and whoever gets one gets that of its    *)
(* own request (another one would be "stale", which is no status there).   *)
ImplementsConnection == Connection!Spec

-----------------------------------------------------------------------------
(* Liveness, under FairSpec.                                               *)

PipeTakesAll   == room > MaxRequests
StreamsWillEnd == /\ "stdout" \notin holders
                  /\ stderrThread = "none" \/ "stderr" \notin holders

(* A call with a time-out returns if its request fits the pipe, whatever   *)
(* the server and a grandchild do: the teardown is not its own.            *)
CallReturns ==
    \A c \in Callers :
        pc[c] \in Calling /\ timed[c] /\ PipeTakesAll ~> pc[c] \notin Calling

(* A closed session is released in the end, unless a grandchild keeps a    *)
(* stream from ending: close() of a stream waits for its reader.           *)
ClosedIsReleased == closed /\ PipeTakesAll /\ StreamsWillEnd ~> AtRest

(* Both: neither the caller nor the child of a call that timed out is left *)
(* waiting for the other (_client.py:147-178, _transport.py:166-199).      *)
CallReturnsCloseReleases == CallReturns /\ ClosedIsReleased

(* close() is to leave nothing dangling (_client.py:268-271): the reader   *)
(* thread ends.                                                            *)
ReaderThreadEnds == closed /\ AtRest /\ "stdout" \notin holders ~> thread = "ended"
=============================================================================
