-------------------------- MODULE TypeScriptDirect --------------------------
(***************************************************************************)
(* The TypeScript driver's direct connection: Session and Client           *)
(* (client.ts) over DirectTransport with its LineReader (transport.ts),    *)
(* against the server of module Child.                                     *)
(*                                                                         *)
(* One thread runs an event loop: a step is what happens from one event to *)
(* the next, the promise reactions it sets off included.  Calls go through *)
(* a promise queue, so one is in progress at a time; close() goes past it. *)
(* What a read and a timer see of each other is the order of events.       *)
(***************************************************************************)
EXTENDS Child, SequencesExt

CONSTANT StderrChoices    \* is stderr piped: subset of {"none", "piped"}

ASSUME StderrAssumption == StderrChoices \subseteq {"none", "piped"}

VARIABLES
    \* Session
    pc,         \* readHello or the call in progress: what it awaits
                \* ("unwritten": stdin.write has failed at once;
                \* "overwritten": overwrite() calls close() next)
    op,         \* the op of the call in progress
    timed,      \* it has a time-out, or an abort signal that is raised
    issued,     \* calls started so far
    outcome,    \* ghost: how each call settled
    closed,     \* #closed
    closer,     \* #closePromise: "none", or #doClose is "writing" or has "sent"
    \* LineReader
    queue,      \* #queue: lines nobody has taken
    terminal,   \* #terminal: the error every later read gets, or "none"
    paused,     \* the stdout stream is paused
    \* DirectTransport and the ChildProcess of node
    stage,      \* its #closePromise: "none", what #close awaits, or "destroyed"
    stdin,      \* the stream is neither ended nor destroyed
    exited,     \* exitCode or signalCode is set: the exit event was emitted
    ended,      \* the end event of stdout was emitted
    stderr,     \* "none", "piped" or "ended"
    closeEvent  \* the close event of the child was emitted (#closed)

callVars   == <<pc, op, timed, issued, outcome>>
closeVars  == <<closed, closer>>
readerVars == <<queue, terminal, paused>>
nodeVars   == <<stage, stdin, exited, ended, stderr, closeEvent>>
vars       == <<childVars, callVars, closeVars, readerVars, nodeVars>>

Outcomes == {"none", "pending", "io", "gaveUp", "closed"} \cup Answered
InCall   == {"unwritten", "writing", "reading"}
Waiting  == {"hello", "reading"}     \* a waiter is in #waiters
Stages   == {"waitExit", "waitTerm", "waitKill", "flush"}

TypeOK ==
    /\ ChildTypeOK
    /\ pc \in InCall \cup {"hello", "idle", "overwritten", "refused"}
    /\ op \in {"call", "overwrite"} /\ timed \in BOOLEAN
    /\ issued \in 0..MaxRequests
    /\ outcome \in [Ids -> [re : 0..MaxRequests, kind : Outcomes]]
    /\ closed \in BOOLEAN /\ closer \in {"none", "writing", "sent"}
    /\ queue \in Seq(Line)
    /\ terminal \in Terminals \cup {"none"} /\ paused \in BOOLEAN
    /\ stage \in Stages \cup {"none", "destroyed"}
    /\ stdin \in BOOLEAN /\ exited \in BOOLEAN /\ ended \in BOOLEAN
    /\ stderr \in {"none", "piped", "ended"} /\ closeEvent \in BOOLEAN

(* DirectTransport.start has returned, readHello waits for its line.       *)
Init ==
    /\ ChildInit
    /\ pc = "hello" /\ op = "call" /\ timed \in BOOLEAN
    /\ issued = 0 /\ outcome = [i \in Ids |-> [re |-> 0, kind |-> "none"]]
    /\ closed = FALSE /\ closer = "none"
    /\ queue = <<>> /\ terminal = "none" /\ paused = FALSE
    /\ stage = "none" /\ stdin = TRUE /\ exited = FALSE /\ ended = FALSE
    /\ stderr \in StderrChoices /\ closeEvent = FALSE

-----------------------------------------------------------------------------
(* DirectTransport.close: begun once, later ones share its promise.        *)
StartClose ==
    /\ stage' = IF stage # "none" THEN stage
                ELSE IF exited THEN "flush" ELSE "waitExit"
    /\ stdin' = FALSE
    /\ UNCHANGED exited

(* The promise of a call settles; next is "idle": the queue goes on.       *)
Settle(kind, re, next) ==
    /\ outcome' = [outcome EXCEPT ![issued] = [re |-> re, kind |-> kind]]
    /\ pc' = next /\ op' = "call" /\ timed' = FALSE
    /\ UNCHANGED issued

NoClose == UNCHANGED <<closed, stage, stdin, exited>>

(* readHello closes the transport and throws.                              *)
RefuseHello ==
    /\ pc' = "refused" /\ StartClose
    /\ UNCHANGED <<op, timed, issued, outcome, closed>>

(* decodeResponseLine: what it cannot decode is a ProtocolError.           *)
Decoded(line) == IF line.kind \in {"ok", "err"} THEN line.kind ELSE "bad"

(* The promise of readLine is given a line, or the terminal error.         *)
Resolve(line) ==
    \/ /\ pc = "hello" /\ line.kind = "hello"
       /\ pc' = "idle" /\ timed' = FALSE
       /\ UNCHANGED <<op, issued, outcome>> /\ NoClose
    \/ pc = "hello" /\ line.kind # "hello" /\ RefuseHello
    \/ /\ pc \in InCall
       /\ Settle(Decoded(line), line.id,
                 IF op = "overwrite" /\ line.kind = "ok" THEN "overwritten" ELSE "idle")
       /\ NoClose

Reject ==
    \/ pc = "hello" /\ RefuseHello
    \/ pc \in InCall /\ Settle("io", 0, "idle") /\ NoClose

(* Fault: the session is not closed.                                       *)
GiveUp_StaysOpen ==
    /\ Settle("gaveUp", 0, "idle")
    /\ NoClose

(* Fault: its transport is not.                                            *)
GiveUp_NoTeardown ==
    /\ Settle("gaveUp", 0, "idle")
    /\ closed' = TRUE
    /\ UNCHANGED <<stage, stdin, exited>>

(* #callNow on a time-out or an abort: the session is closed, and its      *)
(* transport in the background.                                            *)
GiveUp ==
    /\ Settle("gaveUp", 0, "idle")
    /\ closed' = TRUE /\ StartClose

-----------------------------------------------------------------------------
(* The streams and the child, as node reports them.                        *)

IsLong(line)  == line.kind = "long"

(* Whole lines: what a chunk cuts counts as unread.  The limit is looked   *)
(* at when a chunk ends, so one that meets a line too long ends inside it. *)
Chunks == {n \in 1..Len(fromChild) :
              terminal = "none" => \A k \in 1..n - 1 : ~IsLong(fromChild[k])}

Intact(chunk) == SubSeq(chunk, 1, SelectInSeq(chunk, IsLong) - 1)
LinesOf(chunk) ==
    IF terminal # "none" THEN <<>>
    ELSE IF SelectInSeq(chunk, IsLong) = 0 THEN chunk ELSE Intact(chunk)

(* LineReader.#onData: the first line goes to whoever waits, the others to *)
(* the queue; the stream is paused while a line is queued, and for good    *)
(* after a line that is too long, of which more may come.                  *)
StdoutData ==
    /\ fromChild # <<>> /\ ~paused /\ stage # "destroyed"
    /\ \E n \in Chunks, more \in BOOLEAN :
        LET chunk == SubSeq(fromChild, 1, n)
            lines == LinesOf(chunk)
            taken == pc \in Waiting /\ lines # <<>>
            broke == terminal = "none" /\ lines # chunk
        IN /\ fromChild' = SubSeq(fromChild, IF broke /\ more THEN n ELSE n + 1, Len(fromChild))
           /\ queue' = queue \o (IF taken THEN Tail(lines) ELSE lines)
           /\ terminal' = IF broke THEN "long" ELSE terminal
           /\ paused' = (terminal = "none" /\ (broke \/ queue' # <<>>))
           /\ \/ taken /\ Resolve(Head(lines))
              \/ ~taken /\ pc \in Waiting /\ broke /\ Reject
              \/ ~taken /\ ~(pc \in Waiting /\ broke) /\ NoClose /\ UNCHANGED callVars
    /\ UNCHANGED <<child, toChild, holders, signal, room,
                   closer, ended, stderr, closeEvent>>

(* The end event comes when all was read, paused or not: #terminate.       *)
StdoutEnd ==
    /\ StdoutEnded /\ fromChild = <<>> /\ ~ended /\ stage # "destroyed"
    /\ ended' = TRUE
    /\ terminal' = IF terminal = "none" THEN "eof" ELSE terminal
    /\ paused' = (paused \/ terminal = "none")
    /\ \/ pc \in Waiting /\ Reject
       \/ pc \notin Waiting /\ NoClose /\ UNCHANGED callVars
    /\ UNCHANGED <<queue, closer, stderr, closeEvent, childVars>>

StderrEnd ==
    /\ stderr = "piped" /\ StderrEnded
    /\ stderr' = "ended"
    /\ UNCHANGED <<stage, stdin, exited, ended, closeEvent,
                   childVars, callVars, closeVars, readerVars>>

(* EXTERNAL: node destroys stdin and resumes the streams it reads from.    *)
ExitEvent ==
    /\ child = "dead" /\ ~exited
    /\ exited' = TRUE /\ stdin' = FALSE
    /\ paused' = (paused /\ ended)
    /\ UNCHANGED <<queue, terminal, stage, ended, stderr, closeEvent,
                   childVars, callVars, closeVars>>

(* EXTERNAL: the child has exited and its streams have ended.              *)
CloseEvent ==
    /\ exited /\ ended /\ stderr # "piped" /\ ~closeEvent
    /\ closeEvent' = TRUE
    /\ UNCHANGED <<stage, stdin, exited, ended, stderr,
                   childVars, callVars, closeVars, readerVars>>

-----------------------------------------------------------------------------
(* Session.#callNow, when the queue has come to it.  (One whose signal is  *)
(* raised by then does nothing.)                                           *)

CanWrite == stdin /\ child # "dead"

(* The pipe has taken the line.                                            *)
Taken(request) == \A k \in DOMAIN toChild : toChild[k] = request => k <= room

CallRefused ==
    /\ pc = "idle" /\ closed /\ issued < MaxRequests
    /\ issued' = issued + 1
    /\ outcome' = [outcome EXCEPT ![issued + 1] = [re |-> 0, kind |-> "closed"]]
    /\ UNCHANGED <<pc, op, timed, childVars, closeVars, readerVars, nodeVars>>

(* The line is handed to stdin; the callback of the write is awaited.      *)
CallStart ==
    /\ pc = "idle" /\ ~closed /\ issued < MaxRequests
    /\ issued' = issued + 1
    /\ outcome' = [outcome EXCEPT ![issued + 1] = [re |-> 0, kind |-> "pending"]]
    /\ op' \in {"call", "overwrite"} /\ timed' \in BOOLEAN
    /\ IF CanWrite
       THEN pc' = "writing" /\ toChild' = Append(toChild, [op |-> op', id |-> issued'])
       ELSE pc' = "unwritten" /\ UNCHANGED toChild
    /\ UNCHANGED <<child, fromChild, holders, signal, room,
                   closeVars, readerVars, nodeVars>>

CallWriteFailed ==
    /\ \/ pc = "unwritten"
       \/ pc = "writing" /\ child = "dead" /\ ~Taken([op |-> op, id |-> issued])
    /\ Settle("io", 0, "idle")
    /\ UNCHANGED <<childVars, closeVars, readerVars, nodeVars>>

(* LineReader.readLine: a queued line comes before the terminal error, and *)
(* with the last one taken the stream flows again.                         *)
(* Fault: it stays paused.                                                 *)
TakeQueued_NoResume ==
    /\ queue # <<>>
    /\ queue' = Tail(queue)
    /\ UNCHANGED <<terminal, paused>>

TakeQueued ==
    /\ queue # <<>>
    /\ queue' = Tail(queue)
    /\ paused' = (paused /\ queue' # <<>>)
    /\ UNCHANGED terminal

CallWritten ==
    /\ pc = "writing" /\ Taken([op |-> op, id |-> issued])
    /\ \/ TakeQueued /\ Resolve(Head(queue))
       \/ /\ queue = <<>> /\ terminal # "none"
          /\ (Reject \/ (timed /\ GiveUp))
          /\ UNCHANGED readerVars
       \/ /\ queue = <<>> /\ terminal = "none"
          /\ pc' = "reading"
          /\ UNCHANGED <<op, timed, issued, outcome, readerVars>> /\ NoClose
    /\ UNCHANGED <<childVars, closer, ended, stderr, closeEvent>>

(* Fault: the error of a time-out is kept like the one of the stream.       *)
ReadGivesUp_Memoized ==
    /\ timed /\ pc = "reading" /\ GiveUp
    /\ terminal' = "timeout"
    /\ UNCHANGED <<queue, paused, childVars, closer, ended, stderr, closeEvent>>

(* The timer fires, or the signal is raised, before a line came.           *)
ReadGivesUp ==
    /\ timed
    /\ \/ pc = "hello" /\ RefuseHello
       \/ pc = "reading" /\ GiveUp
    /\ UNCHANGED <<childVars, closer, readerVars, ended, stderr, closeEvent>>

-----------------------------------------------------------------------------
(* Session.close and #doClose, past the queue of calls: the close op is    *)
(* written at any point of a call in progress.                             *)
DoClose ==
    /\ closer = "none"
    /\ closed' = TRUE
    /\ IF CanWrite
       THEN /\ closer' = "writing" /\ toChild' = Append(toChild, CloseRequest)
            /\ UNCHANGED <<stage, stdin, exited>>
       ELSE closer' = "sent" /\ StartClose /\ UNCHANGED toChild
    /\ UNCHANGED <<child, fromChild, holders, signal, room, readerVars,
                   ended, stderr, closeEvent>>

Close == pc \in InCall \cup {"idle"} /\ DoClose /\ UNCHANGED callVars

(* Client.overwrite calls close() as soon as its own call has settled,     *)
(* before the next call leaves the queue and before any other event.       *)
OverwriteCloses ==
    /\ pc = "overwritten"
    /\ pc' = "idle"
    /\ \/ DoClose
       \/ closer # "none" /\ UNCHANGED <<childVars, closeVars, readerVars, nodeVars>>
    /\ UNCHANGED <<op, timed, issued, outcome>>

(* The response to the close op is not waited for.                         *)
CloseWritten ==
    /\ closer = "writing" /\ (Taken(CloseRequest) \/ child = "dead")
    /\ closer' = "sent" /\ StartClose
    /\ UNCHANGED <<closed, childVars, callVars, readerVars, ended, stderr, closeEvent>>

(* DirectTransport.#close: it waits for the close event, after SIGKILL     *)
(* without a deadline; kill() does nothing once the exit was seen.         *)
Escalate(from, sig, to) ==
    /\ stage = from
    /\ stage' = to
    /\ signal' = IF exited \/ child = "dead" THEN signal ELSE sig
    /\ UNCHANGED <<child, toChild, fromChild, holders, room, stdin, exited, ended,
                   stderr, closeEvent, callVars, closeVars, readerVars>>

Terminate == Escalate("waitExit", "term", "waitTerm")

(* Fault: no kill("SIGKILL") after SIGTERM.                                *)
Kill_Missing == FALSE

Kill == Escalate("waitTerm", "kill", "waitKill")

(* The streams are destroyed: no event comes from them any more.  A child  *)
(* that had exited when the close began is given one deadline.             *)
Destroy ==
    /\ stage \in Stages /\ (closeEvent \/ stage = "flush")
    /\ stage' = "destroyed"
    /\ UNCHANGED <<stdin, exited, ended, stderr, closeEvent,
                   childVars, callVars, closeVars, readerVars>>

-----------------------------------------------------------------------------
User == CallRefused \/ CallStart \/ Close

CallStep  == CallWriteFailed \/ CallWritten \/ ReadGivesUp
CloseStep == CloseWritten \/ Terminate \/ Kill \/ Destroy
NodeStep  == StdoutData \/ StdoutEnd \/ StderrEnd \/ ExitEvent \/ CloseEvent

ChildStep == ChildNext /\ UNCHANGED <<callVars, closeVars, readerVars, nodeVars>>

Next ==
    \/ OverwriteCloses
    \/ pc # "overwritten" /\ (User \/ CallStep \/ CloseStep \/ NodeStep)
    \/ ChildStep

Spec == Init /\ [][Next]_vars

(* Every callback that is due runs, and the kernel delivers SIGKILL.       *)
Fairness ==
    /\ WF_vars(OverwriteCloses)
    /\ WF_vars(CallStep) /\ WF_vars(pc # "overwritten" /\ CloseStep)
    /\ WF_vars(pc # "overwritten" /\ NodeStep)
    /\ WF_vars(ChildKilled /\ UNCHANGED <<callVars, closeVars, readerVars, nodeVars>>)

FairSpec == Spec /\ Fairness

-----------------------------------------------------------------------------
(* Safety.                                                                 *)

(* A waiter has the stream flowing and the queue empty: what it waits for  *)
(* is not held back by the reader itself.                                  *)
WaiterIsFed == pc \in Waiting => ~paused /\ queue = <<>> /\ terminal = "none"

(* A session that was closed, or whose hello was refused, and that has     *)
(* nothing more to do, has destroyed its streams and its child has exited. *)
AtRest == /\ closed \/ pc = "refused"
          /\ closer # "writing" /\ stage \notin Stages /\ pc # "overwritten"
ReleasedAtRest == AtRest => stage = "destroyed" /\ exited /\ ~stdin

-----------------------------------------------------------------------------
(* The promise to callers.                                                 *)

AbstractPhase ==
    IF pc = "hello" THEN "opening"
    ELSE IF pc = "refused" \/ closed THEN "closed" ELSE "open"

Meaning == [none |-> "new", pending |-> "pending", ok |-> "answered",
            err |-> "answered", bad |-> "answered", io |-> "failed",
            gaveUp |-> "failed", closed |-> "refused"]

AbstractStatus(o, i) ==
    IF o.kind \in Answered /\ o.re # i THEN "stale" ELSE Meaning[o.kind]

Connection == INSTANCE SerialConnection WITH
    phase  <- AbstractPhase,
    status <- [i \in Ids |-> AbstractStatus(outcome[i], i)]

(* The queue of calls is one serial connection, although close() goes past *)
(* it and writes its op between the write and the read of a call, and late *)
(* answers are queued: a response goes to its own request or to nobody (to *)
(* another it would be "stale", which is no status there).                 *)
ImplementsConnection == Connection!Spec

-----------------------------------------------------------------------------
(* Liveness, under FairSpec.                                               *)

PipeTakesAll   == room > MaxRequests
StreamsWillEnd == "stdout" \notin holders /\ (stderr = "piped" => "stderr" \notin holders)

(* A call with a time-out settles if its request fits the pipe, and the    *)
(* queue goes on behind it.                                                *)
CallReturns == pc \in InCall /\ timed /\ PipeTakesAll ~> pc \notin InCall

(* Node resumes a paused stdout once, at the exit event.  Paused again by  *)
(* a later chunk, with more to read and no reader, it never ends.          *)
HeldBack == exited /\ paused /\ fromChild # <<>>

(* close() resolves, unless a grandchild or the reader itself keeps the    *)
(* close event from coming.                                                *)
CloseReturns ==
    \/ closer # "none" /\ PipeTakesAll /\ StreamsWillEnd ~> stage = "destroyed"
    \/ <>[]HeldBack

(* Both (client.ts:205-222, transport.ts:299-327).                         *)
CallAndCloseReturn == CallReturns /\ CloseReturns

(* A close leaves nothing dangling (client.ts:285-287): a call in progress *)
(* settles too, with or without a time-out.                                *)
CallEndsWithClose == stage = "destroyed" /\ pc = "reading" ~> pc # "reading"
=============================================================================
