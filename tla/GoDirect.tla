------------------------------ MODULE GoDirect ------------------------------
(***************************************************************************)
(* The Go driver's direct connection: session (go/sandbox/sandbox.go) over *)
(* transport.Direct (internal/transport/direct.go) and os/exec's Cmd,      *)
(* against the server of module Child.                                     *)
(*                                                                         *)
(* Calls come from several goroutines and are serialized by session.mu.    *)
(* Besides them run: Open, the read loop, the stderr copier, the Close     *)
(* that a call whose context ended leaves behind ("async"), one Cmd.Wait   *)
(* per Direct.Close, and the goroutine of exec.CommandContext that kills   *)
(* the child when the context given to Open ends.                          *)
(***************************************************************************)
EXTENDS Child

CONSTANTS Callers,      \* goroutines that use the connection
          ErrChoices,   \* is there something on stderr: subset of {"none", "unread"}
          CtxChoices    \* the context given to Open: subset of {"background", "live"}

ASSUME CallersAssumption == Callers \cap {"open", "async", "free"} = {}
ASSUME ErrAssumption     == ErrChoices \subseteq {"none", "unread"}
ASSUME CtxAssumption     == CtxChoices \subseteq {"background", "live"}

VARIABLES
    pc,        \* each goroutine: the statement it is at
    op, id,    \* each caller in a call: its op and its number
    timed,     \* each caller in a call: its context may end
    mu,        \* session.mu: the caller that holds it, or "free"
    closed,    \* session.closed
    issued,    \* calls admitted so far
    outcome,   \* ghost: what each call returned
    slot,      \* session.lines, a channel of one item
    loop,      \* readLoop: "reading", "sending" or "ended" (lines is closed)
    held,      \* the item readLoop is sending
    stdin,     \* the write end of the child's stdin is open
    pipes,     \* the read ends of its stdout and stderr are open
    reaped,    \* the child's status was collected
    state,     \* cmd.ProcessState: "nil" or "known"
    waiter,    \* each Direct.Close: its Cmd.Wait (see WaiterStates)
    errBytes,  \* on the child's stderr: "none" (left), "unread" or "lost" bytes
    copier,    \* the stderr copier: "running" or "done" (stderrDone is closed)
    openCtx    \* the context given to Open, which exec.Cmd keeps (see CtxStates)

callVars  == <<pc, op, id, timed, mu, closed, issued, outcome>>
loopVars  == <<slot, loop, held>>
procVars  == <<stdin, pipes, reaped, state, waiter>>
errVars   == <<errBytes, copier>>
vars      == <<childVars, callVars, loopVars, procVars, errVars, openCtx>>

Threads   == Callers \cup {"open", "async"}
Outcomes  == {"none", "pending", "io", "ctx", "closed"} \cup Answered

Teardown  == {"teardown", "waitExit", "waitTerm", "waitKill", "waitStderr"}
Calling   == {"write", "flush", "read"}
Labels    == {"hello", "idle", "overwritten", "closeWrite", "closeFlush", "over", "failed"}
                \cup Calling \cup Teardown

(* No Wait; in Process.Wait; the status collected; returned.               *)
WaiterStates == {"none", "waiting", "collected", "done"}
(* A context that never ends; one that can, has, or no longer matters to   *)
(* Cmd because its goroutine has handed its only result to a Wait.         *)
CtxStates    == {"background", "live", "done", "taken"}

TypeOK ==
    /\ ChildTypeOK
    /\ pc \in [Threads -> Labels]
    /\ op \in [Callers -> {"call", "overwrite"}]
    /\ id \in [Callers -> 0..MaxRequests]
    /\ timed \in [Callers -> BOOLEAN]
    /\ mu \in Callers \cup {"free"}
    /\ closed \in BOOLEAN
    /\ issued \in 0..MaxRequests
    /\ outcome \in [Ids -> [re : 0..MaxRequests, kind : Outcomes]]
    /\ slot \in Items \cup {NoItem} /\ held \in Items \cup {NoItem}
    /\ loop \in {"reading", "sending", "ended"}
    /\ stdin \in BOOLEAN /\ pipes \in BOOLEAN /\ reaped \in BOOLEAN
    /\ state \in {"nil", "known"}
    /\ waiter \in [Threads -> WaiterStates]
    /\ errBytes \in {"none", "unread", "lost"}
    /\ copier \in {"running", "done"}
    /\ openCtx \in CtxStates

(* StartDirect has returned and newSession is about to read the hello.     *)
Init ==
    /\ ChildInit
    /\ pc = [t \in Threads |-> IF t = "open" THEN "hello"
                               ELSE IF t = "async" THEN "over" ELSE "idle"]
    /\ op = [c \in Callers |-> "call"] /\ id = [c \in Callers |-> 0]
    /\ timed = [c \in Callers |-> FALSE]
    /\ mu = "free" /\ closed = FALSE /\ issued = 0
    /\ outcome = [i \in Ids |-> [re |-> 0, kind |-> "none"]]
    /\ slot = NoItem /\ loop = "reading" /\ held = NoItem
    /\ stdin = TRUE /\ pipes = TRUE /\ reaped = FALSE /\ state = "nil"
    /\ waiter = [t \in Threads |-> "none"]
    /\ errBytes \in ErrChoices /\ copier = "running"
    /\ openCtx \in CtxChoices

-----------------------------------------------------------------------------
(* readLoop.  A line the scanner had buffered is still delivered after     *)
(* Wait closed the pipe under it.                                          *)

LoopRead ==
    /\ loop = "reading"
    /\ \/ /\ fromChild # <<>>
          /\ held' = Head(fromChild) /\ fromChild' = Tail(fromChild)
       \/ /\ ~pipes \/ (fromChild = <<>> /\ StdoutEnded)
          /\ held' = EofItem /\ UNCHANGED fromChild
    /\ loop' = "sending"
    /\ UNCHANGED <<child, toChild, holders, signal, room, slot,
                   callVars, procVars, errVars, openCtx>>

(* The channel has no one to drop it: a send into a full one waits.        *)
LoopSend ==
    /\ loop = "sending" /\ slot = NoItem
    /\ slot' = held
    /\ loop' = IF held.kind \in Terminals THEN "ended" ELSE "reading"
    /\ held' = NoItem
    /\ UNCHANGED <<childVars, callVars, procVars, errVars, openCtx>>

(* readLine's two ways to return by the channel.                           *)
GotLine == /\ slot # NoItem /\ slot.kind \notin Terminals
           /\ slot' = NoItem /\ UNCHANGED <<loop, held>>
GotEnd  == /\ slot.kind \in Terminals \/ (slot = NoItem /\ loop = "ended")
           /\ slot' = NoItem /\ UNCHANGED <<loop, held>>

-----------------------------------------------------------------------------
(* newSession.                                                             *)

HelloAccepted ==
    /\ pc["open"] = "hello" /\ GotLine /\ slot.kind = "hello"
    /\ pc' = [pc EXCEPT !["open"] = "over"]
    /\ UNCHANGED <<op, id, timed, mu, closed, issued, outcome,
                   childVars, procVars, errVars, openCtx>>

HelloFailed ==
    /\ pc["open"] = "hello"
    /\ \/ GotLine /\ slot.kind # "hello"
       \/ GotEnd
       \/ openCtx = "done" /\ UNCHANGED loopVars
    /\ pc' = [pc EXCEPT !["open"] = "teardown"]
    /\ UNCHANGED <<op, id, timed, mu, closed, issued, outcome,
                   childVars, procVars, errVars, openCtx>>

(* Open has returned a Client.                                             *)
Opened == pc["open"] = "over"

(* Caller c, or whoever is to take the lock next.                          *)
CanLock(c) == Opened /\ mu = "free"

-----------------------------------------------------------------------------
(* session.call.                                                           *)

Return(c, kind, re) ==
    outcome' = [outcome EXCEPT ![id[c]] = [re |-> re, kind |-> kind]]

CallRefused(c) ==
    /\ pc[c] = "idle" /\ CanLock(c) /\ closed /\ issued < MaxRequests
    /\ issued' = issued + 1
    /\ outcome' = [outcome EXCEPT ![issued + 1] = [re |-> 0, kind |-> "closed"]]
    /\ UNCHANGED <<pc, op, id, timed, mu, closed,
                   childVars, loopVars, procVars, errVars, openCtx>>

Admit(c) ==
    /\ issued < MaxRequests
    /\ issued' = issued + 1
    /\ id' = [id EXCEPT ![c] = issued + 1]
    /\ outcome' = [outcome EXCEPT ![issued + 1] = [re |-> 0, kind |-> "pending"]]
    /\ \E o \in {"call", "overwrite"} : op' = [op EXCEPT ![c] = o]
    /\ \E b \in BOOLEAN : timed' = [timed EXCEPT ![c] = b]
    /\ mu' = c
    /\ pc' = [pc EXCEPT ![c] = "write"]
    /\ UNCHANGED <<closed, childVars, loopVars, procVars, errVars, openCtx>>

(* Fault: call does not take the lock.                                     *)
CallStart_Unlocked(c) == pc[c] = "idle" /\ Opened /\ ~closed /\ Admit(c)

CallStart(c) == pc[c] = "idle" /\ CanLock(c) /\ ~closed /\ Admit(c)

WriteFails == ~stdin \/ child = "dead"

(* The call returns, or the close op is sent: the lock is let go and the   *)
(* locals of the call are no more.                                         *)
Leave(c, label) ==
    /\ mu' = "free"
    /\ pc' = [pc EXCEPT ![c] = label]
    /\ op' = [op EXCEPT ![c] = "call"]
    /\ id' = [id EXCEPT ![c] = 0]
    /\ timed' = [timed EXCEPT ![c] = FALSE]

CallWrite(c) ==
    /\ pc[c] = "write"
    /\ IF WriteFails
       THEN Return(c, "io", 0) /\ Leave(c, "idle") /\ UNCHANGED toChild
       ELSE /\ toChild' = Append(toChild, [op |-> op[c], id |-> id[c]])
            /\ pc' = [pc EXCEPT ![c] = "flush"]
            /\ UNCHANGED <<op, id, timed, mu, outcome>>
    /\ UNCHANGED <<closed, issued, child, fromChild, holders, signal, room,
                   loopVars, procVars, errVars, openCtx>>

CallFlush(c) ==
    /\ pc[c] = "flush"
    /\ \/ /\ Len(toChild) <= room
          /\ pc' = [pc EXCEPT ![c] = "read"]
          /\ UNCHANGED <<op, id, timed, mu, outcome>>
       \/ /\ Len(toChild) > room /\ child = "dead"
          /\ Return(c, "io", 0) /\ Leave(c, "idle")
    /\ UNCHANGED <<closed, issued, childVars, loopVars, procVars, errVars, openCtx>>

Decoded(line) == IF line.kind \in {"ok", "err"} THEN line.kind ELSE "bad"

CallAnswered(c) ==
    /\ pc[c] = "read" /\ GotLine
    /\ Return(c, Decoded(slot), slot.id)
    /\ Leave(c, IF op[c] = "overwrite" /\ slot.kind = "ok"
                THEN "overwritten" ELSE "idle")
    /\ UNCHANGED <<closed, issued, childVars, procVars, errVars, openCtx>>

(* Fault: the error of the read loop is returned as it is.                 *)
CallFailed_RawError(c) ==
    /\ pc[c] = "read" /\ GotEnd
    /\ Return(c, slot.kind, 0) /\ Leave(c, "idle")
    /\ UNCHANGED <<closed, issued, childVars, procVars, errVars, openCtx>>

(* readLine failed while the context was live: the session stays open.     *)
CallFailed(c) ==
    /\ pc[c] = "read" /\ GotEnd
    /\ Return(c, "io", 0) /\ Leave(c, "idle")
    /\ UNCHANGED <<closed, issued, childVars, procVars, errVars, openCtx>>

(* Fault: the session is closed, its transport is not.                     *)
CallGivesUp_NoTeardown(c) ==
    /\ pc[c] = "read" /\ timed[c]
    /\ GotEnd \/ UNCHANGED loopVars
    /\ Return(c, "ctx", 0) /\ Leave(c, "idle")
    /\ closed' = TRUE
    /\ UNCHANGED <<issued, childVars, procVars, errVars, openCtx>>

(* The context has ended, and readLine returned for that or another error: *)
(* the session is closed, and "go s.t.Close" is left to release the rest.  *)
CallGivesUp(c) ==
    /\ pc[c] = "read" /\ timed[c]
    /\ GotEnd \/ UNCHANGED loopVars
    /\ Return(c, "ctx", 0)
    /\ closed' = TRUE
    /\ mu' = "free"
    /\ pc' = [pc EXCEPT ![c] = "idle", !["async"] = "teardown"]
    /\ op' = [op EXCEPT ![c] = "call"]
    /\ id' = [id EXCEPT ![c] = 0]
    /\ timed' = [timed EXCEPT ![c] = FALSE]
    /\ UNCHANGED <<issued, childVars, procVars, errVars, openCtx>>

-----------------------------------------------------------------------------
(* Client.Overwrite, once its call has succeeded and let go of the lock.   *)
OverwriteCloses(c) ==
    /\ pc[c] = "overwritten" /\ CanLock(c)
    /\ closed' = TRUE
    /\ pc' = [pc EXCEPT ![c] = "teardown"]
    /\ UNCHANGED <<op, id, timed, mu, issued, outcome,
                   childVars, loopVars, procVars, errVars, openCtx>>

(* session.Close; on a closed session it returns at once.                  *)
Close(c) ==
    /\ pc[c] = "idle" /\ CanLock(c) /\ ~closed
    /\ closed' = TRUE
    /\ mu' = c
    /\ pc' = [pc EXCEPT ![c] = "closeWrite"]
    /\ UNCHANGED <<op, id, timed, issued, outcome,
                   childVars, loopVars, procVars, errVars, openCtx>>

CloseWrite(c) ==
    /\ pc[c] = "closeWrite"
    /\ IF WriteFails
       THEN Leave(c, "teardown") /\ UNCHANGED toChild
       ELSE /\ toChild' = Append(toChild, CloseRequest)
            /\ pc' = [pc EXCEPT ![c] = "closeFlush"]
            /\ UNCHANGED <<op, id, timed, mu>>
    /\ UNCHANGED <<closed, issued, outcome, child, fromChild, holders, signal, room,
                   loopVars, procVars, errVars, openCtx>>

CloseFlush(c) ==
    /\ pc[c] = "closeFlush"
    /\ Len(toChild) <= room \/ child = "dead"
    /\ Leave(c, "teardown")
    /\ UNCHANGED <<closed, issued, outcome,
                   childVars, loopVars, procVars, errVars, openCtx>>

-----------------------------------------------------------------------------
(* Direct.Close, by caller, by Open or by "async".                         *)

(* stdin is closed and a Cmd.Wait started; a second Wait returns at once   *)
(* if the first one has set ProcessState.                                  *)
CloseStdin(t) ==
    /\ pc[t] = "teardown"
    /\ stdin' = FALSE
    /\ waiter' = [waiter EXCEPT ![t] = IF state = "known" THEN "done" ELSE "waiting"]
    /\ pc' = [pc EXCEPT ![t] = "waitExit"]
    /\ UNCHANGED <<op, id, timed, mu, closed, issued, outcome, pipes, reaped, state,
                   childVars, loopVars, errVars, openCtx>>

(* EXTERNAL: Cmd.Wait.  First Process.Wait collects the status; of two at  *)
(* once the loser gets none, and may overwrite ProcessState with it.       *)
CmdCollects(t) ==
    /\ waiter[t] = "waiting" /\ child = "dead"
    /\ waiter' = [waiter EXCEPT ![t] = "collected"]
    /\ reaped' = TRUE
    /\ state' \in IF reaped THEN {"nil", "known"} ELSE {"known"}
    /\ UNCHANGED <<stdin, pipes, errVars, childVars, callVars, loopVars, openCtx>>

(* EXTERNAL: then, if the context can end, it waits for the one result of  *)
(* the context's goroutine, and closes the read ends of the pipes,         *)
(* whatever is left to read.                                               *)
CmdWaitEnds(t) ==
    /\ waiter[t] = "collected" /\ openCtx # "taken"
    /\ waiter' = [waiter EXCEPT ![t] = "done"]
    /\ openCtx' = IF openCtx = "background" THEN openCtx ELSE "taken"
    /\ pipes' = FALSE
    /\ errBytes' = IF errBytes = "unread" THEN "lost" ELSE errBytes
    /\ UNCHANGED <<stdin, reaped, state, copier, childVars, callVars, loopVars>>

WaitReturned(t) ==
    /\ pc[t] \in {"waitExit", "waitTerm", "waitKill"} /\ waiter[t] = "done"
    /\ pc' = [pc EXCEPT ![t] = "waitStderr"]
    /\ waiter' = [waiter EXCEPT ![t] = "none"]
    /\ UNCHANGED <<op, id, timed, mu, closed, issued, outcome, stdin, pipes, reaped,
                   state, childVars, loopVars, errVars, openCtx>>

(* waitFor timed out.  A signal to a reaped child is not sent.             *)
Escalate(t, from, sig, to) ==
    /\ pc[t] = from
    /\ signal' = IF reaped \/ signal = "kill" THEN signal ELSE sig
    /\ pc' = [pc EXCEPT ![t] = to]
    /\ UNCHANGED <<op, id, timed, mu, closed, issued, outcome, child, toChild,
                   fromChild, holders, room, loopVars, procVars, errVars, openCtx>>

Terminate(t) == Escalate(t, "waitExit", "term", "waitTerm")

(* Fault: Close waits on after SIGTERM.                                    *)
Kill_Missing(t) == FALSE

Kill(t) == Escalate(t, "waitTerm", "kill", "waitKill")

StderrWaited(t) ==
    /\ pc[t] = "waitStderr" /\ copier = "done"
    /\ pc' = [pc EXCEPT ![t] = CASE t \in Callers -> "idle"
                                      [] t = "open"   -> "failed"
                                      [] t = "async"  -> "over"]
    /\ UNCHANGED <<op, id, timed, mu, closed, issued, outcome,
                   childVars, loopVars, procVars, errVars, openCtx>>

(* The goroutine that copies stderr into the sink.                         *)
CopyStderr ==
    /\ copier = "running"
    /\ \/ /\ errBytes = "unread" /\ pipes
          /\ errBytes' = "none" /\ UNCHANGED copier
       \/ /\ ~pipes \/ (errBytes # "unread" /\ StderrEnded)
          /\ copier' = "done" /\ UNCHANGED errBytes
    /\ UNCHANGED <<childVars, callVars, loopVars, procVars, openCtx>>

-----------------------------------------------------------------------------
(* The context given to Open, which exec.CommandContext keeps.             *)

(* It ends: the goroutine of CommandContext kills the child, unless it is  *)
(* reaped.                                                                 *)
OpenCtxDone ==
    /\ openCtx = "live"
    /\ openCtx' = "done"
    /\ signal' = IF reaped THEN signal ELSE "kill"
    /\ UNCHANGED <<child, toChild, fromChild, holders, room,
                   callVars, loopVars, procVars, errVars>>

(* EXTERNAL: the server of module Child.                                   *)
ChildStep ==
    /\ ChildNext
    /\ UNCHANGED <<callVars, loopVars, procVars, errVars, openCtx>>

-----------------------------------------------------------------------------
User(c) == CallRefused(c) \/ CallStart(c) \/ Close(c)

CallerStep(c) ==
    \/ CallWrite(c) \/ CallFlush(c) \/ CallAnswered(c) \/ CallFailed(c)
    \/ CallGivesUp(c) \/ OverwriteCloses(c) \/ CloseWrite(c) \/ CloseFlush(c)

CloseStep(t) ==
    \/ CloseStdin(t) \/ CmdCollects(t) \/ CmdWaitEnds(t) \/ WaitReturned(t)
    \/ Terminate(t) \/ Kill(t) \/ StderrWaited(t)

LoopStep == LoopRead \/ LoopSend

Next ==
    \/ HelloAccepted \/ HelloFailed
    \/ \E c \in Callers : User(c) \/ CallerStep(c)
    \/ \E t \in Threads : CloseStep(t)
    \/ LoopStep \/ CopyStderr
    \/ OpenCtxDone
    \/ ChildStep

Spec == Init /\ [][Next]_vars

(* Every goroutine that can run does, and the kernel delivers SIGKILL.     *)
Fairness ==
    /\ WF_vars(HelloAccepted \/ HelloFailed)
    /\ \A c \in Callers : WF_vars(CallerStep(c))
    /\ \A t \in Threads : WF_vars(CloseStep(t))
    /\ WF_vars(LoopStep) /\ WF_vars(CopyStderr)
    /\ WF_vars(ChildKilled
                /\ UNCHANGED <<callVars, loopVars, procVars, errVars, openCtx>>)

FairSpec == Spec /\ Fairness

-----------------------------------------------------------------------------
(* Safety.                                                                 *)

(* Once the session is closed (or never was) and no Close runs any more,   *)
(* the child is reaped, its pipes are closed, the stderr copier is done    *)
(* and the lock is free.                                                   *)
AtRest == /\ closed \/ pc["open"] = "failed"
          /\ \A t \in Threads : pc[t] \in {"idle", "over", "failed"}
ReleasedAtRest ==
    AtRest => reaped /\ ~stdin /\ ~pipes /\ copier = "done" /\ mu = "free"

(* What the stderr sink is for: when Direct.Close is over, it has received *)
(* all that the child wrote.                                               *)
StderrComplete == reaped /\ copier = "done" => errBytes = "none"

(* After Open has returned, its context kills no child: only the last      *)
(* stage of a Close does.                                                  *)
OpenCtxOnlyOpens ==
    [][signal' = "kill" /\ signal # "kill" /\ Opened
          => \E t \in Threads : pc[t] = "waitTerm"]_vars

-----------------------------------------------------------------------------
(* The promise to callers.                                                 *)

AbstractPhase ==
    IF pc["open"] = "hello" THEN "opening"
    ELSE IF Opened /\ ~closed THEN "open" ELSE "closed"

Meaning == [none |-> "new", pending |-> "pending", ok |-> "answered",
            err |-> "answered", bad |-> "answered", io |-> "failed",
            ctx |-> "failed", closed |-> "refused"]

AbstractStatus(o, i) ==
    IF o.kind \in Answered /\ o.re # i THEN "stale" ELSE Meaning[o.kind]

Connection == INSTANCE SerialConnection WITH
    phase  <- AbstractPhase,
    status <- [i \in Ids |-> AbstractStatus(outcome[i], i)]

(* Any number of goroutines see one serial connection.  Responses carry no *)
(* id: whatever was cancelled or closed, a goroutine that gets one gets    *)
(* that of its own request (another one would be "stale", which is no      *)
(* status there).                                                          *)
ImplementsConnection == Connection!Spec

-----------------------------------------------------------------------------
(* Liveness, under FairSpec.                                               *)

PipeTakesAll == room > MaxRequests

(* A call whose context ends returns, if its request fits the pipe (a      *)
(* write does not look at the context).                                    *)
CallReturns ==
    \A c \in Callers :
        pc[c] \in Calling /\ timed[c] /\ PipeTakesAll ~> pc[c] \notin Calling

(* Two Closes overlap (Overwrite does not look at s.closed): both wait for *)
(* the one result of the context's goroutine, and one waits forever.       *)
WaitLost == \E t \in Threads : waiter[t] = "collected" /\ openCtx = "taken"

(* A closed session is released in the end, even with a grandchild on its  *)
(* stderr, if the close op fits the pipe and no Wait is lost.              *)
ClosedIsReleased == closed /\ PipeTakesAll ~> AtRest \/ WaitLost

(* Both: neither the caller nor the child of a call that gave up is left   *)
(* waiting for the other (sandbox.go:149-173, direct.go:127-171).          *)
CallReturnsCloseReleases == CallReturns /\ ClosedIsReleased
=============================================================================
