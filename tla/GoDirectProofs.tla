--------------------------- MODULE GoDirectProofs ---------------------------
(***************************************************************************)
(* What holds of GoDirect for every set of goroutines, every number of     *)
(* requests and every pipe, with proofs.                                   *)
(*                                                                         *)
(* Whoever holds session.mu is the only one with a request on its way, and *)
(* it finds none there when it takes the lock (FlightInv): a call whose    *)
(* context ended leaves one behind, but closes the session before it lets  *)
(* go of the lock.  When no Direct.Close runs any more, everything is      *)
(* released, although a Cmd.Wait may return before the one it lost the     *)
(* child to has closed the pipes: that one still runs (WaitInv).           *)
(***************************************************************************)
EXTENDS GoDirect, ChildProofs

(* The read loop may still hand out a line.                                *)
Live == loop # "ended"

Carries(item) == item.kind \notin {"none", "eof"}
Count(item)   == IF Carries(item) THEN 1 ELSE 0
InFlight == Len(toChild) + Len(fromChild) + Count(held) + Count(slot)

(* Everything on its way is of request i.                                  *)
AllOf(i) ==
    /\ \A k \in 1..Len(toChild) : toChild[k].id = i
    /\ \A k \in 1..Len(fromChild) : fromChild[k].id = i
    /\ Carries(held) => held.id = i
    /\ Carries(slot) => slot.id = i

(* A request that never left because the server died may stay in the pipe. *)
NothingInFlight ==
    /\ child # "booting"
    /\ child # "dead" => toChild = <<>>
    /\ fromChild = <<>> /\ ~Carries(held) /\ ~Carries(slot)

(* Where each goroutine may be, and who holds session.mu.                  *)
Locked == Calling \cup {"closeWrite", "closeFlush"}
LockInv ==
    /\ pc["open"] \in {"hello", "over", "failed"} \cup Teardown
    /\ pc["async"] \in {"over"} \cup Teardown
    /\ \A c \in Callers : /\ pc[c] \in {"idle", "overwritten"} \cup Locked \cup Teardown
                          /\ pc[c] \in Locked <=> mu = c
                          /\ pc[c] \in Calling => ~closed
                          /\ pc[c] \in {"closeWrite", "closeFlush"} => closed
    /\ ~Opened => ~closed /\ issued = 0 /\ \A c \in Callers : pc[c] = "idle"

(* The channel is closed behind the terminal item, the last one.           *)
LoopInv ==
    /\ loop # "sending" => held = NoItem
    /\ slot.kind \in Terminals => loop = "ended"
    /\ loop = "ended" => slot = NoItem \/ slot.kind \in Terminals

FlightInv ==
    Live => /\ pc["open"] = "hello" => /\ InFlight <= 1 /\ toChild = <<>>
                                       /\ child = "booting" => InFlight = 0
            /\ Opened /\ ~closed => child # "booting"
            /\ Opened /\ ~closed /\ mu = "free" => NothingInFlight
            /\ \A c \in Callers :
                  /\ pc[c] = "write" => NothingInFlight
                  /\ pc[c] \in {"flush", "read"} => InFlight <= 1 /\ AllOf(id[c])

(* What a goroutine in Direct.Close has behind it.  A Cmd.Wait that did    *)
(* not find the status itself may return before the one that did has       *)
(* closed the read ends of the pipes.                                      *)
Waits   == {"waitExit", "waitTerm", "waitKill"}
Path    == Teardown \cup {"closeWrite", "closeFlush"}
Released == reaped /\ ~stdin /\ copier = "done"
WaitInv ==
    /\ \A t \in Threads : /\ waiter[t] # "none" <=> pc[t] \in Waits
                          /\ waiter[t] \in {"collected", "done"} => reaped
    /\ state = "known" => reaped
    /\ reaped /\ pipes => \E t \in Threads : waiter[t] = "collected"
    /\ ~closed => pc["async"] = "over"
ReleaseInv ==
    /\ \A t \in Threads : /\ pc[t] \in Teardown \ {"teardown"} => ~stdin
                          /\ pc[t] = "waitStderr" => reaped
    /\ pc["open"] = "failed" => Released
    /\ closed => Released \/ \E t \in Threads : pc[t] \in Path

(* Calls are admitted in order, one at a time.                             *)
OrderInv ==
    /\ \A c \in Callers : pc[c] \in Calling => id[c] = issued /\ issued \in Ids
    /\ \A i \in Ids : /\ i > issued => outcome[i].kind = "none"
                      /\ i <= issued => outcome[i].kind # "none"
                      /\ outcome[i].kind = "pending" <=>
                            i = issued /\ \E c \in Callers : pc[c] \in Calling

IInv == TypeOK /\ LockInv /\ LoopInv /\ FlightInv /\ WaitInv /\ ReleaseInv /\ OrderInv

-----------------------------------------------------------------------------
(* Type correctness, part by part.                                         *)

USE DEF vars, childVars, callVars, loopVars, procVars, errVars

CallTypeOK ==
    /\ pc \in [Threads -> Labels]
    /\ op \in [Callers -> {"call", "overwrite"}]
    /\ id \in [Callers -> 0..MaxRequests]
    /\ timed \in [Callers -> BOOLEAN]
    /\ mu \in Callers \cup {"free"}
    /\ closed \in BOOLEAN
    /\ issued \in 0..MaxRequests
    /\ outcome \in [Ids -> [re : 0..MaxRequests, kind : Outcomes]]

LoopTypeOK ==
    /\ slot \in Items \cup {NoItem} /\ held \in Items \cup {NoItem}
    /\ loop \in {"reading", "sending", "ended"}

ProcTypeOK ==
    /\ stdin \in BOOLEAN /\ pipes \in BOOLEAN /\ reaped \in BOOLEAN
    /\ state \in {"nil", "known"}
    /\ waiter \in [Threads -> WaiterStates]

RestTypeOK ==
    /\ errBytes \in {"none", "unread", "lost"}
    /\ copier \in {"running", "done"}
    /\ openCtx \in CtxStates

LEMMA Types == TypeOK <=> ChildTypeOK /\ CallTypeOK /\ LoopTypeOK /\ ProcTypeOK /\ RestTypeOK
BY DEF TypeOK, CallTypeOK, LoopTypeOK, ProcTypeOK, RestTypeOK

LEMMA TypesNext ==
  ASSUME ChildTypeOK', CallTypeOK', LoopTypeOK', ProcTypeOK', RestTypeOK'
  PROVE  TypeOK'
BY DEF TypeOK, CallTypeOK, LoopTypeOK, ProcTypeOK, RestTypeOK

(* A caller is a goroutine, and none of the other ones.                    *)
LEMMA CallerIsThread ==
  ASSUME NEW c \in Callers
  PROVE  c \in Threads /\ c # "open" /\ c # "async" /\ c # "free"
BY CallersAssumption DEF Threads

(* A line read from the pipe is an item for the channel.                   *)
LEMMA LineIsItem == ASSUME NEW line \in Line PROVE line \in Items
  BY DEF Line, Items

(* Receiving from the channel keeps the read loop well typed.              *)
LEMMA TakeType ==
  ASSUME LoopTypeOK, GotLine \/ GotEnd \/ UNCHANGED loopVars
  PROVE  LoopTypeOK'
BY DEF GotLine, GotEnd, LoopTypeOK

(* One goroutine goes on to another statement.                             *)
LEMMA Moved ==
  ASSUME CallTypeOK, NEW t \in Threads, NEW l \in Labels,
         pc' = [pc EXCEPT ![t] = l]
  PROVE  /\ pc' \in [Threads -> Labels] /\ pc'[t] = l
         /\ \A u \in Threads \ {t} : pc'[u] = pc[u]
BY DEF CallTypeOK

(* The lock is let go, with it the locals of the call.                     *)
Unlock(c) ==
    /\ mu' = "free"
    /\ op' = [op EXCEPT ![c] = "call"]
    /\ id' = [id EXCEPT ![c] = 0]
    /\ timed' = [timed EXCEPT ![c] = FALSE]

LEMMA Leaves ==
  ASSUME NEW c, NEW l, Leave(c, l)
  PROVE  Unlock(c) /\ pc' = [pc EXCEPT ![c] = l]
BY DEF Leave, Unlock

LEMMA GivingUp ==
  ASSUME NEW c, CallGivesUp(c)
  PROVE  Unlock(c) /\ pc' = [pc EXCEPT ![c] = "idle", !["async"] = "teardown"]
BY DEF CallGivesUp, Unlock

LEMMA UnlockType ==
  ASSUME CallTypeOK, NEW c \in Callers, Unlock(c)
  PROVE  /\ op' \in [Callers -> {"call", "overwrite"}]
         /\ id' \in [Callers -> 0..MaxRequests]
         /\ timed' \in [Callers -> BOOLEAN]
         /\ mu' \in Callers \cup {"free"}
BY MaxRequestsAssumption DEF CallTypeOK, Unlock

(* What a call returns.                                                    *)
LEMMA OutcomeType ==
  ASSUME CallTypeOK, NEW i, NEW r \in 0..MaxRequests, NEW k \in Outcomes,
         outcome' = [outcome EXCEPT ![i] = [re |-> r, kind |-> k]]
  PROVE  outcome' \in [Ids -> [re : 0..MaxRequests, kind : Outcomes]]
BY DEF CallTypeOK

LEMMA Constants0 ==
  /\ 0 \in 0..MaxRequests
  /\ \A k \in {"io", "ctx", "pending", "closed"} : k \in Outcomes
  /\ "open" \in Threads /\ "async" \in Threads
BY MaxRequestsAssumption DEF Outcomes, Threads

(* A call that returns, and goes on to the next statement of its goroutine.*)
LEMMA ReturnType ==
  ASSUME CallTypeOK, NEW c \in Callers, NEW k \in Outcomes, NEW r \in 0..MaxRequests,
         NEW l \in Labels, Return(c, k, r), Leave(c, l),
         closed' \in BOOLEAN, UNCHANGED issued
  PROVE  CallTypeOK'
<1>1. outcome' \in [Ids -> [re : 0..MaxRequests, kind : Outcomes]]
  BY OutcomeType DEF Return
<1>2. pc' \in [Threads -> Labels]
  BY CallerIsThread, Moved, Leaves
<1> QED
  BY <1>1, <1>2, UnlockType, Leaves DEF CallTypeOK

(* Every action keeps the calls well typed.                                *)
LEMMA CallerType ==
  ASSUME TypeOK, NEW c \in Callers, User(c) \/ CallerStep(c)
  PROVE  CallTypeOK'
<1>1. CallTypeOK /\ LoopTypeOK
  BY Types
<1>2. /\ c \in Threads
      /\ Calling \cup {"idle", "overwritten", "closeWrite", "closeFlush", "teardown"} \subseteq Labels
  BY CallerIsThread DEF Labels, Teardown
<1>3. CASE CallRefused(c)
  <2>1. outcome' \in [Ids -> [re : 0..MaxRequests, kind : Outcomes]]
    BY <1>1, <1>3, OutcomeType, Constants0 DEF CallRefused
  <2> QED
    BY <1>1, <1>3, <2>1, MaxRequestsAssumption DEF CallRefused, CallTypeOK
<1>4. CASE CallStart(c)
  <2>1. outcome' \in [Ids -> [re : 0..MaxRequests, kind : Outcomes]]
    BY <1>1, <1>4, OutcomeType, Constants0 DEF CallStart, Admit
  <2>2. issued + 1 \in 0..MaxRequests /\ issued' = issued + 1
    BY <1>1, <1>4, MaxRequestsAssumption DEF CallStart, Admit, CallTypeOK
  <2>3. pc' \in [Threads -> Labels]
    BY <1>1, <1>2, <1>4, Moved DEF CallStart, Admit, Calling
  <2>4. /\ op' \in [Callers -> {"call", "overwrite"}]
        /\ id' \in [Callers -> 0..MaxRequests]
        /\ timed' \in [Callers -> BOOLEAN]
    BY <1>1, <1>4, <2>2 DEF CallStart, Admit, CallTypeOK
  <2> QED
    BY <1>1, <1>4, <2>1, <2>2, <2>3, <2>4 DEF CallStart, Admit, CallTypeOK
<1>5. CASE Close(c)
  <2>1. pc' \in [Threads -> Labels]
    BY <1>1, <1>2, <1>5, Moved DEF Close
  <2> QED
    BY <1>1, <1>5, <2>1 DEF Close, CallTypeOK
<1>6. CASE CallWrite(c)
  <2>1. CASE WriteFails
    BY <1>1, <1>2, <1>6, <2>1, ReturnType, Constants0 DEF CallWrite, CallTypeOK
  <2>2. CASE ~WriteFails
    <3>1. pc' \in [Threads -> Labels]
      BY <1>1, <1>2, <1>6, <2>2, Moved DEF CallWrite, Calling
    <3> QED
      BY <1>1, <1>6, <2>2, <3>1 DEF CallWrite, CallTypeOK
  <2> QED
    BY <2>1, <2>2
<1>7. CASE CallFlush(c)
  <2>1. CASE Return(c, "io", 0) /\ Leave(c, "idle")
    BY <1>1, <1>2, <1>7, <2>1, ReturnType, Constants0 DEF CallFlush, CallTypeOK
  <2>2. CASE pc' = [pc EXCEPT ![c] = "read"] /\ UNCHANGED <<op, id, timed, mu, outcome>>
    <3>1. pc' \in [Threads -> Labels]
      BY <1>1, <1>2, <2>2, Moved DEF Calling
    <3> QED
      BY <1>1, <1>7, <2>2, <3>1 DEF CallFlush, CallTypeOK
  <2> QED
    BY <1>7, <2>1, <2>2 DEF CallFlush
<1>8. CASE CallAnswered(c)
  <2>1. Decoded(slot) \in Outcomes /\ slot.id \in 0..MaxRequests
    BY <1>1, MaxRequestsAssumption DEF Decoded, Outcomes, Answered, LoopTypeOK, Items, NoItem
  <2>2. PICK l \in {"overwritten", "idle"} : Leave(c, l)
    BY <1>8 DEF CallAnswered
  <2> QED
    BY <1>1, <1>2, <1>8, <2>1, <2>2, ReturnType DEF CallAnswered, CallTypeOK
<1>9. CASE CallFailed(c)
  BY <1>1, <1>2, <1>9, ReturnType, Constants0 DEF CallFailed, CallTypeOK
<1>10. CASE CallGivesUp(c)
  <2>1. outcome' \in [Ids -> [re : 0..MaxRequests, kind : Outcomes]]
    BY <1>1, <1>10, OutcomeType, Constants0 DEF CallGivesUp, Return
  <2>2. pc' \in [Threads -> Labels]
    BY <1>1, <1>2, <1>10 DEF CallGivesUp, CallTypeOK
  <2> QED
    BY <1>1, <1>10, <2>1, <2>2, UnlockType, GivingUp DEF CallGivesUp, CallTypeOK
<1>11. CASE OverwriteCloses(c)
  <2>1. pc' \in [Threads -> Labels]
    BY <1>1, <1>2, <1>11, Moved DEF OverwriteCloses
  <2> QED
    BY <1>1, <1>11, <2>1 DEF OverwriteCloses, CallTypeOK
<1>12. CASE CloseWrite(c) \/ CloseFlush(c)
  <2>1. /\ UNCHANGED <<closed, issued, outcome>>
        /\ Leave(c, "teardown") \/ (pc' = [pc EXCEPT ![c] = "closeFlush"] /\ UNCHANGED <<op, id, timed, mu>>)
    BY <1>12 DEF CloseWrite, CloseFlush
  <2>2. pc' \in [Threads -> Labels]
    BY <1>1, <1>2, <2>1, Moved, Leaves
  <2> QED
    BY <1>1, <2>1, <2>2, UnlockType, Leaves DEF CallTypeOK
<1> QED
  BY <1>3, <1>4, <1>5, <1>6, <1>7, <1>8, <1>9, <1>10, <1>11, <1>12 DEF User, CallerStep

(* Where a goroutine goes that has left Direct.Close behind.               *)
LEMMA StderrTo ==
  ASSUME NEW t \in Threads, StderrWaited(t)
  PROVE  \E l \in {"idle", "failed", "over"} :
            /\ pc' = [pc EXCEPT ![t] = l]
            /\ l = "idle" => t \in Callers
            /\ l = "failed" => t = "open"
            /\ l = "over" => t = "async"
<1> DEFINE to == CASE t \in Callers -> "idle" [] t = "open" -> "failed" [] t = "async" -> "over"
<1>1. pc' = [pc EXCEPT ![t] = to]
  BY DEF StderrWaited
<1>2. CASE t \in Callers
  <2>1. t # "open" /\ t # "async"
    BY <1>2, CallerIsThread
  <2>2. to = "idle"
    BY <1>2, <2>1
  <2> QED
    BY <1>1, <1>2, <2>2
<1>3. CASE t = "open"
  <2>1. to = "failed"
    BY <1>3, CallersAssumption
  <2> QED
    BY <1>1, <1>3, <2>1
<1>4. CASE t = "async"
  <2>1. to = "over"
    BY <1>4, CallersAssumption
  <2> QED
    BY <1>1, <1>4, <2>1
<1> QED
  BY <1>2, <1>3, <1>4 DEF Threads

(* One who closes the transport goes one statement further, or its         *)
(* Cmd.Wait does; the session and the read loop do not see it.             *)
LEMMA CloseShape ==
  ASSUME NEW t \in Threads, CloseStep(t)
  PROVE  /\ UNCHANGED <<op, id, timed, mu, closed, issued, outcome, loopVars,
                        child, toChild, fromChild>>
         /\ \/ UNCHANGED pc
            \/ /\ pc[t] \in Teardown
               /\ \E l \in Teardown \cup {"idle", "failed", "over"} :
                     /\ pc' = [pc EXCEPT ![t] = l]
                     /\ l = "idle" => t \in Callers
                     /\ l = "failed" => t = "open"
                     /\ l = "over" => t = "async"
<1>1. CASE CloseStdin(t) \/ CmdCollects(t) \/ CmdWaitEnds(t) \/ WaitReturned(t)
  BY <1>1 DEF CloseStdin, CmdCollects, CmdWaitEnds, WaitReturned, Teardown
<1>2. CASE Terminate(t) \/ Kill(t)
  BY <1>2 DEF Terminate, Kill, Escalate, Teardown
<1>3. CASE StderrWaited(t)
  <2>1. pc[t] = "waitStderr" /\ UNCHANGED <<op, id, timed, mu, closed, issued, outcome, loopVars, childVars>>
    BY <1>3 DEF StderrWaited
  <2> QED
    BY <1>3, <2>1, StderrTo DEF Teardown
<1> QED
  BY <1>1, <1>2, <1>3 DEF CloseStep

LEMMA TypeStep == ASSUME TypeOK, [Next]_vars PROVE TypeOK'
<1>1. ChildTypeOK /\ CallTypeOK /\ LoopTypeOK /\ ProcTypeOK /\ RestTypeOK
  BY Types
<1>2. ASSUME UNCHANGED childVars PROVE ChildTypeOK'
  BY <1>1, <1>2 DEF ChildTypeOK
<1>3. ASSUME UNCHANGED callVars PROVE CallTypeOK'
  BY <1>1, <1>3 DEF CallTypeOK
<1>4. ASSUME UNCHANGED loopVars PROVE LoopTypeOK'
  BY <1>1, <1>4 DEF LoopTypeOK
<1>5. ASSUME UNCHANGED procVars PROVE ProcTypeOK'
  BY <1>1, <1>5 DEF ProcTypeOK
<1>6. ASSUME UNCHANGED <<errVars, openCtx>> PROVE RestTypeOK'
  BY <1>1, <1>6 DEF RestTypeOK
<1>7. ASSUME NEW t \in Threads, NEW l \in Labels, pc' = [pc EXCEPT ![t] = l],
             UNCHANGED <<op, id, timed, mu, closed, issued, outcome>>
      PROVE  CallTypeOK'
  BY <1>1, <1>7, Moved DEF CallTypeOK
<1>8. CASE HelloAccepted \/ HelloFailed
  <2>1. CallTypeOK'
    BY <1>7, <1>8, Constants0 DEF HelloAccepted, HelloFailed, Labels, Teardown
  <2>2. LoopTypeOK'
    BY <1>1, <1>8, TakeType DEF HelloAccepted, HelloFailed
  <2> QED
    BY <1>2, <1>5, <1>6, <1>8, <2>1, <2>2, TypesNext DEF HelloAccepted, HelloFailed
<1>9. ASSUME NEW c \in Callers, User(c) \/ CallerStep(c)
      PROVE  TypeOK'
  <2>1. CallTypeOK'
    BY <1>9, CallerType
  <2>2. UNCHANGED <<procVars, errVars, openCtx>>
    BY <1>9
       DEF User, CallerStep, CallRefused, CallStart, Admit, Close, CallWrite, CallFlush, CallAnswered,
           CallFailed, CallGivesUp, OverwriteCloses, CloseWrite, CloseFlush
  <2>3. LoopTypeOK'
    <3>1. GotLine \/ GotEnd \/ UNCHANGED loopVars
      BY <1>9
         DEF User, CallerStep, CallRefused, CallStart, Admit, Close, CallWrite, CallFlush, CallAnswered,
             CallFailed, CallGivesUp, OverwriteCloses, CloseWrite, CloseFlush
    <3> QED
      BY <1>1, <3>1, TakeType
  <2>4. ChildTypeOK'
    <3>1. [op |-> op[c], id |-> id[c]] \in Request
      BY <1>1, <1>9 DEF CallTypeOK, Request
    <3>2. ASSUME NEW r \in Request, toChild' = Append(toChild, r),
                 UNCHANGED <<child, fromChild, holders, signal, room>>
          PROVE  ChildTypeOK'
      BY <1>1, <3>2, RequestType
    <3>3. CASE CallWrite(c) \/ CloseWrite(c)
      BY <1>2, <3>1, <3>2, <3>3, CloseRequestType DEF CallWrite, CloseWrite
    <3> QED
      BY <1>2, <1>9, <3>3
         DEF User, CallerStep, CallRefused, CallStart, Admit, Close, CallFlush, CallAnswered,
             CallFailed, CallGivesUp, OverwriteCloses, CloseFlush
  <2> QED
    BY <1>5, <1>6, <2>1, <2>2, <2>3, <2>4, TypesNext
<1>10. ASSUME NEW t \in Threads, CloseStep(t)
       PROVE  TypeOK'
  <2>1. CASE CloseStdin(t)
    <3>1. CallTypeOK'
      BY <1>7, <2>1 DEF CloseStdin, Labels, Teardown
    <3>2. ProcTypeOK'
      BY <1>1, <2>1 DEF CloseStdin, ProcTypeOK, WaiterStates
    <3> QED
      BY <1>2, <1>4, <1>6, <2>1, <3>1, <3>2, TypesNext DEF CloseStdin
  <2>2. CASE CmdCollects(t)
    <3>1. ProcTypeOK'
      BY <1>1, <2>2 DEF CmdCollects, ProcTypeOK, WaiterStates
    <3> QED
      BY <1>2, <1>3, <1>4, <1>6, <2>2, <3>1, TypesNext DEF CmdCollects
  <2>3. CASE CmdWaitEnds(t)
    <3>1. ProcTypeOK'
      BY <1>1, <2>3 DEF CmdWaitEnds, ProcTypeOK, WaiterStates
    <3>2. RestTypeOK'
      BY <1>1, <2>3 DEF CmdWaitEnds, RestTypeOK, CtxStates
    <3> QED
      BY <1>2, <1>3, <1>4, <2>3, <3>1, <3>2, TypesNext DEF CmdWaitEnds
  <2>4. CASE WaitReturned(t)
    <3>1. CallTypeOK'
      BY <1>7, <2>4 DEF WaitReturned, Labels, Teardown
    <3>2. ProcTypeOK'
      BY <1>1, <2>4 DEF WaitReturned, ProcTypeOK, WaiterStates
    <3> QED
      BY <1>2, <1>4, <1>6, <2>4, <3>1, <3>2, TypesNext DEF WaitReturned
  <2>5. ASSUME NEW from, NEW sig \in {"term", "kill"}, NEW l \in Teardown, Escalate(t, from, sig, l)
        PROVE  TypeOK'
    <3>1. CallTypeOK'
      BY <1>7, <2>5 DEF Escalate, Labels
    <3>2. ChildTypeOK'
      BY <1>1, <2>5 DEF Escalate, ChildTypeOK
    <3> QED
      BY <1>4, <1>5, <1>6, <2>5, <3>1, <3>2, TypesNext DEF Escalate
  <2>6. CASE Terminate(t) \/ Kill(t)
    BY <2>5, <2>6 DEF Terminate, Kill, Teardown
  <2>7. CASE StderrWaited(t)
    <3>1. \E l \in {"idle", "failed", "over"} : pc' = [pc EXCEPT ![t] = l]
      BY <2>7, StderrTo
    <3>2. CallTypeOK'
      BY <1>7, <2>7, <3>1 DEF StderrWaited, Labels
    <3> QED
      BY <1>2, <1>4, <1>5, <1>6, <2>7, <3>2, TypesNext DEF StderrWaited
  <2> QED
    BY <1>10, <2>1, <2>2, <2>3, <2>4, <2>6, <2>7 DEF CloseStep
<1>11. CASE LoopRead
  <2>1. LoopTypeOK'
    <3>1. CASE fromChild # <<>> /\ held' = Head(fromChild)
      BY <1>1, <1>11, <3>1, HeadTail, LineIsItem DEF LoopRead, LoopTypeOK, ChildTypeOK
    <3>2. CASE held' = EofItem
      BY <1>1, <1>11, <3>2, MaxRequestsAssumption DEF LoopRead, LoopTypeOK, EofItem, Items
    <3> QED
      BY <1>11, <3>1, <3>2 DEF LoopRead
  <2>2. ChildTypeOK'
    BY <1>1, <1>11, HeadTail DEF LoopRead, ChildTypeOK
  <2> QED
    BY <1>3, <1>5, <1>6, <1>11, <2>1, <2>2, TypesNext DEF LoopRead
<1>12. CASE LoopSend
  <2>1. LoopTypeOK'
    BY <1>1, <1>12 DEF LoopSend, LoopTypeOK
  <2> QED
    BY <1>2, <1>3, <1>5, <1>6, <1>12, <2>1, TypesNext DEF LoopSend
<1>13. CASE CopyStderr
  <2>1. RestTypeOK'
    BY <1>1, <1>13 DEF CopyStderr, RestTypeOK
  <2> QED
    BY <1>2, <1>3, <1>4, <1>5, <1>13, <2>1, TypesNext DEF CopyStderr
<1>14. CASE OpenCtxDone
  <2>1. RestTypeOK' /\ ChildTypeOK'
    BY <1>1, <1>14 DEF OpenCtxDone, RestTypeOK, ChildTypeOK, CtxStates
  <2> QED
    BY <1>3, <1>4, <1>5, <1>14, <2>1, TypesNext DEF OpenCtxDone
<1>15. CASE ChildStep
  BY <1>1, <1>3, <1>4, <1>5, <1>6, <1>15, ChildNextType, TypesNext DEF ChildStep
<1>16. CASE UNCHANGED vars
  BY <1>2, <1>3, <1>4, <1>5, <1>6, <1>16, TypesNext
<1> QED
  BY <1>8, <1>9, <1>10, <1>11, <1>12, <1>13, <1>14, <1>15, <1>16 DEF Next, LoopStep

-----------------------------------------------------------------------------
(* Who holds the lock.                                                     *)

(* A caller moves on, and takes, keeps or lets go of the lock.             *)
LEMMA LockMoved ==
  ASSUME TypeOK, LockInv, Opened,
         NEW c \in Callers, NEW l \in {"idle", "overwritten"} \cup Locked \cup Teardown,
         pc'["open"] = pc["open"], pc'["async"] \in {"over"} \cup Teardown,
         pc'[c] = l, \A d \in Callers \ {c} : pc'[d] = pc[d],
         \/ mu \in {"free", c} /\ mu' \in {"free", c} /\ (l \in Locked <=> mu' = c)
         \/ UNCHANGED <<mu, closed>> /\ pc[c] \notin Locked /\ l \notin Locked,
         l \in Calling => ~closed',
         l \in {"closeWrite", "closeFlush"} => closed'
  PROVE  LockInv'
<1>1. Opened'
  BY DEF Opened
<1>2. ASSUME NEW d \in Callers \ {c}
      PROVE  /\ pc[d] \in Locked <=> mu' = d
             /\ pc[d] \in Calling => ~closed'
             /\ pc[d] \in {"closeWrite", "closeFlush"} => closed'
  BY <1>2, CallerIsThread DEF LockInv, Locked
<1>3. l \in Locked <=> mu' = c
  BY DEF LockInv
<1> QED
  BY <1>1, <1>2, <1>3 DEF LockInv, Opened

LEMMA LockStep ==
  ASSUME TypeOK, LockInv, [Next]_vars
  PROVE  LockInv'
<1>1. CallTypeOK
  BY Types
<1>2. ASSUME UNCHANGED <<pc, mu, closed, issued>>
      PROVE  LockInv'
  BY <1>2 DEF LockInv, Opened
<1>3. ASSUME NEW l \in {"over", "failed"} \cup Teardown, ~Opened,
             pc' = [pc EXCEPT !["open"] = l], UNCHANGED <<mu, closed, issued>>
      PROVE  LockInv'
  <2>1. pc'["open"] = l /\ pc'["async"] = pc["async"] /\ \A d \in Callers : pc'[d] = pc[d]
    BY <1>1, <1>3, CallerIsThread, Constants0 DEF CallTypeOK
  <2> QED
    BY <1>3, <2>1 DEF LockInv, Opened
<1>4. CASE HelloAccepted \/ HelloFailed
  BY <1>3, <1>4 DEF HelloAccepted, HelloFailed, Opened, Teardown
<1>5. ASSUME NEW c \in Callers, User(c) \/ CallerStep(c)
      PROVE  LockInv'
  <2>1. c \in Threads /\ c # "open" /\ c # "async" /\ mu \in Callers \cup {"free"}
        /\ "open" \in Threads /\ "async" \in Threads
    BY <1>1, CallerIsThread, Constants0 DEF CallTypeOK
  <2>2. Opened
    BY <1>5
       DEF LockInv, User, CallerStep, CallRefused, CallStart, Close, CanLock, CallWrite, CallFlush,
           CallAnswered, CallFailed, CallGivesUp, OverwriteCloses, CloseWrite, CloseFlush
  <2>3. ASSUME NEW l, pc' = [pc EXCEPT ![c] = l]
        PROVE  /\ pc'["open"] = pc["open"] /\ pc'["async"] \in {"over"} \cup Teardown
               /\ pc'[c] = l /\ \A d \in Callers \ {c} : pc'[d] = pc[d]
    BY <1>1, <2>1, <2>3, CallerIsThread DEF CallTypeOK, LockInv
  <2>4. ASSUME NEW l \in {"idle", "overwritten", "teardown"}, pc[c] \in Locked, Leave(c, l)
        PROVE  LockInv'
    <3>1. mu = c /\ mu' = "free" /\ pc' = [pc EXCEPT ![c] = l]
      BY <2>4 DEF LockInv, Leave, Unlock
    <3>2. l \in {"idle", "overwritten"} \cup Locked \cup Teardown /\ l \notin Locked
      BY <2>4 DEF Locked, Teardown, Calling
    <3> QED
      BY <2>2, <2>3, <3>1, <3>2, CallerIsThread, LockMoved DEF Locked
  <2>5. ASSUME NEW l \in Locked, pc[c] \in Locked, pc' = [pc EXCEPT ![c] = l],
               UNCHANGED <<mu, closed>>, l \in Calling <=> pc[c] \in Calling
        PROVE  LockInv'
    <3>1. mu = c /\ (l \in Calling => ~closed') /\ (l \in {"closeWrite", "closeFlush"} => closed')
      BY <2>5 DEF LockInv, Locked, Calling
    <3> QED
      BY <2>2, <2>3, <2>5, <3>1, LockMoved
  <2>6. CASE CallRefused(c)
    BY <2>2, <2>6 DEF CallRefused, LockInv, Opened
  <2>7. CASE CallStart(c)
    <3>1. mu = "free" /\ mu' = c /\ ~closed' /\ pc' = [pc EXCEPT ![c] = "write"]
      BY <2>7 DEF CallStart, CanLock, Admit
    <3>2. "write" \in Locked /\ "write" \in Calling /\ "free" # c
      BY CallerIsThread DEF Locked, Calling
    <3>3. /\ pc'["open"] = pc["open"] /\ pc'["async"] \in {"over"} \cup Teardown
          /\ pc'[c] = "write" /\ \A d \in Callers \ {c} : pc'[d] = pc[d]
      BY <2>3, <3>1
    <3>4. mu \in {"free", c} /\ mu' \in {"free", c} /\ ("write" \in Locked <=> mu' = c)
      BY <3>1, <3>2
    <3> QED
      BY <2>2, <3>1, <3>2, <3>3, <3>4, LockMoved
  <2>8. CASE Close(c)
    <3>1. mu = "free" /\ mu' = c /\ closed' /\ pc' = [pc EXCEPT ![c] = "closeWrite"]
      BY <2>8 DEF Close, CanLock
    <3>2. "closeWrite" \in Locked /\ "closeWrite" \notin Calling /\ "free" # c
      BY CallerIsThread DEF Locked, Calling
    <3>3. /\ pc'["open"] = pc["open"] /\ pc'["async"] \in {"over"} \cup Teardown
          /\ pc'[c] = "closeWrite" /\ \A d \in Callers \ {c} : pc'[d] = pc[d]
      BY <2>3, <3>1
    <3>4. mu \in {"free", c} /\ mu' \in {"free", c} /\ ("closeWrite" \in Locked <=> mu' = c)
      BY <3>1, <3>2
    <3> QED
      BY <2>2, <3>1, <3>2, <3>3, <3>4, LockMoved
  <2>9. CASE CallWrite(c) \/ CallFlush(c) \/ CallAnswered(c) \/ CallFailed(c)
    <3>1. \/ \E l \in {"idle", "overwritten", "teardown"} : Leave(c, l)
          \/ \E l \in {"flush", "read"} : pc' = [pc EXCEPT ![c] = l] /\ UNCHANGED mu
      BY <2>9 DEF CallWrite, CallFlush, CallAnswered, CallFailed
    <3>2. pc[c] \in Calling /\ UNCHANGED closed
      BY <2>9 DEF CallWrite, CallFlush, CallAnswered, CallFailed, Calling
    <3> QED
      BY <2>4, <2>5, <3>1, <3>2 DEF Locked, Calling
  <2>10. CASE CallGivesUp(c)
    <3>1. /\ pc' = [pc EXCEPT ![c] = "idle", !["async"] = "teardown"] /\ mu' = "free"
          /\ pc[c] = "read"
      BY <2>10 DEF CallGivesUp, Unlock
    <3>2. /\ pc'["open"] = pc["open"] /\ pc'["async"] = "teardown"
          /\ pc'[c] = "idle" /\ \A d \in Callers \ {c} : pc'[d] = pc[d]
      BY <1>1, <2>1, <3>1, CallerIsThread DEF CallTypeOK
    <3>3. mu = c
      BY <3>1 DEF LockInv, Locked, Calling
    <3>4. "idle" \notin Locked /\ mu' # c /\ "teardown" \in Teardown
      BY <3>1, CallerIsThread DEF Locked, Calling, Teardown
    <3> QED
      BY <2>2, <3>1, <3>2, <3>3, <3>4, LockMoved DEF Calling
  <2>11. CASE OverwriteCloses(c)
    <3>1. pc' = [pc EXCEPT ![c] = "teardown"] /\ mu = "free" /\ mu' = "free"
      BY <2>11 DEF OverwriteCloses, CanLock
    <3>2. "teardown" \in Teardown /\ "teardown" \notin Locked /\ "free" # c
      BY CallerIsThread DEF Teardown, Locked, Calling
    <3>3. /\ pc'["open"] = pc["open"] /\ pc'["async"] \in {"over"} \cup Teardown
          /\ pc'[c] = "teardown" /\ \A d \in Callers \ {c} : pc'[d] = pc[d]
      BY <2>3, <3>1
    <3>4. /\ mu \in {"free", c} /\ mu' \in {"free", c}
          /\ "teardown" \in Locked <=> mu' = c
      BY <3>1, <3>2
    <3>5. "teardown" \notin Calling /\ "teardown" \notin {"closeWrite", "closeFlush"}
      BY DEF Calling
    <3> QED
      BY <2>2, <3>2, <3>3, <3>4, <3>5, LockMoved
  <2>12. CASE CloseWrite(c) \/ CloseFlush(c)
    <3>1. \/ Leave(c, "teardown")
          \/ pc' = [pc EXCEPT ![c] = "closeFlush"] /\ UNCHANGED mu
      BY <2>12 DEF CloseWrite, CloseFlush
    <3>2. pc[c] \in {"closeWrite", "closeFlush"} /\ UNCHANGED closed
      BY <2>12 DEF CloseWrite, CloseFlush
    <3> QED
      BY <2>4, <2>5, <3>1, <3>2 DEF Locked, Calling
  <2> QED
    BY <1>5, <2>6, <2>7, <2>8, <2>9, <2>10, <2>11, <2>12 DEF User, CallerStep
<1>6. ASSUME NEW t \in Threads, CloseStep(t), ~UNCHANGED pc
      PROVE  LockInv'
  <2>1. PICK l \in Teardown \cup {"idle", "failed", "over"} :
           /\ pc[t] \in Teardown /\ pc' = [pc EXCEPT ![t] = l] /\ UNCHANGED <<mu, closed, issued>>
           /\ l = "idle" => t \in Callers
           /\ l = "failed" => t = "open"
           /\ l = "over" => t = "async"
    BY <1>6, CloseShape
  <2>2. pc'[t] = l /\ \A u \in Threads \ {t} : pc'[u] = pc[u]
    BY <1>1, <2>1 DEF CallTypeOK
  <2>3. CASE t \in Callers
    <3>1. t # "open" /\ t # "async" /\ "open" \in Threads /\ "async" \in Threads
      BY <2>3, CallerIsThread, Constants0
    <3>2. l \in {"idle"} \cup Teardown /\ l \notin Locked /\ pc[t] \notin Locked /\ pc[t] # "idle"
      BY <2>1, <3>1 DEF Teardown, Locked, Calling
    <3>3. Opened
      BY <2>3, <3>2 DEF LockInv
    <3>4. pc'["open"] = pc["open"] /\ pc'["async"] \in {"over"} \cup Teardown
          /\ \A d \in Callers \ {t} : pc'[d] = pc[d]
      BY <2>2, <3>1, CallerIsThread DEF LockInv
    <3> QED
      BY <2>1, <2>2, <2>3, <3>2, <3>3, <3>4, LockMoved DEF Locked
  <2>4. CASE t = "open"
    <3>1. ~Opened /\ l \in {"failed"} \cup Teardown
      BY <2>1, <2>4, CallersAssumption DEF Opened, Teardown
    <3> QED
      BY <1>3, <2>1, <2>4, <3>1
  <2>5. CASE t = "async"
    <3>1. l \in {"over"} \cup Teardown
      BY <2>1, <2>5, CallersAssumption
    <3>2. pc'["open"] = pc["open"] /\ pc'["async"] = l /\ \A d \in Callers : pc'[d] = pc[d]
      BY <2>2, <2>5, CallerIsThread, Constants0
    <3> QED
      BY <2>1, <3>1, <3>2 DEF LockInv, Opened
  <2> QED
    BY <2>3, <2>4, <2>5 DEF Threads
<1>7. ASSUME NEW t \in Threads, CloseStep(t), UNCHANGED pc
      PROVE  LockInv'
  BY <1>2, <1>7, CloseShape
<1>8. CASE LoopStep \/ CopyStderr \/ OpenCtxDone \/ ChildStep \/ UNCHANGED vars
  BY <1>2, <1>8 DEF LoopStep, LoopRead, LoopSend, CopyStderr, OpenCtxDone, ChildStep
<1> QED
  BY <1>4, <1>5, <1>6, <1>7, <1>8 DEF Next

-----------------------------------------------------------------------------
(* What the read loop holds, and what is in the channel.                   *)

(* A caller takes from the channel at most, and opens nothing again.       *)
LEMMA CallerFrame ==
  ASSUME NEW c \in Callers, User(c) \/ CallerStep(c)
  PROVE  /\ UNCHANGED <<procVars, errVars, openCtx>>
         /\ GotLine \/ GotEnd \/ UNCHANGED loopVars
         /\ closed => closed'
<1>1. CASE User(c)
  BY <1>1 DEF User, CallRefused, CallStart, Admit, Close
<1>2. CASE CallerStep(c)
  BY <1>2
     DEF CallerStep, CallWrite, CallFlush, CallAnswered, CallFailed, CallGivesUp, OverwriteCloses,
         CloseWrite, CloseFlush
<1> QED
  BY <1>1, <1>2

LEMMA LoopStepInv ==
  ASSUME LoopInv, [Next]_vars
  PROVE  LoopInv'
<1>1. ASSUME GotLine \/ GotEnd \/ UNCHANGED loopVars
      PROVE  LoopInv'
  BY <1>1 DEF GotLine, GotEnd, LoopInv, NoItem, Terminals
<1>2. CASE HelloAccepted \/ HelloFailed
  BY <1>1, <1>2 DEF HelloAccepted, HelloFailed
<1>3. ASSUME NEW c \in Callers, User(c) \/ CallerStep(c)
      PROVE  LoopInv'
  BY <1>1, <1>3, CallerFrame
<1>4. ASSUME NEW t \in Threads, CloseStep(t)
      PROVE  LoopInv'
  BY <1>1, <1>4, CloseShape
<1>5. CASE LoopStep
  BY <1>5 DEF LoopStep, LoopRead, LoopSend, LoopInv, NoItem
<1>6. CASE CopyStderr \/ OpenCtxDone \/ ChildStep \/ UNCHANGED vars
  BY <1>1, <1>6 DEF CopyStderr, OpenCtxDone, ChildStep
<1> QED
  BY <1>2, <1>3, <1>4, <1>5, <1>6 DEF Next

-----------------------------------------------------------------------------
(* What is closed stays closed.                                            *)

Kept ==
    /\ ~stdin => ~stdin'
    /\ ~pipes => ~pipes'
    /\ reaped => reaped'
    /\ copier = "done" => copier' = "done"
    /\ closed => closed'

LEMMA Monotone == ASSUME [Next]_vars PROVE Kept
<1>1. ASSUME NEW c \in Callers, User(c) \/ CallerStep(c)
      PROVE  Kept
  BY <1>1, CallerFrame DEF Kept
<1>2. ASSUME NEW t \in Threads, CloseStep(t)
      PROVE  Kept
  <2>1. UNCHANGED closed
    BY <1>2, CloseShape
  <2>2. CASE CloseStdin(t) \/ CmdCollects(t) \/ CmdWaitEnds(t) \/ WaitReturned(t)
    BY <2>1, <2>2 DEF CloseStdin, CmdCollects, CmdWaitEnds, WaitReturned, Kept
  <2>3. CASE Terminate(t) \/ Kill(t) \/ StderrWaited(t)
    BY <2>1, <2>3 DEF Terminate, Kill, Escalate, StderrWaited, Kept
  <2> QED
    BY <1>2, <2>2, <2>3 DEF CloseStep
<1>3. ASSUME UNCHANGED <<procVars, copier, closed>> PROVE Kept
  BY <1>3 DEF Kept
<1>4. CASE HelloAccepted \/ HelloFailed
  BY <1>3, <1>4 DEF HelloAccepted, HelloFailed
<1>5. CASE LoopStep \/ OpenCtxDone \/ ChildStep \/ UNCHANGED vars
  BY <1>3, <1>5 DEF LoopStep, LoopRead, LoopSend, OpenCtxDone, ChildStep
<1>6. CASE CopyStderr
  BY <1>6 DEF CopyStderr, Kept
<1> QED
  BY <1>1, <1>2, <1>4, <1>5, <1>6 DEF Next

-----------------------------------------------------------------------------
(* The Cmd.Wait of each goroutine in Direct.Close.                         *)

(* Where a caller goes from where it is not in Direct.Close.               *)
LEMMA CallerMoves ==
  ASSUME NEW c \in Callers, User(c) \/ CallerStep(c)
  PROVE  \/ UNCHANGED pc
         \/ /\ pc[c] \notin Teardown
            /\ \E l \in {"idle", "overwritten", "teardown"} \cup Locked : pc' = [pc EXCEPT ![c] = l]
         \/ CallGivesUp(c)
<1> USE DEF Calling, Locked, Teardown
<1>1. CASE CallRefused(c)
  BY <1>1 DEF CallRefused
<1>2. CASE CallStart(c) \/ Close(c) \/ OverwriteCloses(c) \/ CallFailed(c)
  BY <1>2, Leaves DEF CallStart, Admit, Close, OverwriteCloses, CallFailed
<1>3. CASE CallWrite(c) \/ CallFlush(c)
  BY <1>3, Leaves DEF CallWrite, CallFlush
<1>4. CASE CallAnswered(c)
  BY <1>4, Leaves DEF CallAnswered
<1>5. CASE CloseWrite(c) \/ CloseFlush(c)
  BY <1>5, Leaves DEF CloseWrite, CloseFlush
<1> QED
  BY <1>1, <1>2, <1>3, <1>4, <1>5 DEF User, CallerStep

(* One goroutine moves on, outside the waits of Direct.Close or in them.   *)
LEMMA WaitMoved ==
  ASSUME TypeOK, WaitInv, UNCHANGED procVars, closed => closed',
         NEW t \in Threads, NEW l, pc' = [pc EXCEPT ![t] = l],
         l \in Waits <=> pc[t] \in Waits,
         t = "async" => closed' \/ l = "over"
  PROVE  WaitInv'
<1>1. pc'[t] = l /\ \A u \in Threads \ {t} : pc'[u] = pc[u]
  BY DEF TypeOK
<1>2. \A u \in Threads : pc'[u] \in Waits <=> pc[u] \in Waits
  BY <1>1
<1>3. ~closed' => pc'["async"] = "over"
  BY <1>1, Constants0 DEF WaitInv
<1>4. /\ \A u \in Threads : /\ waiter[u] # "none" <=> pc'[u] \in Waits
                            /\ waiter[u] \in {"collected", "done"} => reaped
      /\ state = "known" => reaped
      /\ reaped /\ pipes => \E u \in Threads : waiter[u] = "collected"
  BY <1>2 DEF WaitInv
<1> QED
  BY <1>3, <1>4 DEF WaitInv

(* A Cmd.Wait goes one step further.                                       *)
LEMMA WaiterMoved ==
  ASSUME TypeOK, WaitInv, NEW t \in Threads, NEW w \in WaiterStates,
         waiter' = [waiter EXCEPT ![t] = w],
         \A u \in Threads \ {t} : pc'[u] = pc[u],
         w # "none" <=> pc'[t] \in Waits,
         w \in {"collected", "done"} => reaped',
         state' = "known" => reaped', reaped => reaped', pipes' => pipes,
         reaped' /\ pipes' => w = "collected" \/ (reaped /\ waiter[t] # "collected"),
         UNCHANGED closed, t = "async" => closed
  PROVE  WaitInv'
<1>1. waiter'[t] = w /\ \A u \in Threads \ {t} : waiter'[u] = waiter[u]
  BY DEF TypeOK
<1>2. ASSUME NEW u \in Threads
      PROVE  /\ waiter'[u] # "none" <=> pc'[u] \in Waits
             /\ waiter'[u] \in {"collected", "done"} => reaped'
  <2>1. CASE u = t
    BY <1>1, <2>1
  <2>2. CASE u # t
    BY <1>1, <2>2 DEF WaitInv
  <2> QED
    BY <2>1, <2>2
<1>3. reaped' /\ pipes' => \E u \in Threads : waiter'[u] = "collected"
  BY <1>1 DEF WaitInv
<1>4. ~closed' => pc'["async"] = "over"
  BY Constants0 DEF WaitInv
<1> QED
  BY <1>2, <1>3, <1>4 DEF WaitInv

LEMMA WaitStep ==
  ASSUME TypeOK, LockInv, WaitInv, [Next]_vars
  PROVE  WaitInv'
<1>1. CallTypeOK /\ Kept
  BY Types, Monotone
<1>2. ASSUME UNCHANGED <<pc, closed, procVars>>
      PROVE  WaitInv'
  BY <1>2 DEF WaitInv
<1>3. {"idle", "overwritten", "teardown", "hello", "over", "failed", "waitStderr"} \cap Waits = {}
      /\ Locked \cap Waits = {}
  BY DEF Waits, Locked, Calling
<1>4. CASE HelloAccepted \/ HelloFailed
  <2>1. /\ pc["open"] = "hello" /\ UNCHANGED <<procVars, closed>>
        /\ \E l \in {"over", "teardown"} : pc' = [pc EXCEPT !["open"] = l]
    BY <1>4 DEF HelloAccepted, HelloFailed
  <2> QED
    BY <1>3, <2>1, WaitMoved, Constants0
<1>5. ASSUME NEW c \in Callers, User(c) \/ CallerStep(c)
      PROVE  WaitInv'
  <2>1. UNCHANGED procVars /\ (closed => closed') /\ c \in Threads /\ c # "async"
    BY <1>5, CallerFrame, CallerIsThread
  <2>2. CASE UNCHANGED pc
    BY <2>1, <2>2 DEF WaitInv
  <2>3. ASSUME NEW l \in {"idle", "overwritten", "teardown"} \cup Locked,
               pc[c] \notin Teardown, pc' = [pc EXCEPT ![c] = l]
        PROVE  WaitInv'
    <3>1. pc[c] \notin Waits /\ l \notin Waits
      BY <1>3, <2>3 DEF Teardown, Waits
    <3> QED
      BY <2>1, <2>3, <3>1, WaitMoved
  <2>4. CASE CallGivesUp(c)
    <3>1. pc[c] = "read" /\ closed' /\ pc' = [pc EXCEPT ![c] = "idle", !["async"] = "teardown"]
      BY <2>4 DEF CallGivesUp
    <3>2. ~closed
      BY <3>1 DEF LockInv, Calling
    <3>3. pc[c] \notin Waits /\ pc["async"] \notin Waits
      BY <1>3, <3>1, <3>2 DEF WaitInv, Waits
    <3>4. /\ pc'[c] = "idle" /\ pc'["async"] = "teardown"
          /\ \A u \in Threads \ {c, "async"} : pc'[u] = pc[u]
      BY <1>1, <2>1, <3>1, Constants0 DEF CallTypeOK
    <3>5. \A u \in Threads : pc'[u] \in Waits <=> pc[u] \in Waits
      BY <1>3, <3>3, <3>4
    <3> QED
      BY <2>1, <3>1, <3>5 DEF WaitInv
  <2> QED
    BY <1>5, <2>2, <2>3, <2>4, CallerMoves
<1>6. ASSUME NEW t \in Threads, CloseStep(t)
      PROVE  WaitInv'
  <2>1. UNCHANGED closed
    BY <1>6, CloseShape
  <2>2. ASSUME pc[t] # "over" PROVE t = "async" => closed
    BY <2>2 DEF WaitInv
  <2>3. ASSUME NEW l, pc' = [pc EXCEPT ![t] = l]
        PROVE  pc'[t] = l /\ \A u \in Threads \ {t} : pc'[u] = pc[u]
    BY <1>1, <2>3 DEF CallTypeOK
  <2>4. CASE CloseStdin(t)
    <3>1. PICK w \in {"done", "waiting"} :
             waiter' = [waiter EXCEPT ![t] = w] /\ (w = "done" => state = "known")
      BY <2>4 DEF CloseStdin
    <3>2. /\ pc[t] = "teardown" /\ pc'[t] = "waitExit"
          /\ \A u \in Threads \ {t} : pc'[u] = pc[u]
      BY <2>3, <2>4 DEF CloseStdin
    <3>3. UNCHANGED <<state, reaped, pipes>>
      BY <2>4 DEF CloseStdin
    <3>4. waiter[t] = "none" /\ (state = "known" => reaped)
      BY <1>3, <3>2 DEF WaitInv
    <3>5. "waitExit" \in Waits /\ w \in WaiterStates /\ w # "none"
      BY <3>1 DEF Waits, WaiterStates
    <3> QED
      BY <2>1, <2>2, <3>1, <3>2, <3>3, <3>4, <3>5, WaiterMoved
  <2>5. CASE CmdCollects(t)
    <3>1. /\ waiter[t] = "waiting" /\ waiter' = [waiter EXCEPT ![t] = "collected"]
          /\ reaped' /\ UNCHANGED <<pipes, pc>>
      BY <2>5 DEF CmdCollects
    <3>2. pc[t] \in Waits
      BY <3>1 DEF WaitInv
    <3>3. "collected" \in WaiterStates /\ pc[t] # "over"
      BY <1>3, <3>2 DEF WaiterStates
    <3> QED
      BY <2>1, <2>2, <3>1, <3>2, <3>3, WaiterMoved
  <2>6. CASE CmdWaitEnds(t)
    <3>1. /\ waiter[t] = "collected" /\ waiter' = [waiter EXCEPT ![t] = "done"]
          /\ ~pipes' /\ UNCHANGED <<reaped, state, pc>>
      BY <2>6 DEF CmdWaitEnds
    <3>2. pc[t] \in Waits /\ reaped /\ (state = "known" => reaped)
      BY <3>1 DEF WaitInv
    <3>3. "done" \in WaiterStates /\ pc[t] # "over"
      BY <1>3, <3>2 DEF WaiterStates
    <3> QED
      BY <2>1, <2>2, <3>1, <3>2, <3>3, WaiterMoved
  <2>7. CASE WaitReturned(t)
    <3>1. /\ pc[t] \in Waits /\ waiter[t] = "done" /\ waiter' = [waiter EXCEPT ![t] = "none"]
          /\ UNCHANGED <<reaped, state, pipes>> /\ pc' = [pc EXCEPT ![t] = "waitStderr"]
      BY <2>7 DEF WaitReturned, Waits
    <3>2. pc'[t] = "waitStderr" /\ \A u \in Threads \ {t} : pc'[u] = pc[u]
      BY <2>3, <3>1
    <3>3. reaped /\ (state = "known" => reaped)
      BY <3>1 DEF WaitInv
    <3>4. "none" \in WaiterStates /\ pc[t] # "over" /\ "waitStderr" \notin Waits
      BY <1>3, <3>1 DEF WaiterStates
    <3> QED
      BY <2>1, <2>2, <3>1, <3>2, <3>3, <3>4, WaiterMoved
  <2>8. CASE Terminate(t) \/ Kill(t)
    <3>1. PICK l \in {"waitTerm", "waitKill"} : pc' = [pc EXCEPT ![t] = l]
      BY <2>8 DEF Terminate, Kill, Escalate
    <3>2. pc[t] \in Waits /\ UNCHANGED procVars
      BY <2>8 DEF Terminate, Kill, Escalate, Waits
    <3>3. l \in Waits /\ pc[t] # "over"
      BY <1>3, <3>2 DEF Waits
    <3> QED
      BY <2>1, <2>2, <3>1, <3>2, <3>3, WaitMoved
  <2>9. CASE StderrWaited(t)
    <3>1. PICK l \in {"idle", "failed", "over"} : pc' = [pc EXCEPT ![t] = l]
      BY <2>9, StderrTo
    <3>2. pc[t] = "waitStderr" /\ UNCHANGED procVars
      BY <2>9 DEF StderrWaited
    <3>3. l \notin Waits /\ pc[t] \notin Waits
      BY <1>3, <3>1, <3>2
    <3>4. t = "async" => closed
      BY <2>2, <3>2
    <3> QED
      BY <2>1, <3>1, <3>2, <3>3, <3>4, WaitMoved
  <2> QED
    BY <1>6, <2>4, <2>5, <2>6, <2>7, <2>8, <2>9 DEF CloseStep
<1>7. CASE LoopStep \/ CopyStderr \/ OpenCtxDone \/ ChildStep \/ UNCHANGED vars
  BY <1>2, <1>7 DEF LoopStep, LoopRead, LoopSend, CopyStderr, OpenCtxDone, ChildStep
<1> QED
  BY <1>4, <1>5, <1>6, <1>7 DEF Next

-----------------------------------------------------------------------------
(* The last goroutine to leave Direct.Close has released all.              *)

(* What a goroutine at statement l must have behind it.                    *)
Behind(l) ==
    /\ l \in Teardown \ {"teardown"} => ~stdin
    /\ l = "waitStderr" => reaped

LEMMA ReleasedKept == ASSUME Kept, Released PROVE Released'
  BY DEF Kept, Released

(* One goroutine moves on.                                                 *)
LEMMA ReleaseMoved ==
  ASSUME ReleaseInv, Kept, NEW t \in Threads, NEW l, pc'[t] = l,
         \A u \in Threads \ {t} : pc'[u] = pc[u],
         Behind(l)',
         t = "open" /\ l = "failed" => Released',
         closed' => Released' \/ l \in Path \/ (closed /\ pc[t] \notin Path)
  PROVE  ReleaseInv'
<1>1. ASSUME NEW u \in Threads
      PROVE  /\ pc'[u] \in Teardown \ {"teardown"} => ~stdin'
             /\ pc'[u] = "waitStderr" => reaped'
  <2>1. CASE u = t
    BY <2>1 DEF Behind
  <2>2. CASE u # t
    BY <2>2 DEF ReleaseInv, Kept
  <2> QED
    BY <2>1, <2>2
<1>2. pc'["open"] = "failed" => Released'
  BY ReleasedKept, Constants0 DEF ReleaseInv
<1>3. closed' => Released' \/ \E u \in Threads : pc'[u] \in Path
  BY ReleasedKept DEF ReleaseInv
<1> QED
  BY <1>1, <1>2, <1>3 DEF ReleaseInv

LEMMA ReleaseStep ==
  ASSUME TypeOK, LockInv, WaitInv, ReleaseInv, [Next]_vars
  PROVE  ReleaseInv'
<1>1. CallTypeOK /\ Kept
  BY Types, Monotone
<1>2. ASSUME UNCHANGED <<pc, closed>>
      PROVE  ReleaseInv'
  BY <1>1, <1>2 DEF ReleaseInv, Kept, Released
<1>3. ASSUME NEW t \in Threads, NEW l, pc' = [pc EXCEPT ![t] = l]
      PROVE  pc'[t] = l /\ \A u \in Threads \ {t} : pc'[u] = pc[u]
  BY <1>1, <1>3 DEF CallTypeOK
<1>4. ASSUME NEW l, l \notin Teardown \ {"teardown"} PROVE Behind(l)'
  BY <1>4 DEF Behind, Teardown
<1>5. CASE HelloAccepted \/ HelloFailed
  <2>1. PICK l \in {"over", "teardown"} : pc' = [pc EXCEPT !["open"] = l]
    BY <1>5 DEF HelloAccepted, HelloFailed
  <2>2. ~closed /\ UNCHANGED closed
    BY <1>5 DEF HelloAccepted, HelloFailed, LockInv, Opened
  <2>3. Behind(l)' /\ l # "failed"
    BY <1>4, <2>1 DEF Teardown
  <2> QED
    BY <1>1, <1>3, <2>1, <2>2, <2>3, Constants0, ReleaseMoved
<1>6. ASSUME NEW c \in Callers, User(c) \/ CallerStep(c)
      PROVE  ReleaseInv'
  <2>1. c \in Threads /\ c # "open" /\ c # "async"
    BY CallerIsThread
  <2>2. ASSUME NEW l \in Labels \ (Teardown \ {"teardown"}), pc' = [pc EXCEPT ![c] = l],
               closed' => l \in Path \/ (closed /\ pc[c] \notin Path)
        PROVE  ReleaseInv'
    BY <1>1, <1>3, <1>4, <2>1, <2>2, ReleaseMoved
  <2>3. CASE CallRefused(c)
    BY <1>2, <2>3 DEF CallRefused
  <2>4. CASE CallStart(c) \/ CallWrite(c) \/ CallFlush(c) \/ CallAnswered(c) \/ CallFailed(c)
    <3>1. ~closed'
      BY <2>4
         DEF CallStart, Admit, CallWrite, CallFlush, CallAnswered, CallFailed, LockInv, Calling
    <3>2. \E l \in {"idle", "overwritten", "write", "flush", "read"} : pc' = [pc EXCEPT ![c] = l]
      BY <2>4, Leaves DEF CallStart, Admit, CallWrite, CallFlush, CallAnswered, CallFailed
    <3> QED
      BY <2>2, <3>1, <3>2 DEF Labels, Calling, Teardown
  <2>5. CASE Close(c) \/ OverwriteCloses(c) \/ CloseWrite(c) \/ CloseFlush(c)
    <3>1. \E l \in {"teardown", "closeWrite", "closeFlush"} : pc' = [pc EXCEPT ![c] = l]
      BY <2>5, Leaves DEF Close, OverwriteCloses, CloseWrite, CloseFlush
    <3> QED
      BY <2>2, <3>1 DEF Labels, Teardown, Path
  <2>6. CASE CallGivesUp(c)
    <3>1. pc' = [pc EXCEPT ![c] = "idle", !["async"] = "teardown"]
      BY <2>6 DEF CallGivesUp
    <3>2. /\ pc'[c] = "idle" /\ pc'["async"] = "teardown"
          /\ \A u \in Threads \ {c, "async"} : pc'[u] = pc[u]
      BY <1>1, <2>1, <3>1, Constants0 DEF CallTypeOK
    <3>3. ASSUME NEW u \in Threads
          PROVE  /\ pc'[u] \in Teardown \ {"teardown"} => ~stdin'
                 /\ pc'[u] = "waitStderr" => reaped'
      <4>1. CASE u = c \/ u = "async"
        BY <3>2, <4>1 DEF Teardown
      <4>2. CASE u # c /\ u # "async"
        BY <1>1, <3>2, <4>2 DEF ReleaseInv, Kept
      <4> QED
        BY <4>1, <4>2
    <3>4. pc'["open"] = "failed" => Released'
      BY <1>1, <2>1, <3>2, ReleasedKept, Constants0 DEF ReleaseInv
    <3>5. \E u \in Threads : pc'[u] \in Path
      BY <3>2, Constants0 DEF Path, Teardown
    <3> QED
      BY <3>3, <3>4, <3>5 DEF ReleaseInv
  <2> QED
    BY <1>6, <2>3, <2>4, <2>5, <2>6 DEF User, CallerStep
<1>7. ASSUME NEW t \in Threads, CloseStep(t)
      PROVE  ReleaseInv'
  <2>1. ASSUME NEW l, pc' = [pc EXCEPT ![t] = l], Behind(l)', l \in Path \/ Released'
        PROVE  ReleaseInv'
    <3>1. l = "failed" => Released'
      BY <2>1 DEF Path, Teardown
    <3> QED
      BY <1>1, <1>3, <2>1, <3>1, ReleaseMoved
  <2>2. ASSUME pc[t] \in Teardown \ {"teardown"}
        PROVE  ~stdin' /\ (pc[t] = "waitStderr" => reaped')
    BY <1>1, <2>2 DEF ReleaseInv, Kept
  <2>3. CASE CloseStdin(t)
    <3>1. Behind("waitExit")' /\ "waitExit" \in Path
      BY <2>3 DEF CloseStdin, Behind, Path, Teardown
    <3> QED
      BY <2>1, <2>3, <3>1 DEF CloseStdin
  <2>4. CASE CmdCollects(t) \/ CmdWaitEnds(t)
    BY <1>2, <2>4 DEF CmdCollects, CmdWaitEnds
  <2>5. CASE WaitReturned(t)
    <3>1. /\ pc[t] \in Teardown \ {"teardown"} /\ waiter[t] = "done"
          /\ pc' = [pc EXCEPT ![t] = "waitStderr"]
      BY <2>5 DEF WaitReturned, Teardown
    <3>2. ~stdin' /\ reaped'
      BY <1>1, <2>2, <3>1 DEF WaitInv, Kept
    <3>3. Behind("waitStderr")' /\ "waitStderr" \in Path
      BY <3>2 DEF Behind, Path, Teardown
    <3> QED
      BY <2>1, <3>1, <3>3
  <2>6. CASE Terminate(t) \/ Kill(t)
    <3>1. PICK l \in {"waitTerm", "waitKill"} : pc' = [pc EXCEPT ![t] = l]
      BY <2>6 DEF Terminate, Kill, Escalate
    <3>2. ~stdin' /\ l \in Path
      BY <2>2, <2>6 DEF Terminate, Kill, Escalate, Teardown, Path
    <3>3. Behind(l)'
      BY <3>1, <3>2 DEF Behind
    <3> QED
      BY <2>1, <3>1, <3>2, <3>3
  <2>7. CASE StderrWaited(t)
    <3>1. PICK l \in {"idle", "failed", "over"} : pc' = [pc EXCEPT ![t] = l]
      BY <2>7, StderrTo
    <3>2. pc[t] = "waitStderr" /\ copier' = "done"
      BY <2>7 DEF StderrWaited
    <3>3. Released'
      BY <2>2, <3>2 DEF Released, Teardown
    <3>4. Behind(l)'
      BY <3>1 DEF Behind, Teardown
    <3> QED
      BY <2>1, <3>1, <3>3, <3>4
  <2> QED
    BY <1>7, <2>3, <2>4, <2>5, <2>6, <2>7 DEF CloseStep
<1>8. CASE LoopStep \/ CopyStderr \/ OpenCtxDone \/ ChildStep \/ UNCHANGED vars
  BY <1>2, <1>8 DEF LoopStep, LoopRead, LoopSend, CopyStderr, OpenCtxDone, ChildStep
<1> QED
  BY <1>5, <1>6, <1>7, <1>8 DEF Next

-----------------------------------------------------------------------------
(* The calls, one after the other.                                         *)

(* One caller at most is in a call: the one that holds the lock.           *)
LEMMA OneCalls ==
  ASSUME LockInv
  PROVE  /\ \A c, d \in Callers : pc[c] \in Calling /\ pc[d] \in Calling => c = d
         /\ mu = "free" => \A c \in Callers : pc[c] \notin Calling
BY CallerIsThread DEF LockInv, Locked

(* Where a step leads one caller, and leaves the other ones.               *)
LEMMA OneMoves ==
  ASSUME TypeOK, NEW c \in Callers, NEW l,
         pc' = [pc EXCEPT ![c] = l] \/ pc' = [pc EXCEPT ![c] = l, !["async"] = "teardown"]
  PROVE  pc'[c] = l /\ \A d \in Callers \ {c} : pc'[d] = pc[d]
<1>1. pc \in [Threads -> Labels]
  BY DEF TypeOK
<1> QED
  BY <1>1, CallerIsThread

(* The locals of a caller that lets go of the lock are its own.            *)
LEMMA OthersLocals ==
  ASSUME TypeOK, NEW c \in Callers, Unlock(c)
  PROVE  \A d \in Callers \ {c} : id'[d] = id[d]
BY DEF TypeOK, Unlock

(* Nobody starts a call or returns from one.                               *)
LEMMA OrderSame ==
  ASSUME OrderInv, UNCHANGED <<issued, outcome>>,
         \A d \in Callers : /\ pc'[d] \in Calling <=> pc[d] \in Calling
                            /\ pc'[d] \in Calling => id'[d] = id[d]
  PROVE  OrderInv'
BY DEF OrderInv

(* A call returns.                                                         *)
LEMMA OrderReturn ==
  ASSUME TypeOK, LockInv, OrderInv, NEW c \in Callers, pc[c] \in Calling,
         NEW k \in Outcomes \ {"none", "pending"}, NEW r, Return(c, k, r),
         UNCHANGED issued, Unlock(c), pc'[c] \notin Calling,
         \A d \in Callers \ {c} : pc'[d] = pc[d]
  PROVE  OrderInv'
<1>1. id[c] = issued /\ issued \in Ids
  BY DEF OrderInv
<1>2. \A d \in Callers : pc'[d] \notin Calling
  BY OneCalls
<1>3. /\ outcome'[issued].kind = k
      /\ \A i \in Ids \ {issued} : outcome'[i] = outcome[i]
  BY <1>1 DEF Return, TypeOK
<1> QED
  BY <1>1, <1>2, <1>3 DEF OrderInv, Ids, TypeOK

(* A new call is admitted or refused.                                      *)
LEMMA OrderNew ==
  ASSUME TypeOK, LockInv, OrderInv, mu = "free", issued < MaxRequests,
         issued' = issued + 1, NEW k \in {"pending", "closed"},
         outcome' = [outcome EXCEPT ![issued + 1] = [re |-> 0, kind |-> k]],
         \A d \in Callers : pc'[d] \in Calling => id'[d] = issued + 1,
         k = "pending" <=> \E d \in Callers : pc'[d] \in Calling
  PROVE  OrderInv'
<1>1. issued \in Nat /\ issued + 1 \in Ids
  BY MaxRequestsAssumption DEF TypeOK, Ids
<1>2. /\ outcome'[issued + 1].kind = k
      /\ \A i \in Ids \ {issued + 1} : outcome'[i] = outcome[i]
  BY <1>1 DEF TypeOK
<1>3. \A i \in Ids : outcome[i].kind # "pending"
  BY OneCalls DEF OrderInv
<1>4. ASSUME NEW i \in Ids
      PROVE  /\ i > issued' => outcome'[i].kind = "none"
             /\ i <= issued' => outcome'[i].kind # "none"
             /\ outcome'[i].kind = "pending" <=>
                   i = issued' /\ \E d \in Callers : pc'[d] \in Calling
  <2>1. CASE i = issued + 1
    BY <1>1, <1>2, <2>1
  <2>2. CASE i # issued + 1
    BY <1>1, <1>2, <1>3, <2>2 DEF OrderInv, Ids
  <2> QED
    BY <2>1, <2>2
<1> QED
  BY <1>1, <1>4 DEF OrderInv

LEMMA OrderStep ==
  ASSUME TypeOK, LockInv, OrderInv, [Next]_vars
  PROVE  OrderInv'
<1>1. CallTypeOK
  BY Types
<1>2. ASSUME UNCHANGED <<pc, id, issued, outcome>>
      PROVE  OrderInv'
  BY <1>2, OrderSame
<1>3. ASSUME NEW t \in Threads, NEW l \in Labels \ Calling, pc[t] \notin Calling,
             pc' = [pc EXCEPT ![t] = l], UNCHANGED <<id, issued, outcome>>
      PROVE  OrderInv'
  <2>1. \A d \in Callers : pc'[d] \in Calling <=> pc[d] \in Calling
    BY <1>1, <1>3, CallerIsThread DEF CallTypeOK
  <2> QED
    BY <1>3, <2>1, OrderSame
<1>4. CASE HelloAccepted \/ HelloFailed
  BY <1>3, <1>4, Constants0 DEF HelloAccepted, HelloFailed, Labels, Calling, Teardown
<1>5. ASSUME NEW c \in Callers, User(c) \/ CallerStep(c)
      PROVE  OrderInv'
  <2>1. ASSUME NEW l \in Labels, pc[c] \in Calling <=> l \in Calling, pc' = [pc EXCEPT ![c] = l],
               UNCHANGED <<issued, outcome>>,
               UNCHANGED id \/ (l \notin Calling /\ Unlock(c))
        PROVE  OrderInv'
    <3>1. pc'[c] = l /\ \A d \in Callers \ {c} : pc'[d] = pc[d]
      BY <2>1, OneMoves
    <3>2. \A d \in Callers : pc'[d] \in Calling => id'[d] = id[d]
      BY <2>1, <3>1, OthersLocals
    <3> QED
      BY <2>1, <3>1, <3>2, OrderSame
  <2>2. ASSUME NEW k \in Outcomes \ {"none", "pending"}, NEW r, pc[c] \in Calling,
               Return(c, k, r), UNCHANGED issued, NEW l \in {"idle", "overwritten"}, Unlock(c),
               \/ pc' = [pc EXCEPT ![c] = l]
               \/ pc' = [pc EXCEPT ![c] = l, !["async"] = "teardown"]
        PROVE  OrderInv'
    <3>1. pc'[c] = l /\ \A d \in Callers \ {c} : pc'[d] = pc[d]
      BY <2>2, OneMoves
    <3>2. l \notin Calling
      BY DEF Calling
    <3> QED
      BY <2>2, <3>1, <3>2, OrderReturn
  <2>3. {"io", "ctx"} \subseteq Outcomes \ {"none", "pending"}
    BY DEF Outcomes
  <2>4. CASE CallRefused(c)
    <3>1. \A d \in Callers : pc'[d] \notin Calling
      BY <2>4, OneCalls DEF CallRefused, CanLock
    <3> QED
      BY <2>4, <3>1, OrderNew DEF CallRefused, CanLock
  <2>5. CASE CallStart(c)
    <3>1. /\ mu = "free" /\ issued < MaxRequests /\ issued' = issued + 1
          /\ id' = [id EXCEPT ![c] = issued + 1] /\ pc' = [pc EXCEPT ![c] = "write"]
          /\ outcome' = [outcome EXCEPT ![issued + 1] = [re |-> 0, kind |-> "pending"]]
      BY <2>5 DEF CallStart, CanLock, Admit
    <3>2. pc'[c] = "write" /\ \A d \in Callers \ {c} : pc'[d] = pc[d]
      BY <3>1, OneMoves
    <3>3. id'[c] = issued + 1
      BY <1>1, <3>1 DEF CallTypeOK
    <3>4. pc'[c] \in Calling /\ \A d \in Callers \ {c} : pc'[d] \notin Calling
      BY <3>1, <3>2, OneCalls DEF Calling
    <3> QED
      BY <3>1, <3>3, <3>4, OrderNew
  <2>6. CASE CallWrite(c)
    BY <2>1, <2>2, <2>3, <2>6, Leaves DEF CallWrite, Calling, Labels
  <2>7. CASE CallFlush(c)
    BY <2>1, <2>2, <2>3, <2>7, Leaves DEF CallFlush, Calling, Labels
  <2>8. CASE CallAnswered(c)
    <3>1. Decoded(slot) \in Outcomes \ {"none", "pending"}
      BY DEF Decoded, Outcomes, Answered
    <3>2. PICK l \in {"idle", "overwritten"} : Leave(c, l)
      BY <2>8 DEF CallAnswered
    <3>3. /\ pc[c] \in Calling /\ Return(c, Decoded(slot), slot.id) /\ UNCHANGED issued
          /\ Unlock(c) /\ pc' = [pc EXCEPT ![c] = l]
      BY <2>8, <3>2, Leaves DEF CallAnswered, Calling
    <3> HIDE DEF Return, Unlock, Decoded
    <3> QED
      BY <2>2, <3>1, <3>3
  <2>9. CASE CallFailed(c)
    BY <2>2, <2>3, <2>9, Leaves DEF CallFailed, Calling
  <2>10. CASE CallGivesUp(c)
    <3>1. Unlock(c) /\ pc' = [pc EXCEPT ![c] = "idle", !["async"] = "teardown"]
      BY <2>10, GivingUp
    <3>2. pc[c] \in Calling /\ Return(c, "ctx", 0) /\ UNCHANGED issued
      BY <2>10 DEF CallGivesUp, Calling
    <3> QED
      BY <2>2, <2>3, <3>1, <3>2
  <2>11. CASE OverwriteCloses(c) \/ Close(c) \/ CloseWrite(c) \/ CloseFlush(c)
    <3>1. PICK l \in {"teardown", "closeWrite", "closeFlush"} :
             /\ pc' = [pc EXCEPT ![c] = l] /\ pc[c] \notin Calling
             /\ UNCHANGED <<issued, outcome>> /\ (UNCHANGED id \/ Unlock(c))
      BY <2>11, Leaves DEF OverwriteCloses, Close, CloseWrite, CloseFlush, Calling
    <3> QED
      BY <2>1, <3>1 DEF Labels, Calling, Teardown
  <2> QED
    BY <1>5, <2>4, <2>5, <2>6, <2>7, <2>8, <2>9, <2>10, <2>11 DEF User, CallerStep
<1>6. ASSUME NEW t \in Threads, CloseStep(t)
      PROVE  OrderInv'
  <2>1. UNCHANGED <<id, issued, outcome>>
    BY <1>6, CloseShape
  <2>2. CASE UNCHANGED pc
    BY <1>2, <2>1, <2>2
  <2>3. CASE ~UNCHANGED pc
    <3>1. PICK l \in Teardown \cup {"idle", "failed", "over"} :
             pc[t] \in Teardown /\ pc' = [pc EXCEPT ![t] = l]
      BY <1>6, <2>3, CloseShape
    <3>2. pc[t] \notin Calling /\ l \in Labels \ Calling
      BY <3>1 DEF Teardown, Calling, Labels
    <3> QED
      BY <1>3, <2>1, <3>1, <3>2
  <2> QED
    BY <2>2, <2>3
<1>7. CASE LoopStep \/ CopyStderr \/ OpenCtxDone \/ ChildStep \/ UNCHANGED vars
  BY <1>2, <1>7 DEF LoopStep, LoopRead, LoopSend, CopyStderr, OpenCtxDone, ChildStep
<1> QED
  BY <1>4, <1>5, <1>6, <1>7 DEF Next

-----------------------------------------------------------------------------
(* What is on its way.                                                     *)

LEMMA Lengths ==
  ASSUME TypeOK
  PROVE  /\ toChild \in Seq(Request) /\ fromChild \in Seq(Line)
         /\ Len(toChild) \in Nat /\ Len(fromChild) \in Nat
         /\ Len(toChild) = 0 <=> toChild = <<>>
         /\ Len(fromChild) = 0 <=> fromChild = <<>>
         /\ Count(held) \in {0, 1} /\ Count(slot) \in {0, 1}
         /\ Count(held) = 0 <=> ~Carries(held)
         /\ Count(slot) = 0 <=> ~Carries(slot)
         /\ InFlight \in Nat
<1>1. toChild \in Seq(Request) /\ fromChild \in Seq(Line)
  BY DEF TypeOK, ChildTypeOK
<1>2. /\ Len(toChild) \in Nat /\ Len(fromChild) \in Nat
      /\ Len(toChild) = 0 <=> toChild = <<>>
      /\ Len(fromChild) = 0 <=> fromChild = <<>>
  BY <1>1, EmptySeq
<1>3. /\ Count(held) \in {0, 1} /\ Count(slot) \in {0, 1}
      /\ Count(held) = 0 <=> ~Carries(held)
      /\ Count(slot) = 0 <=> ~Carries(slot)
  BY DEF Count
<1>4. InFlight \in Nat
  BY <1>2, <1>3 DEF InFlight
<1> QED
  BY <1>1, <1>2, <1>3, <1>4

(* If one item at most is on its way, the one in the channel is alone, and *)
(* so is one in the pipe to the server.                                    *)
LEMMA Alone ==
  ASSUME TypeOK, InFlight <= 1
  PROVE  /\ Carries(slot) => toChild = <<>> /\ fromChild = <<>> /\ ~Carries(held)
         /\ toChild # <<>> => fromChild = <<>> /\ ~Carries(held) /\ ~Carries(slot)
<1>1. /\ Len(toChild) \in Nat /\ Len(fromChild) \in Nat
      /\ Count(held) \in {0, 1} /\ Count(slot) \in {0, 1}
      /\ Len(toChild) + Len(fromChild) + Count(held) + Count(slot) <= 1
  BY Lengths DEF InFlight
<1>2. Count(slot) # 0 => Len(toChild) = 0 /\ Len(fromChild) = 0 /\ Count(held) = 0
  BY <1>1
<1>3. Len(toChild) # 0 => Len(fromChild) = 0 /\ Count(held) = 0 /\ Count(slot) = 0
  BY <1>1
<1> QED
  BY <1>2, <1>3, Lengths

(* A step after which no more is on its way than before, of no other       *)
(* request.                                                                *)
Flows ==
    /\ Live' => Live
    /\ InFlight' <= InFlight
    /\ \A i : AllOf(i) => AllOf(i)'
    /\ NothingInFlight => NothingInFlight'
    /\ child' = "booting" => child = "booting"
    /\ toChild = <<>> => toChild' = <<>>

LEMMA FlowsIdle ==
  ASSUME TypeOK, UNCHANGED <<slot, held, loop, toChild, fromChild>>,
         child' = child \/ child' = "dead"
  PROVE  Flows
<1>1. InFlight' = InFlight /\ InFlight \in Nat
  BY Lengths DEF InFlight, Count, Carries
<1> QED
  BY <1>1 DEF Flows, Live, AllOf, Carries, NothingInFlight

LEMMA FlowsRead ==
  ASSUME TypeOK, LoopInv, LoopRead
  PROVE  Flows
<1>1. /\ loop = "reading" /\ loop' = "sending" /\ held = NoItem
      /\ UNCHANGED <<child, toChild, slot>>
  BY DEF LoopRead, LoopInv
<1>2. /\ Live' = Live /\ Count(slot)' = Count(slot) /\ Carries(slot)' = Carries(slot)
      /\ ~Carries(held) /\ Count(held) = 0
  BY <1>1 DEF Live, Count, Carries, NoItem
<1>3. CASE fromChild # <<>> /\ held' = Head(fromChild) /\ fromChild' = Tail(fromChild)
  <2>1. /\ held' = fromChild[1] /\ fromChild[1] \in Line /\ Len(fromChild) > 0
        /\ Len(fromChild') = Len(fromChild) - 1
        /\ \A k \in 1..Len(fromChild') : fromChild'[k] = fromChild[k + 1]
    BY <1>3, Lengths
  <2>2. Carries(held)' /\ Count(held)' = 1
    BY <2>1 DEF Line, LineKinds, Carries, Count
  <2>3. InFlight' <= InFlight
    BY <1>1, <1>2, <2>1, <2>2, Lengths DEF InFlight
  <2>4. ASSUME NEW i, AllOf(i) PROVE AllOf(i)'
    <3>1. \A k \in 1..Len(fromChild') : k + 1 \in 1..Len(fromChild)
      BY <2>1, Lengths
    <3>2. \A k \in 1..Len(fromChild') : fromChild'[k].id = i
      BY <2>1, <2>4, <3>1 DEF AllOf
    <3>3. held'.id = i
      BY <2>1, <2>4, Lengths DEF AllOf
    <3> QED
      BY <1>1, <2>4, <3>2, <3>3 DEF AllOf, Carries
  <2> QED
    BY <1>1, <1>2, <1>3, <2>3, <2>4 DEF Flows, NothingInFlight
<1>4. CASE UNCHANGED fromChild /\ held' = EofItem
  <2>1. ~Carries(held)' /\ Count(held)' = 0
    BY <1>1, <1>4 DEF Carries, Count, EofItem
  <2>2. InFlight' <= InFlight
    BY <1>1, <1>2, <1>4, <2>1, Lengths DEF InFlight
  <2>3. \A i : AllOf(i) => AllOf(i)'
    BY <1>1, <1>2, <1>4, <2>1 DEF AllOf
  <2> QED
    BY <1>1, <1>2, <1>4, <2>1, <2>2, <2>3 DEF Flows, NothingInFlight
<1> QED
  BY <1>3, <1>4 DEF LoopRead

LEMMA FlowsSend ==
  ASSUME TypeOK, LoopSend
  PROVE  Flows
<1>1. /\ loop = "sending" /\ slot = NoItem /\ slot' = held /\ held' = NoItem
      /\ UNCHANGED <<child, toChild, fromChild>>
  BY DEF LoopSend
<1>2. /\ ~Carries(slot) /\ Count(slot) = 0 /\ ~Carries(held)' /\ Count(held)' = 0
      /\ Carries(slot)' = Carries(held) /\ Count(slot)' = Count(held)
  BY <1>1 DEF Carries, Count, NoItem
<1>3. InFlight' <= InFlight
  BY <1>1, <1>2, Lengths DEF InFlight
<1>4. \A i : AllOf(i) => AllOf(i)'
  BY <1>1, <1>2 DEF AllOf
<1>5. Live' => Live
  BY <1>1 DEF Live
<1> QED
  BY <1>1, <1>2, <1>3, <1>4, <1>5 DEF Flows, NothingInFlight

LEMMA FlowsSaid ==
  ASSUME TypeOK, NEW line, Says(line), UNCHANGED loopVars, child # "booting"
  PROVE  Flows
<1>1. /\ line \in Line /\ fromChild' = Append(fromChild, line)
      /\ child = "serving" /\ child' \in {"serving", "leaving"}
      /\ toChild # <<>> /\ line.id = toChild[1].id /\ toChild' = Tail(toChild)
  BY DEF Says
<1>2. /\ Len(fromChild') = Len(fromChild) + 1 /\ fromChild'[Len(fromChild) + 1] = line
      /\ \A k \in 1..Len(fromChild) : fromChild'[k] = fromChild[k]
  BY <1>1, Lengths, Appended
<1>3. /\ Len(toChild) > 0 /\ Len(toChild') = Len(toChild) - 1
      /\ \A k \in 1..Len(toChild') : toChild'[k] = toChild[k + 1]
  BY <1>1, Lengths
<1>4. /\ Live' = Live /\ Count(slot)' = Count(slot) /\ Count(held)' = Count(held)
      /\ Carries(slot)' = Carries(slot) /\ Carries(held)' = Carries(held)
  BY DEF Live, Count, Carries
<1>5. InFlight' <= InFlight
  BY <1>2, <1>3, <1>4, Lengths DEF InFlight
<1>6. ASSUME NEW i, AllOf(i) PROVE AllOf(i)'
  <2>1. \A k \in 1..Len(toChild') : toChild'[k].id = i
    <3>1. \A k \in 1..Len(toChild') : k + 1 \in 1..Len(toChild)
      BY <1>3, Lengths
    <3> QED
      BY <1>3, <1>6, <3>1 DEF AllOf
  <2>2. line.id = i
    BY <1>1, <1>3, <1>6, Lengths DEF AllOf
  <2>3. \A k \in 1..Len(fromChild') : fromChild'[k].id = i
    <3>1. \A k \in 1..Len(fromChild') : k \in 1..Len(fromChild) \/ k = Len(fromChild) + 1
      BY <1>2, Lengths
    <3> QED
      BY <1>2, <1>6, <2>2, <3>1 DEF AllOf
  <2> QED
    BY <1>4, <1>6, <2>1, <2>3 DEF AllOf
<1> QED
  BY <1>1, <1>4, <1>5, <1>6 DEF Flows, NothingInFlight

(* No call is on its way, and none can start.                              *)
LEMMA FlightQuiet ==
  ASSUME pc'["open"] # "hello", closed' \/ ~Opened',
         \A c \in Callers : pc'[c] \notin Calling
  PROVE  FlightInv'
BY DEF FlightInv, Calling

(* The session goes on, and whatever it starts finds nothing on its way.   *)
LEMMA FlightKept ==
  ASSUME TypeOK, FlightInv, Flows,
         pc'["open"] = "hello" => pc["open"] = "hello",
         Opened' /\ ~closed' => Opened /\ ~closed,
         Live' /\ Opened' /\ ~closed' /\ mu' = "free" => mu = "free" \/ NothingInFlight',
         \A c \in Callers :
            /\ Live' /\ pc'[c] = "write" => pc[c] = "write" \/ NothingInFlight'
            /\ Live' /\ pc'[c] \in {"flush", "read"} =>
                  pc[c] \in {"flush", "read"} /\ id'[c] = id[c]
  PROVE  FlightInv'
<1> USE DEF FlightInv, Flows
<1>1. InFlight' \in Nat
  <2>1. Count(held)' \in {0, 1} /\ Count(slot)' \in {0, 1}
    BY DEF Count
  <2> QED
    BY <2>1 DEF InFlight
<1>2. Live' /\ pc'["open"] = "hello" => /\ InFlight' <= 1 /\ toChild' = <<>>
                                        /\ child' = "booting" => InFlight' = 0
  BY <1>1, Lengths
<1>3. Live' /\ Opened' /\ ~closed' => child' # "booting"
  OBVIOUS
<1>4. Live' /\ Opened' /\ ~closed' /\ mu' = "free" => NothingInFlight'
  OBVIOUS
<1>5. ASSUME Live', NEW c \in Callers
      PROVE  /\ pc'[c] = "write" => NothingInFlight'
             /\ pc'[c] \in {"flush", "read"} => InFlight' <= 1 /\ AllOf(id[c])'
  <2>1. Live
    BY <1>5
  <2>2. pc'[c] = "write" => NothingInFlight'
    BY <1>5, <2>1
  <2>3. CASE pc'[c] \in {"flush", "read"}
    <3>1. PICK i : i = id[c]
      OBVIOUS
    <3>2. InFlight <= 1 /\ AllOf(i) /\ id'[c] = i
      BY <1>5, <2>1, <2>3, <3>1
    <3>3. InFlight' <= 1
      BY <1>1, <3>2, Lengths
    <3>4. AllOf(i)'
      BY <3>2
    <3>5. AllOf(id[c])'
      BY <3>2, <3>4 DEF AllOf
    <3> QED
      BY <2>3, <3>3, <3>5
  <2> QED
    BY <2>2, <2>3
<1> QED
  BY <1>2, <1>3, <1>4, <1>5

(* Nothing of the session moves.                                           *)
LEMMA FlightData ==
  ASSUME TypeOK, FlightInv, Flows, UNCHANGED <<pc, id, mu, closed>>
  PROVE  FlightInv'
BY FlightKept DEF Opened

(* The server says something.                                              *)
LEMMA FlightSaid ==
  ASSUME TypeOK, LockInv, FlightInv, NEW line, Says(line),
         UNCHANGED <<callVars, loopVars, procVars>>
  PROVE  FlightInv'
<1>1. CASE child # "booting"
  BY <1>1, FlowsSaid, FlightData
<1>2. CASE child = "booting"
  <2>1. /\ child' = "serving" /\ UNCHANGED toChild /\ fromChild' = Append(fromChild, line)
        /\ line \in Line
    BY <1>2 DEF Says
  <2>2. InFlight' = InFlight + 1
    <3>1. Len(fromChild') = Len(fromChild) + 1
      BY <2>1, Lengths, Appended
    <3>2. Count(held)' = Count(held) /\ Count(slot)' = Count(slot)
      BY DEF Count, Carries
    <3> QED
      BY <2>1, <3>1, <3>2, Lengths DEF InFlight
  <2>3. Live' = Live
    BY DEF Live
  <2>4. Live /\ Opened => closed
    BY <1>2 DEF FlightInv
  <2>5. Live => \A c \in Callers : pc[c] \notin Calling
    BY <2>4 DEF LockInv, Calling
  <2>6. Live /\ pc["open"] = "hello" => InFlight' <= 1
    BY <1>2, <2>2 DEF FlightInv
  <2> QED
    BY <2>1, <2>3, <2>4, <2>5, <2>6 DEF FlightInv, Opened, Calling
<1> QED
  BY <1>1, <1>2

(* A caller with the lock goes on, the other ones are not in a call.       *)
LEMMA FlightOwn ==
  ASSUME TypeOK, LockInv, NEW c \in Callers, pc[c] \in Locked,
         NEW l, pc' = [pc EXCEPT ![c] = l]
  PROVE  /\ pc'["open"] = pc["open"] /\ Opened /\ Opened' /\ pc'["open"] # "hello" /\ pc'[c] = l
         /\ mu = c /\ \A d \in Callers \ {c} : pc'[d] = pc[d] /\ pc'[d] \notin Calling
<1>1. pc'[c] = l /\ pc'["open"] = pc["open"] /\ \A d \in Callers \ {c} : pc'[d] = pc[d]
  BY CallerIsThread, Constants0 DEF TypeOK
<1>2. mu = c
  BY DEF LockInv
<1>3. \A d \in Callers \ {c} : pc[d] \notin Locked
  BY <1>2 DEF LockInv
<1>4. Opened
  BY DEF LockInv, Locked, Calling
<1> QED
  BY <1>1, <1>2, <1>3, <1>4 DEF Opened, Locked

(* A call: what it sends, and what it takes from the queue.                *)
LEMMA FlightCall ==
  ASSUME TypeOK, LockInv, LoopInv, FlightInv, NEW c \in Callers, pc[c] \in Calling,
         CallWrite(c) \/ CallFlush(c) \/ CallAnswered(c) \/ CallFailed(c)
  PROVE  FlightInv'
<1>1. /\ ~closed /\ Opened /\ pc[c] \in Locked /\ (Live => child # "booting")
  BY DEF LockInv, FlightInv, Locked, Calling
<1>2. ASSUME NEW l \in {"idle", "overwritten"}, Leave(c, l), Live' => NothingInFlight'
      PROVE  FlightInv'
  <2>1. pc'["open"] # "hello" /\ \A d \in Callers : pc'[d] \notin Calling
    BY <1>1, <1>2, FlightOwn DEF Leave, Calling
  <2>2. NothingInFlight' => child' # "booting"
    BY DEF NothingInFlight
  <2> QED
    BY <1>2, <2>1, <2>2 DEF FlightInv, Calling
<1>3. ASSUME NEW l \in {"flush", "read"}, pc' = [pc EXCEPT ![c] = l],
             UNCHANGED <<id, mu, child>>, Live' => Live /\ InFlight' <= 1 /\ AllOf(id[c])'
      PROVE  FlightInv'
  <2>1. /\ pc'["open"] # "hello" /\ pc'[c] = l /\ mu' = c
        /\ \A d \in Callers \ {c} : pc'[d] \notin Calling
    BY <1>1, <1>3, FlightOwn
  <2>2. mu' # "free"
    BY <2>1, CallerIsThread
  <2> QED
    BY <1>1, <1>3, <2>1, <2>2 DEF FlightInv, Calling
<1>4. CASE CallWrite(c)
  <2>1. /\ pc[c] = "write" /\ UNCHANGED <<child, fromChild, slot, held>>
        /\ Live' = Live /\ (Live => NothingInFlight)
    BY <1>4 DEF CallWrite, FlightInv, Live
  <2>2. CASE WriteFails
    BY <1>2, <1>4, <2>1, <2>2 DEF CallWrite, NothingInFlight, Carries
  <2>3. CASE ~WriteFails
    <3>1. /\ toChild' = Append(toChild, [op |-> op[c], id |-> id[c]]) /\ child # "dead"
          /\ pc' = [pc EXCEPT ![c] = "flush"] /\ UNCHANGED <<id, mu>>
      BY <1>4, <2>3 DEF CallWrite, WriteFails
    <3>2. ASSUME Live PROVE InFlight' <= 1 /\ AllOf(id[c])'
      <4>1. toChild = <<>> /\ fromChild = <<>> /\ ~Carries(held) /\ ~Carries(slot)
        BY <2>1, <3>1, <3>2 DEF NothingInFlight
      <4>2. toChild' = <<[op |-> op[c], id |-> id[c]]>>
        BY <3>1, <4>1
      <4>3. Len(toChild') = 1 /\ Len(fromChild') = 0 /\ toChild'[1].id = id[c]
        BY <2>1, <4>1, <4>2
      <4>4. ~Carries(held)' /\ ~Carries(slot)' /\ Count(held)' = 0 /\ Count(slot)' = 0
        BY <2>1, <4>1 DEF Carries, Count
      <4> QED
        BY <3>1, <4>3, <4>4 DEF InFlight, AllOf
    <3> QED
      BY <1>3, <2>1, <3>1, <3>2
  <2> QED
    BY <2>2, <2>3
<1>5. CASE CallFlush(c)
  <2>1. /\ pc[c] = "flush" /\ UNCHANGED <<childVars, slot, held>>
        /\ Live' = Live /\ (Live => InFlight <= 1 /\ AllOf(id[c]))
    BY <1>5 DEF CallFlush, FlightInv, Live
  <2>2. CASE pc' = [pc EXCEPT ![c] = "read"] /\ UNCHANGED <<id, mu>>
    <3>1. InFlight' = InFlight
      BY <2>1 DEF InFlight, Count, Carries
    <3>2. AllOf(id[c]) => AllOf(id[c])'
      BY <2>1, <2>2 DEF AllOf, Carries
    <3> QED
      BY <1>3, <2>1, <2>2, <3>1, <3>2
  <2>3. CASE Len(toChild) > room /\ child = "dead" /\ Leave(c, "idle")
    <3>1. toChild # <<>>
      BY <2>3 DEF TypeOK, ChildTypeOK
    <3>2. Live => NothingInFlight
      BY <2>1, <2>3, <3>1, Alone DEF NothingInFlight
    <3>3. Live' => NothingInFlight'
      BY <2>1, <3>2 DEF NothingInFlight, Carries
    <3> QED
      BY <1>2, <2>3, <3>3
  <2> QED
    BY <1>5, <2>2, <2>3 DEF CallFlush
<1>6. CASE CallAnswered(c)
  <2>1. /\ pc[c] = "read" /\ slot # NoItem /\ slot.kind \notin Terminals
        /\ slot' = NoItem /\ UNCHANGED <<childVars, held>>
    BY <1>6 DEF CallAnswered, GotLine
  <2>2. Live /\ InFlight <= 1 /\ Carries(slot)
    BY <2>1 DEF Live, LoopInv, FlightInv, TypeOK, Items, LineKinds, Carries, Terminals
  <2>3. toChild = <<>> /\ fromChild = <<>> /\ ~Carries(held)
    BY <2>2, Alone
  <2>4. NothingInFlight'
    BY <1>1, <2>1, <2>2, <2>3 DEF NothingInFlight, Carries, NoItem
  <2> QED
    BY <1>2, <1>6, <2>4 DEF CallAnswered
<1>7. CASE CallFailed(c)
  <2>1. ~Live'
    BY <1>7 DEF CallFailed, GotEnd, Live, LoopInv
  <2> QED
    BY <1>2, <1>7, <2>1 DEF CallFailed
<1> QED
  BY <1>4, <1>5, <1>6, <1>7

LEMMA FlightStep ==
  ASSUME TypeOK, LockInv, LockInv', LoopInv, FlightInv, [Next]_vars
  PROVE  FlightInv'
<1>1. CallTypeOK
  BY Types
<1>2. ASSUME UNCHANGED <<loopVars, toChild, fromChild>>,
             child' = child \/ child' = "dead"
      PROVE  Flows
  BY <1>2, FlowsIdle
<1>3. CASE HelloAccepted
  <2>1. /\ pc["open"] = "hello" /\ slot.kind = "hello" /\ slot' = NoItem
        /\ UNCHANGED <<childVars, held, loop, mu>>
    BY <1>3 DEF HelloAccepted, GotLine
  <2>2. pc'["open"] = "over" /\ \A c \in Callers : pc'[c] = "idle"
    <3>1. \A c \in Callers : pc[c] = "idle"
      BY <2>1 DEF LockInv, Opened
    <3> QED
      BY <1>1, <1>3, <3>1, CallerIsThread, Constants0 DEF HelloAccepted, CallTypeOK
  <2>3. Live /\ Carries(slot) /\ InFlight <= 1 /\ (child = "booting" => InFlight = 0)
    BY <2>1 DEF Live, Terminals, NoItem, Carries, LoopInv, FlightInv
  <2>4. toChild = <<>> /\ fromChild = <<>> /\ ~Carries(held)
    BY <2>3, Alone
  <2>5. child # "booting"
    BY <2>3, Lengths DEF InFlight
  <2>6. NothingInFlight'
    BY <2>1, <2>4, <2>5 DEF NothingInFlight, Carries, NoItem
  <2> QED
    BY <2>1, <2>2, <2>5, <2>6 DEF FlightInv
<1>4. CASE HelloFailed
  <2>1. pc["open"] = "hello"
    BY <1>4 DEF HelloFailed
  <2>2. pc'["open"] = "teardown" /\ \A c \in Callers : pc'[c] = "idle"
    <3>1. \A c \in Callers : pc[c] = "idle"
      BY <2>1 DEF LockInv, Opened
    <3> QED
      BY <1>1, <1>4, <3>1, CallerIsThread, Constants0 DEF HelloFailed, CallTypeOK
  <2> QED
    BY <2>2, FlightQuiet DEF Opened, Calling
<1>5. ASSUME NEW c \in Callers, User(c) \/ CallerStep(c)
      PROVE  FlightInv'
  <2>1. CASE CallRefused(c)
    BY <1>2, <2>1, FlightData DEF CallRefused
  <2>2. CASE CallStart(c)
    <3>1. /\ Opened /\ mu = "free" /\ ~closed /\ mu' = c /\ UNCHANGED <<closed, childVars, loopVars>>
          /\ pc' = [pc EXCEPT ![c] = "write"]
      BY <2>2 DEF CallStart, CanLock, Admit
    <3>2. pc'[c] = "write" /\ \A d \in Callers \ {c} : pc'[d] = pc[d] /\ pc'[d] \notin Calling
      BY <3>1, OneMoves, OneCalls
    <3>3. pc'["open"] = pc["open"]
      BY <1>1, <3>1, CallerIsThread, Constants0 DEF CallTypeOK
    <3>4. Live' => NothingInFlight'
      BY <3>1 DEF FlightInv, Live, NothingInFlight, Carries
    <3>5. Flows
      BY <1>2, <3>1
    <3>6. mu' # "free"
      BY <3>1, CallerIsThread
    <3> QED
      BY <3>1, <3>2, <3>3, <3>4, <3>5, <3>6, FlightKept DEF Opened, Calling
  <2>3. CASE CallWrite(c) \/ CallFlush(c) \/ CallAnswered(c) \/ CallFailed(c)
    <3>1. pc[c] \in Calling
      BY <2>3 DEF CallWrite, CallFlush, CallAnswered, CallFailed, Calling
    <3> QED
      BY <2>3, <3>1, FlightCall
  <2>4. CASE CallGivesUp(c) \/ Close(c) \/ OverwriteCloses(c) \/ CloseWrite(c) \/ CloseFlush(c)
    <3>1. closed'
      BY <2>4
         DEF CallGivesUp, Close, OverwriteCloses, CloseWrite, CloseFlush, LockInv
    <3>2. Opened
      BY <2>4
         DEF LockInv, Close, CanLock, CallGivesUp, OverwriteCloses, CloseWrite, CloseFlush
    <3>3. pc'["open"] # "hello" /\ \A d \in Callers : pc'[d] \notin Calling
      <4>1. pc'["open"] = pc["open"]
        BY <1>1, <2>4, CallerIsThread, Constants0
           DEF CallGivesUp, Close, OverwriteCloses, CloseWrite, CloseFlush, Leave, CallTypeOK
      <4>2. \A d \in Callers : pc'[d] \notin Calling
        BY <3>1 DEF LockInv
      <4> QED
        BY <3>2, <4>1, <4>2 DEF Opened
    <3> QED
      BY <3>1, <3>3, FlightQuiet
  <2> QED
    BY <1>5, <2>1, <2>2, <2>3, <2>4 DEF User, CallerStep
<1>6. ASSUME NEW t \in Threads, CloseStep(t)
      PROVE  FlightInv'
  <2>1. UNCHANGED <<id, mu, closed, loopVars, child, toChild, fromChild>>
    BY <1>6, CloseShape
  <2>2. Flows
    BY <1>2, <2>1
  <2>3. CASE UNCHANGED pc
    BY <2>1, <2>2, <2>3, FlightData
  <2>4. CASE ~UNCHANGED pc
    <3>1. PICK l \in Teardown \cup {"idle", "failed", "over"} :
             /\ pc[t] \in Teardown /\ pc' = [pc EXCEPT ![t] = l]
             /\ l = "over" => t = "async"
      BY <1>6, <2>4, CloseShape
    <3>2. pc'[t] = l /\ \A u \in Threads \ {t} : pc'[u] = pc[u]
      BY <1>1, <3>1 DEF CallTypeOK
    <3>3. /\ pc'["open"] = "hello" => pc["open"] = "hello"
          /\ Opened' => Opened
      BY <3>1, <3>2, Constants0 DEF Opened, Teardown
    <3>4. \A c \in Callers : pc'[c] \in Calling => pc'[c] = pc[c]
      BY <3>1, <3>2, CallerIsThread DEF Teardown, Calling
    <3> QED
      BY <2>1, <2>2, <3>3, <3>4, FlightKept DEF Calling
  <2> QED
    BY <2>3, <2>4
<1>7. CASE LoopStep
  <2>1. Flows
    BY <1>7, FlowsRead, FlowsSend DEF LoopStep
  <2> QED
    BY <1>7, <2>1, FlightData DEF LoopStep, LoopRead, LoopSend
<1>8. CASE CopyStderr \/ OpenCtxDone \/ UNCHANGED vars
  BY <1>2, <1>8, FlightData DEF CopyStderr, OpenCtxDone
<1>9. CASE ChildStep
  <2>1. ChildTypeOK
    BY Types
  <2>2. CASE ChildDies \/ HolderReleases
    BY <1>2, <1>9, <2>2, FlightData DEF ChildStep, ChildDies, HolderReleases
  <2> QED
    BY <1>9, <2>1, <2>2, ChildSteps, FlightSaid DEF ChildStep
<1> QED
  BY <1>3, <1>4, <1>5, <1>6, <1>7, <1>8, <1>9 DEF Next

-----------------------------------------------------------------------------
(* The invariant.                                                          *)

LEMMA InvInit == Init => IInv
<1> SUFFICES ASSUME Init PROVE IInv
  OBVIOUS
<1>1. ChildTypeOK
  BY RoomAssumption, HolderAssumption DEF Init, ChildInit, ChildTypeOK
<1>2. CallTypeOK
  <2>1. [re |-> 0, kind |-> "none"] \in [re : 0..MaxRequests, kind : Outcomes]
    BY MaxRequestsAssumption DEF Outcomes
  <2>2. outcome \in [Ids -> [re : 0..MaxRequests, kind : Outcomes]]
    BY <2>1 DEF Init
  <2>3. pc \in [Threads -> Labels]
    BY DEF Init, Labels
  <2>4. op \in [Callers -> {"call", "overwrite"}] /\ timed \in [Callers -> BOOLEAN]
    BY DEF Init
  <2>5. id \in [Callers -> 0..MaxRequests] /\ issued \in 0..MaxRequests
    BY MaxRequestsAssumption DEF Init
  <2>6. mu \in Callers \cup {"free"} /\ closed \in BOOLEAN
    BY DEF Init
  <2> QED
    BY <2>2, <2>3, <2>4, <2>5, <2>6 DEF CallTypeOK
<1>3. LoopTypeOK /\ ProcTypeOK /\ RestTypeOK
  BY ErrAssumption, CtxAssumption DEF Init, LoopTypeOK, ProcTypeOK, WaiterStates, RestTypeOK, CtxStates
<1>4. /\ pc["open"] = "hello" /\ pc["async"] = "over"
      /\ \A c \in Callers : pc[c] = "idle" /\ mu # c
  BY CallerIsThread, Constants0 DEF Init
<1>5. LockInv
  BY <1>4 DEF Init, LockInv, Locked, Calling, Opened
<1>6. FlightInv
  <2>1. InFlight = 0
    BY DEF Init, ChildInit, InFlight, Count, Carries, NoItem
  <2> QED
    BY <1>4, <2>1 DEF Init, ChildInit, FlightInv, Opened
<1>7. LoopInv
  BY DEF Init, LoopInv, NoItem, Terminals
<1>8. \A t \in Threads : pc[t] \in {"hello", "over", "idle"}
  BY DEF Init
<1>9. ReleaseInv
  BY <1>4, <1>8 DEF Init, ReleaseInv, Teardown
<1>10. WaitInv
  BY <1>4, <1>8 DEF Init, WaitInv, Waits
<1>11. OrderInv
  BY <1>4 DEF Init, OrderInv, Calling, Ids
<1> QED
  BY <1>1, <1>2, <1>3, <1>5, <1>6, <1>7, <1>9, <1>10, <1>11, Types DEF IInv

LEMMA InvStep == IInv /\ [Next]_vars => IInv'
  BY TypeStep, LockStep, LoopStepInv, FlightStep, WaitStep, ReleaseStep, OrderStep DEF IInv

(* Every behaviour of the session over its transport keeps the invariant.  *)
THEOREM InductiveInvariant == Spec => []IInv
  BY InvInit, InvStep, PTL DEF Spec

(* Every variable keeps its type.                                          *)
THEOREM TypeCorrect == Spec => []TypeOK
<1>1. IInv => TypeOK
  BY DEF IInv
<1> QED
  BY <1>1, InductiveInvariant, PTL

(* Once the session is closed, by Close, by a call whose context ended or  *)
(* by Overwrite, or Open has failed, and no Direct.Close runs any more,    *)
(* the child is reaped, the pipes are closed, the stderr copier is done    *)
(* and session.mu is free: whichever Cmd.Wait got the status.              *)
THEOREM ReleasedHolds == Spec => []ReleasedAtRest
<1>1. ASSUME IInv, AtRest PROVE Released /\ ~pipes /\ mu = "free"
  <2>1. \A t \in Threads : pc[t] \notin Path /\ pc[t] \notin Waits
    BY <1>1 DEF AtRest, Path, Teardown, Waits
  <2>2. Released
    BY <1>1, <2>1 DEF AtRest, IInv, ReleaseInv
  <2>3. \A t \in Threads : waiter[t] # "collected"
    BY <1>1, <2>1 DEF IInv, WaitInv
  <2>4. ~pipes
    BY <1>1, <2>2, <2>3 DEF IInv, WaitInv, Released
  <2>5. \A c \in Callers : mu # c
    BY <1>1, CallerIsThread DEF AtRest, IInv, LockInv, Locked, Calling
  <2> QED
    BY <1>1, <2>2, <2>4, <2>5 DEF IInv, TypeOK
<1>2. IInv => ReleasedAtRest
  BY <1>1 DEF ReleasedAtRest, Released
<1> QED
  BY <1>2, InductiveInvariant, PTL

-----------------------------------------------------------------------------
(* Refinement: every step of the session maps to a step of the serial      *)
(* connection or leaves its state alone.                                   *)

AbstractStatuses == [i \in Ids |-> AbstractStatus(outcome[i], i)]

(* Its requests are the ids of the session.                                *)
LEMMA AbstractState == Connection!Requests = Ids
  BY DEF Connection!Requests, Ids

(* The next request is new, and all before it are done with.               *)
LEMMA PhaseOrder ==
  ASSUME TypeOK, LockInv, OrderInv, issued < MaxRequests, mu = "free"
  PROVE  /\ issued + 1 \in Ids
         /\ AbstractStatuses[issued + 1] = "new"
         /\ \A j \in Ids : j < issued + 1 => AbstractStatuses[j] \notin {"new", "pending"}
<1>1. issued + 1 \in Ids /\ issued \in Nat
  BY MaxRequestsAssumption DEF TypeOK, Ids
<1>2. outcome[issued + 1].kind = "none"
  BY <1>1 DEF OrderInv
<1>3. ASSUME NEW j \in Ids, j < issued + 1
      PROVE  outcome[j].kind \in Outcomes \ {"none", "pending"}
  BY <1>1, <1>3, OneCalls DEF OrderInv, TypeOK, Ids
<1> QED
  BY <1>1, <1>2, <1>3
     DEF AbstractStatuses, AbstractStatus, Meaning, Answered, Outcomes

(* One outcome changes, and with it one abstract status.                   *)
LEMMA OneStatus ==
  ASSUME NEW i \in Ids, NEW o, outcome \in [Ids -> [re : 0..MaxRequests, kind : Outcomes]],
         outcome' = [outcome EXCEPT ![i] = o]
  PROVE  AbstractStatuses' = [AbstractStatuses EXCEPT ![i] = AbstractStatus(o, i)]
<1>1. outcome'[i] = o /\ \A j \in Ids \ {i} : outcome'[j] = outcome[j]
  OBVIOUS
<1>2. \A j \in Ids : AbstractStatus(outcome'[j], j) =
                      IF j = i THEN AbstractStatus(o, i) ELSE AbstractStatus(outcome[j], j)
  BY <1>1, Zenon
<1>3. AbstractStatuses' = [j \in Ids |-> AbstractStatus(outcome'[j], j)]
  BY DEF AbstractStatuses
<1>4. [AbstractStatuses EXCEPT ![i] = AbstractStatus(o, i)]
        = [j \in Ids |-> IF j = i THEN AbstractStatus(o, i) ELSE AbstractStatus(outcome[j], j)]
  BY DEF AbstractStatuses
<1> QED
  BY <1>2, <1>3, <1>4

(* A request is admitted, or refused.                                      *)
LEMMA NewStatus ==
  ASSUME TypeOK, issued + 1 \in Ids, NEW k \in {"pending", "closed"},
         outcome' = [outcome EXCEPT ![issued + 1] = [re |-> 0, kind |-> k]]
  PROVE  AbstractStatuses' = [AbstractStatuses EXCEPT ![issued + 1] =
               IF k = "pending" THEN "pending" ELSE "refused"]
<1>1. AbstractStatus([re |-> 0, kind |-> k], issued + 1)
         = IF k = "pending" THEN "pending" ELSE "refused"
  BY DEF AbstractStatus, Answered, Meaning
<1>2. outcome \in [Ids -> [re : 0..MaxRequests, kind : Outcomes]]
  BY DEF TypeOK
<1>3. AbstractStatuses' = [AbstractStatuses EXCEPT ![issued + 1] =
               AbstractStatus([re |-> 0, kind |-> k], issued + 1)]
  BY <1>2, OneStatus, Zenon
<1> QED
  BY <1>1, <1>3, Zenon

(* A call returns, with its own response if with one.                      *)
LEMMA FinalStatus ==
  ASSUME TypeOK, OrderInv, NEW c \in Callers, pc[c] \in Calling,
         NEW k \in {"ok", "err", "bad", "io", "ctx"}, NEW r,
         k \in Answered => r = id[c], Return(c, k, r)
  PROVE  /\ issued \in Ids
         /\ AbstractStatuses[issued] = "pending"
         /\ AbstractStatuses' = [AbstractStatuses EXCEPT ![issued] =
               IF k \in Answered THEN "answered" ELSE "failed"]
<1>1. issued \in Ids /\ id[c] = issued /\ outcome[issued].kind = "pending"
  BY DEF OrderInv
<1>2. AbstractStatuses[issued] = "pending"
  BY <1>1 DEF AbstractStatuses, AbstractStatus, Meaning, Answered
<1>3. AbstractStatus([re |-> r, kind |-> k], issued)
         = IF k \in Answered THEN "answered" ELSE "failed"
  BY <1>1 DEF AbstractStatus, Answered, Meaning
<1>4. AbstractStatuses' = [AbstractStatuses EXCEPT ![issued] =
               IF k \in Answered THEN "answered" ELSE "failed"]
  <2>1. outcome' = [outcome EXCEPT ![issued] = [re |-> r, kind |-> k]]
    BY <1>1 DEF Return
  <2>2. outcome \in [Ids -> [re : 0..MaxRequests, kind : Outcomes]]
    BY DEF TypeOK
  <2>3. AbstractStatuses' = [AbstractStatuses EXCEPT ![issued] =
                 AbstractStatus([re |-> r, kind |-> k], issued)]
    BY <1>1, <2>1, <2>2, OneStatus, Zenon
  <2> QED
    BY <1>3, <2>3, Zenon
<1> QED
  BY <1>1, <1>2, <1>4

(* The initial state maps to the initial state.                            *)
LEMMA RefinementInit == Init => Connection!Init
<1> SUFFICES ASSUME Init PROVE Connection!Init
  OBVIOUS
<1>1. AbstractPhase = "opening"
  BY Constants0 DEF Init, AbstractPhase
<1>2. \A i \in Ids : AbstractStatus(outcome[i], i) = "new"
  BY DEF Init, AbstractStatus, Meaning, Answered
<1> QED
  BY <1>1, <1>2, AbstractState DEF Connection!Init

LEMMA RefinementStep ==
  ASSUME IInv, [Next]_vars
  PROVE  [Connection!Next]_(Connection!vars)
<1> USE DEF IInv
<1>1. ASSUME UNCHANGED <<AbstractPhase, outcome>>
      PROVE  [Connection!Next]_(Connection!vars)
  BY <1>1 DEF Connection!vars, AbstractStatuses
<1>2. CallTypeOK
  BY Types
<1>3. ASSUME AbstractPhase # "closed", AbstractPhase' = "closed", UNCHANGED outcome
      PROVE  Connection!Next
  BY <1>3 DEF AbstractStatuses, Connection!Close, Connection!Next
<1>4. ASSUME NEW l, pc' = [pc EXCEPT !["open"] = l]
      PROVE  pc'["open"] = l
  BY <1>2, <1>4, Constants0 DEF CallTypeOK
<1>5. CASE HelloAccepted
  <2>1. /\ pc["open"] = "hello" /\ pc'["open"] = "over" /\ ~closed /\ ~closed'
        /\ UNCHANGED outcome
    BY <1>4, <1>5 DEF HelloAccepted, LockInv, Opened
  <2> QED
    BY <2>1 DEF AbstractPhase, Opened, AbstractStatuses, Connection!Open, Connection!Next
<1>6. CASE HelloFailed
  <2>1. pc["open"] = "hello" /\ pc'["open"] = "teardown" /\ UNCHANGED outcome
    BY <1>4, <1>6 DEF HelloFailed
  <2> QED
    BY <1>3, <2>1 DEF AbstractPhase, Opened
<1>7. ASSUME NEW c \in Callers, User(c) \/ CallerStep(c)
      PROVE  [Connection!Next]_(Connection!vars)
  <2>1. pc'["open"] = pc["open"]
    BY <1>2, <1>7, CallerIsThread, Constants0
       DEF User, CallerStep, CallRefused, CallStart, Admit, Close, CallWrite, CallFlush, CallAnswered,
           CallFailed, CallGivesUp, OverwriteCloses, CloseWrite, CloseFlush, Leave, CallTypeOK
  <2>2. UNCHANGED closed => UNCHANGED AbstractPhase
    BY <2>1 DEF AbstractPhase, Opened
  <2>3. ASSUME UNCHANGED <<closed, outcome>>
        PROVE  [Connection!Next]_(Connection!vars)
    BY <1>1, <2>2, <2>3
  <2>4. ASSUME NEW k \in {"ok", "err", "bad", "io"}, NEW r, pc[c] \in Calling,
               k \in Answered => r = id[c], Return(c, k, r), UNCHANGED closed
        PROVE  Connection!Next
    <3>1. /\ issued \in Ids /\ AbstractStatuses[issued] = "pending"
          /\ AbstractStatuses' = [AbstractStatuses EXCEPT ![issued] =
                 IF k \in Answered THEN "answered" ELSE "failed"]
      BY <2>4, FinalStatus
    <3>2. Connection!Answer(issued) \/ Connection!Fail(issued)
      BY <2>2, <2>4, <3>1 DEF Connection!Answer, Connection!Fail, AbstractStatuses
    <3> QED
      BY <3>1, <3>2, AbstractState DEF Connection!Next
  <2>5. CASE CallRefused(c)
    <3>1. /\ mu = "free" /\ issued < MaxRequests /\ AbstractPhase = "closed" /\ UNCHANGED AbstractPhase
          /\ outcome' = [outcome EXCEPT ![issued + 1] = [re |-> 0, kind |-> "closed"]]
      BY <2>2, <2>5 DEF CallRefused, CanLock, AbstractPhase, Opened
    <3>2. AbstractStatuses' = [AbstractStatuses EXCEPT ![issued + 1] = "refused"]
      BY <3>1, PhaseOrder, NewStatus
    <3>3. Connection!Refuse(issued + 1)
      BY <3>1, <3>2, PhaseOrder, AbstractState
         DEF Connection!Refuse, Connection!Next1, AbstractStatuses
    <3> QED
      BY <3>1, <3>3, PhaseOrder, AbstractState DEF Connection!Next
  <2>6. CASE CallStart(c)
    <3>1. /\ mu = "free" /\ issued < MaxRequests /\ AbstractPhase = "open" /\ UNCHANGED AbstractPhase
          /\ outcome' = [outcome EXCEPT ![issued + 1] = [re |-> 0, kind |-> "pending"]]
      BY <2>2, <2>6 DEF CallStart, Admit, CanLock, AbstractPhase, Opened
    <3>2. AbstractStatuses' = [AbstractStatuses EXCEPT ![issued + 1] = "pending"]
      BY <3>1, PhaseOrder, NewStatus
    <3>3. Connection!Submit(issued + 1)
      BY <3>1, <3>2, PhaseOrder, AbstractState
         DEF Connection!Submit, Connection!Next1, AbstractStatuses
    <3> QED
      BY <3>1, <3>3, PhaseOrder, AbstractState DEF Connection!Next
  <2>7. CASE CallWrite(c)
    <3>1. pc[c] \in Calling /\ UNCHANGED closed /\ (Return(c, "io", 0) \/ UNCHANGED outcome)
      BY <2>7 DEF CallWrite, Calling
    <3> QED
      BY <2>3, <2>4, <3>1 DEF Answered
  <2>8. CASE CallFlush(c)
    <3>1. pc[c] \in Calling /\ UNCHANGED closed /\ (Return(c, "io", 0) \/ UNCHANGED outcome)
      BY <2>8 DEF CallFlush, Calling
    <3> QED
      BY <2>3, <2>4, <3>1 DEF Answered
  <2>9. CASE CallAnswered(c)
    <3>1. /\ pc[c] = "read" /\ pc[c] \in Calling /\ slot # NoItem
          /\ slot.kind \notin Terminals
          /\ Return(c, Decoded(slot), slot.id) /\ UNCHANGED closed
      BY <2>9 DEF CallAnswered, GotLine, Calling
    <3>2. Live /\ Carries(slot)
      BY <3>1 DEF Live, LoopInv, TypeOK, Items, LineKinds, Carries, Terminals
    <3>3. slot.id = id[c]
      BY <3>1, <3>2 DEF FlightInv, AllOf
    <3>4. Decoded(slot) \in {"ok", "err", "bad"}
      BY DEF Decoded
    <3> HIDE DEF Decoded, Return
    <3> QED
      BY <2>4, <3>1, <3>3, <3>4
  <2>10. CASE CallFailed(c)
    <3>1. pc[c] \in Calling /\ UNCHANGED closed /\ Return(c, "io", 0)
      BY <2>10 DEF CallFailed, Calling
    <3> QED
      BY <2>4, <3>1 DEF Answered
  <2>11. CASE CallGivesUp(c)
    <3>1. pc[c] \in Calling /\ Return(c, "ctx", 0) /\ closed'
      BY <2>11 DEF CallGivesUp, Calling
    <3>2. /\ issued \in Ids /\ AbstractStatuses[issued] = "pending"
          /\ AbstractStatuses' = [AbstractStatuses EXCEPT ![issued] = "failed"]
      BY <3>1, FinalStatus DEF Answered
    <3>3. AbstractPhase = "open" /\ AbstractPhase' = "closed"
      BY <2>1, <3>1 DEF AbstractPhase, Opened, LockInv, Calling
    <3> QED
      BY <3>2, <3>3, AbstractState DEF Connection!Close, Connection!Next, AbstractStatuses
  <2>12. CASE Close(c) \/ OverwriteCloses(c)
    <3>1. Opened /\ closed' /\ UNCHANGED outcome
      BY <2>12 DEF Close, OverwriteCloses, CanLock
    <3>2. AbstractPhase' = "closed" /\ AbstractPhase \in {"open", "closed"}
      BY <2>1, <3>1 DEF AbstractPhase, Opened
    <3> QED
      BY <1>1, <1>3, <3>1, <3>2
  <2>13. CASE CloseWrite(c) \/ CloseFlush(c)
    BY <2>3, <2>13 DEF CloseWrite, CloseFlush
  <2> QED
    BY <1>7, <2>5, <2>6, <2>7, <2>8, <2>9, <2>10, <2>11, <2>12, <2>13 DEF User, CallerStep
<1>8. ASSUME NEW t \in Threads, CloseStep(t)
      PROVE  [Connection!Next]_(Connection!vars)
  <2>1. UNCHANGED <<closed, outcome>>
    BY <1>8, CloseShape
  <2>2. CASE UNCHANGED pc
    BY <1>1, <2>1, <2>2 DEF AbstractPhase, Opened
  <2>3. CASE ~UNCHANGED pc
    <3>1. PICK l \in Teardown \cup {"idle", "failed", "over"} :
             /\ pc[t] \in Teardown /\ pc' = [pc EXCEPT ![t] = l]
             /\ l = "over" => t = "async"
      BY <1>8, <2>3, CloseShape
    <3>2. pc'[t] = l /\ \A u \in Threads \ {t} : pc'[u] = pc[u]
      BY <1>2, <3>1 DEF CallTypeOK
    <3>3. /\ pc["open"] = "hello" <=> pc'["open"] = "hello"
          /\ pc["open"] = "over" <=> pc'["open"] = "over"
      BY <3>1, <3>2, Constants0 DEF Teardown
    <3> QED
      BY <1>1, <2>1, <3>3 DEF AbstractPhase, Opened
  <2> QED
    BY <2>2, <2>3
<1>9. CASE LoopStep \/ CopyStderr \/ OpenCtxDone \/ ChildStep \/ UNCHANGED vars
  <2>1. UNCHANGED <<pc, closed, outcome>>
    BY <1>9 DEF LoopStep, LoopRead, LoopSend, CopyStderr, OpenCtxDone, ChildStep
  <2> QED
    BY <1>1, <2>1 DEF AbstractPhase, Opened
<1> QED
  BY <1>5, <1>6, <1>7, <1>8, <1>9 DEF Next

(* session.mu over transport.Direct implements the serial connection: with *)
(* any number of goroutines, whatever ends, fails or closes, a call        *)
(* returns its own response or fails, and a closed session refuses for     *)
(* good.                                                                   *)
THEOREM Refinement == Spec => ImplementsConnection
<1>1. IInv /\ [Next]_vars => [Connection!Next]_(Connection!vars)
  BY RefinementStep
<1> QED
  BY <1>1, RefinementInit, InductiveInvariant, PTL
     DEF Spec, ImplementsConnection, Connection!Spec

=============================================================================
