------------------------- MODULE PythonDirectProofs -------------------------
(***************************************************************************)
(* What holds of PythonDirect for every set of threads, every number of    *)
(* requests and every pipe, with proofs.                                   *)
(*                                                                         *)
(* Whoever holds _lock is the only one with a request on its way, and it   *)
(* finds none there when it takes the lock (FlightInv): a call that has    *)
(* timed out leaves one behind, but closes the session in the same step,   *)
(* before it lets go of the lock.  A closed session is released because    *)
(* the last of the threads that close it has everything behind it          *)
(* (ReleaseInv), however many there are.                                   *)
(***************************************************************************)
EXTENDS PythonDirect, ChildProofs

(* The reader may still hand out a line.                                   *)
Live == terminal = "none" /\ slot.kind \notin Terminals

Carries(item) == item.kind \notin {"none", "eof"}
Count(item)   == IF Carries(item) THEN 1 ELSE 0
InFlight == Len(toChild) + Len(fromChild) + Count(held) + Count(slot)

(* Everything on its way is of request i.                                  *)
AllOf(i) ==
    /\ \A k \in 1..Len(toChild) : toChild[k].id = i
    /\ \A k \in 1..Len(fromChild) : fromChild[k].id = i
    /\ Carries(held) => held.id = i
    /\ Carries(slot) => slot.id = i

(* A request that never left because the server died may stay in the pipe. *)
NothingInFlight ==
    /\ child # "booting"
    /\ child # "dead" => toChild = <<>>
    /\ fromChild = <<>> /\ ~Carries(held) /\ ~Carries(slot)

(* Where each thread may be, and who holds _lock.                          *)
Locked  == Calling \cup {"closeWrite", "closeFlush"}
Closers == {"closeStdin", "closeStderr", "closeStdout"} \cup Waiting
LockInv ==
    /\ pc["open"] \in {"hello", "over", "failed", "raised"} \cup Closers
    /\ pc["async"] \in {"over"} \cup Closers
    /\ \A c \in Callers : /\ pc[c] \in {"idle", "overwritten"} \cup Locked \cup Closers
                          /\ pc[c] \in Locked <=> lock = c
                          /\ pc[c] \in Calling => ~closed
                          /\ pc[c] \in {"closeWrite", "closeFlush"} => closed
    /\ ~Opened => ~closed /\ issued = 0 /\ \A c \in Callers : pc[c] = "idle"

FlightInv ==
    /\ thread # "putting" => held = NoItem
    /\ Live => /\ pc["open"] = "hello" => /\ InFlight <= 1 /\ toChild = <<>>
                                          /\ child = "booting" => InFlight = 0
               /\ Opened /\ ~closed => child # "booting"
               /\ Opened /\ ~closed /\ lock = "free" => NothingInFlight
               /\ \A c \in Callers :
                     /\ pc[c] = "write" => NothingInFlight
                     /\ pc[c] \in {"flush", "read"} => InFlight <= 1 /\ AllOf(id[c])

(* What a thread that closes the transport has behind it.                  *)
Path     == Closers \cup {"closeWrite", "closeFlush"}
Released == reaped /\ ~stdin /\ ~stdout /\ stderrThread # "running"
ReleaseInv ==
    /\ \A t \in Threads :
          /\ pc[t] \in Closers \ {"closeStdin"} => ~stdin
          /\ pc[t] \in {"closeStderr", "closeStdout"} => reaped
          /\ pc[t] = "closeStdout" => stderrThread # "running"
    /\ pc["open"] = "failed" => Released
    /\ closed => Released \/ \E t \in Threads : pc[t] \in Path

(* Calls are admitted in order, one at a time.                             *)
OrderInv ==
    /\ \A c \in Callers : pc[c] \in Calling => id[c] = issued /\ issued \in Ids
    /\ \A i \in Ids : /\ i > issued => outcome[i].kind = "none"
                      /\ i <= issued => outcome[i].kind # "none"
                      /\ outcome[i].kind = "pending" <=>
                            i = issued /\ \E c \in Callers : pc[c] \in Calling

IInv == TypeOK /\ LockInv /\ FlightInv /\ ReleaseInv /\ OrderInv

-----------------------------------------------------------------------------
(* Type correctness, part by part.                                         *)

USE DEF vars, childVars, callVars, readerVars, procVars

CallTypeOK ==
    /\ pc \in [Threads -> Labels]
    /\ op \in [Callers -> {"call", "overwrite"}]
    /\ id \in [Callers -> 0..MaxRequests]
    /\ timed \in [Callers -> BOOLEAN]
    /\ lock \in Callers \cup {"free"}
    /\ closed \in BOOLEAN
    /\ issued \in 0..MaxRequests
    /\ outcome \in [Ids -> [re : 0..MaxRequests, kind : Outcomes]]

ReaderTypeOK ==
    /\ slot \in Items \cup {NoItem} /\ held \in Items \cup {NoItem}
    /\ terminal \in Terminals \cup {"none"}
    /\ thread \in {"reading", "putting", "ended"}

ProcTypeOK ==
    /\ stdin \in BOOLEAN /\ stdout \in BOOLEAN /\ reaped \in BOOLEAN
    /\ stderrThread \in {"none", "running", "ended"}

LEMMA Types == TypeOK <=> ChildTypeOK /\ CallTypeOK /\ ReaderTypeOK /\ ProcTypeOK
BY DEF TypeOK, CallTypeOK, ReaderTypeOK, ProcTypeOK

LEMMA TypesNext ==
  ASSUME ChildTypeOK', CallTypeOK', ReaderTypeOK', ProcTypeOK'
  PROVE  TypeOK'
BY DEF TypeOK, CallTypeOK, ReaderTypeOK, ProcTypeOK

(* A caller is a thread, and none of the other ones.                       *)
LEMMA CallerIsThread ==
  ASSUME NEW c \in Callers
  PROVE  c \in Threads /\ c # "open" /\ c # "async" /\ c # "free"
BY CallersAssumption DEF Threads

(* A line read from the pipe is an item for the queue.                     *)
LEMMA LineIsItem == ASSUME NEW line \in Line PROVE line \in Items
  BY DEF Line, Items

(* Taking from the queue keeps the reader well typed.                      *)
LEMMA TakeType ==
  ASSUME ReaderTypeOK, GotLine \/ GotTerminal \/ Expired
  PROVE  ReaderTypeOK'
BY DEF GotLine, GotTerminal, Expired, ReaderTypeOK

(* One thread goes on to another statement.                                *)
LEMMA Moved ==
  ASSUME CallTypeOK, NEW t \in Threads, NEW l \in Labels,
         pc' = [pc EXCEPT ![t] = l]
  PROVE  /\ pc' \in [Threads -> Labels] /\ pc'[t] = l
         /\ \A u \in Threads \ {t} : pc'[u] = pc[u]
BY DEF CallTypeOK

(* The lock is let go.                                                     *)
LEMMA UnlockType ==
  ASSUME CallTypeOK, NEW c \in Callers, Unlock(c)
  PROVE  /\ op' \in [Callers -> {"call", "overwrite"}]
         /\ id' \in [Callers -> 0..MaxRequests]
         /\ timed' \in [Callers -> BOOLEAN]
         /\ lock' \in Callers \cup {"free"}
BY MaxRequestsAssumption DEF CallTypeOK, Unlock

(* What a call ends with.                                                  *)
LEMMA OutcomeType ==
  ASSUME CallTypeOK, NEW i, NEW r \in 0..MaxRequests, NEW k \in Outcomes,
         outcome' = [outcome EXCEPT ![i] = [re |-> r, kind |-> k]]
  PROVE  outcome' \in [Ids -> [re : 0..MaxRequests, kind : Outcomes]]
BY DEF CallTypeOK

LEMMA Constants0 ==
  /\ 0 \in 0..MaxRequests
  /\ \A k \in {"io", "timeout", "pending", "closed"} : k \in Outcomes
  /\ "open" \in Threads /\ "async" \in Threads
BY MaxRequestsAssumption DEF Outcomes, Threads

(* A call that returns, and goes on to the next statement of its thread.   *)
LEMMA ReturnType ==
  ASSUME CallTypeOK, NEW c \in Callers, NEW k \in Outcomes, NEW r \in 0..MaxRequests,
         NEW l \in Labels, Return(c, k, r), Leave(c, l),
         closed' \in BOOLEAN, UNCHANGED issued
  PROVE  CallTypeOK'
<1>1. outcome' \in [Ids -> [re : 0..MaxRequests, kind : Outcomes]]
  BY OutcomeType DEF Return
<1>2. pc' \in [Threads -> Labels]
  BY CallerIsThread, Moved DEF Leave
<1> QED
  BY <1>1, <1>2, UnlockType DEF Leave, CallTypeOK

(* Every action keeps the calls well typed.                                *)
LEMMA CallerType ==
  ASSUME TypeOK, NEW c \in Callers, User(c) \/ CallerStep(c)
  PROVE  CallTypeOK'
<1>1. CallTypeOK /\ ReaderTypeOK
  BY Types
<1>2. c \in Threads /\ Calling \cup {"idle", "overwritten", "closeWrite", "closeFlush", "closeStdin"} \subseteq Labels
  BY CallerIsThread DEF Labels
<1>3. CASE CallRefused(c)
  <2>1. outcome' \in [Ids -> [re : 0..MaxRequests, kind : Outcomes]]
    BY <1>1, <1>3, OutcomeType, Constants0 DEF CallRefused
  <2> QED
    BY <1>1, <1>3, <2>1, MaxRequestsAssumption DEF CallRefused, CallTypeOK
<1>4. CASE CallStart(c)
  <2>1. outcome' \in [Ids -> [re : 0..MaxRequests, kind : Outcomes]]
    BY <1>1, <1>4, OutcomeType, Constants0 DEF CallStart, Admit
  <2>2. issued + 1 \in 0..MaxRequests /\ issued' = issued + 1
    BY <1>1, <1>4, MaxRequestsAssumption DEF CallStart, Admit, CallTypeOK
  <2>3. pc' \in [Threads -> Labels]
    BY <1>1, <1>2, <1>4, Moved DEF CallStart, Admit, Calling
  <2>4. /\ op' \in [Callers -> {"call", "overwrite"}]
        /\ id' \in [Callers -> 0..MaxRequests]
        /\ timed' \in [Callers -> BOOLEAN]
    BY <1>1, <1>4, <2>2 DEF CallStart, Admit, CallTypeOK
  <2> QED
    BY <1>1, <1>4, <2>1, <2>2, <2>3, <2>4 DEF CallStart, Admit, CallTypeOK
<1>5. CASE Close(c)
  <2>1. pc' \in [Threads -> Labels]
    BY <1>1, <1>2, <1>5, Moved DEF Close
  <2> QED
    BY <1>1, <1>5, <2>1 DEF Close, CallTypeOK
<1>6. CASE CallWrite(c)
  <2>1. CASE WriteFails
    BY <1>1, <1>2, <1>6, <2>1, ReturnType, Constants0 DEF CallWrite, CallTypeOK
  <2>2. CASE ~WriteFails
    <3>1. pc' \in [Threads -> Labels]
      BY <1>1, <1>2, <1>6, <2>2, Moved DEF CallWrite, Calling
    <3> QED
      BY <1>1, <1>6, <2>2, <3>1 DEF CallWrite, CallTypeOK
  <2> QED
    BY <2>1, <2>2
<1>7. CASE CallFlush(c)
  <2>1. CASE Return(c, "io", 0) /\ Leave(c, "idle")
    BY <1>1, <1>2, <1>7, <2>1, ReturnType, Constants0 DEF CallFlush, CallTypeOK
  <2>2. CASE pc' = [pc EXCEPT ![c] = "read"] /\ UNCHANGED <<op, id, timed, lock, outcome>>
    <3>1. pc' \in [Threads -> Labels]
      BY <1>1, <1>2, <2>2, Moved DEF Calling
    <3> QED
      BY <1>1, <1>7, <2>2, <3>1 DEF CallFlush, CallTypeOK
  <2> QED
    BY <1>7, <2>1, <2>2 DEF CallFlush
<1>8. CASE CallAnswered(c)
  <2>1. Decoded(slot) \in Outcomes /\ slot.id \in 0..MaxRequests
    BY <1>1, MaxRequestsAssumption DEF Decoded, Outcomes, Answered, ReaderTypeOK, Items, NoItem
  <2>2. PICK l \in {"overwritten", "idle"} : Leave(c, l)
    BY <1>8 DEF CallAnswered
  <2> QED
    BY <1>1, <1>2, <1>8, <2>1, <2>2, ReturnType DEF CallAnswered, CallTypeOK
<1>9. CASE CallFailed(c)
  BY <1>1, <1>2, <1>9, ReturnType, Constants0 DEF CallFailed, CallTypeOK
<1>10. CASE CallTimedOut(c)
  <2>1. outcome' \in [Ids -> [re : 0..MaxRequests, kind : Outcomes]]
    BY <1>1, <1>10, OutcomeType, Constants0 DEF CallTimedOut, Return
  <2>2. pc' \in [Threads -> Labels]
    BY <1>1, <1>2, <1>10 DEF CallTimedOut, CallTypeOK
  <2> QED
    BY <1>1, <1>10, <2>1, <2>2, UnlockType DEF CallTimedOut, CallTypeOK
<1>11. CASE OverwriteCloses(c)
  <2>1. pc' \in [Threads -> Labels]
    BY <1>1, <1>2, <1>11, Moved DEF OverwriteCloses
  <2> QED
    BY <1>1, <1>11, <2>1 DEF OverwriteCloses, CallTypeOK
<1>12. CASE CloseWrite(c) \/ CloseFlush(c)
  <2>1. /\ UNCHANGED <<closed, issued, outcome>>
        /\ Leave(c, "closeStdin") \/ (pc' = [pc EXCEPT ![c] = "closeFlush"] /\ UNCHANGED <<op, id, timed, lock>>)
    BY <1>12 DEF CloseWrite, CloseFlush
  <2>2. pc' \in [Threads -> Labels]
    BY <1>1, <1>2, <2>1, Moved DEF Leave
  <2> QED
    BY <1>1, <2>1, <2>2, UnlockType DEF Leave, CallTypeOK
<1> QED
  BY <1>3, <1>4, <1>5, <1>6, <1>7, <1>8, <1>9, <1>10, <1>11, <1>12 DEF User, CallerStep

LEMMA TypeStep == ASSUME TypeOK, [Next]_vars PROVE TypeOK'
<1>1. ChildTypeOK /\ CallTypeOK /\ ReaderTypeOK /\ ProcTypeOK
  BY Types
<1>2. ASSUME UNCHANGED childVars PROVE ChildTypeOK'
  BY <1>1, <1>2 DEF ChildTypeOK
<1>3. ASSUME UNCHANGED callVars PROVE CallTypeOK'
  BY <1>1, <1>3 DEF CallTypeOK
<1>4. ASSUME UNCHANGED readerVars PROVE ReaderTypeOK'
  BY <1>1, <1>4 DEF ReaderTypeOK
<1>5. ASSUME UNCHANGED procVars PROVE ProcTypeOK'
  BY <1>1, <1>5 DEF ProcTypeOK
<1>6. ASSUME NEW l \in Labels, pc' = [pc EXCEPT !["open"] = l],
             UNCHANGED <<op, id, timed, lock, closed, issued, outcome>>
      PROVE  CallTypeOK'
  BY <1>1, <1>6, Moved, Constants0 DEF CallTypeOK
<1>7. CASE HelloAccepted \/ HelloFailed \/ HelloRaises
  <2>1. CallTypeOK'
    BY <1>6, <1>7 DEF HelloAccepted, HelloFailed, HelloRaises, Labels
  <2>2. ReaderTypeOK'
    BY <1>1, <1>7, TakeType DEF HelloAccepted, HelloFailed, HelloRaises
  <2> QED
    BY <1>2, <1>5, <1>7, <2>1, <2>2, TypesNext DEF HelloAccepted, HelloFailed, HelloRaises
<1>8. ASSUME NEW c \in Callers, User(c) \/ CallerStep(c)
      PROVE  TypeOK'
  <2>1. CallTypeOK'
    BY <1>8, CallerType
  <2>2. ProcTypeOK'
    BY <1>5, <1>8
       DEF User, CallerStep, CallRefused, CallStart, Admit, Close, CallWrite, CallFlush, CallAnswered,
           CallFailed, CallTimedOut, OverwriteCloses, CloseWrite, CloseFlush
  <2>3. ReaderTypeOK'
    BY <1>1, <1>4, <1>8, TakeType
       DEF User, CallerStep, CallRefused, CallStart, Admit, Close, CallWrite, CallFlush, CallAnswered,
           CallFailed, CallTimedOut, OverwriteCloses, CloseWrite, CloseFlush
  <2>4. ChildTypeOK'
    <3>1. [op |-> op[c], id |-> id[c]] \in Request
      BY <1>1, <1>8 DEF CallTypeOK, Request
    <3>2. ASSUME NEW r \in Request, toChild' = Append(toChild, r),
                 UNCHANGED <<child, fromChild, holders, signal, room>>
          PROVE  ChildTypeOK'
      BY <1>1, <3>2, RequestType
    <3>3. CASE CallWrite(c) \/ CloseWrite(c)
      BY <1>2, <3>1, <3>2, <3>3, CloseRequestType DEF CallWrite, CloseWrite
    <3> QED
      BY <1>2, <1>8, <3>3
         DEF User, CallerStep, CallRefused, CallStart, Admit, Close, CallFlush, CallAnswered,
             CallFailed, CallTimedOut, OverwriteCloses, CloseFlush
  <2> QED
    BY <2>1, <2>2, <2>3, <2>4, TypesNext
<1>9. ASSUME NEW t \in Threads, CloseStep(t)
      PROVE  TypeOK'
  <2>1. ASSUME NEW from, NEW l \in Labels, At(t, from, l)
        PROVE  CallTypeOK' /\ ReaderTypeOK'
    BY <1>1, <1>4, <2>1, Moved DEF At, CallTypeOK
  <2>2. ASSUME NEW from, NEW sig \in {"term", "kill"}, NEW l \in Labels, Escalate(t, from, sig, l)
        PROVE  TypeOK'
    <3>1. ChildTypeOK' /\ ProcTypeOK'
      BY <1>1, <2>2 DEF Escalate, ChildTypeOK, ProcTypeOK
    <3> QED
      BY <2>1, <2>2, <3>1, TypesNext DEF Escalate
  <2>3. CASE Terminate(t) \/ Kill(t)
    BY <2>2, <2>3 DEF Terminate, Kill, Labels, Waiting
  <2>4. CASE CloseStdin(t) \/ Reaped(t) \/ CloseStderr(t) \/ CloseStdout(t)
    <3>1. ProcTypeOK' /\ ChildTypeOK'
      BY <1>1, <1>2, <2>4 DEF CloseStdin, Reaped, CloseStderr, CloseStdout, ProcTypeOK
    <3>2. \E from, l \in Labels : At(t, from, l)
      BY <2>4 DEF CloseStdin, Reaped, CloseStderr, CloseStdout, Labels, Waiting
    <3> QED
      BY <2>1, <3>1, <3>2, TypesNext
  <2> QED
    BY <1>9, <2>3, <2>4 DEF CloseStep
<1>10. CASE ReaderReads
  <2>1. ReaderTypeOK'
    <3>1. CASE fromChild # <<>> /\ held' = Head(fromChild)
      BY <1>1, <1>10, <3>1, HeadTail, LineIsItem DEF ReaderReads, ReaderTypeOK, ChildTypeOK
    <3>2. CASE held' = EofItem
      BY <1>1, <1>10, <3>2, MaxRequestsAssumption DEF ReaderReads, ReaderTypeOK, EofItem, Items
    <3>3. CASE UNCHANGED held
      BY <1>1, <1>10, <3>3 DEF ReaderReads, ReaderTypeOK
    <3> QED
      BY <1>10, <3>1, <3>2, <3>3 DEF ReaderReads
  <2>2. ChildTypeOK'
    BY <1>1, <1>10, HeadTail DEF ReaderReads, ChildTypeOK
  <2> QED
    BY <1>3, <1>5, <1>10, <2>1, <2>2, TypesNext DEF ReaderReads
<1>11. CASE ReaderPuts
  <2>1. ReaderTypeOK'
    BY <1>1, <1>11 DEF ReaderPuts, ReaderTypeOK
  <2> QED
    BY <1>2, <1>3, <1>5, <1>11, <2>1, TypesNext DEF ReaderPuts
<1>12. CASE Drain \/ ExitCode
  <2>1. ProcTypeOK'
    BY <1>1, <1>12 DEF Drain, ExitCode, ProcTypeOK
  <2> QED
    BY <1>2, <1>3, <1>4, <1>12, <2>1, TypesNext DEF Drain, ExitCode
<1>13. CASE ChildStep
  BY <1>1, <1>3, <1>4, <1>5, <1>13, ChildNextType, TypesNext DEF ChildStep
<1>14. CASE UNCHANGED vars
  BY <1>2, <1>3, <1>4, <1>5, <1>14, TypesNext
<1> QED
  BY <1>7, <1>8, <1>9, <1>10, <1>11, <1>12, <1>13, <1>14 DEF Next, ReaderStep

-----------------------------------------------------------------------------
(* Who holds the lock.                                                     *)

(* A caller moves on, and takes, keeps or lets go of the lock.             *)
LEMMA LockMoved ==
  ASSUME TypeOK, LockInv, Opened,
         NEW c \in Callers, NEW l \in {"idle", "overwritten"} \cup Locked \cup Closers,
         pc'["open"] = pc["open"], pc'["async"] \in {"over"} \cup Closers,
         pc'[c] = l, \A d \in Callers \ {c} : pc'[d] = pc[d],
         \/ lock \in {"free", c} /\ lock' \in {"free", c} /\ (l \in Locked <=> lock' = c)
         \/ UNCHANGED <<lock, closed>> /\ pc[c] \notin Locked /\ l \notin Locked,
         l \in Calling => ~closed',
         l \in {"closeWrite", "closeFlush"} => closed'
  PROVE  LockInv'
<1>1. Opened'
  BY DEF Opened
<1>2. ASSUME NEW d \in Callers \ {c}
      PROVE  /\ pc[d] \in Locked <=> lock' = d
             /\ pc[d] \in Calling => ~closed'
             /\ pc[d] \in {"closeWrite", "closeFlush"} => closed'
  BY <1>2, CallerIsThread DEF LockInv, Locked
<1>3. l \in Locked <=> lock' = c
  BY DEF LockInv
<1> QED
  BY <1>1, <1>2, <1>3 DEF LockInv, Opened

LEMMA LockStep ==
  ASSUME TypeOK, LockInv, [Next]_vars
  PROVE  LockInv'
<1>1. CallTypeOK
  BY Types
<1>2. ASSUME UNCHANGED <<pc, lock, closed, issued>>
      PROVE  LockInv'
  BY <1>2 DEF LockInv, Opened
<1>3. ASSUME NEW l \in {"over", "failed", "raised"} \cup Closers, ~Opened,
             pc' = [pc EXCEPT !["open"] = l], UNCHANGED <<lock, closed, issued>>
      PROVE  LockInv'
  <2>1. pc'["open"] = l /\ pc'["async"] = pc["async"] /\ \A d \in Callers : pc'[d] = pc[d]
    BY <1>1, <1>3, CallerIsThread, Constants0 DEF CallTypeOK
  <2> QED
    BY <1>3, <2>1 DEF LockInv, Opened
<1>4. CASE HelloAccepted \/ HelloFailed \/ HelloRaises
  BY <1>3, <1>4 DEF HelloAccepted, HelloFailed, HelloRaises, Opened, Closers
<1>5. ASSUME NEW c \in Callers, User(c) \/ CallerStep(c)
      PROVE  LockInv'
  <2>1. c \in Threads /\ c # "open" /\ c # "async" /\ lock \in Callers \cup {"free"}
        /\ "open" \in Threads /\ "async" \in Threads
    BY <1>1, CallerIsThread, Constants0 DEF CallTypeOK
  <2>2. Opened
    BY <1>5
       DEF LockInv, User, CallerStep, CallRefused, CallStart, Close, CanLock, CallWrite, CallFlush,
           CallAnswered, CallFailed, CallTimedOut, OverwriteCloses, CloseWrite, CloseFlush
  <2>3. ASSUME NEW l, pc' = [pc EXCEPT ![c] = l]
        PROVE  /\ pc'["open"] = pc["open"] /\ pc'["async"] \in {"over"} \cup Closers
               /\ pc'[c] = l /\ \A d \in Callers \ {c} : pc'[d] = pc[d]
    BY <1>1, <2>1, <2>3, CallerIsThread DEF CallTypeOK, LockInv
  <2>4. ASSUME NEW l \in {"idle", "overwritten", "closeStdin"}, pc[c] \in Locked, Leave(c, l)
        PROVE  LockInv'
    <3>1. lock = c /\ lock' = "free" /\ pc' = [pc EXCEPT ![c] = l]
      BY <2>4 DEF LockInv, Leave, Unlock
    <3>2. l \in {"idle", "overwritten"} \cup Locked \cup Closers /\ l \notin Locked
      BY <2>4 DEF Locked, Closers, Calling
    <3> QED
      BY <2>2, <2>3, <3>1, <3>2, CallerIsThread, LockMoved DEF Locked
  <2>5. ASSUME NEW l \in Locked, pc[c] \in Locked, pc' = [pc EXCEPT ![c] = l],
               UNCHANGED <<lock, closed>>, l \in Calling <=> pc[c] \in Calling
        PROVE  LockInv'
    <3>1. lock = c /\ (l \in Calling => ~closed') /\ (l \in {"closeWrite", "closeFlush"} => closed')
      BY <2>5 DEF LockInv, Locked, Calling
    <3> QED
      BY <2>2, <2>3, <2>5, <3>1, LockMoved
  <2>6. CASE CallRefused(c)
    BY <2>2, <2>6 DEF CallRefused, LockInv, Opened
  <2>7. CASE CallStart(c)
    <3>1. lock = "free" /\ lock' = c /\ ~closed' /\ pc' = [pc EXCEPT ![c] = "write"]
      BY <2>7 DEF CallStart, CanLock, Admit
    <3>2. "write" \in Locked /\ "write" \in Calling /\ "free" # c
      BY CallerIsThread DEF Locked, Calling
    <3>3. /\ pc'["open"] = pc["open"] /\ pc'["async"] \in {"over"} \cup Closers
          /\ pc'[c] = "write" /\ \A d \in Callers \ {c} : pc'[d] = pc[d]
      BY <2>3, <3>1
    <3>4. lock \in {"free", c} /\ lock' \in {"free", c} /\ ("write" \in Locked <=> lock' = c)
      BY <3>1, <3>2
    <3> QED
      BY <2>2, <3>1, <3>2, <3>3, <3>4, LockMoved
  <2>8. CASE Close(c)
    <3>1. lock = "free" /\ lock' = c /\ closed' /\ pc' = [pc EXCEPT ![c] = "closeWrite"]
      BY <2>8 DEF Close, CanLock
    <3>2. "closeWrite" \in Locked /\ "closeWrite" \notin Calling /\ "free" # c
      BY CallerIsThread DEF Locked, Calling
    <3>3. /\ pc'["open"] = pc["open"] /\ pc'["async"] \in {"over"} \cup Closers
          /\ pc'[c] = "closeWrite" /\ \A d \in Callers \ {c} : pc'[d] = pc[d]
      BY <2>3, <3>1
    <3>4. lock \in {"free", c} /\ lock' \in {"free", c} /\ ("closeWrite" \in Locked <=> lock' = c)
      BY <3>1, <3>2
    <3> QED
      BY <2>2, <3>1, <3>2, <3>3, <3>4, LockMoved
  <2>9. CASE CallWrite(c) \/ CallFlush(c) \/ CallAnswered(c) \/ CallFailed(c)
    <3>1. \/ \E l \in {"idle", "overwritten", "closeStdin"} : Leave(c, l)
          \/ \E l \in {"flush", "read"} : pc' = [pc EXCEPT ![c] = l] /\ UNCHANGED lock
      BY <2>9 DEF CallWrite, CallFlush, CallAnswered, CallFailed
    <3>2. pc[c] \in Calling /\ UNCHANGED closed
      BY <2>9 DEF CallWrite, CallFlush, CallAnswered, CallFailed, Calling
    <3> QED
      BY <2>4, <2>5, <3>1, <3>2 DEF Locked, Calling
  <2>10. CASE CallTimedOut(c)
    <3>1. /\ pc' = [pc EXCEPT ![c] = "idle", !["async"] = "closeStdin"] /\ lock' = "free"
          /\ pc[c] = "read"
      BY <2>10 DEF CallTimedOut, Unlock
    <3>2. /\ pc'["open"] = pc["open"] /\ pc'["async"] = "closeStdin"
          /\ pc'[c] = "idle" /\ \A d \in Callers \ {c} : pc'[d] = pc[d]
      BY <1>1, <2>1, <3>1, CallerIsThread DEF CallTypeOK
    <3>3. lock = c
      BY <3>1 DEF LockInv, Locked, Calling
    <3>4. "idle" \notin Locked /\ lock' # c /\ "closeStdin" \in Closers
      BY <3>1, CallerIsThread DEF Locked, Calling, Closers
    <3> QED
      BY <2>2, <3>1, <3>2, <3>3, <3>4, LockMoved DEF Calling
  <2>11. CASE OverwriteCloses(c)
    <3>1. pc' = [pc EXCEPT ![c] = "closeStdin"] /\ lock = "free" /\ lock' = "free"
      BY <2>11 DEF OverwriteCloses, CanLock
    <3>2. "closeStdin" \in Closers /\ "closeStdin" \notin Locked /\ "free" # c
      BY CallerIsThread DEF Closers, Locked, Calling
    <3>3. /\ pc'["open"] = pc["open"] /\ pc'["async"] \in {"over"} \cup Closers
          /\ pc'[c] = "closeStdin" /\ \A d \in Callers \ {c} : pc'[d] = pc[d]
      BY <2>3, <3>1
    <3>4. /\ lock \in {"free", c} /\ lock' \in {"free", c}
          /\ "closeStdin" \in Locked <=> lock' = c
      BY <3>1, <3>2
    <3>5. "closeStdin" \notin Calling /\ "closeStdin" \notin {"closeWrite", "closeFlush"}
      BY DEF Calling
    <3> QED
      BY <2>2, <3>2, <3>3, <3>4, <3>5, LockMoved
  <2>12. CASE CloseWrite(c) \/ CloseFlush(c)
    <3>1. \/ Leave(c, "closeStdin")
          \/ pc' = [pc EXCEPT ![c] = "closeFlush"] /\ UNCHANGED lock
      BY <2>12 DEF CloseWrite, CloseFlush
    <3>2. pc[c] \in {"closeWrite", "closeFlush"} /\ UNCHANGED closed
      BY <2>12 DEF CloseWrite, CloseFlush
    <3> QED
      BY <2>4, <2>5, <3>1, <3>2 DEF Locked, Calling
  <2> QED
    BY <1>5, <2>6, <2>7, <2>8, <2>9, <2>10, <2>11, <2>12 DEF User, CallerStep
<1>6. ASSUME NEW t \in Threads, CloseStep(t)
      PROVE  LockInv'
  <2>1. PICK l \in Closers \cup {"idle", "failed", "over"} :
           /\ pc[t] \in Closers /\ pc' = [pc EXCEPT ![t] = l] /\ UNCHANGED <<lock, closed, issued>>
           /\ l = "idle" => t \in Callers
           /\ l = "failed" => t = "open"
           /\ l = "over" => t = "async"
    <3>1. PICK from \in Closers, l \in Closers \cup {"idle", "failed", "over"} :
             /\ At(t, from, l)
             /\ l = "idle" => t \in Callers
             /\ l = "failed" => t = "open"
             /\ l = "over" => t = "async"
      BY <1>6
         DEF CloseStep, CloseStdin, Terminate, Kill, Escalate, Reaped, CloseStderr, CloseStdout,
             Closers, Waiting
    <3> QED
      BY <3>1 DEF At
  <2>2. pc'[t] = l /\ \A u \in Threads \ {t} : pc'[u] = pc[u]
    BY <1>1, <2>1 DEF CallTypeOK
  <2>3. CASE t \in Callers
    <3>1. t # "open" /\ t # "async" /\ "open" \in Threads /\ "async" \in Threads
      BY <2>3, CallerIsThread, Constants0
    <3>2. l \in {"idle"} \cup Closers /\ l \notin Locked /\ pc[t] \notin Locked /\ pc[t] # "idle"
      BY <2>1, <3>1 DEF Closers, Locked, Waiting, Calling
    <3>3. Opened
      BY <2>3, <3>2 DEF LockInv
    <3>4. pc'["open"] = pc["open"] /\ pc'["async"] \in {"over"} \cup Closers
          /\ \A d \in Callers \ {t} : pc'[d] = pc[d]
      BY <2>2, <3>1, CallerIsThread DEF LockInv
    <3> QED
      BY <2>1, <2>2, <2>3, <3>2, <3>3, <3>4, LockMoved DEF Locked
  <2>4. CASE t = "open"
    <3>1. ~Opened /\ l \in {"failed"} \cup Closers
      BY <2>1, <2>4, CallersAssumption DEF Opened, Closers, Waiting
    <3> QED
      BY <1>3, <2>1, <2>4, <3>1
  <2>5. CASE t = "async"
    <3>1. l \in {"over"} \cup Closers
      BY <2>1, <2>5, CallersAssumption
    <3>2. pc'["open"] = pc["open"] /\ pc'["async"] = l /\ \A d \in Callers : pc'[d] = pc[d]
      BY <2>2, <2>5, CallerIsThread, Constants0
    <3> QED
      BY <2>1, <3>1, <3>2 DEF LockInv, Opened
  <2> QED
    BY <2>3, <2>4, <2>5 DEF Threads
<1>7. CASE ReaderStep \/ Drain \/ ExitCode \/ ChildStep \/ UNCHANGED vars
  BY <1>2, <1>7 DEF ReaderStep, ReaderReads, ReaderPuts, Drain, ExitCode, ChildStep
<1> QED
  BY <1>4, <1>5, <1>6, <1>7 DEF Next

-----------------------------------------------------------------------------
(* What is closed stays closed, and the last thread to close releases all. *)

Kept ==
    /\ ~stdin => ~stdin'
    /\ ~stdout => ~stdout'
    /\ reaped => reaped'
    /\ stderrThread # "running" => stderrThread' # "running"

LEMMA Monotone == ASSUME TypeOK, [Next]_vars PROVE Kept
<1>1. ASSUME NEW c \in Callers, User(c) \/ CallerStep(c)
      PROVE  UNCHANGED procVars
  BY <1>1
     DEF User, CallerStep, CallRefused, CallStart, Admit, Close, CallWrite, CallFlush, CallAnswered,
         CallFailed, CallTimedOut, OverwriteCloses, CloseWrite, CloseFlush
<1>2. ASSUME NEW t \in Threads, CloseStep(t)
      PROVE  Kept
  <2>1. CASE CloseStdin(t) \/ CloseStderr(t) \/ CloseStdout(t)
    BY <2>1 DEF CloseStdin, CloseStderr, CloseStdout, Kept
  <2>2. CASE Reaped(t)
    BY <2>2 DEF Reaped, Kept
  <2>3. ASSUME NEW from, NEW sig, NEW to, Escalate(t, from, sig, to) PROVE Kept
    <3>1. UNCHANGED <<stdin, stdout, stderrThread>> /\ reaped' = (reaped \/ child = "dead")
      BY <2>3 DEF Escalate
    <3> QED
      BY <3>1 DEF Kept
  <2> QED
    BY <1>2, <2>1, <2>2, <2>3 DEF CloseStep, Terminate, Kill
<1>3. CASE Drain \/ ExitCode
  BY <1>3 DEF Drain, ExitCode, Kept
<1>4. ASSUME UNCHANGED procVars PROVE Kept
  BY <1>4 DEF Kept
<1> QED
  BY <1>1, <1>2, <1>3, <1>4
     DEF Next, HelloAccepted, HelloFailed, HelloRaises, ReaderStep, ReaderReads, ReaderPuts, ChildStep

(* What a thread at statement l must have behind it.                       *)
Behind(l) ==
    /\ l \in Closers \ {"closeStdin"} => ~stdin
    /\ l \in {"closeStderr", "closeStdout"} => reaped
    /\ l = "closeStdout" => stderrThread # "running"

LEMMA ReleasedKept == ASSUME Kept, Released PROVE Released'
  BY DEF Kept, Released

(* One thread moves on.                                                    *)
LEMMA ReleaseMoved ==
  ASSUME ReleaseInv, Kept, NEW t \in Threads, NEW l, pc'[t] = l,
         \A u \in Threads \ {t} : pc'[u] = pc[u],
         Behind(l)',
         t = "open" /\ l = "failed" => Released',
         closed' => Released' \/ l \in Path \/ (closed /\ pc[t] \notin Path)
  PROVE  ReleaseInv'
<1>1. ASSUME NEW u \in Threads
      PROVE  /\ pc'[u] \in Closers \ {"closeStdin"} => ~stdin'
             /\ pc'[u] \in {"closeStderr", "closeStdout"} => reaped'
             /\ pc'[u] = "closeStdout" => stderrThread' # "running"
  <2>1. CASE u = t
    BY <2>1 DEF Behind
  <2>2. CASE u # t
    BY <2>2 DEF ReleaseInv, Kept
  <2> QED
    BY <2>1, <2>2
<1>2. pc'["open"] = "failed" => Released'
  BY ReleasedKept, Constants0 DEF ReleaseInv
<1>3. closed' => Released' \/ \E u \in Threads : pc'[u] \in Path
  BY ReleasedKept DEF ReleaseInv
<1> QED
  BY <1>1, <1>2, <1>3 DEF ReleaseInv

LEMMA ReleaseStep ==
  ASSUME TypeOK, LockInv, ReleaseInv, [Next]_vars
  PROVE  ReleaseInv'
<1>1. CallTypeOK /\ Kept
  BY Types, Monotone
<1>2. ASSUME UNCHANGED <<pc, closed>>
      PROVE  ReleaseInv'
  BY <1>1, <1>2 DEF ReleaseInv, Kept, Released
<1>3. ASSUME NEW t \in Threads, NEW l, pc' = [pc EXCEPT ![t] = l]
      PROVE  pc'[t] = l /\ \A u \in Threads \ {t} : pc'[u] = pc[u]
  BY <1>1, <1>3 DEF CallTypeOK
<1>4. ASSUME NEW l, l \notin Closers \ {"closeStdin"} PROVE Behind(l)'
  BY <1>4 DEF Behind, Closers, Waiting
<1>5. CASE HelloAccepted \/ HelloFailed \/ HelloRaises
  <2>1. PICK l \in {"over", "raised", "closeStdin"} : pc' = [pc EXCEPT !["open"] = l]
    BY <1>5 DEF HelloAccepted, HelloFailed, HelloRaises
  <2>2. ~closed /\ UNCHANGED closed
    BY <1>5 DEF HelloAccepted, HelloFailed, HelloRaises, LockInv, Opened
  <2>3. Behind(l)' /\ l # "failed"
    BY <1>4, <2>1 DEF Closers, Waiting
  <2> QED
    BY <1>1, <1>3, <2>1, <2>2, <2>3, Constants0, ReleaseMoved
<1>6. ASSUME NEW c \in Callers, User(c) \/ CallerStep(c)
      PROVE  ReleaseInv'
  <2>1. c \in Threads /\ c # "open" /\ c # "async"
    BY CallerIsThread
  <2>2. ASSUME NEW l \in Labels \ (Closers \ {"closeStdin"}), pc' = [pc EXCEPT ![c] = l],
               closed' => l \in Path \/ (closed /\ pc[c] \notin Path)
        PROVE  ReleaseInv'
    BY <1>1, <1>3, <1>4, <2>1, <2>2, ReleaseMoved
  <2>3. CASE CallRefused(c)
    BY <1>2, <2>3 DEF CallRefused
  <2>4. CASE CallStart(c) \/ CallWrite(c) \/ CallFlush(c) \/ CallAnswered(c) \/ CallFailed(c)
    <3>1. ~closed'
      BY <2>4
         DEF CallStart, Admit, CallWrite, CallFlush, CallAnswered, CallFailed, LockInv, Calling
    <3>2. \E l \in {"idle", "overwritten", "write", "flush", "read"} : pc' = [pc EXCEPT ![c] = l]
      BY <2>4 DEF CallStart, Admit, CallWrite, CallFlush, CallAnswered, CallFailed, Leave
    <3> QED
      BY <2>2, <3>1, <3>2 DEF Labels, Calling, Closers, Waiting
  <2>5. CASE Close(c) \/ OverwriteCloses(c) \/ CloseWrite(c) \/ CloseFlush(c)
    <3>1. \E l \in {"closeStdin", "closeWrite", "closeFlush"} : pc' = [pc EXCEPT ![c] = l]
      BY <2>5 DEF Close, OverwriteCloses, CloseWrite, CloseFlush, Leave
    <3> QED
      BY <2>2, <3>1 DEF Labels, Closers, Waiting, Path
  <2>6. CASE CallTimedOut(c)
    <3>1. pc' = [pc EXCEPT ![c] = "idle", !["async"] = "closeStdin"]
      BY <2>6 DEF CallTimedOut
    <3>2. /\ pc'[c] = "idle" /\ pc'["async"] = "closeStdin"
          /\ \A u \in Threads \ {c, "async"} : pc'[u] = pc[u]
      BY <1>1, <2>1, <3>1, Constants0 DEF CallTypeOK
    <3>3. ASSUME NEW u \in Threads
          PROVE  /\ pc'[u] \in Closers \ {"closeStdin"} => ~stdin'
                 /\ pc'[u] \in {"closeStderr", "closeStdout"} => reaped'
                 /\ pc'[u] = "closeStdout" => stderrThread' # "running"
      <4>1. CASE u = c \/ u = "async"
        BY <3>2, <4>1 DEF Closers, Waiting
      <4>2. CASE u # c /\ u # "async"
        BY <1>1, <3>2, <4>2 DEF ReleaseInv, Kept
      <4> QED
        BY <4>1, <4>2
    <3>4. pc'["open"] = "failed" => Released'
      BY <1>1, <2>1, <3>2, ReleasedKept, Constants0 DEF ReleaseInv
    <3>5. \E u \in Threads : pc'[u] \in Path
      BY <3>2, Constants0 DEF Path, Closers
    <3> QED
      BY <3>3, <3>4, <3>5 DEF ReleaseInv
  <2> QED
    BY <1>6, <2>3, <2>4, <2>5, <2>6 DEF User, CallerStep
<1>7. ASSUME NEW t \in Threads, CloseStep(t)
      PROVE  ReleaseInv'
  <2>1. ASSUME NEW from, NEW l, At(t, from, l), Behind(l)', l \in Path \/ Released'
        PROVE  ReleaseInv'
    <3>1. pc' = [pc EXCEPT ![t] = l]
      BY <2>1 DEF At
    <3>2. l = "failed" => Released'
      BY <2>1 DEF Path, Closers, Waiting
    <3> QED
      BY <1>1, <1>3, <2>1, <3>1, <3>2, ReleaseMoved
  <2>2. ASSUME NEW from, pc[t] = from, from \in Closers \ {"closeStdin"}
        PROVE  ~stdin' /\ (from \in {"closeStderr", "closeStdout"} => reaped')
               /\ (from = "closeStdout" => stderrThread' # "running")
    BY <1>1, <2>2 DEF ReleaseInv, Kept
  <2>3. CASE CloseStdin(t)
    <3>1. Behind("waitExit")' /\ "waitExit" \in Path
      BY <2>3 DEF CloseStdin, Behind, Path, Closers, Waiting
    <3> QED
      BY <2>1, <2>3, <3>1 DEF CloseStdin
  <2>4. ASSUME NEW from \in Waiting, NEW l \in Waiting, At(t, from, l)
        PROVE  ReleaseInv'
    <3>1. ~stdin' /\ l \in Path
      BY <2>2, <2>4 DEF At, Closers, Path, Waiting
    <3>2. Behind(l)'
      BY <2>4, <3>1 DEF Behind, Waiting
    <3> QED
      BY <2>1, <2>4, <3>1, <3>2
  <2>5. CASE Terminate(t) \/ Kill(t)
    BY <2>4, <2>5 DEF Terminate, Kill, Escalate, Waiting
  <2>6. CASE Reaped(t)
    <3>1. PICK from \in Waiting : At(t, from, "closeStderr")
      BY <2>6 DEF Reaped
    <3>2. ~stdin' /\ reaped'
      BY <2>2, <2>6, <3>1 DEF At, Closers, Waiting, Reaped
    <3>3. Behind("closeStderr")' /\ "closeStderr" \in Path
      BY <3>2 DEF Behind, Path, Closers
    <3> QED
      BY <2>1, <3>1, <3>3
  <2>7. CASE CloseStderr(t)
    <3>1. ~stdin' /\ reaped'
      BY <2>2, <2>7 DEF CloseStderr, At, Closers
    <3>2. stderrThread' # "running"
      BY <2>7 DEF CloseStderr
    <3>3. Behind("closeStdout")' /\ "closeStdout" \in Path
      BY <3>1, <3>2 DEF Behind, Path, Closers
    <3> QED
      BY <2>1, <2>7, <3>3 DEF CloseStderr
  <2>8. CASE CloseStdout(t)
    <3>1. pc[t] = "closeStdout" /\ ~stdout'
      BY <2>8 DEF CloseStdout, At
    <3>2. Released'
      BY <2>2, <3>1 DEF Released, Closers
    <3>3. \A l \in {"idle", "failed", "over"} : Behind(l)'
      BY DEF Behind, Closers, Waiting
    <3> QED
      BY <2>1, <2>8, <3>2, <3>3 DEF CloseStdout
  <2> QED
    BY <1>7, <2>3, <2>5, <2>6, <2>7, <2>8 DEF CloseStep
<1>8. CASE ReaderStep \/ Drain \/ ExitCode \/ ChildStep \/ UNCHANGED vars
  BY <1>2, <1>8 DEF ReaderStep, ReaderReads, ReaderPuts, Drain, ExitCode, ChildStep
<1> QED
  BY <1>5, <1>6, <1>7, <1>8 DEF Next

-----------------------------------------------------------------------------
(* The calls, one after the other.                                         *)

(* One caller at most is in a call: the one that holds the lock.           *)
LEMMA OneCalls ==
  ASSUME LockInv
  PROVE  /\ \A c, d \in Callers : pc[c] \in Calling /\ pc[d] \in Calling => c = d
         /\ lock = "free" => \A c \in Callers : pc[c] \notin Calling
BY CallerIsThread DEF LockInv, Locked

(* Where a step leads one caller, and leaves the other ones.               *)
LEMMA OneMoves ==
  ASSUME TypeOK, NEW c \in Callers, NEW l,
         pc' = [pc EXCEPT ![c] = l] \/ pc' = [pc EXCEPT ![c] = l, !["async"] = "closeStdin"]
  PROVE  pc'[c] = l /\ \A d \in Callers \ {c} : pc'[d] = pc[d]
<1>1. pc \in [Threads -> Labels]
  BY DEF TypeOK
<1> QED
  BY <1>1, CallerIsThread

(* The locals of a caller that lets go of the lock are its own.            *)
LEMMA OthersLocals ==
  ASSUME TypeOK, NEW c \in Callers, Unlock(c)
  PROVE  \A d \in Callers \ {c} : id'[d] = id[d]
BY DEF TypeOK, Unlock

(* Nobody starts a call or returns from one.                               *)
LEMMA OrderSame ==
  ASSUME OrderInv, UNCHANGED <<issued, outcome>>,
         \A d \in Callers : /\ pc'[d] \in Calling <=> pc[d] \in Calling
                            /\ pc'[d] \in Calling => id'[d] = id[d]
  PROVE  OrderInv'
BY DEF OrderInv

(* A call returns.                                                         *)
LEMMA OrderReturn ==
  ASSUME TypeOK, LockInv, OrderInv, NEW c \in Callers, pc[c] \in Calling,
         NEW k \in Outcomes \ {"none", "pending"}, NEW r, Return(c, k, r),
         UNCHANGED issued, Unlock(c), pc'[c] \notin Calling,
         \A d \in Callers \ {c} : pc'[d] = pc[d]
  PROVE  OrderInv'
<1>1. id[c] = issued /\ issued \in Ids
  BY DEF OrderInv
<1>2. \A d \in Callers : pc'[d] \notin Calling
  BY OneCalls
<1>3. /\ outcome'[issued].kind = k
      /\ \A i \in Ids \ {issued} : outcome'[i] = outcome[i]
  BY <1>1 DEF Return, TypeOK
<1> QED
  BY <1>1, <1>2, <1>3 DEF OrderInv, Ids, TypeOK

(* A new call is admitted or refused.                                      *)
LEMMA OrderNew ==
  ASSUME TypeOK, LockInv, OrderInv, lock = "free", issued < MaxRequests,
         issued' = issued + 1, NEW k \in {"pending", "closed"},
         outcome' = [outcome EXCEPT ![issued + 1] = [re |-> 0, kind |-> k]],
         \A d \in Callers : pc'[d] \in Calling => id'[d] = issued + 1,
         k = "pending" <=> \E d \in Callers : pc'[d] \in Calling
  PROVE  OrderInv'
<1>1. issued \in Nat /\ issued + 1 \in Ids
  BY MaxRequestsAssumption DEF TypeOK, Ids
<1>2. /\ outcome'[issued + 1].kind = k
      /\ \A i \in Ids \ {issued + 1} : outcome'[i] = outcome[i]
  BY <1>1 DEF TypeOK
<1>3. \A i \in Ids : outcome[i].kind # "pending"
  BY OneCalls DEF OrderInv
<1>4. ASSUME NEW i \in Ids
      PROVE  /\ i > issued' => outcome'[i].kind = "none"
             /\ i <= issued' => outcome'[i].kind # "none"
             /\ outcome'[i].kind = "pending" <=>
                   i = issued' /\ \E d \in Callers : pc'[d] \in Calling
  <2>1. CASE i = issued + 1
    BY <1>1, <1>2, <2>1
  <2>2. CASE i # issued + 1
    BY <1>1, <1>2, <1>3, <2>2 DEF OrderInv, Ids
  <2> QED
    BY <2>1, <2>2
<1> QED
  BY <1>1, <1>4 DEF OrderInv

LEMMA OrderStep ==
  ASSUME TypeOK, LockInv, OrderInv, [Next]_vars
  PROVE  OrderInv'
<1>1. CallTypeOK
  BY Types
<1>2. ASSUME UNCHANGED <<pc, id, issued, outcome>>
      PROVE  OrderInv'
  BY <1>2, OrderSame
<1>3. ASSUME NEW t \in Threads, NEW l \in Labels \ Calling, pc[t] \notin Calling,
             pc' = [pc EXCEPT ![t] = l], UNCHANGED <<id, issued, outcome>>
      PROVE  OrderInv'
  <2>1. \A d \in Callers : pc'[d] \in Calling <=> pc[d] \in Calling
    BY <1>1, <1>3, CallerIsThread DEF CallTypeOK
  <2> QED
    BY <1>3, <2>1, OrderSame
<1>4. CASE HelloAccepted \/ HelloFailed \/ HelloRaises
  BY <1>3, <1>4, Constants0 DEF HelloAccepted, HelloFailed, HelloRaises, Labels, Calling, Waiting
<1>5. ASSUME NEW c \in Callers, User(c) \/ CallerStep(c)
      PROVE  OrderInv'
  <2>1. ASSUME NEW l \in Labels, pc[c] \in Calling <=> l \in Calling, pc' = [pc EXCEPT ![c] = l],
               UNCHANGED <<issued, outcome>>,
               UNCHANGED id \/ (l \notin Calling /\ Unlock(c))
        PROVE  OrderInv'
    <3>1. pc'[c] = l /\ \A d \in Callers \ {c} : pc'[d] = pc[d]
      BY <2>1, OneMoves
    <3>2. \A d \in Callers : pc'[d] \in Calling => id'[d] = id[d]
      BY <2>1, <3>1, OthersLocals
    <3> QED
      BY <2>1, <3>1, <3>2, OrderSame
  <2>2. ASSUME NEW k \in Outcomes \ {"none", "pending"}, NEW r, pc[c] \in Calling,
               Return(c, k, r), UNCHANGED issued, NEW l \in {"idle", "overwritten"}, Unlock(c),
               \/ pc' = [pc EXCEPT ![c] = l]
               \/ pc' = [pc EXCEPT ![c] = l, !["async"] = "closeStdin"]
        PROVE  OrderInv'
    <3>1. pc'[c] = l /\ \A d \in Callers \ {c} : pc'[d] = pc[d]
      BY <2>2, OneMoves
    <3>2. l \notin Calling
      BY DEF Calling
    <3> QED
      BY <2>2, <3>1, <3>2, OrderReturn
  <2>3. {"io", "timeout"} \subseteq Outcomes \ {"none", "pending"}
    BY DEF Outcomes
  <2>4. CASE CallRefused(c)
    <3>1. \A d \in Callers : pc'[d] \notin Calling
      BY <2>4, OneCalls DEF CallRefused, CanLock
    <3> QED
      BY <2>4, <3>1, OrderNew DEF CallRefused, CanLock
  <2>5. CASE CallStart(c)
    <3>1. /\ lock = "free" /\ issued < MaxRequests /\ issued' = issued + 1
          /\ id' = [id EXCEPT ![c] = issued + 1] /\ pc' = [pc EXCEPT ![c] = "write"]
          /\ outcome' = [outcome EXCEPT ![issued + 1] = [re |-> 0, kind |-> "pending"]]
      BY <2>5 DEF CallStart, CanLock, Admit
    <3>2. pc'[c] = "write" /\ \A d \in Callers \ {c} : pc'[d] = pc[d]
      BY <3>1, OneMoves
    <3>3. id'[c] = issued + 1
      BY <1>1, <3>1 DEF CallTypeOK
    <3>4. pc'[c] \in Calling /\ \A d \in Callers \ {c} : pc'[d] \notin Calling
      BY <3>1, <3>2, OneCalls DEF Calling
    <3> QED
      BY <3>1, <3>3, <3>4, OrderNew
  <2>6. CASE CallWrite(c)
    BY <2>1, <2>2, <2>3, <2>6 DEF CallWrite, Leave, Calling, Labels
  <2>7. CASE CallFlush(c)
    BY <2>1, <2>2, <2>3, <2>7 DEF CallFlush, Leave, Calling, Labels
  <2>8. CASE CallAnswered(c)
    <3>1. Decoded(slot) \in Outcomes \ {"none", "pending"}
      BY DEF Decoded, Outcomes, Answered
    <3>2. PICK l \in {"idle", "overwritten"} : Leave(c, l)
      BY <2>8 DEF CallAnswered
    <3>3. /\ pc[c] \in Calling /\ Return(c, Decoded(slot), slot.id) /\ UNCHANGED issued
          /\ Unlock(c) /\ pc' = [pc EXCEPT ![c] = l]
      BY <2>8, <3>2 DEF CallAnswered, Leave, Calling
    <3> HIDE DEF Return, Unlock, Decoded
    <3> QED
      BY <2>2, <3>1, <3>3
  <2>9. CASE CallFailed(c)
    BY <2>2, <2>3, <2>9 DEF CallFailed, Leave, Calling
  <2>10. CASE CallTimedOut(c)
    BY <2>2, <2>3, <2>10 DEF CallTimedOut, Calling
  <2>11. CASE OverwriteCloses(c) \/ Close(c) \/ CloseWrite(c) \/ CloseFlush(c)
    <3>1. PICK l \in {"closeStdin", "closeWrite", "closeFlush"} :
             /\ pc' = [pc EXCEPT ![c] = l] /\ pc[c] \notin Calling
             /\ UNCHANGED <<issued, outcome>> /\ (UNCHANGED id \/ Unlock(c))
      BY <2>11 DEF OverwriteCloses, Close, CloseWrite, CloseFlush, Leave, Calling
    <3> QED
      BY <2>1, <3>1 DEF Labels, Calling
  <2> QED
    BY <1>5, <2>4, <2>5, <2>6, <2>7, <2>8, <2>9, <2>10, <2>11 DEF User, CallerStep
<1>6. ASSUME NEW t \in Threads, CloseStep(t)
      PROVE  OrderInv'
  <2>1. \E from \in Labels \ Calling, l \in Labels \ Calling : At(t, from, l)
    BY <1>6
       DEF CloseStep, CloseStdin, Terminate, Kill, Escalate, Reaped, CloseStderr, CloseStdout,
           Labels, Waiting, Calling
  <2> QED
    BY <1>3, <2>1 DEF At
<1>7. CASE ReaderStep \/ Drain \/ ExitCode \/ ChildStep \/ UNCHANGED vars
  BY <1>2, <1>7 DEF ReaderStep, ReaderReads, ReaderPuts, Drain, ExitCode, ChildStep
<1> QED
  BY <1>4, <1>5, <1>6, <1>7 DEF Next

-----------------------------------------------------------------------------
(* What is on its way.                                                     *)

HeldInv == thread # "putting" => held = NoItem

LEMMA Lengths ==
  ASSUME TypeOK
  PROVE  /\ toChild \in Seq(Request) /\ fromChild \in Seq(Line)
         /\ Len(toChild) \in Nat /\ Len(fromChild) \in Nat
         /\ Len(toChild) = 0 <=> toChild = <<>>
         /\ Len(fromChild) = 0 <=> fromChild = <<>>
         /\ Count(held) \in {0, 1} /\ Count(slot) \in {0, 1}
         /\ Count(held) = 0 <=> ~Carries(held)
         /\ Count(slot) = 0 <=> ~Carries(slot)
         /\ InFlight \in Nat
<1>1. toChild \in Seq(Request) /\ fromChild \in Seq(Line)
  BY DEF TypeOK, ChildTypeOK
<1>2. /\ Len(toChild) \in Nat /\ Len(fromChild) \in Nat
      /\ Len(toChild) = 0 <=> toChild = <<>>
      /\ Len(fromChild) = 0 <=> fromChild = <<>>
  BY <1>1, EmptySeq
<1>3. /\ Count(held) \in {0, 1} /\ Count(slot) \in {0, 1}
      /\ Count(held) = 0 <=> ~Carries(held)
      /\ Count(slot) = 0 <=> ~Carries(slot)
  BY DEF Count
<1>4. InFlight \in Nat
  BY <1>2, <1>3 DEF InFlight
<1> QED
  BY <1>1, <1>2, <1>3, <1>4

(* If one item at most is on its way, the one in the queue is alone, and   *)
(* so is one in the pipe to the server.                                    *)
LEMMA Alone ==
  ASSUME TypeOK, InFlight <= 1
  PROVE  /\ Carries(slot) => toChild = <<>> /\ fromChild = <<>> /\ ~Carries(held)
         /\ toChild # <<>> => fromChild = <<>> /\ ~Carries(held) /\ ~Carries(slot)
<1>1. /\ Len(toChild) \in Nat /\ Len(fromChild) \in Nat
      /\ Count(held) \in {0, 1} /\ Count(slot) \in {0, 1}
      /\ Len(toChild) + Len(fromChild) + Count(held) + Count(slot) <= 1
  BY Lengths DEF InFlight
<1>2. Count(slot) # 0 => Len(toChild) = 0 /\ Len(fromChild) = 0 /\ Count(held) = 0
  BY <1>1
<1>3. Len(toChild) # 0 => Len(fromChild) = 0 /\ Count(held) = 0 /\ Count(slot) = 0
  BY <1>1
<1> QED
  BY <1>2, <1>3, Lengths

(* A step after which no more is on its way than before, of no other       *)
(* request.                                                                *)
Flows ==
    /\ Live' => Live
    /\ InFlight' <= InFlight
    /\ \A i : AllOf(i) => AllOf(i)'
    /\ NothingInFlight => NothingInFlight'
    /\ child' = "booting" => child = "booting"
    /\ toChild = <<>> => toChild' = <<>>

LEMMA FlowsIdle ==
  ASSUME TypeOK, UNCHANGED <<slot, held, terminal, toChild, fromChild>>,
         child' = child \/ child' = "dead"
  PROVE  Flows
<1>1. InFlight' = InFlight /\ InFlight \in Nat
  BY Lengths DEF InFlight, Count, Carries
<1> QED
  BY <1>1 DEF Flows, Live, AllOf, Carries, NothingInFlight

LEMMA FlowsRead ==
  ASSUME TypeOK, HeldInv, ReaderReads
  PROVE  Flows /\ HeldInv'
<1>1. /\ thread = "reading" /\ held = NoItem
      /\ UNCHANGED <<child, toChild, slot, terminal>>
  BY DEF ReaderReads, HeldInv
<1>2. /\ Live' = Live /\ Count(slot)' = Count(slot) /\ Carries(slot)' = Carries(slot)
      /\ ~Carries(held) /\ Count(held) = 0
  BY <1>1 DEF Live, Count, Carries, NoItem
<1>3. CASE fromChild # <<>> /\ held' = Head(fromChild) /\ fromChild' = Tail(fromChild) /\ thread' = "putting"
  <2>1. /\ held' = fromChild[1] /\ fromChild[1] \in Line /\ Len(fromChild) > 0
        /\ Len(fromChild') = Len(fromChild) - 1
        /\ \A k \in 1..Len(fromChild') : fromChild'[k] = fromChild[k + 1]
    BY <1>3, Lengths
  <2>2. Carries(held)' /\ Count(held)' = 1
    BY <2>1 DEF Line, LineKinds, Carries, Count
  <2>3. InFlight' <= InFlight
    BY <1>1, <1>2, <2>1, <2>2, Lengths DEF InFlight
  <2>4. ASSUME NEW i, AllOf(i) PROVE AllOf(i)'
    <3>1. \A k \in 1..Len(fromChild') : k + 1 \in 1..Len(fromChild)
      BY <2>1, Lengths
    <3>2. \A k \in 1..Len(fromChild') : fromChild'[k].id = i
      BY <2>1, <2>4, <3>1 DEF AllOf
    <3>3. held'.id = i
      BY <2>1, <2>4, Lengths DEF AllOf
    <3> QED
      BY <1>1, <2>4, <3>2, <3>3 DEF AllOf, Carries
  <2> QED
    BY <1>1, <1>2, <1>3, <2>3, <2>4 DEF Flows, NothingInFlight, HeldInv
<1>4. CASE UNCHANGED fromChild /\ ((held' = EofItem /\ thread' = "putting") \/ UNCHANGED held)
  <2>1. ~Carries(held)' /\ Count(held)' = 0
    BY <1>1, <1>4 DEF Carries, Count, NoItem, EofItem
  <2>2. InFlight' <= InFlight
    BY <1>1, <1>2, <1>4, <2>1, Lengths DEF InFlight
  <2>3. \A i : AllOf(i) => AllOf(i)'
    BY <1>1, <1>2, <1>4, <2>1 DEF AllOf
  <2> QED
    BY <1>1, <1>2, <1>4, <2>1, <2>2, <2>3 DEF Flows, NothingInFlight, HeldInv
<1> QED
  BY <1>3, <1>4 DEF ReaderReads

LEMMA FlowsPut ==
  ASSUME TypeOK, ReaderPuts
  PROVE  Flows /\ HeldInv'
<1>1. /\ slot = NoItem /\ slot' = held /\ held' = NoItem
      /\ UNCHANGED <<child, toChild, fromChild, terminal>>
  BY DEF ReaderPuts
<1>2. /\ ~Carries(slot) /\ Count(slot) = 0 /\ ~Carries(held)' /\ Count(held)' = 0
      /\ Carries(slot)' = Carries(held) /\ Count(slot)' = Count(held)
  BY <1>1 DEF Carries, Count, NoItem
<1>3. InFlight' <= InFlight
  BY <1>1, <1>2, Lengths DEF InFlight
<1>4. \A i : AllOf(i) => AllOf(i)'
  BY <1>1, <1>2 DEF AllOf
<1>5. Live' => Live
  BY <1>1 DEF Live, NoItem, Terminals
<1> QED
  BY <1>1, <1>2, <1>3, <1>4, <1>5 DEF Flows, NothingInFlight, HeldInv

LEMMA FlowsSaid ==
  ASSUME TypeOK, NEW line, Says(line), UNCHANGED readerVars, child # "booting"
  PROVE  Flows
<1>1. /\ line \in Line /\ fromChild' = Append(fromChild, line)
      /\ child = "serving" /\ child' \in {"serving", "leaving"}
      /\ toChild # <<>> /\ line.id = toChild[1].id /\ toChild' = Tail(toChild)
  BY DEF Says
<1>2. /\ Len(fromChild') = Len(fromChild) + 1 /\ fromChild'[Len(fromChild) + 1] = line
      /\ \A k \in 1..Len(fromChild) : fromChild'[k] = fromChild[k]
  BY <1>1, Lengths, Appended
<1>3. /\ Len(toChild) > 0 /\ Len(toChild') = Len(toChild) - 1
      /\ \A k \in 1..Len(toChild') : toChild'[k] = toChild[k + 1]
  BY <1>1, Lengths
<1>4. /\ Live' = Live /\ Count(slot)' = Count(slot) /\ Count(held)' = Count(held)
      /\ Carries(slot)' = Carries(slot) /\ Carries(held)' = Carries(held)
  BY DEF Live, Count, Carries
<1>5. InFlight' <= InFlight
  BY <1>2, <1>3, <1>4, Lengths DEF InFlight
<1>6. ASSUME NEW i, AllOf(i) PROVE AllOf(i)'
  <2>1. \A k \in 1..Len(toChild') : toChild'[k].id = i
    <3>1. \A k \in 1..Len(toChild') : k + 1 \in 1..Len(toChild)
      BY <1>3, Lengths
    <3> QED
      BY <1>3, <1>6, <3>1 DEF AllOf
  <2>2. line.id = i
    BY <1>1, <1>3, <1>6, Lengths DEF AllOf
  <2>3. \A k \in 1..Len(fromChild') : fromChild'[k].id = i
    <3>1. \A k \in 1..Len(fromChild') : k \in 1..Len(fromChild) \/ k = Len(fromChild) + 1
      BY <1>2, Lengths
    <3> QED
      BY <1>2, <1>6, <2>2, <3>1 DEF AllOf
  <2> QED
    BY <1>4, <1>6, <2>1, <2>3 DEF AllOf
<1> QED
  BY <1>1, <1>4, <1>5, <1>6 DEF Flows, NothingInFlight

(* No call is on its way, and none can start.                              *)
LEMMA FlightQuiet ==
  ASSUME HeldInv', pc'["open"] # "hello", closed' \/ ~Opened',
         \A c \in Callers : pc'[c] \notin Calling
  PROVE  FlightInv'
BY DEF FlightInv, HeldInv, Calling

(* The session goes on, and whatever it starts finds nothing on its way.   *)
LEMMA FlightKept ==
  ASSUME TypeOK, FlightInv, HeldInv', Flows,
         pc'["open"] = "hello" => pc["open"] = "hello",
         Opened' /\ ~closed' => Opened /\ ~closed,
         Live' /\ Opened' /\ ~closed' /\ lock' = "free" => lock = "free" \/ NothingInFlight',
         \A c \in Callers :
            /\ Live' /\ pc'[c] = "write" => pc[c] = "write" \/ NothingInFlight'
            /\ Live' /\ pc'[c] \in {"flush", "read"} =>
                  pc[c] \in {"flush", "read"} /\ id'[c] = id[c]
  PROVE  FlightInv'
<1> USE DEF FlightInv, Flows
<1>1. InFlight' \in Nat
  <2>1. Count(held)' \in {0, 1} /\ Count(slot)' \in {0, 1}
    BY DEF Count
  <2> QED
    BY <2>1 DEF InFlight
<1>2. Live' /\ pc'["open"] = "hello" => /\ InFlight' <= 1 /\ toChild' = <<>>
                                        /\ child' = "booting" => InFlight' = 0
  BY <1>1, Lengths
<1>3. Live' /\ Opened' /\ ~closed' => child' # "booting"
  OBVIOUS
<1>4. Live' /\ Opened' /\ ~closed' /\ lock' = "free" => NothingInFlight'
  OBVIOUS
<1>5. ASSUME Live', NEW c \in Callers
      PROVE  /\ pc'[c] = "write" => NothingInFlight'
             /\ pc'[c] \in {"flush", "read"} => InFlight' <= 1 /\ AllOf(id[c])'
  <2>1. Live
    BY <1>5
  <2>2. pc'[c] = "write" => NothingInFlight'
    BY <1>5, <2>1
  <2>3. CASE pc'[c] \in {"flush", "read"}
    <3>1. PICK i : i = id[c]
      OBVIOUS
    <3>2. InFlight <= 1 /\ AllOf(i) /\ id'[c] = i
      BY <1>5, <2>1, <2>3, <3>1
    <3>3. InFlight' <= 1
      BY <1>1, <3>2, Lengths
    <3>4. AllOf(i)'
      BY <3>2
    <3>5. AllOf(id[c])'
      BY <3>2, <3>4 DEF AllOf
    <3> QED
      BY <2>3, <3>3, <3>5
  <2> QED
    BY <2>2, <2>3
<1> QED
  BY <1>2, <1>3, <1>4, <1>5 DEF HeldInv

(* Nothing of the session moves.                                           *)
LEMMA FlightData ==
  ASSUME TypeOK, FlightInv, HeldInv', Flows, UNCHANGED <<pc, id, lock, closed>>
  PROVE  FlightInv'
BY FlightKept DEF Opened

(* The server says something.                                              *)
LEMMA FlightSaid ==
  ASSUME TypeOK, LockInv, FlightInv, NEW line, Says(line),
         UNCHANGED <<callVars, readerVars, procVars>>
  PROVE  FlightInv'
<1>1. HeldInv'
  BY DEF FlightInv, HeldInv
<1>2. CASE child # "booting"
  BY <1>1, <1>2, FlowsSaid, FlightData
<1>3. CASE child = "booting"
  <2>1. /\ child' = "serving" /\ UNCHANGED toChild /\ fromChild' = Append(fromChild, line)
        /\ line \in Line
    BY <1>3 DEF Says
  <2>2. InFlight' = InFlight + 1
    <3>1. Len(fromChild') = Len(fromChild) + 1
      BY <2>1, Lengths, Appended
    <3>2. Count(held)' = Count(held) /\ Count(slot)' = Count(slot)
      BY DEF Count, Carries
    <3> QED
      BY <2>1, <3>1, <3>2, Lengths DEF InFlight
  <2>3. Live' = Live
    BY DEF Live
  <2>4. Live /\ Opened => closed
    BY <1>3 DEF FlightInv
  <2>5. Live => \A c \in Callers : pc[c] \notin Calling
    BY <2>4 DEF LockInv, Calling
  <2>6. Live /\ pc["open"] = "hello" => InFlight' <= 1
    BY <1>3, <2>2 DEF FlightInv
  <2> QED
    BY <1>1, <2>1, <2>3, <2>4, <2>5, <2>6 DEF FlightInv, HeldInv, Opened, Calling
<1> QED
  BY <1>2, <1>3

(* A caller with the lock goes on, the other ones are not in a call.       *)
LEMMA FlightOwn ==
  ASSUME TypeOK, LockInv, NEW c \in Callers, pc[c] \in Locked,
         NEW l, pc' = [pc EXCEPT ![c] = l]
  PROVE  /\ pc'["open"] = pc["open"] /\ Opened /\ Opened' /\ pc'["open"] # "hello" /\ pc'[c] = l
         /\ lock = c /\ \A d \in Callers \ {c} : pc'[d] = pc[d] /\ pc'[d] \notin Calling
<1>1. pc'[c] = l /\ pc'["open"] = pc["open"] /\ \A d \in Callers \ {c} : pc'[d] = pc[d]
  BY CallerIsThread, Constants0 DEF TypeOK
<1>2. lock = c
  BY DEF LockInv
<1>3. \A d \in Callers \ {c} : pc[d] \notin Locked
  BY <1>2 DEF LockInv
<1>4. Opened
  BY DEF LockInv, Locked, Calling
<1> QED
  BY <1>1, <1>2, <1>3, <1>4 DEF Opened, Locked

(* A call: what it sends, and what it takes from the queue.                *)
LEMMA FlightCall ==
  ASSUME TypeOK, LockInv, FlightInv, NEW c \in Callers, pc[c] \in Calling,
         CallWrite(c) \/ CallFlush(c) \/ CallAnswered(c) \/ CallFailed(c)
  PROVE  FlightInv'
<1>1. /\ ~closed /\ Opened /\ pc[c] \in Locked /\ (Live => child # "booting")
  BY DEF LockInv, FlightInv, Locked, Calling
<1>2. HeldInv'
  BY DEF CallWrite, CallFlush, CallAnswered, CallFailed, GotLine, GotTerminal, FlightInv, HeldInv
<1>3. ASSUME NEW l \in {"idle", "overwritten"}, Leave(c, l), Live' => NothingInFlight'
      PROVE  FlightInv'
  <2>1. pc'["open"] # "hello" /\ \A d \in Callers : pc'[d] \notin Calling
    BY <1>1, <1>3, FlightOwn DEF Leave, Calling
  <2>2. NothingInFlight' => child' # "booting"
    BY DEF NothingInFlight
  <2> QED
    BY <1>2, <1>3, <2>1, <2>2 DEF FlightInv, HeldInv, Calling
<1>4. ASSUME NEW l \in {"flush", "read"}, pc' = [pc EXCEPT ![c] = l],
             UNCHANGED <<id, lock, child>>, Live' => Live /\ InFlight' <= 1 /\ AllOf(id[c])'
      PROVE  FlightInv'
  <2>1. /\ pc'["open"] # "hello" /\ pc'[c] = l /\ lock' = c
        /\ \A d \in Callers \ {c} : pc'[d] \notin Calling
    BY <1>1, <1>4, FlightOwn
  <2>2. lock' # "free"
    BY <2>1, CallerIsThread
  <2> QED
    BY <1>1, <1>2, <1>4, <2>1, <2>2 DEF FlightInv, HeldInv, Calling
<1>5. CASE CallWrite(c)
  <2>1. /\ pc[c] = "write" /\ UNCHANGED <<child, fromChild, slot, held, terminal>>
        /\ Live' = Live /\ (Live => NothingInFlight)
    BY <1>5 DEF CallWrite, FlightInv, Live
  <2>2. CASE WriteFails
    BY <1>3, <1>5, <2>1, <2>2 DEF CallWrite, NothingInFlight, Carries
  <2>3. CASE ~WriteFails
    <3>1. /\ toChild' = Append(toChild, [op |-> op[c], id |-> id[c]]) /\ child # "dead"
          /\ pc' = [pc EXCEPT ![c] = "flush"] /\ UNCHANGED <<id, lock>>
      BY <1>5, <2>3 DEF CallWrite, WriteFails
    <3>2. ASSUME Live PROVE InFlight' <= 1 /\ AllOf(id[c])'
      <4>1. toChild = <<>> /\ fromChild = <<>> /\ ~Carries(held) /\ ~Carries(slot)
        BY <2>1, <3>1, <3>2 DEF NothingInFlight
      <4>2. toChild' = <<[op |-> op[c], id |-> id[c]]>>
        BY <3>1, <4>1
      <4>3. Len(toChild') = 1 /\ Len(fromChild') = 0 /\ toChild'[1].id = id[c]
        BY <2>1, <4>1, <4>2
      <4>4. ~Carries(held)' /\ ~Carries(slot)' /\ Count(held)' = 0 /\ Count(slot)' = 0
        BY <2>1, <4>1 DEF Carries, Count
      <4> QED
        BY <3>1, <4>3, <4>4 DEF InFlight, AllOf
    <3> QED
      BY <1>4, <2>1, <3>1, <3>2
  <2> QED
    BY <2>2, <2>3
<1>6. CASE CallFlush(c)
  <2>1. /\ pc[c] = "flush" /\ UNCHANGED <<childVars, slot, held, terminal>>
        /\ Live' = Live /\ (Live => InFlight <= 1 /\ AllOf(id[c]))
    BY <1>6 DEF CallFlush, FlightInv, Live
  <2>2. CASE pc' = [pc EXCEPT ![c] = "read"] /\ UNCHANGED <<id, lock>>
    <3>1. InFlight' = InFlight
      BY <2>1 DEF InFlight, Count, Carries
    <3>2. AllOf(id[c]) => AllOf(id[c])'
      BY <2>1, <2>2 DEF AllOf, Carries
    <3> QED
      BY <1>4, <2>1, <2>2, <3>1, <3>2
  <2>3. CASE Len(toChild) > room /\ child = "dead" /\ Leave(c, "idle")
    <3>1. toChild # <<>>
      BY <2>3 DEF TypeOK, ChildTypeOK
    <3>2. Live => NothingInFlight
      BY <2>1, <2>3, <3>1, Alone DEF NothingInFlight
    <3>3. Live' => NothingInFlight'
      BY <2>1, <3>2 DEF NothingInFlight, Carries
    <3> QED
      BY <1>3, <2>3, <3>3
  <2> QED
    BY <1>6, <2>2, <2>3 DEF CallFlush
<1>7. CASE CallAnswered(c)
  <2>1. /\ pc[c] = "read" /\ terminal = "none" /\ slot # NoItem /\ slot.kind \notin Terminals
        /\ slot' = NoItem /\ UNCHANGED <<childVars, held, terminal>>
    BY <1>7 DEF CallAnswered, GotLine
  <2>2. Live /\ InFlight <= 1 /\ Carries(slot)
    BY <2>1 DEF Live, FlightInv, TypeOK, Items, LineKinds, Carries, Terminals
  <2>3. toChild = <<>> /\ fromChild = <<>> /\ ~Carries(held)
    BY <2>2, Alone
  <2>4. NothingInFlight'
    BY <1>1, <2>1, <2>2, <2>3 DEF NothingInFlight, Carries, NoItem
  <2> QED
    BY <1>3, <1>7, <2>4 DEF CallAnswered
<1>8. CASE CallFailed(c)
  <2>1. ~Live'
    BY <1>8 DEF CallFailed, GotTerminal, Live, Terminals
  <2> QED
    BY <1>3, <1>8, <2>1 DEF CallFailed
<1> QED
  BY <1>5, <1>6, <1>7, <1>8

LEMMA FlightStep ==
  ASSUME TypeOK, LockInv, LockInv', FlightInv, [Next]_vars
  PROVE  FlightInv'
<1>1. CallTypeOK /\ HeldInv
  BY Types DEF FlightInv, HeldInv
<1>2. ASSUME UNCHANGED <<slot, held, terminal, thread, toChild, fromChild>>,
             child' = child \/ child' = "dead"
      PROVE  Flows /\ HeldInv'
  BY <1>1, <1>2, FlowsIdle DEF HeldInv
<1>3. CASE HelloAccepted
  <2>1. /\ pc["open"] = "hello" /\ terminal = "none" /\ slot.kind = "hello" /\ slot' = NoItem
        /\ UNCHANGED <<childVars, held, thread, terminal, lock>>
    BY <1>3 DEF HelloAccepted, GotLine
  <2>2. pc'["open"] = "over" /\ \A c \in Callers : pc'[c] = "idle"
    <3>1. \A c \in Callers : pc[c] = "idle"
      BY <2>1 DEF LockInv, Opened
    <3> QED
      BY <1>1, <1>3, <3>1, CallerIsThread, Constants0 DEF HelloAccepted, CallTypeOK
  <2>3. Live /\ Carries(slot) /\ InFlight <= 1 /\ (child = "booting" => InFlight = 0)
    BY <2>1 DEF Live, Terminals, Carries, FlightInv
  <2>4. toChild = <<>> /\ fromChild = <<>> /\ ~Carries(held)
    BY <2>3, Alone
  <2>5. child # "booting"
    BY <2>3, Lengths DEF InFlight
  <2>6. NothingInFlight'
    BY <2>1, <2>4, <2>5 DEF NothingInFlight, Carries, NoItem
  <2>7. HeldInv'
    BY <1>1, <2>1 DEF HeldInv
  <2> QED
    BY <2>1, <2>2, <2>5, <2>6, <2>7 DEF FlightInv, HeldInv
<1>4. CASE HelloFailed \/ HelloRaises
  <2>1. pc["open"] = "hello" /\ UNCHANGED <<held, thread>>
    BY <1>4 DEF HelloFailed, HelloRaises, GotLine, GotTerminal, Expired
  <2>2. pc'["open"] \in {"closeStdin", "raised"} /\ \A c \in Callers : pc'[c] = "idle"
    <3>1. \A c \in Callers : pc[c] = "idle"
      BY <2>1 DEF LockInv, Opened
    <3> QED
      BY <1>1, <1>4, <3>1, CallerIsThread, Constants0 DEF HelloFailed, HelloRaises, CallTypeOK
  <2>3. HeldInv'
    BY <1>1, <2>1 DEF HeldInv
  <2> QED
    BY <2>2, <2>3, FlightQuiet DEF Opened, Calling
<1>5. ASSUME NEW c \in Callers, User(c) \/ CallerStep(c)
      PROVE  FlightInv'
  <2>1. CASE CallRefused(c)
    BY <1>2, <2>1, FlightData DEF CallRefused
  <2>2. CASE CallStart(c)
    <3>1. /\ Opened /\ lock = "free" /\ ~closed /\ lock' = c /\ UNCHANGED <<closed, childVars, readerVars>>
          /\ pc' = [pc EXCEPT ![c] = "write"]
      BY <2>2 DEF CallStart, CanLock, Admit
    <3>2. pc'[c] = "write" /\ \A d \in Callers \ {c} : pc'[d] = pc[d] /\ pc'[d] \notin Calling
      BY <3>1, OneMoves, OneCalls
    <3>3. pc'["open"] = pc["open"]
      BY <1>1, <3>1, CallerIsThread, Constants0 DEF CallTypeOK
    <3>4. Live' => NothingInFlight'
      BY <3>1 DEF FlightInv, Live, NothingInFlight, Carries
    <3>5. Flows /\ HeldInv'
      BY <1>2, <3>1
    <3>6. lock' # "free"
      BY <3>1, CallerIsThread
    <3> QED
      BY <3>1, <3>2, <3>3, <3>4, <3>5, <3>6, FlightKept DEF Opened, Calling
  <2>3. CASE CallWrite(c) \/ CallFlush(c) \/ CallAnswered(c) \/ CallFailed(c)
    <3>1. pc[c] \in Calling
      BY <2>3 DEF CallWrite, CallFlush, CallAnswered, CallFailed, Calling
    <3> QED
      BY <2>3, <3>1, FlightCall
  <2>4. CASE CallTimedOut(c) \/ Close(c) \/ OverwriteCloses(c) \/ CloseWrite(c) \/ CloseFlush(c)
    <3>1. closed' /\ UNCHANGED <<held, thread>>
      BY <2>4
         DEF CallTimedOut, Expired, Close, OverwriteCloses, CloseWrite, CloseFlush, LockInv
    <3>2. Opened
      BY <2>4
         DEF LockInv, Close, CanLock, CallTimedOut, OverwriteCloses, CloseWrite, CloseFlush
    <3>3. pc'["open"] # "hello" /\ \A d \in Callers : pc'[d] \notin Calling
      <4>1. pc'["open"] = pc["open"]
        BY <1>1, <2>4, CallerIsThread, Constants0
           DEF CallTimedOut, Close, OverwriteCloses, CloseWrite, CloseFlush, Leave, CallTypeOK
      <4>2. \A d \in Callers : pc'[d] \notin Calling
        BY <3>1 DEF LockInv
      <4> QED
        BY <3>2, <4>1, <4>2 DEF Opened
    <3>4. HeldInv'
      BY <1>1, <3>1 DEF HeldInv
    <3> QED
      BY <3>1, <3>3, <3>4, FlightQuiet
  <2> QED
    BY <1>5, <2>1, <2>2, <2>3, <2>4 DEF User, CallerStep
<1>6. ASSUME NEW t \in Threads, CloseStep(t)
      PROVE  FlightInv'
  <2>1. PICK from \in Labels \ ({"hello", "over"} \cup Calling),
             l \in Labels \ ({"hello"} \cup Calling) :
          At(t, from, l) /\ (t = "open" => l # "over")
    BY <1>6, CallersAssumption
       DEF CloseStep, CloseStdin, Terminate, Kill, Escalate, Reaped, CloseStderr, CloseStdout,
           Labels, Waiting, Calling
  <2>2. pc[t] = from /\ pc'[t] = l /\ \A u \in Threads \ {t} : pc'[u] = pc[u]
    BY <1>1, <2>1 DEF At, CallTypeOK
  <2>3. UNCHANGED <<child, toChild, fromChild>> /\ UNCHANGED <<id, lock, closed, readerVars>>
    BY <1>6
       DEF CloseStep, CloseStdin, Terminate, Kill, Escalate, Reaped, CloseStderr, CloseStdout, At
  <2>4. Flows /\ HeldInv'
    BY <1>2, <2>3
  <2>5. /\ pc'["open"] = "hello" => pc["open"] = "hello"
        /\ Opened' => Opened
    BY <2>1, <2>2, Constants0 DEF Opened
  <2>6. \A c \in Callers : pc'[c] \in Calling => pc'[c] = pc[c]
    BY <2>1, <2>2, CallerIsThread
  <2> QED
    BY <2>3, <2>4, <2>5, <2>6, FlightKept DEF Calling
<1>7. CASE ReaderStep
  <2>1. Flows /\ HeldInv'
    BY <1>1, <1>7, FlowsRead, FlowsPut DEF ReaderStep
  <2> QED
    BY <1>7, <2>1, FlightData DEF ReaderStep, ReaderReads, ReaderPuts
<1>8. CASE Drain \/ ExitCode \/ UNCHANGED vars
  BY <1>2, <1>8, FlightData DEF Drain, ExitCode
<1>9. CASE ChildStep
  <2>1. ChildTypeOK
    BY Types
  <2>2. CASE ChildDies \/ HolderReleases
    BY <1>2, <1>9, <2>2, FlightData DEF ChildStep, ChildDies, HolderReleases
  <2> QED
    BY <1>9, <2>1, <2>2, ChildSteps, FlightSaid DEF ChildStep
<1> QED
  BY <1>3, <1>4, <1>5, <1>6, <1>7, <1>8, <1>9 DEF Next

-----------------------------------------------------------------------------
(* The invariant.                                                          *)

LEMMA InvInit == Init => IInv
<1> SUFFICES ASSUME Init PROVE IInv
  OBVIOUS
<1>1. ChildTypeOK
  BY RoomAssumption, HolderAssumption DEF Init, ChildInit, ChildTypeOK
<1>2. CallTypeOK
  <2>1. [re |-> 0, kind |-> "none"] \in [re : 0..MaxRequests, kind : Outcomes]
    BY MaxRequestsAssumption DEF Outcomes
  <2>2. outcome \in [Ids -> [re : 0..MaxRequests, kind : Outcomes]]
    BY <2>1 DEF Init
  <2>3. pc \in [Threads -> Labels]
    BY DEF Init, Labels
  <2>4. op \in [Callers -> {"call", "overwrite"}] /\ timed \in [Callers -> BOOLEAN]
    BY DEF Init
  <2>5. id \in [Callers -> 0..MaxRequests] /\ issued \in 0..MaxRequests
    BY MaxRequestsAssumption DEF Init
  <2>6. lock \in Callers \cup {"free"} /\ closed \in BOOLEAN
    BY DEF Init
  <2> QED
    BY <2>2, <2>3, <2>4, <2>5, <2>6 DEF CallTypeOK
<1>3. ReaderTypeOK /\ ProcTypeOK
  BY StderrAssumption DEF Init, ReaderTypeOK, ProcTypeOK
<1>4. /\ pc["open"] = "hello" /\ pc["async"] = "over"
      /\ \A c \in Callers : pc[c] = "idle" /\ lock # c
  BY CallerIsThread, Constants0 DEF Init
<1>5. LockInv
  BY <1>4 DEF Init, LockInv, Locked, Calling, Opened
<1>6. FlightInv
  <2>1. InFlight = 0
    BY DEF Init, ChildInit, InFlight, Count, Carries, NoItem
  <2> QED
    BY <1>4, <2>1 DEF Init, ChildInit, FlightInv, Opened
<1>7. ReleaseInv
  <2>1. \A t \in Threads : pc[t] \in {"hello", "over", "idle"}
    BY DEF Init
  <2> QED
    BY <1>4, <2>1 DEF Init, ReleaseInv, Closers, Waiting
<1>8. OrderInv
  BY <1>4 DEF Init, OrderInv, Calling, Ids
<1> QED
  BY <1>1, <1>2, <1>3, <1>5, <1>6, <1>7, <1>8, Types DEF IInv

LEMMA InvStep == IInv /\ [Next]_vars => IInv'
  BY TypeStep, LockStep, FlightStep, ReleaseStep, OrderStep DEF IInv

(* Every behaviour of the session over its transport keeps the invariant.  *)
THEOREM InductiveInvariant == Spec => []IInv
  BY InvInit, InvStep, PTL DEF Spec

(* Every variable keeps its type.                                          *)
THEOREM TypeCorrect == Spec => []TypeOK
<1>1. IInv => TypeOK
  BY DEF IInv
<1> QED
  BY <1>1, InductiveInvariant, PTL

(* Once the session is closed, by close(), by a time-out or by overwrite,  *)
(* and no thread is closing it any more, DirectTransport.close has reaped  *)
(* the child and closed both streams, and nobody holds _lock.              *)
THEOREM ReleasedHolds == Spec => []ReleasedAtRest
<1>1. ASSUME IInv, AtRest PROVE Released /\ lock = "free"
  <2>1. \A t \in Threads : pc[t] \notin Path
    BY <1>1 DEF AtRest, Path, Closers, Waiting
  <2>2. Released
    BY <1>1, <2>1 DEF AtRest, IInv, ReleaseInv
  <2>3. \A c \in Callers : lock # c
    BY <1>1, CallerIsThread DEF AtRest, IInv, LockInv, Locked, Calling
  <2> QED
    BY <1>1, <2>2, <2>3 DEF IInv, TypeOK
<1>2. IInv => ReleasedAtRest
  BY <1>1 DEF ReleasedAtRest, Released
<1> QED
  BY <1>2, InductiveInvariant, PTL

-----------------------------------------------------------------------------
(* Refinement: every step of the session maps to a step of the serial      *)
(* connection or leaves its state alone.                                   *)

AbstractStatuses == [i \in Ids |-> AbstractStatus(outcome[i], i)]

(* Its requests are the ids of the session.                                *)
LEMMA AbstractState == Connection!Requests = Ids
  BY DEF Connection!Requests, Ids

(* The next request is new, and all before it are done with.               *)
LEMMA PhaseOrder ==
  ASSUME TypeOK, LockInv, OrderInv, issued < MaxRequests, lock = "free"
  PROVE  /\ issued + 1 \in Ids
         /\ AbstractStatuses[issued + 1] = "new"
         /\ \A j \in Ids : j < issued + 1 => AbstractStatuses[j] \notin {"new", "pending"}
<1>1. issued + 1 \in Ids /\ issued \in Nat
  BY MaxRequestsAssumption DEF TypeOK, Ids
<1>2. outcome[issued + 1].kind = "none"
  BY <1>1 DEF OrderInv
<1>3. ASSUME NEW j \in Ids, j < issued + 1
      PROVE  outcome[j].kind \in Outcomes \ {"none", "pending"}
  BY <1>1, <1>3, OneCalls DEF OrderInv, TypeOK, Ids
<1> QED
  BY <1>1, <1>2, <1>3
     DEF AbstractStatuses, AbstractStatus, Meaning, Answered, Outcomes

(* One outcome changes, and with it one abstract status.                   *)
LEMMA OneStatus ==
  ASSUME NEW i \in Ids, NEW o, outcome \in [Ids -> [re : 0..MaxRequests, kind : Outcomes]],
         outcome' = [outcome EXCEPT ![i] = o]
  PROVE  AbstractStatuses' = [AbstractStatuses EXCEPT ![i] = AbstractStatus(o, i)]
<1>1. outcome'[i] = o /\ \A j \in Ids \ {i} : outcome'[j] = outcome[j]
  OBVIOUS
<1>2. \A j \in Ids : AbstractStatus(outcome'[j], j) =
                      IF j = i THEN AbstractStatus(o, i) ELSE AbstractStatus(outcome[j], j)
  BY <1>1, Zenon
<1>3. AbstractStatuses' = [j \in Ids |-> AbstractStatus(outcome'[j], j)]
  BY DEF AbstractStatuses
<1>4. [AbstractStatuses EXCEPT ![i] = AbstractStatus(o, i)]
        = [j \in Ids |-> IF j = i THEN AbstractStatus(o, i) ELSE AbstractStatus(outcome[j], j)]
  BY DEF AbstractStatuses
<1> QED
  BY <1>2, <1>3, <1>4

(* A request is admitted, or refused.                                      *)
LEMMA NewStatus ==
  ASSUME TypeOK, issued + 1 \in Ids, NEW k \in {"pending", "closed"},
         outcome' = [outcome EXCEPT ![issued + 1] = [re |-> 0, kind |-> k]]
  PROVE  AbstractStatuses' = [AbstractStatuses EXCEPT ![issued + 1] =
               IF k = "pending" THEN "pending" ELSE "refused"]
<1>1. AbstractStatus([re |-> 0, kind |-> k], issued + 1)
         = IF k = "pending" THEN "pending" ELSE "refused"
  BY DEF AbstractStatus, Answered, Meaning
<1>2. outcome \in [Ids -> [re : 0..MaxRequests, kind : Outcomes]]
  BY DEF TypeOK
<1>3. AbstractStatuses' = [AbstractStatuses EXCEPT ![issued + 1] =
               AbstractStatus([re |-> 0, kind |-> k], issued + 1)]
  BY <1>2, OneStatus, Zenon
<1> QED
  BY <1>1, <1>3, Zenon

(* A call returns, with its own response if with one.                      *)
LEMMA FinalStatus ==
  ASSUME TypeOK, OrderInv, NEW c \in Callers, pc[c] \in Calling,
         NEW k \in {"ok", "err", "bad", "io", "timeout"}, NEW r,
         k \in Answered => r = id[c], Return(c, k, r)
  PROVE  /\ issued \in Ids
         /\ AbstractStatuses[issued] = "pending"
         /\ AbstractStatuses' = [AbstractStatuses EXCEPT ![issued] =
               IF k \in Answered THEN "answered" ELSE "failed"]
<1>1. issued \in Ids /\ id[c] = issued /\ outcome[issued].kind = "pending"
  BY DEF OrderInv
<1>2. AbstractStatuses[issued] = "pending"
  BY <1>1 DEF AbstractStatuses, AbstractStatus, Meaning, Answered
<1>3. AbstractStatus([re |-> r, kind |-> k], issued)
         = IF k \in Answered THEN "answered" ELSE "failed"
  BY <1>1 DEF AbstractStatus, Answered, Meaning
<1>4. AbstractStatuses' = [AbstractStatuses EXCEPT ![issued] =
               IF k \in Answered THEN "answered" ELSE "failed"]
  <2>1. outcome' = [outcome EXCEPT ![issued] = [re |-> r, kind |-> k]]
    BY <1>1 DEF Return
  <2>2. outcome \in [Ids -> [re : 0..MaxRequests, kind : Outcomes]]
    BY DEF TypeOK
  <2>3. AbstractStatuses' = [AbstractStatuses EXCEPT ![issued] =
                 AbstractStatus([re |-> r, kind |-> k], issued)]
    BY <1>1, <2>1, <2>2, OneStatus, Zenon
  <2> QED
    BY <1>3, <2>3, Zenon
<1> QED
  BY <1>1, <1>2, <1>4

(* The initial state maps to the initial state.                            *)
LEMMA RefinementInit == Init => Connection!Init
<1> SUFFICES ASSUME Init PROVE Connection!Init
  OBVIOUS
<1>1. AbstractPhase = "opening"
  BY Constants0 DEF Init, AbstractPhase
<1>2. \A i \in Ids : AbstractStatus(outcome[i], i) = "new"
  BY DEF Init, AbstractStatus, Meaning, Answered
<1> QED
  BY <1>1, <1>2, AbstractState DEF Connection!Init

LEMMA RefinementStep ==
  ASSUME IInv, [Next]_vars
  PROVE  [Connection!Next]_(Connection!vars)
<1> USE DEF IInv
<1>1. ASSUME UNCHANGED <<AbstractPhase, outcome>>
      PROVE  [Connection!Next]_(Connection!vars)
  BY <1>1 DEF Connection!vars, AbstractStatuses
<1>2. CallTypeOK
  BY Types
<1>3. ASSUME AbstractPhase # "closed", AbstractPhase' = "closed", UNCHANGED outcome
      PROVE  Connection!Next
  BY <1>3 DEF AbstractStatuses, Connection!Close, Connection!Next
<1>4. ASSUME NEW l, pc' = [pc EXCEPT !["open"] = l]
      PROVE  pc'["open"] = l
  BY <1>2, <1>4, Constants0 DEF CallTypeOK
<1>5. CASE HelloAccepted
  <2>1. /\ pc["open"] = "hello" /\ pc'["open"] = "over" /\ ~closed /\ ~closed'
        /\ UNCHANGED outcome
    BY <1>4, <1>5 DEF HelloAccepted, LockInv, Opened
  <2> QED
    BY <2>1 DEF AbstractPhase, Opened, AbstractStatuses, Connection!Open, Connection!Next
<1>6. CASE HelloFailed \/ HelloRaises
  <2>1. pc["open"] = "hello" /\ pc'["open"] \in {"closeStdin", "raised"} /\ UNCHANGED outcome
    BY <1>4, <1>6 DEF HelloFailed, HelloRaises
  <2> QED
    BY <1>3, <2>1 DEF AbstractPhase, Opened
<1>7. ASSUME NEW c \in Callers, User(c) \/ CallerStep(c)
      PROVE  [Connection!Next]_(Connection!vars)
  <2>1. pc'["open"] = pc["open"]
    BY <1>2, <1>7, CallerIsThread, Constants0
       DEF User, CallerStep, CallRefused, CallStart, Admit, Close, CallWrite, CallFlush, CallAnswered,
           CallFailed, CallTimedOut, OverwriteCloses, CloseWrite, CloseFlush, Leave, CallTypeOK
  <2>2. UNCHANGED closed => UNCHANGED AbstractPhase
    BY <2>1 DEF AbstractPhase, Opened
  <2>3. ASSUME UNCHANGED <<closed, outcome>>
        PROVE  [Connection!Next]_(Connection!vars)
    BY <1>1, <2>2, <2>3
  <2>4. ASSUME NEW k \in {"ok", "err", "bad", "io"}, NEW r, pc[c] \in Calling,
               k \in Answered => r = id[c], Return(c, k, r), UNCHANGED closed
        PROVE  Connection!Next
    <3>1. /\ issued \in Ids /\ AbstractStatuses[issued] = "pending"
          /\ AbstractStatuses' = [AbstractStatuses EXCEPT ![issued] =
                 IF k \in Answered THEN "answered" ELSE "failed"]
      BY <2>4, FinalStatus
    <3>2. Connection!Answer(issued) \/ Connection!Fail(issued)
      BY <2>2, <2>4, <3>1 DEF Connection!Answer, Connection!Fail, AbstractStatuses
    <3> QED
      BY <3>1, <3>2, AbstractState DEF Connection!Next
  <2>5. CASE CallRefused(c)
    <3>1. /\ lock = "free" /\ issued < MaxRequests /\ AbstractPhase = "closed" /\ UNCHANGED AbstractPhase
          /\ outcome' = [outcome EXCEPT ![issued + 1] = [re |-> 0, kind |-> "closed"]]
      BY <2>2, <2>5 DEF CallRefused, CanLock, AbstractPhase, Opened
    <3>2. AbstractStatuses' = [AbstractStatuses EXCEPT ![issued + 1] = "refused"]
      BY <3>1, PhaseOrder, NewStatus
    <3>3. Connection!Refuse(issued + 1)
      BY <3>1, <3>2, PhaseOrder, AbstractState
         DEF Connection!Refuse, Connection!Next1, AbstractStatuses
    <3> QED
      BY <3>1, <3>3, PhaseOrder, AbstractState DEF Connection!Next
  <2>6. CASE CallStart(c)
    <3>1. /\ lock = "free" /\ issued < MaxRequests /\ AbstractPhase = "open" /\ UNCHANGED AbstractPhase
          /\ outcome' = [outcome EXCEPT ![issued + 1] = [re |-> 0, kind |-> "pending"]]
      BY <2>2, <2>6 DEF CallStart, Admit, CanLock, AbstractPhase, Opened
    <3>2. AbstractStatuses' = [AbstractStatuses EXCEPT ![issued + 1] = "pending"]
      BY <3>1, PhaseOrder, NewStatus
    <3>3. Connection!Submit(issued + 1)
      BY <3>1, <3>2, PhaseOrder, AbstractState
         DEF Connection!Submit, Connection!Next1, AbstractStatuses
    <3> QED
      BY <3>1, <3>3, PhaseOrder, AbstractState DEF Connection!Next
  <2>7. CASE CallWrite(c)
    <3>1. pc[c] \in Calling /\ UNCHANGED closed /\ (Return(c, "io", 0) \/ UNCHANGED outcome)
      BY <2>7 DEF CallWrite, Calling
    <3> QED
      BY <2>3, <2>4, <3>1 DEF Answered
  <2>8. CASE CallFlush(c)
    <3>1. pc[c] \in Calling /\ UNCHANGED closed /\ (Return(c, "io", 0) \/ UNCHANGED outcome)
      BY <2>8 DEF CallFlush, Calling
    <3> QED
      BY <2>3, <2>4, <3>1 DEF Answered
  <2>9. CASE CallAnswered(c)
    <3>1. /\ pc[c] = "read" /\ pc[c] \in Calling /\ terminal = "none" /\ slot # NoItem
          /\ slot.kind \notin Terminals
          /\ Return(c, Decoded(slot), slot.id) /\ UNCHANGED closed
      BY <2>9 DEF CallAnswered, GotLine, Calling
    <3>2. Live /\ Carries(slot)
      BY <3>1 DEF Live, TypeOK, Items, LineKinds, Carries, Terminals
    <3>3. slot.id = id[c]
      BY <3>1, <3>2 DEF FlightInv, AllOf
    <3>4. Decoded(slot) \in {"ok", "err", "bad"}
      BY DEF Decoded
    <3> HIDE DEF Decoded, Return
    <3> QED
      BY <2>4, <3>1, <3>3, <3>4
  <2>10. CASE CallFailed(c)
    <3>1. pc[c] \in Calling /\ UNCHANGED closed /\ Return(c, "io", 0)
      BY <2>10 DEF CallFailed, Calling
    <3> QED
      BY <2>4, <3>1 DEF Answered
  <2>11. CASE CallTimedOut(c)
    <3>1. pc[c] \in Calling /\ Return(c, "timeout", 0) /\ closed'
      BY <2>11 DEF CallTimedOut, Calling
    <3>2. /\ issued \in Ids /\ AbstractStatuses[issued] = "pending"
          /\ AbstractStatuses' = [AbstractStatuses EXCEPT ![issued] = "failed"]
      BY <3>1, FinalStatus DEF Answered
    <3>3. AbstractPhase = "open" /\ AbstractPhase' = "closed"
      BY <2>1, <3>1 DEF AbstractPhase, Opened, LockInv, Calling
    <3> QED
      BY <3>2, <3>3, AbstractState DEF Connection!Close, Connection!Next, AbstractStatuses
  <2>12. CASE Close(c) \/ OverwriteCloses(c)
    <3>1. Opened /\ closed' /\ UNCHANGED outcome
      BY <2>12 DEF Close, OverwriteCloses, CanLock
    <3>2. AbstractPhase' = "closed" /\ AbstractPhase \in {"open", "closed"}
      BY <2>1, <3>1 DEF AbstractPhase, Opened
    <3> QED
      BY <1>1, <1>3, <3>1, <3>2
  <2>13. CASE CloseWrite(c) \/ CloseFlush(c)
    BY <2>3, <2>13 DEF CloseWrite, CloseFlush
  <2> QED
    BY <1>7, <2>5, <2>6, <2>7, <2>8, <2>9, <2>10, <2>11, <2>12, <2>13 DEF User, CallerStep
<1>8. ASSUME NEW t \in Threads, CloseStep(t)
      PROVE  [Connection!Next]_(Connection!vars)
  <2>1. PICK from \in Closers, l \in Closers \cup {"idle", "failed", "over"} :
          At(t, from, l) /\ (t = "open" => l # "over")
    BY <1>8, CallersAssumption
       DEF CloseStep, CloseStdin, Terminate, Kill, Escalate, Reaped, CloseStderr, CloseStdout,
           Closers, Waiting
  <2>2. pc[t] = from /\ pc'[t] = l /\ \A u \in Threads \ {t} : pc'[u] = pc[u]
    BY <1>2, <2>1 DEF At, CallTypeOK
  <2>3. pc["open"] = "hello" <=> pc'["open"] = "hello"
    BY <2>1, <2>2, Constants0 DEF Closers, Waiting
  <2>4. pc["open"] = "over" <=> pc'["open"] = "over"
    BY <2>1, <2>2, Constants0 DEF Closers, Waiting
  <2>5. UNCHANGED <<closed, outcome>>
    BY <2>1 DEF At
  <2> QED
    BY <1>1, <2>3, <2>4, <2>5 DEF AbstractPhase, Opened
<1>9. CASE ReaderStep \/ Drain \/ ExitCode \/ ChildStep \/ UNCHANGED vars
  <2>1. UNCHANGED <<pc, closed, outcome>>
    BY <1>9 DEF ReaderStep, ReaderReads, ReaderPuts, Drain, ExitCode, ChildStep
  <2> QED
    BY <1>1, <2>1 DEF AbstractPhase, Opened
<1> QED
  BY <1>5, <1>6, <1>7, <1>8, <1>9 DEF Next

(* _lock over DirectTransport implements the serial connection: with any   *)
(* number of threads, whatever times out, fails or closes, a call returns  *)
(* its own response or fails, and a closed session refuses for good.       *)
THEOREM Refinement == Spec => ImplementsConnection
<1>1. IInv /\ [Next]_vars => [Connection!Next]_(Connection!vars)
  BY RefinementStep
<1> QED
  BY <1>1, RefinementInit, InductiveInvariant, PTL
     DEF Spec, ImplementsConnection, Connection!Spec

=============================================================================
