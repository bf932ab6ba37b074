-------------------------- MODULE RustDirectProofs --------------------------
(***************************************************************************)
(* What holds of RustDirect for every number of requests, every stdin pipe *)
(* and every behaviour of the server, with proofs.                         *)
(*                                                                         *)
(* The line a caller is handed is its own because at most one request is   *)
(* ever on its way: counted over the two pipes, the reader thread and the  *)
(* channel (InFlight), nothing is on its way while no call is in progress, *)
(* and at most the call's own request or its response during one.  That    *)
(* needs a reader that can still deliver (Live), for after a terminal item *)
(* lines may pile up but no read returns one, and no time-out yet, for     *)
(* after one the late answer is on its way to nobody.                      *)
(***************************************************************************)
EXTENDS RustDirect, TLAPS

(* The reader may still hand out a line.                                   *)
Live == terminal = "none" /\ slot.kind \notin Terminals

Carries(item) == item.kind \notin {"none", "eof"}
Count(item)   == IF Carries(item) THEN 1 ELSE 0
InFlight == Len(toChild) + Len(fromChild) + Count(held) + Count(slot)

(* Everything on its way is of the request in progress.                    *)
AllOwn ==
    /\ \A k \in 1..Len(toChild) : toChild[k].id = issued
    /\ \A k \in 1..Len(fromChild) : fromChild[k].id = issued
    /\ Carries(held) => held.id = issued
    /\ Carries(slot) => slot.id = issued

Calling  == {"write", "flush", "read"}
Stages   == {"stdinClosed", "terminated", "killed", "joinStderr", "joinReader"}
Closing  == {"closeWrite", "closeFlush", "closeRead"}
(* No request is out: before a call's or a close's is written, and after.  *)
Quiet    == {"write", "overwritten", "closeWrite"} \cup Stages

(* A request that never left because the server died may stay in the pipe. *)
NothingInFlight ==
    /\ child # "booting"
    /\ child # "dead" => toChild = <<>>
    /\ fromChild = <<>> /\ ~Carries(held) /\ ~Carries(slot)

FlightInv ==
    Live /\ ~timedOut =>
        /\ pc = "hello" => /\ InFlight <= 1 /\ toChild = <<>>
                           /\ child = "booting" => InFlight = 0
        /\ pc \in Quiet \/ (pc = "idle" /\ ~closed) => NothingInFlight
        /\ pc \in {"flush", "read", "closeFlush", "closeRead"} =>
              child # "booting" /\ InFlight <= 1
        /\ pc \in {"flush", "read"} => AllOwn

(* A reader that can deliver no more lines has no thread.                  *)
EndInv == ~Live => thread = "ended"

(* Where the owner is, against what is closed and released.                *)
StageInv ==
    /\ pc \in Closing => closed
    /\ pc \in Stages => closed \/ back = "gone"
    /\ pc \in Calling \cup {"hello", "overwritten"} => ~closed /\ back = "idle"
    /\ pc = "idle" => back = "idle"
    /\ pc = "gone" => closed \/ back = "gone"
    /\ timedOut => (closed \/ back = "gone") /\ pc \notin Closing
    /\ pc \in Stages => ~stdin
    /\ pc \in {"joinStderr", "joinReader"} => exitCode = "known"
    /\ pc = "joinReader" => stderrThread = "none"

(* Signals are only sent before the child is reaped, in order.             *)
SignalInv ==
    /\ pc \in {"stdinClosed"} => signal = "none"
    /\ pc = "terminated" => signal = "term"
    /\ pc \in {"hello", "overwritten"} \cup Calling \cup Closing => signal = "none"
    /\ pc = "idle" /\ ~closed => signal = "none"
    /\ pc \in {"hello", "overwritten", "stdinClosed", "terminated"} \cup Calling \cup Closing
          => exitCode = "none"
    /\ pc = "idle" /\ ~closed => exitCode = "none"

(* Requests are taken in order, one at a time.                             *)
OrderInv ==
    /\ pc \in Calling => issued \in Ids
    /\ \A i \in Ids :
        /\ i > issued => outcome[i].kind = "none"
        /\ i < issued => outcome[i].kind \notin {"none", "pending"}
        /\ i = issued => /\ outcome[i].kind # "none"
                         /\ outcome[i].kind = "pending" <=> pc \in Calling

IInv == TypeOK /\ FlightInv /\ EndInv /\ StageInv /\ SignalInv /\ OrderInv /\ OwnAnswer
             /\ ReleasedAtRest

-----------------------------------------------------------------------------
(* Type correctness, part by part.                                         *)

USE DEF vars, childVars, sessionVars, transportVars, readerVars

(* A line read from the pipe is an item for the channel.                   *)
LEMMA LineIsItem == Line \subseteq Items
  BY DEF Line, Items

(* The two halves of a nonempty sequence.                                  *)
LEMMA HeadTail == ASSUME NEW S, NEW s \in Seq(S), s # <<>>
                  PROVE  Head(s) \in S /\ Tail(s) \in Seq(S)
  OBVIOUS

(* What the reader thread takes out of the pipe can be sent.               *)
LEMMA ThreadReadType == ASSUME TypeOK, ThreadRead PROVE ReaderTypeOK'
<1> USE DEF TypeOK, ReaderTypeOK, ThreadRead
<1>1. held' \in Items \cup {NoItem}
  <2>1. CASE fromChild # <<>>
    BY <2>1, HeadTail, LineIsItem DEF ChildTypeOK
  <2>2. CASE fromChild = <<>>
    BY <2>2, MaxRequestsAssumption DEF EofItem, Items
  <2> QED BY <2>1, <2>2
<1> QED BY <1>1

(* Every step keeps the reader well typed.                                 *)
LEMMA ReaderType == ASSUME TypeOK, [Next]_vars PROVE ReaderTypeOK'
<1> USE DEF TypeOK, ReaderTypeOK
<1>1. CASE UNCHANGED readerVars
  BY <1>1
<1>2. CASE GotLine
  BY <1>2 DEF GotLine
<1>3. CASE GotTerminal
  BY <1>3 DEF GotTerminal, Terminals
<1>4. CASE JoinReader
  BY <1>4 DEF JoinReader
<1>5. CASE ThreadRead
  BY <1>5, ThreadReadType
<1>6. CASE ThreadSend
  BY <1>6 DEF ThreadSend
<1> QED
  BY <1>1, <1>2, <1>3, <1>4, <1>5, <1>6
     DEF Next, User, OwnerStep, ThreadStep, ChildStep, SetTimeout, CallRefused,
         CallStart, Close, Drop, CloseFrom, HelloAccepted, HelloFailed,
         CallWrite, CallFlush, CallAnswered, CallFailed, CallTimedOut,
         OverwriteClose, CloseWrite, CloseFlush, CloseRead, Terminate, Kill,
         Signal, Reaped, JoinStderr, Expired, StderrThread

(* Every step keeps the transport well typed.                              *)
LEMMA TransportType == ASSUME TypeOK, [Next]_vars PROVE TransportTypeOK'
<1> USE DEF TypeOK, TransportTypeOK
<1>1. CASE UNCHANGED transportVars
  BY <1>1
<1>2. ASSUME NEW b, BeginTeardown(b)
      PROVE  TransportTypeOK'
  BY <1>2 DEF BeginTeardown
<1>3. CASE Reaped
  BY <1>3 DEF Reaped
<1>4. CASE JoinStderr
  BY <1>4 DEF JoinStderr
<1>5. CASE StderrThread
  BY <1>5 DEF StderrThread
<1> QED
  BY <1>1, <1>2, <1>3, <1>4, <1>5
     DEF Next, User, OwnerStep, ThreadStep, ChildStep, SetTimeout, CallRefused,
         CallStart, Close, Drop, CloseFrom, HelloAccepted, HelloFailed,
         CallWrite, CallFlush, CallAnswered, CallFailed, CallTimedOut,
         OverwriteClose, CloseWrite, CloseFlush, CloseRead, Terminate, Kill,
         Signal, ThreadRead, ThreadSend, JoinReader

(* Every step keeps the pipes and the server well typed.                   *)
LEMMA ChildType == ASSUME TypeOK, [Next]_vars PROVE ChildTypeOK'
<1> USE MaxRequestsAssumption DEF TypeOK, ChildTypeOK
<1>1. CASE UNCHANGED childVars
  BY <1>1
<1>2. CASE CallWrite
  <2>1. [op |-> op, id |-> issued] \in Request
    BY DEF SessionTypeOK, Request
  <2> QED BY <1>2, <2>1 DEF CallWrite
<1>3. CASE CloseWrite
  <2>1. CloseRequest \in Request
    BY DEF CloseRequest, Request
  <2> QED BY <1>3, <2>1 DEF CloseWrite
<1>4. ASSUME NEW a, NEW b, NEW sig \in {"term", "kill"}, Signal(a, sig, b)
      PROVE  ChildTypeOK'
  BY <1>4 DEF Signal
<1>5. CASE ThreadRead
  BY <1>5, HeadTail DEF ThreadRead
<1>6. CASE ChildHello
  BY <1>6 DEF ChildHello, Line, LineKinds, HelloKinds
<1>7. CASE ChildAnswer
  <2>1. /\ toChild' \in Seq(Request)
        /\ Head(toChild) \in Request
    BY <1>7, HeadTail DEF ChildAnswer
  <2>2. PICK k \in AnswerKinds : fromChild' = Append(fromChild, [id |-> Head(toChild).id, kind |-> k])
                                 /\ child' \in {"leaving", child}
    BY <1>7 DEF ChildAnswer
  <2>3. [id |-> Head(toChild).id, kind |-> k] \in Line
    BY <2>1 DEF Request, Line, LineKinds, AnswerKinds
  <2>. QED BY <1>7, <2>1, <2>2, <2>3 DEF ChildAnswer
<1>8. CASE ChildDies
  BY <1>8 DEF ChildDies
<1>9. CASE HolderReleases
  BY <1>9 DEF HolderReleases
<1> QED
  BY <1>1, <1>2, <1>3, <1>4, <1>5, <1>6, <1>7, <1>8, <1>9
     DEF Next, User, OwnerStep, ThreadStep, ChildStep, ChildNext, SetTimeout,
         CallRefused, CallStart, Close, Drop, CloseFrom, HelloAccepted,
         HelloFailed, CallFlush, CallAnswered, CallFailed, CallTimedOut,
         OverwriteClose, CloseFlush, CloseRead, Terminate, Kill, ThreadSend,
         JoinReader, Reaped, JoinStderr, StderrThread

(* Every step keeps the session and its outcomes well typed.               *)
LEMMA SessionType == ASSUME TypeOK, [Next]_vars PROVE SessionTypeOK'
<1> USE MaxRequestsAssumption DEF TypeOK, SessionTypeOK
<1>1. CASE UNCHANGED sessionVars
  BY <1>1
<1>2. ASSUME NEW k \in Outcomes, NEW r \in 0..MaxRequests, NEW i \in 0..MaxRequests,
             outcome' = [outcome EXCEPT ![i] = [re |-> r, kind |-> k]]
      PROVE  outcome' \in [Ids -> [re : 0..MaxRequests, kind : Outcomes]]
  BY <1>2 DEF Ids
<1>3. CASE User
  <2>1. CASE CallRefused
    <3>1. issued + 1 \in 0..MaxRequests /\ issued' = issued + 1
      BY <2>1 DEF CallRefused
    <3>2. outcome' \in [Ids -> [re : 0..MaxRequests, kind : Outcomes]]
      BY <2>1, <3>1 DEF CallRefused, Outcomes, Ids
    <3>3. UNCHANGED <<pc, back, op, closed, bounded, timedOut>>
      BY <2>1 DEF CallRefused
    <3> QED BY <3>1, <3>2, <3>3
  <2>2. CASE CallStart
    <3>1. issued + 1 \in 0..MaxRequests /\ issued' = issued + 1
      BY <2>2 DEF CallStart
    <3>2. outcome' \in [Ids -> [re : 0..MaxRequests, kind : Outcomes]]
      BY <2>2, <3>1 DEF CallStart, Outcomes, Ids
    <3>3. pc' = "write" /\ op' \in {"call", "overwrite"} /\ UNCHANGED <<back, closed, bounded, timedOut>>
      BY <2>2 DEF CallStart
    <3> QED BY <3>1, <3>2, <3>3 DEF Owner
  <2>3. CASE SetTimeout
    BY <2>3 DEF SetTimeout
  <2>4. ASSUME NEW p, NEW b \in {"idle", "gone"}, CloseFrom(p, b)
        PROVE SessionTypeOK'
    BY <2>4 DEF CloseFrom, Owner
  <2>5. CASE pc' = "gone" /\ UNCHANGED <<back, op, issued, outcome, closed, bounded, timedOut>>
    BY <2>5 DEF Owner
  <2> QED BY <1>3, <2>1, <2>2, <2>3, <2>4, <2>5 DEF User, Close, Drop
<1>4. ASSUME NEW k \in Outcomes, NEW r \in 0..MaxRequests, Return(k, r)
      PROVE  outcome' \in [Ids -> [re : 0..MaxRequests, kind : Outcomes]]
  BY <1>2, <1>4 DEF Return
<1>5. ASSUME NEW b \in {"idle", "gone"}, BeginTeardown(b)
      PROVE  pc' \in Owner /\ back' \in {"idle", "gone"}
  BY <1>5 DEF BeginTeardown, Owner
<1>6. CASE HelloAccepted
  BY <1>6 DEF HelloAccepted, Owner
<1>7. CASE HelloFailed
  <2>1. BeginTeardown("gone") /\ timedOut' \in BOOLEAN
        /\ UNCHANGED <<op, issued, outcome, closed, bounded>>
    BY <1>7 DEF HelloFailed, Expired
  <2> QED BY <2>1, <1>5
<1>8. CASE CallWrite \/ CallFlush \/ CallFailed
  <2>1. /\ outcome' = outcome \/ Return("io", 0)
        /\ pc' \in {"idle", "flush", "read"}
        /\ UNCHANGED <<back, op, issued, closed, bounded, timedOut>>
    BY <1>8 DEF CallWrite, CallFlush, CallFailed
  <2>2. outcome' \in [Ids -> [re : 0..MaxRequests, kind : Outcomes]]
    BY <1>4, <2>1 DEF Outcomes
  <2> QED BY <2>1, <2>2 DEF Owner
<1>9. CASE CallAnswered
  <2>1. /\ Return(Decoded(slot), slot.id)
        /\ pc' \in {"idle", "overwritten"}
        /\ UNCHANGED <<back, op, issued, closed, bounded, timedOut>>
    BY <1>9 DEF CallAnswered
  <2>2. Decoded(slot) \in Outcomes /\ slot.id \in 0..MaxRequests
    BY DEF Decoded, Outcomes, ReaderTypeOK, Items, NoItem
  <2>3. outcome' \in [Ids -> [re : 0..MaxRequests, kind : Outcomes]]
    BY <1>4, <2>1, <2>2
  <2> QED BY <2>1, <2>3 DEF Owner
<1>10. CASE CallTimedOut
  <2>1. Return("timeout", 0) /\ BeginTeardown("idle") /\ closed' = TRUE /\ timedOut' = TRUE
        /\ UNCHANGED <<op, issued, bounded>>
    BY <1>10 DEF CallTimedOut, Expired
  <2>2. outcome' \in [Ids -> [re : 0..MaxRequests, kind : Outcomes]]
    BY <1>4, <2>1 DEF Outcomes
  <2> QED BY <1>5, <2>1, <2>2
<1>11. CASE OverwriteClose
  BY <1>11 DEF OverwriteClose, CloseFrom, Owner
<1>12. CASE CloseWrite \/ CloseFlush \/ CloseRead
  <2>1. /\ BeginTeardown(back) \/ (pc' \in {"closeFlush", "closeRead"} /\ back' = back)
        /\ timedOut' \in BOOLEAN
        /\ UNCHANGED <<op, issued, outcome, closed, bounded>>
    BY <1>12 DEF CloseWrite, CloseFlush, CloseRead, Expired
  <2> QED BY <1>5, <2>1 DEF Owner
<1>13. CASE Terminate \/ Kill \/ Reaped \/ JoinStderr \/ JoinReader
  <2>1. /\ pc' \in {"terminated", "killed", "joinStderr", "joinReader", back}
        /\ UNCHANGED <<back, op, issued, outcome, closed, bounded, timedOut>>
    BY <1>13 DEF Terminate, Kill, Signal, Reaped, JoinStderr, JoinReader
  <2> QED BY <2>1 DEF Owner
<1> QED
  BY <1>1, <1>3, <1>6, <1>7, <1>8, <1>9, <1>10, <1>11, <1>12, <1>13
     DEF Next, OwnerStep, ThreadStep, ThreadRead, ThreadSend, StderrThread,
         ChildStep

-----------------------------------------------------------------------------

(* Every step keeps the owner in line with what is closed and released,    *)
(* and leaves nothing behind at rest.                                      *)
LEMMA StageStep ==
  ASSUME TypeOK, StageInv, ReleasedAtRest, [Next]_vars
  PROVE  StageInv' /\ ReleasedAtRest'
<1> USE DEF TypeOK, SessionTypeOK, StageInv, ReleasedAtRest, AtRest, Calling,
            Closing, Stages
<1>1. CASE UNCHANGED vars
  BY <1>1
<1>2. CASE User
  BY <1>2 DEF User, SetTimeout, CallRefused, CallStart, Close, Drop, CloseFrom
<1>3. CASE HelloAccepted \/ OverwriteClose
  BY <1>3 DEF HelloAccepted, GotLine, OverwriteClose, CloseFrom
<1>4. CASE CallWrite \/ CallFlush \/ CallAnswered \/ CallFailed
  BY <1>4 DEF CallWrite, CallFlush, CallAnswered, CallFailed
<1>5. CASE HelloFailed
  BY <1>5 DEF HelloFailed, BeginTeardown, GotLine, GotTerminal, Expired
<1>6. CASE CallTimedOut
  BY <1>6 DEF CallTimedOut, BeginTeardown, Expired
<1>7. CASE CloseWrite
  BY <1>7 DEF CloseWrite, BeginTeardown
<1>8. CASE CloseFlush
  BY <1>8 DEF CloseFlush, BeginTeardown
<1>9. CASE CloseRead
  BY <1>9 DEF CloseRead, BeginTeardown, GotLine, GotTerminal, Expired
<1>10. CASE Terminate \/ Kill \/ Reaped
  BY <1>10 DEF Terminate, Kill, Signal, Reaped
<1>11. CASE JoinStderr
  BY <1>11 DEF JoinStderr
<1>12. CASE JoinReader
  BY <1>12 DEF JoinReader
<1>13. CASE ThreadStep
  BY <1>13 DEF ThreadStep, ThreadRead, ThreadSend
<1>14. CASE StderrThread
  BY <1>14 DEF StderrThread
<1>15. CASE ChildStep
  BY <1>15 DEF ChildStep
<1> QED
  BY <1>1, <1>2, <1>3, <1>4, <1>5, <1>6, <1>7, <1>8, <1>9, <1>10, <1>11, <1>12,
     <1>13, <1>14, <1>15
     DEF Next, OwnerStep

(* Every step keeps the signals in order and before the reaping.           *)
LEMMA SignalStep ==
  ASSUME TypeOK, StageInv, SignalInv, [Next]_vars
  PROVE  SignalInv'
<1> USE DEF TypeOK, SessionTypeOK, StageInv, SignalInv, Calling, Closing, Stages
<1>1. CASE UNCHANGED vars
  BY <1>1
<1>2. CASE User
  BY <1>2 DEF User, SetTimeout, CallRefused, CallStart, Close, Drop, CloseFrom
<1>3. CASE HelloAccepted \/ OverwriteClose
  BY <1>3 DEF HelloAccepted, GotLine, OverwriteClose, CloseFrom
<1>4. CASE CallWrite \/ CallFlush \/ CallAnswered \/ CallFailed
  BY <1>4 DEF CallWrite, CallFlush, CallAnswered, CallFailed
<1>5. CASE HelloFailed
  BY <1>5 DEF HelloFailed, BeginTeardown, GotLine, GotTerminal, Expired
<1>6. CASE CallTimedOut
  BY <1>6 DEF CallTimedOut, BeginTeardown, Expired
<1>7. CASE CloseWrite
  BY <1>7 DEF CloseWrite, BeginTeardown
<1>8. CASE CloseFlush
  BY <1>8 DEF CloseFlush, BeginTeardown
<1>9. CASE CloseRead
  BY <1>9 DEF CloseRead, BeginTeardown, GotLine, GotTerminal, Expired
<1>10. CASE Terminate \/ Kill \/ Reaped
  BY <1>10 DEF Terminate, Kill, Signal, Reaped
<1>11. CASE JoinStderr
  BY <1>11 DEF JoinStderr
<1>12. CASE JoinReader
  BY <1>12 DEF JoinReader
<1>13. CASE ThreadStep
  BY <1>13 DEF ThreadStep, ThreadRead, ThreadSend
<1>14. CASE StderrThread
  BY <1>14 DEF StderrThread
<1>15. CASE ChildStep
  BY <1>15
     DEF ChildStep, ChildNext, ChildHello, ChildAnswer, ChildDies,
         HolderReleases
<1> QED
  BY <1>1, <1>2, <1>3, <1>4, <1>5, <1>6, <1>7, <1>8, <1>9, <1>10, <1>11, <1>12,
     <1>13, <1>14, <1>15
     DEF Next, OwnerStep

(* Every step keeps requests one at a time and in order.                   *)
LEMMA OrderStep ==
  ASSUME TypeOK, StageInv, OrderInv, [Next]_vars
  PROVE  OrderInv'
<1> USE MaxRequestsAssumption
    DEF TypeOK, SessionTypeOK, StageInv, OrderInv, Calling, Closing, Stages, Ids
<1>1. CASE UNCHANGED <<issued, outcome, pc>>
  BY <1>1
<1>2. CASE CallRefused
  BY <1>2 DEF CallRefused
<1>3. CASE CallStart
  BY <1>3 DEF CallStart
<1>4. ASSUME UNCHANGED <<issued, outcome>>, pc \in Calling <=> pc' \in Calling
      PROVE  OrderInv'
  BY <1>4
<1>5. ASSUME NEW k \in Outcomes \ {"none", "pending"}, NEW r,
             Return(k, r), UNCHANGED issued, pc' \notin Calling
      PROVE  OrderInv'
  BY <1>5 DEF Return
<1>6. CASE SetTimeout \/ Close \/ Drop \/ OverwriteClose
  BY <1>4, <1>6 DEF SetTimeout, Close, Drop, OverwriteClose, CloseFrom
<1>7. CASE HelloAccepted \/ HelloFailed
  BY <1>4, <1>7 DEF HelloAccepted, HelloFailed, BeginTeardown
<1>8. CASE CallWrite \/ CallFlush \/ CallFailed
  <2>1. CASE Return("io", 0)
    BY <1>5, <1>8, <2>1 DEF CallWrite, CallFlush, CallFailed, Outcomes
  <2>2. CASE ~Return("io", 0)
    BY <1>4, <1>8, <2>2 DEF CallWrite, CallFlush, CallFailed
  <2> QED BY <1>8, <2>1, <2>2 DEF CallWrite, CallFlush, CallFailed
<1>9. CASE CallAnswered
  BY <1>5, <1>9 DEF CallAnswered, Decoded, Outcomes
<1>10. CASE CallTimedOut
  BY <1>5, <1>10 DEF CallTimedOut, BeginTeardown, Outcomes
<1>11. CASE CloseWrite \/ CloseFlush \/ CloseRead
  BY <1>4, <1>11 DEF CloseWrite, CloseFlush, CloseRead, BeginTeardown
<1>12. CASE Terminate \/ Kill \/ Reaped \/ JoinStderr \/ JoinReader
  BY <1>4, <1>12 DEF Terminate, Kill, Signal, Reaped, JoinStderr, JoinReader
<1>13. CASE ThreadStep \/ StderrThread \/ ChildStep
  BY <1>1, <1>13 DEF ThreadStep, ThreadRead, ThreadSend, StderrThread, ChildStep
<1> QED
  BY <1>1, <1>2, <1>3, <1>6, <1>7, <1>8, <1>9, <1>10, <1>11, <1>12, <1>13
     DEF Next, User, OwnerStep


(* The count of what is on its way is a number.                            *)
LEMMA CountType == ASSUME TypeOK
  PROVE /\ Len(toChild) \in Nat /\ Len(fromChild) \in Nat
        /\ Count(held) \in {0, 1} /\ Count(slot) \in {0, 1}
        /\ InFlight \in Nat
  BY DEF TypeOK, ChildTypeOK, Count, InFlight

(* A sequence is empty when its length is zero.                            *)
LEMMA EmptyLen == ASSUME NEW S, NEW s \in Seq(S) PROVE Len(s) = 0 <=> s = <<>>
  OBVIOUS

(* The server puts nothing new on its way except its hello: an answer      *)
(* takes its request away.                                                 *)
LEMMA FlightChild ==
  ASSUME TypeOK, StageInv, FlightInv, ChildStep
  PROVE  FlightInv'
<1> USE DEF TypeOK, FlightInv, Live, Quiet, Stages
<1>1. CASE ChildDies
  BY <1>1 DEF ChildStep, ChildDies, InFlight, AllOwn, NothingInFlight
<1>2. CASE HolderReleases
  BY <1>2 DEF ChildStep, HolderReleases, InFlight, AllOwn, NothingInFlight
<1>3. CASE ChildHello
  <2> SUFFICES ASSUME Live, ~timedOut, pc = "hello"
               PROVE  InFlight' <= 1 /\ toChild' = <<>> /\ child' # "booting"
    BY <1>3 DEF ChildStep, ChildHello, NothingInFlight
  <2>1. Len(fromChild') = Len(fromChild) + 1
    BY <1>3 DEF ChildHello, ChildTypeOK
  <2> QED
    BY <1>3, <2>1, CountType DEF ChildStep, ChildHello, InFlight, Count, Carries
<1>4. CASE ChildAnswer
  <2> SUFFICES ASSUME Live, ~timedOut,
                      pc \in {"flush", "read", "closeFlush", "closeRead"}
               PROVE  /\ child' # "booting" /\ InFlight' <= 1
                      /\ pc \in {"flush", "read"} => AllOwn'
    BY <1>4 DEF ChildStep, ChildAnswer, NothingInFlight
  <2>1. Len(fromChild') = Len(fromChild) + 1 /\ Len(toChild') = Len(toChild) - 1
    BY <1>4 DEF ChildAnswer, ChildTypeOK
  <2>2. InFlight' <= 1 /\ child' # "booting"
    BY <1>4, <2>1, CountType
       DEF ChildStep, ChildAnswer, InFlight, Count, Carries
  <2>3. AllOwn => Head(toChild).id = issued
    BY <1>4, EmptyLen DEF ChildAnswer, ChildTypeOK, AllOwn
  <2>4. AllOwn => AllOwn'
    BY <1>4, <2>3 DEF ChildStep, ChildAnswer, ChildTypeOK, AllOwn, Carries
  <2> QED BY <2>2, <2>4
<1> QED BY <1>1, <1>2, <1>3, <1>4 DEF ChildStep, ChildNext

(* The threads only move what is on its way.                               *)
LEMMA FlightThread ==
  ASSUME TypeOK, StageInv, FlightInv, ThreadStep \/ StderrThread
  PROVE  FlightInv'
<1> USE DEF TypeOK, ReaderTypeOK, FlightInv, Live
<1>1. CASE StderrThread
  BY <1>1 DEF StderrThread, InFlight, AllOwn, NothingInFlight
<1>2. CASE ThreadRead /\ fromChild = <<>>
  <2>1. ~Carries(held)' /\ Count(held)' = 0
    BY <1>2 DEF ThreadRead, EofItem, Carries, Count
  <2>2. InFlight' \in Nat /\ InFlight' <= InFlight
    BY <1>2, <2>1, CountType DEF ThreadRead, InFlight
  <2>3. (AllOwn => AllOwn') /\ (NothingInFlight => NothingInFlight')
    BY <1>2, <2>1 DEF ThreadRead, AllOwn, NothingInFlight
  <2>4. /\ Live' => Live
        /\ UNCHANGED <<closed, timedOut, pc, issued, child, toChild>>
    BY <1>2 DEF ThreadRead
  <2> HIDE DEF InFlight, AllOwn, NothingInFlight, Live
  <2> QED
    BY <2>2, <2>3, <2>4, CountType
<1>3. CASE ThreadRead /\ fromChild # <<>>
  <2>1. Len(fromChild') = Len(fromChild) - 1
    BY <1>3 DEF ThreadRead, ChildTypeOK
  <2>2. InFlight' \in Nat /\ InFlight' <= InFlight
    BY <1>3, <2>1, CountType DEF ThreadRead, InFlight, Count, Carries
  <2>3. ASSUME AllOwn PROVE  AllOwn'
    BY <1>3, <2>3 DEF ThreadRead, ChildTypeOK, AllOwn, Carries
  <2>4. ~NothingInFlight
    BY <1>3 DEF NothingInFlight
  <2>5. /\ Live' => Live
        /\ UNCHANGED <<closed, timedOut, pc, issued, child, toChild>>
    BY <1>3 DEF ThreadRead
  <2> HIDE DEF InFlight, AllOwn, NothingInFlight, Live
  <2> QED
    BY <2>2, <2>3, <2>4, <2>5, CountType
<1>4. CASE ThreadSend
  BY <1>4, CountType
     DEF ThreadSend, InFlight, AllOwn, NothingInFlight, NoItem, Carries, Count,
         Terminals
<1> QED BY <1>1, <1>2, <1>3, <1>4 DEF ThreadStep

(* If the channel or the pipe holds the one thing on its way, nothing else *)
(* is.                                                                     *)
LEMMA OneInFlight ==
  ASSUME TypeOK, InFlight <= 1
  PROVE  /\ Carries(slot) => toChild = <<>> /\ fromChild = <<>> /\ ~Carries(held)
         /\ toChild # <<>> => fromChild = <<>> /\ ~Carries(held) /\ ~Carries(slot)
<1>1. /\ Len(toChild) = 0 <=> toChild = <<>>
      /\ Len(fromChild) = 0 <=> fromChild = <<>>
  BY EmptyLen DEF TypeOK, ChildTypeOK
<1>2. /\ Count(held) = 0 <=> ~Carries(held)
      /\ Count(slot) = 0 <=> ~Carries(slot)
  BY DEF Count
<1> QED BY <1>1, <1>2, CountType DEF InFlight

(* The owner puts a request on its way only when nothing is, and ends its  *)
(* call only when its answer has come, when the session is closed, when no *)
(* read can return a line any more, or when the request itself could not   *)
(* leave.                                                                  *)
LEMMA FlightOwner ==
  ASSUME TypeOK, StageInv, FlightInv, User \/ OwnerStep
  PROVE  FlightInv'
<1> USE DEF StageInv, Calling, Closing, Stages, Quiet
<1>1. ASSUME timedOut' \/ ~Live' \/ pc' = "gone" \/ (pc' = "idle" /\ closed')
      PROVE  FlightInv'
  BY <1>1 DEF FlightInv
<1>2. CASE SetTimeout \/ CallRefused \/ CallStart
  BY <1>2
     DEF SetTimeout, CallRefused, CallStart, FlightInv, Live, InFlight, AllOwn,
         NothingInFlight
<1>3. CASE Close \/ Drop \/ OverwriteClose
  BY <1>1, <1>3
     DEF Close, Drop, OverwriteClose, CloseFrom, FlightInv, Live,
         NothingInFlight
<1>4. CASE HelloAccepted \/ HelloFailed
  <2>1. CASE GotLine
    <3>1. Live /\ ~timedOut /\ Carries(slot)
      BY <1>4, <2>1
         DEF HelloAccepted, HelloFailed, GotLine, Live, Carries, Terminals,
             TypeOK, ReaderTypeOK, Items, LineKinds, NoItem
    <3>2. InFlight <= 1 /\ child # "booting"
      <4>1. InFlight <= 1 /\ (child = "booting" => InFlight = 0)
        BY <1>4, <3>1 DEF HelloAccepted, HelloFailed, FlightInv
      <4>2. InFlight # 0
        BY <3>1, CountType DEF InFlight, Count
      <4> QED BY <4>1, <4>2
    <3>3. NothingInFlight'
      BY <1>4, <2>1, <3>1, <3>2, OneInFlight
         DEF HelloAccepted, HelloFailed, GotLine, NothingInFlight, NoItem,
             Carries
    <3> QED
      BY <1>4, <3>3 DEF HelloAccepted, HelloFailed, BeginTeardown, FlightInv
  <2>2. CASE GotTerminal
    BY <1>1, <2>2 DEF GotTerminal, Terminals, Live
  <2>3. CASE Expired
    BY <1>1, <2>3 DEF Expired
  <2> QED BY <1>4, <2>1, <2>2, <2>3 DEF HelloAccepted, HelloFailed
<1>5. CASE CallWrite \/ CloseWrite
  <2> SUFFICES ASSUME Live, ~timedOut PROVE FlightInv'
    BY <1>5 DEF CallWrite, CloseWrite, FlightInv, Live
  <2>1. NothingInFlight
    BY <1>5 DEF CallWrite, CloseWrite, FlightInv
  <2>2. CASE WriteFails
    <3>1. pc' \in {"idle", "gone", "stdinClosed"}
      BY <1>5, <2>2
         DEF CallWrite, CloseWrite, BeginTeardown, TypeOK, SessionTypeOK
    <3>2. UNCHANGED <<childVars, readerVars>>
      BY <1>5, <2>2 DEF CallWrite, CloseWrite
    <3> QED BY <2>1, <3>1, <3>2 DEF FlightInv, NothingInFlight
  <2>3. CASE ~WriteFails
    <3>1. toChild = <<>>
      BY <2>1, <2>3 DEF WriteFails, NothingInFlight
    <3>2. Len(toChild') = 1 /\ (CallWrite => toChild'[1].id = issued)
      <4>1. CASE CallWrite
        BY <2>3, <3>1, <4>1 DEF CallWrite
      <4>2. CASE CloseWrite /\ ~CallWrite
        BY <2>3, <3>1, <4>2 DEF CloseWrite
      <4> QED BY <1>5, <4>1, <4>2
    <3>3. /\ UNCHANGED <<issued, child, fromChild, held, slot>>
          /\ pc' \in {"flush", "closeFlush"} /\ (pc' = "flush" => CallWrite)
      BY <1>5, <2>3 DEF CallWrite, CloseWrite
    <3>4. InFlight' <= 1
      BY <2>1, <3>2, <3>3 DEF InFlight, NothingInFlight, Count, Carries
    <3>5. CallWrite => AllOwn'
      BY <2>1, <3>2, <3>3 DEF AllOwn, NothingInFlight, Carries
    <3> QED BY <2>1, <3>3, <3>4, <3>5 DEF FlightInv, NothingInFlight
  <2> QED BY <2>2, <2>3
<1>6. CASE CallFlush \/ CloseFlush
  <2> SUFFICES ASSUME Live, ~timedOut PROVE FlightInv'
    BY <1>6 DEF CallFlush, CloseFlush, FlightInv, Live
  <2>1. child # "booting" /\ InFlight <= 1 /\ (CallFlush => AllOwn)
    BY <1>6 DEF CallFlush, CloseFlush, FlightInv
  <2>2. CASE Len(toChild) <= room
    BY <1>6, <2>1, <2>2
       DEF CallFlush, CloseFlush, FlightInv, InFlight, AllOwn, TypeOK,
           ChildTypeOK
  <2>3. CASE ~(Len(toChild) <= room)
    <3>1. child = "dead"
      BY <1>6, <2>3 DEF CallFlush, CloseFlush
    <3>2. toChild # <<>>
      BY <2>3, EmptyLen DEF TypeOK, ChildTypeOK
    <3>3. NothingInFlight /\ UNCHANGED <<childVars, readerVars>>
      BY <1>6, <2>1, <3>1, <3>2, OneInFlight
         DEF CallFlush, CloseFlush, NothingInFlight
    <3>4. pc' \in {"idle", "gone", "stdinClosed"}
      BY <1>6, <2>3
         DEF CallFlush, CloseFlush, BeginTeardown, TypeOK, SessionTypeOK
    <3> QED BY <3>3, <3>4 DEF FlightInv, NothingInFlight
  <2> QED BY <2>2, <2>3
<1>7. CASE CallAnswered \/ (CloseRead /\ GotLine)
  <2>1. Live /\ ~timedOut /\ Carries(slot)
    BY <1>7
       DEF CallAnswered, CloseRead, GotLine, Live, Carries, Terminals, TypeOK,
           ReaderTypeOK, Items, LineKinds, NoItem
  <2>2. InFlight <= 1 /\ child # "booting"
    BY <1>7, <2>1 DEF CallAnswered, CloseRead, FlightInv
  <2>3. NothingInFlight'
    BY <1>7, <2>1, <2>2, OneInFlight
       DEF CallAnswered, CloseRead, GotLine, NothingInFlight, NoItem, Carries
  <2>4. pc' \in {"idle", "gone", "overwritten", "stdinClosed"}
    BY <1>7 DEF CallAnswered, CloseRead, BeginTeardown, TypeOK, SessionTypeOK
  <2> QED BY <2>3, <2>4 DEF FlightInv
<1>8. CASE CallFailed \/ (CloseRead /\ GotTerminal)
  BY <1>1, <1>8 DEF CallFailed, GotTerminal, Terminals, Live
<1>9. CASE CallTimedOut \/ (CloseRead /\ Expired)
  BY <1>1, <1>9 DEF CallTimedOut, Expired
<1>10. CASE Terminate \/ Kill \/ Reaped \/ JoinStderr
  BY <1>10
     DEF Terminate, Kill, Signal, Reaped, JoinStderr, FlightInv, Live,
         NothingInFlight
<1>11. CASE JoinReader
  BY <1>1, <1>11 DEF JoinReader, TypeOK, SessionTypeOK
<1> QED
  BY <1>2, <1>3, <1>4, <1>5, <1>6, <1>7, <1>8, <1>9, <1>10, <1>11
     DEF User, OwnerStep, CloseRead

(* Only the reader thread sends the last item, and it ends with that.      *)
LEMMA EndStep ==
  ASSUME TypeOK, EndInv, [Next]_vars
  PROVE  EndInv'
<1> USE DEF EndInv, Live
<1>1. CASE UNCHANGED readerVars
  BY <1>1
<1>2. CASE GotLine \/ GotTerminal
  BY <1>2 DEF GotLine, GotTerminal, NoItem, Terminals
<1>3. CASE JoinReader
  BY <1>3 DEF JoinReader, NoItem, Terminals
<1>4. CASE ThreadRead \/ ThreadSend
  BY <1>4 DEF ThreadRead, ThreadSend
<1> QED
  BY <1>1, <1>2, <1>3, <1>4
     DEF Next, User, OwnerStep, ThreadStep, ChildStep, SetTimeout, CallRefused,
         CallStart, Close, Drop, CloseFrom, HelloAccepted, HelloFailed,
         CallWrite, CallFlush, CallAnswered, CallFailed, CallTimedOut,
         OverwriteClose, CloseWrite, CloseFlush, CloseRead, Terminate, Kill,
         Signal, Reaped, JoinStderr, Expired, StderrThread

(* Every step hands callers their own answers only.                        *)
LEMMA OwnAnswerStep ==
  ASSUME TypeOK, StageInv, FlightInv, OwnAnswer, [Next]_vars
  PROVE  OwnAnswer'
<1> USE DEF TypeOK, SessionTypeOK, OwnAnswer, Answered
<1>1. CASE UNCHANGED outcome
  BY <1>1
<1>2. ASSUME NEW i, NEW k, NEW r, k \in Answered => r = i,
             outcome' = [outcome EXCEPT ![i] = [re |-> r, kind |-> k]]
      PROVE  OwnAnswer'
  BY <1>2
<1>3. CASE CallAnswered
  <2>1. Live /\ Carries(slot) /\ pc = "read" /\ ~timedOut
    BY <1>3
       DEF CallAnswered, GotLine, Live, Carries, Terminals, ReaderTypeOK, Items,
           LineKinds, NoItem, StageInv, Calling
  <2>2. slot.id = issued
    BY <2>1 DEF FlightInv, AllOwn
  <2> QED BY <1>2, <1>3, <2>2 DEF CallAnswered, Return
<1>4. CASE CallRefused \/ CallStart
  BY <1>2, <1>4 DEF CallRefused, CallStart
<1>5. CASE CallWrite \/ CallFlush \/ CallFailed
  BY <1>1, <1>2, <1>5 DEF CallWrite, CallFlush, CallFailed, Return
<1>6. CASE CallTimedOut
  BY <1>2, <1>6 DEF CallTimedOut, Return
<1> QED
  BY <1>1, <1>3, <1>4, <1>5, <1>6
     DEF Next, User, OwnerStep, ThreadStep, ChildStep, SetTimeout, Close, Drop,
         CloseFrom, HelloAccepted, HelloFailed, OverwriteClose, CloseWrite,
         CloseFlush, CloseRead, Terminate, Kill, Signal, Reaped, JoinStderr,
         JoinReader, ThreadRead, ThreadSend, StderrThread

(* The invariant holds when the transport has just started.                *)
LEMMA InvInit == Init => IInv
<1> SUFFICES ASSUME Init PROVE IInv
  OBVIOUS
<1> USE DEF Init, ChildInit
<1>1. ChildTypeOK
  BY RoomAssumption, HolderAssumption DEF ChildTypeOK
<1>2. SessionTypeOK
  <2>1. 0 \in 0..MaxRequests
    BY MaxRequestsAssumption
  <2>2. [re |-> 0, kind |-> "none"] \in [re : 0..MaxRequests, kind : Outcomes]
    BY <2>1 DEF Outcomes
  <2>3. outcome \in [Ids -> [re : 0..MaxRequests, kind : Outcomes]]
    BY <2>2
  <2> QED BY <2>1, <2>3 DEF SessionTypeOK, Owner
<1>3. TransportTypeOK /\ ReaderTypeOK
  BY StderrAssumption DEF TransportTypeOK, ReaderTypeOK
<1>4. FlightInv /\ EndInv
  BY DEF FlightInv, EndInv, Live, InFlight, Count, Carries, NoItem, Quiet,
         Stages, Terminals
<1>5. StageInv /\ SignalInv /\ ReleasedAtRest
  BY DEF StageInv, SignalInv, ReleasedAtRest, AtRest, Calling, Closing, Stages
<1>6. OrderInv /\ OwnAnswer
  BY DEF OrderInv, OwnAnswer, Answered, Ids, Calling
<1> QED BY <1>1, <1>2, <1>3, <1>4, <1>5, <1>6 DEF IInv, TypeOK

(* Every step keeps the invariant.                                         *)
LEMMA InvStep == IInv /\ [Next]_vars => IInv'
<1> SUFFICES ASSUME IInv, [Next]_vars PROVE IInv'
  OBVIOUS
<1>1. TypeOK'
  BY ChildType, SessionType, TransportType, ReaderType DEF IInv, TypeOK
<1>2. FlightInv'
  <2>1. CASE UNCHANGED vars
    BY <2>1 DEF IInv, FlightInv, Live, InFlight, AllOwn, NothingInFlight
  <2> QED BY <2>1, FlightOwner, FlightThread, FlightChild DEF IInv, Next
<1>3. EndInv' /\ StageInv' /\ ReleasedAtRest' /\ SignalInv' /\ OrderInv' /\ OwnAnswer'
  BY EndStep, StageStep, SignalStep, OrderStep, OwnAnswerStep DEF IInv
<1> QED BY <1>1, <1>2, <1>3 DEF IInv

(* The conjunction of all of the above holds of every behaviour of Session *)
(* over DirectTransport.                                                   *)
THEOREM InductiveInvariant == Spec => []IInv
  BY InvInit, InvStep, PTL DEF Spec

(* Every variable keeps its type.                                          *)
THEOREM TypeCorrect == Spec => []TypeOK
<1>1. IInv => TypeOK
  BY DEF IInv
<1> QED BY <1>1, InductiveInvariant, PTL

(* Session::call never returns a response that belongs to another request, *)
(* whatever the server does and however many calls time out or fail.       *)
THEOREM OwnAnswerHolds == Spec => []OwnAnswer
<1>1. IInv => OwnAnswer
  BY DEF IInv
<1> QED BY <1>1, InductiveInvariant, PTL

(* When Session::close, Drop, a time-out or a failed Session::new is done, *)
(* the child is reaped and its pipes and threads are let go.               *)
THEOREM ReleasedHolds == Spec => []ReleasedAtRest
<1>1. IInv => ReleasedAtRest
  BY DEF IInv
<1> QED BY <1>1, InductiveInvariant, PTL

(* Without a time-out, the reader thread ThreadedReader::join waits for    *)
(* has ended or has no line left to park on.                               *)
THEOREM ReaderNotParkedHolds == Spec => []ReaderNotParked
<1>1. IInv => ReaderNotParked
  BY DEF IInv, TypeOK, ReaderTypeOK, Items, FlightInv, EndInv, NothingInFlight,
         Carries, Quiet, Stages, Live, ReaderNotParked, NoLine, Terminals,
         NoItem, LineKinds
<1> QED BY <1>1, InductiveInvariant, PTL

(* DirectTransport::close signals the child only before reaping it, and    *)
(* SIGKILL only after SIGTERM.                                             *)
THEOREM SignalsHold == Spec => SignalsUnreapedInOrder
<1> DEFINE A == signal' # signal => /\ exitCode = "none"
                                    /\ signal' = (IF signal = "none" THEN "term" ELSE "kill")
<1>1. IInv /\ [Next]_vars => [A]_vars
  <2> SUFFICES ASSUME IInv, Next PROVE A
    OBVIOUS
  <2>1. CASE Terminate \/ Kill
    BY <2>1 DEF IInv, SignalInv, Terminate, Kill, Signal
  <2>2. CASE UNCHANGED signal
    BY <2>2
  <2> QED
    BY <2>1, <2>2
       DEF Next, User, OwnerStep, ThreadStep, ChildStep, ChildNext, SetTimeout,
           CallRefused, CallStart, Close, Drop, CloseFrom, HelloAccepted,
           HelloFailed, CallWrite, CallFlush, CallAnswered, CallFailed,
           CallTimedOut, OverwriteClose, CloseWrite, CloseFlush, CloseRead,
           Reaped, JoinStderr, JoinReader, ThreadRead, ThreadSend, StderrThread,
           ChildHello, ChildAnswer, ChildDies, HolderReleases
<1> QED BY <1>1, InductiveInvariant, PTL DEF Spec, SignalsUnreapedInOrder

-----------------------------------------------------------------------------
(* Refinement: every step of the session maps to a step of the serial      *)
(* connection or leaves its state alone.                                   *)

AbstractStatuses == [i \in Ids |-> AbstractStatus(outcome[i], i)]

(* Its requests are the ids of the session.                                *)
LEMMA AbstractState == Connection!Requests = Ids
  BY DEF Connection!Requests, Ids

(* The next request is new, and all before it are done with.               *)
LEMMA PhaseOrder ==
  ASSUME TypeOK, OrderInv, issued < MaxRequests, pc \notin Calling
  PROVE  /\ issued + 1 \in Ids
         /\ AbstractStatuses[issued + 1] = "new"
         /\ \A j \in Ids : j < issued + 1 => AbstractStatuses[j] \notin {"new", "pending"}
<1> USE MaxRequestsAssumption DEF TypeOK, SessionTypeOK, Ids
<1>1. issued + 1 \in Ids
  OBVIOUS
<1>2. outcome[issued + 1].kind = "none"
  BY <1>1 DEF OrderInv
<1>3. ASSUME NEW j \in Ids, j < issued + 1
      PROVE  outcome[j].kind \in Outcomes \ {"none", "pending"}
  BY <1>3 DEF OrderInv
<1> QED
  BY <1>1, <1>2, <1>3
     DEF AbstractStatuses, AbstractStatus, Meaning, Answered, Outcomes

(* A request starts out: it is pending, or was refused.                    *)
LEMMA NewStatus ==
  ASSUME TypeOK, OrderInv, issued < MaxRequests, pc \notin Calling,
         NEW k \in {"pending", "closed"},
         outcome' = [outcome EXCEPT ![issued + 1] = [re |-> 0, kind |-> k]]
  PROVE  AbstractStatuses' = [AbstractStatuses EXCEPT ![issued + 1] =
               IF k = "pending" THEN "pending" ELSE "refused"]
<1> USE MaxRequestsAssumption DEF TypeOK, SessionTypeOK, Ids
<1>1. /\ outcome'[issued + 1] = [re |-> 0, kind |-> k]
      /\ \A i \in Ids \ {issued + 1} : outcome'[i] = outcome[i]
  OBVIOUS
<1>2. AbstractStatus(outcome'[issued + 1], issued + 1)
         = IF k = "pending" THEN "pending" ELSE "refused"
  BY <1>1 DEF AbstractStatus, Answered, Meaning
<1> QED BY <1>1, <1>2 DEF AbstractStatuses

(* The request in progress comes to its end.                               *)
LEMMA FinalStatus ==
  ASSUME TypeOK, OrderInv, pc \in Calling,
         NEW k \in Outcomes \ {"none", "pending", "closed"}, NEW r,
         k \in Answered => r = issued, Return(k, r)
  PROVE  /\ issued \in Ids
         /\ AbstractStatuses[issued] = "pending"
         /\ AbstractStatuses' = [AbstractStatuses EXCEPT ![issued] =
               IF k \in Answered THEN "answered" ELSE "failed"]
<1> USE MaxRequestsAssumption DEF TypeOK, SessionTypeOK, Ids
<1>1. issued \in Ids /\ outcome[issued].kind = "pending"
  BY DEF OrderInv
<1>2. AbstractStatuses[issued] = "pending"
  BY <1>1 DEF AbstractStatuses, AbstractStatus, Meaning, Answered
<1>3. outcome'[issued] = [re |-> r, kind |-> k]
      /\ \A i \in Ids \ {issued} : outcome'[i] = outcome[i]
  BY <1>1 DEF Return
<1>4. ASSUME issued \in Ids
      PROVE  AbstractStatus(outcome'[issued], issued)
                = IF k \in Answered THEN "answered" ELSE "failed"
  BY <1>3 DEF AbstractStatus, Answered, Meaning, Outcomes
<1>5. AbstractStatuses' = [AbstractStatuses EXCEPT ![issued] =
               IF k \in Answered THEN "answered" ELSE "failed"]
  BY <1>1, <1>3, <1>4 DEF AbstractStatuses
<1> QED BY <1>1, <1>2, <1>5

(* The initial state maps to the initial state.                            *)
LEMMA RefinementInit == Init => Connection!Init
  BY DEF Init, Connection!Init, Connection!Requests, Ids, AbstractPhase,
         AbstractStatus, Meaning, Answered

(* Every step maps to a step of the serial connection or to none.          *)
LEMMA RefinementStep ==
  ASSUME IInv, [Next]_vars
  PROVE  [Connection!Next]_(Connection!vars)
<1> USE DEF IInv, StageInv, Calling, Closing, Stages
<1> DEFINE Failing == AbstractStatuses' = [AbstractStatuses EXCEPT ![issued] = "failed"]
<1>1. CASE UNCHANGED <<AbstractPhase, AbstractStatuses>>
  BY <1>1 DEF Connection!vars, AbstractStatuses
<1>2. CASE UNCHANGED vars
  BY <1>1, <1>2 DEF AbstractPhase, AbstractStatuses
<1>3. ASSUME UNCHANGED outcome
      PROVE  UNCHANGED AbstractStatuses
  BY <1>3 DEF AbstractStatuses
<1>4. ASSUME UNCHANGED <<AbstractPhase, outcome>>
      PROVE  UNCHANGED <<AbstractPhase, AbstractStatuses>>
  BY <1>3, <1>4
<1>5. CASE SetTimeout
  BY <1>1, <1>4, <1>5 DEF SetTimeout, AbstractPhase
<1>6. CASE CallRefused
  <2>1. AbstractPhase = "closed" /\ UNCHANGED AbstractPhase
    BY <1>6 DEF CallRefused, AbstractPhase
  <2>2. Connection!Refuse(issued + 1)
    BY <1>6, <2>1, PhaseOrder, NewStatus, AbstractState
       DEF CallRefused, Connection!Refuse, Connection!Next1, AbstractStatuses
  <2> QED
    BY <1>6, <2>2, PhaseOrder, AbstractState DEF CallRefused, Connection!Next
<1>7. CASE CallStart
  <2>1. AbstractPhase = "open" /\ UNCHANGED AbstractPhase
    BY <1>7 DEF CallStart, AbstractPhase
  <2>2. Connection!Submit(issued + 1)
    BY <1>7, <2>1, PhaseOrder, NewStatus, AbstractState
       DEF CallStart, Connection!Submit, Connection!Next1, AbstractStatuses
  <2> QED
    BY <1>7, <2>2, PhaseOrder, AbstractState DEF CallStart, Connection!Next
<1>8. ASSUME UNCHANGED outcome, AbstractPhase # "closed", AbstractPhase' = "closed"
      PROVE  Connection!Close
  BY <1>3, <1>8 DEF Connection!Close, AbstractStatuses
<1>9. CASE Close \/ Drop \/ OverwriteClose
  <2>1. CASE ~closed
    BY <1>8, <1>9, <2>1
       DEF Close, Drop, OverwriteClose, CloseFrom, AbstractPhase,
           Connection!Next
  <2>2. CASE closed
    BY <1>1, <1>4, <1>9, <2>2
       DEF Close, Drop, OverwriteClose, CloseFrom, AbstractPhase
  <2> QED BY <2>1, <2>2
<1>10. CASE HelloAccepted
  BY <1>3, <1>10
     DEF HelloAccepted, AbstractPhase, Connection!Open, Connection!Next,
         AbstractStatuses
<1>11. CASE HelloFailed
  BY <1>8, <1>11 DEF HelloFailed, BeginTeardown, AbstractPhase, Connection!Next
<1>12. ASSUME Return("io", 0), pc \in Calling, pc' = "idle", UNCHANGED <<back, closed>>
       PROVE  Connection!Next
  <2>1. issued \in Ids /\ AbstractStatuses[issued] = "pending" /\ Failing
    BY <1>12, FinalStatus DEF Outcomes, Answered
  <2>2. Connection!Fail(issued)
    BY <1>12, <2>1 DEF Connection!Fail, AbstractPhase, AbstractStatuses
  <2> QED BY <2>1, <2>2, AbstractState DEF Connection!Next
<1>13. CASE CallWrite \/ CallFlush \/ CallFailed
  <2>1. CASE Return("io", 0) /\ pc' = "idle"
    BY <1>12, <1>13, <2>1 DEF CallWrite, CallFlush, CallFailed
  <2>2. CASE UNCHANGED outcome /\ pc' \in Calling
    BY <1>1, <1>4, <1>13, <2>2
       DEF CallWrite, CallFlush, CallFailed, AbstractPhase
  <2> QED BY <1>13, <2>1, <2>2 DEF CallWrite, CallFlush, CallFailed
<1>14. CASE CallAnswered
  <2>1. slot.id = issued /\ Decoded(slot) \in Answered
    <3>1. Live /\ Carries(slot) /\ pc = "read" /\ ~timedOut
      BY <1>14
         DEF CallAnswered, GotLine, Live, Carries, Terminals, TypeOK,
             ReaderTypeOK, Items, LineKinds, NoItem
    <3> QED BY <3>1 DEF FlightInv, AllOwn, Decoded, Answered
  <2>2. /\ issued \in Ids /\ AbstractStatuses[issued] = "pending"
        /\ AbstractStatuses' = [AbstractStatuses EXCEPT ![issued] = "answered"]
    BY <1>14, <2>1, FinalStatus DEF CallAnswered, Answered, Outcomes
  <2>3. Connection!Answer(issued)
    BY <1>14, <2>2
       DEF CallAnswered, Connection!Answer, AbstractPhase, AbstractStatuses
  <2> QED BY <2>2, <2>3, AbstractState DEF Connection!Next
<1>15. CASE CallTimedOut
  <2>1. issued \in Ids /\ AbstractStatuses[issued] = "pending" /\ Failing
    BY <1>15, FinalStatus DEF CallTimedOut, Outcomes, Answered
  <2>2. AbstractPhase # "closed" /\ AbstractPhase' = "closed"
    BY <1>15 DEF CallTimedOut, AbstractPhase
  <2> QED
    BY <2>1, <2>2, AbstractState
       DEF Connection!Close, Connection!Next, AbstractStatuses
<1>16. CASE CloseWrite \/ CloseFlush \/ CloseRead
  BY <1>1, <1>4, <1>16
     DEF CloseWrite, CloseFlush, CloseRead, BeginTeardown, AbstractPhase
<1>17. CASE Terminate \/ Kill \/ Reaped \/ JoinStderr \/ JoinReader
  BY <1>1, <1>4, <1>17
     DEF Terminate, Kill, Signal, Reaped, JoinStderr, JoinReader, AbstractPhase
<1>18. CASE ThreadStep \/ StderrThread \/ ChildStep
  BY <1>1, <1>4, <1>18
     DEF ThreadStep, ThreadRead, ThreadSend, StderrThread, ChildStep,
         AbstractPhase
<1> QED
  BY <1>2, <1>5, <1>6, <1>7, <1>9, <1>10, <1>11, <1>13, <1>14, <1>15, <1>16,
     <1>17, <1>18
     DEF Next, User, OwnerStep

(* Session over DirectTransport implements the serial connection: one      *)
(* request at a time, its own answer or a failure, and refusal for good    *)
(* once closed.                                                            *)
THEOREM Refinement == Spec => ImplementsConnection
<1>1. IInv /\ [Next]_vars => [Connection!Next]_(Connection!vars)
  BY RefinementStep
<1> QED
  BY <1>1, RefinementInit, InductiveInvariant, PTL
     DEF Spec, ImplementsConnection, Connection!Spec
=============================================================================
