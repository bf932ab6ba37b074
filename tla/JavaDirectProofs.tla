-------------------------- MODULE JavaDirectProofs --------------------------
(***************************************************************************)
(* What holds of JavaDirect for every set of threads, every number of      *)
(* requests and of interrupts, and every pipe, with proofs.                *)
(*                                                                         *)
(* The owner of Session.lock is the only one with a request on its way,    *)
(* and it finds none there when it takes the lock (FlightInv): as long as  *)
(* no read was interrupted, for that one leaves the session open and the   *)
(* answer on its way.  What DirectTransport.close has behind it at each    *)
(* statement (StageInv) is what it has released when it lets go of the     *)
(* lock, interrupts or not.                                                *)
(***************************************************************************)
EXTENDS JavaDirect, ChildProofs

(* The reader may still hand out a line.                                   *)
Live == terminal = "none" /\ slot.kind \notin Terminals

Carries(item) == item.kind \notin {"none", "eof"}
Count(item)   == IF Carries(item) THEN 1 ELSE 0
InFlight == Len(toChild) + Len(fromChild) + Count(held) + Count(slot)

(* Everything on its way is of request i.                                  *)
AllOf(i) ==
    /\ \A k \in 1..Len(toChild) : toChild[k].id = i
    /\ \A k \in 1..Len(fromChild) : fromChild[k].id = i
    /\ Carries(held) => held.id = i
    /\ Carries(slot) => slot.id = i

(* A request that never left because the server died may stay in the pipe. *)
NothingInFlight ==
    /\ child # "booting"
    /\ child # "dead" => toChild = <<>>
    /\ fromChild = <<>> /\ ~Carries(held) /\ ~Carries(slot)

Closing == {"closeWrite", "closeFlush", "closeRead"}
Stages  == {"stdinClosed", "terminated", "killed", "joinStderr", "joinReader"}

(* Where the owner of the lock is, against what is closed and released.    *)
StageInv ==
    /\ owner = "free" <=> pc \in {"unlocked", "gone"}
    /\ pc = "hello" => owner = "open"
    /\ owner = "open" => pc \in {"hello"} \cup Stages
    /\ pc \in Calling => ~closed
    /\ pc \in Closing => closed
    /\ pc \in Stages => closed \/ owner = "open"
    /\ owner = "open" => ~closed
    /\ torn <=> pc \in Stages \/ pc = "gone" \/ (pc = "unlocked" /\ closed)
    /\ torn => ~stdin
    /\ pc \in {"joinStderr", "joinReader"} => exitCode = "known"
    /\ pc = "joinReader" /\ stderrThread = "running" => "join" \in gaveUp

FlightInv ==
    /\ thread # "putting" => held = NoItem
    /\ Live /\ "interrupt" \notin gaveUp =>
        /\ pc = "hello" => /\ InFlight <= 1 /\ toChild = <<>>
                           /\ child = "booting" => InFlight = 0
        /\ pc = "write" \/ (pc = "unlocked" /\ ~closed) => NothingInFlight
        /\ pc \in {"flush", "read"} => child # "booting" /\ InFlight <= 1 /\ AllOf(issued)

(* Calls are admitted in order, one at a time.                             *)
OrderInv ==
    /\ pc \in Calling => issued \in Ids
    /\ \A i \in Ids : /\ i > issued => outcome[i].kind = "none"
                      /\ i <= issued => outcome[i].kind # "none"
                      /\ outcome[i].kind = "pending" <=> i = issued /\ pc \in Calling

IInv == /\ TypeOK /\ StageInv /\ FlightInv /\ OrderInv
        /\ OwnAnswerUninterrupted /\ ReleasedAtRest

-----------------------------------------------------------------------------
(* Type correctness, part by part.                                         *)

USE DEF vars, childVars, lockVars, sessionVars, flagVars, transportVars, readerVars

SessionTypeOK ==
    /\ owner \in Callers \cup {"open", "free"} /\ pc \in Labels
    /\ op \in {"call", "overwrite"} /\ owes \subseteq Callers
    /\ issued \in 0..MaxRequests
    /\ outcome \in [Ids -> [re : 0..MaxRequests, kind : Outcomes]]
    /\ closed \in BOOLEAN /\ bounded \in BOOLEAN

FlagTypeOK == /\ flags \subseteq Callers \cup {"open"} /\ left \in 0..MaxInterrupts
              /\ gaveUp \subseteq Waits

TransportTypeOK ==
    /\ torn \in BOOLEAN /\ stdin \in BOOLEAN /\ exitCode \in {"none", "known"}
    /\ stderrThread \in {"none", "running", "ended"}

ReaderTypeOK ==
    /\ reader \in BOOLEAN
    /\ slot \in Items \cup {NoItem} /\ held \in Items \cup {NoItem}
    /\ terminal \in Terminals \cup {"none"}
    /\ thread \in {"reading", "putting", "ended"}

LEMMA Types ==
  TypeOK <=> ChildTypeOK /\ SessionTypeOK /\ FlagTypeOK /\ TransportTypeOK /\ ReaderTypeOK
BY DEF TypeOK, SessionTypeOK, FlagTypeOK, TransportTypeOK, ReaderTypeOK

LEMMA TypesNext ==
  ASSUME ChildTypeOK', SessionTypeOK', FlagTypeOK', TransportTypeOK', ReaderTypeOK'
  PROVE  TypeOK'
BY DEF TypeOK, SessionTypeOK, FlagTypeOK, TransportTypeOK, ReaderTypeOK

(* A caller is a thread other than the one in the constructor.             *)
LEMMA CallerIsThread ==
  ASSUME NEW c \in Callers
  PROVE  c # "open" /\ c # "free"
BY CallersAssumption

(* A line read from the pipe is an item for the queue.                     *)
LEMMA LineIsItem == ASSUME NEW line \in Line PROVE line \in Items
  BY DEF Line, Items

(* What the owner does in a read.                                          *)
Reads == GotLine \/ GotTerminal \/ Expired \/ ReadInterrupted

LEMMA ReadType ==
  ASSUME ReaderTypeOK, FlagTypeOK, Reads
  PROVE  /\ ReaderTypeOK' /\ gaveUp' \subseteq Waits
         /\ UNCHANGED <<held, thread, reader>>
BY DEF Reads, GotLine, GotTerminal, Expired, ReadInterrupted, GaveUp, ReaderTypeOK, FlagTypeOK,
       Waits

(* The lock is let go, or the transport is closed first.                   *)
LEMMA UnlockType ==
  ASSUME SessionTypeOK, Unlock
  PROVE  /\ owner' \in Callers \cup {"open", "free"} /\ pc' \in Labels
         /\ op' \in {"call", "overwrite"}
BY DEF Unlock, SessionTypeOK, Labels

LEMMA TeardownType ==
  ASSUME SessionTypeOK, TransportTypeOK, BeginTeardown
  PROVE  /\ owner' \in Callers \cup {"open", "free"} /\ pc' \in Labels
         /\ op' \in {"call", "overwrite"} /\ TransportTypeOK'
<1>1. CASE torn
  BY <1>1, UnlockType DEF BeginTeardown, TransportTypeOK
<1>2. CASE ~torn
  BY <1>2 DEF BeginTeardown, SessionTypeOK, TransportTypeOK, Labels
<1> QED
  BY <1>1, <1>2

(* What a call ends with.                                                  *)
LEMMA OutcomeType ==
  ASSUME SessionTypeOK, NEW i, NEW r \in 0..MaxRequests, NEW k \in Outcomes,
         outcome' = [outcome EXCEPT ![i] = [re |-> r, kind |-> k]]
  PROVE  outcome' \in [Ids -> [re : 0..MaxRequests, kind : Outcomes]]
BY DEF SessionTypeOK

LEMMA ReturnType ==
  ASSUME SessionTypeOK, NEW k \in Outcomes, NEW r \in 0..MaxRequests, Return(k, r)
  PROVE  outcome' \in [Ids -> [re : 0..MaxRequests, kind : Outcomes]]
BY OutcomeType DEF Return

LEMMA Constants0 ==
  0 \in 0..MaxRequests /\ \A k \in {"io", "timeout", "pending", "closed"} : k \in Outcomes
BY MaxRequestsAssumption DEF Outcomes

(* What a caller does that takes the lock, or finds the session closed.    *)
LEMMA CallerType ==
  ASSUME TypeOK, NEW c \in Callers, User(c) \/ OverwriteClose(c)
  PROVE  TypeOK'
<1>1. ChildTypeOK /\ SessionTypeOK /\ FlagTypeOK /\ TransportTypeOK /\ ReaderTypeOK
  BY Types
<1>2. UNCHANGED <<childVars, transportVars, readerVars, gaveUp, left>>
  BY DEF User, CallRefused, CallStart, Admit, Close, CloseStart, UserClears, OverwriteClose
<1>3. flags' \subseteq flags
  BY DEF User, CallRefused, CallStart, Admit, Close, CloseStart, UserClears, OverwriteClose
<1>4. ChildTypeOK' /\ FlagTypeOK' /\ TransportTypeOK' /\ ReaderTypeOK'
  BY <1>1, <1>2, <1>3 DEF ChildTypeOK, FlagTypeOK, TransportTypeOK, ReaderTypeOK
<1>5. CASE CallRefused(c)
  <2>1. outcome' \in [Ids -> [re : 0..MaxRequests, kind : Outcomes]]
    BY <1>1, <1>5, OutcomeType, Constants0 DEF CallRefused
  <2>2. issued' \in 0..MaxRequests
    BY <1>1, <1>5, MaxRequestsAssumption DEF CallRefused, SessionTypeOK
  <2>3. SessionTypeOK'
    BY <1>1, <1>5, <2>1, <2>2 DEF CallRefused, SessionTypeOK
  <2> QED
    BY <1>4, <2>3, TypesNext
<1>6. CASE CallStart(c)
  <2>1. outcome' \in [Ids -> [re : 0..MaxRequests, kind : Outcomes]]
    BY <1>1, <1>6, OutcomeType, Constants0 DEF CallStart, Admit
  <2>2. issued' \in 0..MaxRequests
    BY <1>1, <1>6, MaxRequestsAssumption DEF CallStart, Admit, SessionTypeOK
  <2>3. SessionTypeOK'
    BY <1>1, <1>6, <2>1, <2>2 DEF CallStart, Admit, SessionTypeOK, Labels, Calling
  <2> QED
    BY <1>4, <2>3, TypesNext
<1>7. CASE Close(c) \/ OverwriteClose(c)
  <2>1. SessionTypeOK'
    BY <1>1, <1>7 DEF Close, OverwriteClose, CloseStart, SessionTypeOK, Labels
  <2> QED
    BY <1>4, <2>1, TypesNext
<1>8. CASE UserClears(c)
  <2>1. SessionTypeOK'
    BY <1>1, <1>8 DEF UserClears, SessionTypeOK
  <2> QED
    BY <1>4, <2>1, TypesNext
<1> QED
  BY <1>5, <1>6, <1>7, <1>8 DEF User

(* The owner of the lock goes one statement further.                       *)
LEMMA OwnerType ==
  ASSUME TypeOK, StageInv, OwnerStep
  PROVE  TypeOK'
<1>1. ChildTypeOK /\ SessionTypeOK /\ FlagTypeOK /\ TransportTypeOK /\ ReaderTypeOK
  BY Types
<1>2. ASSUME UNCHANGED childVars PROVE ChildTypeOK'
  BY <1>1, <1>2 DEF ChildTypeOK
<1>3. ASSUME UNCHANGED transportVars PROVE TransportTypeOK'
  BY <1>1, <1>3 DEF TransportTypeOK
<1>4. ASSUME UNCHANGED readerVars PROVE ReaderTypeOK'
  BY <1>1, <1>4 DEF ReaderTypeOK
<1>5. ASSUME UNCHANGED flagVars, gaveUp' \subseteq Waits PROVE FlagTypeOK'
  BY <1>1, <1>5 DEF FlagTypeOK
<1>6. gaveUp \subseteq Waits
  BY <1>1 DEF FlagTypeOK
<1>7. ASSUME owner' \in Callers \cup {"open", "free"}, pc' \in Labels, op' \in {"call", "overwrite"},
             owes' \subseteq Callers, UNCHANGED issued,
             outcome' \in [Ids -> [re : 0..MaxRequests, kind : Outcomes]],
             closed' \in BOOLEAN, UNCHANGED bounded
      PROVE  SessionTypeOK'
  BY <1>1, <1>7 DEF SessionTypeOK
<1>8. /\ owner \in Callers \cup {"open", "free"} /\ op \in {"call", "overwrite"}
      /\ owes \subseteq Callers /\ closed \in BOOLEAN
      /\ outcome \in [Ids -> [re : 0..MaxRequests, kind : Outcomes]]
  BY <1>1 DEF SessionTypeOK
<1>9. CASE HelloAccepted
  <2>1. SessionTypeOK'
    BY <1>7, <1>8, <1>9 DEF HelloAccepted, Labels
  <2>2. ReaderTypeOK' /\ gaveUp' \subseteq Waits
    BY <1>1, <1>9, ReadType DEF HelloAccepted, Reads
  <2> QED
    BY <1>2, <1>3, <1>5, <1>9, <2>1, <2>2, TypesNext DEF HelloAccepted
<1>10. CASE HelloFailed \/ CloseRead
  <2>1. /\ Reads /\ BeginTeardown
        /\ UNCHANGED <<owes, issued, outcome, closed, bounded, flagVars, childVars>>
    BY <1>10 DEF HelloFailed, CloseRead, Reads
  <2>2. ReaderTypeOK' /\ gaveUp' \subseteq Waits
    BY <1>1, <2>1, ReadType
  <2>3. SessionTypeOK' /\ TransportTypeOK'
    BY <1>1, <1>7, <1>8, <2>1, TeardownType
  <2> QED
    BY <1>2, <1>5, <2>1, <2>2, <2>3, TypesNext
<1>11. CASE CallWrite \/ CallFlush
  <2>1. /\ \/ Return("io", 0) /\ Unlock
           \/ pc' \in {"flush", "read"} /\ UNCHANGED <<owner, op, outcome>>
        /\ UNCHANGED <<owes, issued, closed, bounded, flagVars, gaveUp, transportVars, readerVars>>
    BY <1>11 DEF CallWrite, CallFlush
  <2>2. SessionTypeOK'
    <3>1. CASE Return("io", 0) /\ Unlock
      BY <1>1, <1>7, <1>8, <2>1, <3>1, UnlockType, ReturnType, Constants0
    <3>2. CASE pc' \in {"flush", "read"} /\ UNCHANGED <<owner, op, outcome>>
      BY <1>7, <1>8, <2>1, <3>2 DEF Labels, Calling
    <3> QED
      BY <2>1, <3>1, <3>2
  <2>3. ChildTypeOK'
    <3>1. [op |-> op, id |-> issued] \in Request
      BY <1>1 DEF SessionTypeOK, Request
    <3>2. CASE toChild' = Append(toChild, [op |-> op, id |-> issued]) /\ CallWrite
      BY <1>1, <3>1, <3>2, RequestType DEF CallWrite
    <3> QED
      BY <1>2, <1>11, <3>2 DEF CallWrite, CallFlush
  <2> QED
    BY <1>3, <1>4, <1>5, <1>6, <2>1, <2>2, <2>3, TypesNext
<1>12. CASE CallAnswered
  <2>1. Decoded(slot) \in Outcomes /\ slot.id \in 0..MaxRequests
    BY <1>1, MaxRequestsAssumption DEF Decoded, Outcomes, Answered, ReaderTypeOK, Items, NoItem
  <2>2. Return(Decoded(slot), slot.id) /\ Unlock
    BY <1>12 DEF CallAnswered
  <2>3. outcome' \in [Ids -> [re : 0..MaxRequests, kind : Outcomes]]
    BY <1>1, <2>1, <2>2, ReturnType
  <2>4. owner \in Callers
    BY <1>8, <1>12 DEF CallAnswered, StageInv, Stages
  <2>5. owes' \subseteq Callers
    BY <1>8, <1>12, <2>4 DEF CallAnswered
  <2>6. SessionTypeOK'
    BY <1>1, <1>7, <1>8, <1>12, <2>2, <2>3, <2>5, UnlockType DEF CallAnswered
  <2>7. ReaderTypeOK' /\ gaveUp' \subseteq Waits
    BY <1>1, <1>12, ReadType DEF CallAnswered, Reads
  <2> QED
    BY <1>2, <1>3, <1>5, <1>12, <2>6, <2>7, TypesNext DEF CallAnswered
<1>13. CASE CallFailed
  <2>1. SessionTypeOK'
    BY <1>1, <1>7, <1>8, <1>13, UnlockType, ReturnType, Constants0 DEF CallFailed
  <2>2. ReaderTypeOK' /\ gaveUp' \subseteq Waits
    BY <1>1, <1>13, ReadType DEF CallFailed, Reads
  <2> QED
    BY <1>2, <1>3, <1>5, <1>13, <2>1, <2>2, TypesNext DEF CallFailed
<1>14. CASE CallTimedOut
  <2>1. SessionTypeOK' /\ TransportTypeOK'
    BY <1>1, <1>7, <1>8, <1>14, TeardownType, ReturnType, Constants0 DEF CallTimedOut
  <2>2. ReaderTypeOK' /\ gaveUp' \subseteq Waits
    BY <1>1, <1>14, ReadType DEF CallTimedOut, Reads
  <2> QED
    BY <1>2, <1>5, <1>14, <2>1, <2>2, TypesNext DEF CallTimedOut
<1>15. CASE CloseWrite \/ CloseFlush
  <2>1. /\ \/ BeginTeardown
           \/ pc' \in {"closeFlush", "closeRead"} /\ UNCHANGED <<owner, op, transportVars>>
        /\ UNCHANGED <<owes, issued, outcome, closed, bounded, flagVars, gaveUp, readerVars>>
    BY <1>15 DEF CloseWrite, CloseFlush
  <2>2. SessionTypeOK' /\ TransportTypeOK'
    BY <1>1, <1>3, <1>7, <1>8, <2>1, TeardownType DEF Labels
  <2>3. ChildTypeOK'
    <3>1. CASE toChild' = Append(toChild, CloseRequest) /\ CloseWrite
      BY <1>1, <3>1, RequestType, CloseRequestType DEF CloseWrite
    <3> QED
      BY <1>2, <1>15, <3>1 DEF CloseWrite, CloseFlush
  <2> QED
    BY <1>4, <1>5, <1>6, <2>1, <2>2, <2>3, TypesNext
<1>16. CASE Terminate \/ Kill
  <2>1. SessionTypeOK'
    BY <1>7, <1>8, <1>16 DEF Terminate, Kill, Signal, Labels
  <2>2. ChildTypeOK'
    BY <1>1, <1>16 DEF Terminate, Kill, Signal, ChildTypeOK
  <2> QED
    BY <1>3, <1>4, <1>5, <1>6, <1>16, <2>1, <2>2, TypesNext DEF Terminate, Kill, Signal
<1>17. CASE Reaped
  <2>1. SessionTypeOK'
    BY <1>7, <1>8, <1>17 DEF Reaped, Labels
  <2>2. TransportTypeOK'
    BY <1>1, <1>17 DEF Reaped, TransportTypeOK
  <2> QED
    BY <1>2, <1>4, <1>5, <1>6, <1>17, <2>1, <2>2, TypesNext DEF Reaped
<1>18. CASE JoinStderr
  <2>1. SessionTypeOK'
    BY <1>7, <1>8, <1>18 DEF JoinStderr, Labels
  <2>2. gaveUp' \subseteq Waits
    BY <1>6, <1>18 DEF JoinStderr, Waits
  <2> QED
    BY <1>2, <1>3, <1>4, <1>5, <1>18, <2>1, <2>2, TypesNext DEF JoinStderr
<1>19. CASE JoinReader
  <2>1. SessionTypeOK'
    BY <1>1, <1>7, <1>8, <1>19, UnlockType DEF JoinReader
  <2>2. ReaderTypeOK'
    BY <1>1, <1>19 DEF JoinReader, ReaderTypeOK
  <2> QED
    BY <1>2, <1>3, <1>5, <1>6, <1>19, <2>1, <2>2, TypesNext DEF JoinReader
<1> QED
  BY <1>9, <1>10, <1>11, <1>12, <1>13, <1>14, <1>15, <1>16, <1>17, <1>18, <1>19 DEF OwnerStep

LEMMA TypeStep == ASSUME TypeOK, StageInv, [Next]_vars PROVE TypeOK'
<1>1. ChildTypeOK /\ SessionTypeOK /\ FlagTypeOK /\ TransportTypeOK /\ ReaderTypeOK
  BY Types
<1>2. ASSUME UNCHANGED childVars PROVE ChildTypeOK'
  BY <1>1, <1>2 DEF ChildTypeOK
<1>3. ASSUME UNCHANGED sessionVars PROVE SessionTypeOK'
  BY <1>1, <1>3 DEF SessionTypeOK
<1>4. ASSUME UNCHANGED <<flagVars, gaveUp>> PROVE FlagTypeOK'
  BY <1>1, <1>4 DEF FlagTypeOK
<1>5. ASSUME UNCHANGED transportVars PROVE TransportTypeOK'
  BY <1>1, <1>5 DEF TransportTypeOK
<1>6. ASSUME UNCHANGED readerVars PROVE ReaderTypeOK'
  BY <1>1, <1>6 DEF ReaderTypeOK
<1>7. CASE SetTimeout
  <2>1. SessionTypeOK'
    BY <1>1, <1>7 DEF SetTimeout, SessionTypeOK
  <2> QED
    BY <1>2, <1>4, <1>5, <1>6, <1>7, <2>1, TypesNext DEF SetTimeout
<1>8. CASE \E c \in Callers : User(c) \/ OverwriteClose(c)
  BY <1>8, CallerType
<1>9. CASE OwnerStep
  BY <1>9, OwnerType
<1>10. CASE ThreadRead
  <2>1. ReaderTypeOK'
    <3>1. CASE fromChild # <<>> /\ held' = Head(fromChild)
      BY <1>1, <1>10, <3>1, HeadTail, LineIsItem DEF ThreadRead, ReaderTypeOK, ChildTypeOK
    <3>2. CASE held' = EofItem
      BY <1>1, <1>10, <3>2, MaxRequestsAssumption DEF ThreadRead, ReaderTypeOK, EofItem, Items
    <3> QED
      BY <1>10, <3>1, <3>2 DEF ThreadRead
  <2>2. fromChild' \in Seq(Line)
    BY <1>1, <1>10, HeadTail DEF ThreadRead, ChildTypeOK
  <2>3. ChildTypeOK'
    BY <1>1, <1>10, <2>2 DEF ThreadRead, ChildTypeOK
  <2> QED
    BY <1>3, <1>4, <1>5, <1>10, <2>1, <2>3, TypesNext DEF ThreadRead
<1>11. CASE ThreadPut
  <2>1. ReaderTypeOK'
    BY <1>1, <1>11 DEF ThreadPut, ReaderTypeOK
  <2> QED
    BY <1>2, <1>3, <1>4, <1>5, <1>11, <2>1, TypesNext DEF ThreadPut
<1>12. CASE StderrThread
  <2>1. TransportTypeOK'
    BY <1>1, <1>12 DEF StderrThread, TransportTypeOK
  <2> QED
    BY <1>2, <1>3, <1>4, <1>6, <1>12, <2>1, TypesNext DEF StderrThread
<1>13. CASE Interrupt
  <2>1. FlagTypeOK'
    BY <1>1, <1>13, InterruptAssumption DEF Interrupt, FlagTypeOK, SessionTypeOK
  <2> QED
    BY <1>2, <1>3, <1>5, <1>6, <1>13, <2>1, TypesNext DEF Interrupt
<1>14. CASE ChildStep
  BY <1>1, <1>3, <1>4, <1>5, <1>6, <1>14, ChildNextType, TypesNext DEF ChildStep
<1>15. CASE UNCHANGED vars
  BY <1>2, <1>3, <1>4, <1>5, <1>6, <1>15, TypesNext
<1> QED
  BY <1>7, <1>8, <1>9, <1>10, <1>11, <1>12, <1>13, <1>14, <1>15 DEF Next, ThreadStep

-----------------------------------------------------------------------------
(* Where the owner is.                                                     *)

(* The transport has not been closed yet when a call or a close enters it. *)
LEMMA Entering ==
  ASSUME StageInv, pc \in Calling \cup Closing \cup {"hello"}, BeginTeardown
  PROVE  /\ torn' /\ ~stdin' /\ pc' = "stdinClosed"
         /\ UNCHANGED <<owner, op, exitCode, stderrThread>>
BY DEF StageInv, Stages, Calling, Closing, BeginTeardown

LEMMA StageStep ==
  ASSUME TypeOK, StageInv, ReleasedAtRest, [Next]_vars
  PROVE  StageInv' /\ ReleasedAtRest'
<1> USE DEF StageInv, ReleasedAtRest, AtRest, Free, Calling, Closing, Stages
<1>1. \A c \in Callers : c # "open" /\ c # "free"
  BY CallerIsThread
<1>2. owner \in Callers \cup {"open", "free"} /\ pc \in Labels
  BY DEF TypeOK
<1>3. ASSUME UNCHANGED <<owner, pc, closed, torn, stdin, exitCode, reader>>,
             stderrThread' = stderrThread \/ stderrThread' = "ended", gaveUp \subseteq gaveUp'
      PROVE  StageInv' /\ ReleasedAtRest'
  BY <1>3
<1>4. ASSUME pc \in Calling \cup Closing \cup {"hello"}, BeginTeardown,
             closed' <=> pc # "hello"
      PROVE  StageInv' /\ ReleasedAtRest'
  BY <1>1, <1>4, Entering
<1>5. CASE SetTimeout
  BY <1>3, <1>5 DEF SetTimeout
<1>6. ASSUME NEW c \in Callers, User(c) \/ OverwriteClose(c)
      PROVE  StageInv' /\ ReleasedAtRest'
  <2>1. CASE CallRefused(c) \/ UserClears(c)
    BY <1>3, <2>1 DEF CallRefused, UserClears
  <2>2. CASE CallStart(c)
    BY <1>1, <2>2 DEF CallStart, Admit
  <2>3. CASE CloseStart(c)
    BY <1>1, <2>3 DEF CloseStart
  <2>4. CASE UNCHANGED <<owner, pc, closed, gaveUp, transportVars, readerVars>>
    BY <1>3, <2>4
  <2> QED
    BY <1>6, <2>1, <2>2, <2>3, <2>4 DEF User, Close, OverwriteClose
<1>7. CASE OwnerStep
  <2>1. CASE HelloAccepted
    BY <2>1 DEF HelloAccepted, GotLine
  <2>2. CASE HelloFailed
    BY <1>4, <2>2 DEF HelloFailed
  <2>3. CASE CallWrite \/ CallFlush \/ CallAnswered \/ CallFailed
    <3>1. /\ pc \in Calling /\ ~closed /\ UNCHANGED <<closed, transportVars>>
          /\ Unlock \/ (pc' \in {"flush", "read"} /\ UNCHANGED owner)
      BY <2>3 DEF CallWrite, CallFlush, CallAnswered, CallFailed
    <3> QED
      BY <1>1, <1>2, <3>1 DEF Unlock
  <2>4. CASE CallTimedOut
    BY <1>4, <2>4 DEF CallTimedOut
  <2>5. CASE CloseWrite
    BY <1>1, <1>4, <2>5 DEF CloseWrite
  <2>6. CASE CloseFlush
    BY <1>1, <1>4, <2>6 DEF CloseFlush
  <2>7. CASE CloseRead
    BY <1>4, <2>7 DEF CloseRead
  <2>8. CASE Terminate \/ Kill
    BY <2>8 DEF Terminate, Kill, Signal
  <2>9. CASE Reaped
    BY <2>9 DEF Reaped
  <2>10. CASE JoinStderr
    BY <2>10 DEF JoinStderr
  <2>11. CASE JoinReader
    BY <2>11 DEF JoinReader, Unlock
  <2> QED
    BY <1>7, <2>1, <2>2, <2>3, <2>4, <2>5, <2>6, <2>7, <2>8, <2>9, <2>10, <2>11 DEF OwnerStep
<1>8. CASE ThreadStep \/ StderrThread \/ Interrupt \/ ChildStep \/ UNCHANGED vars
  BY <1>3, <1>8 DEF ThreadStep, ThreadRead, ThreadPut, StderrThread, Interrupt, ChildStep
<1> QED
  BY <1>5, <1>6, <1>7, <1>8 DEF Next

-----------------------------------------------------------------------------
(* The calls, one after the other.                                         *)

(* Nobody starts a call or returns from one.                               *)
LEMMA OrderSame ==
  ASSUME OrderInv, UNCHANGED <<issued, outcome>>, pc' \in Calling <=> pc \in Calling
  PROVE  OrderInv'
BY DEF OrderInv

(* A call returns.                                                         *)
LEMMA OrderReturn ==
  ASSUME TypeOK, OrderInv, pc \in Calling, NEW k \in Outcomes \ {"none", "pending"}, NEW r,
         Return(k, r), UNCHANGED issued, pc' \notin Calling
  PROVE  OrderInv'
<1>1. /\ outcome'[issued].kind = k
      /\ \A i \in Ids \ {issued} : outcome'[i] = outcome[i]
  BY DEF Return, TypeOK, OrderInv
<1> QED
  BY <1>1 DEF OrderInv, Ids, TypeOK

(* A new call is admitted or refused.                                      *)
LEMMA OrderNew ==
  ASSUME TypeOK, OrderInv, pc \notin Calling, issued < MaxRequests,
         issued' = issued + 1, NEW k \in {"pending", "closed"},
         outcome' = [outcome EXCEPT ![issued + 1] = [re |-> 0, kind |-> k]],
         k = "pending" <=> pc' \in Calling
  PROVE  OrderInv'
<1>1. issued \in Nat /\ issued + 1 \in Ids
  BY MaxRequestsAssumption DEF TypeOK, Ids
<1>2. /\ outcome'[issued + 1].kind = k
      /\ \A i \in Ids \ {issued + 1} : outcome'[i] = outcome[i]
  BY <1>1 DEF TypeOK
<1>3. ASSUME NEW i \in Ids
      PROVE  /\ i > issued' => outcome'[i].kind = "none"
             /\ i <= issued' => outcome'[i].kind # "none"
             /\ outcome'[i].kind = "pending" <=> i = issued' /\ pc' \in Calling
  <2>1. CASE i = issued + 1
    BY <1>1, <1>2, <2>1
  <2>2. CASE i # issued + 1
    BY <1>1, <1>2, <2>2 DEF OrderInv, Ids
  <2> QED
    BY <2>1, <2>2
<1> QED
  BY <1>1, <1>3 DEF OrderInv

(* The owner lets go of the lock, or goes on: not with a call.             *)
LEMMA UnlockLeaves ==
  ASSUME Unlock \/ BeginTeardown
  PROVE  pc' \notin Calling
BY DEF Unlock, BeginTeardown, Calling

LEMMA OrderStep ==
  ASSUME TypeOK, StageInv, OrderInv, [Next]_vars
  PROVE  OrderInv'
<1>1. ASSUME UNCHANGED <<pc, issued, outcome>>
      PROVE  OrderInv'
  BY <1>1, OrderSame
<1>2. CASE SetTimeout
  BY <1>1, <1>2 DEF SetTimeout
<1>3. ASSUME NEW c \in Callers, User(c) \/ OverwriteClose(c)
      PROVE  OrderInv'
  <2>1. CASE CallRefused(c)
    BY <2>1, OrderNew DEF CallRefused, Free, Calling
  <2>2. CASE CallStart(c)
    BY <2>2, OrderNew DEF CallStart, Admit, Free, Calling
  <2>3. CASE CloseStart(c)
    BY <2>3, OrderSame DEF CloseStart, Free, Calling
  <2>4. CASE UNCHANGED <<pc, issued, outcome>>
    BY <1>1, <2>4
  <2> QED
    BY <1>3, <2>1, <2>2, <2>3, <2>4 DEF User, Close, OverwriteClose, UserClears
<1>4. ASSUME pc \in Calling, NEW k \in Outcomes \ {"none", "pending"}, NEW r,
             Return(k, r), UNCHANGED issued, Unlock \/ BeginTeardown
      PROVE  OrderInv'
  BY <1>4, OrderReturn, UnlockLeaves
<1>5. {"io", "timeout"} \subseteq Outcomes \ {"none", "pending"}
  BY DEF Outcomes
<1>6. CASE CallWrite \/ CallFlush
  <2>1. pc \in Calling /\ UNCHANGED issued
    BY <1>6 DEF CallWrite, CallFlush, Calling
  <2>2. CASE Return("io", 0) /\ Unlock
    BY <1>4, <1>5, <2>1, <2>2
  <2>3. CASE pc' \in {"flush", "read"} /\ UNCHANGED outcome
    BY <2>1, <2>3, OrderSame DEF Calling
  <2> QED
    BY <1>6, <2>2, <2>3 DEF CallWrite, CallFlush
<1>7. CASE CallAnswered
  <2>1. Decoded(slot) \in Outcomes \ {"none", "pending"}
    BY DEF Decoded, Outcomes, Answered
  <2>2. pc \in Calling /\ Return(Decoded(slot), slot.id) /\ Unlock /\ UNCHANGED issued
    BY <1>7 DEF CallAnswered, Calling
  <2> HIDE DEF Return, Unlock, Decoded
  <2> QED
    BY <1>4, <2>1, <2>2
<1>8. CASE CallFailed \/ CallTimedOut
  BY <1>4, <1>5, <1>8 DEF CallFailed, CallTimedOut, Calling
<1>9. CASE \/ HelloAccepted \/ HelloFailed \/ CloseWrite \/ CloseFlush \/ CloseRead
           \/ Terminate \/ Kill \/ Reaped \/ JoinStderr \/ JoinReader
  <2>1. /\ pc \notin Calling /\ UNCHANGED <<issued, outcome>>
        /\ \/ Unlock \/ BeginTeardown
           \/ pc' \in {"unlocked", "closeFlush", "closeRead", "terminated", "killed",
                       "joinStderr", "joinReader"}
    BY <1>9
       DEF HelloAccepted, HelloFailed, CloseWrite, CloseFlush, CloseRead, Terminate, Kill, Signal,
           Reaped, JoinStderr, JoinReader, Calling
  <2> QED
    BY <2>1, UnlockLeaves, OrderSame DEF Calling
<1>10. CASE ThreadStep \/ StderrThread \/ Interrupt \/ ChildStep \/ UNCHANGED vars
  BY <1>1, <1>10 DEF ThreadStep, ThreadRead, ThreadPut, StderrThread, Interrupt, ChildStep
<1> QED
  BY <1>2, <1>3, <1>6, <1>7, <1>8, <1>9, <1>10 DEF Next, OwnerStep

-----------------------------------------------------------------------------
(* What is on its way.                                                     *)

HeldInv == thread # "putting" => held = NoItem

LEMMA Lengths ==
  ASSUME TypeOK
  PROVE  /\ toChild \in Seq(Request) /\ fromChild \in Seq(Line)
         /\ Len(toChild) \in Nat /\ Len(fromChild) \in Nat
         /\ Len(toChild) = 0 <=> toChild = <<>>
         /\ Len(fromChild) = 0 <=> fromChild = <<>>
         /\ Count(held) \in {0, 1} /\ Count(slot) \in {0, 1}
         /\ Count(held) = 0 <=> ~Carries(held)
         /\ Count(slot) = 0 <=> ~Carries(slot)
         /\ InFlight \in Nat
<1>1. toChild \in Seq(Request) /\ fromChild \in Seq(Line)
  BY DEF TypeOK, ChildTypeOK
<1>2. /\ Len(toChild) \in Nat /\ Len(fromChild) \in Nat
      /\ Len(toChild) = 0 <=> toChild = <<>>
      /\ Len(fromChild) = 0 <=> fromChild = <<>>
  BY <1>1, EmptySeq
<1>3. /\ Count(held) \in {0, 1} /\ Count(slot) \in {0, 1}
      /\ Count(held) = 0 <=> ~Carries(held)
      /\ Count(slot) = 0 <=> ~Carries(slot)
  BY DEF Count
<1>4. InFlight \in Nat
  BY <1>2, <1>3 DEF InFlight
<1> QED
  BY <1>1, <1>2, <1>3, <1>4

(* If one item at most is on its way, the one in the queue is alone, and   *)
(* so is one in the pipe to the server.                                    *)
LEMMA Alone ==
  ASSUME TypeOK, InFlight <= 1
  PROVE  /\ Carries(slot) => toChild = <<>> /\ fromChild = <<>> /\ ~Carries(held)
         /\ toChild # <<>> => fromChild = <<>> /\ ~Carries(held) /\ ~Carries(slot)
<1>1. /\ Len(toChild) \in Nat /\ Len(fromChild) \in Nat
      /\ Count(held) \in {0, 1} /\ Count(slot) \in {0, 1}
      /\ Len(toChild) + Len(fromChild) + Count(held) + Count(slot) <= 1
  BY Lengths DEF InFlight
<1>2. Count(slot) # 0 => Len(toChild) = 0 /\ Len(fromChild) = 0 /\ Count(held) = 0
  BY <1>1
<1>3. Len(toChild) # 0 => Len(fromChild) = 0 /\ Count(held) = 0 /\ Count(slot) = 0
  BY <1>1
<1> QED
  BY <1>2, <1>3, Lengths

(* A step after which no more is on its way than before, of no other       *)
(* request.                                                                *)
Flows ==
    /\ Live' => Live
    /\ InFlight' <= InFlight
    /\ \A i : AllOf(i) => AllOf(i)'
    /\ NothingInFlight => NothingInFlight'
    /\ child' = "booting" => child = "booting"
    /\ toChild = <<>> => toChild' = <<>>

LEMMA FlowsIdle ==
  ASSUME TypeOK, UNCHANGED <<slot, held, terminal, toChild, fromChild>>,
         child' = child \/ child' = "dead"
  PROVE  Flows
<1>1. InFlight' = InFlight /\ InFlight \in Nat
  BY Lengths DEF InFlight, Count, Carries
<1> QED
  BY <1>1 DEF Flows, Live, AllOf, Carries, NothingInFlight

LEMMA FlowsRead ==
  ASSUME TypeOK, HeldInv, ThreadRead
  PROVE  Flows /\ HeldInv'
<1>1. /\ thread = "reading" /\ held = NoItem
      /\ UNCHANGED <<child, toChild, slot, terminal>>
  BY DEF ThreadRead, HeldInv
<1>2. /\ Live' = Live /\ Count(slot)' = Count(slot) /\ Carries(slot)' = Carries(slot)
      /\ ~Carries(held) /\ Count(held) = 0
  BY <1>1 DEF Live, Count, Carries, NoItem
<1>3. CASE fromChild # <<>> /\ held' = Head(fromChild) /\ fromChild' = Tail(fromChild) /\ thread' = "putting"
  <2>1. /\ held' = fromChild[1] /\ fromChild[1] \in Line /\ Len(fromChild) > 0
        /\ Len(fromChild') = Len(fromChild) - 1
        /\ \A k \in 1..Len(fromChild') : fromChild'[k] = fromChild[k + 1]
    BY <1>3, Lengths
  <2>2. Carries(held)' /\ Count(held)' = 1
    BY <2>1 DEF Line, LineKinds, Carries, Count
  <2>3. InFlight' <= InFlight
    BY <1>1, <1>2, <2>1, <2>2, Lengths DEF InFlight
  <2>4. ASSUME NEW i, AllOf(i) PROVE AllOf(i)'
    <3>1. \A k \in 1..Len(fromChild') : k + 1 \in 1..Len(fromChild)
      BY <2>1, Lengths
    <3>2. \A k \in 1..Len(fromChild') : fromChild'[k].id = i
      BY <2>1, <2>4, <3>1 DEF AllOf
    <3>3. held'.id = i
      BY <2>1, <2>4, Lengths DEF AllOf
    <3> QED
      BY <1>1, <2>4, <3>2, <3>3 DEF AllOf, Carries
  <2> QED
    BY <1>1, <1>2, <1>3, <2>3, <2>4 DEF Flows, NothingInFlight, HeldInv
<1>4. CASE UNCHANGED fromChild /\ held' = EofItem /\ thread' = "putting"
  <2>1. ~Carries(held)' /\ Count(held)' = 0
    BY <1>1, <1>4 DEF Carries, Count, NoItem, EofItem
  <2>2. InFlight' <= InFlight
    BY <1>1, <1>2, <1>4, <2>1, Lengths DEF InFlight
  <2>3. \A i : AllOf(i) => AllOf(i)'
    BY <1>1, <1>2, <1>4, <2>1 DEF AllOf
  <2> QED
    BY <1>1, <1>2, <1>4, <2>1, <2>2, <2>3 DEF Flows, NothingInFlight, HeldInv
<1> QED
  BY <1>3, <1>4 DEF ThreadRead

LEMMA FlowsPut ==
  ASSUME TypeOK, ThreadPut
  PROVE  Flows /\ HeldInv'
<1>1. /\ slot = NoItem /\ slot' = held /\ held' = NoItem
      /\ UNCHANGED <<child, toChild, fromChild, terminal>>
  BY DEF ThreadPut
<1>2. /\ ~Carries(slot) /\ Count(slot) = 0 /\ ~Carries(held)' /\ Count(held)' = 0
      /\ Carries(slot)' = Carries(held) /\ Count(slot)' = Count(held)
  BY <1>1 DEF Carries, Count, NoItem
<1>3. InFlight' <= InFlight
  BY <1>1, <1>2, Lengths DEF InFlight
<1>4. \A i : AllOf(i) => AllOf(i)'
  BY <1>1, <1>2 DEF AllOf
<1>5. Live' => Live
  BY <1>1 DEF Live, NoItem, Terminals
<1> QED
  BY <1>1, <1>2, <1>3, <1>4, <1>5 DEF Flows, NothingInFlight, HeldInv

LEMMA FlowsSaid ==
  ASSUME TypeOK, NEW line, Says(line), UNCHANGED readerVars, child # "booting"
  PROVE  Flows
<1>1. /\ line \in Line /\ fromChild' = Append(fromChild, line)
      /\ child = "serving" /\ child' \in {"serving", "leaving"}
      /\ toChild # <<>> /\ line.id = toChild[1].id /\ toChild' = Tail(toChild)
  BY DEF Says
<1>2. /\ Len(fromChild') = Len(fromChild) + 1 /\ fromChild'[Len(fromChild) + 1] = line
      /\ \A k \in 1..Len(fromChild) : fromChild'[k] = fromChild[k]
  BY <1>1, Lengths, Appended
<1>3. /\ Len(toChild) > 0 /\ Len(toChild') = Len(toChild) - 1
      /\ \A k \in 1..Len(toChild') : toChild'[k] = toChild[k + 1]
  BY <1>1, Lengths
<1>4. /\ Live' = Live /\ Count(slot)' = Count(slot) /\ Count(held)' = Count(held)
      /\ Carries(slot)' = Carries(slot) /\ Carries(held)' = Carries(held)
  BY DEF Live, Count, Carries
<1>5. InFlight' <= InFlight
  BY <1>2, <1>3, <1>4, Lengths DEF InFlight
<1>6. ASSUME NEW i, AllOf(i) PROVE AllOf(i)'
  <2>1. \A k \in 1..Len(toChild') : toChild'[k].id = i
    <3>1. \A k \in 1..Len(toChild') : k + 1 \in 1..Len(toChild)
      BY <1>3, Lengths
    <3> QED
      BY <1>3, <1>6, <3>1 DEF AllOf
  <2>2. line.id = i
    BY <1>1, <1>3, <1>6, Lengths DEF AllOf
  <2>3. \A k \in 1..Len(fromChild') : fromChild'[k].id = i
    <3>1. \A k \in 1..Len(fromChild') : k \in 1..Len(fromChild) \/ k = Len(fromChild) + 1
      BY <1>2, Lengths
    <3> QED
      BY <1>2, <1>6, <2>2, <3>1 DEF AllOf
  <2> QED
    BY <1>4, <1>6, <2>1, <2>3 DEF AllOf
<1> QED
  BY <1>1, <1>4, <1>5, <1>6 DEF Flows, NothingInFlight

(* The session goes on, and whatever it starts finds nothing on its way.   *)
LEMMA FlightKept ==
  ASSUME TypeOK, FlightInv, HeldInv', Flows, gaveUp \subseteq gaveUp',
         pc' = "hello" => pc = "hello",
         pc' = "write" \/ (pc' = "unlocked" /\ ~closed') =>
             pc = "write" \/ (pc = "unlocked" /\ ~closed),
         pc' \in {"flush", "read"} => pc \in {"flush", "read"} /\ UNCHANGED issued
  PROVE  FlightInv'
<1> USE DEF FlightInv, Flows
<1>1. InFlight' \in Nat
  <2>1. Count(held)' \in {0, 1} /\ Count(slot)' \in {0, 1}
    BY DEF Count
  <2> QED
    BY <2>1 DEF InFlight
<1>2. ASSUME Live', "interrupt" \notin gaveUp'
      PROVE  Live /\ "interrupt" \notin gaveUp
  BY <1>2
<1>3. ASSUME Live', "interrupt" \notin gaveUp'
      PROVE  /\ pc' = "hello" => /\ InFlight' <= 1 /\ toChild' = <<>>
                                 /\ child' = "booting" => InFlight' = 0
             /\ pc' = "write" \/ (pc' = "unlocked" /\ ~closed') => NothingInFlight'
  BY <1>1, <1>2, <1>3, Lengths
<1>4. ASSUME Live', "interrupt" \notin gaveUp', pc' \in {"flush", "read"}
      PROVE  child' # "booting" /\ InFlight' <= 1 /\ AllOf(issued)'
  <2>1. PICK i : i = issued
    OBVIOUS
  <2>2. child # "booting" /\ InFlight <= 1 /\ AllOf(i) /\ issued' = i
    BY <1>2, <1>4, <2>1
  <2>3. child' # "booting" /\ InFlight' <= 1 /\ AllOf(i)'
    BY <1>1, <2>2, Lengths
  <2>4. AllOf(issued)'
    BY <2>2, <2>3 DEF AllOf
  <2> QED
    BY <2>3, <2>4
<1> QED
  BY <1>3, <1>4 DEF HeldInv

(* Nothing of the session moves.                                           *)
LEMMA FlightData ==
  ASSUME TypeOK, FlightInv, HeldInv', Flows, UNCHANGED <<pc, issued, closed, gaveUp>>
  PROVE  FlightInv'
BY FlightKept

(* Nothing is expected of the server, or what comes is not told apart any  *)
(* more.                                                                   *)
LEMMA FlightQuiet ==
  ASSUME HeldInv',
         \/ pc' \in Closing \cup Stages \cup {"gone"} \/ (pc' = "unlocked" /\ closed')
         \/ ~Live' \/ "interrupt" \in gaveUp'
  PROVE  FlightInv'
BY DEF FlightInv, HeldInv, Closing, Stages

(* The server says something.                                              *)
LEMMA FlightSaid ==
  ASSUME TypeOK, StageInv, FlightInv, NEW line, Says(line),
         UNCHANGED <<sessionVars, flagVars, gaveUp, transportVars, readerVars>>
  PROVE  FlightInv'
<1>1. HeldInv'
  BY DEF FlightInv, HeldInv
<1>2. CASE child # "booting"
  BY <1>1, <1>2, FlowsSaid, FlightData
<1>3. CASE child = "booting"
  <2>1. /\ child' = "serving" /\ UNCHANGED toChild /\ fromChild' = Append(fromChild, line)
        /\ line \in Line
    BY <1>3 DEF Says
  <2>2. InFlight' = InFlight + 1
    <3>1. Len(fromChild') = Len(fromChild) + 1
      BY <2>1, Lengths, Appended
    <3>2. Count(held)' = Count(held) /\ Count(slot)' = Count(slot)
      BY DEF Count, Carries
    <3> QED
      BY <2>1, <3>1, <3>2, Lengths DEF InFlight
  <2>3. Live' = Live
    BY DEF Live
  <2>4. ASSUME Live, "interrupt" \notin gaveUp
        PROVE  /\ pc = "hello" => InFlight' <= 1 /\ toChild' = <<>>
               /\ pc \notin {"write", "flush", "read"} /\ ~(pc = "unlocked" /\ ~closed)
    BY <1>3, <2>1, <2>2, <2>4 DEF FlightInv, NothingInFlight
  <2> QED
    BY <1>1, <2>1, <2>3, <2>4 DEF FlightInv, HeldInv
<1> QED
  BY <1>2, <1>3

(* A read leaves the reader thread alone; at the terminal item no line     *)
(* comes any more, and an interrupt is not forgotten.                      *)
LEMMA ReadKeeps ==
  ASSUME FlightInv, Reads
  PROVE  /\ HeldInv' /\ UNCHANGED <<held, thread>>
         /\ GotTerminal => ~Live'
         /\ ReadInterrupted => "interrupt" \in gaveUp'
BY DEF Reads, GotLine, GotTerminal, Expired, ReadInterrupted, GaveUp, FlightInv, HeldInv, Live,
       Terminals

(* A call returns, with nothing on its way or with nothing to be said.     *)
LEMMA FlightReturn ==
  ASSUME HeldInv', pc' = "unlocked", Live' => NothingInFlight'
  PROVE  FlightInv'
BY DEF FlightInv, HeldInv

LEMMA FlightCall ==
  ASSUME TypeOK, StageInv, FlightInv, CallWrite \/ CallFlush \/ CallAnswered \/ CallFailed
  PROVE  FlightInv'
<1>1. pc \in Calling /\ ~closed /\ owner \notin {"open", "free"}
  BY DEF CallWrite, CallFlush, CallAnswered, CallFailed, Calling, StageInv, Stages
<1>2. Unlock => pc' = "unlocked"
  BY <1>1 DEF Unlock
<1>3. CASE "interrupt" \in gaveUp'
  BY <1>3, ReadKeeps, FlightQuiet
     DEF CallWrite, CallFlush, CallAnswered, CallFailed, Reads, FlightInv, HeldInv
<1>4. CASE CallWrite /\ "interrupt" \notin gaveUp'
  <2>1. /\ pc = "write" /\ UNCHANGED <<child, fromChild, issued, gaveUp, readerVars>> /\ HeldInv'
        /\ Live' = Live /\ (Live => NothingInFlight)
    BY <1>4 DEF CallWrite, FlightInv, HeldInv, Live
  <2>2. CASE WriteFails
    <3>1. pc' = "unlocked" /\ UNCHANGED toChild
      BY <1>2, <1>4, <2>2 DEF CallWrite
    <3>2. Live' => NothingInFlight'
      BY <2>1, <3>1 DEF NothingInFlight, Carries
    <3> QED
      BY <2>1, <3>1, <3>2, FlightReturn
  <2>3. CASE ~WriteFails
    <3>1. /\ toChild' = Append(toChild, [op |-> op, id |-> issued]) /\ child # "dead"
          /\ pc' = "flush"
      BY <1>4, <2>3 DEF CallWrite, WriteFails
    <3>2. ASSUME Live PROVE child # "booting" /\ InFlight' <= 1 /\ AllOf(issued)'
      <4>1. /\ toChild = <<>> /\ fromChild = <<>> /\ ~Carries(held) /\ ~Carries(slot)
            /\ child # "booting"
        BY <2>1, <3>1, <3>2 DEF NothingInFlight
      <4>2. toChild' = <<[op |-> op, id |-> issued]>>
        BY <3>1, <4>1
      <4>3. Len(toChild') = 1 /\ Len(fromChild') = 0 /\ toChild'[1].id = issued
        BY <2>1, <4>1, <4>2
      <4>4. ~Carries(held)' /\ ~Carries(slot)' /\ Count(held)' = 0 /\ Count(slot)' = 0
        BY <2>1, <4>1 DEF Carries, Count
      <4> QED
        BY <2>1, <4>1, <4>3, <4>4 DEF InFlight, AllOf
    <3> QED
      BY <2>1, <3>1, <3>2 DEF FlightInv, HeldInv
  <2> QED
    BY <2>2, <2>3
<1>5. CASE CallFlush /\ "interrupt" \notin gaveUp'
  <2>1. /\ pc = "flush" /\ UNCHANGED <<childVars, issued, closed, gaveUp, readerVars>> /\ HeldInv'
        /\ Live' = Live /\ (Live => InFlight <= 1 /\ AllOf(issued) /\ child # "booting")
    BY <1>5 DEF CallFlush, FlightInv, HeldInv, Live
  <2>2. CASE pc' = "read"
    BY <2>1, <2>2, FlowsIdle, FlightKept
  <2>3. CASE Len(toChild) > room /\ child = "dead" /\ Unlock
    <3>1. toChild # <<>>
      BY <2>3 DEF TypeOK, ChildTypeOK
    <3>2. Live => NothingInFlight
      BY <2>1, <2>3, <3>1, Alone DEF NothingInFlight
    <3>3. Live' => NothingInFlight'
      BY <2>1, <3>2 DEF NothingInFlight, Carries
    <3> QED
      BY <1>2, <2>1, <2>3, <3>3, FlightReturn
  <2> QED
    BY <1>5, <2>2, <2>3 DEF CallFlush
<1>6. CASE CallAnswered /\ "interrupt" \notin gaveUp'
  <2>1. /\ pc = "read" /\ terminal = "none" /\ slot # NoItem /\ slot.kind \notin Terminals
        /\ slot' = NoItem /\ UNCHANGED <<childVars, held, terminal, thread, gaveUp>>
    BY <1>6 DEF CallAnswered, GotLine
  <2>2. Live /\ InFlight <= 1 /\ Carries(slot) /\ child # "booting"
    BY <1>6, <2>1 DEF Live, FlightInv, TypeOK, Items, LineKinds, Carries, Terminals
  <2>3. toChild = <<>> /\ fromChild = <<>> /\ ~Carries(held)
    BY <2>2, Alone
  <2>4. NothingInFlight' /\ HeldInv'
    BY <2>1, <2>2, <2>3 DEF NothingInFlight, Carries, NoItem, HeldInv, FlightInv
  <2> QED
    BY <1>2, <1>6, <2>4, FlightReturn DEF CallAnswered
<1>7. CASE CallFailed /\ "interrupt" \notin gaveUp'
  <2>1. HeldInv' /\ ~Live'
    BY <1>7, ReadKeeps DEF CallFailed, Reads
  <2> QED
    BY <2>1, FlightQuiet
<1> QED
  BY <1>3, <1>4, <1>5, <1>6, <1>7

LEMMA FlightStep ==
  ASSUME TypeOK, StageInv, StageInv', FlightInv, [Next]_vars
  PROVE  FlightInv'
<1>1. HeldInv
  BY DEF FlightInv, HeldInv
<1>2. ASSUME UNCHANGED <<slot, held, terminal, thread, toChild, fromChild>>,
             child' = child \/ child' = "dead"
      PROVE  Flows /\ HeldInv'
  BY <1>1, <1>2, FlowsIdle DEF HeldInv
<1>3. ASSUME NEW c \in Callers, User(c) \/ OverwriteClose(c)
      PROVE  FlightInv'
  <2>1. Flows /\ HeldInv' /\ UNCHANGED gaveUp
    BY <1>2, <1>3
       DEF User, CallRefused, CallStart, Admit, Close, CloseStart, UserClears, OverwriteClose
  <2>2. CASE CallStart(c)
    BY <2>1, <2>2, FlightKept DEF CallStart, Admit, Free
  <2>3. CASE CloseStart(c)
    BY <2>1, <2>3, FlightQuiet DEF CloseStart, Closing
  <2>4. CASE UNCHANGED <<pc, closed>> /\ pc \notin {"flush", "read"}
    BY <2>1, <2>4, FlightKept
  <2>5. CASE UserClears(c)
    BY <2>1, <2>5, FlightData DEF UserClears
  <2> QED
    BY <1>3, <2>2, <2>3, <2>4, <2>5
       DEF User, Close, OverwriteClose, CallRefused, Free
<1>4. CASE HelloAccepted
  <2>1. /\ pc = "hello" /\ pc' = "unlocked" /\ terminal = "none" /\ slot.kind = "hello"
        /\ slot' = NoItem /\ UNCHANGED <<childVars, held, thread, terminal, gaveUp>>
    BY <1>4 DEF HelloAccepted, GotLine
  <2>2. HeldInv'
    BY <1>1, <2>1 DEF HeldInv
  <2>3. CASE "interrupt" \in gaveUp
    BY <2>1, <2>2, <2>3, FlightQuiet
  <2>4. CASE "interrupt" \notin gaveUp
    <3>1. Live /\ Carries(slot) /\ InFlight <= 1 /\ (child = "booting" => InFlight = 0)
      BY <2>1, <2>4 DEF Live, Terminals, Carries, FlightInv
    <3>2. toChild = <<>> /\ fromChild = <<>> /\ ~Carries(held)
      BY <3>1, Alone
    <3>3. child # "booting"
      BY <3>1, Lengths DEF InFlight
    <3>4. NothingInFlight'
      BY <2>1, <3>2, <3>3 DEF NothingInFlight, Carries, NoItem
    <3> QED
      BY <2>1, <2>2, <3>4, FlightReturn
  <2> QED
    BY <2>3, <2>4
<1>5. CASE HelloFailed \/ CallTimedOut \/ CloseRead
  <2>1. HeldInv'
    BY <1>5, ReadKeeps DEF HelloFailed, CallTimedOut, CloseRead, Reads
  <2>2. pc' = "stdinClosed"
    BY <1>5, Entering DEF HelloFailed, CallTimedOut, CloseRead, Calling, Closing
  <2> QED
    BY <2>1, <2>2, FlightQuiet DEF Stages
<1>6. CASE CallWrite \/ CallFlush \/ CallAnswered \/ CallFailed
  BY <1>6, FlightCall
<1>7. CASE CloseWrite \/ CloseFlush
  <2>1. HeldInv'
    BY <1>1, <1>7 DEF CloseWrite, CloseFlush, HeldInv
  <2>2. pc' \in {"stdinClosed", "closeFlush", "closeRead"}
    BY <1>7, Entering DEF CloseWrite, CloseFlush, Closing
  <2> QED
    BY <2>1, <2>2, FlightQuiet DEF Stages, Closing
<1>8. CASE Terminate \/ Kill \/ Reaped \/ JoinStderr \/ JoinReader
  <2>1. HeldInv'
    BY <1>1, <1>8 DEF Terminate, Kill, Signal, Reaped, JoinStderr, JoinReader, HeldInv
  <2>2. pc' \in Stages \cup {"gone"} \/ (pc' = "unlocked" /\ closed')
    BY <1>8 DEF Terminate, Kill, Signal, Reaped, JoinStderr, JoinReader, Unlock, Stages, StageInv
  <2> QED
    BY <2>1, <2>2, FlightQuiet
<1>9. CASE ThreadStep
  <2>1. Flows /\ HeldInv'
    BY <1>1, <1>9, FlowsRead, FlowsPut DEF ThreadStep
  <2> QED
    BY <1>9, <2>1, FlightData DEF ThreadStep, ThreadRead, ThreadPut
<1>10. CASE SetTimeout \/ StderrThread \/ Interrupt \/ UNCHANGED vars
  BY <1>2, <1>10, FlightData DEF SetTimeout, StderrThread, Interrupt
<1>11. CASE ChildStep
  <2>1. ChildTypeOK
    BY Types
  <2>2. CASE ChildDies \/ HolderReleases
    BY <1>2, <1>11, <2>2, FlightData DEF ChildStep, ChildDies, HolderReleases
  <2> QED
    BY <1>11, <2>1, <2>2, ChildSteps, FlightSaid DEF ChildStep
<1> QED
  BY <1>3, <1>4, <1>5, <1>6, <1>7, <1>8, <1>9, <1>10, <1>11 DEF Next, OwnerStep

-----------------------------------------------------------------------------
(* The invariant.                                                          *)

(* An answer is the one to the request, unless a read was interrupted.     *)
LEMMA OwnAnswerStep ==
  ASSUME TypeOK, FlightInv, OrderInv, OwnAnswerUninterrupted, [Next]_vars
  PROVE  OwnAnswerUninterrupted'
<1>1. gaveUp \subseteq gaveUp'
  BY DEF Next, SetTimeout, User, CallRefused, CallStart, Admit, Close, CloseStart, UserClears,
         OverwriteClose, OwnerStep, HelloAccepted, HelloFailed, CallWrite, CallFlush, CallAnswered,
         CallFailed, CallTimedOut, CloseWrite, CloseFlush, CloseRead, Terminate, Kill, Signal,
         Reaped, JoinStderr, JoinReader, GotLine, GotTerminal, Expired, ReadInterrupted, GaveUp,
         ThreadStep, ThreadRead, ThreadPut, StderrThread, Interrupt, ChildStep
<1>2. SUFFICES ASSUME "interrupt" \notin gaveUp' PROVE OwnAnswer'
  BY DEF OwnAnswerUninterrupted
<1>3. OwnAnswer /\ "interrupt" \notin gaveUp
  BY <1>1, <1>2 DEF OwnAnswerUninterrupted
<1>4. ASSUME UNCHANGED outcome PROVE OwnAnswer'
  BY <1>3, <1>4 DEF OwnAnswer
<1>5. ASSUME NEW i \in 1..MaxRequests, NEW r, NEW k, k \in Answered => r = i,
             outcome' = [outcome EXCEPT ![i] = [re |-> r, kind |-> k]]
      PROVE  OwnAnswer'
  <2>1. /\ outcome'[i] = [re |-> r, kind |-> k]
        /\ \A j \in Ids \ {i} : outcome'[j] = outcome[j]
    BY <1>5 DEF TypeOK, Ids
  <2> QED
    BY <1>3, <1>5, <2>1 DEF OwnAnswer
<1>6. ASSUME pc \in Calling, NEW r, NEW k, k \in Answered => r = issued, Return(k, r)
      PROVE  OwnAnswer'
  BY <1>5, <1>6 DEF Return, OrderInv, Ids
<1>7. ASSUME NEW c \in Callers, CallRefused(c) \/ CallStart(c)
      PROVE  OwnAnswer'
  <2>1. issued + 1 \in 1..MaxRequests
    BY <1>7, MaxRequestsAssumption DEF CallRefused, CallStart, Admit, TypeOK
  <2> QED
    BY <1>5, <1>7, <2>1 DEF CallRefused, CallStart, Admit, Answered
<1>8. CASE CallWrite \/ CallFlush \/ CallFailed \/ CallTimedOut
  BY <1>4, <1>6, <1>8 DEF CallWrite, CallFlush, CallFailed, CallTimedOut, Calling, Answered
<1>9. CASE CallAnswered
  <2>1. /\ pc = "read" /\ terminal = "none" /\ slot # NoItem /\ slot.kind \notin Terminals
        /\ Return(Decoded(slot), slot.id)
    BY <1>9 DEF CallAnswered, GotLine
  <2>2. Live /\ Carries(slot)
    BY <2>1 DEF Live, TypeOK, Items, LineKinds, Carries, Terminals
  <2>3. slot.id = issued /\ pc \in Calling
    BY <1>3, <2>1, <2>2 DEF FlightInv, AllOf, Calling
  <2> HIDE DEF Return, Decoded
  <2> QED
    BY <1>6, <2>1, <2>3
<1>10. CASE UNCHANGED outcome
  BY <1>4, <1>10
<1> QED
  BY <1>7, <1>8, <1>9, <1>10
     DEF Next, SetTimeout, User, Close, CloseStart, UserClears, OverwriteClose, OwnerStep,
         HelloAccepted, HelloFailed, CloseWrite, CloseFlush, CloseRead, Terminate, Kill, Signal,
         Reaped, JoinStderr, JoinReader, ThreadStep, ThreadRead, ThreadPut, StderrThread,
         Interrupt, ChildStep

LEMMA InvInit == Init => IInv
<1> SUFFICES ASSUME Init PROVE IInv
  OBVIOUS
<1>1. ChildTypeOK
  BY RoomAssumption, HolderAssumption DEF Init, ChildInit, ChildTypeOK
<1>2. SessionTypeOK
  <2>1. [re |-> 0, kind |-> "none"] \in [re : 0..MaxRequests, kind : Outcomes]
    BY MaxRequestsAssumption DEF Outcomes
  <2>2. outcome \in [Ids -> [re : 0..MaxRequests, kind : Outcomes]]
    BY <2>1 DEF Init
  <2>3. issued \in 0..MaxRequests /\ owes \subseteq Callers
    BY MaxRequestsAssumption DEF Init
  <2>4. owner \in Callers \cup {"open", "free"} /\ pc \in Labels /\ op \in {"call", "overwrite"}
    BY DEF Init, Labels
  <2>5. closed \in BOOLEAN /\ bounded \in BOOLEAN
    BY DEF Init
  <2> QED
    BY <2>2, <2>3, <2>4, <2>5 DEF SessionTypeOK
<1>3. FlagTypeOK /\ TransportTypeOK /\ ReaderTypeOK
  BY StderrAssumption DEF Init, FlagTypeOK, TransportTypeOK, ReaderTypeOK
<1>4. StageInv
  BY DEF Init, StageInv, Calling, Closing, Stages
<1>5. FlightInv
  <2>1. InFlight = 0
    BY DEF Init, ChildInit, InFlight, Count, Carries, NoItem
  <2> QED
    BY <2>1 DEF Init, ChildInit, FlightInv
<1>6. OrderInv
  BY DEF Init, OrderInv, Calling, Ids
<1>7. OwnAnswerUninterrupted /\ ReleasedAtRest
  BY DEF Init, OwnAnswerUninterrupted, OwnAnswer, Answered, ReleasedAtRest, AtRest, Free
<1> QED
  BY <1>1, <1>2, <1>3, <1>4, <1>5, <1>6, <1>7, Types DEF IInv

LEMMA InvStep == IInv /\ [Next]_vars => IInv'
  BY TypeStep, StageStep, FlightStep, OrderStep, OwnAnswerStep DEF IInv

(* Every behaviour of the session over its transport keeps the invariant.  *)
THEOREM InductiveInvariant == Spec => []IInv
  BY InvInit, InvStep, PTL DEF Spec

(* Every variable keeps its type.                                          *)
THEOREM TypeCorrect == Spec => []TypeOK
<1>1. IInv => TypeOK
  BY DEF IInv
<1> QED
  BY <1>1, InductiveInvariant, PTL

(* As long as no read was interrupted, a caller gets the response to its   *)
(* own request or none, whatever else happens to the session: what         *)
(* Session.call claims for every error.                                    *)
THEOREM OwnAnswerHolds == Spec => []OwnAnswerUninterrupted
<1>1. IInv => OwnAnswerUninterrupted
  BY DEF IInv
<1> QED
  BY <1>1, InductiveInvariant, PTL

(* Interrupted or not, DirectTransport.close has reaped the child, kept    *)
(* its exit code and given up its pipes and its reader when it returns.    *)
THEOREM ReleasedHolds == Spec => []ReleasedAtRest
<1>1. IInv => ReleasedAtRest
  BY DEF IInv
<1> QED
  BY <1>1, InductiveInvariant, PTL

-----------------------------------------------------------------------------
(* Refinement: every step of the session maps to a step of the serial      *)
(* connection or leaves its state alone.                                   *)

AbstractStatuses == [i \in Ids |-> Meaning[outcome[i].kind]]

(* Its requests are the ids of the session.                                *)
LEMMA AbstractState == Connection!Requests = Ids
  BY DEF Connection!Requests, Ids

(* The next request is new, and all before it are done with.               *)
LEMMA PhaseOrder ==
  ASSUME TypeOK, OrderInv, issued < MaxRequests, pc \notin Calling
  PROVE  /\ issued + 1 \in Ids
         /\ AbstractStatuses[issued + 1] = "new"
         /\ \A j \in Ids : j < issued + 1 => AbstractStatuses[j] \notin {"new", "pending"}
<1>1. issued + 1 \in Ids /\ issued \in Nat
  BY MaxRequestsAssumption DEF TypeOK, Ids
<1>2. outcome[issued + 1].kind = "none"
  BY <1>1 DEF OrderInv
<1>3. ASSUME NEW j \in Ids, j < issued + 1
      PROVE  outcome[j].kind \in Outcomes \ {"none", "pending"}
  BY <1>1, <1>3 DEF OrderInv, TypeOK, Ids
<1> QED
  BY <1>1, <1>2, <1>3 DEF AbstractStatuses, Meaning, Answered, Outcomes

(* One outcome changes, and with it one abstract status.                   *)
LEMMA OneStatus ==
  ASSUME TypeOK, NEW i \in Ids, NEW r, NEW k,
         outcome' = [outcome EXCEPT ![i] = [re |-> r, kind |-> k]]
  PROVE  AbstractStatuses' = [AbstractStatuses EXCEPT ![i] = Meaning[k]]
<1>1. outcome'[i].kind = k /\ \A j \in Ids \ {i} : outcome'[j] = outcome[j]
  BY DEF TypeOK
<1>2. \A j \in Ids : Meaning[outcome'[j].kind] =
                      IF j = i THEN Meaning[k] ELSE Meaning[outcome[j].kind]
  BY <1>1
<1>3. AbstractStatuses' = [j \in Ids |-> Meaning[outcome'[j].kind]]
  BY DEF AbstractStatuses
<1>4. [AbstractStatuses EXCEPT ![i] = Meaning[k]]
        = [j \in Ids |-> IF j = i THEN Meaning[k] ELSE Meaning[outcome[j].kind]]
  BY DEF AbstractStatuses
<1> QED
  BY <1>2, <1>3, <1>4

(* A call returns.                                                         *)
LEMMA FinalStatus ==
  ASSUME TypeOK, OrderInv, pc \in Calling, NEW k \in {"ok", "err", "bad", "io", "timeout"}, NEW r,
         Return(k, r)
  PROVE  /\ issued \in Ids
         /\ AbstractStatuses[issued] = "pending"
         /\ AbstractStatuses' = [AbstractStatuses EXCEPT ![issued] =
               IF k \in Answered THEN "answered" ELSE "failed"]
<1>1. issued \in Ids /\ outcome[issued].kind = "pending"
  BY DEF OrderInv
<1>2. AbstractStatuses[issued] = "pending"
  BY <1>1 DEF AbstractStatuses, Meaning
<1>3. Meaning[k] = IF k \in Answered THEN "answered" ELSE "failed"
  BY DEF Meaning, Answered
<1>4. outcome' = [outcome EXCEPT ![issued] = [re |-> r, kind |-> k]]
  BY DEF Return
<1>5. AbstractStatuses' = [AbstractStatuses EXCEPT ![issued] = Meaning[k]]
  BY <1>1, <1>4, OneStatus, Zenon
<1> QED
  BY <1>1, <1>2, <1>3, <1>5, Zenon

(* The initial state maps to the initial state.                            *)
LEMMA RefinementInit == Init => Connection!Init
<1> SUFFICES ASSUME Init PROVE Connection!Init
  OBVIOUS
<1>1. AbstractPhase = "opening"
  BY DEF Init, AbstractPhase
<1>2. \A i \in Ids : Meaning[outcome[i].kind] = "new"
  BY DEF Init, Meaning
<1> QED
  BY <1>1, <1>2, AbstractState DEF Connection!Init

LEMMA RefinementStep ==
  ASSUME IInv, [Next]_vars
  PROVE  [Connection!Next]_(Connection!vars)
<1> USE DEF IInv
<1>1. ASSUME UNCHANGED <<AbstractPhase, outcome>>
      PROVE  [Connection!Next]_(Connection!vars)
  BY <1>1 DEF Connection!vars
<1>2. ASSUME AbstractPhase # "closed", AbstractPhase' = "closed", UNCHANGED outcome
      PROVE  Connection!Next
  BY <1>2 DEF Connection!Close, Connection!Next
<1>3. \A c \in Callers : c # "open" /\ c # "free"
  BY CallerIsThread
<1>4. CASE HelloAccepted
  <2>1. /\ AbstractPhase = "opening" /\ AbstractPhase' = "open" /\ UNCHANGED outcome
    BY <1>4 DEF HelloAccepted, StageInv, AbstractPhase
  <2> QED
    BY <2>1 DEF Connection!Open, Connection!Next
<1>5. CASE HelloFailed
  <2>1. AbstractPhase = "opening" /\ AbstractPhase' = "closed" /\ UNCHANGED outcome
    BY <1>5, Entering DEF HelloFailed, StageInv, AbstractPhase
  <2> QED
    BY <1>2, <2>1
<1>6. ASSUME NEW c \in Callers, User(c) \/ OverwriteClose(c)
      PROVE  [Connection!Next]_(Connection!vars)
  <2>1. CASE CallRefused(c)
    <3>1. /\ pc \notin Calling /\ issued < MaxRequests
          /\ AbstractPhase = "closed" /\ UNCHANGED AbstractPhase
          /\ outcome' = [outcome EXCEPT ![issued + 1] = [re |-> 0, kind |-> "closed"]]
      BY <2>1 DEF CallRefused, Free, Calling, AbstractPhase
    <3>2. PICK i \in Ids : i = issued + 1
      BY <3>1, PhaseOrder
    <3>3. AbstractStatuses' = [AbstractStatuses EXCEPT ![i] = Meaning["closed"]]
      BY <3>1, <3>2, OneStatus
    <3>4. Meaning["closed"] = "refused"
      BY DEF Meaning
    <3>5. Connection!Refuse(i)
      BY <3>1, <3>2, <3>3, <3>4, PhaseOrder, AbstractState
         DEF Connection!Refuse, Connection!Next1, AbstractStatuses
    <3> QED
      BY <3>5, AbstractState DEF Connection!Next
  <2>2. CASE CallStart(c)
    <3>1. /\ pc \notin Calling /\ issued < MaxRequests
          /\ AbstractPhase = "open" /\ UNCHANGED AbstractPhase
          /\ outcome' = [outcome EXCEPT ![issued + 1] = [re |-> 0, kind |-> "pending"]]
      BY <1>3, <2>2 DEF CallStart, Admit, Free, Calling, AbstractPhase
    <3>2. PICK i \in Ids : i = issued + 1
      BY <3>1, PhaseOrder
    <3>3. AbstractStatuses' = [AbstractStatuses EXCEPT ![i] = Meaning["pending"]]
      BY <3>1, <3>2, OneStatus
    <3>4. Meaning["pending"] = "pending"
      BY DEF Meaning
    <3>5. Connection!Submit(i)
      BY <3>1, <3>2, <3>3, <3>4, PhaseOrder, AbstractState
         DEF Connection!Submit, Connection!Next1, AbstractStatuses
    <3> QED
      BY <3>5, AbstractState DEF Connection!Next
  <2>3. CASE CloseStart(c)
    <3>1. AbstractPhase = "open" /\ AbstractPhase' = "closed" /\ UNCHANGED outcome
      BY <1>3, <2>3 DEF CloseStart, Free, AbstractPhase
    <3> QED
      BY <1>2, <3>1
  <2>4. CASE UNCHANGED <<owner, pc, closed, outcome>>
    BY <1>1, <2>4 DEF AbstractPhase
  <2> QED
    BY <1>6, <2>1, <2>2, <2>3, <2>4 DEF User, Close, OverwriteClose, UserClears
<1>7. ASSUME pc \in Calling, NEW k \in {"ok", "err", "bad", "io"}, NEW r,
             Return(k, r), Unlock, UNCHANGED closed
      PROVE  Connection!Next
  <2>1. AbstractPhase = "open" /\ UNCHANGED AbstractPhase
    BY <1>7 DEF StageInv, Stages, Calling, Unlock, AbstractPhase
  <2>2. /\ issued \in Ids /\ AbstractStatuses[issued] = "pending"
        /\ AbstractStatuses' = [AbstractStatuses EXCEPT ![issued] =
               IF k \in Answered THEN "answered" ELSE "failed"]
    BY <1>7, FinalStatus
  <2>3. PICK i \in Ids : i = issued
    BY <2>2
  <2>4. Connection!Answer(i) \/ Connection!Fail(i)
    BY <2>1, <2>2, <2>3 DEF Connection!Answer, Connection!Fail, AbstractStatuses
  <2> QED
    BY <2>4, AbstractState DEF Connection!Next
<1>8. CASE CallWrite \/ CallFlush \/ CallFailed
  <2>1. /\ pc \in Calling /\ UNCHANGED closed
        /\ \/ Return("io", 0) /\ Unlock
           \/ UNCHANGED <<owner, outcome>> /\ pc' \in {"flush", "read"}
    BY <1>8 DEF CallWrite, CallFlush, CallFailed, Calling
  <2>2. CASE UNCHANGED <<owner, outcome>> /\ pc' \in {"flush", "read"}
    BY <1>1, <2>1, <2>2 DEF AbstractPhase, Calling
  <2> QED
    BY <1>7, <2>1, <2>2
<1>9. CASE CallAnswered
  <2>1. pc \in Calling /\ Return(Decoded(slot), slot.id) /\ Unlock /\ UNCHANGED closed
    BY <1>9 DEF CallAnswered, Calling
  <2>2. Decoded(slot) \in {"ok", "err", "bad"}
    BY DEF Decoded
  <2> HIDE DEF Decoded, Return, Unlock
  <2> QED
    BY <1>7, <2>1, <2>2
<1>10. CASE CallTimedOut
  <2>1. pc \in Calling /\ Return("timeout", 0) /\ closed' /\ pc' = "stdinClosed"
    BY <1>10, Entering DEF CallTimedOut, Calling
  <2>2. /\ issued \in Ids /\ AbstractStatuses[issued] = "pending"
        /\ AbstractStatuses' = [AbstractStatuses EXCEPT ![issued] = "failed"]
    BY <2>1, FinalStatus DEF Answered
  <2>3. AbstractPhase = "open" /\ AbstractPhase' = "closed"
    BY <2>1 DEF AbstractPhase, StageInv, Stages, Calling
  <2> QED
    BY <2>2, <2>3, AbstractState DEF Connection!Close, Connection!Next, AbstractStatuses
<1>11. CASE \/ CloseWrite \/ CloseFlush \/ CloseRead
            \/ Terminate \/ Kill \/ Reaped \/ JoinStderr \/ JoinReader
  <2>1. /\ closed \/ owner = "open"
        /\ pc # "hello" /\ UNCHANGED <<closed, outcome>>
        /\ (UNCHANGED owner /\ pc' # "hello") \/ Unlock
    BY <1>11, Entering
       DEF CloseWrite, CloseFlush, CloseRead, Terminate, Kill, Signal, Reaped, JoinStderr,
           JoinReader, StageInv, Closing, Stages
  <2>2. AbstractPhase = "closed" /\ AbstractPhase' = "closed"
    BY <2>1 DEF AbstractPhase, StageInv, Stages, Unlock
  <2> QED
    BY <1>1, <2>1, <2>2
<1>12. CASE SetTimeout \/ ThreadStep \/ StderrThread \/ Interrupt \/ ChildStep \/ UNCHANGED vars
  <2>1. UNCHANGED <<owner, pc, closed, outcome>>
    BY <1>12 DEF SetTimeout, ThreadStep, ThreadRead, ThreadPut, StderrThread, Interrupt, ChildStep
  <2> QED
    BY <1>1, <2>1 DEF AbstractPhase
<1> QED
  BY <1>4, <1>5, <1>6, <1>8, <1>9, <1>10, <1>11, <1>12 DEF Next, OwnerStep

(* Session.lock over DirectTransport implements the serial connection:     *)
(* interrupted or not, any number of threads see a request at a time, in   *)
(* the order of the lock, and refusal once closed.                         *)
THEOREM Refinement == Spec => ImplementsConnection
<1>1. IInv /\ [Next]_vars => [Connection!Next]_(Connection!vars)
  BY RefinementStep
<1> QED
  BY <1>1, RefinementInit, InductiveInvariant, PTL
     DEF Spec, ImplementsConnection, Connection!Spec

=============================================================================
