----------------------- MODULE TypeScriptDirectProofs -----------------------
(***************************************************************************)
(* What holds of TypeScriptDirect for every number of requests, every pipe *)
(* and every order of events, with proofs.                                 *)
(*                                                                         *)
(* close() may put its op between the write and the read of a call, and    *)
(* its response then is behind the call's.  So it is not the number of     *)
(* lines on their way that matches responses to requests here, but their   *)
(* order: over the queue, the pipe from the server and the pipe to it, the *)
(* first is of the call in progress (NextIsOwn).  Until the session is     *)
(* closed there is no other, which is why the next call finds none.        *)
(***************************************************************************)
EXTENDS TypeScriptDirect, ChildProofs, WellFoundedInduction

(* Its request was handed to stdin.                                        *)
Written == {"writing", "reading"}

(* The line the call in progress is to be handed next is its own: the      *)
(* first one queued, or else the first in the pipe, or else the answer to  *)
(* the first request.                                                      *)
NextIsOwn ==
    IF queue # <<>> THEN queue[1].id = issued
    ELSE terminal = "none" =>
            IF fromChild # <<>> THEN fromChild[1].id = issued
            ELSE toChild # <<>> /\ toChild[1].id = issued

OnTheWay == Len(queue) + Len(fromChild) + Len(toChild)

(* Nothing that a later call could be handed.                              *)
NothingLeft == /\ queue = <<>>
               /\ terminal = "none" => /\ fromChild = <<>>
                                       /\ child # "dead" => toChild = <<>>

FlightInv ==
    /\ child = "booting" => fromChild = <<>> /\ queue = <<>> /\ pc \in {"hello", "refused"}
    /\ pc = "hello" => toChild = <<>> /\ Len(fromChild) <= 1
    /\ pc \in Written => NextIsOwn
    /\ pc \in Written /\ ~closed =>
          /\ terminal = "none" => OnTheWay = 1
          /\ queue # <<>> => Len(queue) = 1 /\ \A k \in 1..Len(toChild) : toChild[k].id # issued
    /\ pc \in {"idle", "unwritten"} /\ ~closed => NothingLeft

(* A paused stream has a reason to be.                                     *)
PausedInv == paused => queue # <<>> \/ terminal # "none"

(* What was closed has its transport closed, unless the close op is still  *)
(* being written.                                                          *)
StageInv ==
    /\ closer # "none" => closed
    /\ (closed \/ pc = "refused") /\ closer # "writing" => stage # "none"
    /\ stage # "none" => ~stdin
    /\ closeEvent \/ stage \in {"flush", "destroyed"} => exited
    /\ pc = "hello" => ~closed
    /\ pc = "refused" => ~closed

OrderInv ==
    /\ pc \in InCall => issued \in Ids
    /\ \A i \in Ids : /\ i > issued => outcome[i].kind = "none"
                      /\ i <= issued => outcome[i].kind # "none"
                      /\ outcome[i].kind = "pending" <=> i = issued /\ pc \in InCall

IInv == TypeOK /\ WaiterIsFed /\ PausedInv /\ FlightInv /\ StageInv /\ OrderInv

-----------------------------------------------------------------------------
(* Sequences.                                                              *)

(* The smallest of some natural numbers is one of them.                    *)
LEMMA MinIn == ASSUME NEW S, S \subseteq Nat, S # {} PROVE Min(S) \in S
<1>1. PICK x \in S : \A y \in S : ~ (<<y, x>> \in OpToRel(<, Nat))
  BY WFMin, NatLessThanWellFounded, Zenon
<1>2. \A y \in S : x <= y
  <2>1. OpToRel(<, Nat) = {ss \in Nat \X Nat : ss[1] < ss[2]}
    BY Zenon DEF OpToRel
  <2>2. \A y \in S : y < x => <<y, x>> \in {ss \in Nat \X Nat : ss[1] < ss[2]}
    BY SMT
  <2>3. \A y \in S : ~(y < x)
    BY <1>1, <2>1, <2>2, Zenon
  <2> QED
    BY <2>3, SMT
<1> QED
  BY <1>2 DEF Min

(* Where the first line that is too long is, if there is one.              *)
LEMMA FirstLong ==
  ASSUME NEW s \in Seq(Line)
  PROVE  SelectInSeq(s, IsLong) \in 0..Len(s)
<1> DEFINE I == {i \in 1..Len(s) : IsLong(s[i])}
<1>1. I # {} => Min(I) \in I
  BY MinIn
<1>2. SelectInSeq(s, IsLong) = IF I # {} THEN Min(I) ELSE 0
  BY DEF SelectInSeq
<1> QED
  BY <1>1, <1>2

-----------------------------------------------------------------------------
(* What StdoutData makes of a chunk of n lines, of which it keeps m.       *)

Keeps(m) ==
    /\ queue' \in Seq(Line) /\ Len(queue') = Len(queue) + m
    /\ queue # <<>> => queue'[1] = queue[1]
    /\ queue = <<>> /\ m > 0 => queue'[1] = fromChild[1]
    /\ pc \notin Waiting /\ NoClose /\ UNCHANGED callVars

Hands(m) ==
    /\ queue' \in Seq(Line) /\ Len(queue') = m - 1
    /\ pc \in Waiting /\ m > 0 /\ Resolve(fromChild[1])

Breaks ==
    /\ UNCHANGED queue /\ terminal' = "long"
    /\ pc \in Waiting /\ Reject

Chunk(n, m) ==
    /\ fromChild # <<>>
    /\ fromChild' \in Seq(Line) /\ Len(fromChild') <= Len(fromChild)
    /\ terminal' = "none" => Len(fromChild') = Len(fromChild) - n
    /\ terminal # "none" => m = 0 /\ terminal' = terminal
    /\ terminal = "none" => terminal' = IF m = n THEN "none" ELSE "long"
    /\ paused' \in BOOLEAN /\ (paused' => queue' # <<>> \/ terminal' # "none")
    /\ Keeps(m) \/ Hands(m) \/ Breaks
    /\ UNCHANGED <<child, toChild, holders, signal, room, closer, ended, stderr, closeEvent>>

(* The lines kept of a chunk are the first ones, up to a long one.         *)
KeptOf(chunk, m) ==
    /\ LinesOf(chunk) \in Seq(Line) /\ Len(LinesOf(chunk)) = m
    /\ m > 0 => LinesOf(chunk)[1] = chunk[1]
    /\ terminal # "none" => m = 0
    /\ terminal = "none" => (LinesOf(chunk) = chunk <=> m = Len(chunk))

LEMMA LinesKept ==
  ASSUME NEW chunk \in Seq(Line)
  PROVE  \E m \in 0..Len(chunk) : KeptOf(chunk, m)
<1> DEFINE k == SelectInSeq(chunk, IsLong)
<1>1. k \in 0..Len(chunk) /\ Len(chunk) \in Nat
  BY FirstLong
<1>2. LinesOf(chunk) = IF terminal # "none" THEN <<>>
                       ELSE IF k = 0 THEN chunk ELSE SubSeq(chunk, 1, k - 1)
  BY DEF LinesOf, Intact
<1> HIDE DEF k
<1>3. CASE terminal # "none"
  <2>1. LinesOf(chunk) = <<>>
    BY <1>2, <1>3
  <2>2. KeptOf(chunk, 0)
    BY <1>3, <2>1 DEF KeptOf
  <2> QED
    BY <1>1, <2>2
<1>4. CASE terminal = "none" /\ k = 0
  <2>1. LinesOf(chunk) = chunk
    BY <1>2, <1>4
  <2>2. KeptOf(chunk, Len(chunk))
    BY <1>4, <2>1 DEF KeptOf
  <2> QED
    BY <1>1, <2>2
<1>5. CASE terminal = "none" /\ k # 0
  <2>1. LinesOf(chunk) = SubSeq(chunk, 1, k - 1) /\ k - 1 \in 0..Len(chunk) /\ k - 1 # Len(chunk)
    BY <1>1, <1>2, <1>5
  <2>2. /\ LinesOf(chunk) \in Seq(Line) /\ Len(LinesOf(chunk)) = k - 1
        /\ k - 1 > 0 => LinesOf(chunk)[1] = chunk[1]
    BY <2>1, Parts
  <2>3. LinesOf(chunk) # chunk
    BY <2>1, <2>2
  <2>4. KeptOf(chunk, k - 1)
    BY <1>5, <2>1, <2>2, <2>3 DEF KeptOf
  <2> QED
    BY <2>1, <2>4
<1> QED
  BY <1>3, <1>4, <1>5

LEMMA Received ==
  ASSUME TypeOK, WaiterIsFed, StdoutData
  PROVE  \E n \in 1..Len(fromChild) : \E m \in 0..n : Chunk(n, m)
<1>1. PICK n \in Chunks, more \in BOOLEAN :
        LET chunk == SubSeq(fromChild, 1, n)
            lines == LinesOf(chunk)
            taken == pc \in Waiting /\ lines # <<>>
            broke == terminal = "none" /\ lines # chunk
        IN /\ fromChild' = SubSeq(fromChild, IF broke /\ more THEN n ELSE n + 1, Len(fromChild))
           /\ queue' = queue \o (IF taken THEN Tail(lines) ELSE lines)
           /\ terminal' = IF broke THEN "long" ELSE terminal
           /\ paused' = (terminal = "none" /\ (broke \/ queue' # <<>>))
           /\ \/ taken /\ Resolve(Head(lines))
              \/ ~taken /\ pc \in Waiting /\ broke /\ Reject
              \/ ~taken /\ ~(pc \in Waiting /\ broke) /\ NoClose /\ UNCHANGED callVars
  BY DEF StdoutData
<1>2. fromChild \in Seq(Line) /\ queue \in Seq(Line) /\ fromChild # <<>>
  BY DEF TypeOK, ChildTypeOK, StdoutData
<1>3. n \in 1..Len(fromChild)
  BY <1>2 DEF Chunks
<1> DEFINE chunk == SubSeq(fromChild, 1, n)
           lines == LinesOf(chunk)
<1>4. PICK m \in 0..n : /\ lines \in Seq(Line) /\ Len(lines) = m
                        /\ m > 0 => lines[1] = fromChild[1]
                        /\ terminal # "none" => m = 0
                        /\ terminal = "none" => (lines = chunk <=> m = n)
  <2>1. chunk \in Seq(Line) /\ Len(chunk) = n /\ chunk[1] = fromChild[1]
    BY <1>2, <1>3, Parts
  <2> HIDE DEF chunk
  <2>2. PICK m \in 0..Len(chunk) : KeptOf(chunk, m)
    BY <2>1, LinesKept
  <2> QED
    BY <2>1, <2>2 DEF KeptOf
<1>5. /\ fromChild' = SubSeq(fromChild,
                              IF terminal = "none" /\ lines # chunk /\ more THEN n ELSE n + 1,
                              Len(fromChild))
      /\ queue' = queue \o (IF pc \in Waiting /\ lines # <<>> THEN Tail(lines) ELSE lines)
      /\ terminal' = IF terminal = "none" /\ lines # chunk THEN "long" ELSE terminal
      /\ paused' = (terminal = "none" /\ ((terminal = "none" /\ lines # chunk) \/ queue' # <<>>))
      /\ \/ pc \in Waiting /\ lines # <<>> /\ Resolve(Head(lines))
         \/ ~(pc \in Waiting /\ lines # <<>>) /\ pc \in Waiting
            /\ terminal = "none" /\ lines # chunk /\ Reject
         \/ /\ ~(pc \in Waiting /\ lines # <<>>)
            /\ ~(pc \in Waiting /\ terminal = "none" /\ lines # chunk)
            /\ NoClose /\ UNCHANGED callVars
  BY <1>1, Zenon
<1> HIDE DEF chunk, lines
<1>6. /\ fromChild' \in Seq(Line) /\ Len(fromChild') <= Len(fromChild)
      /\ terminal' = "none" => Len(fromChild') = Len(fromChild) - n
  <2>1. PICK f \in {n, n + 1} : /\ fromChild' = SubSeq(fromChild, f, Len(fromChild))
                                /\ terminal' = "none" => f = n + 1
    BY <1>5
  <2>2. /\ Len(fromChild) \in Nat /\ f \in Nat /\ f >= 1 /\ n \in Nat
        /\ f - 1 \in 0..Len(fromChild) /\ f - 1 + 1 = f
    BY <1>2, <1>3
  <2>3. /\ fromChild' \in Seq(Line)
        /\ Len(fromChild') = Len(fromChild) - (f - 1)
    BY <1>2, <2>1, <2>2, Parts
  <2>4. Len(fromChild') <= Len(fromChild)
    BY <2>2, <2>3
  <2>5. terminal' = "none" => Len(fromChild') = Len(fromChild) - n
    BY <2>1, <2>2, <2>3
  <2> QED
    BY <2>3, <2>4, <2>5
<1>7. lines # <<>> <=> m > 0
  BY <1>4
<1>8. /\ terminal # "none" => m = 0 /\ terminal' = terminal
      /\ terminal = "none" => terminal' = IF m = n THEN "none" ELSE "long"
  BY <1>4, <1>5
<1>9. paused' \in BOOLEAN /\ (paused' => queue' # <<>> \/ terminal' # "none")
  BY <1>5
<1>10. Keeps(m) \/ Hands(m) \/ Breaks
  <2>1. CASE pc \in Waiting /\ lines # <<>>
    <3>1. queue = <<>>
      BY <2>1 DEF WaiterIsFed
    <3>2. Tail(lines) \in Seq(Line) /\ Len(Tail(lines)) = m - 1 /\ Head(lines) = lines[1]
      BY <1>4, <2>1, HeadTail
    <3>3. queue' = <<>> \o Tail(lines)
      BY <1>5, <2>1, <3>1
    <3>4. queue' \in Seq(Line) /\ Len(queue') = m - 1
      BY <3>2, <3>3
    <3>5. Resolve(Head(lines))
      BY <1>5, <2>1
    <3>6. Head(lines) = fromChild[1]
      BY <1>4, <1>7, <2>1, <3>2
    <3>7. Resolve(fromChild[1])
      BY <3>5, <3>6
    <3> QED
      BY <1>7, <2>1, <3>4, <3>7 DEF Hands
  <2>2. CASE pc \in Waiting /\ lines = <<>>
    <3>1. terminal = "none" /\ queue = <<>>
      BY <2>2 DEF WaiterIsFed
    <3>2. m # n
      BY <1>3, <1>7, <2>2
    <3>3. Reject
      BY <1>4, <1>5, <2>2, <3>1, <3>2
    <3>4. queue' = <<>> \o <<>>
      BY <1>5, <2>2, <3>1
    <3> QED
      BY <1>8, <2>2, <3>1, <3>2, <3>3, <3>4 DEF Breaks
  <2>3. CASE pc \notin Waiting
    <3>1. queue' = queue \o lines
      BY <1>5, <2>3
    <3>2. /\ queue' \in Seq(Line) /\ Len(queue') = Len(queue) + m
          /\ queue # <<>> => queue'[1] = queue[1]
          /\ queue = <<>> /\ m > 0 => queue'[1] = fromChild[1]
      <4>1. queue \in Seq(Line) /\ lines \in Seq(Line) /\ Len(lines) = m
        BY <1>2, <1>4
      <4>2. queue' \in Seq(Line) /\ Len(queue') = Len(queue) + m
        BY <3>1, <4>1, ConcatProperties
      <4>3. ASSUME queue # <<>> PROVE queue'[1] = queue[1]
        BY <3>1, <4>1, <4>3, ConcatProperties
      <4>4. ASSUME queue = <<>>, m > 0 PROVE queue'[1] = fromChild[1]
        <5>1. queue'[1] = lines[1]
          BY <3>1, <4>1, <4>4, ConcatProperties
        <5> QED
          BY <1>4, <4>4, <5>1
      <4> QED
        BY <4>2, <4>3, <4>4
    <3> QED
      BY <1>5, <2>3, <3>2 DEF Keeps
  <2> QED
    BY <2>1, <2>2, <2>3
<1> QED
  BY <1>2, <1>3, <1>6, <1>8, <1>9, <1>10 DEF Chunk, StdoutData
-----------------------------------------------------------------------------
(* Type correctness, part by part.                                         *)

USE DEF vars, childVars, callVars, closeVars, readerVars, nodeVars

CallTypeOK ==
    /\ pc \in InCall \cup {"hello", "idle", "overwritten", "refused"}
    /\ op \in {"call", "overwrite"} /\ timed \in BOOLEAN
    /\ issued \in 0..MaxRequests
    /\ outcome \in [Ids -> [re : 0..MaxRequests, kind : Outcomes]]

(* What closing the session or its transport changes.                      *)
LinkTypeOK ==
    /\ closed \in BOOLEAN /\ stdin \in BOOLEAN /\ exited \in BOOLEAN
    /\ stage \in Stages \cup {"none", "destroyed"}

RestTypeOK ==
    /\ closer \in {"none", "writing", "sent"}
    /\ terminal \in Terminals \cup {"none"} /\ paused \in BOOLEAN
    /\ ended \in BOOLEAN
    /\ stderr \in {"none", "piped", "ended"} /\ closeEvent \in BOOLEAN

LEMMA Types ==
  TypeOK <=> ChildTypeOK /\ CallTypeOK /\ LinkTypeOK /\ RestTypeOK /\ queue \in Seq(Line)
BY DEF TypeOK, CallTypeOK, LinkTypeOK, RestTypeOK

LEMMA TypesNext ==
  ASSUME ChildTypeOK', CallTypeOK', LinkTypeOK', RestTypeOK', queue' \in Seq(Line)
  PROVE  TypeOK'
BY DEF TypeOK, CallTypeOK, LinkTypeOK, RestTypeOK

(* What waits for a line is told.                                          *)
Reacts == Reject \/ GiveUp \/ RefuseHello \/ \E line \in Line : Resolve(line)

LEMMA Outcome ==
  ASSUME TypeOK, NEW i, NEW r \in 0..MaxRequests, NEW k \in Outcomes,
         outcome' = [outcome EXCEPT ![i] = [re |-> r, kind |-> k]]
  PROVE  outcome' \in [Ids -> [re : 0..MaxRequests, kind : Outcomes]]
BY DEF TypeOK

LEMMA SettleType ==
  ASSUME TypeOK, NEW k \in Outcomes, NEW r \in 0..MaxRequests,
         NEW next \in {"idle", "overwritten"}, Settle(k, r, next)
  PROVE  CallTypeOK'
<1>1. outcome' \in [Ids -> [re : 0..MaxRequests, kind : Outcomes]]
  BY Outcome DEF Settle
<1> QED
  BY <1>1 DEF TypeOK, Settle, CallTypeOK

LEMMA ReactionType ==
  ASSUME TypeOK, Reacts
  PROVE  CallTypeOK' /\ LinkTypeOK'
<1>1. LinkTypeOK /\ CallTypeOK
  BY Types
<1>2. NoClose \/ StartClose => stage' \in Stages \cup {"none", "destroyed"}
                              /\ stdin' \in BOOLEAN /\ exited' \in BOOLEAN
  BY <1>1 DEF NoClose, StartClose, Stages, LinkTypeOK
<1>3. 0 \in 0..MaxRequests /\ "io" \in Outcomes /\ "gaveUp" \in Outcomes
  BY MaxRequestsAssumption DEF Outcomes
<1>4. CASE RefuseHello
  BY <1>1, <1>2, <1>4 DEF RefuseHello, LinkTypeOK, CallTypeOK
<1>5. CASE GiveUp
  BY <1>2, <1>3, <1>5, SettleType DEF GiveUp, LinkTypeOK
<1>6. CASE Reject
  BY <1>1, <1>2, <1>3, <1>4, <1>6, SettleType DEF Reject, NoClose, LinkTypeOK
<1>7. ASSUME NEW line \in Line, Resolve(line)
      PROVE  CallTypeOK' /\ LinkTypeOK'
  <2>1. Decoded(line) \in Outcomes /\ line.id \in 0..MaxRequests
    BY <1>7 DEF Decoded, Outcomes, Answered, Line
  <2>2. CASE pc \in InCall
    <3>1. PICK next \in {"idle", "overwritten"} : Settle(Decoded(line), line.id, next)
      BY <1>7, <2>2 DEF Resolve, InCall
    <3> QED
      BY <1>1, <1>2, <1>7, <2>1, <2>2, <3>1, SettleType
         DEF Resolve, InCall, NoClose, LinkTypeOK
  <2>3. CASE pc = "hello"
    BY <1>1, <1>2, <1>4, <1>7, <2>3 DEF Resolve, InCall, NoClose, LinkTypeOK, CallTypeOK
  <2> QED
    BY <1>7, <2>2, <2>3 DEF Resolve
<1> QED
  BY <1>4, <1>5, <1>6, <1>7 DEF Reacts

(* What every step keeps of TypeOK, one action at a time.                  *)
LEMMA TypeStep == ASSUME TypeOK, WaiterIsFed, [Next]_vars PROVE TypeOK'
<1>1. ChildTypeOK /\ CallTypeOK /\ LinkTypeOK /\ RestTypeOK /\ queue \in Seq(Line)
  BY Types
<1>2. ASSUME UNCHANGED childVars PROVE ChildTypeOK'
  BY <1>1, <1>2 DEF ChildTypeOK
<1>3. ASSUME UNCHANGED callVars PROVE CallTypeOK'
  BY <1>1, <1>3 DEF CallTypeOK
<1>4. ASSUME UNCHANGED <<closed, stage, stdin, exited>> PROVE LinkTypeOK'
  BY <1>1, <1>4 DEF LinkTypeOK
<1>5. ASSUME UNCHANGED <<closer, terminal, paused, ended, stderr, closeEvent>> PROVE RestTypeOK'
  BY <1>1, <1>5 DEF RestTypeOK
<1>6. 0 \in 0..MaxRequests /\ \A k \in {"io", "gaveUp", "pending", "closed"} : k \in Outcomes
  BY MaxRequestsAssumption DEF Outcomes
<1>7. ASSUME StartClose, closed' \in BOOLEAN PROVE LinkTypeOK'
  BY <1>1, <1>7 DEF StartClose, LinkTypeOK, Stages
<1>8. CASE UNCHANGED vars
  BY <1>1, <1>2, <1>3, <1>4, <1>5, <1>8, TypesNext
<1>9. ASSUME DoClose PROVE ChildTypeOK' /\ LinkTypeOK' /\ RestTypeOK' /\ queue' \in Seq(Line)
  <2>1. closer' \in {"writing", "sent"} /\ closed' = TRUE
        /\ UNCHANGED <<readerVars, ended, stderr, closeEvent>>
    BY <1>9 DEF DoClose
  <2>2. RestTypeOK' /\ queue' \in Seq(Line)
    BY <1>1, <2>1 DEF RestTypeOK
  <2>3. LinkTypeOK'
    BY <1>1, <1>7, <1>9, <2>1 DEF DoClose, LinkTypeOK
  <2>4. ChildTypeOK'
    BY <1>1, <1>2, <1>9, RequestType, CloseRequestType DEF DoClose
  <2> QED
    BY <2>2, <2>3, <2>4
<1>10. CASE OverwriteCloses
  <2>1. CallTypeOK'
    BY <1>1, <1>10 DEF OverwriteCloses, CallTypeOK
  <2> QED
    BY <1>1, <1>2, <1>4, <1>5, <1>9, <1>10, <2>1, TypesNext DEF OverwriteCloses
<1>11. CASE CallRefused
  <2>1. outcome' \in [Ids -> [re : 0..MaxRequests, kind : Outcomes]]
    BY <1>6, <1>11, Outcome DEF CallRefused
  <2>2. CallTypeOK'
    BY <1>1, <1>11, <2>1, MaxRequestsAssumption DEF CallRefused, CallTypeOK
  <2> QED
    BY <1>1, <1>2, <1>4, <1>5, <1>11, <2>2, TypesNext DEF CallRefused
<1>12. CASE CallStart
  <2>1. outcome' \in [Ids -> [re : 0..MaxRequests, kind : Outcomes]]
    BY <1>6, <1>12, Outcome DEF CallStart
  <2>2. CallTypeOK'
    BY <1>1, <1>12, <2>1, MaxRequestsAssumption DEF CallStart, CallTypeOK, InCall
  <2>3. [op |-> op', id |-> issued'] \in Request
    BY <2>2 DEF CallTypeOK, Request
  <2>4. ChildTypeOK'
    BY <1>1, <1>2, <1>12, <2>3, RequestType DEF CallStart
  <2> QED
    BY <1>1, <1>4, <1>5, <1>12, <2>2, <2>4, TypesNext DEF CallStart
<1>13. CASE Close
  BY <1>3, <1>9, <1>13, TypesNext DEF Close
<1>14. CASE CallWriteFailed
  <2>1. CallTypeOK'
    BY <1>6, <1>14, SettleType DEF CallWriteFailed
  <2> QED
    BY <1>1, <1>2, <1>4, <1>5, <1>14, <2>1, TypesNext DEF CallWriteFailed
<1>15. CASE CallWritten
  <2>1. UNCHANGED <<childVars, closer, ended, stderr, closeEvent>>
    BY <1>15 DEF CallWritten
  <2>2. CASE TakeQueued /\ Resolve(Head(queue))
    <3>1. Head(queue) \in Line /\ queue' \in Seq(Line)
      BY <1>1, <2>2, HeadTail DEF TakeQueued
    <3>2. RestTypeOK'
      BY <1>1, <2>1, <2>2 DEF TakeQueued, RestTypeOK
    <3> QED
      BY <1>2, <2>1, <2>2, <3>1, <3>2, ReactionType, TypesNext DEF Reacts
  <2>3. CASE (Reject \/ GiveUp) /\ UNCHANGED readerVars
    BY <1>1, <1>2, <1>5, <2>1, <2>3, ReactionType, TypesNext DEF Reacts
  <2>4. CASE pc' = "reading" /\ UNCHANGED <<op, timed, issued, outcome, readerVars>> /\ NoClose
    <3>1. CallTypeOK'
      BY <1>1, <2>4 DEF CallTypeOK, InCall
    <3> QED
      BY <1>1, <1>2, <1>4, <1>5, <2>1, <2>4, <3>1, TypesNext DEF NoClose
  <2> QED
    BY <1>15, <2>2, <2>3, <2>4 DEF CallWritten
<1>16. CASE ReadGivesUp
  BY <1>1, <1>2, <1>5, <1>16, ReactionType, TypesNext DEF ReadGivesUp, Reacts
<1>17. CASE CloseWritten
  <2>1. RestTypeOK'
    BY <1>1, <1>17 DEF CloseWritten, RestTypeOK
  <2>2. LinkTypeOK'
    BY <1>1, <1>7, <1>17 DEF CloseWritten, LinkTypeOK
  <2> QED
    BY <1>1, <1>2, <1>3, <1>17, <2>1, <2>2, TypesNext DEF CloseWritten
<1>18. ASSUME NEW a, NEW sig \in {"term", "kill"}, NEW b \in Stages, Escalate(a, sig, b)
       PROVE  TypeOK'
  <2>1. LinkTypeOK' /\ ChildTypeOK'
    BY <1>1, <1>18 DEF Escalate, LinkTypeOK, ChildTypeOK
  <2> QED
    BY <1>1, <1>3, <1>5, <1>18, <2>1, TypesNext DEF Escalate
<1>19. CASE Terminate \/ Kill
  BY <1>18, <1>19 DEF Terminate, Kill, Stages
<1>20. CASE Destroy
  <2>1. LinkTypeOK'
    BY <1>1, <1>20 DEF Destroy, LinkTypeOK
  <2> QED
    BY <1>1, <1>2, <1>3, <1>5, <1>20, <2>1, TypesNext DEF Destroy
<1>21. CASE StdoutData
  <2>1. PICK n \in 1..Len(fromChild) : \E m \in 0..n : Chunk(n, m)
    BY <1>21, Received
  <2> PICK m \in 0..n : Chunk(n, m)
    BY <2>1
  <2>2. fromChild[1] \in Line
    BY <1>1, <2>1 DEF ChildTypeOK, Chunk
  <2>3. ChildTypeOK' /\ RestTypeOK'
    BY <1>1, <2>1 DEF ChildTypeOK, RestTypeOK, Chunk, Terminals
  <2>4. CallTypeOK' /\ LinkTypeOK' /\ queue' \in Seq(Line)
    BY <1>1, <1>3, <1>4, <2>1, <2>2, ReactionType
       DEF Chunk, Keeps, Hands, Breaks, Reacts, NoClose
  <2> QED
    BY <2>3, <2>4, TypesNext
<1>22. CASE StdoutEnd
  <2>1. RestTypeOK'
    BY <1>1, <1>22 DEF StdoutEnd, RestTypeOK, Terminals
  <2> QED
    BY <1>1, <1>2, <1>3, <1>4, <1>22, <2>1, ReactionType, TypesNext DEF StdoutEnd, Reacts, NoClose
<1>23. CASE StderrEnd \/ CloseEvent
  <2>1. RestTypeOK'
    BY <1>1, <1>23 DEF StderrEnd, CloseEvent, RestTypeOK
  <2> QED
    BY <1>1, <1>2, <1>3, <1>4, <1>23, <2>1, TypesNext DEF StderrEnd, CloseEvent
<1>24. CASE ExitEvent
  <2>1. RestTypeOK' /\ LinkTypeOK'
    BY <1>1, <1>24 DEF ExitEvent, RestTypeOK, LinkTypeOK
  <2> QED
    BY <1>1, <1>2, <1>3, <1>24, <2>1, TypesNext DEF ExitEvent
<1>25. CASE ChildStep
  BY <1>1, <1>3, <1>4, <1>5, <1>25, ChildNextType, TypesNext DEF ChildStep
<1> QED
  BY <1>8, <1>10, <1>11, <1>12, <1>13, <1>14, <1>15, <1>16, <1>17, <1>19, <1>20,
     <1>21, <1>22, <1>23, <1>24, <1>25, TypesNext
     DEF Next, User, CallStep, CloseStep, NodeStep

-----------------------------------------------------------------------------
(* What a reaction amounts to.                                             *)

Accepted == pc = "hello" /\ pc' = "idle" /\ NoClose /\ UNCHANGED <<op, issued, outcome>>
Refused  == pc = "hello" /\ RefuseHello
GivesUp  == pc \in InCall /\ GiveUp
Settles(k, r) ==
    /\ pc \in InCall /\ NoClose
    /\ \E next \in {"idle", "overwritten"} : Settle(k, r, next)

Reaction == Accepted \/ Refused \/ GivesUp \/ \E k, r : Settles(k, r)

LEMMA Resolution ==
  ASSUME NEW line \in Line, Resolve(line)
  PROVE  Accepted \/ Refused \/ Settles(Decoded(line), line.id)
BY DEF Resolve, Accepted, Refused, Settles

LEMMA Rejection ==
  ASSUME Reject
  PROVE  Refused \/ Settles("io", 0)
BY DEF Reject, Refused, Settles

(* After one nobody waits.                                                 *)
LEMMA ReactionEnds ==
  ASSUME Reaction
  PROVE  /\ pc \in {"hello"} \cup InCall /\ pc' \in {"idle", "overwritten", "refused"}
         /\ issued' = issued
BY DEF Reaction, Accepted, Refused, GivesUp, Settles, RefuseHello, GiveUp, Settle

(* What a line from the stream, or its end, does.                          *)
LEMMA StreamReaction ==
  ASSUME TypeOK, WaiterIsFed, StdoutData \/ StdoutEnd
  PROVE  \/ pc \in Waiting /\ Reaction
         \/ pc \notin Waiting /\ NoClose /\ UNCHANGED callVars
<1>1. CASE StdoutData
  <2>1. PICK n \in 1..Len(fromChild) : \E m \in 0..n : Chunk(n, m)
    BY <1>1, Received
  <2> PICK m \in 0..n : Chunk(n, m)
    BY <2>1
  <2>2. fromChild[1] \in Line
    BY <2>1 DEF TypeOK, ChildTypeOK, Chunk
  <2> QED
    BY <2>2, Resolution, Rejection DEF Chunk, Keeps, Hands, Breaks, Reaction
<1>2. CASE StdoutEnd
  BY <1>2, Rejection DEF StdoutEnd, Reaction
<1> QED
  BY <1>1, <1>2

(* What the write of a call, once taken, leads to.                         *)
LEMMA WrittenReaction ==
  ASSUME TypeOK, CallWritten
  PROVE  \/ Reaction
         \/ /\ pc' = "reading" /\ queue = <<>> /\ terminal = "none" /\ NoClose
            /\ UNCHANGED <<op, timed, issued, outcome, readerVars>>
<1>1. pc = "writing"
  BY DEF CallWritten
<1>2. CASE TakeQueued /\ Resolve(Head(queue))
  <2>1. Head(queue) \in Line
    BY <1>2, HeadTail DEF TypeOK, TakeQueued
  <2> QED
    BY <1>2, <2>1, Resolution DEF Reaction
<1>3. CASE Reject \/ GiveUp
  BY <1>1, <1>3, Rejection DEF Reaction, GivesUp, InCall
<1> QED
  BY <1>2, <1>3 DEF CallWritten

-----------------------------------------------------------------------------
(* The reader.                                                             *)

LEMMA FedStep ==
  ASSUME TypeOK, WaiterIsFed, PausedInv, [Next]_vars
  PROVE  WaiterIsFed' /\ PausedInv'
<1>1. ASSUME UNCHANGED readerVars, pc' \in Waiting => pc \in Waiting
      PROVE  WaiterIsFed' /\ PausedInv'
  BY <1>1 DEF WaiterIsFed, PausedInv
<1>2. ASSUME Reaction, PausedInv'
      PROVE  WaiterIsFed' /\ PausedInv'
  BY <1>2, ReactionEnds DEF WaiterIsFed, Waiting
<1>3. ASSUME pc \notin Waiting, UNCHANGED pc, PausedInv'
      PROVE  WaiterIsFed' /\ PausedInv'
  BY <1>3 DEF WaiterIsFed
<1>4. CASE StdoutData
  <2>1. PICK n \in 1..Len(fromChild) : \E m \in 0..n : Chunk(n, m)
    BY <1>4, Received
  <2>2. PausedInv'
    BY <2>1 DEF Chunk, PausedInv
  <2> QED
    BY <1>2, <1>3, <1>4, <2>2, StreamReaction
<1>5. CASE StdoutEnd
  <2>1. terminal' # "none"
    BY <1>5 DEF StdoutEnd
  <2>2. PausedInv'
    BY <2>1 DEF PausedInv
  <2> QED
    BY <1>2, <1>3, <1>5, <2>2, StreamReaction
<1>6. CASE ExitEvent
  BY <1>6 DEF ExitEvent, WaiterIsFed, PausedInv, TypeOK
<1>7. CASE CallWritten
  <2>1. PausedInv'
    BY <1>7 DEF CallWritten, TakeQueued, PausedInv, TypeOK
  <2>2. CASE Reaction
    BY <1>2, <2>1, <2>2
  <2>3. CASE pc' = "reading" /\ queue = <<>> /\ terminal = "none" /\ UNCHANGED readerVars
    BY <2>3 DEF WaiterIsFed, PausedInv, TypeOK
  <2> QED
    BY <1>7, <2>2, <2>3, WrittenReaction
<1>8. CASE ReadGivesUp
  BY <1>1, <1>8 DEF ReadGivesUp, RefuseHello, GiveUp, Settle, Waiting
<1>9. CASE CallWriteFailed \/ CallStart
  BY <1>1, <1>9 DEF CallWriteFailed, CallStart, Settle, Waiting
<1>10. CASE OverwriteCloses
  BY <1>1, <1>10 DEF OverwriteCloses, DoClose, Waiting
<1> QED
  BY <1>1, <1>4, <1>5, <1>6, <1>7, <1>8, <1>9, <1>10
     DEF Next, User, CallStep, CloseStep, NodeStep, CallRefused, Close, DoClose,
         CloseWritten, Terminate, Kill, Escalate, Destroy, StderrEnd, CloseEvent, ChildStep

-----------------------------------------------------------------------------
(* What is closed.                                                         *)

LEMMA StageStep ==
  ASSUME TypeOK, WaiterIsFed, StageInv, [Next]_vars
  PROVE  StageInv'
<1> USE DEF StageInv
<1>1. ASSUME UNCHANGED <<pc, closed, closer, stage, stdin, exited, closeEvent>>
      PROVE  StageInv'
  BY <1>1
<1>2. ASSUME Reaction, UNCHANGED <<closer, closeEvent>>
      PROVE  StageInv'
  <2>1. CASE Accepted \/ \E k, r : Settles(k, r)
    BY <1>2, <2>1 DEF Accepted, Settles, Settle, NoClose, InCall
  <2>2. CASE Refused
    BY <1>2, <2>2 DEF Refused, RefuseHello, StartClose, TypeOK
  <2>3. CASE GivesUp
    BY <1>2, <2>3 DEF GivesUp, GiveUp, Settle, StartClose, TypeOK
  <2> QED
    BY <1>2, <2>1, <2>2, <2>3 DEF Reaction
<1>3. ASSUME DoClose, pc' \notin {"hello", "refused"} PROVE StageInv'
  BY <1>3 DEF DoClose, StartClose, TypeOK
<1>4. CASE OverwriteCloses
  BY <1>3, <1>4 DEF OverwriteCloses
<1>5. CASE Close
  BY <1>3, <1>5 DEF Close, InCall
<1>6. CASE StdoutData \/ StdoutEnd
  <2>1. UNCHANGED <<closer, closeEvent>>
    BY <1>6 DEF StdoutData, StdoutEnd
  <2> QED
    BY <1>1, <1>2, <1>6, <2>1, StreamReaction DEF NoClose
<1>7. CASE CallWritten
  <2>1. UNCHANGED <<closer, closeEvent>> /\ pc = "writing"
    BY <1>7 DEF CallWritten
  <2> QED
    BY <1>2, <1>7, <2>1, WrittenReaction DEF NoClose
<1>8. CASE ReadGivesUp
  BY <1>2, <1>8 DEF ReadGivesUp, Reaction, Refused, GivesUp, InCall
<1>9. CASE CallWriteFailed \/ CallStart
  BY <1>9 DEF CallWriteFailed, CallStart, Settle, InCall
<1>10. CASE CloseWritten
  BY <1>10 DEF CloseWritten, StartClose, TypeOK
<1>11. CASE Terminate \/ Kill \/ Destroy
  BY <1>11 DEF Terminate, Kill, Escalate, Destroy, Stages
<1>12. CASE ExitEvent \/ CloseEvent
  BY <1>12 DEF ExitEvent, CloseEvent
<1> QED
  BY <1>1, <1>4, <1>5, <1>6, <1>7, <1>8, <1>9, <1>10, <1>11, <1>12
     DEF Next, User, CallStep, CloseStep, NodeStep, CallRefused, StderrEnd, ChildStep

-----------------------------------------------------------------------------
(* The calls.                                                              *)

LEMMA OrderStep ==
  ASSUME TypeOK, WaiterIsFed, OrderInv, [Next]_vars
  PROVE  OrderInv'
<1> USE DEF OrderInv
<1>1. ASSUME UNCHANGED <<issued, outcome>>, pc \in InCall <=> pc' \in InCall
      PROVE  OrderInv'
  BY <1>1
<1>2. ASSUME NEW k \in Outcomes \ {"none", "pending"}, NEW r, NEW next \in {"idle", "overwritten"},
             pc \in InCall, Settle(k, r, next)
      PROVE  OrderInv'
  BY <1>2 DEF Settle, InCall, TypeOK, Ids
<1>3. ASSUME NEW k \in {"pending", "closed"}, pc = "idle", issued < MaxRequests, issued' = issued + 1,
             outcome' = [outcome EXCEPT ![issued + 1] = [re |-> 0, kind |-> k]],
             k = "pending" <=> pc' \in InCall
      PROVE  OrderInv'
  <2>1. issued + 1 \in Ids /\ issued \in Nat
    BY <1>3, MaxRequestsAssumption DEF TypeOK, Ids
  <2>2. \A i \in Ids : outcome'[i] = IF i = issued + 1 THEN [re |-> 0, kind |-> k] ELSE outcome[i]
    BY <1>3, <2>1 DEF TypeOK
  <2>3. \A i \in Ids : outcome[i].kind # "pending"
    BY <1>3 DEF InCall
  <2> QED
    BY <1>3, <2>1, <2>2, <2>3 DEF Ids
<1>4. ASSUME Accepted \/ Refused PROVE OrderInv'
  BY <1>1, <1>4 DEF Accepted, Refused, RefuseHello, InCall
<1>5. ASSUME GivesUp PROVE OrderInv'
  BY <1>2, <1>5 DEF GivesUp, GiveUp, Outcomes
<1>6. ASSUME NEW line \in Line, Resolve(line) PROVE OrderInv'
  <2>1. Decoded(line) \in Outcomes \ {"none", "pending"}
    BY <1>6 DEF Decoded, Outcomes, Answered, Line
  <2> QED
    BY <1>2, <1>4, <1>6, <2>1, Resolution DEF Settles
<1>7. ASSUME Reject PROVE OrderInv'
  BY <1>2, <1>4, <1>7, Rejection DEF Settles, Outcomes
<1>8. CASE CallRefused
  BY <1>3, <1>8 DEF CallRefused, InCall
<1>9. CASE CallStart
  BY <1>3, <1>9 DEF CallStart, InCall
<1>10. CASE CallWriteFailed
  BY <1>2, <1>10 DEF CallWriteFailed, Outcomes, InCall
<1>11. CASE CallWritten
  <2>1. CASE TakeQueued /\ Resolve(Head(queue))
    BY <1>6, <2>1, HeadTail DEF TypeOK, TakeQueued
  <2>2. CASE Reject \/ GiveUp
    BY <1>5, <1>7, <1>11, <2>2 DEF CallWritten, GivesUp, InCall
  <2>3. CASE pc' = "reading" /\ UNCHANGED <<issued, outcome>>
    BY <1>1, <1>11, <2>3 DEF CallWritten, InCall
  <2> QED
    BY <1>11, <2>1, <2>2, <2>3 DEF CallWritten
<1>12. CASE ReadGivesUp
  BY <1>4, <1>5, <1>12 DEF ReadGivesUp, Refused, GivesUp, InCall
<1>13. CASE StdoutData
  <2>1. PICK n \in 1..Len(fromChild) : \E m \in 0..n : Chunk(n, m)
    BY <1>13, Received
  <2> PICK m \in 0..n : Chunk(n, m)
    BY <2>1
  <2>2. fromChild[1] \in Line
    BY <2>1 DEF TypeOK, ChildTypeOK, Chunk
  <2> QED
    BY <1>1, <1>6, <1>7, <2>2 DEF Chunk, Keeps, Hands, Breaks
<1>14. CASE StdoutEnd
  BY <1>1, <1>7, <1>14 DEF StdoutEnd
<1>15. CASE OverwriteCloses
  BY <1>1, <1>15 DEF OverwriteCloses, InCall
<1> QED
  BY <1>1, <1>8, <1>9, <1>10, <1>11, <1>12, <1>13, <1>14, <1>15
     DEF Next, User, CallStep, CloseStep, NodeStep, Close, CloseWritten, Terminate, Kill,
         Escalate, Destroy, StderrEnd, ExitEvent, CloseEvent, ChildStep

-----------------------------------------------------------------------------
(* What is on its way.                                                     *)

(* The server answers the first request, or says hello.                    *)
LEMMA FlightSays ==
  ASSUME TypeOK, FlightInv, NEW line, Says(line),
         UNCHANGED <<callVars, closeVars, readerVars, nodeVars>>
  PROVE  FlightInv'
<1> USE DEF FlightInv, NothingLeft
<1>1. CASE child = "booting"
  <2>1. /\ child' = "serving" /\ fromChild = <<>> /\ fromChild' = Append(fromChild, line)
        /\ pc \in {"hello", "refused"} /\ UNCHANGED <<toChild, pc>>
    BY <1>1 DEF Says
  <2>2. Len(fromChild') = 1
    BY <2>1 DEF Says
  <2> QED
    BY <2>1, <2>2 DEF Written
<1>2. CASE child # "booting"
  <2>1. /\ child = "serving" /\ child' \in {"serving", "leaving"}
        /\ toChild # <<>> /\ line.id = toChild[1].id /\ toChild' = Tail(toChild)
        /\ fromChild' = Append(fromChild, line) /\ line \in Line
        /\ UNCHANGED <<pc, issued, closed, queue, terminal>>
    BY <1>2 DEF Says
  <2>2. pc # "hello"
    BY <2>1
  <2>3. /\ fromChild' # <<>> /\ Len(fromChild') = Len(fromChild) + 1
        /\ fromChild'[1] = IF fromChild = <<>> THEN line ELSE fromChild[1]
    BY <2>1, Appended, EmptySeq DEF TypeOK, ChildTypeOK
  <2>4. /\ Len(toChild') = Len(toChild) - 1
        /\ \A k \in 1..Len(toChild') : toChild'[k] = toChild[k + 1] /\ k + 1 \in 1..Len(toChild)
    BY <2>1 DEF TypeOK, ChildTypeOK
  <2>5. pc \in Written => NextIsOwn'
    BY <2>1, <2>3 DEF NextIsOwn
  <2>6. pc \in Written /\ ~closed /\ terminal = "none" => OnTheWay' = 1
    BY <2>1, <2>3, <2>4 DEF OnTheWay, TypeOK, ChildTypeOK
  <2>7. pc \in Written /\ ~closed /\ queue # <<>> =>
           Len(queue) = 1 /\ \A k \in 1..Len(toChild') : toChild'[k].id # issued
    BY <2>4
  <2>8. pc \in {"idle", "unwritten"} /\ ~closed => NothingLeft'
    BY <2>1
  <2> QED
    BY <2>1, <2>2, <2>5, <2>6, <2>7, <2>8
<1> QED
  BY <1>1, <1>2

(* A line in the pipe, and no more than one on the way: it is that one.    *)
LEMMA OnlyOne ==
  ASSUME NEW a \in Nat, NEW b \in Nat, NEW c \in Nat, b # 0
  PROVE  /\ b <= 1 => b = 1
         /\ a + b + c = 1 => a = 0 /\ c = 0 /\ b = 1
  OBVIOUS

LEMMA Alone ==
  ASSUME NEW q \in Seq(Line), NEW s \in Seq(Line), NEW t \in Seq(Request), s # <<>>
  PROVE  /\ Len(s) <= 1 => Len(s) = 1
         /\ Len(q) + Len(s) + Len(t) = 1 => Len(q) = 0 /\ Len(t) = 0 /\ Len(s) = 1
<1>1. Len(q) \in Nat /\ Len(s) \in Nat /\ Len(s) # 0 /\ Len(t) \in Nat
  BY EmptySeq
<1> QED
  BY <1>1, OnlyOne, Zenon

(* A chunk moves lines to the queue, or hands one to the call it answers.  *)
LEMMA FlightChunk ==
  ASSUME TypeOK, WaiterIsFed, FlightInv, NEW n \in 1..Len(fromChild), NEW m \in 0..n, Chunk(n, m)
  PROVE  FlightInv'
<1> USE DEF FlightInv, NothingLeft
<1>1. /\ queue \in Seq(Line) /\ fromChild \in Seq(Line) /\ toChild \in Seq(Request)
      /\ fromChild # <<>> /\ fromChild' \in Seq(Line)
      /\ terminal' = "none" => Len(fromChild') = Len(fromChild) - n
      /\ Len(fromChild) \in Nat /\ Len(queue) \in Nat /\ Len(toChild) \in Nat
      /\ child # "booting" /\ UNCHANGED <<child, toChild>>
      /\ terminal # "none" => m = 0 /\ terminal' = terminal
      /\ terminal = "none" => terminal' = IF m = n THEN "none" ELSE "long"
  BY DEF TypeOK, ChildTypeOK, Chunk
<1>0. Len(queue) + Len(fromChild) + Len(toChild) = 1
         => Len(queue) = 0 /\ Len(toChild) = 0 /\ Len(fromChild) = 1
  BY <1>1, Alone, Zenon
<1>2. CASE Keeps(m)
  <2>1. /\ queue' \in Seq(Line) /\ Len(queue') = Len(queue) + m
        /\ queue # <<>> => queue'[1] = queue[1]
        /\ queue = <<>> /\ m > 0 => queue'[1] = fromChild[1]
        /\ pc \notin {"hello", "reading"} /\ UNCHANGED <<closed, pc, issued>>
    BY <1>2 DEF Keeps, Waiting, NoClose
  <2>2. CASE pc = "writing"
    <3>1. NextIsOwn'
      BY <1>1, <2>1, <2>2, EmptySeq DEF NextIsOwn, Written
    <3>2. ASSUME ~closed, terminal' = "none" PROVE OnTheWay' = 1
      BY <1>1, <2>1, <2>2, <3>2 DEF OnTheWay, Written
    <3>3. ASSUME ~closed, queue' # <<>>
          PROVE  Len(queue') = 1 /\ \A k \in 1..Len(toChild) : toChild[k].id # issued
      <4>1. CASE terminal # "none"
        BY <1>1, <2>1, <2>2, <3>3, <4>1, EmptySeq DEF Written
      <4>2. CASE terminal = "none"
        <5>1. Len(queue) + Len(fromChild) + Len(toChild) = 1
          BY <2>2, <3>3, <4>2 DEF OnTheWay, Written
        <5>2. Len(queue) = 0 /\ Len(toChild) = 0 /\ Len(fromChild) = 1
          BY <1>0, <5>1
        <5>3. Len(queue') = 1
          BY <1>1, <2>1, <3>3, <5>2
        <5> QED
          BY <5>2, <5>3
      <4> QED
        BY <4>1, <4>2
    <3> QED
      BY <1>1, <2>1, <2>2, <3>1, <3>2, <3>3
  <2>3. CASE pc \in {"idle", "unwritten"} /\ ~closed
    <3>1. queue = <<>> /\ terminal # "none"
      BY <1>1, <2>3
    <3>2. queue' = <<>>
      BY <1>1, <2>1, <3>1
    <3> QED
      BY <1>1, <2>1, <2>3, <3>1, <3>2 DEF Written
  <2>4. CASE pc \notin {"writing", "idle", "unwritten"} \/ (pc \in {"idle", "unwritten"} /\ closed)
    BY <1>1, <2>1, <2>4 DEF Written
  <2> QED
    BY <2>2, <2>3, <2>4
<1>3. CASE Hands(m)
  <2>1. queue = <<>> /\ terminal = "none" /\ pc \in {"hello", "reading"} /\ m > 0
        /\ queue' \in Seq(Line) /\ Len(queue') = m - 1
    BY <1>3 DEF Hands, WaiterIsFed, Waiting
  <2>2. fromChild[1] \in Line
    BY <1>1
  <2>3. Reaction
    BY <1>3, <2>2, Resolution DEF Hands, Reaction
  <2>4. pc' \in {"idle", "overwritten", "refused"} /\ pc' \notin Written \cup {"hello", "unwritten"}
    BY <2>3, ReactionEnds DEF Written
  <2>5. ASSUME ~closed PROVE NothingLeft'
    <3>1. Len(fromChild) = 1 /\ toChild = <<>>
      <4>1. CASE pc = "hello"
        <5>1. toChild = <<>> /\ Len(fromChild) <= 1
          BY <1>1, <4>1
        <5> QED
          BY <1>1, <5>1, Alone, Zenon
      <4>2. CASE pc = "reading"
        <5>1. Len(queue) + Len(fromChild) + Len(toChild) = 1
          BY <2>1, <2>5, <4>2 DEF OnTheWay, Written
        <5> QED
          BY <1>0, <1>1, <5>1, EmptySeq
      <4> QED
        BY <2>1, <4>1, <4>2
    <3>2. n = 1 /\ m = 1
      BY <2>1, <3>1
    <3> QED
      BY <1>1, <2>1, <3>1, <3>2
  <2>6. closed => closed'
    BY <2>3 DEF Reaction, Accepted, Refused, RefuseHello, GivesUp, GiveUp, Settles, NoClose
  <2> QED
    BY <1>1, <2>4, <2>5, <2>6
<1>4. CASE Breaks
  <2>1. queue' = <<>> /\ terminal' = "long" /\ Reaction
    BY <1>4, Rejection DEF Breaks, WaiterIsFed, Reaction
  <2>2. pc' \in {"idle", "overwritten", "refused"} /\ pc' \notin Written \cup {"hello", "unwritten"}
    BY <2>1, ReactionEnds DEF Written
  <2> QED
    BY <1>1, <2>1, <2>2
<1> QED
  BY <1>2, <1>3, <1>4 DEF Chunk

(* A request at the end of the pipe is not next while there is another.    *)
LEMMA NextStays ==
  ASSUME TypeOK, NEW r \in Request, toChild' = Append(toChild, r), NextIsOwn,
         UNCHANGED <<queue, terminal, fromChild, issued>>
  PROVE  NextIsOwn'
<1>1. toChild # <<>> => toChild' # <<>> /\ toChild'[1] = toChild[1]
  BY Appended, EmptySeq DEF TypeOK, ChildTypeOK
<1> QED
  BY <1>1 DEF NextIsOwn

LEMMA FlightStep ==
  ASSUME TypeOK, WaiterIsFed, StageInv, FlightInv, [Next]_vars
  PROVE  FlightInv'
<1> USE DEF FlightInv, NothingLeft
<1>1. ASSUME UNCHANGED <<child, toChild, fromChild, queue, terminal, pc, issued, closed>>
      PROVE  FlightInv'
  BY <1>1 DEF NextIsOwn, OnTheWay
<1>2. ASSUME child # "booting", child' = child, pc' \in {"idle", "overwritten", "refused"},
             pc' = "idle" /\ ~closed' => NothingLeft'
      PROVE  FlightInv'
  BY <1>2 DEF Written
<1>3. CASE ChildStep
  <2>1. CASE ChildDies
    BY <1>3, <2>1 DEF ChildStep, ChildDies, NextIsOwn, OnTheWay
  <2>2. CASE HolderReleases
    BY <1>1, <1>3, <2>2 DEF ChildStep, HolderReleases
  <2> QED
    BY <1>3, <2>1, <2>2, ChildSteps, FlightSays DEF ChildStep, TypeOK
<1>4. CASE StdoutData
  <2>1. PICK n \in 1..Len(fromChild) : \E m \in 0..n : Chunk(n, m)
    BY <1>4, Received
  <2> QED
    BY <2>1, FlightChunk
<1>5. CASE StdoutEnd
  <2>1. terminal' # "none" /\ child = "dead" /\ UNCHANGED <<child, toChild, fromChild, queue>>
    BY <1>5 DEF StdoutEnd, StdoutEnded
  <2>2. CASE Reaction /\ pc \in Waiting
    <3>1. queue' = <<>>
      BY <2>1, <2>2 DEF WaiterIsFed
    <3> QED
      BY <1>2, <2>1, <2>2, <3>1, ReactionEnds
  <2>3. CASE NoClose /\ UNCHANGED callVars
    BY <2>1, <2>3 DEF NoClose, NextIsOwn
  <2> QED
    BY <1>5, <2>2, <2>3, StreamReaction
<1>6. CASE CallRefused
  BY <1>6 DEF CallRefused, Written
<1>7. CASE CallStart
  <2>1. /\ pc = "idle" /\ ~closed /\ child # "booting" /\ queue = <<>> /\ issued' = issued + 1
        /\ terminal = "none" => fromChild = <<>> /\ (child # "dead" => toChild = <<>>)
        /\ UNCHANGED <<child, fromChild, queue, terminal, closed>>
    BY <1>7 DEF CallStart
  <2>2. CASE CanWrite
    <3>1. pc' = "writing" /\ toChild' = Append(toChild, [op |-> op', id |-> issued']) /\ child # "dead"
      BY <1>7, <2>2 DEF CallStart, CanWrite
    <3>2. terminal = "none" => toChild' # <<>> /\ Len(toChild') = 1 /\ toChild'[1].id = issued'
      BY <2>1, <3>1
    <3>3. NextIsOwn'
      BY <2>1, <3>2 DEF NextIsOwn
    <3>4. terminal' = "none" => OnTheWay' = 1
      BY <2>1, <3>2 DEF OnTheWay
    <3> QED
      BY <2>1, <3>1, <3>3, <3>4
  <2>3. CASE ~CanWrite
    BY <1>7, <2>1, <2>3 DEF CallStart, Written
  <2> QED
    BY <2>2, <2>3
<1>8. ASSUME DoClose, child # "booting", pc' = pc \/ pc' = "idle", pc # "hello", issued' = issued
      PROVE  FlightInv'
  <2>1. closed' = TRUE /\ UNCHANGED <<child, fromChild, queue, terminal>>
    BY <1>8 DEF DoClose
  <2>2. ASSUME NextIsOwn PROVE NextIsOwn'
    <3>1. CASE UNCHANGED toChild
      BY <1>8, <2>1, <2>2, <3>1 DEF NextIsOwn
    <3>2. CASE toChild' = Append(toChild, CloseRequest)
      BY <1>8, <2>1, <2>2, <3>2, NextStays, CloseRequestType
    <3> QED
      BY <1>8, <3>1, <3>2 DEF DoClose
  <2> QED
    BY <1>8, <2>1, <2>2 DEF Written
<1>9. CASE Close
  BY <1>8, <1>9 DEF Close, InCall
<1>10. CASE OverwriteCloses
  <2>1. child # "booting" /\ pc # "hello" /\ pc' = "idle" /\ issued' = issued
    BY <1>10 DEF OverwriteCloses
  <2>2. CASE DoClose
    BY <1>8, <2>1, <2>2
  <2>3. CASE closer # "none" /\ UNCHANGED <<childVars, closeVars, readerVars, nodeVars>>
    BY <1>2, <2>1, <2>3 DEF StageInv
  <2> QED
    BY <1>10, <2>2, <2>3 DEF OverwriteCloses
<1>11. CASE CallWriteFailed
  <2>1. /\ pc' = "idle" /\ pc \in {"unwritten", "writing"} /\ child # "booting"
        /\ UNCHANGED <<child, toChild, fromChild, queue, terminal, closed>>
    BY <1>11 DEF CallWriteFailed, Settle
  <2>2. ASSUME ~closed, pc = "writing" PROVE NothingLeft
    <3>1. child = "dead" /\ ~Taken([op |-> op, id |-> issued])
      BY <1>11, <2>2 DEF CallWriteFailed
    <3>2. PICK k \in 1..Len(toChild) : toChild[k].id = issued
      BY <3>1 DEF Taken, TypeOK, ChildTypeOK
    <3>3. queue = <<>>
      BY <2>2, <3>2 DEF Written
    <3>4. ASSUME terminal = "none" PROVE fromChild = <<>>
      <4>1. Len(queue) + Len(fromChild) + Len(toChild) = 1
        BY <2>2, <3>4 DEF OnTheWay, Written
      <4>2. Len(fromChild) = 0
        BY <3>2, <4>1 DEF TypeOK, ChildTypeOK
      <4> QED
        BY <4>2, EmptySeq DEF TypeOK, ChildTypeOK
    <3> QED
      BY <3>1, <3>3, <3>4
  <2> QED
    BY <1>2, <2>1, <2>2
<1>12. CASE CallWritten
  <2>1. /\ pc = "writing" /\ child # "booting"
        /\ UNCHANGED <<child, toChild, fromChild, terminal>>
    BY <1>12 DEF CallWritten, TakeQueued
  <2>2. CASE pc' = "reading" /\ NoClose /\ UNCHANGED <<issued, readerVars>>
    BY <2>1, <2>2 DEF NoClose, Written, NextIsOwn, OnTheWay
  <2>3. CASE Reaction
    <3>1. pc' \in {"idle", "overwritten", "refused"}
      BY <2>3, ReactionEnds
    <3>2. closed => closed'
      BY <2>3 DEF Reaction, Accepted, Refused, RefuseHello, GivesUp, GiveUp, Settles, NoClose
    <3>3. ASSUME ~closed PROVE NothingLeft'
      <4>1. CASE TakeQueued
        <5>1. Len(queue) = 1 /\ queue' = Tail(queue)
          BY <2>1, <3>3, <4>1 DEF TakeQueued, Written
        <5>2. queue' = <<>>
          BY <5>1 DEF TypeOK
        <5>3. ASSUME terminal = "none" PROVE fromChild = <<>> /\ toChild = <<>>
          <6>1. Len(queue) + Len(fromChild) + Len(toChild) = 1
            BY <2>1, <3>3, <5>3 DEF OnTheWay, Written
          <6>2. Len(fromChild) = 0 /\ Len(toChild) = 0
            BY <5>1, <6>1 DEF TypeOK, ChildTypeOK
          <6> QED
            BY <6>2, EmptySeq DEF TypeOK, ChildTypeOK
        <5> QED
          BY <2>1, <5>2, <5>3
      <4>2. CASE queue = <<>> /\ terminal # "none" /\ UNCHANGED readerVars
        BY <4>2
      <4>3. CASE pc' = "reading"
        BY <3>1, <4>3
      <4> QED
        BY <1>12, <4>1, <4>2, <4>3 DEF CallWritten
    <3> QED
      BY <1>2, <2>1, <3>1, <3>2, <3>3
  <2> QED
    BY <1>12, <2>2, <2>3, WrittenReaction
<1>13. CASE ReadGivesUp
  BY <1>13 DEF ReadGivesUp, RefuseHello, GiveUp, Settle, Written
<1> QED
  BY <1>1, <1>3, <1>4, <1>5, <1>6, <1>7, <1>9, <1>10, <1>11, <1>12, <1>13
     DEF Next, User, CallStep, CloseStep, NodeStep, CloseWritten, Terminate, Kill, Escalate,
         Destroy, StderrEnd, ExitEvent, CloseEvent

-----------------------------------------------------------------------------
(* The invariant.                                                          *)

LEMMA InvInit == Init => IInv
<1> SUFFICES ASSUME Init PROVE IInv
  OBVIOUS
<1> USE DEF Init, ChildInit
<1>1. ChildTypeOK
  BY RoomAssumption, HolderAssumption DEF ChildTypeOK
<1>2. CallTypeOK
  <2>1. [re |-> 0, kind |-> "none"] \in [re : 0..MaxRequests, kind : Outcomes]
    BY MaxRequestsAssumption DEF Outcomes
  <2>2. outcome \in [Ids -> [re : 0..MaxRequests, kind : Outcomes]]
    BY <2>1
  <2> QED
    BY <2>2, MaxRequestsAssumption DEF CallTypeOK
<1>3. LinkTypeOK /\ RestTypeOK /\ queue \in Seq(Line)
  <2>1. stderr \in {"none", "piped", "ended"}
    BY StderrAssumption
  <2>2. queue \in Seq(Line)
    OBVIOUS
  <2> QED
    BY <2>1, <2>2 DEF LinkTypeOK, RestTypeOK
<1>4. WaiterIsFed /\ PausedInv /\ StageInv
  BY DEF WaiterIsFed, PausedInv, StageInv
<1>5. FlightInv
  BY DEF FlightInv, Written
<1>6. OrderInv
  BY DEF OrderInv, InCall, Ids
<1> QED
  BY <1>1, <1>2, <1>3, <1>4, <1>5, <1>6, Types DEF IInv

LEMMA InvStep == IInv /\ [Next]_vars => IInv'
  BY TypeStep, FedStep, FlightStep, StageStep, OrderStep DEF IInv

(* Every behaviour of the session over its transport keeps the invariant.  *)
THEOREM InductiveInvariant == Spec => []IInv
  BY InvInit, InvStep, PTL DEF Spec

(* Every variable keeps its type.                                          *)
THEOREM TypeCorrect == Spec => []TypeOK
<1>1. IInv => TypeOK
  BY DEF IInv
<1> QED
  BY <1>1, InductiveInvariant, PTL

(* LineReader never leaves a waiter behind a paused stream, a queued line  *)
(* or an error it has been given: whoever waits is fed.                    *)
THEOREM WaiterIsFedHolds == Spec => []WaiterIsFed
<1>1. IInv => WaiterIsFed
  BY DEF IInv
<1> QED
  BY <1>1, InductiveInvariant, PTL

(* After close(), a time-out, an abort or a refused hello, a session with  *)
(* nothing left to do has destroyed its streams and seen its child exit.   *)
THEOREM ReleasedHolds == Spec => []ReleasedAtRest
<1>1. IInv => ReleasedAtRest
  BY DEF IInv, StageInv, TypeOK, ReleasedAtRest, AtRest, Stages
<1> QED
  BY <1>1, InductiveInvariant, PTL

-----------------------------------------------------------------------------
(* Refinement: every step of the session maps to a step of the serial      *)
(* connection or leaves its state alone.                                   *)

AbstractStatuses == [i \in Ids |-> AbstractStatus(outcome[i], i)]

(* Its requests are the ids of the session.                                *)
LEMMA AbstractState == Connection!Requests = Ids
  BY DEF Connection!Requests, Ids

(* The next request is new, and all before it are done with.               *)
LEMMA PhaseOrder ==
  ASSUME TypeOK, OrderInv, issued < MaxRequests, pc = "idle"
  PROVE  /\ issued + 1 \in Ids
         /\ AbstractStatuses[issued + 1] = "new"
         /\ \A j \in Ids : j < issued + 1 => AbstractStatuses[j] \notin {"new", "pending"}
<1>1. issued + 1 \in Ids /\ issued \in Nat
  BY MaxRequestsAssumption DEF TypeOK, Ids
<1>2. outcome[issued + 1].kind = "none"
  BY <1>1 DEF OrderInv
<1>3. ASSUME NEW j \in Ids, j < issued + 1
      PROVE  outcome[j].kind \in Outcomes \ {"none", "pending"}
  BY <1>1, <1>3 DEF OrderInv, TypeOK, InCall, Ids
<1> QED
  BY <1>1, <1>2, <1>3
     DEF AbstractStatuses, AbstractStatus, Meaning, Answered, Outcomes

(* One status changes, and with it one abstract status.                    *)
LEMMA OneStatus ==
  ASSUME NEW i \in Ids, NEW o, outcome \in [Ids -> [re : 0..MaxRequests, kind : Outcomes]],
         outcome' = [outcome EXCEPT ![i] = o]
  PROVE  AbstractStatuses' = [AbstractStatuses EXCEPT ![i] = AbstractStatus(o, i)]
<1>1. outcome'[i] = o /\ \A j \in Ids \ {i} : outcome'[j] = outcome[j]
  OBVIOUS
<1>2. \A j \in Ids : AbstractStatus(outcome'[j], j) =
                      IF j = i THEN AbstractStatus(o, i) ELSE AbstractStatus(outcome[j], j)
  BY <1>1, Zenon
<1>3. AbstractStatuses' = [j \in Ids |-> AbstractStatus(outcome'[j], j)]
  BY DEF AbstractStatuses
<1>4. [AbstractStatuses EXCEPT ![i] = AbstractStatus(o, i)]
        = [j \in Ids |-> IF j = i THEN AbstractStatus(o, i) ELSE AbstractStatus(outcome[j], j)]
  BY DEF AbstractStatuses
<1> QED
  BY <1>2, <1>3, <1>4

(* A request starts out: it is pending, or was refused.                    *)
LEMMA NewStatus ==
  ASSUME TypeOK, issued + 1 \in Ids, NEW k \in {"pending", "closed"},
         outcome' = [outcome EXCEPT ![issued + 1] = [re |-> 0, kind |-> k]]
  PROVE  AbstractStatuses' = [AbstractStatuses EXCEPT ![issued + 1] =
               IF k = "pending" THEN "pending" ELSE "refused"]
<1>1. AbstractStatus([re |-> 0, kind |-> k], issued + 1)
         = IF k = "pending" THEN "pending" ELSE "refused"
  BY DEF AbstractStatus, Answered, Meaning
<1>2. outcome \in [Ids -> [re : 0..MaxRequests, kind : Outcomes]]
  BY DEF TypeOK
<1>3. AbstractStatuses' = [AbstractStatuses EXCEPT ![issued + 1] =
               AbstractStatus([re |-> 0, kind |-> k], issued + 1)]
  BY <1>2, OneStatus, Zenon
<1> QED
  BY <1>1, <1>3, Zenon

(* The call in progress settles.                                           *)
LEMMA FinalStatus ==
  ASSUME TypeOK, OrderInv, pc \in InCall,
         NEW k \in {"ok", "err", "bad", "io", "gaveUp"}, NEW r,
         k \in Answered => r = issued,
         outcome' = [outcome EXCEPT ![issued] = [re |-> r, kind |-> k]]
  PROVE  /\ issued \in Ids
         /\ AbstractStatuses[issued] = "pending"
         /\ AbstractStatuses' = [AbstractStatuses EXCEPT ![issued] =
               IF k \in Answered THEN "answered" ELSE "failed"]
<1>1. issued \in Ids /\ outcome[issued].kind = "pending"
  BY DEF OrderInv
<1>2. AbstractStatuses[issued] = "pending"
  BY <1>1 DEF AbstractStatuses, AbstractStatus, Meaning, Answered
<1>3. AbstractStatus([re |-> r, kind |-> k], issued)
         = IF k \in Answered THEN "answered" ELSE "failed"
  BY DEF AbstractStatus, Answered, Meaning
<1>4. AbstractStatuses' = [AbstractStatuses EXCEPT ![issued] =
               IF k \in Answered THEN "answered" ELSE "failed"]
  <2>1. outcome \in [Ids -> [re : 0..MaxRequests, kind : Outcomes]]
    BY DEF TypeOK
  <2>2. AbstractStatuses' = [AbstractStatuses EXCEPT ![issued] =
                 AbstractStatus([re |-> r, kind |-> k], issued)]
    BY <1>1, <2>1, OneStatus, Zenon
  <2> QED
    BY <1>3, <2>2, Zenon
<1> QED
  BY <1>1, <1>2, <1>4

(* The initial state maps to the initial state.                            *)
LEMMA RefinementInit == Init => Connection!Init
  BY DEF Init, Connection!Init, Connection!Requests, Ids, AbstractPhase,
         AbstractStatus, Meaning, Answered

(* Every reaction maps to Open, Close, Answer or Fail, provided a line     *)
(* that is handed over is of the call in progress.                         *)
Opened == Accepted \/ Refused \/ GivesUp \/ Settles("io", 0)
          \/ \E k \in Answered : Settles(k, issued)

LEMMA ReactionMaps ==
  ASSUME IInv, Opened
  PROVE  Connection!Next
<1> USE DEF IInv, StageInv
<1>1. ASSUME UNCHANGED outcome PROVE UNCHANGED AbstractStatuses
  BY <1>1 DEF AbstractStatuses
<1>2. CASE Accepted
  BY <1>1, <1>2 DEF Accepted, NoClose, AbstractPhase, AbstractStatuses, Connection!Open, Connection!Next
<1>3. CASE Refused
  BY <1>1, <1>3 DEF Refused, RefuseHello, AbstractPhase, AbstractStatuses, Connection!Close, Connection!Next
<1>4. ASSUME NEW k \in {"ok", "err", "bad", "io"}, NEW r, k \in Answered => r = issued, Settles(k, r)
      PROVE  Connection!Next
  <2>1. /\ pc \in InCall /\ UNCHANGED AbstractPhase
        /\ outcome' = [outcome EXCEPT ![issued] = [re |-> r, kind |-> k]]
    BY <1>4 DEF Settles, Settle, NoClose, AbstractPhase, InCall
  <2>2. /\ issued \in Ids /\ AbstractStatuses[issued] = "pending"
        /\ AbstractStatuses' = [AbstractStatuses EXCEPT ![issued] =
               IF k \in Answered THEN "answered" ELSE "failed"]
    BY <1>4, <2>1, FinalStatus
  <2>3. Connection!Answer(issued) \/ Connection!Fail(issued)
    BY <2>1, <2>2 DEF Connection!Answer, Connection!Fail, AbstractStatuses
  <2> QED
    BY <2>2, <2>3, AbstractState DEF Connection!Next
<1>5. CASE GivesUp
  <2>1. /\ pc \in InCall /\ closed' = TRUE /\ pc' = "idle"
        /\ outcome' = [outcome EXCEPT ![issued] = [re |-> 0, kind |-> "gaveUp"]]
    BY <1>5 DEF GivesUp, GiveUp, Settle
  <2>2. /\ issued \in Ids /\ AbstractStatuses[issued] = "pending"
        /\ AbstractStatuses' = [AbstractStatuses EXCEPT ![issued] = "failed"]
    BY <2>1, FinalStatus DEF Answered
  <2>3. AbstractPhase' = "closed" /\ AbstractPhase = IF closed THEN "closed" ELSE "open"
    BY <2>1 DEF AbstractPhase, InCall
  <2>4. CASE closed
    BY <2>2, <2>3, <2>4, AbstractState DEF Connection!Fail, Connection!Next, AbstractStatuses
  <2>5. CASE ~closed
    BY <2>2, <2>3, <2>5, AbstractState DEF Connection!Close, Connection!Next, AbstractStatuses
  <2> QED
    BY <2>4, <2>5
<1> QED
  BY <1>2, <1>3, <1>4, <1>5 DEF Opened, Answered

(* What the call in progress is handed is its own line.                    *)
LEMMA LineIsOwn ==
  ASSUME IInv, NEW line \in Line, Resolve(line),
         pc \in InCall => pc \in Written /\ line.id = issued
  PROVE  Opened
<1>1. Accepted \/ Refused \/ Settles(Decoded(line), line.id)
  BY Resolution
<1>2. CASE Settles(Decoded(line), line.id)
  <2>1. Decoded(line) \in Answered /\ line.id = issued
    BY <1>2 DEF Decoded, Answered, Settles
  <2> QED
    BY <1>2, <2>1 DEF Opened
<1> QED
  BY <1>1, <1>2 DEF Opened

LEMMA RefinementStep ==
  ASSUME IInv, [Next]_vars
  PROVE  [Connection!Next]_(Connection!vars)
<1> USE DEF IInv, StageInv
<1>1. ASSUME UNCHANGED <<AbstractPhase, outcome>>
      PROVE  [Connection!Next]_(Connection!vars)
  BY <1>1 DEF Connection!vars, AbstractStatuses
<1>2. ASSUME UNCHANGED <<pc, closed, outcome>>
      PROVE  [Connection!Next]_(Connection!vars)
  BY <1>1, <1>2 DEF AbstractPhase
<1>3. CASE CallRefused
  <2>1. AbstractPhase = "closed" /\ UNCHANGED AbstractPhase
    BY <1>3 DEF CallRefused, AbstractPhase
  <2>2. Connection!Refuse(issued + 1)
    BY <1>3, <2>1, PhaseOrder, NewStatus, AbstractState
       DEF CallRefused, Connection!Refuse, Connection!Next1, AbstractStatuses
  <2> QED
    BY <1>3, <2>2, PhaseOrder, AbstractState DEF CallRefused, Connection!Next
<1>4. CASE CallStart
  <2>1. AbstractPhase = "open" /\ UNCHANGED AbstractPhase
    BY <1>4 DEF CallStart, AbstractPhase
  <2>2. Connection!Submit(issued + 1)
    BY <1>4, <2>1, PhaseOrder, NewStatus, AbstractState
       DEF CallStart, Connection!Submit, Connection!Next1, AbstractStatuses
  <2> QED
    BY <1>4, <2>2, PhaseOrder, AbstractState DEF CallStart, Connection!Next
<1>5. ASSUME DoClose, pc \notin {"hello", "refused"}, pc' \notin {"hello", "refused"}, UNCHANGED outcome
      PROVE  [Connection!Next]_(Connection!vars)
  <2>1. closed' = TRUE
    BY <1>5 DEF DoClose
  <2>2. CASE closed
    BY <1>1, <1>5, <2>1, <2>2 DEF AbstractPhase
  <2>3. CASE ~closed
    BY <1>5, <2>1, <2>3 DEF AbstractPhase, AbstractStatuses, Connection!Close, Connection!Next
  <2> QED
    BY <2>2, <2>3
<1>6. CASE Close
  BY <1>5, <1>6 DEF Close, InCall
<1>7. CASE OverwriteCloses
  BY <1>1, <1>5, <1>7 DEF OverwriteCloses, AbstractPhase
<1>8. CASE CallWriteFailed
  BY <1>8, ReactionMaps DEF CallWriteFailed, Opened, Settles, NoClose, InCall
<1>9. CASE CallWritten
  <2>1. pc = "writing"
    BY <1>9 DEF CallWritten
  <2>2. CASE TakeQueued /\ Resolve(Head(queue))
    <3>1. Head(queue) \in Line /\ Head(queue).id = issued
      BY <2>1, <2>2, HeadTail DEF TypeOK, TakeQueued, FlightInv, NextIsOwn, Written
    <3> QED
      BY <2>1, <2>2, <3>1, LineIsOwn, ReactionMaps DEF Written
  <2>3. CASE Reject \/ GiveUp
    BY <2>1, <2>3, Rejection, ReactionMaps DEF Opened, GivesUp, InCall
  <2>4. CASE pc' = "reading" /\ UNCHANGED outcome /\ NoClose
    BY <1>1, <2>1, <2>4 DEF NoClose, AbstractPhase
  <2> QED
    BY <1>9, <2>2, <2>3, <2>4 DEF CallWritten
<1>10. CASE ReadGivesUp
  BY <1>10, ReactionMaps DEF ReadGivesUp, Opened, Refused, GivesUp, InCall
<1>11. CASE StdoutData
  <2>1. PICK n \in 1..Len(fromChild) : \E m \in 0..n : Chunk(n, m)
    BY <1>11, Received
  <2> PICK m \in 0..n : Chunk(n, m)
    BY <2>1
  <2>2. CASE Keeps(m)
    BY <1>2, <2>2 DEF Keeps, NoClose
  <2>3. CASE Hands(m)
    <3>1. fromChild[1] \in Line /\ fromChild # <<>>
      BY <2>1 DEF TypeOK, ChildTypeOK, Chunk
    <3>2. pc \in InCall => pc \in Written /\ fromChild[1].id = issued
      BY <2>3, <3>1 DEF Hands, WaiterIsFed, Waiting, InCall, FlightInv, Written, NextIsOwn
    <3> QED
      BY <2>3, <3>1, <3>2, LineIsOwn, ReactionMaps DEF Hands
  <2>4. CASE Breaks
    BY <2>4, Rejection, ReactionMaps DEF Breaks, Opened
  <2> QED
    BY <2>2, <2>3, <2>4 DEF Chunk
<1>12. CASE StdoutEnd
  BY <1>2, <1>12, Rejection, ReactionMaps DEF StdoutEnd, Opened, NoClose
<1>13. CASE UNCHANGED vars
  BY <1>2, <1>13
<1>14. CASE CloseWritten \/ Terminate \/ Kill \/ Destroy \/ StderrEnd \/ ExitEvent
            \/ CloseEvent \/ ChildStep
  BY <1>2, <1>14
     DEF CloseWritten, Terminate, Kill, Escalate, Destroy, StderrEnd, ExitEvent,
         CloseEvent, ChildStep
<1> QED
  BY <1>3, <1>4, <1>6, <1>7, <1>8, <1>9, <1>10, <1>11, <1>12, <1>13, <1>14
     DEF Next, User, CallStep, CloseStep, NodeStep

(* The queue of calls over DirectTransport implements the serial           *)
(* connection, although close() goes past it: a call is answered with its  *)
(* own response or fails, and a closed session refuses for good.           *)
THEOREM Refinement == Spec => ImplementsConnection
<1>1. IInv /\ [Next]_vars => [Connection!Next]_(Connection!vars)
  BY RefinementStep
<1> QED
  BY <1>1, RefinementInit, InductiveInvariant, PTL
     DEF Spec, ImplementsConnection, Connection!Spec

=============================================================================
