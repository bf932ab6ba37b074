---------------------------- MODULE ChildProofs ----------------------------
(***************************************************************************)
(* What the proofs about the drivers need of the server of module Child    *)
(* and of sequences.                                                       *)
(***************************************************************************)
EXTENDS Child, SequenceTheorems, TLAPS

(* A line and the rest of a queue.                                         *)
LEMMA HeadTail ==
  ASSUME NEW S, NEW s \in Seq(S), s # <<>>
  PROVE  Head(s) \in S /\ Head(s) = s[1] /\ Tail(s) \in Seq(S) /\ Len(Tail(s)) = Len(s) - 1
  OBVIOUS

(* The first n elements, and what follows them.                            *)
LEMMA Parts ==
  ASSUME NEW S, NEW s \in Seq(S), NEW n \in 0..Len(s)
  PROVE  /\ SubSeq(s, 1, n) \in Seq(S) /\ Len(SubSeq(s, 1, n)) = n
         /\ n > 0 => SubSeq(s, 1, n)[1] = s[1]
         /\ SubSeq(s, n + 1, Len(s)) \in Seq(S)
         /\ Len(SubSeq(s, n + 1, Len(s))) = Len(s) - n
<1>1. \A i \in 1..Len(s) : s[i] \in S
  OBVIOUS
<1>2. /\ SubSeq(s, 1, n) \in Seq(S) /\ Len(SubSeq(s, 1, n)) = n
      /\ \A i \in 1..n : SubSeq(s, 1, n)[i] = s[i]
  BY <1>1, SubSeqProperties
<1>3. /\ SubSeq(s, n + 1, Len(s)) \in Seq(S)
      /\ Len(SubSeq(s, n + 1, Len(s))) = Len(s) - n
  BY <1>1, SubSeqProperties
<1> QED
  BY <1>2, <1>3

(* One more element at the end.                                            *)
LEMMA Appended ==
  ASSUME NEW S, NEW s \in Seq(S), NEW e \in S
  PROVE  /\ Append(s, e) \in Seq(S) /\ Len(Append(s, e)) = Len(s) + 1
         /\ \A i \in 1..Len(s) : Append(s, e)[i] = s[i]
         /\ Append(s, e)[Len(s) + 1] = e
         /\ Append(s, e)[1] = IF s = <<>> THEN e ELSE s[1]
<1>1. /\ Append(s, e) \in Seq(S) /\ Len(Append(s, e)) = Len(s) + 1
      /\ \A i \in 1..Len(s) : Append(s, e)[i] = s[i]
      /\ Append(s, e)[Len(s) + 1] = e
  BY AppendProperties
<1>2. s # <<>> => Len(s) >= 1
  BY EmptySeq
<1>3. s = <<>> => Len(s) = 0
  OBVIOUS
<1> QED
  BY <1>1, <1>2, <1>3

(* What the server puts on its stdout: its hello, or the answer to the     *)
(* first request, the response line of which has its id.                   *)
Says(line) ==
    /\ line \in Line /\ fromChild' = Append(fromChild, line)
    /\ \/ /\ child = "booting" /\ child' = "serving" /\ line.id = 0
          /\ UNCHANGED toChild
       \/ /\ child = "serving" /\ child' \in {"serving", "leaving"}
          /\ toChild # <<>> /\ line.id = toChild[1].id /\ toChild' = Tail(toChild)
    /\ UNCHANGED <<holders, signal, room>>

LEMMA ChildSteps ==
  ASSUME ChildTypeOK, ChildNext
  PROVE  \/ \E line : Says(line)
         \/ ChildDies
         \/ HolderReleases
<1>1. CASE ChildHello
  <2>1. PICK k \in HelloKinds : fromChild' = Append(fromChild, [id |-> 0, kind |-> k])
    BY <1>1 DEF ChildHello
  <2>2. [id |-> 0, kind |-> k] \in Line
    BY MaxRequestsAssumption DEF Line, LineKinds, HelloKinds
  <2>3. Says([id |-> 0, kind |-> k])
    BY <1>1, <2>1, <2>2 DEF ChildHello, Says
  <2> QED
    BY <2>3
<1>2. CASE ChildAnswer
  <2>1. toChild # <<>> /\ Head(toChild) = toChild[1] /\ toChild[1] \in Request
    BY <1>2, HeadTail DEF ChildAnswer, ChildTypeOK
  <2>2. PICK k \in AnswerKinds :
           /\ fromChild' = Append(fromChild, [id |-> toChild[1].id, kind |-> k])
           /\ child' \in {"leaving", child}
    BY <1>2, <2>1 DEF ChildAnswer
  <2>3. [id |-> toChild[1].id, kind |-> k] \in Line
    BY <2>1 DEF Request, Line, LineKinds, AnswerKinds
  <2>4. Says([id |-> toChild[1].id, kind |-> k])
    BY <1>2, <2>1, <2>2, <2>3 DEF ChildAnswer, Says
  <2> QED
    BY <2>4
<1> QED
  BY <1>1, <1>2 DEF ChildNext

(* The server keeps its pipes well typed.                                  *)
LEMMA ChildNextType ==
  ASSUME ChildTypeOK, ChildNext
  PROVE  ChildTypeOK'
<1>1. ASSUME NEW line, Says(line) PROVE ChildTypeOK'
  <2>1. fromChild' \in Seq(Line)
    BY <1>1, Appended DEF Says, ChildTypeOK
  <2>2. toChild' \in Seq(Request)
    BY <1>1, HeadTail DEF Says, ChildTypeOK
  <2> QED
    BY <1>1, <2>1, <2>2 DEF Says, ChildTypeOK
<1>2. CASE ChildDies \/ HolderReleases
  BY <1>2 DEF ChildDies, HolderReleases, ChildTypeOK
<1> QED
  BY <1>1, <1>2, ChildSteps

(* A request at the end of the stdin pipe.                                 *)
LEMMA RequestType ==
  ASSUME ChildTypeOK, NEW r \in Request, toChild' = Append(toChild, r),
         UNCHANGED <<child, fromChild, holders, signal, room>>
  PROVE  ChildTypeOK'
<1>1. toChild' \in Seq(Request)
  BY Appended DEF ChildTypeOK
<1> QED
  BY <1>1 DEF ChildTypeOK

LEMMA CloseRequestType == CloseRequest \in Request
  BY MaxRequestsAssumption DEF CloseRequest, Request
=============================================================================
