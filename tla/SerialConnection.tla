-------------------------- MODULE SerialConnection --------------------------
(***************************************************************************)
(* What every driver's connection promises its callers, whatever carries   *)
(* the bytes: requests are numbered in the order they are admitted, one is *)
(* in progress at a time, each one admitted gets the answer to itself or   *)
(* fails, and a closed connection is closed for good: a request submitted  *)
(* to it is refused.  No driver-specific state appears here.               *)
(***************************************************************************)
EXTENDS Naturals

CONSTANT MaxRequests   \* bound: how many requests are ever submitted

VARIABLES phase,       \* "opening", "open" or "closed"
          status       \* each request: new, pending, answered, failed, refused

Requests == 1..MaxRequests

Init == /\ phase = "opening"
        /\ status = [i \in Requests |-> "new"]

(* The hello line was accepted.                                            *)
Open == /\ phase = "opening"
        /\ phase' = "open"
        /\ UNCHANGED status

(* The connection ends: a failed hello, a close, a time-out.  A request in *)
(* progress may fail with it.                                              *)
Close == /\ phase # "closed"
         /\ phase' = "closed"
         /\ \/ UNCHANGED status
            \/ \E i \in Requests :
                 /\ status[i] = "pending"
                 /\ status' = [status EXCEPT ![i] = "failed"]

(* Requests are taken one at a time, in order.                             *)
Next1(i) == /\ status[i] = "new"
            /\ \A j \in Requests : j < i => status[j] \notin {"new", "pending"}

Submit(i) == /\ phase = "open"
             /\ Next1(i)
             /\ status' = [status EXCEPT ![i] = "pending"]
             /\ UNCHANGED phase

Refuse(i) == /\ phase = "closed"
             /\ Next1(i)
             /\ status' = [status EXCEPT ![i] = "refused"]
             /\ UNCHANGED phase

(* The caller got the answer to its own request.                           *)
Answer(i) == /\ status[i] = "pending"
             /\ status' = [status EXCEPT ![i] = "answered"]
             /\ UNCHANGED phase

Fail(i) == /\ status[i] = "pending"
           /\ status' = [status EXCEPT ![i] = "failed"]
           /\ UNCHANGED phase

Next == \/ Open
        \/ Close
        \/ \E i \in Requests : Submit(i) \/ Refuse(i) \/ Answer(i) \/ Fail(i)

vars == <<phase, status>>

Spec == Init /\ [][Next]_vars
=============================================================================
