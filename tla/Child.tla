------------------------------- MODULE Child -------------------------------
(***************************************************************************)
(* EXTERNAL: the SanDBox server a direct transport launches, as the        *)
(* drivers see it across its pipes.  The server is not in the repository;  *)
(* what is written here is what the drivers rely on (one hello line, then  *)
(* one response line per request line, in order, no request id) together   *)
(* with everything they defend against: a malformed or over-long line, a   *)
(* server that never answers, that dies at any moment, that ignores the    *)
(* end of its stdin and SIGTERM, that does not read its stdin, and a       *)
(* grandchild that keeps a pipe open after the server is dead.             *)
(*                                                                         *)
(* A request line is [op, id] and a response line [id, kind]: the id is a  *)
(* ghost, never on the wire, that says which request a line answers.       *)
(***************************************************************************)
EXTENDS Naturals, Sequences

CONSTANTS MaxRequests,    \* bound: how many requests callers issue
          RoomChoices,    \* how many request lines the stdin pipe may buffer
          HolderChoices   \* which sets of pipes a grandchild may hold open

ASSUME MaxRequestsAssumption == MaxRequests \in Nat
ASSUME RoomAssumption        == RoomChoices \subseteq Nat
ASSUME HolderAssumption      == HolderChoices \subseteq SUBSET {"stdout", "stderr"}

VARIABLES child,      \* "booting", "serving", "leaving" or "dead"
          toChild,    \* the stdin pipe: request lines not yet taken
          fromChild,  \* the stdout pipe: response lines not yet read
          holders,    \* the pipes a grandchild still holds open
          signal,     \* the strongest signal sent: "none", "term" or "kill"
          room        \* lines the stdin pipe buffers before a writer has to wait

childVars == <<child, toChild, fromChild, holders, signal, room>>

Ids        == 1..MaxRequests
Request    == [op : {"call", "overwrite", "close"}, id : 0..MaxRequests]
LineKinds  == {"hello", "wrong", "ok", "err", "bad", "long"}
Line       == [id : 0..MaxRequests, kind : LineKinds]

(* The hello line: valid, of another protocol version, not a hello, or a   *)
(* line beyond the 2 MiB limit.                                            *)
HelloKinds  == {"hello", "wrong", "bad", "long"}
(* A response: ok, a typed error, not decodable, or beyond the limit.      *)
AnswerKinds == {"ok", "err", "bad", "long"}

CloseRequest == [op |-> "close", id |-> 0]

ChildTypeOK ==
    /\ child \in {"booting", "serving", "leaving", "dead"}
    /\ toChild \in Seq(Request)
    /\ fromChild \in Seq(Line)
    /\ holders \in SUBSET {"stdout", "stderr"}
    /\ signal \in {"none", "term", "kill"}
    /\ room \in Nat

ChildInit ==
    /\ child = "booting"
    /\ toChild = <<>>
    /\ fromChild = <<>>
    /\ holders \in HolderChoices
    /\ signal = "none"
    /\ room \in RoomChoices

ChildHello ==
    /\ child = "booting"
    /\ child' = "serving"
    /\ \E k \in HelloKinds : fromChild' = Append(fromChild, [id |-> 0, kind |-> k])
    /\ UNCHANGED <<toChild, holders, signal, room>>

(* One request in, one line out.  After the close op, and after a          *)
(* successful overwrite, the server is on its way out.                     *)
ChildAnswer ==
    /\ child = "serving"
    /\ toChild # <<>>
    /\ toChild' = Tail(toChild)
    /\ LET r == Head(toChild) IN
       \E k \in AnswerKinds :
          /\ fromChild' = Append(fromChild, [id |-> r.id, kind |-> k])
          /\ child' = IF r.op = "close" \/ (r.op = "overwrite" /\ k = "ok")
                      THEN "leaving" ELSE child
    /\ UNCHANGED <<holders, signal, room>>

(* The server may end at any moment: by itself, at the end of its stdin,   *)
(* on a signal.  Lines already written stay readable in the pipe.          *)
ChildDies ==
    /\ child # "dead"
    /\ child' = "dead"
    /\ UNCHANGED <<toChild, fromChild, holders, signal, room>>

(* The grandchild that held a pipe open closes it.                         *)
HolderReleases ==
    /\ \E h \in holders : holders' = holders \ {h}
    /\ UNCHANGED <<child, toChild, fromChild, signal, room>>

ChildNext == ChildHello \/ ChildAnswer \/ ChildDies \/ HolderReleases

(* SIGKILL cannot be ignored.                                              *)
ChildKilled == signal = "kill" /\ ChildDies

(* A pipe reads as ended once the server is dead and no grandchild has it. *)
StdoutEnded == child = "dead" /\ "stdout" \notin holders
StderrEnded == child = "dead" /\ "stderr" \notin holders

-----------------------------------------------------------------------------
(* What a driver's reader makes of the pipe: a line, or the terminal item  *)
(* of the end of the pipe or of a line beyond the limit.                   *)
NoItem    == [id |-> 0, kind |-> "none"]
EofItem   == [id |-> 0, kind |-> "eof"]
Terminals == {"eof", "long"}
Items     == [id : 0..MaxRequests, kind : LineKinds \cup {"eof"}]
(* What a caller is told that came from a response line.                   *)
Answered  == {"ok", "err", "bad"}
=============================================================================
