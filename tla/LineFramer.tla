----------------------------- MODULE LineFramer -----------------------------
(***************************************************************************)
(* LineFramer (rust/src/transport/mod.rs): bytes in, lines out.  The       *)
(* buffer is searched for a newline from `scanned` on only, so that a line *)
(* of many chunks is not searched again and again; and an open line that   *)
(* has outgrown MaxLineBytes is refused.                                   *)
(*                                                                         *)
(* A byte is a record with a field nl, is it a newline; what else it holds *)
(* is for the modules that extend this one.  Its callers always push and   *)
(* then take a line, so an action here is both, of a chunk that may be     *)
(* empty: it pops a line, waits for more bytes, or refuses the line.       *)
(***************************************************************************)
EXTENDS Integers, Sequences

CONSTANT MaxLineBytes    \* MAX_LINE_BYTES: 2 MiB in the code

ASSUME MaxLineBytesAssumption == MaxLineBytes \in Nat

VARIABLES buf,       \* bytes pushed and not yet handed out
          scanned,   \* how many of them are known to hold no newline
          stream,    \* ghost: every byte ever pushed
          ends,      \* ghost: where in the stream each handed out line ended
          lines      \* ghost: the lines handed out, without their newline

framerVars == <<buf, scanned, stream, ends, lines>>

FramerInit == /\ buf = <<>> /\ scanned = 0
              /\ stream = <<>> /\ ends = <<>> /\ lines = <<>>

NewlinesAfter(b, n) == {p \in n + 1 .. Len(b) : b[p].nl}

(* How much of the stream has been handed out, newlines included.          *)
Taken == IF ends = <<>> THEN 0 ELSE ends[Len(ends)]

(* Fault: drain(..pos) for drain(..=pos), the newline stays.               *)
Pops_NewlineKept(chunk) ==
    LET b == buf \o chunk IN
    \E p \in NewlinesAfter(b, scanned) :
        /\ \A q \in NewlinesAfter(b, scanned) : p <= q
        /\ buf' = SubSeq(b, p, Len(b))
        /\ scanned' = 0
        /\ lines' = Append(lines, SubSeq(b, 1, p - 1))
        /\ ends' = Append(ends, Taken + p)
        /\ stream' = stream \o chunk

Pops(chunk) ==
    LET b == buf \o chunk IN
    \E p \in NewlinesAfter(b, scanned) :
        /\ \A q \in NewlinesAfter(b, scanned) : p <= q
        /\ buf' = SubSeq(b, p + 1, Len(b))
        /\ scanned' = 0
        /\ lines' = Append(lines, SubSeq(b, 1, p - 1))
        /\ ends' = Append(ends, Taken + p)
        /\ stream' = stream \o chunk

(* No newline: all of the buffer is scanned now.                           *)
Keeps(chunk) ==
    LET b == buf \o chunk IN
    /\ NewlinesAfter(b, scanned) = {}
    /\ buf' = b
    /\ scanned' = Len(b)
    /\ stream' = stream \o chunk
    /\ UNCHANGED <<ends, lines>>

(* Fault: a line of MaxLineBytes is one too long.                          *)
Refuses_AtLimit(chunk) == Keeps(chunk) /\ Len(buf') >= MaxLineBytes

Waits(chunk)   == Keeps(chunk) /\ Len(buf') <= MaxLineBytes
Refuses(chunk) == Keeps(chunk) /\ Len(buf') > MaxLineBytes

-----------------------------------------------------------------------------
(* The lines handed out are the stream split at its newlines, none lost,   *)
(* torn or joined, however the stream was cut into chunks; what has not    *)
(* been handed out is in the buffer; and the scanned part of the buffer    *)
(* really has no newline, although nobody looks there again.               *)

StartOf(k) == IF k = 1 THEN 1 ELSE ends[k - 1] + 1

FramedAsSent ==
    /\ Len(lines) = Len(ends)
    /\ Taken <= Len(stream)
    /\ buf = SubSeq(stream, Taken + 1, Len(stream))
    /\ scanned <= Len(buf)
    /\ \A p \in 1..scanned : ~buf[p].nl
    /\ \A k \in DOMAIN ends :
          /\ ends[k] \in StartOf(k)..Len(stream)
          /\ stream[ends[k]].nl
          /\ \A p \in StartOf(k)..ends[k] - 1 : ~stream[p].nl
          /\ lines[k] = SubSeq(stream, StartOf(k), ends[k] - 1)
=============================================================================
