----------------------------- MODULE RustScalars ----------------------------
(***************************************************************************)
(* The scalars of the wire: numbers, strings and the base64 of a BLOB, as  *)
(* the Rust driver reads and writes them (json.rs, base64.rs), against     *)
(* RFC 8259 and RFC 4648.  Every property is of any text.                  *)
(***************************************************************************)
EXTENDS JsonTokens, RustBase64

CONSTANTS Pieces,       \* what a text is made of, by kind of text
          MaxPieces     \* bound: how many pieces, by kind of text

ASSUME PiecesAssumption == \A k \in DOMAIN Pieces : Pieces[k] \subseteq Seq(CodePoints)

(* The texts of a run: of some kind, and grown a piece at a time.  What    *)
(* else moves while a text grows, or stays empty, TextSpec leaves open.    *)
VARIABLES kind, text, size
textVars == <<kind, text, size>>

TextKinds == DOMAIN Pieces
NoText    == text = <<>> /\ size = 0

Grow ==
    /\ kind \in TextKinds /\ size < MaxPieces[kind]
    /\ size' = size + 1
    /\ \E p \in Pieces[kind] : text' = text \o p
    /\ UNCHANGED kind

TextSpec == NoText /\ [][Grow]_textVars

-----------------------------------------------------------------------------
(* Base64 of a BLOB is taken in full or not at all: the texts accepted are *)
(* those RFC 4648 has, padded at the end and nowhere else, and the bytes   *)
(* are the bits of the text (base64.rs:53-118).                            *)
Base64Strict == DecodesStrictly(text)

(* The scanner of numbers takes what the grammar calls a number, and all   *)
(* of it: it stops before what cannot go on one (json.rs:286-326).         *)
NumbersScanned ==
    \A p \in DOMAIN text :
        LET r == ParseNumber(text, p) IN
        /\ r.ok => \E q \in p..Len(text) : /\ IsNumber(SubSeq(text, p, q))
                                           /\ r = Found(q + 1, Number(SubSeq(text, p, q)))
        /\ \A q \in p..Len(text) :
              /\ Peek(text, q + 1) \notin Digits \cup ExpMarks \cup {Dot}
              /\ IsNumber(SubSeq(text, p, q))
              => r = Found(q + 1, Number(SubSeq(text, p, q)))

(* The scanner of strings finds a string where the grammar has one, with   *)
(* the characters it stands for, and nowhere else: each escape is the      *)
(* character it is for, a surrogate is half of a pair or an error          *)
(* (json.rs:328-410).                                                      *)
StringsScanned ==
    \A p \in DOMAIN text :
        LET r == ParseString(text, p) IN
        /\ r.ok => \E q \in p..Len(text) : /\ r.val \in Strings(SubSeq(text, p, q))
                                           /\ r = Found(q + 1, r.val)
        /\ \A q \in p..Len(text) : \A s \in Strings(SubSeq(text, p, q)) : r = Found(q + 1, s)

(* What is written of a string is read back as that string, whatever it    *)
(* contains and whatever comes after it, and no control character is in    *)
(* it, so no newline ends the request line early (json.rs:190-212).        *)
StringsSurvive ==
    \A n \in 0..Len(text) :
        LET s       == Upto(text, n)
            written == WriteString(s)
        IN /\ \A i \in DOMAIN written : written[i] >= 32
           /\ ParseString(written \o From(text, n + 1), 1) = Found(Len(written) + 1, s)
=============================================================================
