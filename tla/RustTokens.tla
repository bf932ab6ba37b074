----------------------------- MODULE RustTokens -----------------------------
(***************************************************************************)
(* What the JSON of the Rust driver is made of: numbers, strings and       *)
(* literals, as its parser reads and its writer writes them (the part of   *)
(* rust/src/codec/json.rs that does not nest).  A text is a sequence of    *)
(* Unicode code points: what str::from_utf8 makes of a line, or refuses,   *)
(* is the library's business.  A parse at position p fails, or has found a *)
(* value and the position after it.                                        *)
(***************************************************************************)
EXTENDS Integers, Sequences

CodePoints == {c \in Nat : c <= 1114111}

Number(raw) == [t |-> "number", raw |-> raw]       \* NumberToken: the text itself

Newline     == 10
Quote       == 34
Plus        == 43
Comma       == 44
Minus       == 45
Dot         == 46
Colon       == 58
Backslash   == 92
OpenArray   == 91
CloseArray  == 93
OpenObject  == 123
CloseObject == 125
Digits     == 48..57
ExpMarks   == {69, 101}                             \* E and e
Whitespace == {32, 9, Newline, 13}
TrueText  == <<116, 114, 117, 101>>
FalseText == <<102, 97, 108, 115, 101>>
NullText  == <<110, 117, 108, 108>>
(* The characters after a backslash that stand for one, and for which.     *)
Escapes == [c \in {34, 92, 47, 98, 102, 110, 114, 116} |->
               IF c \in {34, 92, 47} THEN c
               ELSE CASE c = 98 -> 8 [] c = 102 -> 12 [] c = 110 -> Newline
                      [] c = 114 -> 13 [] c = 116 -> 9]

-----------------------------------------------------------------------------
(* The writer.                                                             *)

HexDigit(d) == IF d < 10 THEN 48 + d ELSE 97 + (d - 10)

(* Fault: a newline is not escaped.                                        *)
WriteChar_RawNewline(c) ==
    IF c \in {Quote, Backslash} THEN <<Backslash, c>>
    ELSE IF c < 32 /\ c # Newline THEN <<Backslash, 117, 48, 48, HexDigit(c \div 16), HexDigit(c % 16)>>
    ELSE <<c>>

WriteChar(c) ==
    IF \E x \in DOMAIN Escapes \ {47} : Escapes[x] = c
    THEN <<Backslash, CHOOSE x \in DOMAIN Escapes \ {47} : Escapes[x] = c>>
    ELSE IF c < 32 THEN <<Backslash, 117, 48, 48, HexDigit(c \div 16), HexDigit(c % 16)>>
    ELSE <<c>>

WriteString(s) ==
    LET out[i \in 0..Len(s)] == IF i = 0 THEN <<Quote>> ELSE out[i - 1] \o WriteChar(s[i])
    IN Append(out[Len(s)], Quote)

-----------------------------------------------------------------------------
(* The parser.                                                             *)

Fail          == [ok |-> FALSE]
Found(p, val) == [ok |-> TRUE, pos |-> p, val |-> val]

EndOfText  == 0 - 1
Peek(t, p) == IF p <= Len(t) THEN t[p] ELSE EndOfText

SkipAll(t, p, S) == CHOOSE q \in p..Len(t) + 1 :
                        Peek(t, q) \notin S /\ \A r \in p..q - 1 : t[r] \in S
SkipWs(t, p) == SkipAll(t, p, Whitespace)

(* Go on from what r has found, unless it failed.                          *)
Then(r, GoOn(_, _)) == IF r.ok THEN GoOn(r.pos, r.val) ELSE Fail

ParseLiteral(t, p, lit, val) ==
    LET end == p + Len(lit) IN
    IF end - 1 <= Len(t) /\ SubSeq(t, p, end - 1) = lit THEN Found(end, val) ELSE Fail

(* A number: an optional sign, 0 or digits without a leading 0, a point    *)
(* with digits, an exponent with digits.                                   *)
SomeDigits(t, p) ==
    IF Peek(t, p) \in Digits THEN Found(SkipAll(t, p, Digits), <<>>) ELSE Fail

IntPart(t, p)  == IF Peek(t, p) = 48 THEN Found(p + 1, <<>>) ELSE SomeDigits(t, p)

(* Fault: a point without a digit after it.                                *)
FracPart_Bare(t, p) ==
    Found(IF Peek(t, p) = Dot THEN SkipAll(t, p + 1, Digits) ELSE p, <<>>)

FracPart(t, p) == IF Peek(t, p) = Dot THEN SomeDigits(t, p + 1) ELSE Found(p, <<>>)

ExpPart(t, p)  ==
    IF Peek(t, p) \in ExpMarks
    THEN SomeDigits(t, IF Peek(t, p + 1) \in {Plus, Minus} THEN p + 2 ELSE p + 1)
    ELSE Found(p, <<>>)

ParseNumber(t, p) ==
    Then(IntPart(t, IF Peek(t, p) = Minus THEN p + 1 ELSE p), LAMBDA i, x :
    Then(FracPart(t, i), LAMBDA f, y :
    Then(ExpPart(t, f), LAMBDA e, z : Found(e, Number(SubSeq(t, p, e - 1))))))

HexValue(c) == IF c \in Digits THEN c - 48
               ELSE IF c \in 97..102 THEN c - 87
               ELSE IF c \in 65..70 THEN c - 55 ELSE 0 - 1

ParseHex4(t, p) ==
    IF p + 3 > Len(t) \/ \E q \in p..p + 3 : HexValue(t[q]) < 0 THEN Fail
    ELSE Found(p + 4, 4096 * HexValue(t[p]) + 256 * HexValue(t[p + 1])
                      + 16 * HexValue(t[p + 2]) + HexValue(t[p + 3]))

HighSurrogates == 55296..56319      \* D800..DBFF
LowSurrogates  == 56320..57343      \* DC00..DFFF

Joined(high, low) == 65536 + 1024 * (high - 55296) + (low - 56320)

(* Fault: what follows a high surrogate may be any code unit.              *)
ParseUnicode_AnyLow(t, p) ==
    Then(ParseHex4(t, p), LAMBDA q, high :
        IF high \in LowSurrogates THEN Fail
        ELSE IF high \notin HighSurrogates THEN Found(q, high)
        ELSE IF Peek(t, q) # Backslash \/ Peek(t, q + 1) # 117 THEN Fail
        ELSE Then(ParseHex4(t, q + 2), LAMBDA end, low : Found(end, Joined(high, low))))

(* \uXXXX, p after the u: a high surrogate has to be followed by a low one *)
(* and makes one code point with it.                                       *)
ParseUnicode(t, p) ==
    Then(ParseHex4(t, p), LAMBDA q, high :
        IF high \in LowSurrogates THEN Fail
        ELSE IF high \notin HighSurrogates THEN Found(q, high)
        ELSE IF Peek(t, q) # Backslash \/ Peek(t, q + 1) # 117 THEN Fail
        ELSE Then(ParseHex4(t, q + 2), LAMBDA end, low :
                 IF low \notin LowSurrogates THEN Fail
                 ELSE Found(end, Joined(high, low))))

ParseEscape(t, p) ==
    IF Peek(t, p) \in DOMAIN Escapes THEN Found(p + 1, Escapes[t[p]])
    ELSE IF Peek(t, p) = 117 THEN ParseUnicode(t, p + 1) ELSE Fail

(* One character of a string.  Less than 32: a control character, or the   *)
(* end of the text.                                                        *)
ParseChar(t, p) ==
    IF Peek(t, p) = Backslash THEN ParseEscape(t, p + 1)
    ELSE IF Peek(t, p) < 32 THEN Fail ELSE Found(p + 1, t[p])

(* chars[q] is what is found from q on, up to the closing quote.           *)
ParseString(t, p) ==
    LET chars[q \in 1..Len(t) + 1] ==
            IF Peek(t, q) = Quote THEN Found(q + 1, <<>>)
            ELSE Then(ParseChar(t, q), LAMBDA next, c :
                 Then(chars[next], LAMBDA end, s : Found(end, <<c>> \o s)))
    IN IF Peek(t, p) = Quote THEN chars[p + 1] ELSE Fail
=============================================================================
