----------------------------- MODULE JsonTokens -----------------------------
(***************************************************************************)
(* Reference: the numbers and strings of JSON as RFC 8259 has them, as a   *)
(* grammar.  A rule says how a text splits, not how to read it from left   *)
(* to right.                                                               *)
(***************************************************************************)
EXTENDS RustTokens

All(t, S) == \A i \in DOMAIN t : t[i] \in S
Enclosed(t, open, close) == Len(t) >= 2 /\ t[1] = open /\ t[Len(t)] = close
From(t, i) == SubSeq(t, i, Len(t))
Upto(t, i) == SubSeq(t, 1, i)

(* number = [minus] int [frac] [exp]                                       *)
IsInt(t)  == t # <<>> /\ All(t, Digits) /\ (Len(t) > 1 => t[1] # 48)
IsFrac(t) == t = <<>> \/ (Len(t) > 1 /\ t[1] = Dot /\ All(Tail(t), Digits))
IsExp(t)  == t = <<>> \/ /\ t[1] \in ExpMarks
                         /\ \E i \in {2, 3} : /\ i <= Len(t) /\ All(From(t, i), Digits)
                                              /\ i = 3 => t[2] \in {Plus, Minus}
IsNumber(t) ==
    \E m \in {0, 1} : \E i \in m..Len(t) :
        /\ m = 1 => t[1] = Minus
        /\ IsInt(SubSeq(t, m + 1, i))
        /\ \E j \in i..Len(t) : IsFrac(SubSeq(t, i + 1, j)) /\ IsExp(From(t, j + 1))

(* A character of a string: itself, \ and a letter, one \u escape, or two  *)
(* that are the halves of a UTF-16 pair.                                   *)
Hex(t) == LET V(c) == CHOOSE d \in 0..15 : c \in {HexDigit(d), HexDigit(d) - (IF d > 9 THEN 32 ELSE 0)}
          IN V(t[1]) * 4096 + V(t[2]) * 256 + V(t[3]) * 16 + V(t[4])
IsHex(t)    == All(t, Digits \cup 97..102 \cup 65..70)
IsEscape(t) == Upto(t, 2) = <<Backslash, 117>> /\ IsHex(From(t, 3))
Itself(t)   == {c \in {t[1]} : c >= 32 /\ c \notin {Quote, Backslash}}
Lettered(t) == {Escapes[c] : c \in {x \in DOMAIN Escapes : t = <<Backslash, x>>}}
Coded(t)    == IF IsEscape(t) THEN {c \in {Hex(From(t, 3))} : c \div 2048 # 27} ELSE {}
Paired(t)   ==
    LET high == Hex(SubSeq(t, 3, 6))
        low  == Hex(SubSeq(t, 9, 12))
    IN IF IsEscape(Upto(t, 6)) /\ IsEscape(From(t, 7))
       THEN {c \in {65536 + (high % 1024) * 1024 + (low % 1024)} :
                high \div 1024 = 54 /\ low \div 1024 = 55}
       ELSE {}
Chars(t) == CASE Len(t) = 1  -> Itself(t)
              [] Len(t) = 2  -> Lettered(t)
              [] Len(t) = 6  -> Coded(t)
              [] Len(t) = 12 -> Paired(t)
              [] OTHER       -> {}
Prefixed(cs, ss) == {<<c>> \o s : c \in cs, s \in ss}
(* Strings(t) is what the text t denotes as a string: nothing if it is not *)
(* one.  bodies[k] are the readings from k on, up to the closing quote.    *)
Strings(t) ==
    LET bodies[k \in 1..Len(t)] ==
            IF k = Len(t) THEN {<<>>}
            ELSE UNION {Prefixed(Chars(SubSeq(t, k, k + n - 1)), bodies[k + n]) :
                           n \in {x \in {1, 2, 6, 12} : k + x <= Len(t)}}
    IN IF Enclosed(t, Quote, Quote) THEN bodies[2] ELSE {}
=============================================================================
