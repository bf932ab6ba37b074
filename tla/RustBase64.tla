----------------------------- MODULE RustBase64 -----------------------------
(***************************************************************************)
(* Base64 of the Rust driver's codec (rust/src/codec/base64.rs).  Text is  *)
(* a sequence of character codes, data a sequence of bytes.  Both loops of *)
(* the code go group by group with no state carried over but the output,   *)
(* so each is written as what it puts at every place of the output.        *)
(***************************************************************************)
EXTENDS Integers, Sequences

Bytes == 0..255
Pad   == 61          \* '='

ALPHABET == [v \in 0..63 |->
    IF v < 26 THEN 65 + v                  \* A-Z
    ELSE IF v < 52 THEN 97 + (v - 26)      \* a-z
    ELSE IF v < 62 THEN 48 + (v - 52)      \* 0-9
    ELSE IF v = 62 THEN 43 ELSE 47]        \* + and /

(* The value of a character of the alphabet, -1 of any other.              *)
DecodeChar(c) ==
    IF c \in 65..90 THEN c - 65
    ELSE IF c \in 97..122 THEN c - 97 + 26
    ELSE IF c \in 48..57 THEN c - 48 + 52
    ELSE IF c = 43 THEN 62
    ELSE IF c = 47 THEN 63 ELSE -1

-----------------------------------------------------------------------------
(* encode.  Three bytes make a 24-bit number, and it four characters.      *)

ByteAt(data, i) == IF i <= Len(data) THEN data[i] ELSE 0

Triple(data, g) == 65536 * ByteAt(data, 3 * g + 1) + 256 * ByteAt(data, 3 * g + 2)
                   + ByteAt(data, 3 * g + 3)

(* The character at place j (0 to 3) of group g: padding where the group   *)
(* has no byte, the third character for want of a second byte, the fourth  *)
(* for want of a third.                                                    *)
Encoded(data, g, j) ==
    LET n == Triple(data, g) IN
    IF j = 0 THEN ALPHABET[(n \div 262144) % 64]
    ELSE IF j = 1 THEN ALPHABET[(n \div 4096) % 64]
    ELSE IF j = 2 THEN IF 3 * g + 2 <= Len(data) THEN ALPHABET[(n \div 64) % 64] ELSE Pad
    ELSE IF 3 * g + 3 <= Len(data) THEN ALPHABET[n % 64] ELSE Pad

Encode(data) == [i \in 1..4 * ((Len(data) + 2) \div 3) |->
                    Encoded(data, (i - 1) \div 4, (i - 1) % 4)]

-----------------------------------------------------------------------------
(* decode.                                                                 *)

Padding(s) == IF Len(s) > 0 /\ s[Len(s)] = Pad
              THEN IF s[Len(s) - 1] = Pad THEN 2 ELSE 1
              ELSE 0

(* Fault: padding is accepted in any block.                                *)
CharAccepted_PadAnywhere(s, i) ==
    IF s[i] = Pad
    THEN (i - 1) % 4 >= 2 /\ ((i - 1) % 4 = 2 => s[i + 1] = Pad)
    ELSE DecodeChar(s[i]) >= 0

(* '=' is for the third and fourth place of the last block, with no data   *)
(* after it; anything else has to be of the alphabet.                      *)
CharAccepted(s, i) ==
    IF s[i] = Pad
    THEN /\ (i - 1) \div 4 = Len(s) \div 4 - 1
         /\ (i - 1) % 4 >= 2
         /\ (i - 1) % 4 = 2 => s[i + 1] = Pad
    ELSE DecodeChar(s[i]) >= 0

Decodes(s) == Len(s) % 4 = 0 /\ \A i \in 1..Len(s) : CharAccepted(s, i)

SextetAt(s, i) == IF s[i] = Pad THEN 0 ELSE DecodeChar(s[i])

Quad(s, g) == 262144 * SextetAt(s, 4 * g + 1) + 4096 * SextetAt(s, 4 * g + 2)
              + 64 * SextetAt(s, 4 * g + 3) + SextetAt(s, 4 * g + 4)

Decoded(s, g, j) ==
    LET n == Quad(s, g) IN
    IF j = 0 THEN (n \div 65536) % 256
    ELSE IF j = 1 THEN (n \div 256) % 256
    ELSE n % 256

(* The bytes, where Decodes(s).                                            *)
Decode(s) == [k \in 1..3 * (Len(s) \div 4) - Padding(s) |->
                 Decoded(s, (k - 1) \div 3, (k - 1) % 3)]

-----------------------------------------------------------------------------
(* Reference (RFC 4648): a text is n characters of the alphabet and then   *)
(* '=' that fills up the last block of four; its bytes are the bits of the *)
(* n characters, six each, read again by eight.                            *)

WellFormed(s, n) ==
    /\ \A i \in 1..n : DecodeChar(s[i]) # -1
    /\ \A i \in n + 1..Len(s) : s[i] = Pad
    /\ Len(s) % 4 = 0 /\ Len(s) - n <= 2

Weight    == <<128, 64, 32, 16, 8, 4, 2, 1>>     \* of the bits of a byte
Bit(s, i) == (DecodeChar(s[i \div 6 + 1]) \div Weight[(i % 6) + 3]) % 2
Byte(s, k) ==
    LET B(i) == Bit(s, 8 * k + i) * Weight[i + 1]
    IN B(0) + B(1) + B(2) + B(3) + B(4) + B(5) + B(6) + B(7)

(* The bits that are left over, fewer than a byte.                         *)
SpareBits(n) == 8 * ((6 * n) \div 8)..6 * n - 1

(* What is accepted is what is well formed, and its bytes are those of its *)
(* bits.  Spare bits need not be 0: encoding again gives the text back     *)
(* exactly when they are.                                                  *)
DecodesStrictly(s) ==
    /\ Decodes(s) <=> \E n \in 0..Len(s) : WellFormed(s, n)
    /\ \A n \in 0..Len(s) : WellFormed(s, n) =>
          /\ Decode(s) = [k \in 1..(6 * n) \div 8 |-> Byte(s, k - 1)]
          /\ Encode(Decode(s)) = s <=> \A i \in SpareBits(n) : Bit(s, i) = 0
=============================================================================
