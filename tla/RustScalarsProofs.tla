------------------------- MODULE RustScalarsProofs --------------------------
(***************************************************************************)
(* That the Rust driver reads and writes numbers, strings and base64 as    *)
(* RFC 8259 and RFC 4648 have them, for every text.  There is no induction *)
(* over texts in here: of the places where a claim fails there would be a  *)
(* first, or a last, and it does not fail there.                           *)
(***************************************************************************)
EXTENDS RustScalars, SequenceTheorems, WellFoundedInduction, TLAPS

-----------------------------------------------------------------------------
(* Base64: what encode writes, decode reads.                               *)

(* decode_char undoes ALPHABET, and '=' is no character of it.             *)
LEMMA AlphabetInverse ==
    ASSUME NEW v \in 0..63
    PROVE  /\ ALPHABET[v] \in Nat
           /\ ALPHABET[v] # Pad
           /\ DecodeChar(ALPHABET[v]) = v
BY SMT DEF ALPHABET, DecodeChar, Pad

(* The number of three bytes, its bytes, and its sextets.                  *)
Three(a, b, c)   == 65536 * a + 256 * b + c
Four(p, q, r, t) == 262144 * p + 4096 * q + 64 * r + t
Is24Bit(n)       == n \in Int /\ 0 <= n /\ n <= 16777215
Octet(n, k)      == IF k = 0 THEN (n \div 65536) % 256
                    ELSE IF k = 1 THEN (n \div 256) % 256
                    ELSE n % 256
Sextet(n, j)     == IF j = 0 THEN (n \div 262144) % 64
                    ELSE IF j = 1 THEN (n \div 4096) % 64
                    ELSE IF j = 2 THEN (n \div 64) % 64
                    ELSE n % 64

(* A byte is less than 256.                                                *)
LEMMA ByteRange ==
    ASSUME NEW x \in Bytes
    PROVE  x \in Int /\ 0 <= x /\ x <= 255
BY DEF Bytes

(* The octets of the number of three bytes are those bytes; its last       *)
(* sextets are 0 where it has no byte to encode.                           *)
LEMMA Octets ==
    ASSUME NEW a \in Bytes, NEW b \in Bytes, NEW c \in Bytes
    PROVE  /\ Is24Bit(Three(a, b, c))
           /\ Octet(Three(a, b, c), 0) = a
           /\ Octet(Three(a, b, c), 1) = b
           /\ Octet(Three(a, b, c), 2) = c
           /\ c = 0 => Sextet(Three(a, b, c), 3) = 0
           /\ b = 0 /\ c = 0 => Sextet(Three(a, b, c), 2) = 0
<1>1. /\ a \in Int /\ 0 <= a /\ a <= 255
      /\ b \in Int /\ 0 <= b /\ b <= 255
      /\ c \in Int /\ 0 <= c /\ c <= 255
  BY ByteRange
<1>2. Is24Bit(Three(a, b, c))
  BY SMT, <1>1 DEF Is24Bit, Three
<1>3. Octet(Three(a, b, c), 0) = a
  BY SMT, <1>1 DEF Octet, Three
<1>4. Octet(Three(a, b, c), 1) = b
  BY SMT, <1>1 DEF Octet, Three
<1>5. Octet(Three(a, b, c), 2) = c
  BY SMT, <1>1 DEF Octet, Three
<1>6. c = 0 => Sextet(Three(a, b, c), 3) = 0
  BY SMT, <1>1 DEF Sextet, Three
<1>7. b = 0 /\ c = 0 => Sextet(Three(a, b, c), 2) = 0
  BY SMT, <1>1 DEF Sextet, Three
<1> QED
  BY <1>2, <1>3, <1>4, <1>5, <1>6, <1>7

(* A number of 24 bits is the number of its four sextets.                  *)
LEMMA Sextets ==
    ASSUME NEW n, Is24Bit(n)
    PROVE  /\ Four(Sextet(n, 0), Sextet(n, 1), Sextet(n, 2), Sextet(n, 3)) = n
           /\ \A j \in 0..3 : Sextet(n, j) \in 0..63 /\ Sextet(n, j) >= 0
<1>1. Four(Sextet(n, 0), Sextet(n, 1), Sextet(n, 2), Sextet(n, 3)) = n
  BY SMT DEF Four, Sextet, Is24Bit
<1>2. \A j \in 0..3 : Sextet(n, j) \in 0..63 /\ Sextet(n, j) >= 0
  BY SMT DEF Sextet, Is24Bit
<1> QED
  BY <1>1, <1>2

(* The number of a group has the bytes of the group, and no bits where the *)
(* group has no bytes.                                                     *)
LEMMA ByteAtType ==
    ASSUME NEW data \in Seq(Bytes), NEW i \in Nat, i >= 1
    PROVE  /\ ByteAt(data, i) \in Bytes
           /\ i > Len(data) => ByteAt(data, i) = 0
<1>1. CASE i <= Len(data)
  <2>1. data[i] \in Bytes
    BY SMT, <1>1
  <2> QED
    BY SMT, <1>1, <2>1 DEF ByteAt
<1>2. CASE ~(i <= Len(data))
  <2>1. 0 \in Bytes
    BY DEF Bytes
  <2> QED
    BY SMT, <1>2, <2>1 DEF ByteAt
<1> QED
  BY SMT, <1>1, <1>2

(* The three bytes of a group, 0 beyond the end of the data.               *)
LEMMA GroupBytes ==
    ASSUME NEW data \in Seq(Bytes), NEW g \in Nat
    PROVE  /\ Triple(data, g) = Three(ByteAt(data, 3 * g + 1), ByteAt(data, 3 * g + 2),
                                      ByteAt(data, 3 * g + 3))
           /\ ByteAt(data, 3 * g + 1) \in Bytes
           /\ ByteAt(data, 3 * g + 2) \in Bytes
           /\ ByteAt(data, 3 * g + 3) \in Bytes
           /\ 3 * g + 2 > Len(data) => ByteAt(data, 3 * g + 2) = 0 /\ ByteAt(data, 3 * g + 3) = 0
           /\ 3 * g + 3 > Len(data) => ByteAt(data, 3 * g + 3) = 0
<1>1. /\ 3 * g + 1 \in Nat /\ 3 * g + 1 >= 1
      /\ 3 * g + 2 \in Nat /\ 3 * g + 2 >= 1
      /\ 3 * g + 3 \in Nat /\ 3 * g + 3 >= 1
      /\ Len(data) \in Nat
  BY SMT
<1>2. 3 * g + 2 > Len(data) => 3 * g + 3 > Len(data)
  BY SMT, <1>1
<1>3. Triple(data, g) = Three(ByteAt(data, 3 * g + 1), ByteAt(data, 3 * g + 2),
                              ByteAt(data, 3 * g + 3))
  BY SMT DEF Triple, Three
<1> QED
  BY <1>1, <1>2, <1>3, ByteAtType

(* Place j of group g has no byte to encode.                               *)
Missing(data, g, j) == \/ j = 2 /\ 3 * g + 2 > Len(data)
                       \/ j = 3 /\ 3 * g + 3 > Len(data)

(* So the octets of the number of a group are its bytes, and a sextet that *)
(* has no byte to encode is 0.                                             *)
LEMMA TripleFacts ==
    ASSUME NEW data \in Seq(Bytes), NEW g \in Nat
    PROVE  /\ Is24Bit(Triple(data, g))
           /\ Octet(Triple(data, g), 0) = ByteAt(data, 3 * g + 1)
           /\ Octet(Triple(data, g), 1) = ByteAt(data, 3 * g + 2)
           /\ Octet(Triple(data, g), 2) = ByteAt(data, 3 * g + 3)
           /\ \A j \in 0..3 : Missing(data, g, j) => Sextet(Triple(data, g), j) = 0
<1> DEFINE a == ByteAt(data, 3 * g + 1)
           b == ByteAt(data, 3 * g + 2)
           c == ByteAt(data, 3 * g + 3)
<1>1. /\ Triple(data, g) = Three(a, b, c)
      /\ a \in Bytes /\ b \in Bytes /\ c \in Bytes
      /\ 3 * g + 2 > Len(data) => b = 0 /\ c = 0
      /\ 3 * g + 3 > Len(data) => c = 0
  BY GroupBytes
<1> HIDE DEF a, b, c
<1>2. /\ Is24Bit(Three(a, b, c))
      /\ Octet(Three(a, b, c), 0) = a
      /\ Octet(Three(a, b, c), 1) = b
      /\ Octet(Three(a, b, c), 2) = c
      /\ c = 0 => Sextet(Three(a, b, c), 3) = 0
      /\ b = 0 /\ c = 0 => Sextet(Three(a, b, c), 2) = 0
  BY <1>1, Octets
<1>3. \A j \in 0..3 : Missing(data, g, j) => Sextet(Triple(data, g), j) = 0
  <2> SUFFICES ASSUME NEW j \in 0..3, Missing(data, g, j)
               PROVE  Sextet(Triple(data, g), j) = 0
    OBVIOUS
  <2>1. CASE j = 2 /\ 3 * g + 2 > Len(data)
    BY <1>1, <1>2, <2>1
  <2>2. CASE j = 3 /\ 3 * g + 3 > Len(data)
    BY <1>1, <1>2, <2>2
  <2> QED
    BY <2>1, <2>2 DEF Missing
<1> QED
  BY <1>1, <1>2, <1>3 DEF a, b, c

(* What encode puts at place j of group g, and what decode makes of it.    *)
LEMMA EncodedPlace ==
    ASSUME NEW data \in Seq(Bytes), NEW g \in Nat, NEW j \in 0..3
    PROVE  Encoded(data, g, j) = IF Missing(data, g, j) THEN Pad
                                 ELSE ALPHABET[Sextet(Triple(data, g), j)]
<1>1. j = 0 \/ j = 1 \/ j = 2 \/ j = 3
  BY SMT
<1> QED
  BY SMT, <1>1 DEF Encoded, Missing, Sextet

(* What encode puts at a place is '=' where there is no byte to encode,    *)
(* and elsewhere stands for the sextet of that place.                      *)
LEMMA EncodedSextet ==
    ASSUME NEW data \in Seq(Bytes), NEW g \in Nat, NEW j \in 0..3
    PROVE  /\ Encoded(data, g, j) = Pad <=> Missing(data, g, j)
           /\ Encoded(data, g, j) # Pad =>
                 /\ DecodeChar(Encoded(data, g, j)) >= 0
                 /\ DecodeChar(Encoded(data, g, j)) = Sextet(Triple(data, g), j)
           /\ Missing(data, g, j) => Sextet(Triple(data, g), j) = 0
<1> DEFINE s == Sextet(Triple(data, g), j)
<1>1. Is24Bit(Triple(data, g)) /\ (Missing(data, g, j) => s = 0)
  BY TripleFacts
<1>2. s \in 0..63 /\ s >= 0
  BY <1>1, Sextets
<1>3. ALPHABET[s] # Pad /\ DecodeChar(ALPHABET[s]) = s
  BY <1>2, AlphabetInverse
<1>4. Encoded(data, g, j) = IF Missing(data, g, j) THEN Pad ELSE ALPHABET[s]
  BY EncodedPlace
<1> HIDE DEF s
<1>5. CASE Missing(data, g, j)
  BY <1>1, <1>4, <1>5 DEF s
<1>6. CASE ~Missing(data, g, j)
  BY <1>2, <1>3, <1>4, <1>6 DEF s
<1> QED
  BY <1>5, <1>6

(* Places of a text of groups of four, places of the bytes of threes.      *)
LEMMA Places ==
    ASSUME NEW g \in Nat, NEW j \in 0..3, NEW h \in Nat, NEW k \in 0..2
    PROVE  /\ (4 * g + j) \div 4 = g /\ (4 * g + j) % 4 = j
           /\ (3 * h + k) \div 3 = h /\ (3 * h + k) % 3 = k
BY SMT

(* A place, as group and place in the group, by four and by three.         *)
LEMMA PlaceOf ==
    ASSUME NEW i \in Nat, i >= 1
    PROVE  /\ (i - 1) \div 4 \in Nat /\ (i - 1) % 4 \in 0..3
           /\ i = 4 * ((i - 1) \div 4) + ((i - 1) % 4) + 1
           /\ (i - 1) \div 3 \in Nat /\ (i - 1) % 3 \in 0..2
           /\ i = 3 * ((i - 1) \div 3) + ((i - 1) % 3) + 1
BY SMT

(* How many groups there are.                                              *)
Groups(data) == (Len(data) + 2) \div 3

(* encode makes four characters of each group, and no group is empty.      *)
LEMMA EncodeShape ==
    ASSUME NEW data \in Seq(Bytes)
    PROVE  /\ Groups(data) \in Nat
           /\ 3 * Groups(data) - 2 <= Len(data) \/ Len(data) = 0
           /\ Len(data) <= 3 * Groups(data)
           /\ Len(data) = 0 <=> Groups(data) = 0
           /\ Len(Encode(data)) = 4 * Groups(data)
           /\ Encode(data) = [i \in 1..4 * Groups(data) |-> Encoded(data, (i - 1) \div 4, (i - 1) % 4)]
<1>1. Len(data) \in Nat
  BY SMT
<1>2. /\ Groups(data) \in Nat
      /\ 3 * Groups(data) - 2 <= Len(data) \/ Len(data) = 0
      /\ Len(data) <= 3 * Groups(data)
      /\ Len(data) = 0 <=> Groups(data) = 0
  BY SMT, <1>1 DEF Groups
<1>3. Encode(data) = [i \in 1..4 * Groups(data) |-> Encoded(data, (i - 1) \div 4, (i - 1) % 4)]
  BY Zenon DEF Encode, Groups
<1>4. Len(Encode(data)) = 4 * Groups(data)
  BY SMT, <1>2, <1>3
<1> QED
  BY SMT, <1>2, <1>3, <1>4

(* The character at place j of group g of what encode makes.               *)
LEMMA EncodeAt ==
    ASSUME NEW data \in Seq(Bytes), NEW g \in Nat, g < Groups(data), NEW j \in 0..3
    PROVE  /\ 4 * g + j + 1 \in 1..Len(Encode(data))
           /\ Encode(data)[4 * g + j + 1] = Encoded(data, g, j)
<1>1. 4 * g + j + 1 \in 1..4 * Groups(data)
  BY SMT, EncodeShape
<1>2. ((4 * g + j + 1) - 1) \div 4 = g /\ ((4 * g + j + 1) - 1) % 4 = j
  BY SMT, Places
<1> DEFINE i == 4 * g + j + 1
           E(x) == Encoded(data, (x - 1) \div 4, (x - 1) % 4)
<1>3. i \in 1..4 * Groups(data) /\ E(i) = Encoded(data, g, j)
  BY <1>1, <1>2
<1>4. /\ Len(Encode(data)) = 4 * Groups(data)
      /\ Encode(data) = [x \in 1..4 * Groups(data) |-> E(x)]
  BY EncodeShape
<1>5. Encode(data)[i] = E(i)
  <2> HIDE DEF E, i
  <2> QED
    BY Zenon, <1>3, <1>4
<1> QED
  BY <1>3, <1>4, <1>5

(* The padding is what the last group lacks.                               *)
LEMMA EncodePadding ==
    ASSUME NEW data \in Seq(Bytes)
    PROVE  Padding(Encode(data)) = 3 * Groups(data) - Len(data)
<1> DEFINE s == Encode(data)
           G == Groups(data)
           n == Len(data)
<1>1. /\ n \in Nat /\ G \in Nat /\ n <= 3 * G /\ (3 * G - 2 <= n \/ n = 0)
      /\ n = 0 <=> G = 0
      /\ Len(s) = 4 * G
  BY SMT, EncodeShape
<1> HIDE DEF s, G, n
<1>2. CASE G = 0
  <2>1. ~(Len(s) > 0) /\ 3 * G - n = 0
    <3>1. n = 0
      BY <1>1, <1>2
    <3>2. Len(s) = 0
      BY SMT, <1>1, <1>2
    <3> QED
      BY SMT, <1>2, <3>1, <3>2
  <2>2. Padding(s) = 3 * G - n
    BY <2>1 DEF Padding
  <2> QED
    BY <2>2 DEF s, G, n
<1>3. CASE G # 0
  <2>1. G - 1 \in Nat /\ G - 1 < G
    BY SMT, <1>1, <1>3
  <2>2. /\ s[4 * (G - 1) + 3 + 1] = Encoded(data, G - 1, 3)
        /\ s[4 * (G - 1) + 2 + 1] = Encoded(data, G - 1, 2)
    BY SMT, <2>1, EncodeAt DEF s, G
  <2>3. /\ Len(s) = 4 * (G - 1) + 3 + 1
        /\ Len(s) - 1 = 4 * (G - 1) + 2 + 1
        /\ Len(s) > 0
    BY SMT, <1>1, <2>1
  <2>4. /\ s[Len(s)] = Pad <=> Missing(data, G - 1, 3)
        /\ s[Len(s) - 1] = Pad <=> Missing(data, G - 1, 2)
    <3>1. 2 \in 0..3 /\ 3 \in 0..3
      BY SMT
    <3> QED
      BY <2>1, <2>2, <2>3, <3>1, EncodedSextet
  <2>5. /\ Missing(data, G - 1, 3) <=> n < 3 * G
        /\ Missing(data, G - 1, 2) <=> n < 3 * G - 1
    BY SMT, <1>1, <2>1 DEF Missing, n
  <2>6. Padding(s) = IF n < 3 * G THEN IF n < 3 * G - 1 THEN 2 ELSE 1 ELSE 0
    BY <2>3, <2>4, <2>5 DEF Padding
  <2>7. Padding(s) = 3 * G - n
    BY SMT, <1>1, <1>3, <2>6
  <2> QED
    BY <2>7 DEF s, G, n
<1> QED
  BY <1>2, <1>3

(* decode takes what encode made: padding is where decode wants it.        *)
LEMMA EncodeDecodes ==
    ASSUME NEW data \in Seq(Bytes)
    PROVE  Decodes(Encode(data))
<1> DEFINE s == Encode(data)
           G == Groups(data)
<1>1. /\ G \in Nat /\ Len(s) = 4 * G /\ Len(data) \in Nat
      /\ 3 * G - 2 <= Len(data) \/ G = 0
  BY SMT, EncodeShape
<1>2. \A g \in Nat, j \in 0..3 : g < G => CharAccepted(s, 4 * g + j + 1)
  <2> SUFFICES ASSUME NEW g \in Nat, NEW j \in 0..3, g < G
               PROVE  CharAccepted(s, 4 * g + j + 1)
    OBVIOUS
  <2>1. s[4 * g + j + 1] = Encoded(data, g, j)
    BY EncodeAt
  <2>2. /\ Encoded(data, g, j) = Pad <=> Missing(data, g, j)
        /\ Encoded(data, g, j) # Pad => DecodeChar(Encoded(data, g, j)) >= 0
    BY EncodedSextet
  <2>3. CASE ~Missing(data, g, j)
    BY <2>1, <2>2, <2>3 DEF CharAccepted
  <2>4. CASE Missing(data, g, j)
    <3> DEFINE i == 4 * g + j + 1
    <3> HIDE DEF s, G
    <3>1. g = G - 1 /\ (j = 2 \/ j = 3)
      BY SMT, <1>1, <2>4 DEF Missing
    <3>2. (i - 1) \div 4 = g /\ (i - 1) % 4 = j
      BY SMT
    <3>3. Len(s) \div 4 = G
      BY SMT, <1>1
    <3>4. j = 2 => s[i + 1] = Pad
      <4> SUFFICES ASSUME j = 2 PROVE s[i + 1] = Pad
        OBVIOUS
      <4>1. Missing(data, g, 3)
        BY SMT, <1>1, <2>4 DEF Missing
      <4>2. i + 1 = 4 * g + 3 + 1 /\ 3 \in 0..3
        BY SMT
      <4>3. s[4 * g + 3 + 1] = Encoded(data, g, 3)
        BY <4>2, EncodeAt DEF s, G
      <4>4. Encoded(data, g, 3) = Pad
        BY <4>1, <4>2, EncodedSextet
      <4> QED
        BY <4>2, <4>3, <4>4
    <3>5. s[i] = Pad
      BY <2>1, <2>2, <2>4
    <3> HIDE DEF i
    <3>6. (i - 1) \div 4 = Len(s) \div 4 - 1
      BY <3>1, <3>2, <3>3
    <3>7. (i - 1) % 4 >= 2 /\ ((i - 1) % 4 = 2 => j = 2)
      BY SMT, <3>1, <3>2
    <3>8. CharAccepted(s, i)
      BY <3>4, <3>5, <3>6, <3>7 DEF CharAccepted
    <3> QED
      BY <3>8 DEF i
  <2> QED
    BY <2>3, <2>4
<1> HIDE DEF s, G
<1>3. ASSUME NEW i \in 1..Len(s)
      PROVE  CharAccepted(s, i)
  <2>1. i \in Nat /\ i >= 1 /\ i <= 4 * G
    BY SMT, <1>1
  <2>2. /\ (i - 1) \div 4 \in Nat /\ (i - 1) % 4 \in 0..3
        /\ i = 4 * ((i - 1) \div 4) + ((i - 1) % 4) + 1
    BY <2>1, PlaceOf
  <2>3. (i - 1) \div 4 < G
    BY SMT, <1>1, <2>1
  <2> QED
    BY <1>2, <2>2, <2>3
<1>4. Len(s) % 4 = 0
  BY SMT, <1>1
<1>5. Decodes(s)
  BY <1>3, <1>4 DEF Decodes
<1> QED
  BY <1>5 DEF s

(* The four characters of a group are its number again.                    *)
LEMMA QuadIsTriple ==
    ASSUME NEW data \in Seq(Bytes), NEW g \in Nat, g < Groups(data)
    PROVE  Quad(Encode(data), g) = Triple(data, g)
<1> DEFINE s == Encode(data)
           n == Triple(data, g)
<1>1. \A j \in 0..3 : SextetAt(s, 4 * g + j + 1) = Sextet(n, j)
  <2> SUFFICES ASSUME NEW j \in 0..3
               PROVE  SextetAt(s, 4 * g + j + 1) = Sextet(n, j)
    OBVIOUS
  <2>1. s[4 * g + j + 1] = Encoded(data, g, j)
    BY EncodeAt
  <2>2. /\ Encoded(data, g, j) = Pad <=> Missing(data, g, j)
        /\ Encoded(data, g, j) # Pad => DecodeChar(Encoded(data, g, j)) = Sextet(n, j)
        /\ Missing(data, g, j) => Sextet(n, j) = 0
    BY EncodedSextet
  <2> QED
    BY <2>1, <2>2 DEF SextetAt
<1>2. Is24Bit(n)
  BY TripleFacts
<1> HIDE DEF s, n
<1>3. /\ 0 \in 0..3 /\ 1 \in 0..3 /\ 2 \in 0..3 /\ 3 \in 0..3
      /\ 4 * g + 0 + 1 = 4 * g + 1 /\ 4 * g + 1 + 1 = 4 * g + 2
      /\ 4 * g + 2 + 1 = 4 * g + 3 /\ 4 * g + 3 + 1 = 4 * g + 4
  BY SMT
<1>4. /\ SextetAt(s, 4 * g + 1) = Sextet(n, 0) /\ SextetAt(s, 4 * g + 2) = Sextet(n, 1)
      /\ SextetAt(s, 4 * g + 3) = Sextet(n, 2) /\ SextetAt(s, 4 * g + 4) = Sextet(n, 3)
  BY <1>1, <1>3
<1>5. Four(Sextet(n, 0), Sextet(n, 1), Sextet(n, 2), Sextet(n, 3)) = n
  BY <1>2, Sextets
<1>6. Quad(s, g) = Four(SextetAt(s, 4 * g + 1), SextetAt(s, 4 * g + 2),
                        SextetAt(s, 4 * g + 3), SextetAt(s, 4 * g + 4))
  BY SMT DEF Quad, Four
<1>7. Quad(s, g) = n
  BY <1>4, <1>5, <1>6
<1> QED
  BY <1>7 DEF s, n

(* Whatever bytes a BLOB parameter has, its text decodes, to those bytes   *)
(* (base64.rs: encode, decode).                                            *)
THEOREM RoundTrip ==
    ASSUME NEW data \in Seq(Bytes)
    PROVE  Decodes(Encode(data)) /\ Decode(Encode(data)) = data
<1> DEFINE s == Encode(data)
           G == Groups(data)
<1>1. Decodes(s)
  BY EncodeDecodes
<1>2. /\ G \in Nat /\ Len(data) \in Nat /\ Len(data) <= 3 * G
      /\ Len(s) \div 4 = G
  <2>1. G \in Nat /\ Len(data) <= 3 * G /\ Len(s) = 4 * G
    BY EncodeShape
  <2>2. Len(data) \in Nat
    BY SMT
  <2> HIDE DEF s, G
  <2>3. (4 * G) \div 4 = G
    BY SMT, <2>1
  <2> QED
    BY <2>1, <2>2, <2>3
<1>3. 3 * (Len(s) \div 4) - Padding(s) = Len(data)
  <2>1. Padding(s) = 3 * G - Len(data)
    BY EncodePadding
  <2> HIDE DEF s, G
  <2> QED
    BY SMT, <1>2, <2>1
<1>4. ASSUME NEW k \in 1..Len(data)
      PROVE  Decoded(s, (k - 1) \div 3, (k - 1) % 3) = data[k]
  <2> DEFINE g == (k - 1) \div 3
             j == (k - 1) % 3
  <2>1. k \in Nat /\ k >= 1 /\ k <= Len(data)
    BY SMT, <1>2
  <2>2. /\ g \in Nat /\ j \in 0..2 /\ k = 3 * g + j + 1
    BY <2>1, PlaceOf
  <2>3. g < G
    <3> HIDE DEF g, j, G
    <3> QED
      BY SMT, <1>2, <2>1, <2>2
  <2>4. Quad(s, g) = Triple(data, g)
    BY <2>2, <2>3, QuadIsTriple
  <2>5. Decoded(s, g, j) = Octet(Quad(s, g), j)
    <3> HIDE DEF g, j, s
    <3> QED
      BY SMT, <2>2 DEF Decoded, Octet
  <2>6. /\ Octet(Triple(data, g), 0) = ByteAt(data, 3 * g + 1)
        /\ Octet(Triple(data, g), 1) = ByteAt(data, 3 * g + 2)
        /\ Octet(Triple(data, g), 2) = ByteAt(data, 3 * g + 3)
    BY <2>2, TripleFacts
  <2> HIDE DEF g, j, s, G
  <2>7. CASE j = 0
    <3>1. k = 3 * g + 1
      BY SMT, <2>2, <2>7
    <3> QED
      BY <2>4, <2>5, <2>6, <2>7, <2>1, <3>1 DEF ByteAt, g, j
  <2>8. CASE j = 1
    <3>1. k = 3 * g + 2
      BY SMT, <2>2, <2>8
    <3> QED
      BY <2>4, <2>5, <2>6, <2>8, <2>1, <3>1 DEF ByteAt, g, j
  <2>9. CASE j = 2
    <3>1. k = 3 * g + 3
      BY SMT, <2>2, <2>9
    <3> QED
      BY <2>4, <2>5, <2>6, <2>9, <2>1, <3>1 DEF ByteAt, g, j
  <2>10. j = 0 \/ j = 1 \/ j = 2
    BY SMT, <2>2
  <2> QED
    BY <2>7, <2>8, <2>9, <2>10
<1>5. Decode(s) = [k \in 1..Len(data) |-> Decoded(s, (k - 1) \div 3, (k - 1) % 3)]
  BY <1>3 DEF Decode
<1>6. data = [k \in 1..Len(data) |-> data[k]]
  BY SMT
<1>7. Decode(s) = data
  BY Zenon, <1>4, <1>5, <1>6
<1> QED
  BY <1>1, <1>7
-----------------------------------------------------------------------------
(* Base64: what is accepted, and what is made of it, for any text.         *)

(* decode_char gives a sextet or -1, -1 for the padding, and ALPHABET      *)
(* undoes it.                                                              *)
LEMMA DecodeCharRange ==
    ASSUME NEW c \in Int
    PROVE  /\ DecodeChar(c) \in Int /\ -1 <= DecodeChar(c) /\ DecodeChar(c) <= 63
           /\ c = Pad => DecodeChar(c) = -1
           /\ DecodeChar(c) # -1 => DecodeChar(c) >= 0 /\ DecodeChar(c) \in 0..63
           /\ DecodeChar(c) # -1 => ALPHABET[DecodeChar(c)] = c
<1>1. /\ DecodeChar(c) \in Int /\ -1 <= DecodeChar(c) /\ DecodeChar(c) <= 63
      /\ c = Pad => DecodeChar(c) = -1
      /\ DecodeChar(c) # -1 => DecodeChar(c) >= 0 /\ DecodeChar(c) \in 0..63
  BY SMT DEF DecodeChar, Pad
<1>2. DecodeChar(c) # -1 => ALPHABET[DecodeChar(c)] = c
  BY SMT DEF DecodeChar, ALPHABET
<1> QED
  BY <1>1, <1>2

(* Of a well-formed text, the padding is what follows the data.            *)
LEMMA WellFormedPadding ==
    ASSUME NEW s \in Seq(Int), NEW n \in 0..Len(s), WellFormed(s, n)
    PROVE  Padding(s) = Len(s) - n
<1>1. /\ Len(s) \in Nat /\ n \in Nat /\ n <= Len(s)
      /\ Len(s) % 4 = 0 /\ Len(s) - n <= 2
  BY SMT DEF WellFormed
<1>2. \A i \in 1..Len(s) : s[i] = Pad <=> i > n
  <2> SUFFICES ASSUME NEW i \in 1..Len(s) PROVE s[i] = Pad <=> i > n
    OBVIOUS
  <2>1. s[i] \in Int /\ i \in Int
    BY SMT
  <2>2. CASE i > n
    <3>1. i \in n + 1..Len(s)
      BY SMT, <1>1, <2>2
    <3> QED
      BY <2>2, <3>1 DEF WellFormed
  <2>3. CASE ~(i > n)
    <3>1. i \in 1..n
      BY SMT, <1>1, <2>3
    <3>2. DecodeChar(s[i]) # -1
      BY <3>1 DEF WellFormed
    <3> QED
      BY <2>1, <2>3, <3>2, DecodeCharRange
  <2> QED
    BY <2>2, <2>3
<1>3. CASE Len(s) = 0
  <2>1. ~(Len(s) > 0) /\ n = 0
    BY SMT, <1>1, <1>3
  <2>2. Len(s) - n = 0
    BY SMT, <1>3, <2>1
  <2> QED
    BY <2>1, <2>2 DEF Padding
<1>4. CASE Len(s) # 0
  <2>1. Len(s) > 0 /\ Len(s) \in 1..Len(s) /\ Len(s) - 1 \in 1..Len(s)
    BY SMT, <1>1, <1>4
  <2>2. (s[Len(s)] = Pad <=> Len(s) > n) /\ (s[Len(s) - 1] = Pad <=> Len(s) - 1 > n)
    BY <1>2, <2>1
  <2>3. Padding(s) = IF Len(s) > n THEN IF Len(s) - 1 > n THEN 2 ELSE 1 ELSE 0
    BY <2>1, <2>2 DEF Padding
  <2> QED
    BY SMT, <1>1, <2>3
<1> QED
  BY <1>3, <1>4

(* decode accepts what is well formed.                                     *)
LEMMA WellFormedDecodes ==
    ASSUME NEW s \in Seq(Int), NEW n \in 0..Len(s), WellFormed(s, n)
    PROVE  Decodes(s)
<1>1. /\ Len(s) \in Nat /\ n \in Nat /\ n <= Len(s)
      /\ Len(s) % 4 = 0 /\ Len(s) - n <= 2
  BY SMT DEF WellFormed
<1>2. ASSUME NEW i \in 1..Len(s) PROVE CharAccepted(s, i)
  <2>1. s[i] \in Int /\ i \in Int
    BY SMT
  <2>2. CASE i \in 1..n
    <3>1. DecodeChar(s[i]) # -1
      BY <2>2 DEF WellFormed
    <3>2. s[i] # Pad /\ DecodeChar(s[i]) >= 0
      BY <2>1, <3>1, DecodeCharRange
    <3> QED
      BY <3>2 DEF CharAccepted
  <2>3. CASE i \in n + 1..Len(s)
    <3>1. s[i] = Pad
      BY <2>3 DEF WellFormed
    <3>2. /\ (i - 1) \div 4 = Len(s) \div 4 - 1
          /\ (i - 1) % 4 >= 2
          /\ (i - 1) % 4 = 2 => i + 1 \in n + 1..Len(s)
      BY SMT, <1>1, <2>3
    <3>3. (i - 1) % 4 = 2 => s[i + 1] = Pad
      BY <3>2 DEF WellFormed
    <3> QED
      BY <3>1, <3>2, <3>3 DEF CharAccepted
  <2> QED
    BY SMT, <1>1, <2>2, <2>3
<1> QED
  BY <1>1, <1>2 DEF Decodes

(* The last two places of a text of four characters or more.               *)
LEMMA LastTwo ==
    ASSUME NEW L \in Nat, L >= 4
    PROVE  /\ L - 1 \in 0..L /\ L - (L - 1) <= 2 /\ L - 1 # L /\ ~(L - 1 < L - 1)
           /\ L - 2 \in 0..L /\ L - (L - 2) <= 2 /\ L - 2 # L /\ L - 2 # L - 1
BY SMT

(* And nothing else: what decode accepts is well formed.                   *)
LEMMA DecodesWellFormed ==
    ASSUME NEW s \in Seq(Int), Decodes(s)
    PROVE  \E n \in 0..Len(s) : WellFormed(s, n)
<1>1. Len(s) \in Nat /\ Len(s) % 4 = 0
  BY SMT DEF Decodes
<1>2. \A i \in 1..Len(s) : CharAccepted(s, i)
  BY DEF Decodes
<1>3. \A i \in 1..Len(s) : s[i] # Pad => DecodeChar(s[i]) # -1
  <2> SUFFICES ASSUME NEW i \in 1..Len(s), s[i] # Pad PROVE DecodeChar(s[i]) # -1
    OBVIOUS
  <2>1. DecodeChar(s[i]) >= 0
    BY <1>2 DEF CharAccepted
  <2> QED
    BY SMT, <2>1
<1>4. \A i \in 1..Len(s) : i <= Len(s) - 2 => s[i] # Pad
  <2> SUFFICES ASSUME NEW i \in 1..Len(s), i <= Len(s) - 2, s[i] = Pad PROVE FALSE
    OBVIOUS
  <2>1. (i - 1) \div 4 = Len(s) \div 4 - 1 /\ (i - 1) % 4 >= 2
    BY <1>2 DEF CharAccepted
  <2> QED
    BY SMT, <1>1, <2>1
<1>5. CASE Len(s) = 0
  <2>1. 0 \in 0..Len(s) /\ 1..0 = {} /\ 0 + 1..Len(s) = {} /\ Len(s) - 0 <= 2
    BY SMT, <1>5
  <2>2. WellFormed(s, 0)
    BY <1>1, <2>1 DEF WellFormed
  <2> QED
    BY <2>1, <2>2
<1>6. CASE Len(s) # 0
  <2>1. /\ Len(s) >= 4
        /\ Len(s) \in 1..Len(s) /\ Len(s) - 1 \in 1..Len(s)
        /\ ((Len(s) - 1) - 1) % 4 = 2
        /\ (Len(s) - 1) + 1 = Len(s)
    BY SMT, <1>1, <1>6
  <2>2. s[Len(s) - 1] = Pad => s[Len(s)] = Pad
    BY <1>2, <2>1 DEF CharAccepted
  <2>3. ASSUME NEW n \in 0..Len(s), Len(s) - n <= 2,
               n < Len(s) => s[Len(s)] = Pad,
               n < Len(s) - 1 => s[Len(s) - 1] = Pad,
               n = Len(s) => s[Len(s)] # Pad,
               n = Len(s) \/ n = Len(s) - 1 => s[Len(s) - 1] # Pad
        PROVE  WellFormed(s, n)
    <3>1. ASSUME NEW i \in 1..n PROVE DecodeChar(s[i]) # -1
      <4>1. i \in 1..Len(s) /\ (i <= Len(s) - 2 \/ i = Len(s) - 1 \/ i = Len(s))
        BY SMT, <1>1
      <4>2. (i = Len(s) => n = Len(s)) /\ (i = Len(s) - 1 => n = Len(s) \/ n = Len(s) - 1)
        BY SMT, <1>1
      <4>3. s[i] # Pad
        BY <1>4, <2>3, <4>1, <4>2
      <4> QED
        BY <1>3, <4>1, <4>3
    <3>2. ASSUME NEW i \in n + 1..Len(s) PROVE s[i] = Pad
      <4>1. (i = Len(s) /\ n < Len(s)) \/ (i = Len(s) - 1 /\ n < Len(s) - 1)
        BY SMT, <1>1, <2>3
      <4> QED
        BY <2>3, <4>1
    <3> QED
      BY <1>1, <2>3, <3>1, <3>2 DEF WellFormed
  <2>4. CASE s[Len(s)] # Pad
    <3>1. /\ Len(s) \in 0..Len(s) /\ Len(s) - Len(s) <= 2 /\ ~(Len(s) < Len(s))
          /\ ~(Len(s) < Len(s) - 1)
      BY SMT, <1>1
    <3>2. WellFormed(s, Len(s))
      BY <2>2, <2>3, <2>4, <3>1
    <3> QED
      BY <3>1, <3>2
  <2>5. CASE s[Len(s)] = Pad /\ s[Len(s) - 1] # Pad
    <3>1. WellFormed(s, Len(s) - 1)
      BY <1>1, <2>1, <2>3, <2>5, LastTwo
    <3> QED
      BY <1>1, <2>1, <3>1, LastTwo
  <2>6. CASE s[Len(s)] = Pad /\ s[Len(s) - 1] = Pad
    <3>1. WellFormed(s, Len(s) - 2)
      BY <1>1, <2>1, <2>3, <2>6, LastTwo
    <3> QED
      BY <1>1, <2>1, <3>1, LastTwo
  <2> QED
    BY <2>4, <2>5, <2>6
<1> QED
  BY <1>5, <1>6

-----------------------------------------------------------------------------
(* The bits of a text and its bytes.                                       *)

(* The six bits of a sextet, and what some of them make.                   *)
Two(v, w) == (v \div w) % 2

(* A sextet from its bits, whole and in part.                              *)
LEMMA SixBits ==
    ASSUME NEW v \in 0..63
    PROVE  /\ \A w \in {1, 2, 4, 8, 16, 32} : Two(v, w) \in {0, 1}
           /\ v = 32 * Two(v, 32) + 16 * Two(v, 16) + 8 * Two(v, 8) + 4 * Two(v, 4)
                  + 2 * Two(v, 2) + Two(v, 1)
           /\ v \div 16 = 2 * Two(v, 32) + Two(v, 16)
           /\ v \div 4 = 8 * Two(v, 32) + 4 * Two(v, 16) + 2 * Two(v, 8) + Two(v, 4)
           /\ v % 16 = 8 * Two(v, 8) + 4 * Two(v, 4) + 2 * Two(v, 2) + Two(v, 1)
           /\ v % 4 = 2 * Two(v, 2) + Two(v, 1)
<1>1. \A w \in {1, 2, 4, 8, 16, 32} : Two(v, w) \in {0, 1}
  BY SMT DEF Two
<1>2. v = 32 * Two(v, 32) + 16 * Two(v, 16) + 8 * Two(v, 8) + 4 * Two(v, 4)
          + 2 * Two(v, 2) + Two(v, 1)
  BY SMT DEF Two
<1>3. v \div 16 = 2 * Two(v, 32) + Two(v, 16)
  BY SMT DEF Two
<1>4. v \div 4 = 8 * Two(v, 32) + 4 * Two(v, 16) + 2 * Two(v, 8) + Two(v, 4)
  BY SMT DEF Two
<1>5. v % 16 = 8 * Two(v, 8) + 4 * Two(v, 4) + 2 * Two(v, 2) + Two(v, 1)
  BY SMT DEF Two
<1>6. v % 4 = 2 * Two(v, 2) + Two(v, 1)
  BY SMT DEF Two
<1> QED
  BY <1>1, <1>2, <1>3, <1>4, <1>5, <1>6

(* The octets of four sextets.                                             *)
Six          == 0..63
First(p, q)  == 4 * p + (q \div 16)
Second(q, r) == 16 * (q % 16) + (r \div 4)
Third(r, t)  == 64 * (r % 4) + t

(* The octets of the number of four sextets, each from the two it lies in. *)
LEMMA OctetsOfSextets ==
    ASSUME NEW p \in Six, NEW q \in Six, NEW r \in Six, NEW t \in Six
    PROVE  /\ Octet(Four(p, q, r, t), 0) = First(p, q)
           /\ Octet(Four(p, q, r, t), 1) = Second(q, r)
           /\ Octet(Four(p, q, r, t), 2) = Third(r, t)
<1>0. p \in 0..63 /\ q \in 0..63 /\ r \in 0..63 /\ t \in 0..63
  BY DEF Six
<1>1. PICK a \in 0..3, b \in 0..15 : q = 16 * a + b /\ a = q \div 16 /\ b = q % 16
  BY SMT, <1>0
<1>2. PICK c \in 0..15, d \in 0..3 : r = 4 * c + d /\ c = r \div 4 /\ d = r % 4
  BY SMT, <1>0
<1>3. Four(p, q, r, t) = Three(4 * p + a, 16 * b + c, 64 * d + t)
  BY <1>0, <1>1, <1>2, SMT DEF Four, Three
<1>4. 4 * p + a \in Bytes /\ 16 * b + c \in Bytes /\ 64 * d + t \in Bytes
  BY SMT, <1>0 DEF Bytes
<1>5. /\ Octet(Four(p, q, r, t), 0) = 4 * p + a
      /\ Octet(Four(p, q, r, t), 1) = 16 * b + c
      /\ Octet(Four(p, q, r, t), 2) = 64 * d + t
  BY <1>3, <1>4, Octets
<1>6. First(p, q) = 4 * p + a /\ Second(q, r) = 16 * b + c /\ Third(r, t) = 64 * d + t
  BY <1>1, <1>2, Zenon DEF First, Second, Third
<1> QED
  BY <1>5, <1>6, Zenon

(* Bit i of byte j of a group is a bit of a character of the group.        *)
LEMMA BitAt ==
    ASSUME NEW s, NEW g \in Nat, NEW j \in 0..2, NEW i \in 0..7
    PROVE  Bit(s, 8 * (3 * g + j) + i)
           = Two(DecodeChar(s[(4 * g + ((8 * j + i) \div 6)) + 1]), Weight[((8 * j + i) % 6) + 3])
<1>1. /\ (8 * (3 * g + j) + i) \div 6 = 4 * g + ((8 * j + i) \div 6)
      /\ (8 * (3 * g + j) + i) % 6 = (8 * j + i) % 6
  BY SMT
<1> QED
  BY <1>1 DEF Bit, Two

(* The sum of Byte, written out.                                           *)
LEMMA ByteSum ==
    ASSUME NEW s, NEW k
    PROVE  Byte(s, k) = Bit(s, 8 * k + 0) * 128 + Bit(s, 8 * k + 1) * 64 + Bit(s, 8 * k + 2) * 32
                        + Bit(s, 8 * k + 3) * 16 + Bit(s, 8 * k + 4) * 8 + Bit(s, 8 * k + 5) * 4
                        + Bit(s, 8 * k + 6) * 2 + Bit(s, 8 * k + 7) * 1
<1>1. /\ Weight[0 + 1] = 128 /\ Weight[1 + 1] = 64 /\ Weight[2 + 1] = 32 /\ Weight[3 + 1] = 16
      /\ Weight[4 + 1] = 8 /\ Weight[5 + 1] = 4 /\ Weight[6 + 1] = 2 /\ Weight[7 + 1] = 1
  BY SMT DEF Weight
<1>2. Byte(s, k) = Bit(s, 8 * k + 0) * Weight[0 + 1] + Bit(s, 8 * k + 1) * Weight[1 + 1]
         + Bit(s, 8 * k + 2) * Weight[2 + 1] + Bit(s, 8 * k + 3) * Weight[3 + 1]
         + Bit(s, 8 * k + 4) * Weight[4 + 1] + Bit(s, 8 * k + 5) * Weight[5 + 1]
         + Bit(s, 8 * k + 6) * Weight[6 + 1] + Bit(s, 8 * k + 7) * Weight[7 + 1]
  BY DEF Byte
<1> QED
  BY <1>1, <1>2, Zenon

(* The three bytes of the reference in a block, each from two sextets of   *)
(* it.                                                                     *)
LEMMA ByteOfBits ==
    ASSUME NEW s, NEW g \in Nat
    PROVE  /\ DecodeChar(s[4 * g + 1]) \in 0..63 /\ DecodeChar(s[4 * g + 2]) \in 0..63
              => Byte(s, 3 * g) = First(DecodeChar(s[4 * g + 1]), DecodeChar(s[4 * g + 2]))
           /\ DecodeChar(s[4 * g + 2]) \in 0..63 /\ DecodeChar(s[4 * g + 3]) \in 0..63
              => Byte(s, 3 * g + 1) = Second(DecodeChar(s[4 * g + 2]), DecodeChar(s[4 * g + 3]))
           /\ DecodeChar(s[4 * g + 3]) \in 0..63 /\ DecodeChar(s[4 * g + 4]) \in 0..63
              => Byte(s, 3 * g + 2) = Third(DecodeChar(s[4 * g + 3]), DecodeChar(s[4 * g + 4]))
<1> SUFFICES ASSUME NEW p, NEW q, NEW r, NEW t,
                    p = DecodeChar(s[4 * g + 1]), q = DecodeChar(s[4 * g + 2]),
                    r = DecodeChar(s[4 * g + 3]), t = DecodeChar(s[4 * g + 4])
             PROVE  /\ p \in 0..63 /\ q \in 0..63 => Byte(s, 3 * g) = First(p, q)
                    /\ q \in 0..63 /\ r \in 0..63 => Byte(s, 3 * g + 1) = Second(q, r)
                    /\ r \in 0..63 /\ t \in 0..63 => Byte(s, 3 * g + 2) = Third(r, t)
  BY Zenon
<1>1. /\ (4 * g + 0) + 1 = 4 * g + 1 /\ (4 * g + 1) + 1 = 4 * g + 2
      /\ (4 * g + 2) + 1 = 4 * g + 3 /\ (4 * g + 3) + 1 = 4 * g + 4
      /\ 3 * g + 0 = 3 * g
  BY SMT
<1>2. /\ Weight[1] = 128 /\ Weight[2] = 64 /\ Weight[3] = 32 /\ Weight[4] = 16
      /\ Weight[5] = 8 /\ Weight[6] = 4 /\ Weight[7] = 2 /\ Weight[8] = 1
  BY SMT DEF Weight
<1>3. \A j \in 0..2 : \A i \in 0..7 :
         Bit(s, 8 * (3 * g + j) + i)
         = Two(DecodeChar(s[(4 * g + ((8 * j + i) \div 6)) + 1]), Weight[((8 * j + i) % 6) + 3])
  BY BitAt
<1>4. ASSUME p \in 0..63, q \in 0..63 PROVE Byte(s, 3 * g) = First(p, q)
  <2>1. /\ (8 * 0 + 0) \div 6 = 0 /\ ((8 * 0 + 0) % 6) + 3 = 3
        /\ (8 * 0 + 1) \div 6 = 0 /\ ((8 * 0 + 1) % 6) + 3 = 4
        /\ (8 * 0 + 2) \div 6 = 0 /\ ((8 * 0 + 2) % 6) + 3 = 5
        /\ (8 * 0 + 3) \div 6 = 0 /\ ((8 * 0 + 3) % 6) + 3 = 6
        /\ (8 * 0 + 4) \div 6 = 0 /\ ((8 * 0 + 4) % 6) + 3 = 7
        /\ (8 * 0 + 5) \div 6 = 0 /\ ((8 * 0 + 5) % 6) + 3 = 8
        /\ (8 * 0 + 6) \div 6 = 1 /\ ((8 * 0 + 6) % 6) + 3 = 3
        /\ (8 * 0 + 7) \div 6 = 1 /\ ((8 * 0 + 7) % 6) + 3 = 4
        /\ 0 \in 0..2 /\ \A i \in {0, 1, 2, 3, 4, 5, 6, 7} : i \in 0..7
    BY SMT
  <2>2. /\ Bit(s, 8 * (3 * g) + 0) = Two(p, 32) /\ Bit(s, 8 * (3 * g) + 1) = Two(p, 16)
        /\ Bit(s, 8 * (3 * g) + 2) = Two(p, 8)  /\ Bit(s, 8 * (3 * g) + 3) = Two(p, 4)
        /\ Bit(s, 8 * (3 * g) + 4) = Two(p, 2)  /\ Bit(s, 8 * (3 * g) + 5) = Two(p, 1)
        /\ Bit(s, 8 * (3 * g) + 6) = Two(q, 32) /\ Bit(s, 8 * (3 * g) + 7) = Two(q, 16)
    BY <1>1, <1>2, <1>3, <2>1
  <2>3. /\ p = 32 * Two(p, 32) + 16 * Two(p, 16) + 8 * Two(p, 8) + 4 * Two(p, 4)
               + 2 * Two(p, 2) + Two(p, 1)
        /\ q \div 16 = 2 * Two(q, 32) + Two(q, 16)
        /\ \A w \in {1, 2, 4, 8, 16, 32} : Two(p, w) \in {0, 1} /\ Two(q, w) \in {0, 1}
    BY <1>4, SixBits
  <2>4. Byte(s, 3 * g) = Two(p, 32) * 128 + Two(p, 16) * 64 + Two(p, 8) * 32 + Two(p, 4) * 16
                         + Two(p, 2) * 8 + Two(p, 1) * 4 + Two(q, 32) * 2 + Two(q, 16) * 1
    BY <2>2, ByteSum, Zenon
  <2> QED
    BY SMT, <2>3, <2>4 DEF First, Second, Third
<1>5. ASSUME q \in 0..63, r \in 0..63 PROVE Byte(s, 3 * g + 1) = Second(q, r)
  <2>1. /\ (8 * 1 + 0) \div 6 = 1 /\ ((8 * 1 + 0) % 6) + 3 = 5
        /\ (8 * 1 + 1) \div 6 = 1 /\ ((8 * 1 + 1) % 6) + 3 = 6
        /\ (8 * 1 + 2) \div 6 = 1 /\ ((8 * 1 + 2) % 6) + 3 = 7
        /\ (8 * 1 + 3) \div 6 = 1 /\ ((8 * 1 + 3) % 6) + 3 = 8
        /\ (8 * 1 + 4) \div 6 = 2 /\ ((8 * 1 + 4) % 6) + 3 = 3
        /\ (8 * 1 + 5) \div 6 = 2 /\ ((8 * 1 + 5) % 6) + 3 = 4
        /\ (8 * 1 + 6) \div 6 = 2 /\ ((8 * 1 + 6) % 6) + 3 = 5
        /\ (8 * 1 + 7) \div 6 = 2 /\ ((8 * 1 + 7) % 6) + 3 = 6
        /\ 1 \in 0..2 /\ \A i \in {0, 1, 2, 3, 4, 5, 6, 7} : i \in 0..7
    BY SMT
  <2>2. /\ Bit(s, 8 * (3 * g + 1) + 0) = Two(q, 8)  /\ Bit(s, 8 * (3 * g + 1) + 1) = Two(q, 4)
        /\ Bit(s, 8 * (3 * g + 1) + 2) = Two(q, 2)  /\ Bit(s, 8 * (3 * g + 1) + 3) = Two(q, 1)
        /\ Bit(s, 8 * (3 * g + 1) + 4) = Two(r, 32) /\ Bit(s, 8 * (3 * g + 1) + 5) = Two(r, 16)
        /\ Bit(s, 8 * (3 * g + 1) + 6) = Two(r, 8)  /\ Bit(s, 8 * (3 * g + 1) + 7) = Two(r, 4)
    BY <1>1, <1>2, <1>3, <2>1
  <2>3. /\ q % 16 = 8 * Two(q, 8) + 4 * Two(q, 4) + 2 * Two(q, 2) + Two(q, 1)
        /\ r \div 4 = 8 * Two(r, 32) + 4 * Two(r, 16) + 2 * Two(r, 8) + Two(r, 4)
        /\ \A w \in {1, 2, 4, 8, 16, 32} : Two(q, w) \in {0, 1} /\ Two(r, w) \in {0, 1}
    BY <1>5, SixBits
  <2>4. Byte(s, 3 * g + 1) = Two(q, 8) * 128 + Two(q, 4) * 64 + Two(q, 2) * 32 + Two(q, 1) * 16
                             + Two(r, 32) * 8 + Two(r, 16) * 4 + Two(r, 8) * 2 + Two(r, 4) * 1
    BY <2>2, ByteSum, Zenon
  <2> QED
    BY SMT, <2>3, <2>4 DEF First, Second, Third
<1>6. ASSUME r \in 0..63, t \in 0..63 PROVE Byte(s, 3 * g + 2) = Third(r, t)
  <2>1. /\ (8 * 2 + 0) \div 6 = 2 /\ ((8 * 2 + 0) % 6) + 3 = 7
        /\ (8 * 2 + 1) \div 6 = 2 /\ ((8 * 2 + 1) % 6) + 3 = 8
        /\ (8 * 2 + 2) \div 6 = 3 /\ ((8 * 2 + 2) % 6) + 3 = 3
        /\ (8 * 2 + 3) \div 6 = 3 /\ ((8 * 2 + 3) % 6) + 3 = 4
        /\ (8 * 2 + 4) \div 6 = 3 /\ ((8 * 2 + 4) % 6) + 3 = 5
        /\ (8 * 2 + 5) \div 6 = 3 /\ ((8 * 2 + 5) % 6) + 3 = 6
        /\ (8 * 2 + 6) \div 6 = 3 /\ ((8 * 2 + 6) % 6) + 3 = 7
        /\ (8 * 2 + 7) \div 6 = 3 /\ ((8 * 2 + 7) % 6) + 3 = 8
        /\ 2 \in 0..2 /\ \A i \in {0, 1, 2, 3, 4, 5, 6, 7} : i \in 0..7
    BY SMT
  <2>2. /\ Bit(s, 8 * (3 * g + 2) + 0) = Two(r, 2)  /\ Bit(s, 8 * (3 * g + 2) + 1) = Two(r, 1)
        /\ Bit(s, 8 * (3 * g + 2) + 2) = Two(t, 32) /\ Bit(s, 8 * (3 * g + 2) + 3) = Two(t, 16)
        /\ Bit(s, 8 * (3 * g + 2) + 4) = Two(t, 8)  /\ Bit(s, 8 * (3 * g + 2) + 5) = Two(t, 4)
        /\ Bit(s, 8 * (3 * g + 2) + 6) = Two(t, 2)  /\ Bit(s, 8 * (3 * g + 2) + 7) = Two(t, 1)
    BY <1>1, <1>2, <1>3, <2>1
  <2>3. /\ r % 4 = 2 * Two(r, 2) + Two(r, 1)
        /\ t = 32 * Two(t, 32) + 16 * Two(t, 16) + 8 * Two(t, 8) + 4 * Two(t, 4)
               + 2 * Two(t, 2) + Two(t, 1)
        /\ \A w \in {1, 2, 4, 8, 16, 32} : Two(r, w) \in {0, 1} /\ Two(t, w) \in {0, 1}
    BY <1>6, SixBits
  <2>4. Byte(s, 3 * g + 2) = Two(r, 2) * 128 + Two(r, 1) * 64 + Two(t, 32) * 32 + Two(t, 16) * 16
                             + Two(t, 8) * 8 + Two(t, 4) * 4 + Two(t, 2) * 2 + Two(t, 1) * 1
    BY <2>2, ByteSum, Zenon
  <2> QED
    BY SMT, <2>3, <2>4 DEF First, Second, Third
<1> QED
  BY <1>4, <1>5, <1>6

(* How long a well-formed text is, in blocks, and how many bytes it has.   *)
LEMMA WellFormedShape ==
    ASSUME NEW s \in Seq(Int), NEW n \in 0..Len(s), WellFormed(s, n)
    PROVE  /\ Len(s) \in Nat /\ n \in Nat /\ Len(s) \div 4 \in Nat
           /\ Len(s) = 4 * (Len(s) \div 4)
           /\ n <= Len(s) /\ Len(s) - n <= 2
           /\ (6 * n) \div 8 = 3 * (Len(s) \div 4) - (Len(s) - n)
           /\ (6 * n) \div 8 \in Nat
<1>1. /\ Len(s) \in Nat /\ n \in Nat /\ n <= Len(s)
      /\ Len(s) % 4 = 0 /\ Len(s) - n <= 2
  BY SMT DEF WellFormed
<1>2. \A L \in Nat, x \in Nat :
         L % 4 = 0 /\ x <= L /\ L - x <= 2
         => /\ L \div 4 \in Nat /\ L = 4 * (L \div 4)
            /\ (6 * x) \div 8 = 3 * (L \div 4) - (L - x)
            /\ (6 * x) \div 8 \in Nat
  BY SMT
<1> QED
  BY <1>1, <1>2

(* Of a well-formed text, the sextets of the data are what its characters  *)
(* stand for, and those of the padding are 0.                              *)
LEMMA SextetsOfText ==
    ASSUME NEW s \in Seq(Int), NEW n \in 0..Len(s), WellFormed(s, n), NEW i \in 1..Len(s)
    PROVE  /\ i <= n => SextetAt(s, i) = DecodeChar(s[i]) /\ ALPHABET[DecodeChar(s[i])] = s[i]
           /\ ~(i <= n) => SextetAt(s, i) = 0 /\ s[i] = Pad
           /\ SextetAt(s, i) \in 0..63
<1>1. Len(s) \in Nat /\ n \in Nat /\ i \in Nat /\ i >= 1 /\ i <= Len(s) /\ s[i] \in Int
  BY SMT, WellFormedShape
<1>2. CASE i <= n
  <2>1. i \in 1..n
    BY SMT, <1>1, <1>2
  <2>2. DecodeChar(s[i]) # -1
    BY <2>1 DEF WellFormed
  <2>3. s[i] # Pad /\ DecodeChar(s[i]) \in 0..63 /\ ALPHABET[DecodeChar(s[i])] = s[i]
    BY <1>1, <2>2, DecodeCharRange
  <2> QED
    BY <1>2, <2>3 DEF SextetAt
<1>3. CASE ~(i <= n)
  <2>1. i \in n + 1..Len(s) /\ 0 \in 0..63
    BY SMT, <1>1, <1>3
  <2>2. s[i] = Pad
    BY <2>1 DEF WellFormed
  <2> QED
    BY <1>3, <2>1, <2>2 DEF SextetAt
<1> QED
  BY <1>2, <1>3

(* A character of the data, and the number of the four of a block.         *)
Plain(s, i) == SextetAt(s, i) = DecodeChar(s[i])
Block(s, g) == Four(SextetAt(s, 4 * g + 1), SextetAt(s, 4 * g + 2),
                    SextetAt(s, 4 * g + 3), SextetAt(s, 4 * g + 4))

(* A block of a well-formed text: its number, from its sextets.            *)
LEMMA QuadOfText ==
    ASSUME NEW s \in Seq(Int), NEW n \in 0..Len(s), WellFormed(s, n),
           NEW g \in Nat, g < Len(s) \div 4
    PROVE  /\ \A j \in 0..3 : 4 * g + j + 1 \in 1..Len(s)
           /\ \A j \in {1, 2, 3, 4} : SextetAt(s, 4 * g + j) \in 0..63
           /\ Quad(s, g) = Block(s, g)
<1>1. /\ \A j \in 0..3 : 4 * g + j + 1 \in 1..Len(s)
      /\ \A j \in {1, 2, 3, 4} : 4 * g + j \in 1..Len(s)
  BY SMT, WellFormedShape
<1>2. Quad(s, g) = Block(s, g)
  BY SMT DEF Quad, Block, Four
<1> QED
  BY <1>1, <1>2, SextetsOfText

(* An octet of a block is made of the bits of two of its characters.       *)
LEMMA OctetIsByte ==
    ASSUME NEW s, NEW g \in Nat, \A i \in {1, 2, 3, 4} : SextetAt(s, 4 * g + i) \in 0..63
    PROVE  /\ Plain(s, 4 * g + 1) /\ Plain(s, 4 * g + 2)
              => Octet(Block(s, g), 0) = Byte(s, 3 * g)
           /\ Plain(s, 4 * g + 2) /\ Plain(s, 4 * g + 3)
              => Octet(Block(s, g), 1) = Byte(s, 3 * g + 1)
           /\ Plain(s, 4 * g + 3) /\ Plain(s, 4 * g + 4)
              => Octet(Block(s, g), 2) = Byte(s, 3 * g + 2)
<1> DEFINE p == SextetAt(s, 4 * g + 1)
           q == SextetAt(s, 4 * g + 2)
           r == SextetAt(s, 4 * g + 3)
           t == SextetAt(s, 4 * g + 4)
<1>1. p \in 0..63 /\ q \in 0..63 /\ r \in 0..63 /\ t \in 0..63
  OBVIOUS
<1>2. /\ Octet(Four(p, q, r, t), 0) = First(p, q)
      /\ Octet(Four(p, q, r, t), 1) = Second(q, r)
      /\ Octet(Four(p, q, r, t), 2) = Third(r, t)
  <2> HIDE DEF p, q, r, t
  <2>1. p \in Six /\ q \in Six /\ r \in Six /\ t \in Six
    BY <1>1 DEF Six
  <2> QED
    BY <2>1, OctetsOfSextets
<1>3. /\ Plain(s, 4 * g + 1) /\ Plain(s, 4 * g + 2) => Byte(s, 3 * g) = First(p, q)
      /\ Plain(s, 4 * g + 2) /\ Plain(s, 4 * g + 3) => Byte(s, 3 * g + 1) = Second(q, r)
      /\ Plain(s, 4 * g + 3) /\ Plain(s, 4 * g + 4) => Byte(s, 3 * g + 2) = Third(r, t)
  BY <1>1, ByteOfBits, Zenon DEF Plain
<1> QED
  BY <1>2, <1>3, Zenon DEF Block

(* The bytes that decode makes are those of the bits of the text.          *)
LEMMA DecodedAt ==
    ASSUME NEW s \in Seq(Int), NEW n \in 0..Len(s), WellFormed(s, n),
           NEW g \in Nat, NEW j \in 0..2, 3 * g + j < (6 * n) \div 8
    PROVE  /\ g < Len(s) \div 4
           /\ Decoded(s, g, j) = Octet(Quad(s, g), j)
           /\ Decoded(s, g, j) = Byte(s, 3 * g + j)
<1>1. /\ g < Len(s) \div 4
      /\ j = 0 => 4 * g + 2 <= n
      /\ j = 1 => 4 * g + 3 <= n
      /\ j = 2 => 4 * g + 4 <= n
  <2>1. \A L \in Nat, m \in Nat, x \in Nat, y \in Nat :
           L = 4 * m /\ x <= L /\ L - x <= 2 /\ y = 3 * m - (L - x) /\ 3 * g + j < y
           => /\ g < m
              /\ j = 0 => 4 * g + 2 <= x
              /\ j = 1 => 4 * g + 3 <= x
              /\ j = 2 => 4 * g + 4 <= x
    BY SMT
  <2> QED
    BY <2>1, WellFormedShape
<1>2. /\ \A i \in {1, 2, 3, 4} : SextetAt(s, 4 * g + i) \in 0..63
      /\ Quad(s, g) = Block(s, g)
  BY <1>1, QuadOfText
<1>3. \A i \in {1, 2, 3, 4} : 4 * g + i \in 1..Len(s)
  BY SMT, <1>1, WellFormedShape
<1>4. Decoded(s, g, j) = Octet(Quad(s, g), j)
  BY DEF Decoded, Octet
<1>5. \A i \in {1, 2, 3, 4} : 4 * g + i <= n => Plain(s, 4 * g + i)
  BY <1>3, SextetsOfText DEF Plain
<1>6. /\ j = 0 => 4 * g + 1 <= n /\ 3 * g + j = 3 * g
      /\ j = 1 => 4 * g + 2 <= n /\ 3 * g + j = 3 * g + 1
      /\ j = 2 => 4 * g + 3 <= n /\ 3 * g + j = 3 * g + 2
      /\ j = 0 \/ j = 1 \/ j = 2
  BY SMT, <1>1, WellFormedShape
<1>7. /\ j = 0 => Plain(s, 4 * g + 1) /\ Plain(s, 4 * g + 2)
      /\ j = 1 => Plain(s, 4 * g + 2) /\ Plain(s, 4 * g + 3)
      /\ j = 2 => Plain(s, 4 * g + 3) /\ Plain(s, 4 * g + 4)
  BY <1>1, <1>5, <1>6
<1>8. Octet(Block(s, g), j) = Byte(s, 3 * g + j)
  BY <1>2, <1>6, <1>7, OctetIsByte, Zenon
<1> QED
  BY <1>1, <1>2, <1>4, <1>8, Zenon

(* The bytes decode makes of a well-formed text are those of its bits.     *)
LEMMA DecodeIsBytes ==
    ASSUME NEW s \in Seq(Int), NEW n \in 0..Len(s), WellFormed(s, n)
    PROVE  Decode(s) = [k \in 1..(6 * n) \div 8 |-> Byte(s, k - 1)]
<1> DEFINE z == (6 * n) \div 8
<1>1. Padding(s) = Len(s) - n
  BY WellFormedPadding
<1>2. z \in Nat /\ 3 * (Len(s) \div 4) - Padding(s) = z
  BY <1>1, WellFormedShape
<1>3. Decode(s) = [k \in 1..z |-> Decoded(s, (k - 1) \div 3, (k - 1) % 3)]
  BY <1>2, Zenon DEF Decode
<1>4. ASSUME NEW k \in 1..z
      PROVE  Decoded(s, (k - 1) \div 3, (k - 1) % 3) = Byte(s, k - 1)
  <2> DEFINE g == (k - 1) \div 3
             j == (k - 1) % 3
  <2>1. g \in Nat /\ j \in 0..2 /\ 3 * g + j < z /\ 3 * g + j = k - 1
    BY SMT, <1>2
  <2> QED
    BY <2>1, DecodedAt
<1> HIDE DEF z
<1>5. [k \in 1..z |-> Decoded(s, (k - 1) \div 3, (k - 1) % 3)] = [k \in 1..z |-> Byte(s, k - 1)]
  BY <1>4, Zenon
<1> QED
  BY <1>3, <1>5 DEF z

-----------------------------------------------------------------------------
(* What encode makes of those bytes: the text again, with its spare bits   *)
(* cleared.                                                                *)

(* A sextet without its bits below w, and the sextets of a text without    *)
(* the spare bits of its last one.                                         *)
Clear(v, w)      == v - (v % w)
Spare(n)         == IF n % 4 = 3 THEN 4 ELSE IF n % 4 = 2 THEN 16 ELSE 1
Cleared(s, n, i) == IF i = n THEN Clear(SextetAt(s, i), Spare(n)) ELSE SextetAt(s, i)

(* The sextets of the number of four sextets are those sextets.            *)
LEMMA SextetsOfFour ==
    ASSUME NEW p \in Six, NEW q \in Six, NEW r \in Six, NEW t \in Six
    PROVE  /\ Is24Bit(Four(p, q, r, t))
           /\ Sextet(Four(p, q, r, t), 0) = p
           /\ Sextet(Four(p, q, r, t), 1) = q
           /\ Sextet(Four(p, q, r, t), 2) = r
           /\ Sextet(Four(p, q, r, t), 3) = t
<1>1. p \in 0..63 /\ q \in 0..63 /\ r \in 0..63 /\ t \in 0..63
  BY DEF Six
<1>2. Is24Bit(Four(p, q, r, t))
  BY SMT, <1>1 DEF Is24Bit, Four
<1>3. Sextet(Four(p, q, r, t), 0) = p
  BY SMT, <1>1 DEF Sextet, Four
<1>4. Sextet(Four(p, q, r, t), 1) = q
  <2>1. Four(p, q, r, t) \div 4096 = 64 * p + q
    BY SMT, <1>1 DEF Four
  <2>2. (64 * p + q) % 64 = q
    BY SMT, <1>1
  <2> QED
    BY SMT, <2>1, <2>2 DEF Sextet
<1>5. Sextet(Four(p, q, r, t), 2) = r
  <2>1. Four(p, q, r, t) \div 64 = 4096 * p + 64 * q + r
    BY SMT, <1>1 DEF Four
  <2>2. (4096 * p + 64 * q + r) % 64 = r
    BY SMT, <1>1
  <2> QED
    BY SMT, <2>1, <2>2 DEF Sextet
<1>6. Sextet(Four(p, q, r, t), 3) = t
  BY SMT, <1>1 DEF Sextet, Four
<1> QED
  BY <1>2, <1>3, <1>4, <1>5, <1>6

(* A sextet whose last bits are cleared is a sextet.                       *)
LEMMA ClearInSix ==
    ASSUME NEW v \in Six
    PROVE  Clear(v, 4) \in Six /\ Clear(v, 16) \in Six
BY SMT DEF Clear, Six

(* The number of the octets of a block, of which the last may be missing.  *)
LEMMA ThreeOfOctets ==
    ASSUME NEW p \in Six, NEW q \in Six, NEW r \in Six, NEW t \in Six
    PROVE  /\ Three(Octet(Four(p, q, r, t), 0), Octet(Four(p, q, r, t), 1),
                    Octet(Four(p, q, r, t), 2)) = Four(p, q, r, t)
           /\ Three(Octet(Four(p, q, r, t), 0), Octet(Four(p, q, r, t), 1), 0)
              = Four(p, q, Clear(r, 4), 0)
           /\ Three(Octet(Four(p, q, r, t), 0), 0, 0) = Four(p, Clear(q, 16), 0, 0)
           /\ Octet(Four(p, q, r, t), 0) \in Bytes
           /\ Octet(Four(p, q, r, t), 1) \in Bytes
           /\ Octet(Four(p, q, r, t), 2) \in Bytes
<1>0. p \in 0..63 /\ q \in 0..63 /\ r \in 0..63 /\ t \in 0..63
  BY DEF Six
<1>1. PICK a \in 0..3, b \in 0..15 : q = 16 * a + b /\ a = q \div 16 /\ b = q % 16
  BY SMT, <1>0
<1>2. PICK c \in 0..15, d \in 0..3 : r = 4 * c + d /\ c = r \div 4 /\ d = r % 4
  BY SMT, <1>0
<1>3. Clear(q, 16) = 16 * a /\ Clear(r, 4) = 4 * c
  BY SMT, <1>1, <1>2 DEF Clear
<1>4. /\ Octet(Four(p, q, r, t), 0) = 4 * p + a
      /\ Octet(Four(p, q, r, t), 1) = 16 * b + c
      /\ Octet(Four(p, q, r, t), 2) = 64 * d + t
  <2>1. /\ Octet(Four(p, q, r, t), 0) = First(p, q)
        /\ Octet(Four(p, q, r, t), 1) = Second(q, r)
        /\ Octet(Four(p, q, r, t), 2) = Third(r, t)
    BY OctetsOfSextets
  <2>2. First(p, q) = 4 * p + a /\ Second(q, r) = 16 * b + c /\ Third(r, t) = 64 * d + t
    BY <1>1, <1>2, Zenon DEF First, Second, Third
  <2> QED
    BY <2>1, <2>2
<1>5. 4 * p + a \in Bytes /\ 16 * b + c \in Bytes /\ 64 * d + t \in Bytes
  BY SMT, <1>0 DEF Bytes
<1>6. /\ Three(4 * p + a, 16 * b + c, 64 * d + t) = Four(p, 16 * a + b, 4 * c + d, t)
      /\ Three(4 * p + a, 16 * b + c, 0) = Four(p, 16 * a + b, 4 * c, 0)
      /\ Three(4 * p + a, 0, 0) = Four(p, 16 * a, 0, 0)
  BY SMT, <1>0 DEF Three, Four
<1> QED
  BY <1>1, <1>2, <1>3, <1>4, <1>5, <1>6, Zenon

(* The sextets of a block of a well-formed text, and their number.         *)
LEMMA BlockSextets ==
    ASSUME NEW s \in Seq(Int), NEW n \in 0..Len(s), WellFormed(s, n),
           NEW g \in Nat, g < Len(s) \div 4
    PROVE  /\ SextetAt(s, 4 * g + 1) \in Six /\ SextetAt(s, 4 * g + 2) \in Six
           /\ SextetAt(s, 4 * g + 3) \in Six /\ SextetAt(s, 4 * g + 4) \in Six
           /\ Quad(s, g) = Block(s, g)
BY QuadOfText DEF Six

(* The bytes decode makes, as encode sees them: 0 where there are no more. *)
LEMMA DecodeBytesAt ==
    ASSUME NEW s \in Seq(Int), NEW n \in 0..Len(s), WellFormed(s, n)
    PROVE  /\ Decode(s) \in Seq(Bytes)
           /\ Len(Decode(s)) = (6 * n) \div 8
           /\ \A g \in Nat, j \in 0..2 :
                 ByteAt(Decode(s), 3 * g + j + 1)
                 = IF 3 * g + j < (6 * n) \div 8 THEN Octet(Block(s, g), j) ELSE 0
<1> DEFINE z == (6 * n) \div 8
           D == Decode(s)
<1>1. z \in Nat
  BY WellFormedShape
<1>2. D = [k \in 1..z |-> Byte(s, k - 1)]
  BY DecodeIsBytes
<1>3. \A g \in Nat, j \in 0..2 : 3 * g + j < z =>
         /\ Octet(Block(s, g), j) = Byte(s, 3 * g + j)
         /\ Byte(s, 3 * g + j) \in Bytes
  <2> SUFFICES ASSUME NEW g \in Nat, NEW j \in 0..2, 3 * g + j < z
               PROVE  /\ Octet(Block(s, g), j) = Byte(s, 3 * g + j)
                      /\ Octet(Block(s, g), j) \in Bytes
    BY Zenon
  <2>1. /\ g < Len(s) \div 4
        /\ Decoded(s, g, j) = Octet(Quad(s, g), j)
        /\ Decoded(s, g, j) = Byte(s, 3 * g + j)
    BY DecodedAt
  <2>2. Quad(s, g) = Block(s, g)
    BY <2>1, BlockSextets
  <2>3. Octet(Block(s, g), 0) \in Bytes /\ Octet(Block(s, g), 1) \in Bytes
        /\ Octet(Block(s, g), 2) \in Bytes
    BY <2>1, BlockSextets, ThreeOfOctets, Zenon DEF Block
  <2>4. j = 0 \/ j = 1 \/ j = 2
    BY SMT
  <2> QED
    BY <2>1, <2>2, <2>3, <2>4, Zenon
<1> HIDE DEF z, D
<1>4. \A k \in 1..z : Byte(s, k - 1) \in Bytes
  <2> SUFFICES ASSUME NEW k \in 1..z PROVE Byte(s, k - 1) \in Bytes
    OBVIOUS
  <2>1. /\ (k - 1) \div 3 \in Nat /\ (k - 1) % 3 \in 0..2
        /\ 3 * ((k - 1) \div 3) + ((k - 1) % 3) = k - 1
        /\ k - 1 < z
    BY SMT, <1>1
  <2> QED
    BY <1>3, <2>1
<1>5. D \in Seq(Bytes) /\ Len(D) = z
  BY SMT, <1>1, <1>2, <1>4
<1>6. ASSUME NEW g \in Nat, NEW j \in 0..2
      PROVE  ByteAt(D, 3 * g + j + 1) = IF 3 * g + j < z THEN Octet(Block(s, g), j) ELSE 0
  <2>1. CASE 3 * g + j < z
    <3>1. /\ 3 * g + j + 1 \in 1..z /\ (3 * g + j + 1) - 1 = 3 * g + j
          /\ 3 * g + j + 1 <= z
      BY SMT, <1>1, <2>1
    <3>2. D[3 * g + j + 1] = Byte(s, 3 * g + j)
      BY <1>2, <3>1, Zenon
    <3> QED
      BY <1>3, <1>5, <2>1, <3>1, <3>2 DEF ByteAt
  <2>2. CASE ~(3 * g + j < z)
    <3>1. ~(3 * g + j + 1 <= z)
      BY SMT, <1>1, <2>2
    <3> QED
      BY <1>5, <2>2, <3>1 DEF ByteAt
  <2> QED
    BY <2>1, <2>2
<1> QED
  BY <1>5, <1>6 DEF D, z

(* Three, two or one of the octets of a block, as the sextets they are     *)
(* encoded with: what lies beyond the octets is cleared.                   *)
LEMMA ThreeOfBlock ==
    ASSUME NEW s, NEW g,
           SextetAt(s, 4 * g + 1) \in Six, SextetAt(s, 4 * g + 2) \in Six,
           SextetAt(s, 4 * g + 3) \in Six, SextetAt(s, 4 * g + 4) \in Six
    PROVE  /\ Three(Octet(Block(s, g), 0), Octet(Block(s, g), 1), Octet(Block(s, g), 2))
              = Block(s, g)
           /\ Three(Octet(Block(s, g), 0), Octet(Block(s, g), 1), 0)
              = Four(SextetAt(s, 4 * g + 1), SextetAt(s, 4 * g + 2),
                     Clear(SextetAt(s, 4 * g + 3), 4), 0)
           /\ Three(Octet(Block(s, g), 0), 0, 0)
              = Four(SextetAt(s, 4 * g + 1), Clear(SextetAt(s, 4 * g + 2), 16), 0, 0)
           /\ Clear(SextetAt(s, 4 * g + 3), 4) \in Six
           /\ Clear(SextetAt(s, 4 * g + 2), 16) \in Six
<1> DEFINE p == SextetAt(s, 4 * g + 1)
           q == SextetAt(s, 4 * g + 2)
           r == SextetAt(s, 4 * g + 3)
           t == SextetAt(s, 4 * g + 4)
<1>1. p \in Six /\ q \in Six /\ r \in Six /\ t \in Six /\ Block(s, g) = Four(p, q, r, t)
  BY DEF Block
<1>2. /\ Three(Octet(Four(p, q, r, t), 0), Octet(Four(p, q, r, t), 1),
               Octet(Four(p, q, r, t), 2)) = Four(p, q, r, t)
      /\ Three(Octet(Four(p, q, r, t), 0), Octet(Four(p, q, r, t), 1), 0)
         = Four(p, q, Clear(r, 4), 0)
      /\ Three(Octet(Four(p, q, r, t), 0), 0, 0) = Four(p, Clear(q, 16), 0, 0)
  <2> HIDE DEF p, q, r, t
  <2> QED
    BY <1>1, ThreeOfOctets
<1>3. Clear(r, 4) \in Six /\ Clear(q, 16) \in Six
  BY <1>1, ClearInSix
<1> QED
  BY <1>1, <1>2, <1>3, Zenon

(* The number encode makes of a group of the decoded bytes is that of the  *)
(* block they come from, its spare bits cleared.                           *)
LEMMA TripleOfText ==
    ASSUME NEW s \in Seq(Int), NEW n \in 0..Len(s), WellFormed(s, n),
           NEW g \in Nat, g < Len(s) \div 4
    PROVE  /\ Triple(Decode(s), g)
              = Four(Cleared(s, n, 4 * g + 1), Cleared(s, n, 4 * g + 2),
                     Cleared(s, n, 4 * g + 3), Cleared(s, n, 4 * g + 4))
           /\ \A j \in 0..3 : Cleared(s, n, 4 * g + j + 1) \in Six
<1> DEFINE z == (6 * n) \div 8
           m == Len(s) \div 4
           B == Block(s, g)
           D == Decode(s)
           p == SextetAt(s, 4 * g + 1)
           q == SextetAt(s, 4 * g + 2)
           r == SextetAt(s, 4 * g + 3)
           t == SextetAt(s, 4 * g + 4)
<1>1. p \in Six /\ q \in Six /\ r \in Six /\ t \in Six /\ B = Four(p, q, r, t)
  BY BlockSextets, Zenon DEF Block
<1>2. Triple(D, g) = Three(ByteAt(D, 3 * g + 1), ByteAt(D, 3 * g + 2), ByteAt(D, 3 * g + 3))
  BY DecodeBytesAt, GroupBytes
<1>3. /\ ByteAt(D, 3 * g + 1) = IF 3 * g < z THEN Octet(B, 0) ELSE 0
      /\ ByteAt(D, 3 * g + 2) = IF 3 * g + 1 < z THEN Octet(B, 1) ELSE 0
      /\ ByteAt(D, 3 * g + 3) = IF 3 * g + 2 < z THEN Octet(B, 2) ELSE 0
  <2>1. /\ 0 \in 0..2 /\ 1 \in 0..2 /\ 2 \in 0..2
        /\ 3 * g + 0 = 3 * g /\ 3 * g + 0 + 1 = 3 * g + 1
        /\ 3 * g + 1 + 1 = 3 * g + 2 /\ 3 * g + 2 + 1 = 3 * g + 3
    BY SMT
  <2>2. \A j \in 0..2 : ByteAt(D, 3 * g + j + 1) = IF 3 * g + j < z THEN Octet(B, j) ELSE 0
    BY DecodeBytesAt
  <2> HIDE DEF D, B, z
  <2> QED
    BY <2>1, <2>2
<1>4. /\ 0 \in Six
      /\ 4 * g + 4 <= n => 4 * g + 3 # n /\ 4 * g + 2 # n /\ 4 * g + 1 # n /\ 3 * g + 2 < z
                           /\ 3 * g + 1 < z /\ 3 * g < z
      /\ 4 * g + 4 = n => Spare(n) = 1
      /\ ~(4 * g + 4 <= n) =>
            /\ 4 * g + 4 # n /\ 4 * g + 1 # n
            /\ \/ /\ 4 * g + 3 = n /\ 4 * g + 2 # n /\ Spare(n) = 4 /\ 3 * g < z /\ 3 * g + 1 < z
                  /\ ~(3 * g + 2 < z)
               \/ /\ 4 * g + 2 = n /\ 4 * g + 3 # n /\ Spare(n) = 16 /\ 3 * g < z
                  /\ ~(3 * g + 1 < z) /\ ~(3 * g + 2 < z) /\ ~(4 * g + 3 <= n)
  <2>1. \A L, M, x, y \in Nat :
           /\ g < M /\ L = 4 * M /\ x <= L /\ L - x <= 2 /\ y = 3 * M - (L - x)
           => /\ 4 * g + 4 <= x => 4 * g + 3 # x /\ 4 * g + 2 # x /\ 4 * g + 1 # x /\ 3 * g + 2 < y
                                   /\ 3 * g + 1 < y /\ 3 * g < y
              /\ 4 * g + 4 = x => x % 4 = 0
              /\ ~(4 * g + 4 <= x) =>
                    /\ 4 * g + 4 # x /\ 4 * g + 1 # x
                    /\ \/ /\ 4 * g + 3 = x /\ 4 * g + 2 # x /\ x % 4 = 3 /\ 3 * g < y /\ 3 * g + 1 < y
                          /\ ~(3 * g + 2 < y)
                       \/ /\ 4 * g + 2 = x /\ 4 * g + 3 # x /\ x % 4 = 2 /\ 3 * g < y
                          /\ ~(3 * g + 1 < y) /\ ~(3 * g + 2 < y) /\ ~(4 * g + 3 <= x)
    BY SMT
  <2>2. 0 \in Six
    BY SMT DEF Six
  <2>3. n % 4 = 0 => Spare(n) = 1
    BY SMT DEF Spare
  <2>4. (n % 4 = 3 => Spare(n) = 4) /\ (n % 4 = 2 => Spare(n) = 16)
    BY SMT DEF Spare
  <2>5. /\ Len(s) \in Nat /\ m \in Nat /\ n \in Nat /\ z \in Nat
        /\ g < m /\ Len(s) = 4 * m /\ n <= Len(s) /\ Len(s) - n <= 2 /\ z = 3 * m - (Len(s) - n)
    BY WellFormedShape
  <2> HIDE DEF z, m
  <2> QED
    BY <2>1, <2>2, <2>3, <2>4, <2>5
<1>5. /\ \A i \in {1, 2, 3, 4} : 4 * g + i \in 1..Len(s)
      /\ 4 * g + 0 + 1 = 4 * g + 1 /\ 4 * g + 1 + 1 = 4 * g + 2
      /\ 4 * g + 2 + 1 = 4 * g + 3 /\ 4 * g + 3 + 1 = 4 * g + 4
  BY SMT, WellFormedShape
<1>6. /\ ~(4 * g + 4 <= n) => t = 0
      /\ ~(4 * g + 3 <= n) => r = 0
  BY <1>5, SextetsOfText
<1>7. \A v \in Six : Clear(v, 1) = v
  BY SMT DEF Clear, Six
<1>8. /\ Three(Octet(B, 0), Octet(B, 1), Octet(B, 2)) = Four(p, q, r, t)
      /\ Three(Octet(B, 0), Octet(B, 1), 0) = Four(p, q, Clear(r, 4), 0)
      /\ Three(Octet(B, 0), 0, 0) = Four(p, Clear(q, 16), 0, 0)
      /\ Clear(r, 4) \in Six /\ Clear(q, 16) \in Six
  BY <1>1, ThreeOfBlock, Zenon
<1>9. SUFFICES /\ Triple(D, g) = Four(Cleared(s, n, 4 * g + 1), Cleared(s, n, 4 * g + 2),
                                      Cleared(s, n, 4 * g + 3), Cleared(s, n, 4 * g + 4))
               /\ Cleared(s, n, 4 * g + 1) \in Six /\ Cleared(s, n, 4 * g + 2) \in Six
               /\ Cleared(s, n, 4 * g + 3) \in Six /\ Cleared(s, n, 4 * g + 4) \in Six
  <2>1. \A j \in 0..3 : j = 0 \/ j = 1 \/ j = 2 \/ j = 3
    BY SMT
  <2> QED
    BY <1>5, <2>1, Zenon
<1>10. /\ Cleared(s, n, 4 * g + 1) = IF 4 * g + 1 = n THEN Clear(p, Spare(n)) ELSE p
       /\ Cleared(s, n, 4 * g + 2) = IF 4 * g + 2 = n THEN Clear(q, Spare(n)) ELSE q
       /\ Cleared(s, n, 4 * g + 3) = IF 4 * g + 3 = n THEN Clear(r, Spare(n)) ELSE r
       /\ Cleared(s, n, 4 * g + 4) = IF 4 * g + 4 = n THEN Clear(t, Spare(n)) ELSE t
  BY Zenon DEF Cleared
<1> HIDE DEF p, q, r, t, B, D, z, m
<1>11. CASE 4 * g + 4 <= n
  <2>1. Cleared(s, n, 4 * g + 4) = t
    BY <1>1, <1>4, <1>7, <1>10, Zenon
  <2>2. /\ Cleared(s, n, 4 * g + 1) = p /\ Cleared(s, n, 4 * g + 2) = q
        /\ Cleared(s, n, 4 * g + 3) = r
    BY <1>4, <1>10, <1>11, Zenon
  <2>3. Triple(D, g) = Three(Octet(B, 0), Octet(B, 1), Octet(B, 2))
    BY <1>2, <1>3, <1>4, <1>11, Zenon
  <2> QED
    BY <1>1, <1>8, <2>1, <2>2, <2>3, Zenon
<1>12. CASE ~(4 * g + 4 <= n) /\ 4 * g + 3 = n
  <2>1. 4 * g + 2 # n /\ Spare(n) = 4 /\ 3 * g < z /\ 3 * g + 1 < z /\ ~(3 * g + 2 < z)
        /\ 4 * g + 4 # n /\ 4 * g + 1 # n
    BY <1>4, <1>12, Zenon
  <2>2. /\ Cleared(s, n, 4 * g + 1) = p /\ Cleared(s, n, 4 * g + 2) = q
        /\ Cleared(s, n, 4 * g + 3) = Clear(r, 4) /\ Cleared(s, n, 4 * g + 4) = 0
    BY <1>6, <1>10, <1>12, <2>1, Zenon
  <2>3. Triple(D, g) = Three(Octet(B, 0), Octet(B, 1), 0)
    BY <1>2, <1>3, <2>1, Zenon
  <2> QED
    BY <1>1, <1>4, <1>8, <2>2, <2>3, Zenon
<1>13. CASE ~(4 * g + 4 <= n) /\ 4 * g + 3 # n
  <2>1. 4 * g + 2 = n /\ Spare(n) = 16 /\ 3 * g < z /\ ~(3 * g + 1 < z) /\ ~(3 * g + 2 < z)
        /\ 4 * g + 4 # n /\ 4 * g + 1 # n /\ ~(4 * g + 3 <= n)
    BY <1>4, <1>13, Zenon
  <2>2. /\ Cleared(s, n, 4 * g + 1) = p /\ Cleared(s, n, 4 * g + 2) = Clear(q, 16)
        /\ Cleared(s, n, 4 * g + 3) = 0 /\ Cleared(s, n, 4 * g + 4) = 0
    BY <1>6, <1>10, <1>13, <2>1, Zenon
  <2>3. Triple(D, g) = Three(Octet(B, 0), 0, 0)
    BY <1>2, <1>3, <2>1, Zenon
  <2> QED
    BY <1>1, <1>4, <1>8, <2>2, <2>3, Zenon
<1> QED
  BY <1>11, <1>12, <1>13

(* Encoding again: what every place of the text has.                       *)
LEMMA EncodeOfDecode ==
    ASSUME NEW s \in Seq(Int), NEW n \in 0..Len(s), WellFormed(s, n)
    PROVE  /\ Len(Encode(Decode(s))) = Len(s)
           /\ \A i \in 1..Len(s) :
                 Encode(Decode(s))[i] = IF i <= n THEN ALPHABET[Cleared(s, n, i)] ELSE Pad
<1> DEFINE z == (6 * n) \div 8
           m == Len(s) \div 4
           D == Decode(s)
           S == Encode(D)
<1>1. /\ Len(s) \in Nat /\ m \in Nat /\ n \in Nat /\ z \in Nat
      /\ Len(s) = 4 * m /\ n <= Len(s) /\ Len(s) - n <= 2 /\ z = 3 * m - (Len(s) - n)
  BY WellFormedShape
<1>2. D \in Seq(Bytes) /\ Len(D) = z
  BY DecodeBytesAt
<1>3. Groups(D) = m
  <2> HIDE DEF D, m, z
  <2> QED
    BY SMT, <1>1, <1>2 DEF Groups
<1>4. Len(S) = Len(s)
  BY <1>1, <1>2, <1>3, EncodeShape
<1>5. ASSUME NEW g \in Nat, NEW j \in 0..3, g < m
      PROVE  S[4 * g + j + 1] = IF 4 * g + j + 1 <= n THEN ALPHABET[Cleared(s, n, 4 * g + j + 1)]
                                ELSE Pad
  <2>1. S[4 * g + j + 1] = Encoded(D, g, j)
    BY <1>2, <1>3, <1>5, EncodeAt
  <2>2. Encoded(D, g, j) = IF Missing(D, g, j) THEN Pad ELSE ALPHABET[Sextet(Triple(D, g), j)]
    BY <1>2, EncodedPlace
  <2>3. Missing(D, g, j) <=> ~(4 * g + j + 1 <= n)
    <3>1. \A L, M, x, y \in Nat :
             /\ g < M /\ L = 4 * M /\ x <= L /\ L - x <= 2 /\ y = 3 * M - (L - x)
             => (((j = 2 /\ 3 * g + 2 > y) \/ (j = 3 /\ 3 * g + 3 > y)) <=> ~(4 * g + j + 1 <= x))
      BY SMT
    <3>2. Missing(D, g, j) <=> ((j = 2 /\ 3 * g + 2 > z) \/ (j = 3 /\ 3 * g + 3 > z))
      BY <1>2 DEF Missing
    <3> HIDE DEF z, m, D
    <3> QED
      BY <1>1, <1>5, <3>1, <3>2
  <2>4. Sextet(Triple(D, g), j) = Cleared(s, n, 4 * g + j + 1)
    <3> DEFINE p == Cleared(s, n, 4 * g + 1)
               q == Cleared(s, n, 4 * g + 2)
               r == Cleared(s, n, 4 * g + 3)
               t == Cleared(s, n, 4 * g + 4)
    <3>1. Triple(D, g) = Four(p, q, r, t)
      BY <1>5, TripleOfText
    <3>2. /\ 0 \in 0..3 /\ 1 \in 0..3 /\ 2 \in 0..3 /\ 3 \in 0..3
          /\ 4 * g + 0 + 1 = 4 * g + 1 /\ 4 * g + 1 + 1 = 4 * g + 2
          /\ 4 * g + 2 + 1 = 4 * g + 3 /\ 4 * g + 3 + 1 = 4 * g + 4
          /\ j = 0 \/ j = 1 \/ j = 2 \/ j = 3
      BY SMT
    <3>3. \A k \in 0..3 : Cleared(s, n, 4 * g + k + 1) \in Six
      BY <1>5, TripleOfText
    <3>4. p \in Six /\ q \in Six /\ r \in Six /\ t \in Six
      BY <3>2, <3>3
    <3>5. /\ Sextet(Four(p, q, r, t), 0) = p /\ Sextet(Four(p, q, r, t), 1) = q
          /\ Sextet(Four(p, q, r, t), 2) = r /\ Sextet(Four(p, q, r, t), 3) = t
      <4> HIDE DEF p, q, r, t
      <4> QED
        BY <3>4, SextetsOfFour
    <3> QED
      BY <3>1, <3>2, <3>5, Zenon
  <2> QED
    BY <2>1, <2>2, <2>3, <2>4, Zenon
<1>6. ASSUME NEW i \in 1..Len(s)
      PROVE  S[i] = IF i <= n THEN ALPHABET[Cleared(s, n, i)] ELSE Pad
  <2> DEFINE g == (i - 1) \div 4
             j == (i - 1) % 4
  <2>1. i \in Nat /\ i >= 1
    BY SMT, <1>1
  <2>2. g \in Nat /\ j \in 0..3 /\ i = 4 * g + j + 1
    BY <2>1, PlaceOf
  <2>3. g < m
    <3> HIDE DEF g, j, m
    <3> QED
      BY SMT, <1>1, <2>2
  <2>4. S[4 * g + j + 1] = IF 4 * g + j + 1 <= n THEN ALPHABET[Cleared(s, n, 4 * g + j + 1)]
                           ELSE Pad
    <3> HIDE DEF g, j, m, S
    <3> QED
      BY <1>5, <2>2, <2>3, Zenon
  <2> HIDE DEF g, j, S
  <2> QED
    BY <2>2, <2>4, Zenon
<1> QED
  BY <1>4, <1>6

(* So the text comes back exactly when there was nothing to clear.         *)
LEMMA EncodeIsText ==
    ASSUME NEW s \in Seq(Int), NEW n \in 0..Len(s), WellFormed(s, n)
    PROVE  Encode(Decode(s)) = s <=> n = 0 \/ DecodeChar(s[n]) % Spare(n) = 0
<1> DEFINE S == Encode(Decode(s))
           v == DecodeChar(s[n])
<1>1. Len(s) \in Nat /\ n \in Nat /\ n <= Len(s)
  BY WellFormedShape
<1>2. Len(S) = Len(s) /\ \A i \in 1..Len(s) : S[i] = IF i <= n THEN ALPHABET[Cleared(s, n, i)] ELSE Pad
  BY EncodeOfDecode
<1>3. \A i \in 1..Len(s) : i # n => S[i] = s[i]
  <2> SUFFICES ASSUME NEW i \in 1..Len(s), i # n PROVE S[i] = s[i]
    OBVIOUS
  <2>1. S[i] = IF i <= n THEN ALPHABET[Cleared(s, n, i)] ELSE Pad
    BY <1>2
  <2>2. Cleared(s, n, i) = SextetAt(s, i)
    BY Zenon DEF Cleared
  <2>3. /\ i <= n => SextetAt(s, i) = DecodeChar(s[i]) /\ ALPHABET[DecodeChar(s[i])] = s[i]
        /\ ~(i <= n) => s[i] = Pad
    BY SextetsOfText
  <2> HIDE DEF S
  <2> QED
    BY <2>1, <2>2, <2>3
<1>4. S \in Seq(Int)
  <2>1. Decode(s) \in Seq(Bytes)
    BY DecodeBytesAt
  <2>2. S = [i \in 1..4 * Groups(Decode(s)) |-> Encoded(Decode(s), (i - 1) \div 4, (i - 1) % 4)]
        /\ Groups(Decode(s)) \in Nat
    BY <2>1, EncodeShape
  <2>3. \A i \in 1..4 * Groups(Decode(s)) : Encoded(Decode(s), (i - 1) \div 4, (i - 1) % 4) \in Int
    <3> SUFFICES ASSUME NEW i \in 1..4 * Groups(Decode(s))
                 PROVE  Encoded(Decode(s), (i - 1) \div 4, (i - 1) % 4) \in Int
      OBVIOUS
    <3> DEFINE g == (i - 1) \div 4
               j == (i - 1) % 4
               D == Decode(s)
    <3>1. i \in Nat /\ i >= 1
      BY SMT, <2>2
    <3>2. g \in Nat /\ j \in 0..3
      BY <3>1, PlaceOf
    <3>3. Encoded(D, g, j) = IF Missing(D, g, j) THEN Pad ELSE ALPHABET[Sextet(Triple(D, g), j)]
      BY <2>1, <3>2, EncodedPlace
    <3>4. Sextet(Triple(D, g), j) \in 0..63
      BY <2>1, <3>2, TripleFacts, Sextets
    <3>5. ALPHABET[Sextet(Triple(D, g), j)] \in Nat
      BY <3>4, AlphabetInverse
    <3>6. Pad \in Int
      BY SMT DEF Pad
    <3> HIDE DEF g, j, D
    <3> QED
      BY SMT, <3>3, <3>5, <3>6 DEF g, j, D
  <2> HIDE DEF S
  <2> DEFINE G == 4 * Groups(Decode(s))
             E(i) == Encoded(Decode(s), (i - 1) \div 4, (i - 1) % 4)
  <2>4. G \in Nat
    BY SMT, <2>2
  <2>5. S = [i \in 1..G |-> E(i)] /\ \A i \in 1..G : E(i) \in Int
    BY <2>2, <2>3
  <2> HIDE DEF G, E
  <2> QED
    BY <2>4, <2>5
<1>5. S = s <=> \A i \in 1..Len(s) : S[i] = s[i]
  <2> HIDE DEF S
  <2>1. DOMAIN S = 1..Len(s) /\ DOMAIN s = 1..Len(s)
    BY <1>1, <1>2, <1>4
  <2>2. S = [i \in DOMAIN S |-> S[i]] /\ s = [i \in DOMAIN s |-> s[i]]
    BY <1>4
  <2> QED
    BY <2>1, <2>2, Zenon
<1> HIDE DEF S
<1>6. CASE n = 0
  <2>1. \A i \in 1..Len(s) : i # n
    BY SMT, <1>1, <1>6
  <2>2. S = s
    BY <1>3, <1>5, <2>1, Zenon
  <2> QED
    BY <1>6, <2>2, Zenon DEF S
<1>7. CASE n # 0
  <2>1. n \in 1..Len(s) /\ n <= n
    BY SMT, <1>1, <1>7
  <2>2. /\ SextetAt(s, n) = v /\ ALPHABET[v] = s[n] /\ v \in 0..63
    <3>1. \A i \in 1..Len(s) :
             /\ i <= n => SextetAt(s, i) = DecodeChar(s[i]) /\ ALPHABET[DecodeChar(s[i])] = s[i]
             /\ SextetAt(s, i) \in 0..63
      <4> TAKE i \in 1..Len(s)
      <4> QED
        BY SextetsOfText
    <3> QED
      BY <2>1, <3>1, Zenon
  <2>3. S[n] = ALPHABET[Clear(v, Spare(n))]
    BY <1>2, <2>1, <2>2, Zenon DEF Cleared
  <2> HIDE DEF v
  <2>4. Spare(n) \in {1, 4, 16}
    BY SMT DEF Spare
  <2>5. Clear(v, Spare(n)) \in 0..63 /\ (Clear(v, Spare(n)) = v <=> v % Spare(n) = 0)
    <3>1. v \in 0..63
      BY <2>2
    <3>2. Clear(v, 1) \in 0..63 /\ (Clear(v, 1) = v <=> v % 1 = 0)
      BY SMT, <3>1 DEF Clear
    <3>3. Clear(v, 4) \in 0..63 /\ (Clear(v, 4) = v <=> v % 4 = 0)
      BY SMT, <3>1 DEF Clear
    <3>4. Clear(v, 16) \in 0..63 /\ (Clear(v, 16) = v <=> v % 16 = 0)
      BY SMT, <3>1 DEF Clear
    <3>5. Spare(n) = 1 \/ Spare(n) = 4 \/ Spare(n) = 16
      BY <2>4
    <3> QED
      BY <3>2, <3>3, <3>4, <3>5, Zenon
  <2>6. ALPHABET[Clear(v, Spare(n))] = ALPHABET[v] <=> Clear(v, Spare(n)) = v
    <3>1. DecodeChar(ALPHABET[Clear(v, Spare(n))]) = Clear(v, Spare(n)) /\ DecodeChar(ALPHABET[v]) = v
      BY <2>2, <2>5, AlphabetInverse
    <3> QED
      BY <3>1, Zenon
  <2>7. S[n] = s[n] <=> v % Spare(n) = 0
    BY <2>2, <2>3, <2>5, <2>6, Zenon
  <2>8. S = s <=> S[n] = s[n]
    BY <1>3, <1>5, <2>1, Zenon
  <2> QED
    BY <1>7, <2>7, <2>8 DEF v, S
<1> QED
  BY <1>6, <1>7

(* The last bits of a sextet are clear when each of them is 0.             *)
LEMMA LowBits ==
    ASSUME NEW v \in 0..63
    PROVE  /\ v % 1 = 0
           /\ v % 4 = 0 <=> Two(v, 2) = 0 /\ Two(v, 1) = 0
           /\ v % 16 = 0 <=> Two(v, 8) = 0 /\ Two(v, 4) = 0 /\ Two(v, 2) = 0 /\ Two(v, 1) = 0
BY SMT DEF Two

(* The spare bits are the low bits of the last character of the data.      *)
LEMMA SpareBitsOfText ==
    ASSUME NEW s \in Seq(Int), NEW n \in 0..Len(s), WellFormed(s, n)
    PROVE  (\A i \in SpareBits(n) : Bit(s, i) = 0) <=> n = 0 \/ DecodeChar(s[n]) % Spare(n) = 0
<1> DEFINE m == Len(s) \div 4
           v == DecodeChar(s[n])
<1>1. /\ Len(s) \in Nat /\ m \in Nat /\ n \in Nat
      /\ Len(s) = 4 * m /\ n <= Len(s) /\ Len(s) - n <= 2
  BY WellFormedShape
<1>2. n # 0 => v \in 0..63
  <2>1. n # 0 => n \in 1..Len(s) /\ n <= n
    BY SMT, <1>1
  <2>2. ASSUME NEW i \in 1..Len(s)
        PROVE  (i <= n => SextetAt(s, i) = DecodeChar(s[i])) /\ SextetAt(s, i) \in 0..63
    BY SextetsOfText
  <2> QED
    BY <2>1, <2>2, Zenon
<1> HIDE DEF m
<1>3. CASE n = 4 * m
  <2>1. SpareBits(n) = {}
    BY SMT, <1>1, <1>3 DEF SpareBits
  <2>2. n # 0 => Spare(n) = 1
    BY SMT, <1>1, <1>3 DEF Spare
  <2>3. n # 0 => v % 1 = 0
    <3> HIDE DEF v
    <3> QED
      BY <1>2, LowBits, Zenon
  <2> QED
    BY <2>1, <2>2, <2>3
<1>4. CASE n = 4 * m - 1
  <2>1. /\ \A i : i \in SpareBits(n) <=> i = 24 * m - 8 \/ i = 24 * m - 7
        /\ Spare(n) = 4 /\ n # 0
    <3>1. (6 * n) \div 8 = 3 * m - 1 /\ n # 0 /\ n % 4 = 3
      BY SMT, <1>1, <1>4
    <3>2. Spare(n) = 4
      BY <3>1 DEF Spare
    <3>3. \A i : i \in 8 * (3 * m - 1)..6 * (4 * m - 1) - 1 <=> i = 24 * m - 8 \/ i = 24 * m - 7
      BY SMT, <1>1
    <3> QED
      BY <1>4, <3>1, <3>2, <3>3 DEF SpareBits
  <2>2. /\ (24 * m - 8) \div 6 + 1 = n /\ ((24 * m - 8) % 6) + 3 = 7
        /\ (24 * m - 7) \div 6 + 1 = n /\ ((24 * m - 7) % 6) + 3 = 8
    BY SMT, <1>1, <1>4
  <2>3. Weight[7] = 2 /\ Weight[8] = 1
    BY SMT DEF Weight
  <2>4. Bit(s, 24 * m - 8) = Two(v, 2) /\ Bit(s, 24 * m - 7) = Two(v, 1)
    BY <2>2, <2>3, Zenon DEF Bit, Two
  <2> HIDE DEF v
  <2>5. v % 4 = 0 <=> Two(v, 2) = 0 /\ Two(v, 1) = 0
    BY <1>2, <2>1, LowBits, Zenon
  <2> QED
    BY <2>1, <2>4, <2>5, Zenon DEF v
<1>5. CASE n = 4 * m - 2
  <2>1. /\ \A i : i \in SpareBits(n) <=> i = 24 * m - 16 \/ i = 24 * m - 15
                                         \/ i = 24 * m - 14 \/ i = 24 * m - 13
        /\ Spare(n) = 16 /\ n # 0
    <3>1. (6 * n) \div 8 = 3 * m - 2 /\ n # 0 /\ n % 4 = 2
      BY SMT, <1>1, <1>5
    <3>2. Spare(n) = 16
      BY <3>1 DEF Spare
    <3>3. \A i : i \in 8 * (3 * m - 2)..6 * (4 * m - 2) - 1
                 <=> i = 24 * m - 16 \/ i = 24 * m - 15 \/ i = 24 * m - 14 \/ i = 24 * m - 13
      BY SMT, <1>1
    <3> QED
      BY <1>5, <3>1, <3>2, <3>3 DEF SpareBits
  <2>2. /\ (24 * m - 16) \div 6 + 1 = n /\ ((24 * m - 16) % 6) + 3 = 5
        /\ (24 * m - 15) \div 6 + 1 = n /\ ((24 * m - 15) % 6) + 3 = 6
        /\ (24 * m - 14) \div 6 + 1 = n /\ ((24 * m - 14) % 6) + 3 = 7
        /\ (24 * m - 13) \div 6 + 1 = n /\ ((24 * m - 13) % 6) + 3 = 8
    BY SMT, <1>1, <1>5
  <2>3. Weight[5] = 8 /\ Weight[6] = 4 /\ Weight[7] = 2 /\ Weight[8] = 1
    BY SMT DEF Weight
  <2>4. /\ Bit(s, 24 * m - 16) = Two(v, 8) /\ Bit(s, 24 * m - 15) = Two(v, 4)
        /\ Bit(s, 24 * m - 14) = Two(v, 2) /\ Bit(s, 24 * m - 13) = Two(v, 1)
    BY <2>2, <2>3, Zenon DEF Bit, Two
  <2> HIDE DEF v
  <2>5. v % 16 = 0 <=> Two(v, 8) = 0 /\ Two(v, 4) = 0 /\ Two(v, 2) = 0 /\ Two(v, 1) = 0
    BY <1>2, <2>1, LowBits, Zenon
  <2> QED
    BY <2>1, <2>4, <2>5, Zenon DEF v
<1> QED
  BY SMT, <1>1, <1>3, <1>4, <1>5

(* decode takes a text in full or not at all, whatever the text.           *)
THEOREM DecodingIsStrict ==
    ASSUME NEW s \in Seq(Int)
    PROVE  DecodesStrictly(s)
<1>1. Decodes(s) <=> \E n \in 0..Len(s) : WellFormed(s, n)
  BY WellFormedDecodes, DecodesWellFormed
<1>2. ASSUME NEW n \in 0..Len(s), WellFormed(s, n)
      PROVE  /\ Decode(s) = [k \in 1..(6 * n) \div 8 |-> Byte(s, k - 1)]
             /\ Encode(Decode(s)) = s <=> \A i \in SpareBits(n) : Bit(s, i) = 0
  <2>1. Decode(s) = [k \in 1..(6 * n) \div 8 |-> Byte(s, k - 1)]
    BY <1>2, DecodeIsBytes
  <2>2. Encode(Decode(s)) = s <=> n = 0 \/ DecodeChar(s[n]) % Spare(n) = 0
    BY <1>2, EncodeIsText
  <2>3. (\A i \in SpareBits(n) : Bit(s, i) = 0) <=> n = 0 \/ DecodeChar(s[n]) % Spare(n) = 0
    BY <1>2, SpareBitsOfText
  <2> QED
    BY <2>1, <2>2, <2>3
<1> QED
  BY <1>1, <1>2 DEF DecodesStrictly

-----------------------------------------------------------------------------
(* Texts: pieces of them, and how far a class of characters goes.          *)

(* A set of natural numbers that is not empty has a smallest one.          *)
LEMMA Smallest ==
    ASSUME NEW S, S \subseteq Nat, S # {}
    PROVE  \E x \in S : \A y \in S : x <= y
<1>1. PICK x \in S : \A y \in S : ~ (<<y, x>> \in OpToRel(<, Nat))
  BY WFMin, NatLessThanWellFounded, Zenon
<1>2. OpToRel(<, Nat) = {ss \in Nat \X Nat : ss[1] < ss[2]}
  BY Zenon DEF OpToRel
<1>3. \A y \in S : y < x => <<y, x>> \in {ss \in Nat \X Nat : ss[1] < ss[2]}
  BY SMT
<1>4. \A y \in S : ~(y < x)
  BY <1>1, <1>2, <1>3, Zenon
<1>5. \A y \in S : x <= y
  BY <1>4, SMT
<1> QED
  BY <1>5

(* And a set of some of the first of them has a largest one.               *)
LEMMA Largest ==
    ASSUME NEW n \in Nat, NEW S, S \subseteq 0..n, S # {}
    PROVE  \E x \in S : \A y \in S : y <= x
<1> DEFINE R == {n - x : x \in S}
<1>1. R \subseteq Nat /\ R # {}
  <2>1. \A x \in S : n - x \in Nat
    BY SMT
  <2>2. PICK x \in S : TRUE
    OBVIOUS
  <2>3. n - x \in R
    OBVIOUS
  <2> QED
    BY <2>1, <2>3
<1>2. PICK r \in R : \A y \in R : r <= y
  BY <1>1, Smallest
<1>3. PICK x \in S : r = n - x
  BY <1>2
<1>4. ASSUME NEW y \in S PROVE y <= x
  <2>1. n - y \in R
    OBVIOUS
  <2>2. r <= n - y
    BY <1>2, <2>1
  <2> QED
    BY SMT, <1>3, <2>2
<1> QED
  BY <1>4

(* A text: a sequence of code points.                                      *)
Text == Seq(CodePoints)

(* A code point is a natural number, and the end of the text is none.      *)
LEMMA CodePointFacts ==
    /\ \A c \in CodePoints : c \in Nat
    /\ EndOfText \notin CodePoints /\ EndOfText \in Int /\ EndOfText < 0
BY SMT DEF CodePoints, EndOfText

(* The characters of a text, and what is seen beyond it.                   *)
LEMMA TextFacts ==
    ASSUME NEW t \in Text
    PROVE  /\ Len(t) \in Nat /\ DOMAIN t = 1..Len(t)
           /\ \A i \in 1..Len(t) : t[i] \in CodePoints /\ t[i] \in Nat /\ Peek(t, i) = t[i]
           /\ \A i \in Int : i > Len(t) => Peek(t, i) = EndOfText
           /\ EndOfText \notin CodePoints
<1>1. Len(t) \in Nat /\ DOMAIN t = 1..Len(t)
  BY SMT DEF Text
<1>2. \A i \in 1..Len(t) : t[i] \in CodePoints
  BY SMT DEF Text
<1>3. \A i \in 1..Len(t) : i <= Len(t)
  BY SMT
<1>4. \A i \in Int : i > Len(t) => ~(i <= Len(t))
  BY SMT, <1>1
<1> QED
  BY <1>1, <1>2, <1>3, <1>4, CodePointFacts DEF Peek

(* A piece of a text, and a piece of a piece.                              *)
LEMMA PieceOf ==
    ASSUME NEW t \in Text, NEW a \in Int, NEW b \in Int, 1 <= a, a <= b + 1, b <= Len(t)
    PROVE  /\ SubSeq(t, a, b) \in Text
           /\ Len(SubSeq(t, a, b)) = b - a + 1
           /\ \A i \in 1..b - a + 1 : SubSeq(t, a, b)[i] = t[a + i - 1]
<1>1. SubSeq(t, a, b) = [i \in 1..b - a + 1 |-> t[a + i - 1]]
  BY SMT DEF Text
<1>2. Len(SubSeq(t, a, b)) = b - a + 1
  BY <1>1, SMT DEF Text
<1> DEFINE P(i) == t[a + i - 1]
<1>3. \A i \in 1..b - a + 1 : P(i) \in CodePoints
  BY SMT DEF Text
<1>4. b - a + 1 \in Nat
  BY SMT
<1>5. [i \in 1..b - a + 1 |-> P(i)] \in Text
  <2> HIDE DEF P
  <2> QED
    BY <1>3, <1>4, SMT DEF Text
<1> QED
  BY <1>1, <1>2, <1>5, Zenon

(* A piece of a piece is a piece.                                          *)
LEMMA PieceOfPiece ==
    ASSUME NEW t \in Text, NEW p \in Int, NEW q \in Int, 1 <= p, p <= q + 1, q <= Len(t),
           NEW a \in Int, NEW b \in Int, 1 <= a, a <= b + 1, b <= q - p + 1
    PROVE  SubSeq(SubSeq(t, p, q), a, b) = SubSeq(t, p - 1 + a, p - 1 + b)
<1> DEFINE u == SubSeq(t, p, q)
<1>1. /\ u \in Text /\ Len(u) = q - p + 1
      /\ \A i \in 1..q - p + 1 : u[i] = t[p + i - 1]
  BY PieceOf
<1> HIDE DEF u
<1>2. SubSeq(u, a, b) = [i \in 1..b - a + 1 |-> u[a + i - 1]]
  BY SMT, <1>1 DEF Text
<1>3. SubSeq(t, p - 1 + a, p - 1 + b) = [i \in 1..b - a + 1 |-> t[(p - 1 + a) + i - 1]]
  <2>1. (p - 1 + b) - (p - 1 + a) + 1 = b - a + 1
    BY SMT
  <2>2. SubSeq(t, p - 1 + a, p - 1 + b)
        = [i \in 1..(p - 1 + b) - (p - 1 + a) + 1 |-> t[(p - 1 + a) + i - 1]]
    BY SMT DEF Text
  <2> QED
    BY <2>1, <2>2, Zenon
<1>4. \A i \in 1..b - a + 1 : u[a + i - 1] = t[(p - 1 + a) + i - 1]
  <2> SUFFICES ASSUME NEW i \in 1..b - a + 1 PROVE u[a + i - 1] = t[(p - 1 + a) + i - 1]
    OBVIOUS
  <2>1. a + i - 1 \in 1..q - p + 1 /\ p + (a + i - 1) - 1 = (p - 1 + a) + i - 1
    BY SMT
  <2> QED
    BY <1>1, <2>1
<1> QED
  BY <1>2, <1>3, <1>4, Zenon DEF u

(* SkipAll stops at the first character that is not of S.                  *)
LEMMA SkipAllStops ==
    ASSUME NEW t \in Text, NEW p \in 1..Len(t) + 1, NEW S, EndOfText \notin S
    PROVE  /\ SkipAll(t, p, S) \in p..Len(t) + 1
           /\ Peek(t, SkipAll(t, p, S)) \notin S
           /\ \A r \in p..SkipAll(t, p, S) - 1 : t[r] \in S
           /\ \A q \in p..Len(t) + 1 :
                 Peek(t, q) \notin S /\ (\A r \in p..q - 1 : t[r] \in S) => SkipAll(t, p, S) = q
<1> DEFINE Stop(q) == Peek(t, q) \notin S /\ \A r \in p..q - 1 : t[r] \in S
           Out     == {q \in p..Len(t) + 1 : Peek(t, q) \notin S}
<1>1. Len(t) \in Nat /\ p \in Nat /\ p >= 1
  BY SMT, TextFacts
<1>2. Len(t) + 1 \in p..Len(t) + 1 /\ Len(t) + 1 \in Int /\ Len(t) + 1 > Len(t)
  BY SMT, <1>1
<1>3. Len(t) + 1 \in Out
  BY <1>2, TextFacts
<1>4. Out \subseteq Nat
  BY SMT, <1>1
<1>5. PICK x \in Out : \A y \in Out : x <= y
  BY <1>3, <1>4, Smallest
<1>6. Stop(x)
  <2> SUFFICES ASSUME NEW r \in p..x - 1 PROVE t[r] \in S
    BY <1>5
  <2>1. r \in p..Len(t) + 1 /\ ~(x <= r) /\ r \in 1..Len(t)
    BY SMT, <1>1, <1>5
  <2>2. Peek(t, r) \in S
    BY <1>5, <2>1
  <2> QED
    BY <2>1, <2>2, TextFacts
<1>7. \E q \in p..Len(t) + 1 : Stop(q)
  BY <1>5, <1>6
<1>8. SkipAll(t, p, S) = CHOOSE q \in p..Len(t) + 1 : Stop(q)
  BY Zenon DEF SkipAll
<1>9. SkipAll(t, p, S) \in p..Len(t) + 1 /\ Stop(SkipAll(t, p, S))
  BY <1>7, <1>8, Zenon
<1>10. ASSUME NEW a \in p..Len(t) + 1, NEW b \in p..Len(t) + 1, Stop(a), Stop(b), a < b
       PROVE  FALSE
  <2>1. a \in p..b - 1 /\ a \in 1..Len(t)
    BY SMT, <1>1, <1>10
  <2>2. t[a] \in S /\ Peek(t, a) = t[a]
    BY <1>10, <2>1, TextFacts
  <2> QED
    BY <1>10, <2>2
<1>11. ASSUME NEW q \in p..Len(t) + 1, Stop(q) PROVE SkipAll(t, p, S) = q
  <2>1. ~(SkipAll(t, p, S) < q) /\ ~(q < SkipAll(t, p, S))
    BY <1>9, <1>10, <1>11
  <2> QED
    BY SMT, <1>9, <2>1
<1> QED
  BY <1>9, <1>11

-----------------------------------------------------------------------------
(* Numbers.  The rules of the grammar, of a piece a..b of the text.        *)

DigitsAt(t, a, b) == \A i \in a..b : t[i] \in Digits
IntAt(t, a, b)    == a <= b /\ DigitsAt(t, a, b) /\ (b > a => t[a] # 48)
FracAt(t, a, b)   == b = a - 1 \/ (b > a /\ t[a] = Dot /\ DigitsAt(t, a + 1, b))
ExpAt(t, a, b)    ==
    \/ b = a - 1
    \/ /\ b > a /\ t[a] \in ExpMarks
       /\ \/ DigitsAt(t, a + 1, b)
          \/ b > a + 1 /\ t[a + 1] \in {Plus, Minus} /\ DigitsAt(t, a + 2, b)
NumberAt(t, p, q) ==
    \E a \in {p, p + 1} : \E i, j \in p - 1..q :
        /\ a = p + 1 => t[p] = Minus
        /\ i <= j /\ IntAt(t, a, i) /\ FracAt(t, i + 1, j) /\ ExpAt(t, j + 1, q)

(* The rules of the grammar on a piece, as the rules at its places:        *)
(* digits,                                                                 *)
LEMMA DigitsOfPiece ==
    ASSUME NEW t \in Text, NEW a \in Int, NEW b \in Int, 1 <= a, a <= b + 1, b <= Len(t)
    PROVE  All(SubSeq(t, a, b), Digits) <=> DigitsAt(t, a, b)
<1> DEFINE u == SubSeq(t, a, b)
<1>1. /\ u \in Text /\ Len(u) = b - a + 1
      /\ \A i \in 1..b - a + 1 : u[i] = t[a + i - 1]
  BY PieceOf
<1>2. DOMAIN u = 1..b - a + 1
  BY <1>1, TextFacts
<1> HIDE DEF u
<1>3. \A i \in 1..b - a + 1 : a + i - 1 \in a..b
  BY SMT
<1>4. \A i \in a..b : i - a + 1 \in 1..b - a + 1 /\ a + (i - a + 1) - 1 = i
  BY SMT
<1>5. ASSUME DigitsAt(t, a, b) PROVE All(u, Digits)
  BY <1>1, <1>2, <1>3, <1>5 DEF All, DigitsAt
<1>6. ASSUME All(u, Digits) PROVE DigitsAt(t, a, b)
  <2> SUFFICES ASSUME NEW i \in a..b PROVE t[i] \in Digits
    BY DEF DigitsAt
  <2>1. u[i - a + 1] \in Digits
    BY <1>2, <1>4, <1>6 DEF All
  <2> QED
    BY <1>1, <1>4, <2>1
<1> QED
  BY <1>5, <1>6 DEF u

(* the integer part,                                                       *)
LEMMA IntOfPiece ==
    ASSUME NEW t \in Text, NEW a \in Int, NEW b \in Int, 1 <= a, a <= b + 1, b <= Len(t)
    PROVE  IsInt(SubSeq(t, a, b)) <=> IntAt(t, a, b)
<1> DEFINE u == SubSeq(t, a, b)
<1>1. /\ u \in Text /\ Len(u) = b - a + 1
      /\ \A i \in 1..b - a + 1 : u[i] = t[a + i - 1]
  BY PieceOf
<1>2. All(u, Digits) <=> DigitsAt(t, a, b)
  BY DigitsOfPiece
<1> HIDE DEF u
<1>3. u # <<>> <=> a <= b
  BY SMT, <1>1 DEF Text
<1>4. a <= b => u[1] = t[a]
  <2>1. a <= b => 1 \in 1..b - a + 1 /\ a + 1 - 1 = a
    BY SMT
  <2> QED
    BY <1>1, <2>1
<1>5. Len(u) > 1 <=> b > a
  BY SMT, <1>1
<1> QED
  BY <1>2, <1>3, <1>4, <1>5 DEF IsInt, IntAt, u

(* the fraction,                                                           *)
LEMMA FracOfPiece ==
    ASSUME NEW t \in Text, NEW a \in Int, NEW b \in Int, 1 <= a, a <= b + 1, b <= Len(t)
    PROVE  IsFrac(SubSeq(t, a, b)) <=> FracAt(t, a, b)
<1> DEFINE u == SubSeq(t, a, b)
<1>1. /\ u \in Text /\ Len(u) = b - a + 1
      /\ \A i \in 1..b - a + 1 : u[i] = t[a + i - 1]
  BY PieceOf
<1>2. b > a => Tail(u) = SubSeq(t, a + 1, b)
  <2> HAVE b > a
  <2>1. Tail(u) = SubSeq(u, 2, Len(u))
    <3>1. u # <<>>
      BY SMT, <1>1
    <3> HIDE DEF u
    <3> QED
      BY <1>1, <3>1, TailIsSubSeq DEF Text
  <2>2. SubSeq(u, 2, b - a + 1) = SubSeq(t, a - 1 + 2, a - 1 + (b - a + 1))
    <3>1. 2 \in Int /\ b - a + 1 \in Int /\ 1 <= 2 /\ 2 <= (b - a + 1) + 1 /\ b - a + 1 <= b - a + 1
      BY SMT
    <3> QED
      BY <3>1, PieceOfPiece
  <2>3. a - 1 + 2 = a + 1 /\ a - 1 + (b - a + 1) = b
    BY SMT
  <2> QED
    BY <1>1, <2>1, <2>2, <2>3
<1>3. b > a => (All(SubSeq(t, a + 1, b), Digits) <=> DigitsAt(t, a + 1, b))
  BY SMT, DigitsOfPiece
<1> HIDE DEF u
<1>4. u = <<>> <=> b = a - 1
  BY SMT, <1>1 DEF Text
<1>5. a <= b => u[1] = t[a]
  <2>1. a <= b => 1 \in 1..b - a + 1 /\ a + 1 - 1 = a
    BY SMT
  <2> QED
    BY <1>1, <2>1
<1>6. (Len(u) > 1 <=> b > a) /\ (b > a => a <= b)
  BY SMT, <1>1
<1> QED
  BY <1>2, <1>3, <1>4, <1>5, <1>6 DEF IsFrac, FracAt, u

(* and the exponent.                                                       *)
LEMMA ExpOfPiece ==
    ASSUME NEW t \in Text, NEW a \in Int, NEW b \in Int, 1 <= a, a <= b + 1, b <= Len(t)
    PROVE  IsExp(SubSeq(t, a, b)) <=> ExpAt(t, a, b)
<1> DEFINE u == SubSeq(t, a, b)
<1>1. /\ u \in Text /\ Len(u) = b - a + 1
      /\ \A i \in 1..b - a + 1 : u[i] = t[a + i - 1]
  BY PieceOf
<1>2. \A i \in {2, 3} : i <= Len(u) =>
         (All(From(u, i), Digits) <=> DigitsAt(t, a + i - 1, b))
  <2> SUFFICES ASSUME NEW i \in {2, 3}, i <= Len(u)
               PROVE  All(From(u, i), Digits) <=> DigitsAt(t, a + i - 1, b)
    OBVIOUS
  <2>1. /\ i \in Int /\ b - a + 1 \in Int /\ 1 <= i /\ i <= (b - a + 1) + 1
        /\ b - a + 1 <= b - a + 1 /\ i <= b - a + 1
        /\ a - 1 + i = a + i - 1 /\ a - 1 + (b - a + 1) = b
        /\ a + i - 1 \in Int /\ 1 <= a + i - 1 /\ a + i - 1 <= b + 1
    BY SMT, <1>1
  <2>2. SubSeq(u, i, b - a + 1) = SubSeq(t, a + i - 1, b)
    <3>1. SubSeq(u, i, b - a + 1) = SubSeq(t, a - 1 + i, a - 1 + (b - a + 1))
      BY <2>1, PieceOfPiece
    <3> QED
      BY <2>1, <3>1
  <2>3. All(SubSeq(t, a + i - 1, b), Digits) <=> DigitsAt(t, a + i - 1, b)
    BY <2>1, DigitsOfPiece
  <2> QED
    BY <1>1, <2>2, <2>3 DEF From
<1> HIDE DEF u
<1>3. u = <<>> <=> b = a - 1
  BY SMT, <1>1 DEF Text
<1>4. /\ a <= b => u[1] = t[a]
      /\ b > a => u[2] = t[a + 1]
  <2>1. /\ a <= b => 1 \in 1..b - a + 1 /\ a + 1 - 1 = a
        /\ b > a => 2 \in 1..b - a + 1 /\ a + 2 - 1 = a + 1
    BY SMT
  <2> QED
    BY <1>1, <2>1
<1>5. /\ 2 <= Len(u) <=> b > a
      /\ 3 <= Len(u) <=> b > a + 1
      /\ b > a => a <= b
      /\ b > a + 1 => b > a
      /\ a + 2 - 1 = a + 1 /\ a + 3 - 1 = a + 2
  BY SMT, <1>1
<1>6. (\E i \in {2, 3} : i <= Len(u) /\ All(From(u, i), Digits) /\ (i = 3 => u[2] \in {Plus, Minus}))
      <=> \/ b > a /\ DigitsAt(t, a + 1, b)
          \/ b > a + 1 /\ DigitsAt(t, a + 2, b) /\ t[a + 1] \in {Plus, Minus}
  <2>1. 2 \in {2, 3} /\ 3 \in {2, 3} /\ 2 # 3 /\ \A i \in {2, 3} : i = 2 \/ i = 3
    BY SMT
  <2>2. /\ b > a => (All(From(u, 2), Digits) <=> DigitsAt(t, a + 1, b))
        /\ b > a + 1 => (All(From(u, 3), Digits) <=> DigitsAt(t, a + 2, b))
    BY <1>2, <1>5, <2>1
  <2> QED
    BY <1>4, <1>5, <2>1, <2>2, Zenon
<1>7. IsExp(u) <=> ExpAt(t, a, b)
  BY <1>3, <1>4, <1>5, <1>6, Zenon DEF IsExp, ExpAt
<1> QED
  BY <1>7 DEF u

(* A piece of the text is a number by the grammar of the piece, or by that *)
(* of its places in the text.                                              *)
LEMMA NumberOfPiece ==
    ASSUME NEW t \in Text, NEW p \in 1..Len(t), NEW q \in p..Len(t)
    PROVE  IsNumber(SubSeq(t, p, q)) <=> NumberAt(t, p, q)
<1> DEFINE u == SubSeq(t, p, q)
<1>0. Len(t) \in Nat
  BY TextFacts
<1>1. p \in Int /\ q \in Int /\ 1 <= p /\ p <= q /\ p <= q + 1 /\ q <= Len(t)
  BY SMT, <1>0
<1>2. /\ u \in Text /\ Len(u) = q - p + 1
      /\ \A i \in 1..q - p + 1 : u[i] = t[p + i - 1]
  BY <1>1, PieceOf
<1>3. u[1] = t[p]
  <2>1. 1 \in 1..q - p + 1 /\ p + 1 - 1 = p
    BY SMT, <1>1
  <2> QED
    BY <1>2, <2>1
<1>4. ASSUME NEW m \in {0, 1}, NEW i \in m..q - p + 1, NEW j \in m..q - p + 1, i <= j
      PROVE  /\ IsInt(SubSeq(u, m + 1, i)) <=> IntAt(t, p + m, p - 1 + i)
             /\ IsFrac(SubSeq(u, i + 1, j)) <=> FracAt(t, (p - 1 + i) + 1, p - 1 + j)
             /\ IsExp(From(u, j + 1)) <=> ExpAt(t, (p - 1 + j) + 1, q)
  <2>1. /\ m + 1 \in Int /\ i \in Int /\ 1 <= m + 1 /\ m + 1 <= i + 1 /\ i <= q - p + 1
        /\ i + 1 \in Int /\ j \in Int /\ 1 <= i + 1 /\ i + 1 <= j + 1 /\ j <= q - p + 1
        /\ j + 1 \in Int /\ q - p + 1 \in Int /\ 1 <= j + 1 /\ j + 1 <= (q - p + 1) + 1
        /\ q - p + 1 <= q - p + 1
    BY SMT, <1>1, <1>4
  <2>2. /\ p - 1 + (m + 1) = p + m
        /\ p - 1 + (i + 1) = (p - 1 + i) + 1
        /\ p - 1 + (j + 1) = (p - 1 + j) + 1
        /\ p - 1 + (q - p + 1) = q
    BY SMT, <1>1, <1>4
  <2>3. /\ SubSeq(u, m + 1, i) = SubSeq(t, p - 1 + (m + 1), p - 1 + i)
        /\ SubSeq(u, i + 1, j) = SubSeq(t, p - 1 + (i + 1), p - 1 + j)
        /\ SubSeq(u, j + 1, q - p + 1) = SubSeq(t, p - 1 + (j + 1), p - 1 + (q - p + 1))
    BY <1>1, <2>1, PieceOfPiece
  <2>4. /\ p + m \in Int /\ p - 1 + i \in Int /\ 1 <= p + m /\ p + m <= (p - 1 + i) + 1
        /\ p - 1 + i <= Len(t)
        /\ (p - 1 + i) + 1 \in Int /\ p - 1 + j \in Int /\ 1 <= (p - 1 + i) + 1
        /\ (p - 1 + i) + 1 <= (p - 1 + j) + 1 /\ p - 1 + j <= Len(t)
        /\ (p - 1 + j) + 1 \in Int /\ 1 <= (p - 1 + j) + 1 /\ (p - 1 + j) + 1 <= q + 1
    BY SMT, <1>1, <1>4
  <2>5. /\ IsInt(SubSeq(t, p + m, p - 1 + i)) <=> IntAt(t, p + m, p - 1 + i)
        /\ IsFrac(SubSeq(t, (p - 1 + i) + 1, p - 1 + j)) <=> FracAt(t, (p - 1 + i) + 1, p - 1 + j)
        /\ IsExp(SubSeq(t, (p - 1 + j) + 1, q)) <=> ExpAt(t, (p - 1 + j) + 1, q)
    BY <1>1, <2>4, IntOfPiece, FracOfPiece, ExpOfPiece
  <2> HIDE DEF u
  <2> QED
    BY <1>2, <2>2, <2>3, <2>5, Zenon DEF From
<1> HIDE DEF u
<1>5. ASSUME IsNumber(u) PROVE NumberAt(t, p, q)
  <2>0. PICK m \in {0, 1} : \E i \in m..Len(u) :
            /\ m = 1 => u[1] = Minus
            /\ IsInt(SubSeq(u, m + 1, i))
            /\ \E j \in i..Len(u) : IsFrac(SubSeq(u, i + 1, j)) /\ IsExp(From(u, j + 1))
    BY <1>5, Zenon DEF IsNumber
  <2>1. PICK i \in m..Len(u) :
            /\ m = 1 => u[1] = Minus
            /\ IsInt(SubSeq(u, m + 1, i))
            /\ \E j \in i..Len(u) : IsFrac(SubSeq(u, i + 1, j)) /\ IsExp(From(u, j + 1))
    BY <2>0
  <2>2. PICK j \in m..Len(u) :
            /\ i <= j
            /\ IsFrac(SubSeq(u, i + 1, j)) /\ IsExp(From(u, j + 1))
    <3>1. PICK j \in i..Len(u) : IsFrac(SubSeq(u, i + 1, j)) /\ IsExp(From(u, j + 1))
      BY <2>1
    <3>2. j \in m..Len(u) /\ i <= j
      BY SMT, <1>1, <1>2, <2>1, <3>1
    <3> QED
      BY <3>1, <3>2
  <2>3. i \in m..q - p + 1 /\ j \in m..q - p + 1
    BY <1>2, <2>1, <2>2
  <2>4. /\ IntAt(t, p + m, p - 1 + i) /\ FracAt(t, (p - 1 + i) + 1, p - 1 + j)
        /\ ExpAt(t, (p - 1 + j) + 1, q)
    BY <1>4, <2>1, <2>2, <2>3
  <2>5. /\ p + m \in {p, p + 1} /\ (p + m = p + 1 => m = 1)
        /\ p - 1 + i \in p - 1..q /\ p - 1 + j \in p - 1..q /\ p - 1 + i <= p - 1 + j
    BY SMT, <1>1, <2>1, <2>2, <2>3
  <2> QED
    BY <1>3, <2>1, <2>2, <2>4, <2>5, Zenon DEF NumberAt
<1>6. ASSUME NumberAt(t, p, q) PROVE IsNumber(u)
  <2>1. PICK a \in {p, p + 1}, i \in p - 1..q, j \in p - 1..q :
            /\ a = p + 1 => t[p] = Minus
            /\ i <= j /\ IntAt(t, a, i) /\ FracAt(t, i + 1, j) /\ ExpAt(t, j + 1, q)
    BY <1>6, Zenon DEF NumberAt
  <2>2. a <= i
    BY <2>1 DEF IntAt
  <2>3. PICK m \in {0, 1} : a = p + m
    BY SMT, <1>1, <2>1
  <2>4. PICK x \in m..q - p + 1, y \in m..q - p + 1 : i = p - 1 + x /\ j = p - 1 + y /\ x <= y
    <3>1. /\ i - (p - 1) \in m..q - p + 1 /\ j - (p - 1) \in m..q - p + 1
          /\ i = p - 1 + (i - (p - 1)) /\ j = p - 1 + (j - (p - 1)) /\ i - (p - 1) <= j - (p - 1)
      BY SMT, <1>1, <2>1, <2>2, <2>3
    <3> QED
      BY <3>1, Zenon
  <2>5. IsInt(SubSeq(u, m + 1, x)) /\ IsFrac(SubSeq(u, x + 1, y)) /\ IsExp(From(u, y + 1))
    BY <1>4, <2>1, <2>3, <2>4
  <2>6. m = 1 => a = p + 1
    BY <2>3
  <2>7. y \in x..Len(u)
    BY SMT, <1>1, <1>2, <2>4
  <2> QED
    BY <1>2, <1>3, <2>1, <2>4, <2>5, <2>6, <2>7, Zenon DEF IsNumber
<1> QED
  BY <1>5, <1>6 DEF u

(* The parser of numbers, part by part.                                    *)
LEMMA ClassFacts ==
    /\ EndOfText \notin Digits /\ EndOfText \notin ExpMarks /\ EndOfText # Dot /\ EndOfText # Minus
    /\ Dot \notin Digits /\ Minus \notin Digits /\ Plus \notin Digits /\ Dot \notin ExpMarks
    /\ \A c \in ExpMarks : c \notin Digits
    /\ 48 \in Digits
BY SMT DEF EndOfText, Digits, ExpMarks, Dot, Minus, Plus

(* What has been found is not a failure, and has the parts it was made of. *)
LEMMA FoundFacts ==
    /\ ~Fail.ok
    /\ \A p, v : Found(p, v).ok /\ Found(p, v).pos = p /\ Found(p, v).val = v
BY SMT DEF Fail, Found

(* The parts of the scanner, each against its rule: what it takes fits the *)
(* rule, and what fits the rule and cannot go on is taken. One digit or    *)
(* more,                                                                   *)
LEMMA SomeDigitsIs ==
    ASSUME NEW t \in Text, NEW p \in 1..Len(t) + 1
    PROVE  /\ SomeDigits(t, p).ok => \E e \in p + 1..Len(t) + 1 :
                 SomeDigits(t, p) = Found(e, <<>>) /\ DigitsAt(t, p, e - 1)
           /\ \A b \in p..Len(t) : DigitsAt(t, p, b) /\ Peek(t, b + 1) \notin Digits
                                   => SomeDigits(t, p) = Found(b + 1, <<>>)
<1>0. Len(t) \in Nat /\ p \in Nat /\ p >= 1
  BY SMT, TextFacts
<1> DEFINE e == SkipAll(t, p, Digits)
<1>1. /\ e \in p..Len(t) + 1 /\ Peek(t, e) \notin Digits
      /\ \A r \in p..e - 1 : t[r] \in Digits
      /\ \A q \in p..Len(t) + 1 :
            Peek(t, q) \notin Digits /\ (\A r \in p..q - 1 : t[r] \in Digits) => e = q
  BY ClassFacts, SkipAllStops
<1> HIDE DEF e
<1>2. ASSUME SomeDigits(t, p).ok
      PROVE  \E x \in p + 1..Len(t) + 1 :
                SomeDigits(t, p) = Found(x, <<>>) /\ DigitsAt(t, p, x - 1)
  <2>1. Peek(t, p) \in Digits /\ SomeDigits(t, p) = Found(e, <<>>)
    BY <1>2, FoundFacts, Zenon DEF SomeDigits, e
  <2>2. e # p
    BY <1>1, <2>1
  <2>3. e \in p + 1..Len(t) + 1
    BY SMT, <1>0, <1>1, <2>2
  <2> QED
    BY <1>1, <2>1, <2>3 DEF DigitsAt
<1>3. ASSUME NEW b \in p..Len(t), DigitsAt(t, p, b), Peek(t, b + 1) \notin Digits
      PROVE  SomeDigits(t, p) = Found(b + 1, <<>>)
  <2>1. p \in p..b /\ b + 1 \in p..Len(t) + 1 /\ (b + 1) - 1 = b /\ p \in 1..Len(t)
    BY SMT, <1>0
  <2>2. t[p] \in Digits /\ Peek(t, p) = t[p]
    BY <1>3, <2>1, TextFacts DEF DigitsAt
  <2>3. e = b + 1
    BY <1>1, <1>3, <2>1 DEF DigitsAt
  <2> QED
    BY <2>2, <2>3 DEF SomeDigits, e
<1> QED
  BY <1>2, <1>3

(* the integer part,                                                       *)
LEMMA IntPartIs ==
    ASSUME NEW t \in Text, NEW p \in 1..Len(t) + 1
    PROVE  /\ IntPart(t, p).ok => \E e \in p + 1..Len(t) + 1 :
                 IntPart(t, p) = Found(e, <<>>) /\ IntAt(t, p, e - 1)
           /\ \A b \in p..Len(t) : IntAt(t, p, b) /\ Peek(t, b + 1) \notin Digits
                                   => IntPart(t, p) = Found(b + 1, <<>>)
<1>0. Len(t) \in Nat /\ p \in Nat /\ p >= 1
  BY SMT, TextFacts
<1>1. ASSUME IntPart(t, p).ok
      PROVE  \E e \in p + 1..Len(t) + 1 : IntPart(t, p) = Found(e, <<>>) /\ IntAt(t, p, e - 1)
  <2>1. CASE Peek(t, p) = 48
    <3>1. p <= Len(t)
      <4> SUFFICES ASSUME ~(p <= Len(t)) PROVE FALSE
        OBVIOUS
      <4>1. Peek(t, p) = EndOfText
        BY DEF Peek
      <4> QED
        BY <2>1, <4>1, ClassFacts
    <3>2. /\ p + 1 \in p + 1..Len(t) + 1 /\ p <= (p + 1) - 1 /\ ~((p + 1) - 1 > p)
          /\ \A i \in p..(p + 1) - 1 : i = p
      BY SMT, <1>0, <3>1
    <3>3. t[p] \in Digits
      BY <2>1, <3>1, ClassFacts DEF Peek
    <3>4. IntAt(t, p, (p + 1) - 1)
      BY <3>2, <3>3 DEF IntAt, DigitsAt
    <3> QED
      BY <2>1, <3>2, <3>4 DEF IntPart
  <2>2. CASE Peek(t, p) # 48
    <3>1. IntPart(t, p) = SomeDigits(t, p)
      BY <2>2 DEF IntPart
    <3>2. PICK e \in p + 1..Len(t) + 1 : SomeDigits(t, p) = Found(e, <<>>) /\ DigitsAt(t, p, e - 1)
      BY <1>1, <3>1, SomeDigitsIs
    <3>3. p <= e - 1 /\ p \in 1..Len(t)
      BY SMT, <1>0, <3>2
    <3>4. t[p] # 48
      BY <2>2, <3>3, TextFacts
    <3> QED
      BY <3>1, <3>2, <3>3, <3>4 DEF IntAt
  <2> QED
    BY <2>1, <2>2
<1>2. ASSUME NEW b \in p..Len(t), IntAt(t, p, b), Peek(t, b + 1) \notin Digits
      PROVE  IntPart(t, p) = Found(b + 1, <<>>)
  <2>1. p \in 1..Len(t) /\ (~(b > p) => b = p)
    BY SMT, <1>0
  <2>2. Peek(t, p) = t[p]
    BY <2>1, TextFacts
  <2>3. CASE t[p] = 48
    BY <1>2, <2>1, <2>2, <2>3 DEF IntAt, IntPart
  <2>4. CASE t[p] # 48
    BY <1>2, <2>2, <2>4, SomeDigitsIs DEF IntAt, IntPart
  <2> QED
    BY <2>3, <2>4
<1> QED
  BY <1>1, <1>2

(* the fraction,                                                           *)
LEMMA FracPartIs ==
    ASSUME NEW t \in Text, NEW p \in 1..Len(t) + 1
    PROVE  /\ FracPart(t, p).ok => \E e \in p..Len(t) + 1 :
                 FracPart(t, p) = Found(e, <<>>) /\ FracAt(t, p, e - 1)
           /\ \A b \in p - 1..Len(t) :
                 /\ FracAt(t, p, b)
                 /\ Peek(t, b + 1) \notin Digits /\ Peek(t, b + 1) # Dot
                 => FracPart(t, p) = Found(b + 1, <<>>)
<1>0. Len(t) \in Nat /\ p \in Nat /\ p >= 1
  BY SMT, TextFacts
<1>1. Peek(t, p) = Dot => p \in 1..Len(t) /\ p + 1 \in 1..Len(t) + 1 /\ t[p] = Dot
  <2> SUFFICES ASSUME Peek(t, p) = Dot
               PROVE  p \in 1..Len(t) /\ p + 1 \in 1..Len(t) + 1 /\ t[p] = Dot
    OBVIOUS
  <2>1. p <= Len(t)
    BY ClassFacts DEF Peek
  <2> QED
    BY SMT, <1>0, <2>1 DEF Peek
<1>2. ASSUME FracPart(t, p).ok
      PROVE  \E e \in p..Len(t) + 1 : FracPart(t, p) = Found(e, <<>>) /\ FracAt(t, p, e - 1)
  <2>1. CASE Peek(t, p) = Dot
    <3>1. FracPart(t, p) = SomeDigits(t, p + 1)
      BY <2>1 DEF FracPart
    <3>2. PICK e \in (p + 1) + 1..Len(t) + 1 :
              SomeDigits(t, p + 1) = Found(e, <<>>) /\ DigitsAt(t, p + 1, e - 1)
      BY <1>1, <1>2, <2>1, <3>1, SomeDigitsIs
    <3>3. e \in p..Len(t) + 1 /\ e - 1 > p
      BY SMT, <1>0, <3>2
    <3> QED
      BY <1>1, <2>1, <3>1, <3>2, <3>3 DEF FracAt
  <2>2. CASE Peek(t, p) # Dot
    <3>1. p \in p..Len(t) + 1
      BY SMT, <1>0
    <3> QED
      BY <2>2, <3>1 DEF FracPart, FracAt
  <2> QED
    BY <2>1, <2>2
<1>3. ASSUME NEW b \in p - 1..Len(t), FracAt(t, p, b),
             Peek(t, b + 1) \notin Digits, Peek(t, b + 1) # Dot
      PROVE  FracPart(t, p) = Found(b + 1, <<>>)
  <2>1. CASE b = p - 1
    <3>1. b + 1 = p
      BY SMT, <1>0, <2>1
    <3> QED
      BY <1>3, <3>1 DEF FracPart
  <2>2. CASE b > p /\ t[p] = Dot /\ DigitsAt(t, p + 1, b)
    <3>1. p \in 1..Len(t) /\ p + 1 \in 1..Len(t) + 1 /\ b \in p + 1..Len(t)
      BY SMT, <1>0, <2>2
    <3>2. Peek(t, p) = Dot
      BY <2>2, <3>1, TextFacts
    <3>3. SomeDigits(t, p + 1) = Found(b + 1, <<>>)
      BY <1>3, <2>2, <3>1, SomeDigitsIs
    <3> QED
      BY <3>2, <3>3 DEF FracPart
  <2> QED
    BY <1>3, <2>1, <2>2 DEF FracAt
<1> QED
  BY <1>2, <1>3

(* and the exponent.                                                       *)
LEMMA ExpPartIs ==
    ASSUME NEW t \in Text, NEW p \in 1..Len(t) + 1
    PROVE  /\ ExpPart(t, p).ok => \E e \in p..Len(t) + 1 :
                 ExpPart(t, p) = Found(e, <<>>) /\ ExpAt(t, p, e - 1)
           /\ \A b \in p - 1..Len(t) :
                 /\ ExpAt(t, p, b)
                 /\ Peek(t, b + 1) \notin Digits /\ Peek(t, b + 1) \notin ExpMarks
                 => ExpPart(t, p) = Found(b + 1, <<>>)
<1>0. Len(t) \in Nat /\ p \in Nat /\ p >= 1
  BY SMT, TextFacts
<1> DEFINE s == IF Peek(t, p + 1) \in {Plus, Minus} THEN p + 2 ELSE p + 1
<1>1. Peek(t, p) \in ExpMarks => p \in 1..Len(t) /\ p + 1 \in 1..Len(t) + 1 /\ t[p] \in ExpMarks
  <2> SUFFICES ASSUME Peek(t, p) \in ExpMarks
               PROVE  p \in 1..Len(t) /\ p + 1 \in 1..Len(t) + 1 /\ t[p] \in ExpMarks
    OBVIOUS
  <2>1. p <= Len(t)
    BY ClassFacts DEF Peek
  <2> QED
    BY SMT, <1>0, <2>1 DEF Peek
<1>2. Peek(t, p + 1) \in {Plus, Minus} =>
         p + 1 \in 1..Len(t) /\ p + 2 \in 1..Len(t) + 1 /\ t[p + 1] \in {Plus, Minus}
  <2> SUFFICES ASSUME Peek(t, p + 1) \in {Plus, Minus}
               PROVE  p + 1 \in 1..Len(t) /\ p + 2 \in 1..Len(t) + 1 /\ t[p + 1] \in {Plus, Minus}
    OBVIOUS
  <2>1. EndOfText \notin {Plus, Minus}
    BY SMT DEF EndOfText, Plus, Minus
  <2>2. p + 1 <= Len(t)
    BY <2>1 DEF Peek
  <2> QED
    BY SMT, <1>0, <2>2 DEF Peek
<1>3. ASSUME ExpPart(t, p).ok
      PROVE  \E e \in p..Len(t) + 1 : ExpPart(t, p) = Found(e, <<>>) /\ ExpAt(t, p, e - 1)
  <2>1. CASE Peek(t, p) \in ExpMarks
    <3>1. ExpPart(t, p) = SomeDigits(t, s)
      BY <2>1 DEF ExpPart
    <3>2. s \in 1..Len(t) + 1
      BY <1>1, <1>2, <2>1
    <3>3. PICK e \in s + 1..Len(t) + 1 : SomeDigits(t, s) = Found(e, <<>>) /\ DigitsAt(t, s, e - 1)
      <4> HIDE DEF s
      <4> QED
        BY <1>3, <3>1, <3>2, SomeDigitsIs
    <3>4. CASE Peek(t, p + 1) \in {Plus, Minus}
      <4>1. s = p + 2
        BY <3>4
      <4>2. e \in p..Len(t) + 1 /\ e - 1 > p /\ e - 1 > p + 1
        BY SMT, <1>0, <3>3, <4>1
      <4> HIDE DEF s
      <4> QED
        BY <1>1, <1>2, <2>1, <3>1, <3>3, <3>4, <4>1, <4>2 DEF ExpAt
    <3>5. CASE Peek(t, p + 1) \notin {Plus, Minus}
      <4>1. s = p + 1
        BY <3>5
      <4>2. e \in p..Len(t) + 1 /\ e - 1 > p
        BY SMT, <1>0, <3>3, <4>1
      <4> HIDE DEF s
      <4> QED
        BY <1>1, <2>1, <3>1, <3>3, <4>1, <4>2 DEF ExpAt
    <3> QED
      BY <3>4, <3>5
  <2>2. CASE Peek(t, p) \notin ExpMarks
    <3>1. p \in p..Len(t) + 1
      BY SMT, <1>0
    <3> QED
      BY <2>2, <3>1 DEF ExpPart, ExpAt
  <2> QED
    BY <2>1, <2>2
<1>4. ASSUME NEW b \in p - 1..Len(t), ExpAt(t, p, b),
             Peek(t, b + 1) \notin Digits, Peek(t, b + 1) \notin ExpMarks
      PROVE  ExpPart(t, p) = Found(b + 1, <<>>)
  <2>1. CASE b = p - 1
    <3>1. b + 1 = p
      BY SMT, <1>0, <2>1
    <3> QED
      BY <1>4, <3>1 DEF ExpPart
  <2>2. CASE b > p /\ t[p] \in ExpMarks
    <3>1. p \in 1..Len(t) /\ p + 1 \in 1..Len(t) /\ p + 1 \in 1..Len(t) + 1 /\ b \in p + 1..Len(t)
          /\ p + 1 \in p + 1..b
      BY SMT, <1>0, <2>2
    <3>2. Peek(t, p) \in ExpMarks /\ Peek(t, p + 1) = t[p + 1]
      BY <2>2, <3>1, TextFacts
    <3>3. CASE DigitsAt(t, p + 1, b)
      <4>1. t[p + 1] \in Digits
        BY <3>1, <3>3 DEF DigitsAt
      <4>2. Peek(t, p + 1) \notin {Plus, Minus}
        BY <3>2, <4>1, ClassFacts
      <4>3. SomeDigits(t, p + 1) = Found(b + 1, <<>>)
        BY <1>4, <3>1, <3>3, SomeDigitsIs
      <4> QED
        BY <3>2, <4>2, <4>3 DEF ExpPart
    <3>4. CASE b > p + 1 /\ t[p + 1] \in {Plus, Minus} /\ DigitsAt(t, p + 2, b)
      <4>1. p + 2 \in 1..Len(t) + 1 /\ b \in p + 2..Len(t)
        BY SMT, <1>0, <3>4
      <4>2. SomeDigits(t, p + 2) = Found(b + 1, <<>>)
        BY <1>4, <3>4, <4>1, SomeDigitsIs
      <4> QED
        BY <3>2, <3>4, <4>2 DEF ExpPart
    <3> QED
      BY <1>4, <2>2, <3>1, <3>3, <3>4 DEF ExpAt
  <2> QED
    BY <1>4, <2>1, <2>2 DEF ExpAt
<1> QED
  BY <1>3, <1>4

(* What ParseNumber makes of its three parts.                              *)
LEMMA ParseNumberParts ==
    ASSUME NEW t, NEW p, NEW a, a = IF Peek(t, p) = Minus THEN p + 1 ELSE p
    PROVE  /\ ParseNumber(t, p).ok => IntPart(t, a).ok
           /\ \A i, x : IntPart(t, a) = Found(i, x) =>
                 /\ ParseNumber(t, p).ok => FracPart(t, i).ok
                 /\ \A j, y : FracPart(t, i) = Found(j, y) =>
                       /\ ParseNumber(t, p).ok => ExpPart(t, j).ok
                       /\ \A e, z : ExpPart(t, j) = Found(e, z) =>
                             ParseNumber(t, p) = Found(e, Number(SubSeq(t, p, e - 1)))
<1> DEFINE Exp(j)  == IF ExpPart(t, j).ok
                      THEN Found(ExpPart(t, j).pos, Number(SubSeq(t, p, ExpPart(t, j).pos - 1)))
                      ELSE Fail
           Frac(i) == IF FracPart(t, i).ok THEN Exp(FracPart(t, i).pos) ELSE Fail
<1>1. ParseNumber(t, p) = IF IntPart(t, a).ok THEN Frac(IntPart(t, a).pos) ELSE Fail
  BY Zenon DEF ParseNumber, Then
<1>2. ASSUME NEW j
      PROVE  /\ Exp(j).ok => ExpPart(t, j).ok
             /\ \A e, z : ExpPart(t, j) = Found(e, z) => Exp(j) = Found(e, Number(SubSeq(t, p, e - 1)))
  <2>1. Exp(j).ok => ExpPart(t, j).ok
    BY FoundFacts, Zenon
  <2>2. ASSUME NEW e, NEW z, ExpPart(t, j) = Found(e, z)
        PROVE  Exp(j) = Found(e, Number(SubSeq(t, p, e - 1)))
    <3>1. ExpPart(t, j).ok /\ ExpPart(t, j).pos = e
      <4>1. Found(e, z).ok /\ Found(e, z).pos = e
        BY FoundFacts, Zenon
      <4> QED
        BY <2>2, <4>1, Zenon
    <3> QED
      BY <3>1, Zenon
  <2> HIDE DEF Exp
  <2> QED
    BY <2>1, <2>2, Zenon
<1> HIDE DEF Exp
<1>3. ASSUME NEW i
      PROVE  /\ Frac(i).ok => FracPart(t, i).ok
             /\ \A j, y : FracPart(t, i) = Found(j, y) => Frac(i) = Exp(j)
  <2>1. Frac(i).ok => FracPart(t, i).ok
    BY FoundFacts, Zenon
  <2>2. ASSUME NEW j, NEW y, FracPart(t, i) = Found(j, y)
        PROVE  Frac(i) = Exp(j)
    <3>1. FracPart(t, i).ok /\ FracPart(t, i).pos = j
      <4>1. Found(j, y).ok /\ Found(j, y).pos = j
        BY FoundFacts, Zenon
      <4> QED
        BY <2>2, <4>1, Zenon
    <3> QED
      BY <3>1, Zenon
  <2> HIDE DEF Frac
  <2> QED
    BY <2>1, <2>2, Zenon
<1> HIDE DEF Frac
<1>4. ParseNumber(t, p).ok => IntPart(t, a).ok
  BY <1>1, FoundFacts, Zenon
<1>5. ASSUME NEW i, NEW x, IntPart(t, a) = Found(i, x)
      PROVE  ParseNumber(t, p) = Frac(i)
  <2>1. IntPart(t, a).ok /\ IntPart(t, a).pos = i
    <3>1. Found(i, x).ok /\ Found(i, x).pos = i
      BY FoundFacts, Zenon
    <3> QED
      BY <1>5, <3>1, Zenon
  <2> QED
    BY <1>1, <2>1, Zenon
<1>6. ASSUME NEW i, NEW x, IntPart(t, a) = Found(i, x), NEW j, NEW y, FracPart(t, i) = Found(j, y)
      PROVE  ParseNumber(t, p) = Exp(j)
  <2>1. ParseNumber(t, p) = Frac(i)
    BY <1>5, <1>6, Zenon
  <2>2. Frac(i) = Exp(j)
    BY <1>3, <1>6, Zenon
  <2> QED
    BY <2>1, <2>2, Zenon
<1>7. ASSUME NEW i, NEW x, IntPart(t, a) = Found(i, x)
      PROVE  ParseNumber(t, p).ok => FracPart(t, i).ok
  <2>1. ParseNumber(t, p) = Frac(i)
    BY <1>5, <1>7, Zenon
  <2>2. Frac(i).ok => FracPart(t, i).ok
    BY <1>3, Zenon
  <2> QED
    BY <2>1, <2>2, Zenon
<1>8. ASSUME NEW i, NEW x, IntPart(t, a) = Found(i, x), NEW j, NEW y, FracPart(t, i) = Found(j, y)
      PROVE  /\ ParseNumber(t, p).ok => ExpPart(t, j).ok
             /\ \A e, z : ExpPart(t, j) = Found(e, z) =>
                   ParseNumber(t, p) = Found(e, Number(SubSeq(t, p, e - 1)))
  <2>1. ParseNumber(t, p) = Exp(j)
    BY <1>6, <1>8, Zenon
  <2>2. ParseNumber(t, p).ok => ExpPart(t, j).ok
    BY <1>2, <2>1, Zenon
  <2>3. ASSUME NEW e, NEW z, ExpPart(t, j) = Found(e, z)
        PROVE  ParseNumber(t, p) = Found(e, Number(SubSeq(t, p, e - 1)))
    <3>1. Exp(j) = Found(e, Number(SubSeq(t, p, e - 1)))
      BY <1>2, <2>3, Zenon
    <3> QED
      BY <2>1, <3>1, Zenon
  <2> QED
    BY <2>2, <2>3, Zenon
<1>9. ASSUME NEW i, NEW x, IntPart(t, a) = Found(i, x)
      PROVE  /\ ParseNumber(t, p).ok => FracPart(t, i).ok
             /\ \A j, y : FracPart(t, i) = Found(j, y) =>
                   /\ ParseNumber(t, p).ok => ExpPart(t, j).ok
                   /\ \A e, z : ExpPart(t, j) = Found(e, z) =>
                         ParseNumber(t, p) = Found(e, Number(SubSeq(t, p, e - 1)))
  <2>1. ParseNumber(t, p).ok => FracPart(t, i).ok
    BY <1>7, <1>9, Zenon
  <2>2. ASSUME NEW j, NEW y, FracPart(t, i) = Found(j, y)
        PROVE  /\ ParseNumber(t, p).ok => ExpPart(t, j).ok
               /\ \A e, z : ExpPart(t, j) = Found(e, z) =>
                     ParseNumber(t, p) = Found(e, Number(SubSeq(t, p, e - 1)))
    BY <1>8, <1>9, <2>2, Zenon
  <2> QED
    BY <2>1, <2>2, Zenon
<1> QED
  BY <1>4, <1>9, Zenon

(* What the scanner takes is a number of the grammar.                      *)
LEMMA NumberIsFound ==
    ASSUME NEW t \in Text, NEW p \in 1..Len(t), ParseNumber(t, p).ok
    PROVE  \E q \in p..Len(t) : NumberAt(t, p, q)
                                /\ ParseNumber(t, p) = Found(q + 1, Number(SubSeq(t, p, q)))
<1>0. Len(t) \in Nat /\ p \in Nat /\ p >= 1 /\ p <= Len(t) /\ Peek(t, p) = t[p]
  BY SMT, TextFacts
<1> DEFINE a == IF Peek(t, p) = Minus THEN p + 1 ELSE p
<1>1. a \in {p, p + 1} /\ a \in 1..Len(t) + 1 /\ (a = p + 1 => t[p] = Minus)
  BY SMT, <1>0
<1>2. /\ IntPart(t, a).ok
      /\ \A i, x : IntPart(t, a) = Found(i, x) =>
            /\ FracPart(t, i).ok
            /\ \A j, y : FracPart(t, i) = Found(j, y) =>
                  /\ ExpPart(t, j).ok
                  /\ \A e, z : ExpPart(t, j) = Found(e, z) =>
                        ParseNumber(t, p) = Found(e, Number(SubSeq(t, p, e - 1)))
  BY ParseNumberParts
<1> HIDE DEF a
<1>3. PICK i \in a + 1..Len(t) + 1 : IntPart(t, a) = Found(i, <<>>) /\ IntAt(t, a, i - 1)
  BY <1>1, <1>2, IntPartIs
<1>4. i \in 1..Len(t) + 1
  BY SMT, <1>0, <1>1
<1>5. PICK j \in i..Len(t) + 1 : FracPart(t, i) = Found(j, <<>>) /\ FracAt(t, i, j - 1)
  BY <1>2, <1>3, <1>4, FracPartIs
<1>6. j \in 1..Len(t) + 1
  BY SMT, <1>0, <1>4
<1>7. PICK e \in j..Len(t) + 1 : ExpPart(t, j) = Found(e, <<>>) /\ ExpAt(t, j, e - 1)
  BY <1>2, <1>3, <1>5, <1>6, ExpPartIs
<1>8. ParseNumber(t, p) = Found(e, Number(SubSeq(t, p, e - 1)))
  BY <1>2, <1>3, <1>5, <1>7
<1>9. /\ e - 1 \in p..Len(t) /\ (e - 1) + 1 = e
      /\ i - 1 \in p - 1..e - 1 /\ j - 1 \in p - 1..e - 1 /\ i - 1 <= j - 1
      /\ (i - 1) + 1 = i /\ (j - 1) + 1 = j
  BY SMT, <1>0, <1>1, <1>3, <1>5, <1>7
<1>10. NumberAt(t, p, e - 1)
  <2>1. /\ a = p + 1 => t[p] = Minus
        /\ i - 1 <= j - 1 /\ IntAt(t, a, i - 1) /\ FracAt(t, (i - 1) + 1, j - 1)
        /\ ExpAt(t, (j - 1) + 1, e - 1)
    BY <1>1, <1>3, <1>5, <1>7, <1>9
  <2> QED
    BY <1>1, <1>9, <2>1, Zenon DEF NumberAt
<1> QED
  BY <1>8, <1>9, <1>10

(* A number of the grammar that nothing can go on is taken, all of it.     *)
LEMMA NumberIsTaken ==
    ASSUME NEW t \in Text, NEW p \in 1..Len(t), NEW q \in p..Len(t), NumberAt(t, p, q),
           Peek(t, q + 1) \notin Digits \cup ExpMarks \cup {Dot}
    PROVE  ParseNumber(t, p) = Found(q + 1, Number(SubSeq(t, p, q)))
<1>0. /\ Len(t) \in Nat /\ p \in Nat /\ p >= 1 /\ p <= Len(t) /\ Peek(t, p) = t[p]
      /\ q \in Nat /\ p <= q /\ q <= Len(t)
  BY SMT, TextFacts
<1>1. PICK a \in {p, p + 1}, i \in p - 1..q, j \in p - 1..q :
          /\ a = p + 1 => t[p] = Minus
          /\ i <= j /\ IntAt(t, a, i) /\ FracAt(t, i + 1, j) /\ ExpAt(t, j + 1, q)
  BY Zenon DEF NumberAt
<1>2. a <= i /\ DigitsAt(t, a, i)
  BY <1>1 DEF IntAt
<1>3. a = IF Peek(t, p) = Minus THEN p + 1 ELSE p
  <2>1. CASE a = p
    <3>1. p \in a..i
      BY SMT, <1>0, <1>2, <2>1
    <3>2. t[p] \in Digits
      BY <1>2, <3>1 DEF DigitsAt
    <3> QED
      BY <1>0, <2>1, <3>2, ClassFacts
  <2>2. CASE a = p + 1
    BY <1>0, <1>1, <2>2
  <2> QED
    BY <1>1, <2>1, <2>2
<1>4. /\ a \in 1..Len(t) + 1 /\ i \in a..Len(t) /\ i + 1 \in 1..Len(t) + 1
      /\ j \in (i + 1) - 1..Len(t) /\ j + 1 \in 1..Len(t) + 1
      /\ q \in (j + 1) - 1..Len(t) /\ (i + 1) - 1 = i /\ (j + 1) - 1 = j /\ (q + 1) - 1 = q
      /\ q > j => j + 1 \in 1..Len(t)
      /\ ~(q > j) => q = j
      /\ j > i => i + 1 \in 1..Len(t)
      /\ ~(j > i) => j = i
  BY SMT, <1>0, <1>1, <1>2
<1>5. Peek(t, j + 1) \notin Digits /\ Peek(t, j + 1) # Dot
  <2>1. CASE q > j
    <3>1. t[j + 1] \in ExpMarks
      <4>1. q # j
        BY SMT, <1>0, <2>1
      <4> QED
        BY <1>1, <1>4, <4>1 DEF ExpAt
    <3>2. Peek(t, j + 1) = t[j + 1]
      BY <1>4, <2>1, TextFacts
    <3> QED
      BY <3>1, <3>2, ClassFacts
  <2>2. CASE ~(q > j)
    BY <1>4, <2>2
  <2> QED
    BY <2>1, <2>2
<1>6. Peek(t, i + 1) \notin Digits
  <2>1. CASE j > i
    <3>1. j # i
      BY SMT, <2>1, <1>4
    <3>2. t[i + 1] = Dot
      BY <1>1, <1>4, <3>1 DEF FracAt
    <3>3. Peek(t, i + 1) = t[i + 1]
      BY <1>4, <2>1, TextFacts
    <3> QED
      BY <3>2, <3>3, ClassFacts
  <2>2. CASE ~(j > i)
    BY <1>4, <1>5, <2>2
  <2> QED
    BY <2>1, <2>2
<1>7. IntPart(t, a) = Found(i + 1, <<>>)
  BY <1>1, <1>4, <1>6, IntPartIs
<1>8. FracPart(t, i + 1) = Found(j + 1, <<>>)
  BY <1>1, <1>4, <1>5, FracPartIs
<1>9. ExpPart(t, j + 1) = Found(q + 1, <<>>)
  <2>1. Peek(t, q + 1) \notin Digits /\ Peek(t, q + 1) \notin ExpMarks
    OBVIOUS
  <2> QED
    BY <1>1, <1>4, <2>1, ExpPartIs
<1>10. ParseNumber(t, p) = Found(q + 1, Number(SubSeq(t, p, (q + 1) - 1)))
  <2>1. \A k, x : IntPart(t, a) = Found(k, x) =>
           \A l, y : FracPart(t, k) = Found(l, y) =>
              \A e, z : ExpPart(t, l) = Found(e, z) =>
                 ParseNumber(t, p) = Found(e, Number(SubSeq(t, p, e - 1)))
    BY <1>3, ParseNumberParts
  <2>2. \A l, y : FracPart(t, i + 1) = Found(l, y) =>
              \A e, z : ExpPart(t, l) = Found(e, z) =>
                 ParseNumber(t, p) = Found(e, Number(SubSeq(t, p, e - 1)))
    BY <1>7, <2>1, Zenon
  <2>3. \A e, z : ExpPart(t, j + 1) = Found(e, z) =>
                 ParseNumber(t, p) = Found(e, Number(SubSeq(t, p, e - 1)))
    BY <1>8, <2>2, Zenon
  <2> QED
    BY <1>9, <2>3, Zenon
<1> QED
  BY <1>4, <1>10

(* The scanner takes the numbers of the grammar, whole, whatever the text. *)
THEOREM ScanningNumbers ==
    ASSUME NEW t \in Text, NEW p \in DOMAIN t
    PROVE  /\ ParseNumber(t, p).ok => \E q \in p..Len(t) :
                 /\ IsNumber(SubSeq(t, p, q))
                 /\ ParseNumber(t, p) = Found(q + 1, Number(SubSeq(t, p, q)))
           /\ \A q \in p..Len(t) :
                 /\ Peek(t, q + 1) \notin Digits \cup ExpMarks \cup {Dot}
                 /\ IsNumber(SubSeq(t, p, q))
                 => ParseNumber(t, p) = Found(q + 1, Number(SubSeq(t, p, q)))
<1>1. p \in 1..Len(t)
  BY TextFacts
<1>2. \A q \in p..Len(t) : IsNumber(SubSeq(t, p, q)) <=> NumberAt(t, p, q)
  BY <1>1, NumberOfPiece
<1> QED
  BY <1>1, <1>2, NumberIsFound, NumberIsTaken

-----------------------------------------------------------------------------
(* Strings.  Four hexadecimal digits, as the parser and the grammar read   *)
(* them.                                                                   *)

HexAt(t, a)    == 4096 * HexValue(t[a]) + 256 * HexValue(t[a + 1])
                  + 16 * HexValue(t[a + 2]) + HexValue(t[a + 3])
IsHexAt(t, a)  == \A i \in a..a + 3 : HexValue(t[i]) >= 0
EscapeAt(t, a) == t[a] = Backslash /\ t[a + 1] = 117 /\ IsHexAt(t, a + 2)

(* hex_value knows the hexadecimal digits, in both cases, and their        *)
(* values.                                                                 *)
LEMMA HexDigits ==
    \A c \in Int : /\ HexValue(c) >= 0 <=> c \in Digits \cup 97..102 \cup 65..70
                   /\ HexValue(c) >= 0 =>
                         /\ HexValue(c) \in 0..15
                         /\ \A d \in 0..15 :
                               c \in {HexDigit(d), HexDigit(d) - (IF d > 9 THEN 32 ELSE 0)}
                               <=> d = HexValue(c)
BY SMT DEF HexValue, HexDigit, Digits

(* So the digit the grammar chooses for a character is its hex_value.      *)
LEMMA HexDigitChosen ==
    ASSUME NEW c \in Int, HexValue(c) >= 0
    PROVE  (CHOOSE d \in 0..15 : c \in {HexDigit(d), HexDigit(d) - (IF d > 9 THEN 32 ELSE 0)})
           = HexValue(c)
<1> DEFINE P(d) == c \in {HexDigit(d), HexDigit(d) - (IF d > 9 THEN 32 ELSE 0)}
<1>1. HexValue(c) \in 0..15 /\ \A d \in 0..15 : P(d) <=> d = HexValue(c)
  BY HexDigits
<1> HIDE DEF P
<1>2. (CHOOSE d \in 0..15 : P(d)) = HexValue(c)
  BY <1>1, Zenon
<1> QED
  BY <1>2 DEF P

(* Four hexadecimal digits of the grammar, and their number, at a place.   *)
LEMMA HexOfPiece ==
    ASSUME NEW t \in Text, NEW a \in Int, 1 <= a, a + 3 <= Len(t)
    PROVE  /\ IsHex(SubSeq(t, a, a + 3)) <=> IsHexAt(t, a)
           /\ IsHexAt(t, a) => /\ Hex(SubSeq(t, a, a + 3)) = HexAt(t, a)
                               /\ HexAt(t, a) \in Nat /\ HexAt(t, a) <= 65535
<1> DEFINE u == SubSeq(t, a, a + 3)
<1>0. a + 3 \in Int /\ a <= (a + 3) + 1 /\ (a + 3) - a + 1 = 4
  BY SMT
<1>1. /\ u \in Text /\ Len(u) = 4
      /\ \A i \in 1..4 : u[i] = t[a + i - 1]
  <2>1. /\ u \in Text /\ Len(u) = (a + 3) - a + 1
        /\ \A i \in 1..(a + 3) - a + 1 : u[i] = t[a + i - 1]
    BY <1>0, PieceOf
  <2> HIDE DEF u
  <2> QED
    BY <1>0, <2>1
<1> HIDE DEF u
<1>2. u[1] = t[a] /\ u[2] = t[a + 1] /\ u[3] = t[a + 2] /\ u[4] = t[a + 3]
  <2>1. /\ 1 \in 1..4 /\ 2 \in 1..4 /\ 3 \in 1..4 /\ 4 \in 1..4
        /\ a + 1 - 1 = a /\ a + 2 - 1 = a + 1 /\ a + 3 - 1 = a + 2 /\ a + 4 - 1 = a + 3
    BY SMT
  <2> QED
    BY <1>1, <2>1, Zenon
<1>3. /\ t[a] \in Int /\ t[a + 1] \in Int /\ t[a + 2] \in Int /\ t[a + 3] \in Int
  <2>1. a \in 1..Len(t) /\ a + 1 \in 1..Len(t) /\ a + 2 \in 1..Len(t) /\ a + 3 \in 1..Len(t)
    BY SMT, TextFacts
  <2>2. \A i \in 1..Len(t) : t[i] \in Nat
    BY TextFacts
  <2>3. \A n \in Nat : n \in Int
    BY SMT
  <2> QED
    BY <2>1, <2>2, <2>3, Zenon
<1>4. IsHexAt(t, a) <=> /\ HexValue(t[a]) >= 0 /\ HexValue(t[a + 1]) >= 0
                        /\ HexValue(t[a + 2]) >= 0 /\ HexValue(t[a + 3]) >= 0
  <2>1. \A i : i \in a..a + 3 <=> i = a \/ i = a + 1 \/ i = a + 2 \/ i = a + 3
    BY SMT
  <2> QED
    BY <2>1, Zenon DEF IsHexAt
<1>5. IsHex(u) <=> /\ HexValue(t[a]) >= 0 /\ HexValue(t[a + 1]) >= 0
                   /\ HexValue(t[a + 2]) >= 0 /\ HexValue(t[a + 3]) >= 0
  <2> DEFINE HD == Digits \cup 97..102 \cup 65..70
  <2>1. DOMAIN u = 1..4 /\ \A i : i \in 1..4 <=> i = 1 \/ i = 2 \/ i = 3 \/ i = 4
    <3>1. \A i : i \in 1..4 <=> i = 1 \/ i = 2 \/ i = 3 \/ i = 4
      BY SMT
    <3>2. DOMAIN u = 1..4
      BY <1>1, TextFacts
    <3> QED
      BY <3>1, <3>2, Zenon
  <2>2. \A c \in Int : HexValue(c) >= 0 <=> c \in HD
    BY HexDigits
  <2>3. IsHex(u) <=> \A i \in 1..4 : u[i] \in HD
    <3>1. IsHex(u) <=> All(u, HD)
      BY Zenon DEF IsHex
    <3> HIDE DEF HD
    <3>2. All(u, HD) <=> \A i \in DOMAIN u : u[i] \in HD
      BY Zenon DEF All
    <3>3. DOMAIN u = 1..4
      BY <2>1, Zenon
    <3> HIDE DEF u
    <3> QED
      BY <3>1, <3>2, <3>3, Zenon
  <2> HIDE DEF HD
  <2> QED
    BY <1>2, <1>3, <2>1, <2>2, <2>3, Zenon
<1>6. ASSUME IsHexAt(t, a)
      PROVE  Hex(u) = HexAt(t, a) /\ HexAt(t, a) \in Nat /\ HexAt(t, a) <= 65535
  <2>1. /\ HexValue(t[a]) >= 0 /\ HexValue(t[a + 1]) >= 0
        /\ HexValue(t[a + 2]) >= 0 /\ HexValue(t[a + 3]) >= 0
    BY <1>4, <1>6
  <2>2. Hex(u) = HexValue(t[a]) * 4096 + HexValue(t[a + 1]) * 256
                 + HexValue(t[a + 2]) * 16 + HexValue(t[a + 3])
    <3> DEFINE V(c) == CHOOSE d \in 0..15 :
                         c \in {HexDigit(d), HexDigit(d) - (IF d > 9 THEN 32 ELSE 0)}
    <3>1. Hex(u) = V(u[1]) * 4096 + V(u[2]) * 256 + V(u[3]) * 16 + V(u[4])
      BY DEF Hex
    <3>2. /\ V(u[1]) = HexValue(t[a]) /\ V(u[2]) = HexValue(t[a + 1])
          /\ V(u[3]) = HexValue(t[a + 2]) /\ V(u[4]) = HexValue(t[a + 3])
      BY <1>2, <1>3, <2>1, HexDigitChosen, Zenon
    <3> HIDE DEF V
    <3> QED
      BY <3>1, <3>2
  <2>3. /\ HexValue(t[a]) \in 0..15 /\ HexValue(t[a + 1]) \in 0..15
        /\ HexValue(t[a + 2]) \in 0..15 /\ HexValue(t[a + 3]) \in 0..15
    BY <1>3, <2>1, HexDigits
  <2>4. \A w, x, y, z \in 0..15 :
           /\ w * 4096 + x * 256 + y * 16 + z = 4096 * w + 256 * x + 16 * y + z
           /\ 4096 * w + 256 * x + 16 * y + z \in Nat
           /\ 4096 * w + 256 * x + 16 * y + z <= 65535
    BY SMT
  <2> DEFINE w == HexValue(t[a])
             x == HexValue(t[a + 1])
             y == HexValue(t[a + 2])
             z == HexValue(t[a + 3])
  <2>5. HexAt(t, a) = 4096 * w + 256 * x + 16 * y + z
    BY DEF HexAt
  <2>6. Hex(u) = w * 4096 + x * 256 + y * 16 + z
    BY <2>2
  <2>7. w \in 0..15 /\ x \in 0..15 /\ y \in 0..15 /\ z \in 0..15
    BY <2>3
  <2> HIDE DEF w, x, y, z
  <2> QED
    BY <2>4, <2>5, <2>6, <2>7
<1> QED
  BY <1>4, <1>5, <1>6 DEF u

(* parse_hex4 takes four hexadecimal digits and gives their number.        *)
LEMMA ParseHex4Is ==
    ASSUME NEW t \in Text, NEW p \in Int, 1 <= p
    PROVE  ParseHex4(t, p) = IF p + 3 <= Len(t) /\ IsHexAt(t, p)
                             THEN Found(p + 4, HexAt(t, p)) ELSE Fail
<1>1. CASE p + 3 > Len(t)
  <2>1. ~(p + 3 <= Len(t))
    BY SMT, <1>1, TextFacts
  <2>2. ParseHex4(t, p) = Fail
    BY <1>1 DEF ParseHex4
  <2> QED
    BY <2>1, <2>2, Zenon
<1>2. CASE ~(p + 3 > Len(t))
  <2>1. p + 3 <= Len(t)
    BY SMT, <1>2, TextFacts
  <2>2. \A q \in p..p + 3 : HexValue(t[q]) < 0 <=> ~(HexValue(t[q]) >= 0)
    <3>1. \A q \in p..p + 3 : q \in 1..Len(t)
      BY SMT, <2>1, TextFacts
    <3>2. \A c \in Nat : HexValue(c) < 0 <=> ~(HexValue(c) >= 0)
      BY SMT DEF HexValue, Digits
    <3>3. \A q \in 1..Len(t) : t[q] \in Nat
      BY TextFacts
    <3> QED
      BY <3>1, <3>2, <3>3, Zenon
  <2>3. IsHexAt(t, p) <=> ~\E q \in p..p + 3 : HexValue(t[q]) < 0
    BY <2>2, Zenon DEF IsHexAt
  <2>4. CASE IsHexAt(t, p)
    <3>1. ~\E q \in p..p + 3 : HexValue(t[q]) < 0
      BY <2>3, <2>4
    <3> HIDE DEF IsHexAt
    <3>2. ParseHex4(t, p) = Found(p + 4, HexAt(t, p))
      BY <1>2, <3>1 DEF ParseHex4, HexAt
    <3> QED
      BY <2>1, <2>4, <3>2
  <2>5. CASE ~IsHexAt(t, p)
    <3>1. \E q \in p..p + 3 : HexValue(t[q]) < 0
      BY <2>3, <2>5
    <3>2. ParseHex4(t, p) = Fail
      BY <3>1 DEF ParseHex4
    <3> QED
      BY <2>5, <3>2
  <2> QED
    BY <2>4, <2>5
<1> QED
  BY <1>1, <1>2

(* The characters of a piece, for each of the lengths it may have.         *)
LEMMA PairOfPiece ==
    ASSUME NEW t \in Text, NEW a \in Int, 1 <= a, a + 1 <= Len(t)
    PROVE  /\ SubSeq(t, a, a + 1) = <<t[a], t[a + 1]>>
           /\ \A x, y : SubSeq(t, a, a + 1) = <<x, y>> <=> t[a] = x /\ t[a + 1] = y
<1> DEFINE u == SubSeq(t, a, a + 1)
<1>0. a + 1 \in Int /\ a <= (a + 1) + 1 /\ (a + 1) - a + 1 = 2
  BY SMT
<1>1. /\ u \in Text /\ Len(u) = 2
      /\ \A i \in 1..2 : u[i] = t[a + i - 1]
  <2>1. /\ u \in Text /\ Len(u) = (a + 1) - a + 1
        /\ \A i \in 1..(a + 1) - a + 1 : u[i] = t[a + i - 1]
    BY <1>0, PieceOf
  <2> HIDE DEF u
  <2> QED
    BY <1>0, <2>1
<1> HIDE DEF u
<1>2. u[1] = t[a] /\ u[2] = t[a + 1]
  <2>1. 1 \in 1..2 /\ 2 \in 1..2 /\ a + 1 - 1 = a /\ a + 2 - 1 = a + 1
    BY SMT
  <2> QED
    BY <1>1, <2>1, Zenon
<1>3. u = <<u[1], u[2]>>
  BY SMT, <1>1 DEF Text
<1>4. u = <<t[a], t[a + 1]>>
  BY <1>2, <1>3, Zenon
<1>5. \A x, y : u = <<x, y>> => t[a] = x /\ t[a + 1] = y
  BY <1>2, SMT
<1> QED
  BY <1>4, <1>5, Zenon DEF u

(* What a character can be written as, by length.                          *)
LEMMA CharsByLength ==
    ASSUME NEW u
    PROVE  /\ Len(u) = 1 => Chars(u) = Itself(u)
           /\ Len(u) = 2 => Chars(u) = Lettered(u)
           /\ Len(u) = 6 => Chars(u) = Coded(u)
           /\ Len(u) = 12 => Chars(u) = Paired(u)
<1>1. 1 # 2 /\ 1 # 6 /\ 1 # 12 /\ 2 # 6 /\ 2 # 12 /\ 6 # 12
  BY SMT
<1>2. Len(u) = 1 => Chars(u) = Itself(u)
  BY <1>1, Zenon DEF Chars
<1>3. Len(u) = 2 => Chars(u) = Lettered(u)
  BY <1>1, Zenon DEF Chars
<1>4. Len(u) = 6 => Chars(u) = Coded(u)
  BY <1>1, Zenon DEF Chars
<1>5. Len(u) = 12 => Chars(u) = Paired(u)
  BY <1>1, Zenon DEF Chars
<1> QED
  BY <1>2, <1>3, <1>4, <1>5

(* A character that stands for itself;                                     *)
LEMMA CharsOfOne ==
    ASSUME NEW t \in Text, NEW k \in 1..Len(t), NEW c
    PROVE  c \in Chars(SubSeq(t, k, k))
           <=> c = t[k] /\ t[k] >= 32 /\ t[k] \notin {Quote, Backslash}
<1> DEFINE u == SubSeq(t, k, k)
<1>0. k \in Int /\ 1 <= k /\ k <= k + 1 /\ k <= Len(t) /\ k - k + 1 = 1 /\ 1 \in 1..1 /\ k + 1 - 1 = k
  BY SMT, TextFacts
<1>1. Len(u) = 1 /\ u[1] = t[k]
  <2>1. /\ Len(u) = k - k + 1
        /\ \A i \in 1..k - k + 1 : u[i] = t[k + i - 1]
    BY <1>0, PieceOf
  <2> HIDE DEF u
  <2> QED
    BY <1>0, <2>1
<1> HIDE DEF u
<1>2. Chars(u) = {x \in {u[1]} : x >= 32 /\ x \notin {Quote, Backslash}}
  BY <1>1, CharsByLength DEF Itself
<1> QED
  BY <1>1, <1>2, Zenon DEF u

(* a backslash and a letter;                                               *)
LEMMA CharsOfTwo ==
    ASSUME NEW t \in Text, NEW k \in Int, 1 <= k, k + 1 <= Len(t), NEW c
    PROVE  c \in Chars(SubSeq(t, k, k + 1))
           <=> t[k] = Backslash /\ t[k + 1] \in DOMAIN Escapes /\ c = Escapes[t[k + 1]]
<1> DEFINE u == SubSeq(t, k, k + 1)
<1>0. k + 1 \in Int /\ k <= (k + 1) + 1 /\ (k + 1) - k + 1 = 2
  BY SMT
<1>1. Len(u) = 2 /\ \A x, y : u = <<x, y>> <=> t[k] = x /\ t[k + 1] = y
  <2>1. Len(u) = (k + 1) - k + 1
    BY <1>0, PieceOf
  <2>2. \A x, y : u = <<x, y>> <=> t[k] = x /\ t[k + 1] = y
    BY PairOfPiece
  <2> HIDE DEF u
  <2> QED
    BY <1>0, <2>1, <2>2
<1> HIDE DEF u
<1>2. Chars(u) = {Escapes[x] : x \in {y \in DOMAIN Escapes : u = <<Backslash, y>>}}
  BY <1>1, CharsByLength DEF Lettered
<1>3. \A y : u = <<Backslash, y>> <=> t[k] = Backslash /\ t[k + 1] = y
  BY <1>1, Zenon
<1> QED
  BY <1>2, <1>3, Zenon DEF u

(* A \u escape at k.                                                       *)
LEMMA EscapeOfPiece ==
    ASSUME NEW t \in Text, NEW k \in Int, 1 <= k, k + 5 <= Len(t)
    PROVE  /\ Len(SubSeq(t, k, k + 5)) = 6
           /\ IsEscape(SubSeq(t, k, k + 5)) <=> EscapeAt(t, k)
           /\ From(SubSeq(t, k, k + 5), 3) = SubSeq(t, k + 2, k + 5)
           /\ IsHexAt(t, k + 2) => /\ Hex(SubSeq(t, k + 2, k + 5)) = HexAt(t, k + 2)
                                   /\ HexAt(t, k + 2) \in Nat /\ HexAt(t, k + 2) <= 65535
<1> DEFINE u == SubSeq(t, k, k + 5)
<1>0. /\ k + 5 \in Int /\ k <= (k + 5) + 1 /\ (k + 5) - k + 1 = 6
      /\ k + 1 <= Len(t) /\ k + 2 \in Int /\ 1 <= k + 2 /\ (k + 2) + 3 <= Len(t) /\ (k + 2) + 3 = k + 5
      /\ 1 \in Int /\ 2 \in Int /\ 3 \in Int /\ 6 \in Int
      /\ 1 <= 1 /\ 1 <= 2 + 1 /\ 2 <= (k + 5) - k + 1 /\ 1 <= 3 /\ 3 <= 6 + 1 /\ 6 <= (k + 5) - k + 1
      /\ k - 1 + 1 = k /\ k - 1 + 2 = k + 1 /\ k - 1 + 3 = k + 2 /\ k - 1 + 6 = k + 5
  BY SMT, TextFacts
<1>1. Len(u) = 6
  <2>1. Len(u) = (k + 5) - k + 1
    BY <1>0, PieceOf
  <2> HIDE DEF u
  <2> QED
    BY <1>0, <2>1
<1>2. SubSeq(u, 1, 2) = SubSeq(t, k, k + 1)
  <2>1. SubSeq(u, 1, 2) = SubSeq(t, k - 1 + 1, k - 1 + 2)
    BY <1>0, PieceOfPiece
  <2> HIDE DEF u
  <2> QED
    BY <1>0, <2>1
<1>3. SubSeq(u, 3, 6) = SubSeq(t, k + 2, k + 5)
  <2>1. SubSeq(u, 3, 6) = SubSeq(t, k - 1 + 3, k - 1 + 6)
    BY <1>0, PieceOfPiece
  <2> HIDE DEF u
  <2> QED
    BY <1>0, <2>1
<1>4. From(u, 3) = SubSeq(t, k + 2, k + 5)
  <2> HIDE DEF u
  <2> QED
    BY <1>1, <1>3, Zenon DEF From
<1>5. Upto(u, 2) = <<Backslash, 117>> <=> t[k] = Backslash /\ t[k + 1] = 117
  <2>1. SubSeq(t, k, k + 1) = <<Backslash, 117>> <=> t[k] = Backslash /\ t[k + 1] = 117
    BY <1>0, PairOfPiece
  <2> HIDE DEF u
  <2> QED
    BY <1>2, <2>1, Zenon DEF Upto
<1>6. IsHex(SubSeq(t, k + 2, k + 5)) <=> IsHexAt(t, k + 2)
  <2>1. IsHex(SubSeq(t, k + 2, (k + 2) + 3)) <=> IsHexAt(t, k + 2)
    BY <1>0, HexOfPiece
  <2> QED
    BY <1>0, <2>1
<1>7. IsHexAt(t, k + 2) => /\ Hex(SubSeq(t, k + 2, k + 5)) = HexAt(t, k + 2)
                           /\ HexAt(t, k + 2) \in Nat /\ HexAt(t, k + 2) <= 65535
  <2>1. IsHexAt(t, k + 2) => /\ Hex(SubSeq(t, k + 2, (k + 2) + 3)) = HexAt(t, k + 2)
                             /\ HexAt(t, k + 2) \in Nat /\ HexAt(t, k + 2) <= 65535
    BY <1>0, HexOfPiece
  <2> QED
    BY <1>0, <2>1
<1>8. IsEscape(u) <=> EscapeAt(t, k)
  <2> HIDE DEF u
  <2> QED
    BY <1>4, <1>5, <1>6, Zenon DEF IsEscape, EscapeAt
<1> HIDE DEF u
<1>9. Len(u) = 6 /\ (IsEscape(u) <=> EscapeAt(t, k)) /\ From(u, 3) = SubSeq(t, k + 2, k + 5)
  BY <1>1, <1>4, <1>8
<1> QED
  BY <1>7, <1>9 DEF u

(* one \u escape that is no half of a pair;                                *)
LEMMA CharsOfSix ==
    ASSUME NEW t \in Text, NEW k \in Int, 1 <= k, k + 5 <= Len(t), NEW c
    PROVE  c \in Chars(SubSeq(t, k, k + 5))
           <=> EscapeAt(t, k) /\ HexAt(t, k + 2) \div 2048 # 27 /\ c = HexAt(t, k + 2)
<1> DEFINE u == SubSeq(t, k, k + 5)
<1>1. /\ Len(u) = 6 /\ (IsEscape(u) <=> EscapeAt(t, k))
      /\ From(u, 3) = SubSeq(t, k + 2, k + 5)
      /\ IsHexAt(t, k + 2) => Hex(SubSeq(t, k + 2, k + 5)) = HexAt(t, k + 2)
  BY EscapeOfPiece
<1> HIDE DEF u
<1>2. Chars(u) = {x \in {Hex(From(u, 3))} : IsEscape(u) /\ x \div 2048 # 27}
  BY <1>1, CharsByLength DEF Coded
<1>3. IsEscape(u) => Hex(From(u, 3)) = HexAt(t, k + 2)
  BY <1>1 DEF EscapeAt
<1>4. CASE IsEscape(u)
  BY <1>1, <1>2, <1>3, <1>4 DEF u
<1>5. CASE ~IsEscape(u)
  BY <1>1, <1>2, <1>5 DEF u
<1> QED
  BY <1>4, <1>5

(* Two of them that are the halves of a pair.                              *)
PairAt(t, k) == /\ EscapeAt(t, k) /\ EscapeAt(t, k + 6)
                /\ HexAt(t, k + 2) \div 1024 = 54 /\ HexAt(t, k + 8) \div 1024 = 55
PairChar(t, k) == 65536 + (HexAt(t, k + 2) % 1024) * 1024 + (HexAt(t, k + 8) % 1024)

(* and two that are the halves of one.                                     *)
LEMMA CharsOfTwelve ==
    ASSUME NEW t \in Text, NEW k \in Int, 1 <= k, k + 11 <= Len(t), NEW c
    PROVE  c \in Chars(SubSeq(t, k, k + 11)) <=> PairAt(t, k) /\ c = PairChar(t, k)
<1> DEFINE u == SubSeq(t, k, k + 11)
<1>0. /\ k + 11 \in Int /\ k <= (k + 11) + 1 /\ (k + 11) - k + 1 = 12
      /\ k + 5 <= Len(t) /\ k + 6 \in Int /\ 1 <= k + 6 /\ (k + 6) + 5 <= Len(t)
      /\ (k + 6) + 5 = k + 11 /\ (k + 6) + 2 = k + 8
      /\ \A i \in {1, 3, 6, 7, 9, 12} : i \in Int /\ 1 <= i /\ i <= (k + 11) - k + 1
      /\ \A i, j \in {1, 3, 6, 7, 9, 12} : i < j => i <= j + 1
      /\ 1 < 6 /\ 3 < 6 /\ 7 < 12 /\ 9 < 12
      /\ k - 1 + 1 = k /\ k - 1 + 3 = k + 2 /\ k - 1 + 6 = k + 5
      /\ k - 1 + 7 = k + 6 /\ k - 1 + 9 = k + 8 /\ k - 1 + 12 = k + 11
  BY SMT, TextFacts
<1>1. Len(u) = 12
  <2>1. Len(u) = (k + 11) - k + 1
    BY <1>0, PieceOf
  <2> HIDE DEF u
  <2> QED
    BY <1>0, <2>1
<1>2. \A i, j \in {1, 3, 6, 7, 9, 12} : i < j => SubSeq(u, i, j) = SubSeq(t, k - 1 + i, k - 1 + j)
  BY <1>0, PieceOfPiece
<1> HIDE DEF u
<1>3. /\ SubSeq(u, 1, 6) = SubSeq(t, k, k + 5) /\ SubSeq(u, 3, 6) = SubSeq(t, k + 2, k + 5)
      /\ SubSeq(u, 7, 12) = SubSeq(t, k + 6, k + 11) /\ SubSeq(u, 9, 12) = SubSeq(t, k + 8, k + 11)
  <2>1. 1 < 6 => SubSeq(u, 1, 6) = SubSeq(t, k - 1 + 1, k - 1 + 6)
    BY <1>2, Zenon
  <2>2. 3 < 6 => SubSeq(u, 3, 6) = SubSeq(t, k - 1 + 3, k - 1 + 6)
    BY <1>2, Zenon
  <2>3. 7 < 12 => SubSeq(u, 7, 12) = SubSeq(t, k - 1 + 7, k - 1 + 12)
    BY <1>2, Zenon
  <2>4. 9 < 12 => SubSeq(u, 9, 12) = SubSeq(t, k - 1 + 9, k - 1 + 12)
    BY <1>2, Zenon
  <2> QED
    BY <1>0, <2>1, <2>2, <2>3, <2>4
<1>4. /\ IsEscape(SubSeq(t, k, k + 5)) <=> EscapeAt(t, k)
      /\ IsHexAt(t, k + 2) => Hex(SubSeq(t, k + 2, k + 5)) = HexAt(t, k + 2)
  BY <1>0, EscapeOfPiece
<1>5. /\ IsEscape(SubSeq(t, k + 6, k + 11)) <=> EscapeAt(t, k + 6)
      /\ IsHexAt(t, k + 8) => Hex(SubSeq(t, k + 8, k + 11)) = HexAt(t, k + 8)
  <2>1. /\ IsEscape(SubSeq(t, k + 6, (k + 6) + 5)) <=> EscapeAt(t, k + 6)
        /\ IsHexAt(t, (k + 6) + 2) => Hex(SubSeq(t, (k + 6) + 2, (k + 6) + 5)) = HexAt(t, (k + 6) + 2)
    BY <1>0, EscapeOfPiece
  <2> QED
    BY <1>0, <2>1
<1> DEFINE Escaped == EscapeAt(t, k) /\ EscapeAt(t, k + 6)
           High == HexAt(t, k + 2)
           Low  == HexAt(t, k + 8)
<1>6. Escaped => IsHexAt(t, k + 2) /\ IsHexAt(t, k + 8)
  BY <1>0 DEF EscapeAt
<1>7. /\ IsEscape(Upto(u, 6)) /\ IsEscape(From(u, 7)) <=> Escaped
      /\ Escaped => Hex(SubSeq(u, 3, 6)) = High /\ Hex(SubSeq(u, 9, 12)) = Low
  BY <1>1, <1>3, <1>4, <1>5, <1>6, Zenon DEF Upto, From
<1>8. Chars(u) = Paired(u)
  BY <1>1, CharsByLength
<1>9. CASE Escaped
  <2>1. Hex(SubSeq(u, 3, 6)) = High /\ Hex(SubSeq(u, 9, 12)) = Low
        /\ IsEscape(Upto(u, 6)) /\ IsEscape(From(u, 7))
    BY <1>7, <1>9
  <2>2. PairAt(t, k) <=> High \div 1024 = 54 /\ Low \div 1024 = 55
    BY <1>9 DEF PairAt
  <2>3. PairChar(t, k) = 65536 + (High % 1024) * 1024 + (Low % 1024)
    BY DEF PairChar
  <2> HIDE DEF High, Low
  <2>4. Paired(u) = {x \in {65536 + (High % 1024) * 1024 + (Low % 1024)} :
                        High \div 1024 = 54 /\ Low \div 1024 = 55}
    BY <2>1, SMT DEF Paired
  <2>5. Paired(u) = {x \in {PairChar(t, k)} : PairAt(t, k)}
    BY <2>2, <2>3, <2>4
  <2> QED
    BY <1>8, <2>5 DEF u
<1>10. CASE ~Escaped
  <2>1. Paired(u) = {}
    BY <1>7, <1>10 DEF Paired
  <2> QED
    BY <1>8, <1>10, <2>1 DEF PairAt, u
<1> QED
  BY <1>9, <1>10

(* The surrogates, and the code point that two of them make.               *)
LEMMA SurrogateFacts ==
    \A h \in Nat : /\ h \in HighSurrogates <=> h \div 1024 = 54
                   /\ h \in LowSurrogates <=> h \div 1024 = 55
                   /\ h \div 2048 = 27 <=> h \div 1024 = 54 \/ h \div 1024 = 55
                   /\ h \in HighSurrogates => h % 1024 = h - 55296 /\ h \notin LowSurrogates
                   /\ h \in LowSurrogates => h % 1024 = h - 56320
BY SMT DEF HighSurrogates, LowSurrogates

(* No code unit is both a high and a low surrogate.                        *)
LEMMA NotBothSurrogates == \A h \in HighSurrogates : h \notin LowSurrogates
<1>1. \A h \in HighSurrogates : h \in Int /\ h <= 56319
  BY SMT DEF HighSurrogates
<1>2. \A h \in LowSurrogates : 56320 <= h
  BY SMT DEF LowSurrogates
<1>3. \A h \in Int : h <= 56319 => ~(56320 <= h)
  BY SMT
<1> QED
  BY <1>1, <1>2, <1>3

(* What a \u escape is, p after the u: one code point, or a pair.          *)
OneAt(t, p) == /\ p + 3 <= Len(t) /\ IsHexAt(t, p)
               /\ HexAt(t, p) \notin HighSurrogates /\ HexAt(t, p) \notin LowSurrogates
TwoAt(t, p) == /\ p + 9 <= Len(t) /\ IsHexAt(t, p) /\ EscapeAt(t, p + 4)
               /\ HexAt(t, p) \in HighSurrogates /\ HexAt(t, p + 6) \in LowSurrogates

(* What the parser makes of a \u escape.                                   *)
LEMMA ParseUnicodeIs ==
    ASSUME NEW t \in Text, NEW p \in Int, 1 <= p
    PROVE  /\ OneAt(t, p) => ParseUnicode(t, p) = Found(p + 4, HexAt(t, p))
           /\ TwoAt(t, p) => ParseUnicode(t, p) = Found(p + 10, Joined(HexAt(t, p), HexAt(t, p + 6)))
           /\ ParseUnicode(t, p).ok => OneAt(t, p) \/ TwoAt(t, p)
<1> DEFINE R == ParseHex4(t, p)
           Q == ParseHex4(t, R.pos + 2)
<1>0. Len(t) \in Nat
  BY TextFacts
<1>1. /\ R.ok /\ R.val \notin LowSurrogates /\ R.val \notin HighSurrogates
         => ParseUnicode(t, p) = Found(R.pos, R.val)
      /\ /\ R.ok /\ R.val \notin LowSurrogates /\ R.val \in HighSurrogates
         /\ Peek(t, R.pos) = Backslash /\ Peek(t, R.pos + 1) = 117 /\ Q.ok /\ Q.val \in LowSurrogates
         => ParseUnicode(t, p) = Found(Q.pos, Joined(R.val, Q.val))
      /\ \/ /\ R.ok /\ R.val \notin LowSurrogates /\ R.val \notin HighSurrogates
         \/ /\ R.ok /\ R.val \notin LowSurrogates /\ R.val \in HighSurrogates
            /\ Peek(t, R.pos) = Backslash /\ Peek(t, R.pos + 1) = 117 /\ Q.ok /\ Q.val \in LowSurrogates
         \/ ParseUnicode(t, p) = Fail
  BY Zenon DEF ParseUnicode, Then
<1>2. R = IF p + 3 <= Len(t) /\ IsHexAt(t, p) THEN Found(p + 4, HexAt(t, p)) ELSE Fail
  BY ParseHex4Is
<1>3. R.ok => /\ p + 3 <= Len(t) /\ IsHexAt(t, p) /\ R.pos = p + 4 /\ R.val = HexAt(t, p)
              /\ Q = ParseHex4(t, (p + 4) + 2)
  <2> HIDE DEF R
  <2> SUFFICES ASSUME R.ok
               PROVE  p + 3 <= Len(t) /\ IsHexAt(t, p) /\ R.pos = p + 4 /\ R.val = HexAt(t, p)
    BY DEF Q
  <2>1. p + 3 <= Len(t) /\ IsHexAt(t, p) /\ R = Found(p + 4, HexAt(t, p))
    BY <1>2, FoundFacts, Zenon
  <2> QED
    BY <2>1, FoundFacts, Zenon
<1>4. (p + 4) + 2 = p + 6 /\ (p + 6) + 3 = p + 9 /\ (p + 6) + 4 = p + 10
      /\ (p + 4) + 1 = p + 5 /\ p + 6 \in Int /\ 1 <= p + 6
  BY SMT
<1>5. ParseHex4(t, p + 6) = IF p + 9 <= Len(t) /\ IsHexAt(t, p + 6)
                            THEN Found(p + 10, HexAt(t, p + 6)) ELSE Fail
  <2>1. ParseHex4(t, p + 6) = IF (p + 6) + 3 <= Len(t) /\ IsHexAt(t, p + 6)
                              THEN Found((p + 6) + 4, HexAt(t, p + 6)) ELSE Fail
    BY <1>4, ParseHex4Is
  <2> QED
    BY <1>4, <2>1
<1>6. ASSUME p + 9 <= Len(t) PROVE Peek(t, p + 4) = t[p + 4] /\ Peek(t, p + 5) = t[p + 5]
  <2>1. p + 4 \in 1..Len(t) /\ p + 5 \in 1..Len(t)
    BY SMT, <1>0, <1>6
  <2> QED
    BY <2>1, TextFacts
<1>7. ASSUME OneAt(t, p) PROVE ParseUnicode(t, p) = Found(p + 4, HexAt(t, p))
  <2>1. R = Found(p + 4, HexAt(t, p))
    BY <1>2, <1>7 DEF OneAt
  <2>2. R.ok /\ R.pos = p + 4 /\ R.val = HexAt(t, p)
    <3> HIDE DEF R
    <3> QED
      BY <2>1, FoundFacts, Zenon
  <2> HIDE DEF R, Q
  <2> QED
    BY <1>1, <1>7, <2>2 DEF OneAt
<1>8. ASSUME TwoAt(t, p)
      PROVE  ParseUnicode(t, p) = Found(p + 10, Joined(HexAt(t, p), HexAt(t, p + 6)))
  <2>1. p + 3 <= Len(t)
    BY SMT, <1>0, <1>8 DEF TwoAt
  <2>2. R = Found(p + 4, HexAt(t, p))
    BY <1>2, <1>8, <2>1 DEF TwoAt
  <2>3. R.ok /\ R.pos = p + 4 /\ R.val = HexAt(t, p)
    <3> HIDE DEF R
    <3> QED
      BY <2>2, FoundFacts, Zenon
  <2>4. IsHexAt(t, p + 6) /\ p + 9 <= Len(t)
    BY <1>4, <1>8 DEF TwoAt, EscapeAt
  <2>5. Q = Found(p + 10, HexAt(t, p + 6))
    BY <1>3, <1>4, <1>5, <2>3, <2>4
  <2>6. Q.ok /\ Q.pos = p + 10 /\ Q.val = HexAt(t, p + 6)
    <3> HIDE DEF Q
    <3> QED
      BY <2>5, FoundFacts, Zenon
  <2>7. Peek(t, p + 4) = Backslash /\ Peek(t, (p + 4) + 1) = 117
    BY <1>4, <1>6, <1>8, <2>4 DEF TwoAt, EscapeAt
  <2>8. HexAt(t, p) \notin LowSurrogates
    <3>1. HexAt(t, p) \in HighSurrogates
      BY <1>8 DEF TwoAt
    <3> QED
      BY <3>1, NotBothSurrogates
  <2> HIDE DEF R, Q
  <2> QED
    BY <1>1, <1>8, <2>3, <2>6, <2>7, <2>8, Zenon DEF TwoAt
<1>9. ASSUME ParseUnicode(t, p).ok PROVE OneAt(t, p) \/ TwoAt(t, p)
  <2>1. ParseUnicode(t, p) # Fail
    BY <1>9, FoundFacts
  <2>2. CASE R.ok /\ R.val \notin LowSurrogates /\ R.val \notin HighSurrogates
    <3> HIDE DEF R, Q
    <3> QED
      BY <1>3, <2>2 DEF OneAt
  <2>3. CASE /\ R.ok /\ R.val \notin LowSurrogates /\ R.val \in HighSurrogates
             /\ Peek(t, R.pos) = Backslash /\ Peek(t, R.pos + 1) = 117 /\ Q.ok /\ Q.val \in LowSurrogates
    <3>1. IsHexAt(t, p) /\ R.pos = p + 4 /\ R.val = HexAt(t, p) /\ Q = ParseHex4(t, p + 6)
      BY <1>3, <1>4, <2>3
    <3>2. p + 9 <= Len(t) /\ IsHexAt(t, p + 6) /\ Q = Found(p + 10, HexAt(t, p + 6))
      <4> HIDE DEF Q
      <4> QED
        BY <1>5, <2>3, <3>1, FoundFacts, Zenon
    <3>3. Q.val = HexAt(t, p + 6)
      <4> HIDE DEF Q
      <4> QED
        BY <3>2, FoundFacts, Zenon
    <3>4. t[p + 4] = Backslash /\ t[p + 5] = 117
      BY <1>4, <1>6, <2>3, <3>1, <3>2
    <3> HIDE DEF R, Q
    <3>5. EscapeAt(t, p + 4)
      BY <1>4, <3>2, <3>4 DEF EscapeAt
    <3> QED
      BY <2>3, <3>1, <3>2, <3>3, <3>5 DEF TwoAt
  <2> HIDE DEF R, Q
  <2> QED
    BY <1>1, <2>1, <2>2, <2>3, Zenon
<1> QED
  BY <1>7, <1>8, <1>9

(* One character, as the parser finds it and as the grammar has it.        *)
LEMMA CharFacts ==
    /\ Backslash # Quote /\ EndOfText # Backslash /\ EndOfText < 32 /\ EndOfText # Quote
    /\ EndOfText # 117 /\ EndOfText \notin DOMAIN Escapes /\ 117 \notin DOMAIN Escapes
<1>1. DOMAIN Escapes = {34, 92, 47, 98, 102, 110, 114, 116}
  BY Zenon DEF Escapes
<1>2. /\ Backslash # Quote /\ EndOfText # Backslash /\ EndOfText < 32 /\ EndOfText # Quote
      /\ EndOfText # 117
  BY SMT DEF Backslash, Quote, EndOfText
<1>3. EndOfText \notin {34, 92, 47, 98, 102, 110, 114, 116} /\ 117 \notin {34, 92, 47, 98, 102, 110, 114, 116}
  BY SMT DEF EndOfText
<1> QED
  BY <1>1, <1>2, <1>3

(* The grammar and the parser join two surrogates to the same code point.  *)
LEMMA PairJoined ==
    ASSUME NEW t, NEW k \in Int, HexAt(t, k + 2) \in Nat, HexAt(t, k + 8) \in Nat,
           HexAt(t, k + 2) \in HighSurrogates, HexAt(t, k + 8) \in LowSurrogates
    PROVE  PairChar(t, k) = Joined(HexAt(t, k + 2), HexAt(t, k + 8))
<1> DEFINE h == HexAt(t, k + 2)
           l == HexAt(t, k + 8)
<1>1. h % 1024 = h - 55296
  BY SurrogateFacts
<1>2. l % 1024 = l - 56320
  BY SurrogateFacts
<1>3. PairChar(t, k) = 65536 + (h % 1024) * 1024 + (l % 1024)
  BY DEF PairChar
<1>4. Joined(h, l) = 65536 + 1024 * (h - 55296) + (l - 56320)
  BY DEF Joined
<1>5. h \in Nat /\ l \in Nat
  OBVIOUS
<1> HIDE DEF h, l
<1>6. PairChar(t, k) = 65536 + (h - 55296) * 1024 + (l - 56320)
  BY <1>1, <1>2, <1>3
<1>7. PairChar(t, k) = Joined(h, l)
  BY <1>4, <1>5, <1>6, SMT
<1> QED
  BY <1>7 DEF h, l

(* The number of a \u escape is a natural number.                          *)
LEMMA HexOfEscape ==
    \A t \in Text, k \in Int : 1 <= k /\ k + 5 <= Len(t) /\ EscapeAt(t, k) => HexAt(t, k + 2) \in Nat
<1> SUFFICES ASSUME NEW t \in Text, NEW k \in Int, 1 <= k, k + 5 <= Len(t), EscapeAt(t, k)
             PROVE  HexAt(t, k + 2) \in Nat
  OBVIOUS
<1>1. IsHexAt(t, k + 2)
  BY DEF EscapeAt
<1> QED
  BY <1>1, EscapeOfPiece

(* A character of the grammar is taken by parse_string, at any place,      *)
(* whatever follows it.                                                    *)
LEMMA CharIsTaken ==
    ASSUME NEW t \in Text, NEW k \in 1..Len(t), NEW n \in {1, 2, 6, 12}, k + n - 1 <= Len(t),
           NEW c \in Chars(SubSeq(t, k, k + n - 1))
    PROVE  t[k] # Quote /\ ParseChar(t, k) = Found(k + n, c)
<1>0. /\ Len(t) \in Nat /\ k \in Int /\ 1 <= k /\ k \in Nat /\ Peek(t, k) = t[k] /\ t[k] \in Nat
      /\ k + 1 - 1 = k /\ k + 2 - 1 = k + 1 /\ k + 6 - 1 = k + 5 /\ k + 12 - 1 = k + 11
      /\ (k + 1) + 1 = k + 2 /\ (k + 2) + 4 = k + 6 /\ (k + 2) + 6 = k + 8 /\ (k + 2) + 10 = k + 12
      /\ (k + 2) + 3 = k + 5 /\ (k + 2) + 9 = k + 11 /\ k + 2 \in Int /\ 1 <= k + 2
  <2>1. Len(t) \in Nat /\ Peek(t, k) = t[k] /\ t[k] \in Nat
    BY TextFacts
  <2> QED
    BY SMT, <2>1
<1>1. CASE n = 1
  <2>1. c = t[k] /\ t[k] >= 32 /\ t[k] \notin {Quote, Backslash}
    BY <1>0, <1>1, CharsOfOne
  <2>2. ~(t[k] < 32)
    BY SMT, <1>0, <2>1
  <2> QED
    BY <1>0, <1>1, <2>1, <2>2 DEF ParseChar
<1>2. CASE n = 2
  <2>1. t[k] = Backslash /\ t[k + 1] \in DOMAIN Escapes /\ c = Escapes[t[k + 1]]
    BY <1>0, <1>2, CharsOfTwo
  <2>2. Peek(t, k + 1) = t[k + 1]
    <3>1. k + 1 \in 1..Len(t)
      BY SMT, <1>0, <1>2
    <3> QED
      BY <3>1, TextFacts
  <2>3. ParseChar(t, k) = ParseEscape(t, k + 1)
    BY <1>0, <2>1 DEF ParseChar
  <2>4. ParseEscape(t, k + 1) = Found((k + 1) + 1, c)
    BY <2>1, <2>2 DEF ParseEscape
  <2> QED
    BY <1>0, <1>2, <2>1, <2>3, <2>4, CharFacts
<1>3. ASSUME EscapeAt(t, k), k + 5 <= Len(t)
      PROVE  /\ t[k] # Quote /\ ParseChar(t, k) = ParseUnicode(t, k + 2)
             /\ HexAt(t, k + 2) \in Nat
  <2>1. t[k] = Backslash /\ t[k + 1] = 117 /\ IsHexAt(t, k + 2)
    BY <1>3 DEF EscapeAt
  <2>2. Peek(t, k + 1) = t[k + 1]
    <3>1. k + 1 \in 1..Len(t)
      BY SMT, <1>0, <1>3
    <3> QED
      BY <3>1, TextFacts
  <2>3. ParseChar(t, k) = ParseEscape(t, k + 1)
    BY <1>0, <2>1 DEF ParseChar
  <2>4. ParseEscape(t, k + 1) = ParseUnicode(t, (k + 1) + 1)
    BY <2>1, <2>2, CharFacts DEF ParseEscape
  <2>5. HexAt(t, k + 2) \in Nat
    BY <1>0, <1>3, <2>1, EscapeOfPiece
  <2> QED
    BY <1>0, <2>1, <2>3, <2>4, <2>5, CharFacts
<1>4. CASE n = 6
  <2>1. EscapeAt(t, k) /\ HexAt(t, k + 2) \div 2048 # 27 /\ c = HexAt(t, k + 2) /\ k + 5 <= Len(t)
    BY <1>0, <1>4, CharsOfSix
  <2>2. t[k] # Quote /\ ParseChar(t, k) = ParseUnicode(t, k + 2) /\ HexAt(t, k + 2) \in Nat
    BY <1>3, <2>1
  <2>3. HexAt(t, k + 2) \notin HighSurrogates /\ HexAt(t, k + 2) \notin LowSurrogates
    BY <2>1, <2>2, SurrogateFacts
  <2>4. OneAt(t, k + 2)
    BY <1>0, <2>1, <2>3 DEF OneAt, EscapeAt
  <2>5. ParseUnicode(t, k + 2) = Found((k + 2) + 4, HexAt(t, k + 2))
    BY <1>0, <2>4, ParseUnicodeIs
  <2> QED
    BY <1>0, <1>4, <2>1, <2>2, <2>5
<1>5. CASE n = 12
  <2>1. PairAt(t, k) /\ c = PairChar(t, k) /\ k + 11 <= Len(t)
    BY <1>0, <1>5, CharsOfTwelve
  <2>2. /\ EscapeAt(t, k) /\ EscapeAt(t, k + 6)
        /\ HexAt(t, k + 2) \div 1024 = 54 /\ HexAt(t, k + 8) \div 1024 = 55
    BY <2>1 DEF PairAt
  <2>3. k + 5 <= Len(t)
    BY SMT, <1>0, <2>1
  <2>4. t[k] # Quote /\ ParseChar(t, k) = ParseUnicode(t, k + 2) /\ HexAt(t, k + 2) \in Nat
    BY <1>3, <2>2, <2>3
  <2>5. HexAt(t, k + 8) \in Nat
    <3> DEFINE m == k + 6
    <3>1. m \in Int /\ 1 <= m /\ m + 5 <= Len(t) /\ m + 2 = k + 8 /\ EscapeAt(t, m)
      <4>1. m \in Int /\ 1 <= m /\ m + 5 <= Len(t) /\ m + 2 = k + 8
        BY SMT, <1>0, <2>1
      <4> QED
        BY <4>1, <2>2
    <3> HIDE DEF m
    <3>2. HexAt(t, m + 2) \in Nat
      BY <3>1, HexOfEscape, Zenon
    <3> QED
      BY <3>1, <3>2
  <2>6. HexAt(t, k + 2) \in HighSurrogates /\ HexAt(t, k + 8) \in LowSurrogates
    BY <2>2, <2>4, <2>5, SurrogateFacts
  <2>7. TwoAt(t, k + 2)
    BY <1>0, <2>1, <2>2, <2>6 DEF TwoAt, EscapeAt
  <2>8. ParseUnicode(t, k + 2) = Found((k + 2) + 10, Joined(HexAt(t, k + 2), HexAt(t, (k + 2) + 6)))
    BY <1>0, <2>7, ParseUnicodeIs
  <2>9. PairChar(t, k) = Joined(HexAt(t, k + 2), HexAt(t, k + 8))
    BY <1>0, <2>4, <2>5, <2>6, PairJoined
  <2> QED
    BY <1>0, <1>5, <2>1, <2>4, <2>8, <2>9
<1> QED
  BY <1>1, <1>2, <1>4, <1>5

(* There is no character at the end of the text.                           *)
LEMMA NoCharAtEnd == ASSUME NEW t \in Text PROVE ~ParseChar(t, Len(t) + 1).ok
<1>1. Peek(t, Len(t) + 1) = EndOfText
  <2>1. Len(t) + 1 \in Int /\ Len(t) + 1 > Len(t)
    BY SMT, TextFacts
  <2> QED
    BY <2>1, TextFacts
<1> QED
  BY <1>1, CharFacts, FoundFacts DEF ParseChar

(* What parse_string takes for a character is one of the grammar.          *)
LEMMA CharIsFound ==
    ASSUME NEW t \in Text, NEW k \in 1..Len(t), t[k] # Quote, ParseChar(t, k).ok
    PROVE  \E n \in {1, 2, 6, 12} : /\ k + n - 1 <= Len(t)
                                    /\ \E c \in Chars(SubSeq(t, k, k + n - 1)) :
                                          ParseChar(t, k) = Found(k + n, c)
<1>0. /\ Len(t) \in Nat /\ k \in Int /\ 1 <= k /\ k \in Nat /\ Peek(t, k) = t[k] /\ t[k] \in Nat
      /\ k <= Len(t)
      /\ k + 1 - 1 = k /\ k + 2 - 1 = k + 1 /\ k + 6 - 1 = k + 5 /\ k + 12 - 1 = k + 11
      /\ (k + 1) + 1 = k + 2 /\ (k + 2) + 4 = k + 6 /\ (k + 2) + 6 = k + 8 /\ (k + 2) + 10 = k + 12
      /\ (k + 2) + 3 = k + 5 /\ (k + 2) + 9 = k + 11 /\ k + 2 \in Int /\ 1 <= k + 2
      /\ 1 \in {1, 2, 6, 12} /\ 2 \in {1, 2, 6, 12} /\ 6 \in {1, 2, 6, 12} /\ 12 \in {1, 2, 6, 12}
  <2>1. Len(t) \in Nat /\ Peek(t, k) = t[k] /\ t[k] \in Nat
    BY TextFacts
  <2> QED
    BY SMT, <2>1
<1> DEFINE F(n, c) == /\ k + n - 1 <= Len(t) /\ c \in Chars(SubSeq(t, k, k + n - 1))
                      /\ ParseChar(t, k) = Found(k + n, c)
<1>1. CASE t[k] # Backslash
  <2>1. ~(t[k] < 32) /\ ParseChar(t, k) = Found(k + 1, t[k])
    BY <1>0, <1>1, FoundFacts DEF ParseChar
  <2>2. t[k] >= 32
    BY SMT, <1>0, <2>1
  <2>3. t[k] \in Chars(SubSeq(t, k, k))
    BY <1>1, <2>2, CharsOfOne
  <2>4. F(1, t[k])
    BY <1>0, <2>1, <2>3
  <2> HIDE DEF F
  <2> QED
    BY <1>0, <2>4 DEF F
<1>2. CASE t[k] = Backslash
  <2>1. ParseChar(t, k) = ParseEscape(t, k + 1)
    BY <1>0, <1>2 DEF ParseChar
  <2>2. CASE Peek(t, k + 1) \in DOMAIN Escapes
    <3>1. k + 1 <= Len(t) /\ t[k + 1] \in DOMAIN Escapes
      BY <2>2, CharFacts DEF Peek
    <3>2. ParseEscape(t, k + 1) = Found((k + 1) + 1, Escapes[t[k + 1]])
      BY <2>2 DEF ParseEscape
    <3>3. Escapes[t[k + 1]] \in Chars(SubSeq(t, k, k + 1))
      BY <1>0, <1>2, <3>1, CharsOfTwo
    <3>4. F(2, Escapes[t[k + 1]])
      BY <1>0, <2>1, <3>1, <3>2, <3>3
    <3> HIDE DEF F
    <3> QED
      BY <1>0, <3>4 DEF F
  <2>3. CASE Peek(t, k + 1) \notin DOMAIN Escapes
    <3>1. Peek(t, k + 1) = 117 /\ ParseEscape(t, k + 1) = ParseUnicode(t, (k + 1) + 1)
      BY <2>1, <2>3, FoundFacts DEF ParseEscape
    <3>2. t[k + 1] = 117
      BY <3>1, CharFacts DEF Peek
    <3>3. ParseChar(t, k) = ParseUnicode(t, k + 2)
      BY <1>0, <2>1, <3>1
    <3>4. CASE OneAt(t, k + 2)
      <4>1. k + 5 <= Len(t) /\ EscapeAt(t, k)
        BY <1>0, <1>2, <3>2, <3>4 DEF OneAt, EscapeAt
      <4>2. HexAt(t, k + 2) \in Nat
        BY <1>0, <4>1, EscapeOfPiece DEF EscapeAt
      <4>3. HexAt(t, k + 2) \div 2048 # 27
        BY <3>4, <4>2, SurrogateFacts DEF OneAt
      <4>4. HexAt(t, k + 2) \in Chars(SubSeq(t, k, k + 5))
        BY <1>0, <4>1, <4>3, CharsOfSix
      <4>5. ParseUnicode(t, k + 2) = Found((k + 2) + 4, HexAt(t, k + 2))
        BY <1>0, <3>4, ParseUnicodeIs
      <4>6. F(6, HexAt(t, k + 2))
        BY <1>0, <3>3, <4>1, <4>4, <4>5
      <4> HIDE DEF F
      <4> QED
        BY <1>0, <4>6 DEF F
    <3>5. CASE TwoAt(t, k + 2)
      <4>1. /\ k + 11 <= Len(t) /\ EscapeAt(t, k) /\ EscapeAt(t, k + 6)
            /\ HexAt(t, k + 2) \in HighSurrogates /\ HexAt(t, k + 8) \in LowSurrogates
        BY <1>0, <1>2, <3>2, <3>5 DEF TwoAt, EscapeAt
      <4>2. HexAt(t, k + 2) \in Nat
        <5>1. k + 5 <= Len(t)
          BY SMT, <1>0, <4>1
        <5> QED
          BY <1>0, <4>1, <5>1, EscapeOfPiece DEF EscapeAt
      <4>3. HexAt(t, k + 8) \in Nat
        <5> DEFINE m == k + 6
        <5>1. m \in Int /\ 1 <= m /\ m + 5 <= Len(t) /\ m + 2 = k + 8 /\ EscapeAt(t, m)
          <6>1. m \in Int /\ 1 <= m /\ m + 5 <= Len(t) /\ m + 2 = k + 8
            BY SMT, <1>0, <4>1
          <6> QED
            BY <6>1, <4>1
        <5> HIDE DEF m
        <5>2. HexAt(t, m + 2) \in Nat
          BY <5>1, HexOfEscape, Zenon
        <5> QED
          BY <5>1, <5>2
      <4>4. PairAt(t, k)
        BY <4>1, <4>2, <4>3, SurrogateFacts DEF PairAt
      <4>5. PairChar(t, k) \in Chars(SubSeq(t, k, k + 11))
        BY <1>0, <4>1, <4>4, CharsOfTwelve
      <4>6. ParseUnicode(t, k + 2) = Found((k + 2) + 10, Joined(HexAt(t, k + 2), HexAt(t, (k + 2) + 6)))
        BY <1>0, <3>5, ParseUnicodeIs
      <4>7. PairChar(t, k) = Joined(HexAt(t, k + 2), HexAt(t, k + 8))
        BY <1>0, <4>1, <4>2, <4>3, PairJoined
      <4>8. F(12, PairChar(t, k))
        BY <1>0, <3>3, <4>1, <4>5, <4>6, <4>7
      <4> HIDE DEF F
      <4> QED
        BY <1>0, <4>8 DEF F
    <3>6. OneAt(t, k + 2) \/ TwoAt(t, k + 2)
      BY <1>0, <3>3, ParseUnicodeIs
    <3> QED
      BY <3>4, <3>5, <3>6
  <2> QED
    BY <2>2, <2>3
<1> QED
  BY <1>1, <1>2

(* The function that ParseString defines for itself is there: the places   *)
(* of a text can be done from the last one back, as what is found from one *)
(* on depends on later ones only.                                          *)
CharsStep(t, f, q) ==
    IF Peek(t, q) = Quote THEN Found(q + 1, <<>>)
    ELSE IF ParseChar(t, q).ok
    THEN IF f[ParseChar(t, q).pos].ok
         THEN Found(f[ParseChar(t, q).pos].pos,
                    <<ParseChar(t, q).val>> \o f[ParseChar(t, q).pos].val)
         ELSE Fail
    ELSE Fail
CharsFrom(t, m, f) == f = [q \in m..Len(t) + 1 |-> CharsStep(t, f, q)]
CharsOf(t) == CHOOSE f : CharsFrom(t, 1, f)

(* parse_string by that function.                                          *)
LEMMA ParseStringIs ==
    ASSUME NEW t, NEW p
    PROVE  ParseString(t, p) = IF Peek(t, p) = Quote THEN CharsOf(t)[p + 1] ELSE Fail
BY Zenon DEF ParseString, Then, CharsOf, CharsFrom, CharsStep

(* A character takes a place or more, and ends in the text.                *)
LEMMA NextChar ==
    ASSUME NEW t \in Text, NEW q \in 1..Len(t) + 1, Peek(t, q) # Quote, ParseChar(t, q).ok
    PROVE  ParseChar(t, q).pos \in q + 1..Len(t) + 1
<1>1. q # Len(t) + 1
  BY NoCharAtEnd
<1>2. q \in 1..Len(t)
  BY SMT, <1>1, TextFacts
<1>3. PICK n \in {1, 2, 6, 12} : /\ q + n - 1 <= Len(t)
                                 /\ \E c \in Chars(SubSeq(t, q, q + n - 1)) :
                                       ParseChar(t, q) = Found(q + n, c)
  BY <1>2, CharIsFound, TextFacts
<1>4. ParseChar(t, q).pos = q + n
  <2>1. PICK c : ParseChar(t, q) = Found(q + n, c)
    BY <1>3, Zenon
  <2>2. Found(q + n, c).pos = q + n
    BY FoundFacts
  <2> QED
    BY <2>1, <2>2, Zenon
<1>5. q + n \in q + 1..Len(t) + 1
  BY SMT, <1>2, <1>3, TextFacts
<1> QED
  BY <1>4, <1>5

(* What is found from a place on depends on later places only.             *)
LEMMA CharsStepLater ==
    ASSUME NEW t \in Text, NEW q \in 1..Len(t) + 1, NEW f, NEW h,
           \A x \in q + 1..Len(t) + 1 : f[x] = h[x]
    PROVE  CharsStep(t, f, q) = CharsStep(t, h, q)
<1>1. CASE Peek(t, q) # Quote /\ ParseChar(t, q).ok
  <2>1. f[ParseChar(t, q).pos] = h[ParseChar(t, q).pos]
    BY <1>1, NextChar, Zenon
  <2> QED
    BY <1>1, <2>1, Zenon DEF CharsStep
<1>2. CASE ~(Peek(t, q) # Quote /\ ParseChar(t, q).ok)
  BY <1>2, Zenon DEF CharsStep
<1> QED
  BY <1>1, <1>2

(* The function is one that its definition describes, at every place.      *)
LEMMA CharsOfIs ==
    ASSUME NEW t \in Text
    PROVE  \A q \in 1..Len(t) + 1 : CharsOf(t)[q] = CharsStep(t, CharsOf(t), q)
<1> DEFINE Last == Len(t) + 1
           Bad  == {d \in 0..Last : ~\E f : CharsFrom(t, Last + 1 - d, f)}
<1>0. Len(t) \in Nat /\ Last \in Nat
  BY SMT, TextFacts
<1>1. Bad = {}
  <2> SUFFICES ASSUME Bad # {} PROVE FALSE
    OBVIOUS
  <2>1. Bad \subseteq Nat
    BY SMT, <1>0
  <2>2. PICK d \in Bad : \A y \in Bad : d <= y
    BY <2>1, Smallest
  <2> DEFINE m == Last + 1 - d
  <2>3. d \in 0..Last /\ ~\E f : CharsFrom(t, m, f)
    BY <2>2
  <2>4. CASE d = 0
    <3>1. \A q : q \notin m..Len(t) + 1
      BY SMT, <1>0, <2>4
    <3> DEFINE h == [q \in m..Len(t) + 1 |-> 0]
    <3> HIDE DEF m
    <3>2. h = [q \in m..Len(t) + 1 |-> CharsStep(t, h, q)]
      BY <3>1, Zenon
    <3>3. CharsFrom(t, m, h)
      BY <3>2, Zenon DEF CharsFrom
    <3> QED
      BY <2>3, <3>3, Zenon DEF m
  <2>5. CASE d # 0
    <3>1. d - 1 \in 0..Last /\ ~(d <= d - 1) /\ Last + 1 - (d - 1) = m + 1
          /\ m \in 1..Len(t) + 1 /\ m \in m..Len(t) + 1 /\ m \in Nat
      BY SMT, <1>0, <2>3, <2>5
    <3>2. d - 1 \notin Bad
      BY <2>2, <3>1
    <3>3. PICK g : CharsFrom(t, m + 1, g)
      <4>1. \E g : CharsFrom(t, Last + 1 - (d - 1), g)
        BY <3>1, <3>2
      <4> QED
        BY <3>1, <4>1
    <3> DEFINE h == [q \in m..Len(t) + 1 |-> IF q = m THEN CharsStep(t, g, m) ELSE g[q]]
    <3>4. \A q \in m..Len(t) + 1 : /\ q \in 1..Len(t) + 1
                                   /\ q # m => q \in m + 1..Len(t) + 1
                                   /\ \A x \in q + 1..Len(t) + 1 : x \in m..Len(t) + 1 /\ x # m
      BY SMT, <1>0, <3>1
    <3> HIDE DEF m
    <3>5. \A q \in m + 1..Len(t) + 1 : g[q] = CharsStep(t, g, q)
      BY <3>3, Zenon DEF CharsFrom
    <3>6. ASSUME NEW q \in m..Len(t) + 1
          PROVE  CharsStep(t, g, q) = CharsStep(t, h, q)
      <4>1. \A x \in q + 1..Len(t) + 1 : g[x] = h[x]
        BY <3>4, Zenon
      <4>2. q \in 1..Len(t) + 1
        BY <3>4
      <4> HIDE DEF h
      <4> QED
        BY <4>1, <4>2, CharsStepLater
    <3>7. ASSUME NEW q \in m..Len(t) + 1
          PROVE  h[q] = CharsStep(t, h, q)
      <4>1. h[q] = IF q = m THEN CharsStep(t, g, m) ELSE g[q]
        BY Zenon
      <4>2. h[q] = CharsStep(t, g, q)
        <5> HIDE DEF h
        <5> QED
          BY <3>4, <3>5, <4>1, Zenon
      <4> HIDE DEF h
      <4> QED
        BY <3>6, <4>2
    <3>8. h = [q \in m..Len(t) + 1 |-> h[q]]
      BY Zenon
    <3>9. h = [q \in m..Len(t) + 1 |-> CharsStep(t, h, q)]
      <4> HIDE DEF h
      <4> QED
        BY <3>7, <3>8, Zenon
    <3>10. CharsFrom(t, m, h)
      <4> HIDE DEF h
      <4> QED
        BY <3>9, Zenon DEF CharsFrom
    <3> QED
      BY <2>3, <3>10, Zenon DEF m
  <2> QED
    BY <2>4, <2>5
<1>2. \E f : CharsFrom(t, 1, f)
  <2>1. Last \in 0..Last /\ Last + 1 - Last = 1
    BY SMT, <1>0
  <2>2. \E f : CharsFrom(t, Last + 1 - Last, f)
    BY <1>1, <2>1, Zenon
  <2> QED
    BY <2>1, <2>2
<1>3. CharsFrom(t, 1, CharsOf(t))
  BY <1>2, Zenon DEF CharsOf
<1> DEFINE f == CharsOf(t)
<1>4. f = [q \in 1..Len(t) + 1 |-> CharsStep(t, f, q)]
  BY <1>3 DEF CharsFrom
<1> HIDE DEF f
<1>5. \A q \in 1..Len(t) + 1 : f[q] = CharsStep(t, f, q)
  BY <1>4, Zenon
<1> QED
  BY <1>5 DEF f

(* And so is the function that Strings defines for itself.                 *)
BodiesStep(u, f, k) ==
    IF k = Len(u) THEN {<<>>}
    ELSE UNION {Prefixed(Chars(SubSeq(u, k, k + n - 1)), f[k + n]) :
                   n \in {x \in {1, 2, 6, 12} : k + x <= Len(u)}}
BodiesFrom(u, m, f) == f = [k \in m..Len(u) |-> BodiesStep(u, f, k)]
BodiesOf(u) == CHOOSE f : BodiesFrom(u, 1, f)

(* Strings by that function.                                               *)
LEMMA StringsIs ==
    ASSUME NEW u
    PROVE  Strings(u) = IF Enclosed(u, Quote, Quote) THEN BodiesOf(u)[2] ELSE {}
BY Zenon DEF Strings, BodiesOf, BodiesFrom, BodiesStep

(* A character before a reading.                                          *)
After(c, r) == <<c>> \o r

(* What is in the sets of the readings, as a formula.                      *)
LEMMA InPrefixed ==
    \A C, S, s : s \in Prefixed(C, S) <=> \E c \in C : \E r \in S : s = After(c, r)
BY SMT DEF Prefixed, After

InBody(u, f, k, s) ==
    IF k = Len(u) THEN s = <<>>
    ELSE \E n \in {1, 2, 6, 12} : /\ k + n <= Len(u)
                                  /\ \E c \in Chars(SubSeq(u, k, k + n - 1)) :
                                        \E r \in f[k + n] : s = After(c, r)

(* The same of the readings of a place.                                    *)
LEMMA InBodies == \A u, f, k, s : s \in BodiesStep(u, f, k) <=> InBody(u, f, k, s)
<1> SUFFICES ASSUME NEW u, NEW f, NEW k, NEW s
             PROVE  s \in BodiesStep(u, f, k) <=> InBody(u, f, k, s)
  OBVIOUS
<1> DEFINE Sizes == {1, 2, 6, 12}
           C(n) == Chars(SubSeq(u, k, k + n - 1))
           R(n) == Prefixed(C(n), f[k + n])
           N    == {x \in Sizes : k + x <= Len(u)}
<1>1. CASE k = Len(u)
  BY <1>1, Zenon DEF BodiesStep, InBody
<1>2. CASE k # Len(u)
  <2>1. BodiesStep(u, f, k) = UNION {R(n) : n \in N}
    BY <1>2, Zenon DEF BodiesStep
  <2>2. \A n : s \in R(n) <=> \E c \in C(n) : \E r \in f[k + n] : s = After(c, r)
    <3> HIDE DEF C
    <3> QED
      BY InPrefixed
  <2>3. \A n : n \in N <=> n \in Sizes /\ k + n <= Len(u)
    <3> HIDE DEF Sizes
    <3> QED
      BY Zenon
  <2> HIDE DEF N, R
  <2>4. s \in BodiesStep(u, f, k) <=> \E n \in N : s \in R(n)
    BY <2>1, Zenon
  <2> HIDE DEF Sizes, C
  <2>5. s \in BodiesStep(u, f, k)
        <=> \E n \in Sizes : k + n <= Len(u) /\ \E c \in C(n) : \E r \in f[k + n] : s = After(c, r)
    BY <2>2, <2>3, <2>4, Zenon
  <2> QED
    BY <1>2, <2>5, Zenon DEF Sizes, C, InBody
<1> QED
  BY <1>1, <1>2

(* The readings from a place on depend on later places only.               *)
LEMMA BodiesStepLater ==
    ASSUME NEW u \in Text, NEW k \in 1..Len(u), NEW f, NEW h,
           \A x \in k + 1..Len(u) : f[x] = h[x]
    PROVE  BodiesStep(u, f, k) = BodiesStep(u, h, k)
<1>1. \A n \in {1, 2, 6, 12} : k + n <= Len(u) => f[k + n] = h[k + n]
  <2> SUFFICES ASSUME NEW n \in {1, 2, 6, 12}, k + n <= Len(u) PROVE f[k + n] = h[k + n]
    OBVIOUS
  <2>1. k + n \in k + 1..Len(u)
    BY SMT, TextFacts
  <2> QED
    BY <2>1
<1> DEFINE N       == {x \in {1, 2, 6, 12} : k + x <= Len(u)}
           Q(g, n) == Prefixed(Chars(SubSeq(u, k, k + n - 1)), g[k + n])
<1>2. \A n \in N : Q(f, n) = Q(h, n)
  BY <1>1, Zenon
<1>3. \A g : BodiesStep(u, g, k) = IF k = Len(u) THEN {<<>>} ELSE UNION {Q(g, n) : n \in N}
  BY Zenon DEF BodiesStep
<1> HIDE DEF N, Q
<1>4. {Q(f, n) : n \in N} = {Q(h, n) : n \in N}
  BY <1>2, Zenon
<1> QED
  BY <1>3, <1>4, Zenon

(* The function is one that its definition describes, at every place.      *)
LEMMA BodiesOfIs ==
    ASSUME NEW u \in Text
    PROVE  \A k \in 1..Len(u) : BodiesOf(u)[k] = BodiesStep(u, BodiesOf(u), k)
<1> DEFINE Last == Len(u)
           Bad  == {d \in 0..Last : ~\E f : BodiesFrom(u, Last + 1 - d, f)}
<1>0. Len(u) \in Nat /\ Last \in Nat
  BY SMT, TextFacts
<1>1. Bad = {}
  <2> SUFFICES ASSUME Bad # {} PROVE FALSE
    OBVIOUS
  <2>1. Bad \subseteq Nat
    BY SMT, <1>0
  <2>2. PICK d \in Bad : \A y \in Bad : d <= y
    BY <2>1, Smallest
  <2> DEFINE m == Last + 1 - d
  <2>3. d \in 0..Last /\ ~\E f : BodiesFrom(u, m, f)
    BY <2>2
  <2>4. CASE d = 0
    <3>1. \A k : k \notin m..Len(u)
      BY SMT, <1>0, <2>4
    <3> DEFINE h == [k \in m..Len(u) |-> 0]
    <3> HIDE DEF m
    <3>2. h = [k \in m..Len(u) |-> BodiesStep(u, h, k)]
      BY <3>1, Zenon
    <3>3. BodiesFrom(u, m, h)
      BY <3>2, Zenon DEF BodiesFrom
    <3> QED
      BY <2>3, <3>3, Zenon DEF m
  <2>5. CASE d # 0
    <3>1. d - 1 \in 0..Last /\ ~(d <= d - 1) /\ Last + 1 - (d - 1) = m + 1
          /\ m \in 1..Len(u) /\ m \in m..Len(u) /\ m \in Nat
      BY SMT, <1>0, <2>3, <2>5
    <3>2. d - 1 \notin Bad
      BY <2>2, <3>1
    <3>3. PICK g : BodiesFrom(u, m + 1, g)
      <4>1. \E g : BodiesFrom(u, Last + 1 - (d - 1), g)
        BY <3>1, <3>2
      <4> QED
        BY <3>1, <4>1
    <3> DEFINE h == [k \in m..Len(u) |-> IF k = m THEN BodiesStep(u, g, m) ELSE g[k]]
    <3>4. \A k \in m..Len(u) : /\ k \in 1..Len(u)
                               /\ k # m => k \in m + 1..Len(u)
                               /\ \A x \in k + 1..Len(u) : x \in m..Len(u) /\ x # m
      BY SMT, <1>0, <3>1
    <3> HIDE DEF m
    <3>5. \A k \in m + 1..Len(u) : g[k] = BodiesStep(u, g, k)
      BY <3>3, Zenon DEF BodiesFrom
    <3>6. ASSUME NEW k \in m..Len(u)
          PROVE  BodiesStep(u, g, k) = BodiesStep(u, h, k)
      <4>1. \A x \in k + 1..Len(u) : g[x] = h[x]
        BY <3>4, Zenon
      <4>2. k \in 1..Len(u)
        BY <3>4
      <4> HIDE DEF h
      <4> QED
        BY <4>1, <4>2, BodiesStepLater
    <3>7. ASSUME NEW k \in m..Len(u)
          PROVE  h[k] = BodiesStep(u, h, k)
      <4>1. h[k] = IF k = m THEN BodiesStep(u, g, m) ELSE g[k]
        BY Zenon
      <4>2. h[k] = BodiesStep(u, g, k)
        <5> HIDE DEF h
        <5> QED
          BY <3>4, <3>5, <4>1, Zenon
      <4> HIDE DEF h
      <4> QED
        BY <3>6, <4>2
    <3>8. h = [k \in m..Len(u) |-> h[k]]
      BY Zenon
    <3>9. h = [k \in m..Len(u) |-> BodiesStep(u, h, k)]
      <4> HIDE DEF h
      <4> QED
        BY <3>7, <3>8, Zenon
    <3>10. BodiesFrom(u, m, h)
      <4> HIDE DEF h
      <4> QED
        BY <3>9, Zenon DEF BodiesFrom
    <3> QED
      BY <2>3, <3>10, Zenon DEF m
  <2> QED
    BY <2>4, <2>5
<1>2. \E f : BodiesFrom(u, 1, f)
  <2>1. Last \in 0..Last /\ Last + 1 - Last = 1
    BY SMT, <1>0
  <2>2. \E f : BodiesFrom(u, Last + 1 - Last, f)
    BY <1>1, <2>1, Zenon
  <2> QED
    BY <2>1, <2>2
<1>3. BodiesFrom(u, 1, BodiesOf(u))
  BY <1>2, Zenon DEF BodiesOf
<1> DEFINE f == BodiesOf(u)
<1>4. f = [k \in 1..Len(u) |-> BodiesStep(u, f, k)]
  BY <1>3 DEF BodiesFrom
<1> HIDE DEF f
<1>5. \A k \in 1..Len(u) : f[k] = BodiesStep(u, f, k)
  BY <1>4, Zenon
<1> QED
  BY <1>5 DEF f

(* The readings of a piece p..q of the text, from its place k on.          *)
BodyAt(t, p, q, k) == BodiesOf(SubSeq(t, p, q))[k - p + 1]

(* A reading from a place on is empty before the closing quote, and        *)
(* elsewhere a character and a reading from after it on.                   *)
LEMMA BodyAtIs ==
    ASSUME NEW t \in Text, NEW p \in 1..Len(t), NEW q \in p..Len(t), NEW k \in p..q, NEW s
    PROVE  s \in BodyAt(t, p, q, k)
           <=> IF k = q THEN s = <<>>
               ELSE \E n \in {1, 2, 6, 12} : /\ k + n <= q
                                             /\ \E c \in Chars(SubSeq(t, k, k + n - 1)) :
                                                   \E r \in BodyAt(t, p, q, k + n) : s = After(c, r)
<1> DEFINE u == SubSeq(t, p, q)
           i == k - p + 1
           f == BodiesOf(u)
<1>0. /\ Len(t) \in Nat /\ p \in Int /\ q \in Int /\ k \in Int /\ 1 <= p /\ p <= q + 1 /\ q <= Len(t)
      /\ p <= k /\ k <= q
  <2>1. Len(t) \in Nat
    BY TextFacts
  <2> QED
    BY SMT, <2>1
<1>1. u \in Text /\ Len(u) = q - p + 1
  BY <1>0, PieceOf
<1> HIDE DEF u
<1>2. i \in 1..Len(u) /\ (i = Len(u) <=> k = q)
  BY SMT, <1>0, <1>1
<1>3. f[i] = BodiesStep(u, f, i)
  BY <1>1, <1>2, BodiesOfIs
<1>4. ASSUME NEW n \in {1, 2, 6, 12}
      PROVE  /\ i + n <= Len(u) <=> k + n <= q
             /\ i + n = (k + n) - p + 1
             /\ k + n <= q => SubSeq(u, i, i + n - 1) = SubSeq(t, k, k + n - 1)
  <2>1. i + n <= Len(u) <=> k + n <= q
    BY SMT, <1>0, <1>1
  <2>2. i + n = (k + n) - p + 1
    BY SMT, <1>0
  <2>3. ASSUME k + n <= q PROVE SubSeq(u, i, i + n - 1) = SubSeq(t, k, k + n - 1)
    <3>1. /\ i \in Int /\ i + n - 1 \in Int /\ 1 <= i /\ i <= (i + n - 1) + 1
          /\ i + n - 1 <= q - p + 1 /\ p - 1 + i = k /\ p - 1 + (i + n - 1) = k + n - 1
      BY SMT, <1>0, <2>3
    <3> HIDE DEF i
    <3>2. SubSeq(u, i, i + n - 1) = SubSeq(t, p - 1 + i, p - 1 + (i + n - 1))
      BY <1>0, <3>1, PieceOfPiece DEF u
    <3> QED
      BY <3>1, <3>2
  <2> QED
    BY <2>1, <2>2, <2>3
<1>5. s \in f[i]
      <=> IF k = q THEN s = <<>>
          ELSE \E n \in {1, 2, 6, 12} : /\ i + n <= Len(u)
                                        /\ \E c \in Chars(SubSeq(u, i, i + n - 1)) :
                                              \E r \in f[i + n] : s = After(c, r)
  <2> HIDE DEF f, i
  <2>1. s \in BodiesStep(u, f, i) <=> InBody(u, f, i, s)
    BY InBodies, Zenon
  <2> QED
    BY <1>2, <1>3, <2>1, Zenon DEF InBody
<1>6. \A n \in {1, 2, 6, 12} : f[i + n] = BodyAt(t, p, q, k + n)
  BY <1>4, Zenon DEF BodyAt, u
<1>7. f[i] = BodyAt(t, p, q, k)
  BY Zenon DEF BodyAt, u
<1> HIDE DEF f, i
<1> QED
  BY <1>4, <1>5, <1>6, <1>7, Zenon

(* One character and then the rest.                                        *)
LEMMA CharThenRest ==
    ASSUME NEW t \in Text, NEW k \in 1..Len(t) + 1, Peek(t, k) # Quote,
           NEW x, NEW c, ParseChar(t, k) = Found(x, c)
    PROVE  /\ CharsOf(t)[k].ok => CharsOf(t)[x].ok
           /\ \A e, r : CharsOf(t)[x] = Found(e, r) => CharsOf(t)[k] = Found(e, After(c, r))
<1> DEFINE f == CharsOf(t)
<1>1. f[k] = CharsStep(t, f, k)
  BY CharsOfIs
<1> HIDE DEF f
<1>2. ParseChar(t, k).ok /\ ParseChar(t, k).pos = x /\ ParseChar(t, k).val = c
  <2>1. Found(x, c).ok /\ Found(x, c).pos = x /\ Found(x, c).val = c
    BY FoundFacts
  <2> QED
    BY <2>1, Zenon
<1>3. f[k] = IF f[x].ok THEN Found(f[x].pos, After(c, f[x].val)) ELSE Fail
  BY <1>1, <1>2, Zenon DEF CharsStep, After
<1>4. f[k].ok => f[x].ok
  BY <1>3, FoundFacts, Zenon
<1>5. ASSUME NEW e, NEW r, f[x] = Found(e, r) PROVE f[k] = Found(e, After(c, r))
  <2>1. Found(e, r).ok /\ Found(e, r).pos = e /\ Found(e, r).val = r
    BY FoundFacts
  <2>2. f[x].ok /\ f[x].pos = e /\ f[x].val = r
    BY <1>5, <2>1, Zenon
  <2> QED
    BY <1>3, <2>2, Zenon
<1> QED
  BY <1>4, <1>5 DEF f

(* What the grammar reads up to a quote, the parser finds; there would be  *)
(* a last place where it does not.                                         *)
LEMMA BodyIsTaken ==
    ASSUME NEW t \in Text, NEW p \in 1..Len(t), NEW q \in p + 1..Len(t), t[q] = Quote
    PROVE  \A k \in p + 1..q : \A s \in BodyAt(t, p, q, k) : CharsOf(t)[k] = Found(q + 1, s)
<1> DEFINE f      == CharsOf(t)
           Bad    == {k \in p + 1..q : \E s \in BodyAt(t, p, q, k) : f[k] # Found(q + 1, s)}
<1>0. Len(t) \in Nat /\ p \in Nat /\ q \in Nat /\ 1 <= p /\ p < q /\ q <= Len(t)
  <2>1. Len(t) \in Nat
    BY TextFacts
  <2> QED
    BY SMT, <2>1
<1>1. SUFFICES ASSUME Bad # {} PROVE FALSE
  OBVIOUS
<1>2. Bad \subseteq 0..q
  BY SMT, <1>0
<1>3. PICK k \in Bad : \A y \in Bad : y <= k
  BY <1>0, <1>1, <1>2, Largest
<1>4. PICK s \in BodyAt(t, p, q, k) : f[k] # Found(q + 1, s)
  BY <1>3
<1>5. k \in p + 1..q
  BY <1>3
<1>6. /\ k \in 1..Len(t) /\ k \in 1..Len(t) + 1 /\ k \in p..q /\ q \in p..Len(t)
  BY SMT, <1>0, <1>5
<1>7. Peek(t, k) = t[k]
  BY <1>6, TextFacts
<1>8. CASE k = q
  <2>1. s = <<>>
    BY <1>4, <1>6, <1>8, BodyAtIs
  <2>2. f[k] = CharsStep(t, f, k)
    BY <1>6, CharsOfIs
  <2>3. f[k] = Found(q + 1, <<>>)
    <3> HIDE DEF f
    <3> QED
      BY <1>7, <1>8, <2>2, Zenon DEF CharsStep
  <2> QED
    BY <1>4, <2>1, <2>3
<1>9. CASE k # q
  <2>1. PICK n \in {1, 2, 6, 12} : /\ k + n <= q
                                   /\ \E c \in Chars(SubSeq(t, k, k + n - 1)) :
                                         \E r \in BodyAt(t, p, q, k + n) : s = After(c, r)
    BY <1>4, <1>6, <1>9, BodyAtIs
  <2>2. PICK c \in Chars(SubSeq(t, k, k + n - 1)), r \in BodyAt(t, p, q, k + n) : s = After(c, r)
    BY <2>1
  <2>3. k + n - 1 <= Len(t) /\ k + n \in p + 1..q /\ ~(k + n <= k)
    BY SMT, <1>0, <1>5, <2>1
  <2>4. t[k] # Quote /\ ParseChar(t, k) = Found(k + n, c)
    <3>1. \A m \in {1, 2, 6, 12} : k + m - 1 <= Len(t) =>
             \A d \in Chars(SubSeq(t, k, k + m - 1)) : t[k] # Quote /\ ParseChar(t, k) = Found(k + m, d)
      BY <1>6, CharIsTaken
    <3> QED
      BY <2>3, <3>1, Zenon
  <2>5. f[k + n] = Found(q + 1, r)
    <3>1. k + n \notin Bad
      BY <1>3, <2>3
    <3> QED
      BY <2>3, <3>1
  <2>6. f[k] = Found(q + 1, s)
    BY <1>6, <1>7, <2>2, <2>4, <2>5, CharThenRest
  <2> QED
    BY <1>4, <2>6
<1> QED
  BY <1>8, <1>9

(* What the parser finds, the grammar reads; there would be a last place   *)
(* where it does not.                                                      *)
LEMMA BodyIsFound ==
    ASSUME NEW t \in Text, NEW p \in 1..Len(t)
    PROVE  \A k \in p + 1..Len(t) + 1 : CharsOf(t)[k].ok =>
              \E q \in k..Len(t) : /\ t[q] = Quote
                                   /\ \E s \in BodyAt(t, p, q, k) : CharsOf(t)[k] = Found(q + 1, s)
<1> DEFINE f      == CharsOf(t)
           Has(k) == \E q \in k..Len(t) : /\ t[q] = Quote
                                          /\ \E s \in BodyAt(t, p, q, k) : f[k] = Found(q + 1, s)
           Bad    == {k \in p + 1..Len(t) + 1 : f[k].ok /\ ~Has(k)}
<1>0. Len(t) \in Nat /\ Len(t) + 1 \in Nat /\ p \in Nat /\ 1 <= p /\ p <= Len(t)
  <2>1. Len(t) \in Nat
    BY TextFacts
  <2> QED
    BY SMT, <2>1
<1>1. SUFFICES ASSUME Bad # {} PROVE FALSE
  OBVIOUS
<1>2. Bad \subseteq 0..Len(t) + 1
  BY SMT, <1>0
<1>3. PICK k \in Bad : \A y \in Bad : y <= k
  BY <1>0, <1>1, <1>2, Largest
<1>4. k \in p + 1..Len(t) + 1 /\ f[k].ok /\ ~Has(k)
  BY <1>3
<1>5. k \in 1..Len(t) + 1 /\ (k # Len(t) + 1 => k \in 1..Len(t) /\ k \in k..Len(t) /\ k \in p..k /\ k \in p..Len(t))
  BY SMT, <1>0, <1>4
<1>6. f[k] = CharsStep(t, f, k)
  BY <1>5, CharsOfIs
<1>7. CASE Peek(t, k) = Quote
  <2>1. k # Len(t) + 1
    <3>1. Len(t) + 1 > Len(t) /\ Len(t) + 1 \in Int
      BY SMT, <1>0
    <3>2. Peek(t, Len(t) + 1) = EndOfText
      BY <3>1, TextFacts
    <3> QED
      BY <1>7, <3>2, CharFacts
  <2>2. t[k] = Quote
    BY <1>5, <1>7, <2>1, TextFacts
  <2>3. f[k] = Found(k + 1, <<>>)
    <3> HIDE DEF f
    <3> QED
      BY <1>6, <1>7, Zenon DEF CharsStep
  <2>4. <<>> \in BodyAt(t, p, k, k)
    BY <1>5, <2>1, BodyAtIs
  <2>5. Has(k)
    <3> HIDE DEF f
    <3> QED
      BY <1>5, <2>1, <2>2, <2>3, <2>4
  <2> QED
    BY <1>4, <2>5
<1>8. CASE Peek(t, k) # Quote
  <2>1. ParseChar(t, k).ok
    <3> HIDE DEF f, Has
    <3> QED
      BY <1>4, <1>6, <1>8, FoundFacts, Zenon DEF CharsStep
  <2>2. k # Len(t) + 1
    BY <2>1, NoCharAtEnd
  <2>3. k \in 1..Len(t) /\ t[k] # Quote
    BY <1>5, <1>8, <2>2, TextFacts
  <2>4. PICK n \in {1, 2, 6, 12} : /\ k + n - 1 <= Len(t)
                                   /\ \E c \in Chars(SubSeq(t, k, k + n - 1)) :
                                         ParseChar(t, k) = Found(k + n, c)
    BY <2>1, <2>3, CharIsFound
  <2>5. PICK c \in Chars(SubSeq(t, k, k + n - 1)) : ParseChar(t, k) = Found(k + n, c)
    BY <2>4
  <2>6. k + n \in p + 1..Len(t) + 1 /\ ~(k + n <= k)
    BY SMT, <1>0, <1>4, <2>4
  <2>7. f[k + n].ok
    BY <1>4, <1>5, <1>8, <2>5, CharThenRest
  <2>8. Has(k + n)
    <3>1. k + n \notin Bad
      BY <1>3, <2>6
    <3> HIDE DEF Has
    <3> QED
      BY <2>6, <2>7, <3>1
  <2>9. PICK q \in k + n..Len(t) : /\ t[q] = Quote
                                   /\ \E r \in BodyAt(t, p, q, k + n) : f[k + n] = Found(q + 1, r)
    BY <2>8
  <2>10. PICK r \in BodyAt(t, p, q, k + n) : f[k + n] = Found(q + 1, r)
    BY <2>9
  <2>11. /\ q \in p..Len(t) /\ k \in p..q /\ k # q /\ k + n <= q /\ q \in k..Len(t)
    BY SMT, <1>0, <1>4, <2>9
  <2>12. f[k] = Found(q + 1, After(c, r))
    BY <1>5, <1>8, <2>5, <2>10, CharThenRest
  <2>13. After(c, r) \in BodyAt(t, p, q, k)
    <3> DEFINE s == After(c, r)
    <3>1. s = After(c, r)
      OBVIOUS
    <3> HIDE DEF s
    <3>2. s \in BodyAt(t, p, q, k)
          <=> IF k = q THEN s = <<>>
              ELSE \E m \in {1, 2, 6, 12} : /\ k + m <= q
                                            /\ \E d \in Chars(SubSeq(t, k, k + m - 1)) :
                                                  \E e \in BodyAt(t, p, q, k + m) : s = After(d, e)
      BY <2>11, BodyAtIs
    <3>3. s \in BodyAt(t, p, q, k)
      BY <2>4, <2>5, <2>10, <2>11, <3>1, <3>2, Zenon
    <3> QED
      BY <3>3 DEF s
  <2>14. Has(k)
    BY <2>9, <2>11, <2>12, <2>13, Zenon
  <2> QED
    BY <1>4, <2>14
<1> QED
  BY <1>7, <1>8

(* A piece in quotes, and the readings of what is in them.                 *)
LEMMA EnclosedPiece ==
    ASSUME NEW t \in Text, NEW p \in 1..Len(t), NEW q \in p..Len(t)
    PROVE  /\ Enclosed(SubSeq(t, p, q), Quote, Quote) <=> q > p /\ t[p] = Quote /\ t[q] = Quote
           /\ BodiesOf(SubSeq(t, p, q))[2] = BodyAt(t, p, q, p + 1)
<1> DEFINE u == SubSeq(t, p, q)
           n == q - p + 1
<1>1. /\ p \in Int /\ q \in Int /\ 1 <= p /\ p <= q + 1 /\ q <= Len(t)
      /\ n \in 1..n /\ 1 \in 1..n /\ p + 1 - 1 = p /\ p + n - 1 = q /\ (p + 1) - p + 1 = 2
      /\ n >= 2 <=> q > p
  BY SMT, TextFacts
<1>2. Len(u) = n /\ \A i \in 1..n : u[i] = t[p + i - 1]
  BY <1>1, PieceOf
<1> HIDE DEF u, n
<1>3. u[1] = t[p] /\ u[n] = t[q]
  BY <1>1, <1>2
<1>4. Enclosed(u, Quote, Quote) <=> q > p /\ t[p] = Quote /\ t[q] = Quote
  BY <1>1, <1>2, <1>3 DEF Enclosed
<1>5. BodiesOf(u)[2] = BodyAt(t, p, q, p + 1)
  BY <1>1 DEF BodyAt, u
<1> QED
  BY <1>4, <1>5 DEF u

(* The scanner of strings takes the strings of the grammar, with what they *)
(* stand for, whatever the text.                                           *)
THEOREM ScanningStrings ==
    ASSUME NEW t \in Text, NEW p \in DOMAIN t
    PROVE  /\ ParseString(t, p).ok => \E q \in p..Len(t) :
                 /\ ParseString(t, p).val \in Strings(SubSeq(t, p, q))
                 /\ ParseString(t, p) = Found(q + 1, ParseString(t, p).val)
           /\ \A q \in p..Len(t) : \A s \in Strings(SubSeq(t, p, q)) : ParseString(t, p) = Found(q + 1, s)
<1>1. p \in 1..Len(t) /\ Len(t) \in Nat /\ Peek(t, p) = t[p]
  BY TextFacts
<1>2. ParseString(t, p) = IF t[p] = Quote THEN CharsOf(t)[p + 1] ELSE Fail
  BY <1>1, ParseStringIs
<1>3. \A q \in p..Len(t) :
         /\ Enclosed(SubSeq(t, p, q), Quote, Quote) <=> q > p /\ t[p] = Quote /\ t[q] = Quote
         /\ BodiesOf(SubSeq(t, p, q))[2] = BodyAt(t, p, q, p + 1)
  BY <1>1, EnclosedPiece
<1>4. ASSUME ParseString(t, p).ok
      PROVE  \E q \in p..Len(t) : /\ ParseString(t, p).val \in Strings(SubSeq(t, p, q))
                                  /\ ParseString(t, p) = Found(q + 1, ParseString(t, p).val)
  <2>1. t[p] = Quote /\ ParseString(t, p) = CharsOf(t)[p + 1] /\ CharsOf(t)[p + 1].ok
    BY <1>2, <1>4, FoundFacts
  <2>2. p + 1 \in p + 1..Len(t) + 1
    BY SMT, <1>1
  <2>3. PICK q \in p + 1..Len(t) :
            /\ t[q] = Quote
            /\ \E s \in BodyAt(t, p, q, p + 1) : CharsOf(t)[p + 1] = Found(q + 1, s)
    BY <1>1, <2>1, <2>2, BodyIsFound
  <2>4. PICK s \in BodyAt(t, p, q, p + 1) : CharsOf(t)[p + 1] = Found(q + 1, s)
    BY <2>3
  <2>5. q \in p..Len(t) /\ q > p
    BY SMT, <1>1, <2>3
  <2>6. s \in Strings(SubSeq(t, p, q))
    BY <1>3, <2>1, <2>3, <2>4, <2>5, StringsIs, Zenon
  <2>7. ParseString(t, p) = Found(q + 1, s) /\ ParseString(t, p).val = s
    <3>1. ParseString(t, p) = Found(q + 1, s)
      BY <2>1, <2>4
    <3>2. Found(q + 1, s).val = s
      BY FoundFacts
    <3> QED
      BY <3>1, <3>2, Zenon
  <2> QED
    BY <2>5, <2>6, <2>7, Zenon
<1>5. ASSUME NEW q \in p..Len(t), NEW s \in Strings(SubSeq(t, p, q))
      PROVE  ParseString(t, p) = Found(q + 1, s)
  <2>1. Enclosed(SubSeq(t, p, q), Quote, Quote) /\ s \in BodiesOf(SubSeq(t, p, q))[2]
    BY <1>5, StringsIs, Zenon
  <2>2. q > p /\ t[p] = Quote /\ t[q] = Quote /\ s \in BodyAt(t, p, q, p + 1)
    BY <1>3, <2>1
  <2>3. q \in p + 1..Len(t) /\ p + 1 \in p + 1..q
    BY SMT, <1>1, <2>2
  <2>4. CharsOf(t)[p + 1] = Found(q + 1, s)
    BY <1>1, <2>2, <2>3, BodyIsTaken
  <2> QED
    BY <1>2, <2>2, <2>4
<1> QED
  BY <1>4, <1>5

(* What is written of a character is a text of the grammar for it.         *)
LEMMA LowCodePoints == \A c \in Nat : c <= 127 => c \in CodePoints
BY SMT DEF CodePoints

(* The characters after a backslash are printable.                         *)
LEMMA EscapeChars ==
    /\ DOMAIN Escapes = {34, 92, 47, 98, 102, 110, 114, 116}
    /\ \A x \in DOMAIN Escapes : x >= 32 /\ x \in CodePoints
    /\ Escapes[34] = 34 /\ Escapes[92] = 92
    /\ Quote = 34 /\ Backslash = 92 /\ Quote \in CodePoints /\ Backslash \in CodePoints
<1>1. DOMAIN Escapes = {34, 92, 47, 98, 102, 110, 114, 116}
  BY Zenon DEF Escapes
<1>2. \A x \in {34, 92, 47, 98, 102, 110, 114, 116} : x >= 32 /\ x \in Nat /\ x <= 127
  BY SMT
<1>3. /\ 34 \in {34, 92, 47, 98, 102, 110, 114, 116} /\ 92 \in {34, 92, 47, 98, 102, 110, 114, 116}
      /\ 34 \in {34, 92, 47} /\ 92 \in {34, 92, 47}
  BY SMT
<1>4. Escapes[34] = 34 /\ Escapes[92] = 92
  BY <1>3, Zenon DEF Escapes
<1>5. Quote = 34 /\ Backslash = 92
  BY DEF Quote, Backslash
<1>6. \A x \in {34, 92, 47, 98, 102, 110, 114, 116} : x \in CodePoints
  BY <1>2, LowCodePoints
<1> QED
  BY <1>1, <1>2, <1>3, <1>4, <1>5, <1>6

(* A hexadecimal digit is printable and is read as what it stands for, and *)
(* two are enough for a control character.                                 *)
LEMMA HexDigitFacts ==
    /\ \A d \in 0..15 : HexDigit(d) \in Nat /\ HexDigit(d) >= 32 /\ HexDigit(d) <= 127
                        /\ HexValue(HexDigit(d)) = d
    /\ HexValue(48) = 0
    /\ \A c \in Nat : c < 32 => /\ c \div 16 \in 0..15 /\ c % 16 \in 0..15
                                /\ 4096 * 0 + 256 * 0 + 16 * (c \div 16) + (c % 16) = c
                                /\ c \div 2048 # 27
<1>1. \A d \in 0..15 : HexDigit(d) \in Nat /\ HexDigit(d) >= 32 /\ HexDigit(d) <= 127
                       /\ HexValue(HexDigit(d)) = d
  BY SMT DEF HexDigit, HexValue, Digits
<1>2. HexValue(48) = 0
  BY SMT DEF HexValue, Digits
<1>3. \A c \in Nat : c < 32 => /\ c \div 16 \in 0..15 /\ c % 16 \in 0..15
                               /\ 4096 * 0 + 256 * 0 + 16 * (c \div 16) + (c % 16) = c
                               /\ c \div 2048 # 27
  BY SMT
<1> QED
  BY <1>1, <1>2, <1>3

(* w is one of the ways the grammar has to write c, without a control      *)
(* character.                                                              *)
Written(w, c) == /\ w \in Text /\ Len(w) \in {1, 2, 6, 12} /\ c \in Chars(w)
                 /\ \A i \in 1..Len(w) : w[i] >= 32

(* A printable character is written as itself,                             *)
LEMMA WrittenItself ==
    ASSUME NEW c \in CodePoints, c >= 32, c \notin {Quote, Backslash}
    PROVE  Written(<<c>>, c)
<1> DEFINE w == <<c>>
<1>1. w \in Text /\ Len(w) = 1 /\ w[1] = c /\ 1 \in 1..Len(w) /\ SubSeq(w, 1, 1) = w
      /\ \A i \in 1..Len(w) : i = 1
  <2>1. w \in Text /\ Len(w) = 1 /\ w[1] = c
    BY SMT DEF Text
  <2> HIDE DEF w
  <2>2. SubSeq(w, 1, 1) = w
    BY <2>1, SMT DEF Text
  <2> QED
    BY <2>1, <2>2, SMT
<1> HIDE DEF w
<1>2. c \in Chars(SubSeq(w, 1, 1))
  BY <1>1, CharsOfOne
<1>3. Written(w, c)
  BY <1>1, <1>2 DEF Written
<1> QED
  BY <1>3 DEF w

(* or as a backslash and a letter,                                         *)
LEMMA WrittenEscape ==
    ASSUME NEW x \in DOMAIN Escapes
    PROVE  Written(<<Backslash, x>>, Escapes[x])
<1> DEFINE w == <<Backslash, x>>
<1>0. x \in CodePoints /\ x >= 32 /\ Backslash \in CodePoints /\ Backslash >= 32
  <2>1. 92 >= 32
    BY SMT
  <2> QED
    BY <2>1, EscapeChars
<1>1. w \in Text /\ Len(w) = 2 /\ w[1] = Backslash /\ w[2] = x /\ SubSeq(w, 1, 1 + 1) = w
      /\ \A i \in 1..Len(w) : i = 1 \/ i = 2
  <2>1. w \in Text /\ Len(w) = 2 /\ w[1] = Backslash /\ w[2] = x
    BY SMT, <1>0 DEF Text
  <2> HIDE DEF w
  <2>2. SubSeq(w, 1, 2) = w
    BY <2>1, SMT DEF Text
  <2>3. 1 + 1 = 2 /\ \A i \in 1..2 : i = 1 \/ i = 2
    BY SMT
  <2> QED
    BY <2>1, <2>2, <2>3
<1> HIDE DEF w
<1>2. 1 \in Int /\ 1 <= 1 /\ 1 + 1 <= Len(w) /\ 1 + 1 = 2
  BY SMT, <1>1
<1>3. Escapes[x] \in Chars(SubSeq(w, 1, 1 + 1))
  BY <1>1, <1>2, CharsOfTwo
<1>4. Written(w, Escapes[x])
  BY <1>0, <1>1, <1>3 DEF Written
<1> QED
  BY <1>4 DEF w

(* No surrogate.                                                           *)
IsWhole(c) == c \div 2048 # 27

(* A \u escape that is no surrogate stands for its code.                   *)
LEMMA CodedEscape ==
    \A t \in Text, k \in Int :
        1 <= k /\ k + 5 <= Len(t) /\ EscapeAt(t, k) /\ IsWhole(HexAt(t, k + 2))
        => HexAt(t, k + 2) \in Chars(SubSeq(t, k, k + 5))
<1> SUFFICES ASSUME NEW t \in Text, NEW k \in Int, 1 <= k, k + 5 <= Len(t), EscapeAt(t, k),
                    IsWhole(HexAt(t, k + 2))
             PROVE  HexAt(t, k + 2) \in Chars(SubSeq(t, k, k + 5))
  OBVIOUS
<1>1. \A c : c \in Chars(SubSeq(t, k, k + 5))
             <=> EscapeAt(t, k) /\ HexAt(t, k + 2) \div 2048 # 27 /\ c = HexAt(t, k + 2)
  BY CharsOfSix
<1> QED
  BY <1>1 DEF IsWhole

(* and any other control character as its code.                            *)
LEMMA WrittenCode ==
    ASSUME NEW c \in CodePoints, c < 32
    PROVE  Written(<<Backslash, 117, 48, 48, HexDigit(c \div 16), HexDigit(c % 16)>>, c)
<1> DEFINE a == HexDigit(c \div 16)
           b == HexDigit(c % 16)
           w == <<Backslash, 117, 48, 48, a, b>>
<1>0. c \in Nat
  BY CodePointFacts
<1>1. /\ a \in Nat /\ a >= 32 /\ a <= 127 /\ HexValue(a) = c \div 16
      /\ b \in Nat /\ b >= 32 /\ b <= 127 /\ HexValue(b) = c % 16
      /\ c \div 16 \in 0..15 /\ c % 16 \in 0..15
  BY <1>0, HexDigitFacts
<1> HIDE DEF a, b
<1>2. /\ a \in CodePoints /\ b \in CodePoints /\ 117 \in CodePoints /\ 48 \in CodePoints
      /\ Backslash \in CodePoints /\ Backslash >= 32 /\ 117 >= 32 /\ 48 >= 32
  <2>1. /\ 117 \in Nat /\ 117 <= 127 /\ 48 \in Nat /\ 48 <= 127
        /\ Backslash \in Nat /\ Backslash <= 127 /\ Backslash >= 32 /\ 117 >= 32 /\ 48 >= 32
    BY SMT DEF Backslash
  <2> QED
    BY <1>1, <2>1, LowCodePoints
<1>3. /\ w \in Text /\ Len(w) = 6 /\ w[1] = Backslash /\ w[2] = 117 /\ w[3] = 48 /\ w[4] = 48
      /\ w[5] = a /\ w[6] = b
      /\ SubSeq(w, 1, 1 + 5) = w
  <2>1. w \in Text
    BY SMT, <1>2 DEF Text
  <2>2. /\ Len(w) = 6 /\ w[1] = Backslash /\ w[2] = 117 /\ w[3] = 48 /\ w[4] = 48
        /\ w[5] = a /\ w[6] = b
    BY SMT
  <2>3. SubSeq(w, 1, 6) = w
    <3> HIDE DEF w
    <3> QED
      BY <2>1, <2>2, SMT DEF Text
  <2> QED
    BY <2>1, <2>2, <2>3, SMT
<1> HIDE DEF w
<1>4. /\ 1 \in Int /\ 1 <= 1 /\ 1 + 5 <= Len(w) /\ 1 + 1 = 2 /\ 1 + 2 = 3
      /\ 3 + 1 = 4 /\ 3 + 2 = 5 /\ 3 + 3 = 6
      /\ \A i \in 3..6 : i = 3 \/ i = 4 \/ i = 5 \/ i = 6
      /\ \A i \in 1..Len(w) : i = 1 \/ i = 2 \/ i = 3 \/ i = 4 \/ i = 5 \/ i = 6
  BY SMT, <1>3
<1>5. HexValue(w[3]) = 0 /\ HexValue(w[4]) = 0 /\ HexValue(w[5]) = c \div 16 /\ HexValue(w[6]) = c % 16
  BY <1>1, <1>3, HexDigitFacts
<1>6. IsHexAt(w, 3)
  <2>1. c \div 16 >= 0 /\ c % 16 >= 0 /\ 0 >= 0
    BY SMT, <1>1
  <2> QED
    BY <1>4, <1>5, <2>1 DEF IsHexAt
<1>7. HexAt(w, 3) = c
  <2>1. HexAt(w, 3) = 4096 * HexValue(w[3]) + 256 * HexValue(w[4]) + 16 * HexValue(w[5]) + HexValue(w[6])
    BY <1>4 DEF HexAt
  <2>2. HexAt(w, 3) = 4096 * 0 + 256 * 0 + 16 * (c \div 16) + (c % 16)
    BY <1>5, <2>1
  <2> QED
    BY <1>0, <2>2, HexDigitFacts
<1>8. EscapeAt(w, 1)
  BY <1>3, <1>4, <1>6 DEF EscapeAt
<1>9. c \in Chars(w)
  <2> DEFINE k == 1
  <2>1. k \in Int /\ 1 <= k /\ k + 5 <= Len(w) /\ k + 2 = 3 /\ SubSeq(w, k, k + 5) = w /\ EscapeAt(w, k)
    BY <1>3, <1>4, <1>8
  <2> HIDE DEF k
  <2>2. HexAt(w, k + 2) = c
    BY <1>7, <2>1
  <2>3. IsWhole(c)
    BY <1>0, HexDigitFacts DEF IsWhole
  <2>4. IsWhole(HexAt(w, k + 2))
    BY <2>2, <2>3, Zenon
  <2>5. HexAt(w, k + 2) \in Chars(SubSeq(w, k, k + 5))
    BY <1>3, <2>1, <2>4, CodedEscape, Zenon
  <2> QED
    BY <2>1, <2>2, <2>5
<1>10. Written(w, c)
  <2>1. ASSUME NEW i \in 1..Len(w) PROVE w[i] >= 32
    <3>1. i = 1 \/ i = 2 \/ i = 3 \/ i = 4 \/ i = 5 \/ i = 6
      BY <1>4
    <3>2. w[1] >= 32 /\ w[2] >= 32 /\ w[3] >= 32 /\ w[4] >= 32 /\ w[5] >= 32 /\ w[6] >= 32
      BY <1>1, <1>2, <1>3
    <3> QED
      BY <3>1, <3>2, Zenon
  <2> QED
    BY <1>3, <1>9, <2>1 DEF Written
<1> QED
  BY <1>10 DEF w, a, b

(* Of every character, what is written is printable and is one of the ways *)
(* the grammar has for that character.                                     *)
LEMMA WriteCharIs == ASSUME NEW c \in CodePoints PROVE Written(WriteChar(c), c)
<1> DEFINE D == DOMAIN Escapes \ {47}
<1>1. CASE \E x \in D : Escapes[x] = c
  <2>1. PICK x \in D : x = (CHOOSE y \in D : Escapes[y] = c) /\ Escapes[x] = c
    BY <1>1, Zenon
  <2>2. WriteChar(c) = <<Backslash, x>>
    BY <1>1, <2>1, Zenon DEF WriteChar
  <2>3. x \in DOMAIN Escapes
    BY <2>1
  <2> QED
    BY <2>1, <2>2, <2>3, WrittenEscape
<1>2. CASE ~\E x \in D : Escapes[x] = c
  <2>1. CASE c < 32
    <3>1. WriteChar(c) = <<Backslash, 117, 48, 48, HexDigit(c \div 16), HexDigit(c % 16)>>
      BY <1>2, <2>1 DEF WriteChar
    <3> QED
      BY <2>1, <3>1, WrittenCode
  <2>2. CASE ~(c < 32)
    <3>1. WriteChar(c) = <<c>>
      BY <1>2, <2>2 DEF WriteChar
    <3>2. c >= 32
      BY SMT, <2>2, CodePointFacts
    <3>3. c # 34 /\ c # 92
      <4>1. 34 \in D /\ 92 \in D
        <5>1. 34 # 47 /\ 92 # 47 /\ 34 \in {34, 92, 47, 98, 102, 110, 114, 116}
              /\ 92 \in {34, 92, 47, 98, 102, 110, 114, 116}
          BY SMT
        <5> QED
          BY <5>1, EscapeChars
      <4>2. Escapes[34] # c /\ Escapes[92] # c
        BY <1>2, <4>1, Zenon
      <4> QED
        BY <4>2, EscapeChars
    <3> QED
      BY <3>1, <3>2, <3>3, WrittenItself, EscapeChars
  <2> QED
    BY <2>1, <2>2
<1> QED
  BY <1>1, <1>2

(* What is written of a string, character by character.                    *)
OutStep(s, f, i) == IF i = 0 THEN <<Quote>> ELSE f[i - 1] \o WriteChar(s[i])
OutUpto(s, m, f) == f = [i \in 0..m |-> OutStep(s, f, i)]
OutOf(s) == CHOOSE f : OutUpto(s, Len(s), f)

(* write_string by that function.                                          *)
LEMMA WriteStringIs ==
    ASSUME NEW s
    PROVE  WriteString(s) = Append(OutOf(s)[Len(s)], Quote)
BY Zenon DEF WriteString, OutOf, OutUpto, OutStep

(* The function is one that its definition describes: there would be a     *)
(* smallest length for which there is none.                                *)
LEMMA OutOfIs ==
    ASSUME NEW s \in Text
    PROVE  /\ OutOf(s)[0] = <<Quote>>
           /\ \A i \in 1..Len(s) : OutOf(s)[i] = OutOf(s)[i - 1] \o WriteChar(s[i])
<1> DEFINE Bad == {m \in Nat : ~\E f : OutUpto(s, m, f)}
<1>0. Len(s) \in Nat
  BY TextFacts
<1>1. Bad = {}
  <2> SUFFICES ASSUME Bad # {} PROVE FALSE
    OBVIOUS
  <2>1. PICK m \in Bad : \A y \in Bad : m <= y
    BY Smallest
  <2>2. m \in Nat /\ ~\E f : OutUpto(s, m, f)
    BY <2>1
  <2>3. CASE m = 0
    <3>1. \A i \in 0..m : i = 0
      BY SMT, <2>3
    <3> DEFINE h == [i \in 0..m |-> <<Quote>>]
    <3>2. h = [i \in 0..m |-> OutStep(s, h, i)]
      <4>1. \A i \in 0..m : OutStep(s, h, i) = <<Quote>>
        BY <3>1, Zenon DEF OutStep
      <4> QED
        BY <4>1, Zenon
    <3>3. OutUpto(s, m, h)
      <4> HIDE DEF h
      <4> QED
        BY <3>2, Zenon DEF OutUpto
    <3> QED
      BY <2>2, <3>3, Zenon
  <2>4. CASE m # 0
    <3>1. m - 1 \in Nat /\ ~(m <= m - 1)
      BY SMT, <2>2, <2>4
    <3>2. PICK g : OutUpto(s, m - 1, g)
      BY <2>1, <3>1
    <3> DEFINE h == [i \in 0..m |-> IF i = m THEN OutStep(s, g, m) ELSE g[i]]
    <3>3. \A i \in 0..m : /\ i # m => i \in 0..m - 1
                          /\ i # 0 => i - 1 \in 0..m /\ i - 1 # m
      BY SMT, <2>2
    <3>4. \A i \in 0..m - 1 : g[i] = OutStep(s, g, i)
      BY <3>2, Zenon DEF OutUpto
    <3>5. ASSUME NEW i \in 0..m PROVE OutStep(s, g, i) = OutStep(s, h, i)
      <4>1. i # 0 => h[i - 1] = g[i - 1]
        BY <3>3, Zenon
      <4> HIDE DEF h
      <4> QED
        BY <4>1, Zenon DEF OutStep
    <3>6. ASSUME NEW i \in 0..m PROVE h[i] = OutStep(s, h, i)
      <4>1. h[i] = IF i = m THEN OutStep(s, g, m) ELSE g[i]
        BY Zenon
      <4>2. h[i] = OutStep(s, g, i)
        <5> HIDE DEF h
        <5> QED
          BY <3>3, <3>4, <4>1, Zenon
      <4> HIDE DEF h
      <4> QED
        BY <3>5, <4>2
    <3>7. h = [i \in 0..m |-> h[i]]
      BY Zenon
    <3>8. OutUpto(s, m, h)
      <4> HIDE DEF h
      <4> QED
        BY <3>6, <3>7, Zenon DEF OutUpto
    <3> QED
      BY <2>2, <3>8, Zenon
  <2> QED
    BY <2>3, <2>4
<1>2. \E f : OutUpto(s, Len(s), f)
  BY <1>0, <1>1, Zenon
<1>3. OutUpto(s, Len(s), OutOf(s))
  BY <1>2, Zenon DEF OutOf
<1> DEFINE f == OutOf(s)
<1>4. f = [i \in 0..Len(s) |-> OutStep(s, f, i)]
  BY <1>3 DEF OutUpto
<1> HIDE DEF f
<1>5. \A i \in 0..Len(s) : f[i] = OutStep(s, f, i)
  BY <1>4, Zenon
<1>6. 0 \in 0..Len(s) /\ \A i \in 1..Len(s) : i \in 0..Len(s) /\ i # 0
  BY SMT, <1>0
<1>7. f[0] = <<Quote>> /\ \A i \in 1..Len(s) : f[i] = f[i - 1] \o WriteChar(s[i])
  BY <1>5, <1>6, Zenon DEF OutStep
<1> QED
  BY <1>7 DEF f

(* Texts put together.                                                     *)
LEMMA Joining ==
    ASSUME NEW a \in Text, NEW b \in Text
    PROVE  /\ a \o b \in Text /\ Len(a \o b) = Len(a) + Len(b)
           /\ \A i \in 1..Len(a) : (a \o b)[i] = a[i]
           /\ \A i \in 1..Len(b) : (a \o b)[Len(a) + i] = b[i]
<1>1. a \o b \in Text /\ Len(a \o b) = Len(a) + Len(b)
  BY SMT DEF Text
<1>2. \A i \in 1..Len(a) : (a \o b)[i] = a[i]
  BY SMT DEF Text
<1>3. \A i \in 1..Len(b) : (a \o b)[Len(a) + i] = b[i]
  BY SMT DEF Text
<1> QED
  BY <1>1, <1>2, <1>3

(* A text without a control character.                                     *)
Printable(t) == t \in Text /\ \A i \in 1..Len(t) : t[i] >= 32

(* Printable texts make a printable text.                                  *)
LEMMA JoiningPrintable ==
    ASSUME NEW a, NEW b, Printable(a), Printable(b)
    PROVE  Printable(a \o b)
<1>1. a \in Text /\ b \in Text /\ Len(a) \in Nat /\ Len(b) \in Nat
  BY TextFacts DEF Printable
<1>2. /\ a \o b \in Text /\ Len(a \o b) = Len(a) + Len(b)
      /\ \A i \in 1..Len(a) : (a \o b)[i] = a[i]
      /\ \A i \in 1..Len(b) : (a \o b)[Len(a) + i] = b[i]
  BY <1>1, Joining
<1>3. ASSUME NEW i \in 1..Len(a \o b) PROVE (a \o b)[i] >= 32
  <2>1. CASE i \in 1..Len(a)
    BY <1>2, <2>1 DEF Printable
  <2>2. CASE i \notin 1..Len(a)
    <3>1. i - Len(a) \in 1..Len(b) /\ Len(a) + (i - Len(a)) = i
      BY SMT, <1>1, <1>2, <2>2
    <3>2. b[i - Len(a)] >= 32
      BY <3>1 DEF Printable
    <3> QED
      BY <1>2, <3>1, <3>2, Zenon
  <2> QED
    BY <2>1, <2>2
<1> QED
  BY <1>2, <1>3 DEF Printable

(* Nothing that is written of a string is a control character.             *)
LEMMA OutPrintable ==
    ASSUME NEW s \in Text
    PROVE  \A i \in 0..Len(s) : Printable(OutOf(s)[i])
<1> DEFINE f   == OutOf(s)
           Bad == {i \in 0..Len(s) : ~Printable(f[i])}
<1>0. Len(s) \in Nat
  BY TextFacts
<1>1. SUFFICES ASSUME Bad # {} PROVE FALSE
  OBVIOUS
<1>2. Bad \subseteq Nat
  BY SMT, <1>0
<1>3. PICK i \in Bad : \A y \in Bad : i <= y
  BY <1>1, <1>2, Smallest
<1>4. i \in 0..Len(s) /\ ~Printable(f[i])
  BY <1>3
<1>5. CASE i = 0
  <2>1. f[0] = <<Quote>>
    BY OutOfIs
  <2>2. Quote \in CodePoints /\ Quote >= 32
    <3>1. 34 >= 32
      BY SMT
    <3> QED
      BY <3>1, EscapeChars
  <2>3. Printable(<<Quote>>)
    BY <2>2, SMT DEF Printable, Text
  <2> QED
    BY <1>4, <1>5, <2>1, <2>3
<1>6. CASE i # 0
  <2>1. i \in 1..Len(s) /\ i - 1 \in 0..Len(s) /\ ~(i <= i - 1)
    BY SMT, <1>0, <1>4, <1>6
  <2>2. f[i] = f[i - 1] \o WriteChar(s[i])
    BY <2>1, OutOfIs
  <2>3. Printable(f[i - 1])
    BY <1>3, <2>1
  <2>4. Printable(WriteChar(s[i]))
    <3>1. s[i] \in CodePoints
      BY <2>1, TextFacts
    <3> QED
      BY <3>1, WriteCharIs DEF Written, Printable
  <2> HIDE DEF f
  <2> QED
    BY <1>4, <2>2, <2>3, <2>4, JoiningPrintable
<1> QED
  BY <1>5, <1>6

(* A text that has b after a has a before it.                              *)
StartsWith(t, a) == Len(a) <= Len(t) /\ \A i \in 1..Len(a) : t[i] = a[i]

(* A text that starts with two texts starts with the first, and the second *)
(* is the piece after it.                                                  *)
LEMMA StartsWithBoth ==
    ASSUME NEW t \in Text, NEW a \in Text, NEW b \in Text, StartsWith(t, a \o b)
    PROVE  /\ StartsWith(t, a)
           /\ Len(b) >= 1 => Len(a) + 1 \in 1..Len(t)
           /\ Len(a) + 1 + Len(b) - 1 <= Len(t)
           /\ Len(b) >= 1 => SubSeq(t, Len(a) + 1, Len(a) + 1 + Len(b) - 1) = b
<1>0. Len(a) \in Nat /\ Len(b) \in Nat /\ Len(t) \in Nat
  BY TextFacts
<1>1. /\ Len(a \o b) = Len(a) + Len(b)
      /\ \A i \in 1..Len(a) : (a \o b)[i] = a[i]
      /\ \A i \in 1..Len(b) : (a \o b)[Len(a) + i] = b[i]
  BY Joining
<1> DEFINE L == Len(a)
           M == Len(b)
<1>2. /\ L + M <= Len(t) /\ L <= Len(t) /\ \A i \in 1..L : i \in 1..L + M
      /\ \A i \in 1..M : L + i \in 1..L + M
      /\ M >= 1 => L + 1 \in 1..Len(t)
      /\ L + 1 + M - 1 <= Len(t) /\ L + 1 \in Int /\ L + 1 + M - 1 \in Int /\ 1 <= L + 1
      /\ L + 1 <= (L + 1 + M - 1) + 1 /\ (L + 1 + M - 1) - (L + 1) + 1 = M
      /\ \A i \in 1..M : (L + 1) + i - 1 = L + i
  <2>1. L + M <= Len(t)
    BY <1>1 DEF StartsWith
  <2> HIDE DEF L, M
  <2>2. L \in Nat /\ M \in Nat
    BY <1>0 DEF L, M
  <2> QED
    BY SMT, <1>0, <2>1, <2>2
<1>3. \A i \in 1..L + M : t[i] = (a \o b)[i]
  BY <1>1 DEF StartsWith
<1>4. \A i \in 1..L : t[i] = a[i]
  BY <1>1, <1>2, <1>3
<1>5. \A i \in 1..M : t[L + i] = b[i]
  BY <1>1, <1>2, <1>3
<1> DEFINE u == SubSeq(t, L + 1, L + 1 + M - 1)
<1>6. /\ u \in Text /\ Len(u) = M
      /\ \A i \in 1..M : u[i] = t[(L + 1) + i - 1]
  <2>1. /\ u \in Text /\ Len(u) = (L + 1 + M - 1) - (L + 1) + 1
        /\ \A i \in 1..(L + 1 + M - 1) - (L + 1) + 1 : u[i] = t[(L + 1) + i - 1]
    <3> HIDE DEF L, M
    <3> QED
      BY <1>2, PieceOf
  <2> HIDE DEF u, L, M
  <2> QED
    BY <1>2, <2>1
<1>7. \A i \in 1..M : u[i] = b[i]
  <2> HIDE DEF u, L, M
  <2> QED
    BY <1>2, <1>5, <1>6, Zenon
<1>8. u = b
  <2>1. Len(u) = Len(b) /\ \A i \in 1..Len(b) : u[i] = b[i]
    BY <1>6, <1>7
  <2> HIDE DEF u
  <2> QED
    BY <1>6, <2>1, SMT DEF Text
<1> QED
  BY <1>2, <1>4, <1>8 DEF StartsWith

(* The rest of a string is its next character and then the rest.           *)
LEMMA RestOf ==
    ASSUME NEW s \in Text, NEW i \in 0..Len(s), i # Len(s)
    PROVE  After(s[i + 1], SubSeq(s, i + 2, Len(s))) = SubSeq(s, i + 1, Len(s))
BY SMT DEF Text, After

(* Read from where the first i characters of s are written, the text gives *)
(* what is left of s.                                                      *)
LEMMA WrittenIsRead ==
    ASSUME NEW s \in Text, NEW t \in Text, StartsWith(t, OutOf(s)[Len(s)] \o <<Quote>>)
    PROVE  \A i \in 0..Len(s) :
              /\ StartsWith(t, OutOf(s)[i])
              /\ CharsOf(t)[Len(OutOf(s)[i]) + 1]
                 = Found(Len(OutOf(s)[Len(s)]) + 2, SubSeq(s, i + 1, Len(s)))
<1> DEFINE f   == OutOf(s)
           e   == Len(f[Len(s)]) + 2
           P(i) == /\ StartsWith(t, f[i])
                   /\ CharsOf(t)[Len(f[i]) + 1] = Found(e, SubSeq(s, i + 1, Len(s)))
           Bad == {i \in 0..Len(s) : ~P(i)}
<1>0. Len(s) \in Nat /\ Len(t) \in Nat /\ \A i \in 0..Len(s) : f[i] \in Text /\ Len(f[i]) \in Nat
  BY TextFacts, OutPrintable DEF Printable
<1>1. SUFFICES ASSUME Bad # {} PROVE FALSE
  OBVIOUS
<1>2. Bad \subseteq 0..Len(s)
  OBVIOUS
<1>3. PICK i \in Bad : \A y \in Bad : y <= i
  BY <1>0, <1>1, <1>2, Largest
<1>4. i \in 0..Len(s) /\ ~P(i)
  BY <1>3
<1>5. CASE i = Len(s)
  <2> DEFINE a == f[Len(s)]
             q == <<Quote>>
             k == Len(a) + 1
  <2>1. a \in Text /\ q \in Text /\ Len(q) = 1 /\ q[1] = Quote /\ StartsWith(t, a \o q)
    <3>1. q \in Text /\ Len(q) = 1 /\ q[1] = Quote
      BY EscapeChars, SMT DEF Text
    <3> QED
      BY <1>0, <1>4, <1>5, <3>1
  <2> HIDE DEF a, q
  <2>2. /\ StartsWith(t, a) /\ k \in 1..Len(t)
        /\ SubSeq(t, k, k + 1 - 1) = q
    <3>1. /\ StartsWith(t, a)
          /\ Len(q) >= 1 => Len(a) + 1 \in 1..Len(t)
          /\ Len(q) >= 1 => SubSeq(t, Len(a) + 1, Len(a) + 1 + Len(q) - 1) = q
      BY <2>1, StartsWithBoth
    <3>2. 1 >= 1
      BY SMT
    <3> QED
      BY <2>1, <3>1, <3>2
  <2>3. t[k] = Quote /\ Peek(t, k) = t[k] /\ k \in 1..Len(t) + 1 /\ k + 1 = Len(a) + 2
    <3> HIDE DEF k
    <3>1. k \in Int /\ 1 <= k /\ k <= k + 1 /\ k <= Len(t) /\ k + 1 - 1 = k /\ k - k + 1 = 1 /\ 1 \in 1..1
          /\ k \in 1..Len(t) + 1
      BY SMT, <1>0, <2>2
    <3>2. \A j \in 1..k - k + 1 : SubSeq(t, k, k)[j] = t[k + j - 1]
      BY <3>1, PieceOf
    <3>3. SubSeq(t, k, k)[1] = t[k]
      BY <3>1, <3>2
    <3>4. Peek(t, k) = t[k]
      BY <2>2, TextFacts
    <3>5. Len(a) \in Nat
      BY <2>1, TextFacts
    <3>6. k + 1 = Len(a) + 2
      BY SMT, <3>5 DEF k
    <3> QED
      BY <2>1, <2>2, <3>1, <3>3, <3>4, <3>6
  <2>4. CharsOf(t)[k] = Found(k + 1, <<>>)
    <3> HIDE DEF k
    <3>1. CharsOf(t)[k] = CharsStep(t, CharsOf(t), k)
      BY <2>3, CharsOfIs
    <3> QED
      BY <2>3, <3>1, Zenon DEF CharsStep
  <2>5. SubSeq(s, Len(s) + 1, Len(s)) = <<>>
    BY SMT DEF Text
  <2> QED
    BY <1>4, <1>5, <2>2, <2>3, <2>4, <2>5 DEF a
<1>6. CASE i # Len(s)
  <2>1. i + 1 \in 0..Len(s) /\ i + 1 \in 1..Len(s) /\ ~(i + 1 <= i) /\ (i + 1) - 1 = i /\ (i + 1) + 1 = i + 2
    BY SMT, <1>0, <1>4, <1>6
  <2>2. P(i + 1)
    <3>1. i + 1 \notin Bad
      BY <1>3, <2>1
    <3> HIDE DEF P
    <3> QED
      BY <2>1, <3>1
  <2> DEFINE a == f[i]
             c == s[i + 1]
             w == WriteChar(c)
             k == Len(a) + 1
             r == SubSeq(s, i + 2, Len(s))
  <2>3. f[i + 1] = a \o w
    <3>1. \A j \in 1..Len(s) : f[j] = f[j - 1] \o WriteChar(s[j])
      BY OutOfIs
    <3> HIDE DEF f
    <3> QED
      BY <2>1, <3>1, Zenon
  <2>4. a \in Text /\ Len(a) \in Nat
    BY <1>0, <1>4
  <2>5. Written(w, c)
    <3>1. c \in CodePoints
      BY <2>1, TextFacts
    <3> QED
      BY <3>1, WriteCharIs
  <2>6. StartsWith(t, a \o w) /\ CharsOf(t)[Len(a \o w) + 1] = Found(e, r)
    BY <2>1, <2>2, <2>3
  <2> HIDE DEF a, c, w, r, e, f
  <2>7. w \in Text /\ Len(w) \in {1, 2, 6, 12} /\ c \in Chars(w) /\ Len(w) >= 1 /\ Len(w) \in Nat
    <3>1. \A n \in {1, 2, 6, 12} : n >= 1 /\ n \in Nat
      BY SMT
    <3> QED
      BY <2>5, <3>1 DEF Written
  <2>8. /\ StartsWith(t, a) /\ k \in 1..Len(t) /\ k + Len(w) - 1 <= Len(t)
        /\ SubSeq(t, k, k + Len(w) - 1) = w
    BY <2>4, <2>6, <2>7, StartsWithBoth
  <2>9. Len(a \o w) + 1 = k + Len(w) /\ k \in 1..Len(t) + 1
    <3>1. Len(a \o w) = Len(a) + Len(w)
      BY <2>4, <2>7, Joining
    <3> QED
      BY SMT, <1>0, <2>4, <2>7, <2>8, <3>1
  <2> HIDE DEF k
  <2>10. t[k] # Quote /\ ParseChar(t, k) = Found(k + Len(w), c)
    <3> DEFINE n == Len(w)
    <3>1. /\ n \in {1, 2, 6, 12} /\ k + n - 1 <= Len(t) /\ c \in Chars(SubSeq(t, k, k + n - 1))
      BY <2>7, <2>8
    <3> HIDE DEF n
    <3>2. t[k] # Quote /\ ParseChar(t, k) = Found(k + n, c)
      BY <2>8, <3>1, CharIsTaken
    <3> QED
      BY <3>2 DEF n
  <2>11. Peek(t, k) # Quote
    BY <2>8, <2>10, TextFacts
  <2>12. CharsOf(t)[k] = Found(e, After(c, r))
    <3>1. CharsOf(t)[k + Len(w)] = Found(e, r)
      BY <2>6, <2>9
    <3>2. \A x, y : CharsOf(t)[k + Len(w)] = Found(x, y) => CharsOf(t)[k] = Found(x, After(c, y))
      BY <2>9, <2>10, <2>11, CharThenRest
    <3> QED
      BY <3>1, <3>2, Zenon
  <2>13. After(c, r) = SubSeq(s, i + 1, Len(s))
    BY <1>4, <1>6, RestOf DEF c, r
  <2>14. P(i)
    BY <2>8, <2>12, <2>13 DEF a, k
  <2> QED
    BY <1>4, <2>14
<1> QED
  BY <1>5, <1>6

(* What is written of a string is read back as it, whatever comes after,   *)
(* and has no control character in it.                                     *)
THEOREM StringsRoundTrip ==
    ASSUME NEW s \in Text, NEW rest \in Text
    PROVE  /\ \A i \in DOMAIN WriteString(s) : WriteString(s)[i] >= 32
           /\ ParseString(WriteString(s) \o rest, 1) = Found(Len(WriteString(s)) + 1, s)
<1> DEFINE f == OutOf(s)
           a == f[Len(s)]
           q == <<Quote>>
           w == WriteString(s)
           t == w \o rest
<1>0. Len(s) \in Nat /\ Len(s) \in 0..Len(s) /\ 0 \in 0..Len(s)
  BY SMT, TextFacts
<1>1. Printable(a) /\ a \in Text /\ Len(a) \in Nat
  BY <1>0, OutPrintable, TextFacts DEF Printable
<1>2. Printable(q) /\ q \in Text /\ Len(q) = 1 /\ q[1] = Quote
  <2>1. Quote \in CodePoints /\ Quote >= 32
    <3>1. 34 >= 32
      BY SMT
    <3> QED
      BY <3>1, EscapeChars
  <2> QED
    BY <2>1, SMT DEF Printable, Text
<1>3. w = a \o q
  <2>1. w = Append(a, Quote)
    BY WriteStringIs
  <2> HIDE DEF a, w
  <2>2. Append(a, Quote) = a \o <<Quote>>
    BY <1>1, SMT DEF Text
  <2> QED
    BY <2>1, <2>2
<1> HIDE DEF w, q
<1>4. Printable(w) /\ w \in Text /\ Len(w) = Len(a) + 1
  <2>1. Printable(w)
    BY <1>1, <1>2, <1>3, JoiningPrintable
  <2>2. Len(a \o q) = Len(a) + Len(q)
    BY <1>1, <1>2, Joining
  <2> QED
    BY <1>2, <1>3, <2>1, <2>2 DEF Printable
<1>5. t \in Text /\ StartsWith(t, w)
  <2>1. /\ t \in Text /\ Len(t) = Len(w) + Len(rest)
        /\ \A i \in 1..Len(w) : t[i] = w[i]
    BY <1>4, Joining
  <2>2. Len(w) \in Nat /\ Len(rest) \in Nat
    BY <1>4, TextFacts
  <2>3. Len(w) <= Len(t)
    BY SMT, <2>1, <2>2
  <2> QED
    BY <2>1, <2>3 DEF StartsWith
<1> HIDE DEF t
<1>6. /\ StartsWith(t, f[0])
      /\ CharsOf(t)[Len(f[0]) + 1] = Found(Len(a) + 2, SubSeq(s, 0 + 1, Len(s)))
  BY <1>0, <1>3, <1>5, WrittenIsRead DEF q
<1>7. Peek(t, 1) = Quote /\ Len(f[0]) + 1 = 2
  <2>1. f[0] = q
    BY OutOfIs DEF q
  <2>2. Len(q) <= Len(t) /\ t[1] = Quote
    <3>1. 1 \in 1..1
      BY SMT
    <3> QED
      BY <1>2, <1>6, <2>1, <3>1 DEF StartsWith
  <2>3. Peek(t, 1) = Quote
    BY <1>2, <2>2 DEF Peek
  <2>4. Len(f[0]) = 1
    BY <1>2, <2>1
  <2>5. 1 + 1 = 2
    BY SMT
  <2> HIDE DEF f
  <2> QED
    BY <2>3, <2>4, <2>5
<1>8. ParseString(t, 1) = Found(Len(a) + 2, SubSeq(s, 0 + 1, Len(s)))
  <2>1. ParseString(t, 1) = CharsOf(t)[1 + 1]
    BY <1>7, ParseStringIs, Zenon
  <2>2. 1 + 1 = 2
    BY SMT
  <2> QED
    BY <1>6, <1>7, <2>1, <2>2
<1>9. SubSeq(s, 0 + 1, Len(s)) = s
  BY SMT DEF Text
<1>10. Len(a) + 2 = Len(w) + 1
  BY SMT, <1>1, <1>4
<1>11. DOMAIN w = 1..Len(w)
  BY <1>4, TextFacts
<1>12. \A i \in DOMAIN w : w[i] >= 32
  BY <1>4, <1>11 DEF Printable
<1>13. ParseString(t, 1) = Found(Len(w) + 1, s)
  BY <1>8, <1>9, <1>10
<1> QED
  BY <1>12, <1>13 DEF t, w

-----------------------------------------------------------------------------
(* The properties of the runs, of every text that can grow.  All they need *)
(* to know of what grows is that it is a text.                             *)
IsText == text \in Text

(* What moves is a text, whatever the pieces and the bounds.               *)
THEOREM TextInvariant == TextSpec => []IsText
<1>1. NoText => IsText
  BY SMT DEF NoText, IsText, Text
<1>2. IsText /\ [Grow]_textVars => IsText'
  <2> SUFFICES ASSUME IsText, [Grow]_textVars PROVE IsText'
    OBVIOUS
  <2>1. CASE Grow
    <3>1. PICK p \in Pieces[kind] : text' = text \o p
      BY <2>1 DEF Grow
    <3>2. p \in Text
      BY <2>1, PiecesAssumption DEF Grow, TextKinds, Text
    <3>3. text \o p \in Text
      BY <3>2, SMT DEF IsText, Text
    <3> QED
      BY <2>1, <3>1, <3>3 DEF Grow, IsText
  <2>2. CASE UNCHANGED textVars
    BY <2>2 DEF textVars, IsText
  <2> QED
    BY <2>1, <2>2
<1> QED
  BY <1>1, <1>2, PTL DEF TextSpec

(* A text is a sequence of integers, and what is left or right of a place  *)
(* in it is a text.                                                        *)
LEMMA TextCut ==
    ASSUME NEW t \in Text
    PROVE  /\ t \in Seq(Int)
           /\ \A n \in 0..Len(t) : Upto(t, n) \in Text /\ From(t, n + 1) \in Text
<1>1. t \in Seq(Int)
  BY SMT DEF Text, CodePoints
<1>2. ASSUME NEW n \in 0..Len(t) PROVE Upto(t, n) \in Text /\ From(t, n + 1) \in Text
  BY SMT DEF Text, Upto, From
<1> QED
  BY <1>1, <1>2

(* Base64 is taken in full or not at all (base64.rs:53-118), whatever text *)
(* has grown.                                                              *)
THEOREM AlwaysStrict == TextSpec => []Base64Strict
<1>1. IsText => Base64Strict
  BY TextCut, DecodingIsStrict DEF IsText, Base64Strict
<1> QED
  BY <1>1, TextInvariant, PTL

(* The scanner of numbers takes the numbers of the grammar, and all of     *)
(* each (json.rs:286-326), at every place of every text.                   *)
THEOREM AlwaysScansNumbers == TextSpec => []NumbersScanned
<1>1. IsText => NumbersScanned
  BY ScanningNumbers DEF IsText, NumbersScanned
<1> QED
  BY <1>1, TextInvariant, PTL

(* The scanner of strings finds the strings of the grammar with the        *)
(* characters they stand for (json.rs:328-410), at every place of every    *)
(* text.                                                                   *)
THEOREM AlwaysScansStrings == TextSpec => []StringsScanned
<1>1. IsText => StringsScanned
  BY ScanningStrings DEF IsText, StringsScanned
<1> QED
  BY <1>1, TextInvariant, PTL

(* What is written of a string is read back as that string, whatever comes *)
(* after it, and without a control character (json.rs:190-212).            *)
THEOREM AlwaysSurvives == TextSpec => []StringsSurvive
<1>1. ASSUME IsText, NEW n \in 0..Len(text)
      PROVE  LET s       == Upto(text, n)
                 written == WriteString(s)
             IN /\ \A i \in DOMAIN written : written[i] >= 32
                /\ ParseString(written \o From(text, n + 1), 1) = Found(Len(written) + 1, s)
  <2>1. Upto(text, n) \in Text /\ From(text, n + 1) \in Text
    BY <1>1, TextCut DEF IsText
  <2> QED
    BY <2>1, StringsRoundTrip
<1>2. IsText => StringsSurvive
  BY <1>1 DEF StringsSurvive
<1> QED
  BY <1>2, TextInvariant, PTL
=============================================================================
