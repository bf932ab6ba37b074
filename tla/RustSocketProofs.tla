-------------------------- MODULE RustSocketProofs --------------------------
(***************************************************************************)
(* What holds of RustSocket for every line limit, every chunking of the    *)
(* stream and every behaviour of the peer, with proofs.                    *)
(***************************************************************************)
EXTENDS RustSocket, SequenceTheorems, TLAPS

USE DEF linkVars

-----------------------------------------------------------------------------
(* The framer.                                                             *)

(* A part of a sequence, and the same part found elsewhere.                *)
LEMMA Part ==
  ASSUME NEW S, NEW s \in Seq(S), NEW m \in Nat, NEW n \in Int, m >= 1, n <= Len(s)
  PROVE  /\ SubSeq(s, m, n) \in Seq(S)
         /\ Len(SubSeq(s, m, n)) = IF m <= n THEN n - m + 1 ELSE 0
         /\ \A i \in 1..n - m + 1 : SubSeq(s, m, n)[i] = s[m + i - 1]
<1>1. \A i \in m..n : s[i] \in S
  OBVIOUS
<1> QED
  BY <1>1, SubSeqProperties

LEMMA SamePart ==
  ASSUME NEW S, NEW s \in Seq(S), NEW t \in Seq(S),
         NEW m \in Int, NEW n \in Int, NEW d \in Int, NEW f \in Int, NEW g \in Int,
         m >= 1, n <= Len(s), f = m + d, f >= 1, g = n + d, g <= Len(t),
         \A i \in m..n : s[i] = t[i + d]
  PROVE  SubSeq(s, m, n) = SubSeq(t, f, g)
<1> DEFINE u == SubSeq(s, m, n)
           v == SubSeq(t, f, g)
<1>1. m \in Nat /\ f \in Nat
  OBVIOUS
<1>2. /\ u \in Seq(S) /\ Len(u) = (IF m <= n THEN n - m + 1 ELSE 0)
      /\ \A i \in 1..n - m + 1 : u[i] = s[m + i - 1]
  BY <1>1, Part
<1>3. /\ v \in Seq(S) /\ Len(v) = (IF f <= g THEN g - f + 1 ELSE 0)
      /\ \A i \in 1..g - f + 1 : v[i] = t[f + i - 1]
  BY <1>1, Part
<1> HIDE DEF u, v
<1>4. Len(u) = Len(v)
  BY <1>2, <1>3
<1>5. ASSUME NEW i \in 1..Len(u) PROVE u[i] = v[i]
  <2>1. i \in 1..n - m + 1 /\ i \in 1..g - f + 1
    BY <1>2
  <2>2. u[i] = s[m + i - 1] /\ v[i] = t[f + i - 1]
    BY <1>2, <1>3, <2>1
  <2>3. m + i - 1 \in m..n /\ m + i - 1 + d = f + i - 1
    BY <2>1
  <2> QED
    BY <2>2, <2>3
<1> QED
  BY <1>2, <1>3, <1>4, <1>5, SeqEqual DEF u, v

(* A line of the stream z, from s to its newline at e, handed out as l.    *)
LineAt(z, s, e, l) == /\ e \in s..Len(z)
                      /\ z[e].nl
                      /\ \A q \in s..e - 1 : ~z[q].nl
                      /\ l = SubSeq(z, s, e - 1)

(* It is still that line when more bytes have come.                        *)
LEMMA LineKept ==
  ASSUME NEW y \in Seq(Byte), NEW z \in Seq(Byte), Len(y) <= Len(z),
         \A i \in 1..Len(y) : z[i] = y[i],
         NEW s \in Nat, s >= 1, NEW e, NEW l, LineAt(y, s, e, l)
  PROVE  LineAt(z, s, e, l)
<1>1. /\ Len(y) \in Nat /\ Len(z) \in Nat
      /\ e \in Nat /\ s <= e /\ e <= Len(y) /\ y[e].nl /\ l = SubSeq(y, s, e - 1)
  BY DEF LineAt
<1>2. e \in s..Len(z) /\ z[e] = y[e]
  BY <1>1
<1>3. ASSUME NEW q \in s..e - 1 PROVE ~z[q].nl
  <2>1. q \in 1..Len(y) /\ ~y[q].nl
    BY <1>1 DEF LineAt
  <2> QED
    BY <2>1
<1>4. SubSeq(y, s, e - 1) = SubSeq(z, s, e - 1)
  <2>1. /\ s \in Int /\ e - 1 \in Int /\ 0 \in Int /\ e - 1 <= Len(y) /\ e - 1 <= Len(z)
        /\ s = s + 0 /\ e - 1 = e - 1 + 0
    BY <1>1
  <2>2. \A i \in s..e - 1 : y[i] = z[i + 0]
    BY <1>1
  <2> QED
    BY <2>1, <2>2, SamePart
<1> QED
  BY <1>1, <1>2, <1>3, <1>4 DEF LineAt

LEMMA FramedLines ==
  FramedAsSent <=> /\ Len(lines) = Len(ends)
                   /\ Taken <= Len(stream)
                   /\ buf = SubSeq(stream, Taken + 1, Len(stream))
                   /\ scanned <= Len(buf)
                   /\ \A p \in 1..scanned : ~buf[p].nl
                   /\ \A k \in DOMAIN ends : LineAt(stream, StartOf(k), ends[k], lines[k])
  BY Zenon DEF FramedAsSent, LineAt

FramerTypeOK == /\ buf \in Seq(Byte) /\ scanned \in Nat
                /\ stream \in Seq(Byte) /\ ends \in Seq(Nat) /\ lines \in Seq(Seq(Byte))

LEMMA TakenType == ASSUME FramerTypeOK PROVE Taken \in Nat
  BY DEF FramerTypeOK, Taken

(* A chunk keeps the framer well typed, whatever the framer makes of it.   *)
LEMMA FramerType ==
  ASSUME FramerTypeOK, NEW chunk \in Seq(Byte), Pops(chunk) \/ Keeps(chunk)
  PROVE  FramerTypeOK'
<1> DEFINE b == buf \o chunk
<1>1. b \in Seq(Byte) /\ stream \o chunk \in Seq(Byte) /\ Len(b) \in Nat
  BY DEF FramerTypeOK
<1>2. CASE Pops(chunk)
  <2> PICK p \in NewlinesAfter(b, scanned) :
        /\ buf' = SubSeq(b, p + 1, Len(b))
        /\ scanned' = 0
        /\ lines' = Append(lines, SubSeq(b, 1, p - 1))
        /\ ends' = Append(ends, Taken + p)
        /\ stream' = stream \o chunk
    BY <1>2 DEF Pops
  <2>1. p \in Nat /\ p >= 1 /\ p <= Len(b) /\ p - 1 \in Int /\ p + 1 \in Nat
    BY <1>1 DEF FramerTypeOK, NewlinesAfter
  <2> HIDE DEF b
  <2>2. SubSeq(b, p + 1, Len(b)) \in Seq(Byte) /\ SubSeq(b, 1, p - 1) \in Seq(Byte)
    BY <1>1, <2>1, Part
  <2>3. Taken + p \in Nat
    BY <2>1, TakenType
  <2> QED
    BY <1>1, <2>2, <2>3 DEF FramerTypeOK
<1>3. CASE Keeps(chunk)
  BY <1>1, <1>3 DEF Keeps, FramerTypeOK
<1> QED
  BY <1>2, <1>3

(* The buffer with a chunk pushed is the end of the stream with it pushed. *)
LEMMA Pushed ==
  ASSUME FramerTypeOK, FramedAsSent, NEW chunk \in Seq(Byte)
  PROVE  /\ buf \o chunk \in Seq(Byte) /\ stream \o chunk \in Seq(Byte)
         /\ Len(stream) \in Nat /\ Len(stream) <= Len(stream \o chunk)
         /\ Len(stream \o chunk) \in Nat
         /\ Len(buf \o chunk) = Len(stream \o chunk) - Taken
         /\ \A i \in 1..Len(stream) : (stream \o chunk)[i] = stream[i]
         /\ \A i \in 1..Len(buf \o chunk) :
               (buf \o chunk)[i] = (stream \o chunk)[i + Taken]
         /\ Len(buf) <= Len(buf \o chunk)
         /\ \A i \in 1..Len(buf) : (buf \o chunk)[i] = buf[i]
<1>1. /\ Taken \in Nat /\ Taken <= Len(stream) /\ Len(stream) \in Nat
      /\ Len(chunk) \in Nat /\ Taken + 1 \in Nat /\ Taken + 1 >= 1
  BY TakenType DEF FramedAsSent, FramerTypeOK
<1>2. buf = SubSeq(stream, Taken + 1, Len(stream)) /\ buf \in Seq(Byte) /\ stream \in Seq(Byte)
  BY DEF FramedAsSent, FramerTypeOK
<1> HIDE DEF Taken
<1>3. /\ Len(buf) = Len(stream) - Taken
      /\ \A i \in 1..Len(buf) : buf[i] = stream[Taken + i]
  <2>1. /\ Len(buf) = IF Taken + 1 <= Len(stream) THEN Len(stream) - (Taken + 1) + 1 ELSE 0
        /\ \A i \in 1..Len(stream) - (Taken + 1) + 1 : buf[i] = stream[Taken + 1 + i - 1]
    BY <1>1, <1>2, Part
  <2>2. Len(buf) = Len(stream) - Taken
    BY <1>1, <2>1
  <2>3. ASSUME NEW i \in 1..Len(buf) PROVE buf[i] = stream[Taken + i]
    <3>1. i \in 1..Len(stream) - (Taken + 1) + 1 /\ Taken + 1 + i - 1 = Taken + i
      BY <1>1, <2>2
    <3> QED
      BY <2>1, <3>1
  <2> QED
    BY <2>2, <2>3
<1>4. /\ buf \o chunk \in Seq(Byte) /\ Len(buf \o chunk) = Len(buf) + Len(chunk)
      /\ \A i \in 1..Len(buf) + Len(chunk) :
            (buf \o chunk)[i] = IF i <= Len(buf) THEN buf[i] ELSE chunk[i - Len(buf)]
  BY <1>2, ConcatProperties
<1>5. /\ stream \o chunk \in Seq(Byte) /\ Len(stream \o chunk) = Len(stream) + Len(chunk)
      /\ \A i \in 1..Len(stream) + Len(chunk) :
            (stream \o chunk)[i] = IF i <= Len(stream) THEN stream[i]
                                   ELSE chunk[i - Len(stream)]
  BY <1>2, ConcatProperties
<1> DEFINE b == buf \o chunk
           z == stream \o chunk
<1> HIDE DEF b, z
<1>6. ASSUME NEW i \in 1..Len(b) PROVE b[i] = z[i + Taken]
  <2>1. i \in 1..Len(buf) + Len(chunk) /\ i + Taken \in 1..Len(stream) + Len(chunk)
    BY <1>1, <1>3, <1>4 DEF b
  <2>2. CASE i <= Len(buf)
    <3>1. b[i] = buf[i] /\ buf[i] = stream[Taken + i]
      BY <1>3, <1>4, <2>1, <2>2 DEF b
    <3>2. i + Taken <= Len(stream) /\ Taken + i = i + Taken
      BY <1>1, <1>3, <2>2
    <3>3. z[i + Taken] = stream[i + Taken]
      BY <1>5, <2>1, <3>2 DEF z
    <3> QED
      BY <3>1, <3>2, <3>3
  <2>3. CASE ~(i <= Len(buf))
    <3>1. b[i] = chunk[i - Len(buf)]
      BY <1>4, <2>1, <2>3 DEF b
    <3> DEFINE k == i + Taken
    <3>2. ~(k <= Len(stream)) /\ k - Len(stream) = i - Len(buf)
      BY <1>1, <1>3, <2>3
    <3>3. k \in 1..Len(stream) + Len(chunk)
      BY <2>1
    <3> HIDE DEF k
    <3>4. z[k] = chunk[k - Len(stream)]
      BY <1>5, <3>2, <3>3 DEF z
    <3> QED
      BY <3>1, <3>2, <3>4 DEF k
  <2> QED
    BY <2>2, <2>3
<1>7. /\ \A i \in 1..Len(stream) : z[i] = stream[i]
      /\ \A i \in 1..Len(buf) : b[i] = buf[i]
      /\ Len(b) = Len(z) - Taken /\ Len(buf) <= Len(b) /\ Len(stream) <= Len(z)
      /\ Len(z) \in Nat
  BY <1>1, <1>3, <1>4, <1>5 DEF b, z
<1> QED
  BY <1>1, <1>4, <1>5, <1>6, <1>7 DEF b, z

(* The lines of before are where they were.                                *)
LEMMA OldLines ==
  ASSUME FramerTypeOK, FramedAsSent, NEW z \in Seq(Byte), Len(stream) <= Len(z),
         \A i \in 1..Len(stream) : z[i] = stream[i],
         NEW k \in 1..Len(ends)
  PROVE  LineAt(z, StartOf(k), ends[k], lines[k])
<1>1. DOMAIN ends = 1..Len(ends) /\ stream \in Seq(Byte)
  BY DEF FramerTypeOK
<1>2. LineAt(stream, StartOf(k), ends[k], lines[k])
  BY <1>1, FramedLines
<1>3. StartOf(k) \in Nat /\ StartOf(k) >= 1
  BY DEF StartOf, FramerTypeOK
<1> QED
  BY <1>1, <1>2, <1>3, LineKept

(* However the stream is cut into chunks: the search for the newline may   *)
(* start at scanned, and what is drained is exactly one line.              *)
LEMMA FramedPops ==
  ASSUME FramerTypeOK, FramedAsSent, NEW chunk \in Seq(Byte), Pops(chunk)
  PROVE  FramedAsSent'
<1> DEFINE b == buf \o chunk
           z == stream \o chunk
           T == Taken
<1> PICK n : n = Len(ends)
  OBVIOUS
<1> PICK p \in NewlinesAfter(b, scanned) :
      /\ \A q \in NewlinesAfter(b, scanned) : p <= q
      /\ buf' = SubSeq(b, p + 1, Len(b))
      /\ scanned' = 0
      /\ lines' = Append(lines, SubSeq(b, 1, p - 1))
      /\ ends' = Append(ends, T + p)
      /\ stream' = z
  BY DEF Pops
<1>1. /\ b \in Seq(Byte) /\ z \in Seq(Byte) /\ Len(stream) \in Nat /\ Len(z) \in Nat
      /\ Len(stream) <= Len(z) /\ Len(b) = Len(z) - T /\ Len(buf) <= Len(b)
      /\ \A i \in 1..Len(stream) : z[i] = stream[i]
      /\ \A i \in 1..Len(b) : b[i] = z[i + T]
      /\ \A i \in 1..Len(buf) : b[i] = buf[i]
  BY Pushed
<1>2. T \in Nat /\ T <= Len(stream) /\ n \in Nat
  BY TakenType DEF FramedAsSent, FramerTypeOK
<1>3. FramerTypeOK'
  BY FramerType
<1>4. n = 0 => T = 0
  <2>1. n = 0 => ends = <<>>
    BY EmptySeq DEF FramerTypeOK
  <2> QED
    BY <2>1 DEF Taken
<1>5. n # 0 => T = ends[n]
  BY DEF Taken, FramerTypeOK
<1> HIDE DEF b, z, T
<1>6. /\ p \in Nat /\ p >= 1 /\ p <= Len(b) /\ p > scanned /\ b[p].nl
      /\ Len(b) \in Nat /\ scanned \in Nat
  BY <1>1, <1>2 DEF FramerTypeOK, NewlinesAfter
<1>7. \A q \in 1..p - 1 : ~b[q].nl
  <2> SUFFICES ASSUME NEW q \in 1..p - 1, b[q].nl PROVE FALSE
    OBVIOUS
  <2>1. CASE q <= scanned
    <3>0. Len(buf) \in Nat /\ scanned \in Nat /\ scanned <= Len(buf)
      BY DEF FramedAsSent, FramerTypeOK
    <3>1. q \in 1..scanned /\ q \in 1..Len(buf) /\ b[q] = buf[q]
      <4>1. q \in 1..scanned /\ q \in 1..Len(buf)
        BY <2>1, <3>0
      <4> QED
        BY <1>1, <4>1
    <3> QED
      BY <3>1 DEF FramedAsSent
  <2>2. CASE q > scanned
    <3>1. q \in scanned + 1..Len(b) /\ ~(p <= q)
      BY <1>6, <2>2
    <3>2. q \in NewlinesAfter(b, scanned)
      BY <3>1 DEF NewlinesAfter
    <3> QED
      BY <3>1, <3>2
  <2>3. q <= scanned \/ q > scanned
    BY <1>6
  <2> QED
    BY <2>1, <2>2, <2>3
<1>8. /\ Len(ends') = n + 1 /\ Len(lines') = n + 1
      /\ ends'[n + 1] = T + p
      /\ lines'[n + 1] = SubSeq(b, 1, p - 1)
      /\ \A k \in 1..n : ends'[k] = ends[k] /\ lines'[k] = lines[k]
      /\ DOMAIN ends' = 1..n + 1
  <2>1. Len(lines) = Len(ends)
    BY DEF FramedAsSent
  <2>2. SubSeq(b, 1, p - 1) \in Seq(Byte)
    BY <1>1, <1>6, Part
  <2>3. T + p \in Nat
    BY <1>2, <1>6
  <2>4. ends \in Seq(Nat) /\ lines \in Seq(Seq(Byte))
    BY DEF FramerTypeOK
  <2>5. /\ Len(ends') = Len(ends) + 1 /\ ends'[Len(ends) + 1] = T + p
        /\ \A k \in 1..Len(ends) : ends'[k] = ends[k]
    BY <2>3, <2>4, AppendProperties
  <2>6. /\ Len(lines') = Len(lines) + 1 /\ lines'[Len(lines) + 1] = SubSeq(b, 1, p - 1)
        /\ \A k \in 1..Len(lines) : lines'[k] = lines[k]
    BY <2>2, <2>4, AppendProperties
  <2>7. DOMAIN ends' = 1..Len(ends')
    BY <1>3 DEF FramerTypeOK
  <2> QED
    BY <2>1, <2>5, <2>6, <2>7
<1>9. Taken' = T + p
  <2>1. ends' # <<>>
    BY <1>2, <1>8
  <2> QED
    BY <1>8, <2>1 DEF Taken
<1>10. buf' = SubSeq(z, T + p + 1, Len(z))
  <2> DEFINE m == p + 1
             f == T + p + 1
  <2>1. /\ m \in Int /\ Len(b) \in Int /\ T \in Int /\ m >= 1 /\ Len(z) \in Int
        /\ f \in Int /\ f = m + T /\ f >= 1
        /\ Len(z) = Len(b) + T /\ Len(b) <= Len(b) /\ Len(z) <= Len(z)
    BY <1>1, <1>2, <1>6
  <2>2. \A i \in m..Len(b) : b[i] = z[i + T]
    BY <1>1, <1>6
  <2>3. buf' = SubSeq(b, m, Len(b))
    OBVIOUS
  <2> HIDE DEF m, f
  <2>4. SubSeq(b, m, Len(b)) = SubSeq(z, f, Len(z))
    BY <1>1, <2>1, <2>2, SamePart
  <2> QED
    BY <2>3, <2>4 DEF f
<1>11. SubSeq(b, 1, p - 1) = SubSeq(z, T + 1, T + p - 1)
  <2> DEFINE e == p - 1
             f == T + 1
             g == T + p - 1
  <2>1. /\ 1 \in Int /\ e \in Int /\ T \in Int /\ 1 >= 1 /\ e <= Len(b)
        /\ f \in Int /\ g \in Int /\ f = 1 + T /\ g = e + T
        /\ f >= 1 /\ g <= Len(z)
    BY <1>1, <1>2, <1>6
  <2>2. \A i \in 1..e : b[i] = z[i + T]
    BY <1>1, <1>6
  <2> HIDE DEF e, f, g
  <2>3. SubSeq(b, 1, e) = SubSeq(z, f, g)
    BY <1>1, <2>1, <2>2, SamePart
  <2> QED
    BY <2>3 DEF e, f, g
<1>12. ASSUME NEW k \in 1..n
       PROVE  LineAt(z, StartOf(k)', ends'[k], lines'[k])
  <2>1. ends'[k] = ends[k] /\ lines'[k] = lines[k]
    BY <1>8
  <2>2. StartOf(k)' = StartOf(k)
    <3>1. k # 1 => k - 1 \in 1..n
      BY <1>2
    <3>2. k # 1 => ends'[k - 1] = ends[k - 1]
      BY <1>8, <3>1
    <3> QED
      BY <3>2 DEF StartOf
  <2>3. LineAt(z, StartOf(k), ends[k], lines[k])
    BY <1>1, OldLines
  <2> QED
    BY <2>1, <2>2, <2>3
<1>13. LineAt(z, StartOf(n + 1)', ends'[n + 1], lines'[n + 1])
  <2>1. StartOf(n + 1)' = T + 1
    <3>1. CASE n = 0
      BY <1>4, <3>1 DEF StartOf
    <3>2. CASE n # 0
      <4>1. n \in 1..n /\ n + 1 # 1 /\ n + 1 - 1 = n
        BY <1>2, <3>2
      <4>2. ends'[n] = T
        BY <1>5, <1>8, <3>2, <4>1
      <4> QED
        BY <4>1, <4>2 DEF StartOf
    <3> QED
      BY <3>1, <3>2
  <2>2. z[T + p].nl
    <3>1. p \in 1..Len(b) /\ p + T = T + p
      BY <1>2, <1>6
    <3>2. b[p] = z[p + T]
      BY <1>1, <3>1
    <3> QED
      BY <1>6, <3>1, <3>2
  <2>3. ASSUME NEW q \in T + 1..T + p - 1 PROVE ~z[q].nl
    <3> DEFINE i == q - T
    <3>1. i \in 1..p - 1 /\ i \in 1..Len(b) /\ i + T = q
      <4>1. q \in Int /\ T + 1 <= q /\ q <= T + p - 1
        BY <1>2, <1>6
      <4> QED
        BY <1>2, <1>6, <4>1
    <3> HIDE DEF i
    <3>2. b[i] = z[i + T]
      BY <1>1, <3>1
    <3> QED
      BY <1>7, <3>1, <3>2
  <2>4. T + p \in T + 1..Len(z) /\ T + p - 1 = (T + p) - 1
    BY <1>1, <1>2, <1>6
  <2>5. LineAt(z, T + 1, T + p, SubSeq(z, T + 1, T + p - 1))
    BY <2>2, <2>3, <2>4 DEF LineAt
  <2> QED
    BY <1>8, <1>11, <2>1, <2>5
<1>14. ASSUME NEW k \in DOMAIN ends'
       PROVE  LineAt(stream', StartOf(k)', ends'[k], lines'[k])
  <2>1. k \in 1..n \/ k = n + 1
    BY <1>2, <1>8
  <2> QED
    BY <1>12, <1>13, <2>1
<1>15. T + p <= Len(z) /\ 0 <= Len(buf')
  BY <1>1, <1>2, <1>3, <1>6 DEF FramerTypeOK
<1>16. \A q \in 1..scanned' : ~buf'[q].nl
  OBVIOUS
<1>17. Len(lines') = Len(ends')
  BY <1>8
<1>18. FramedAsSent' <=>
         /\ Len(lines') = Len(ends')
         /\ Taken' <= Len(stream')
         /\ buf' = SubSeq(stream', Taken' + 1, Len(stream'))
         /\ scanned' <= Len(buf')
         /\ \A q \in 1..scanned' : ~buf'[q].nl
         /\ \A k \in DOMAIN ends' : LineAt(stream', StartOf(k)', ends'[k], lines'[k])
  BY Zenon DEF FramedAsSent, LineAt
<1> QED
  BY <1>9, <1>10, <1>14, <1>15, <1>16, <1>17, <1>18

LEMMA FramedKeeps ==
  ASSUME FramerTypeOK, FramedAsSent, NEW chunk \in Seq(Byte), Keeps(chunk)
  PROVE  FramedAsSent'
<1> DEFINE b == buf \o chunk
           z == stream \o chunk
           T == Taken
<1>1. /\ b \in Seq(Byte) /\ z \in Seq(Byte) /\ Len(stream) \in Nat /\ Len(z) \in Nat
      /\ Len(stream) <= Len(z) /\ Len(b) = Len(z) - T /\ Len(buf) <= Len(b)
      /\ \A i \in 1..Len(stream) : z[i] = stream[i]
      /\ \A i \in 1..Len(b) : b[i] = z[i + T]
      /\ \A i \in 1..Len(buf) : b[i] = buf[i]
  BY Pushed
<1>2. T \in Nat /\ T <= Len(stream) /\ scanned \in Nat
  BY TakenType DEF FramedAsSent, FramerTypeOK
<1>3. /\ NewlinesAfter(b, scanned) = {} /\ buf' = b /\ scanned' = Len(b)
      /\ stream' = z /\ ends' = ends /\ lines' = lines
  BY DEF Keeps
<1>4. Taken' = T
  BY <1>3 DEF Taken
<1> HIDE DEF b, z, T
<1>5. ASSUME NEW q \in 1..Len(b), b[q].nl PROVE FALSE
  <2>1. CASE q <= scanned
    <3>0. Len(buf) \in Nat /\ scanned \in Nat /\ scanned <= Len(buf)
      BY DEF FramedAsSent, FramerTypeOK
    <3>1. q \in 1..scanned /\ q \in 1..Len(buf) /\ b[q] = buf[q]
      <4>1. q \in 1..scanned /\ q \in 1..Len(buf)
        BY <2>1, <3>0
      <4> QED
        BY <1>1, <4>1
    <3> QED
      BY <1>5, <3>1 DEF FramedAsSent
  <2>2. CASE q > scanned
    <3>1. q \in scanned + 1..Len(b)
      BY <1>1, <1>2, <2>2
    <3>2. q \in NewlinesAfter(b, scanned)
      BY <1>5, <3>1 DEF NewlinesAfter
    <3> QED
      BY <1>3, <3>2
  <2>3. q <= scanned \/ q > scanned
    BY <1>2
  <2> QED
    BY <2>1, <2>2, <2>3
<1>6. b = SubSeq(z, T + 1, Len(z))
  <2>1. /\ 1 \in Int /\ Len(b) \in Int /\ T \in Int /\ 1 >= 1 /\ Len(b) <= Len(b)
        /\ T + 1 \in Int /\ Len(z) \in Int /\ T + 1 = 1 + T /\ Len(z) = Len(b) + T
        /\ T + 1 >= 1 /\ Len(z) <= Len(z)
    BY <1>1, <1>2
  <2>2. SubSeq(b, 1, Len(b)) = SubSeq(z, T + 1, Len(z))
    BY <1>1, <2>1, SamePart
  <2> QED
    BY <1>1, <2>2, SubSeqFull
<1>7. ASSUME NEW k \in DOMAIN ends'
      PROVE  LineAt(stream', StartOf(k)', ends'[k], lines'[k])
  <2>1. k \in 1..Len(ends)
    BY <1>3 DEF FramerTypeOK
  <2>2. StartOf(k)' = StartOf(k)
    BY <1>3 DEF StartOf
  <2>3. LineAt(z, StartOf(k), ends[k], lines[k])
    BY <1>1, <2>1, OldLines
  <2> QED
    BY <1>3, <2>2, <2>3
<1>8. T <= Len(z) /\ Len(b) <= Len(b)
  BY <1>1, <1>2
<1>9. \A q \in 1..scanned' : ~buf'[q].nl
  BY <1>3, <1>5
<1>10. Len(lines') = Len(ends')
  BY <1>3 DEF FramedAsSent
<1>11. FramedAsSent' <=>
         /\ Len(lines') = Len(ends')
         /\ Taken' <= Len(stream')
         /\ buf' = SubSeq(stream', Taken' + 1, Len(stream'))
         /\ scanned' <= Len(buf')
         /\ \A q \in 1..scanned' : ~buf'[q].nl
         /\ \A k \in DOMAIN ends' : LineAt(stream', StartOf(k)', ends'[k], lines'[k])
  BY Zenon DEF FramedAsSent, LineAt
<1> QED
  BY <1>3, <1>4, <1>6, <1>7, <1>8, <1>9, <1>10, <1>11

-----------------------------------------------------------------------------
(* Types.                                                                  *)

PeerTypeOK == /\ peer \in {"booting", "serving", "gone"}
              /\ toPeer \in Seq(Request) /\ fromPeer \in Seq(Byte)
              /\ cut \in BOOLEAN /\ strays \in BOOLEAN
              /\ fits \in BOOLEAN /\ polls \in BOOLEAN

SessionTypeOK ==
    /\ pc \in {"dial", "hello", "idle", "write", "read", "closeWrite", "closeRead", "gone"}
    /\ back \in {"idle", "gone"}
    /\ issued \in 0..MaxRequests
    /\ outcome \in [Ids -> [re : 0..MaxRequests, kind : Outcomes]]
    /\ closed \in BOOLEAN /\ bounded \in BOOLEAN

ReadTypeOK ==
    /\ addrs \in Nat
    /\ terminal \in ReadErrors \cup {"none", "closed"}
    /\ waiting \in BOOLEAN /\ left \in Int /\ signals \in 0..MaxSignals

LEMMA Types == TypeOK <=> FramerTypeOK /\ PeerTypeOK /\ SessionTypeOK /\ ReadTypeOK
  BY DEF TypeOK, FramerTypeOK, PeerTypeOK, SessionTypeOK, ReadTypeOK

(* What a read does to the framer and the stream, however it returns: it   *)
(* moves a chunk from one to the other, or touches neither.                *)
Moves(chunk) == /\ Pops(chunk) \/ Keeps(chunk)
                /\ \/ chunk = <<>> /\ fromPeer' = fromPeer
                   \/ \E n \in 1..Len(fromPeer) :
                         /\ chunk = SubSeq(fromPeer, 1, n)
                         /\ fromPeer' = SubSeq(fromPeer, n + 1, Len(fromPeer))
ReadMoves == \/ UNCHANGED <<framerVars, fromPeer>>
             \/ \E chunk \in Seq(Byte) : Moves(chunk)

LEMMA FirstPart ==
  ASSUME NEW S, NEW s \in Seq(S), NEW n \in 1..Len(s)
  PROVE  SubSeq(s, 1, n) \in Seq(S) /\ SubSeq(s, n + 1, Len(s)) \in Seq(S)
<1>1. 1 \in Nat /\ n \in Int /\ n <= Len(s) /\ n + 1 \in Nat /\ Len(s) \in Int
      /\ n + 1 >= 1 /\ Len(s) <= Len(s)
  OBVIOUS
<1> QED
  BY <1>1, Part

LEMMA ReceivesMoves ==
  ASSUME TypeOK, Receives(Pops) \/ Receives(Waits) \/ Receives(Refuses)
  PROVE  ReadMoves
<1>1. PICK n \in 1..Len(fromPeer) :
        /\ \/ Pops(SubSeq(fromPeer, 1, n)) \/ Waits(SubSeq(fromPeer, 1, n))
           \/ Refuses(SubSeq(fromPeer, 1, n))
        /\ fromPeer' = SubSeq(fromPeer, n + 1, Len(fromPeer))
  BY Zenon DEF Receives
<1>2. SubSeq(fromPeer, 1, n) \in Seq(Byte)
  BY FirstPart DEF TypeOK
<1>3. Moves(SubSeq(fromPeer, 1, n))
  BY <1>1, Zenon DEF Waits, Refuses, Moves
<1> QED
  BY <1>2, <1>3, Zenon DEF ReadMoves

LEMMA EmptyMoves ==
  ASSUME Pops(<<>>) \/ Waits(<<>>) \/ Refuses(<<>>), UNCHANGED fromPeer
  PROVE  ReadMoves
<1>1. Moves(<<>>)
  BY Zenon DEF Moves, Waits, Refuses
<1>2. <<>> \in Seq(Byte)
  BY EmptySeq
<1> QED
  BY <1>1, <1>2, Zenon DEF ReadMoves

(* Every step of the system is a read, as far as the framer can tell, or   *)
(* leaves the framer alone.                                                *)
Reading == HelloAccepted \/ HelloFailed \/ ReadGoesOn \/ CallAnswered \/ CallFailed
           \/ CallTimedOut \/ CloseRead

LEMMA GotLineMoves == ASSUME TypeOK, GotLine PROVE ReadMoves
  BY ReceivesMoves, EmptyMoves, Zenon DEF GotLine

LEMMA GotErrorMoves == ASSUME TypeOK, NEW e, GotError(e) PROVE ReadMoves
  BY ReceivesMoves, EmptyMoves, Zenon DEF GotError, ReadMoves

LEMMA ExpiredMoves == ASSUME TypeOK, Expired PROVE ReadMoves
  BY ReceivesMoves, Zenon DEF Expired, FindsNothing, ReadMoves

LEMMA ReadingMoves == ASSUME TypeOK, Reading PROVE ReadMoves
<1>1. CASE ReadGoesOn
  BY <1>1, ReceivesMoves, EmptyMoves, Zenon
     DEF ReadGoesOn, Dribbles, FindsNothing, ReadInterrupted, ReadMoves
<1>2. CASE ~ReadGoesOn
  BY <1>2, GotLineMoves, GotErrorMoves, ExpiredMoves, Zenon
     DEF Reading, HelloAccepted, HelloFailed, CallAnswered, CallFailed, CallTimedOut,
         CloseRead
<1> QED
  BY <1>1, <1>2

LEMMA OthersKeepFramer ==
  ASSUME [Next]_vars, ~Reading
  PROVE  UNCHANGED framerVars
BY Zenon
   DEF Reading, Next, User, OwnerStep, PeerStep, SetTimeout, CallRefused, CallStart, Close,
       Drop, CloseFrom, DialConnects, DialFails, DialGivesUp, CallWrite, CallWriteFails,
       CloseWrite, PeerTakes, vars, framerVars

LEMMA FramerStep == ASSUME TypeOK, [Next]_vars PROVE FramerTypeOK'
<1>1. CASE UNCHANGED framerVars
  BY <1>1, Types DEF FramerTypeOK, framerVars
<1>2. CASE Reading
  <2>1. CASE \E chunk \in Seq(Byte) : Moves(chunk)
    BY <2>1, Types, FramerType, Zenon DEF Moves
  <2> QED
    BY <1>1, <1>2, <2>1, ReadingMoves, Zenon DEF ReadMoves
<1> QED
  BY <1>1, <1>2, OthersKeepFramer

LEMMA FramedStep == ASSUME TypeOK, FramedAsSent, [Next]_vars PROVE FramedAsSent'
<1>1. CASE UNCHANGED framerVars
  BY <1>1 DEF FramedAsSent, framerVars, Taken, StartOf
<1>2. CASE Reading
  <2>1. CASE \E chunk \in Seq(Byte) : Moves(chunk)
    BY <2>1, Types, FramedPops, FramedKeeps, Zenon DEF Moves
  <2> QED
    BY <1>1, <1>2, <2>1, ReadingMoves, Zenon DEF ReadMoves
<1> QED
  BY <1>1, <1>2, OthersKeepFramer

(* What the peer says is made of bytes.                                    *)
LEMMA LineType ==
  ASSUME NEW i \in 0..MaxRequests, NEW k \in LineKinds, NEW n \in LineLengths
  PROVE  LineOf(i, k, n) \in Seq(Byte) /\ Len(LineOf(i, k, n)) = n + 1
<1>1. n \in Nat
  BY LineLengthsAssumption
<1>2. \A p \in 1..n + 1 : [id |-> i, kind |-> k, nl |-> p = n + 1] \in Byte
  BY DEF Byte
<1>3. LineOf(i, k, n) \in [1..n + 1 -> Byte]
  BY <1>2 DEF LineOf
<1>4. n + 1 \in Nat
  BY <1>1
<1> QED
  BY <1>3, <1>4

LEMMA ReadPeerType == ASSUME TypeOK, ReadMoves PROVE fromPeer' \in Seq(Byte)
<1>1. CASE \E chunk \in Seq(Byte) : Moves(chunk)
  <2>1. CASE fromPeer' = fromPeer
    BY <2>1 DEF TypeOK
  <2>2. CASE \E n \in 1..Len(fromPeer) : fromPeer' = SubSeq(fromPeer, n + 1, Len(fromPeer))
    BY <2>2, FirstPart DEF TypeOK
  <2> QED
    BY <1>1, <2>1, <2>2, Zenon DEF Moves
<1>2. CASE UNCHANGED fromPeer
  BY <1>2 DEF TypeOK
<1> QED
  BY <1>1, <1>2 DEF ReadMoves

LEMMA PeerStepType == ASSUME TypeOK, PeerStep PROVE PeerTypeOK'
<1> USE DEF TypeOK, PeerTypeOK
<1>1. CASE PeerHello
  <2>1. PICK k \in {"hello", "bad"}, n \in LineLengths : fromPeer' = fromPeer \o LineOf(0, k, n)
    BY <1>1 DEF PeerHello
  <2>2. LineOf(0, k, n) \in Seq(Byte)
    BY LineType, MaxRequestsAssumption DEF LineKinds
  <2>3. fromPeer' \in Seq(Byte)
    BY <2>1, <2>2, ConcatProperties
  <2> QED
    BY <1>1, <2>3 DEF PeerHello
<1>2. CASE PeerAnswer
  <2>1. Head(toPeer) \in Request /\ Tail(toPeer) \in Seq(Request)
    BY <1>2, HeadTailProperties DEF PeerAnswer
  <2>2. Head(toPeer).id \in 0..MaxRequests
    BY <2>1 DEF Request
  <2>3. PICK k \in {"response", "bad"}, n \in LineLengths :
           fromPeer' = fromPeer \o LineOf(Head(toPeer).id, k, n)
    BY <1>2 DEF PeerAnswer
  <2>4. LineOf(Head(toPeer).id, k, n) \in Seq(Byte)
    BY <2>2, LineType DEF LineKinds
  <2>5. fromPeer' \in Seq(Byte)
    BY <2>3, <2>4, ConcatProperties
  <2> QED
    BY <1>2, <2>1, <2>5 DEF PeerAnswer
<1>3. CASE PeerGone
  <2>1. PICK n \in 0..Len(fromPeer) : fromPeer' = SubSeq(fromPeer, 1, n)
    BY <1>3 DEF PeerGone
  <2>2. 1 \in Nat /\ n \in Int /\ 1 >= 1 /\ n <= Len(fromPeer)
    BY <2>1
  <2>3. fromPeer' \in Seq(Byte)
    BY <2>1, <2>2, Part
  <2> QED
    BY <1>3, <2>3 DEF PeerGone
<1> QED
  BY <1>1, <1>2, <1>3 DEF PeerStep

LEMMA Submits ==
  ASSUME TypeOK, NEW r \in Request, Sends(r)
  PROVE  toPeer' \in Seq(Request) /\ cut' \in BOOLEAN
<1>1. [r EXCEPT !.op = IF cut THEN "call" ELSE @] \in Request
  BY DEF Request
<1> QED
  BY <1>1, AppendProperties DEF Sends, TypeOK

LEMMA PeerType == ASSUME TypeOK, [Next]_vars PROVE PeerTypeOK'
<1> USE DEF PeerTypeOK
<1>1. CASE Reading
  <2>1. UNCHANGED <<peer, toPeer, linkVars>>
    BY <1>1 DEF Reading, HelloAccepted, HelloFailed, ReadGoesOn, CallAnswered, CallFailed,
                CallTimedOut, CloseRead
  <2> QED
    BY <1>1, <2>1, ReadingMoves, ReadPeerType DEF TypeOK
<1>2. CASE PeerStep
  BY <1>2, PeerStepType
<1>3. ASSUME NEW r \in Request, Written(r) \/ WriteFails(r) PROVE PeerTypeOK'
  BY <1>3, Submits DEF Written, WriteFails, TypeOK
<1>4. CASE UNCHANGED peerVars
  BY <1>4 DEF peerVars, TypeOK
<1>5. CallRequest \in Request /\ CloseRequest \in Request
  BY MaxRequestsAssumption DEF CallRequest, CloseRequest, Request, TypeOK
<1>6. CASE CallWrite \/ CallWriteFails \/ CloseWrite
  BY <1>3, <1>5, <1>6, Zenon DEF CallWrite, CallWriteFails, CloseWrite
<1>10. CASE PeerTakes
  <2>1. Sends(CallRequest) \/ Sends(CloseRequest)
    BY <1>10 DEF PeerTakes
  <2>2. toPeer' \in Seq(Request) /\ cut' \in BOOLEAN
    BY <1>5, <2>1, Submits
  <2> QED
    BY <1>10, <2>2 DEF PeerTakes, TypeOK
<1>7. CASE User
  BY <1>4, <1>7 DEF User, SetTimeout, CallRefused, CallStart, Close, Drop, CloseFrom
<1>8. CASE DialConnects \/ DialFails \/ DialGivesUp
  BY <1>4, <1>8 DEF DialConnects, DialFails, DialGivesUp
<1>9. CASE UNCHANGED vars
  BY <1>4, <1>9 DEF vars
<1> QED
  BY <1>1, <1>2, <1>6, <1>7, <1>8, <1>9, <1>10, Zenon DEF Next, OwnerStep, Reading

-----------------------------------------------------------------------------
(* What is on its way.                                                     *)
(*                                                                         *)
(* A caller is handed its own answer because, as long as the connection    *)
(* can still hand one out (Live), the bytes on their way, in the framer or *)
(* in the stream, are at most one line, of the request in progress: one is *)
(* read only after its request was written, the next is written only after *)
(* it was read, and a call that gives up on its answer ends Live, by a     *)
(* memoized error, by closing the session or, if its write failed, by      *)
(* having sent the request all the same.                                   *)

Live    == terminal = "none" /\ ~closed /\ pc # "gone" /\ ~strays
Calling == {"write", "read"}
Wire    == buf \o fromPeer

(* One line at most, not empty, its newline last.                          *)
OneLine(w) == \A p \in 1..Len(w) : w[p].id = issued /\ (w[p].nl => 1 < p /\ p = Len(w))

WireInv ==
    Live =>
        /\ OneLine(Wire)
        /\ toPeer # <<>> => Wire = <<>> /\ Len(toPeer) = 1 /\ Head(toPeer).id = issued
        /\ pc \in {"dial", "hello"} => toPeer = <<>> /\ (peer = "booting" => Wire = <<>>)
        /\ pc \in {"idle", "write"} => toPeer = <<>> /\ Wire = <<>>
        /\ pc \in {"idle", "write", "read"} => peer # "booting"

(* Where the owner is, against what is closed.                             *)
StageInv ==
    /\ pc \in {"dial", "hello"} => issued = 0
    /\ pc \in {"closeWrite", "closeRead"} => closed
    /\ pc \in {"dial", "hello"} \cup Calling => ~closed /\ back = "idle"
    /\ pc = "idle" => back = "idle"
    /\ pc = "gone" => closed \/ back = "gone"

(* Requests are issued in order, the last one is the one in progress.      *)
OrderInv ==
    /\ pc \in Calling => issued \in Ids
    /\ \A i \in Ids : /\ i > issued => outcome[i].kind = "none"
                      /\ i <= issued => outcome[i].kind # "none"
                      /\ outcome[i].kind = "pending" <=> i = issued /\ pc \in Calling

(* A read moves bytes along the wire.                                      *)
LEMMA WireSplit ==
  ASSUME TypeOK, NEW chunk \in Seq(Byte), Moves(chunk)
  PROVE  /\ Wire = (buf \o chunk) \o fromPeer'
         /\ fromPeer' \in Seq(Byte) /\ buf \o chunk \in Seq(Byte)
<1>1. fromPeer \in Seq(Byte) /\ buf \in Seq(Byte)
  BY DEF TypeOK
<1>2. fromPeer' \in Seq(Byte) /\ fromPeer = chunk \o fromPeer'
  <2>1. CASE chunk = <<>> /\ fromPeer' = fromPeer
    BY <1>1, <2>1, ConcatEmptySeq
  <2>2. CASE \E n \in 1..Len(fromPeer) : /\ chunk = SubSeq(fromPeer, 1, n)
                                         /\ fromPeer' = SubSeq(fromPeer, n + 1, Len(fromPeer))
    <3> PICK n \in 1..Len(fromPeer) : /\ chunk = SubSeq(fromPeer, 1, n)
                                      /\ fromPeer' = SubSeq(fromPeer, n + 1, Len(fromPeer))
      BY <2>2
    <3>1. /\ 1 \in 1..Len(fromPeer) + 1 /\ n \in 1 - 1..Len(fromPeer)
          /\ Len(fromPeer) \in n..Len(fromPeer)
      BY <1>1
    <3>2. SubSeq(fromPeer, 1, n) \o SubSeq(fromPeer, n + 1, Len(fromPeer))
             = SubSeq(fromPeer, 1, Len(fromPeer))
      BY <1>1, <3>1, ConcatAdjacentSubSeq
    <3> QED
      BY <1>1, <3>2, FirstPart, SubSeqFull
  <2> QED
    BY <2>1, <2>2, Zenon DEF Moves
<1>3. buf \o (chunk \o fromPeer') = (buf \o chunk) \o fromPeer'
  BY <1>1, <1>2, ConcatAssociative
<1>4. buf \o chunk \in Seq(Byte)
  BY <1>1, ConcatProperties
<1> QED
  BY <1>2, <1>3, <1>4 DEF Wire

LEMMA KeepsWire ==
  ASSUME TypeOK, NEW chunk \in Seq(Byte), Moves(chunk), Keeps(chunk)
  PROVE  Wire' = Wire
  BY WireSplit, Zenon DEF Keeps, Wire

(* A line handed out moves what is taken of the stream to its end.         *)
LEMMA TakenMoves ==
  ASSUME NEW m \in Nat, NEW s \in Seq(Nat), s = ends, ends' = Append(s, m)
  PROVE  Taken' = m /\ ends' # <<>> /\ Len(ends') = Len(s) + 1 /\ Len(s) \in Nat
<1>1. /\ Append(s, m) \in Seq(Nat) /\ Append(s, m) # <<>>
      /\ Len(Append(s, m)) = Len(s) + 1 /\ Append(s, m)[Len(s) + 1] = m
  BY AppendProperties
<1> QED
  BY <1>1 DEF Taken

(* The line that is popped was all there was.                              *)
LEMMA PopsWire ==
  ASSUME TypeOK, FramedAsSent, NEW chunk \in Seq(Byte), Moves(chunk), Pops(chunk),
         OneLine(Wire)
  PROVE  Wire # <<>> /\ Wire' = <<>> /\ LastLine.id = issued
<1> DEFINE b == buf \o chunk
           w == Wire
<1>1. w = b \o fromPeer' /\ fromPeer' \in Seq(Byte) /\ b \in Seq(Byte)
  BY WireSplit
<1>2. PICK p \in NewlinesAfter(b, scanned) :
        /\ buf' = SubSeq(b, p + 1, Len(b))
        /\ ends' = Append(ends, Taken + p)
        /\ stream' = stream \o chunk
  BY DEF Pops
<1>0. \A i \in 1..Len(b) : b[i] = (stream \o chunk)[i + Taken]
  BY Types, Pushed
<1> HIDE DEF b, w
<1>3. /\ Len(w) = Len(b) + Len(fromPeer') /\ Len(b) \in Nat /\ Len(fromPeer') \in Nat
      /\ \A i \in 1..Len(b) : w[i] = b[i]
  BY <1>1, ConcatProperties
<1>4. p \in 1..Len(b) /\ b[p].nl
  BY <1>3 DEF NewlinesAfter, TypeOK
<1>5. OneLine(w)
  BY DEF w
<1>6. 1 < p /\ p = Len(w)
  <2>1. w[p] = b[p] /\ p \in 1..Len(w)
    BY <1>3, <1>4
  <2> QED
    BY <1>4, <1>5, <2>1 DEF OneLine
<1>7. p = Len(b) /\ fromPeer' = <<>>
  <2>1. p = Len(b) /\ Len(fromPeer') = 0
    BY <1>3, <1>4, <1>6
  <2> QED
    BY <1>1, <2>1, EmptySeq
<1>8. buf' = <<>>
  <2>1. p + 1 \in Int /\ Len(b) \in Int /\ Len(b) < p + 1
    BY <1>3, <1>4, <1>7
  <2> QED
    BY <1>2, <2>1, SubSeqEmpty
<1>9. Wire' = <<>>
  BY <1>7, <1>8, ConcatEmptySeq, EmptySeq DEF Wire
<1>10. w[p].id = issued /\ w[p] = b[p] /\ w # <<>>
  <2>1. p \in 1..Len(w) /\ p \in 1..Len(b)
    BY <1>3, <1>4, <1>6
  <2> QED
    BY <1>3, <1>5, <2>1 DEF OneLine
<1>11. LastLine = b[p]
  <2>1. Taken \in Nat /\ p \in Nat
    BY <1>4, TakenType, Types
  <2>2. ends \in Seq(Nat) /\ Taken + p \in Nat
    BY <2>1 DEF TypeOK
  <2>3. Taken' = Taken + p
    BY <1>2, <2>2, TakenMoves
  <2>4. p + Taken = Taken + p
    BY <2>1
  <2>5. b[p] = (stream \o chunk)[p + Taken]
    BY <1>0, <1>4
  <2> QED
    BY <1>2, <2>3, <2>4, <2>5, Zenon DEF LastLine
<1> QED
  BY <1>9, <1>10, <1>11 DEF w

LEMMA GotLineWire ==
  ASSUME TypeOK, FramedAsSent, WireInv, ~closed, pc # "gone", ~strays, GotLine
  PROVE  Wire # <<>> /\ Wire' = <<>> /\ LastLine.id = issued
<1>1. Live /\ OneLine(Wire)
  BY DEF GotLine, Live, WireInv
<1>2. CASE Pops(<<>>) /\ UNCHANGED fromPeer
  <2>1. <<>> \in Seq(Byte)
    BY EmptySeq
  <2>2. Moves(<<>>)
    BY <1>2, Zenon DEF Moves
  <2> QED
    BY <1>1, <1>2, <2>1, <2>2, PopsWire
<1>3. CASE Receives(Pops)
  <2>1. PICK n \in 1..Len(fromPeer) :
          /\ Pops(SubSeq(fromPeer, 1, n))
          /\ fromPeer' = SubSeq(fromPeer, n + 1, Len(fromPeer))
    BY <1>3, Zenon DEF Receives
  <2>2. SubSeq(fromPeer, 1, n) \in Seq(Byte)
    BY FirstPart DEF TypeOK
  <2>3. Moves(SubSeq(fromPeer, 1, n))
    BY <2>1, Zenon DEF Moves
  <2> QED
    BY <1>1, <2>1, <2>2, <2>3, PopsWire
<1> QED
  BY <1>2, <1>3, Zenon DEF GotLine

(* It is a byte of the stream that ends the line.                          *)
LEMMA LastLineType ==
  ASSUME TypeOK, FramedAsSent, FramedAsSent', FramerTypeOK', GotLine
  PROVE  LastLine \in Byte
<1>1. \E c : Pops(c)
  BY Zenon DEF GotLine, Receives
<1>2. PICK p \in Nat : ends' = Append(ends, Taken + p)
  BY <1>1 DEF Pops, NewlinesAfter, TypeOK
<1>3. ends \in Seq(Nat) /\ Taken + p \in Nat
  BY TakenType, Types DEF FramerTypeOK
<1> PICK k : k = Len(ends')
  OBVIOUS
<1>4. Taken' = Taken + p /\ ends' # <<>> /\ k \in Nat /\ k >= 1
  BY <1>2, <1>3, TakenMoves
<1>5. ends' \in Seq(Nat) /\ stream' \in Seq(Byte) /\ DOMAIN ends' = 1..k
  BY DEF FramerTypeOK
<1>6. Taken' = ends'[k] /\ k \in DOMAIN ends'
  BY <1>4, <1>5 DEF Taken
<1>7. ends'[k] \in StartOf(k)'..Len(stream')
  BY <1>6, Zenon DEF FramedAsSent
<1>8. StartOf(k)' \in Nat /\ StartOf(k)' >= 1
  BY <1>4, <1>5 DEF StartOf
<1>9. Taken' \in 1..Len(stream')
  BY <1>5, <1>6, <1>7, <1>8
<1> QED
  BY <1>5, <1>9 DEF LastLine

LEMMA SessionType ==
  ASSUME TypeOK, FramedAsSent, StageInv, WireInv, [Next]_vars
  PROVE  SessionTypeOK'
<1> USE MaxRequestsAssumption DEF TypeOK, SessionTypeOK
<1>1. ASSUME NEW k \in Outcomes, NEW r \in 0..MaxRequests, NEW i \in 0..MaxRequests,
             outcome' = [outcome EXCEPT ![i] = [re |-> r, kind |-> k]]
      PROVE  outcome' \in [Ids -> [re : 0..MaxRequests, kind : Outcomes]]
  BY <1>1
<1>2. /\ \A k \in {"none", "pending", "response", "bad", "io", "timeout", "closed"} : k \in Outcomes
      /\ 0 \in 0..MaxRequests
  BY DEF Outcomes
<1>3. CASE UNCHANGED sessionVars
  BY <1>3 DEF sessionVars
<1>4. CASE SetTimeout
  BY <1>4 DEF SetTimeout
<1>5. CASE CallRefused \/ CallStart
  <2>1. issued' \in 0..MaxRequests /\ issued + 1 \in 0..MaxRequests
    BY <1>5 DEF CallRefused, CallStart
  <2>2. outcome' \in [Ids -> [re : 0..MaxRequests, kind : Outcomes]]
    BY <1>1, <1>2, <1>5, <2>1, Zenon DEF CallRefused, CallStart
  <2> QED
    BY <1>5, <2>1, <2>2 DEF CallRefused, CallStart
<1>6. CASE Close \/ Drop
  BY <1>6 DEF Close, Drop, CloseFrom
<1>7. CASE DialConnects \/ DialFails \/ DialGivesUp
  BY <1>7 DEF DialConnects, DialFails, DialGivesUp, sessionVars
<1>8. CASE ReadGoesOn \/ HelloAccepted \/ HelloFailed
  BY <1>8 DEF ReadGoesOn, HelloAccepted, HelloFailed, sessionVars
<1>9. CASE CallWrite \/ PeerTakes
  BY <1>9 DEF CallWrite, PeerTakes
<1>10. ASSUME NEW k \in {"io", "timeout"}, Return(k, 0)
       PROVE  outcome' \in [Ids -> [re : 0..MaxRequests, kind : Outcomes]]
  BY <1>1, <1>2, <1>10 DEF Return
<1>11. CASE CallWriteFails \/ CallFailed
  <2>1. outcome' \in [Ids -> [re : 0..MaxRequests, kind : Outcomes]]
    BY <1>10, <1>11, Zenon DEF CallWriteFails, CallFailed
  <2> QED
    BY <1>11, <2>1 DEF CallWriteFails, CallFailed
<1>12. CASE CallTimedOut
  <2>1. outcome' \in [Ids -> [re : 0..MaxRequests, kind : Outcomes]]
    BY <1>10, <1>12, Zenon DEF CallTimedOut
  <2> QED
    BY <1>12, <2>1 DEF CallTimedOut
<1>13. CASE CallAnswered
  <2>1. PICK k \in {"response", "bad"} : outcome' = [outcome EXCEPT ![issued] = [re |-> LastLine.id, kind |-> k]]
    BY <1>13, Zenon DEF CallAnswered, Return
  <2>2. LastLine.id \in 0..MaxRequests
    <3>1. GotLine /\ FramedAsSent' /\ FramerTypeOK'
      BY <1>13, FramedStep, FramerStep DEF CallAnswered
    <3>2. LastLine \in Byte
      BY <3>1, LastLineType
    <3> QED
      BY <3>2 DEF Byte
  <2>3. outcome' \in [Ids -> [re : 0..MaxRequests, kind : Outcomes]]
    BY <1>1, <1>2, <2>1, <2>2
  <2> QED
    BY <1>13, <2>3 DEF CallAnswered
<1>14. CASE CloseWrite \/ CloseRead
  BY <1>14 DEF CloseWrite, CloseRead
<1>15. CASE PeerStep
  BY <1>3, <1>15 DEF PeerStep
<1>16. CASE UNCHANGED vars
  BY <1>3, <1>16 DEF vars
<1> QED
  BY <1>4, <1>5, <1>6, <1>7, <1>8, <1>9, <1>11, <1>12, <1>13, <1>14, <1>15, <1>16, Zenon
     DEF Next, User, OwnerStep

LEMMA ElapseType == ASSUME TypeOK, NEW d \in 0..1, Elapse(d) PROVE left' \in Int
  BY DEF TypeOK, Elapse, Later

LEMMA ReadsType ==
  ASSUME TypeOK, Reading
  PROVE  left' \in Int /\ signals' \in 0..MaxSignals
<1> USE MaxSignalsAssumption DEF TypeOK
<1>1. ASSUME Receives(Pops) \/ Receives(Waits) \/ Receives(Refuses)
      PROVE  left' \in Int /\ signals' \in 0..MaxSignals
  <2>1. UNCHANGED signals /\ \E d \in 0..1 : Elapse(d)
    BY <1>1, Zenon DEF Receives
  <2> QED
    BY <2>1, ElapseType
<1>2. ASSUME FindsNothing \/ ReadInterrupted
      PROVE  left' \in Int /\ signals' \in 0..MaxSignals
  <2>1. \E d \in 0..1 : Elapse(d)
    BY <1>2 DEF FindsNothing, ReadInterrupted
  <2> QED
    BY <1>2, <2>1, ElapseType DEF FindsNothing, ReadInterrupted
<1>3. ASSUME UNCHANGED <<left, signals>>
      PROVE  left' \in Int /\ signals' \in 0..MaxSignals
  BY <1>3
<1>4. ASSUME GotLine PROVE left' \in Int /\ signals' \in 0..MaxSignals
  BY <1>1, <1>3, <1>4, Zenon DEF GotLine
<1>5. ASSUME NEW e, GotError(e) PROVE left' \in Int /\ signals' \in 0..MaxSignals
  BY <1>1, <1>3, <1>5, Zenon DEF GotError
<1>6. ASSUME Expired PROVE left' \in Int /\ signals' \in 0..MaxSignals
  BY <1>1, <1>2, <1>6, Zenon DEF Expired
<1>7. CASE ReadGoesOn
  <2>1. CASE left' \in Timeouts /\ UNCHANGED signals
    BY <2>1, TimeoutsAssumption
  <2> QED
    BY <1>1, <1>2, <1>7, <2>1, Zenon DEF ReadGoesOn, Dribbles
<1> QED
  BY <1>4, <1>5, <1>6, <1>7, Zenon
     DEF Reading, HelloAccepted, HelloFailed, CallAnswered, CallFailed, CallTimedOut, CloseRead

LEMMA ReadType == ASSUME TypeOK, [Next]_vars PROVE ReadTypeOK'
<1> USE DEF TypeOK, ReadTypeOK
<1>1. CASE Reading
  <2>1. waiting' \in BOOLEAN
    BY <1>1, Zenon
       DEF Reading, HelloAccepted, HelloFailed, ReadGoesOn, CallAnswered, CallFailed,
           CallTimedOut, CloseRead, GotLine, GotError, Expired
  <2>2. addrs' = addrs
    BY <1>1, Zenon
       DEF Reading, HelloAccepted, HelloFailed, ReadGoesOn, CallAnswered, CallFailed,
           CallTimedOut, CloseRead
  <2>3. terminal' \in ReadErrors \cup {"none", "closed"}
    BY <1>1
       DEF Reading, HelloAccepted, HelloFailed, ReadGoesOn, CallAnswered, CallFailed,
           CallTimedOut, CloseRead
  <2> QED
    BY <1>1, <2>1, <2>2, <2>3, ReadsType
<1>2. CASE DialFails
  BY <1>2 DEF DialFails, DialGoesOn
<1>3. CASE UNCHANGED <<addrs, readVars>>
  BY <1>3 DEF readVars
<1>4. CASE CloseWrite
  BY <1>4 DEF CloseWrite, readVars
<1>5. CASE User \/ PeerTakes \/ PeerStep \/ CallWrite \/ CallWriteFails
  BY <1>3, <1>5, Zenon
     DEF User, SetTimeout, CallRefused, CallStart, Close, Drop, CloseFrom, PeerTakes,
         PeerStep, CallWrite, CallWriteFails
<1>7. CASE DialConnects \/ DialGivesUp
  BY <1>7 DEF DialConnects, DialGivesUp, readVars
<1>6. CASE UNCHANGED vars
  BY <1>3, <1>6 DEF vars
<1> QED
  BY <1>1, <1>2, <1>4, <1>5, <1>6, <1>7, Zenon DEF Next, OwnerStep, Reading

-----------------------------------------------------------------------------
(* The invariant.                                                          *)

(* A read that goes on is within its deadline.                             *)
DeadlineInv == polls /\ signals = 0 => left >= 0 - 1 /\ (waiting => left >= 0)

(* read_line is in its loop only from one look at the framer to the next.  *)
ReadInv == waiting => pc \in {"hello", "read", "closeRead"} /\ terminal = "none"

(* What a caller was handed is its own, unless a request strays.           *)
OwnInv == ~strays => \A i \in Ids : outcome[i].kind \in Answered => outcome[i].re = i

IInv == /\ TypeOK /\ FramedAsSent /\ LimitHonoured /\ DeadlineInv
        /\ StageInv /\ OrderInv /\ ReadInv /\ WireInv /\ OwnInv

(* The part of the stream that is in the buffer.                           *)
LEMMA Rest ==
  ASSUME NEW z \in Seq(Byte), NEW t \in Nat, t <= Len(z), NEW b, b = SubSeq(z, t + 1, Len(z))
  PROVE  Len(b) = Len(z) - t /\ \A p \in t + 1..Len(z) : b[p - t] = z[p] /\ p - t \in 1..Len(b)
<1>1. /\ Len(z) \in Nat /\ t + 1 \in Nat /\ t + 1 >= 1 /\ Len(z) \in Int
      /\ Len(z) <= Len(z)
  OBVIOUS
<1>2. /\ Len(b) = IF t + 1 <= Len(z) THEN Len(z) - (t + 1) + 1 ELSE 0
      /\ \A i \in 1..Len(z) - (t + 1) + 1 : b[i] = z[t + 1 + i - 1]
  BY <1>1, Part
<1>3. Len(b) = Len(z) - t
  BY <1>1, <1>2
<1>4. ASSUME NEW p \in t + 1..Len(z) PROVE b[p - t] = z[p] /\ p - t \in 1..Len(b)
  <2>1. p - t \in 1..Len(z) - (t + 1) + 1 /\ t + 1 + (p - t) - 1 = p /\ p - t \in 1..Len(b)
    BY <1>1, <1>3
  <2> QED
    BY <1>2, <2>1
<1> QED
  BY <1>3, <1>4

(* What has no newline yet is all that the framer holds.                   *)
LEMMA KeptRest ==
  ASSUME FramerTypeOK, FramedAsSent, NEW chunk \in Seq(Byte), Keeps(chunk)
  PROVE  /\ Len(stream') - Taken' = Len(buf')
         /\ \A p \in Taken' + 1..Len(stream') : ~stream'[p].nl
<1>1. FramedAsSent' /\ FramerTypeOK'
  BY FramedKeeps, FramerType
<1>2. Taken' = Taken /\ Taken \in Nat
  BY TakenType DEF Keeps, Taken
<1>3. /\ stream' \in Seq(Byte) /\ Taken' \in Nat /\ Taken' <= Len(stream')
      /\ buf' = SubSeq(stream', Taken' + 1, Len(stream'))
  BY <1>1, <1>2 DEF FramedAsSent, FramerTypeOK
<1>4. scanned' = Len(buf') /\ \A q \in 1..scanned' : ~buf'[q].nl
  BY <1>1 DEF Keeps, FramedAsSent
<1> DEFINE t == Taken'
           z == stream'
           c == buf'
<1>5. Len(c) = Len(z) - t /\ \A p \in t + 1..Len(z) : c[p - t] = z[p] /\ p - t \in 1..Len(c)
  <2>1. z \in Seq(Byte) /\ t \in Nat /\ t <= Len(z) /\ c = SubSeq(z, t + 1, Len(z))
    BY <1>3
  <2> HIDE DEF t, z, c
  <2> QED
    BY <2>1, Rest
<1> QED
  BY <1>4, <1>5, Zenon

LEMMA ReadsKept ==
  ASSUME TypeOK, FramedAsSent,
         \/ (Waits(<<>>) \/ Refuses(<<>>)) /\ UNCHANGED fromPeer
         \/ Receives(Waits) \/ Receives(Refuses)
  PROVE  /\ Len(stream') - Taken' = Len(buf')
         /\ \A p \in Taken' + 1..Len(stream') : ~stream'[p].nl
<1>1. ASSUME NEW chunk \in Seq(Byte), Keeps(chunk)
      PROVE  /\ Len(stream') - Taken' = Len(buf')
             /\ \A p \in Taken' + 1..Len(stream') : ~stream'[p].nl
  BY <1>1, KeptRest, Types
<1>2. <<>> \in Seq(Byte)
  BY EmptySeq
<1>3. CASE Waits(<<>>) \/ Refuses(<<>>)
  BY <1>1, <1>2, <1>3, Zenon DEF Waits, Refuses
<1>4. CASE Receives(Waits) \/ Receives(Refuses)
  <2>1. PICK n \in 1..Len(fromPeer) :
          Waits(SubSeq(fromPeer, 1, n)) \/ Refuses(SubSeq(fromPeer, 1, n))
    BY <1>4, Zenon DEF Receives
  <2>2. SubSeq(fromPeer, 1, n) \in Seq(Byte)
    BY FirstPart DEF TypeOK
  <2> QED
    BY <1>1, <2>1, <2>2, Zenon DEF Waits, Refuses
<1> QED
  BY <1>3, <1>4

LEMMA ReadStep == ASSUME TypeOK, ReadInv, [Next]_vars PROVE ReadInv'
<1> USE DEF TypeOK, ReadInv
<1>1. CASE ReadGoesOn
  <2>1. pc \in {"hello", "read", "closeRead"} /\ UNCHANGED <<pc, terminal>>
    BY <1>1, Zenon DEF ReadGoesOn, sessionVars
  <2>2. terminal = "none" \/ waiting
    BY <1>1, Zenon DEF ReadGoesOn, Dribbles, Receives, FindsNothing, ReadInterrupted
  <2> QED
    BY <2>1, <2>2
<1>2. CASE Reading /\ ~ReadGoesOn
  <2>1. ~waiting'
    BY <1>2, Zenon
       DEF Reading, HelloAccepted, HelloFailed, CallAnswered, CallFailed, CallTimedOut,
           CloseRead, GotLine, GotError, Expired
  <2> QED
    BY <2>1
<1>3. CASE ~Reading /\ ~waiting
  <2>1. waiting' = waiting
    BY <1>3, Zenon
       DEF Next, User, OwnerStep, PeerStep, SetTimeout, CallRefused, CallStart, Close, Drop,
           CloseFrom, DialConnects, DialFails, DialGivesUp, CallWrite, CallWriteFails,
           CloseWrite, PeerTakes, Reading, readVars, vars
  <2> QED
    BY <1>3, <2>1
<1>4. CASE ~Reading /\ waiting
  <2>1. pc \in {"hello", "read", "closeRead"} /\ terminal = "none"
    BY <1>4
  <2>2. ~User /\ ~DialConnects /\ ~DialFails /\ ~DialGivesUp /\ ~CallWrite
        /\ ~CallWriteFails /\ ~CloseWrite /\ ~PeerTakes
    BY <2>1
       DEF User, SetTimeout, CallRefused, CallStart, Close, Drop, CloseFrom, DialConnects,
           DialFails, DialGivesUp, DialGoesOn, CallWrite, CallWriteFails, CloseWrite, PeerTakes
  <2>3. PeerStep \/ UNCHANGED vars
    BY <1>4, <2>2, Zenon DEF Next, OwnerStep, Reading
  <2>4. UNCHANGED <<pc, terminal>>
    BY <2>3, Zenon DEF PeerStep, sessionVars, readVars, vars
  <2> QED
    BY <2>1, <2>4
<1> QED
  BY <1>1, <1>2, <1>3, <1>4

(* A line is refused when it has outgrown the limit and only then.         *)
LEMMA LimitStep ==
  ASSUME TypeOK, FramedAsSent, LimitHonoured, ReadInv, [Next]_vars
  PROVE  LimitHonoured'
<1> USE DEF LimitHonoured
<1>1. ASSUME UNCHANGED framerVars, terminal' = terminal \/ terminal' # "long", waiting' => waiting
      PROVE  LimitHonoured'
  <2>1. UNCHANGED <<stream, Taken>>
    BY <1>1 DEF framerVars, Taken
  <2> QED
    BY <1>1, <2>1
<1>2. ASSUME ~waiting', terminal' # "long" PROVE LimitHonoured'
  BY <1>2
<1>3. CASE ~Reading
  <2>1. waiting' = waiting
    BY <1>3, Zenon
       DEF Next, User, OwnerStep, PeerStep, SetTimeout, CallRefused, CallStart, Close, Drop,
           CloseFrom, DialConnects, DialFails, DialGivesUp, CallWrite, CallWriteFails,
           CloseWrite, PeerTakes, Reading, readVars, vars
  <2>2. terminal' = terminal \/ terminal' = "closed"
    BY <1>3, Zenon
       DEF Next, User, OwnerStep, PeerStep, SetTimeout, CallRefused, CallStart, Close, Drop,
           CloseFrom, DialConnects, DialFails, DialGivesUp, CallWrite, CallWriteFails,
           CloseWrite, PeerTakes, Reading, readVars, vars
  <2>3. UNCHANGED framerVars
    BY <1>3, OthersKeepFramer
  <2> QED
    BY <1>1, <2>1, <2>2, <2>3
<1>4. CASE ReadGoesOn
  <2>1. terminal' = terminal /\ terminal # "long"
    BY <1>4, Zenon
       DEF ReadGoesOn, Dribbles, Receives, FindsNothing, ReadInterrupted, ReadInv
  <2>2. CASE Waits(<<>>) /\ UNCHANGED fromPeer
    BY <2>1, <2>2, ReadsKept DEF Waits
  <2>3. CASE Receives(Waits)
    <3>1. Len(buf') <= MaxLineBytes
      BY <2>3, Zenon DEF Receives, Waits
    <3> QED
      BY <2>1, <2>3, <3>1, ReadsKept
  <2>4. CASE UNCHANGED framerVars /\ waiting
    BY <1>1, <2>1, <2>4
  <2> QED
    BY <1>4, <2>2, <2>3, <2>4, Zenon DEF ReadGoesOn, Dribbles, FindsNothing, ReadInterrupted
<1>5. ASSUME GotLine \/ Expired PROVE ~waiting' /\ terminal # "long"
  BY <1>5, Zenon DEF GotLine, Expired, Receives, FindsNothing, ReadInv
<1>6. CASE HelloAccepted \/ CallAnswered
  <2>1. GotLine /\ terminal' = terminal
    BY <1>6, Zenon DEF HelloAccepted, CallAnswered
  <2> QED
    BY <1>2, <1>5, <2>1
<1>7. CASE HelloFailed \/ CallTimedOut \/ CloseRead
  <2>1. terminal' = "closed" /\ ~waiting'
    BY <1>7, Zenon DEF HelloFailed, CallTimedOut, CloseRead, GotLine, GotError, Expired
  <2> QED
    BY <1>2, <2>1
<1>8. CASE CallFailed
  <2>1. PICK e \in ReadErrors : GotError(e) /\ terminal' = e
    BY <1>8, Zenon DEF CallFailed
  <2>2. ~waiting'
    BY <2>1, Zenon DEF GotError
  <2>3. CASE e # "long"
    BY <1>2, <2>1, <2>2, <2>3
  <2>4. CASE e = "long"
    <3>1. \/ terminal = "long" /\ UNCHANGED framerVars
          \/ Refuses(<<>>) /\ UNCHANGED fromPeer
          \/ Receives(Refuses)
      <4>1. e # "eof" /\ e # "io"
        BY <2>4
      <4> QED
        BY <2>1, <2>4, <4>1, Zenon DEF GotError
    <3>2. CASE terminal = "long" /\ UNCHANGED framerVars
      BY <1>1, <2>1, <2>2, <2>4, <3>2
    <3>3. CASE (Refuses(<<>>) /\ UNCHANGED fromPeer) \/ Receives(Refuses)
      <4>1. Len(buf') > MaxLineBytes
        BY <3>3, Zenon DEF Receives, Refuses
      <4>2. /\ Len(stream') - Taken' = Len(buf')
            /\ \A p \in Taken' + 1..Len(stream') : ~stream'[p].nl
        BY <3>3, ReadsKept, Zenon
      <4> QED
        BY <2>2, <4>1, <4>2
    <3> QED
      BY <3>1, <3>2, <3>3
  <2> QED
    BY <2>3, <2>4
<1> QED
  BY <1>3, <1>4, <1>6, <1>7, <1>8, Zenon DEF Reading

LEMMA DeadlineStep == ASSUME TypeOK, DeadlineInv, [Next]_vars PROVE DeadlineInv'
<1> USE DEF TypeOK, DeadlineInv
<1> SUFFICES ASSUME polls', signals' = 0
             PROVE  left' >= 0 - 1 /\ (waiting' => left' >= 0)
  OBVIOUS
<1>1. polls /\ signals = 0
  <2>1. polls' = polls
    BY Zenon
       DEF Next, User, OwnerStep, PeerStep, SetTimeout, CallRefused, CallStart, Close, Drop,
           CloseFrom, DialConnects, DialFails, DialGivesUp, ReadGoesOn, HelloAccepted,
           HelloFailed, CallWrite, CallWriteFails, CallAnswered, CallFailed, CallTimedOut,
           CloseWrite, CloseRead, PeerTakes, PeerHello, PeerAnswer, PeerGone, Written,
           WriteFails,
           peerVars, vars
  <2>2. signals' = signals \/ ReadInterrupted
    BY Zenon
       DEF Next, User, OwnerStep, PeerStep, SetTimeout, CallRefused, CallStart, Close, Drop,
           CloseFrom, DialConnects, DialFails, DialGivesUp, ReadGoesOn, HelloAccepted,
           HelloFailed, CallWrite, CallWriteFails, CallAnswered, CallFailed, CallTimedOut,
           CloseWrite, CloseRead, PeerTakes, GotLine, GotError, Expired, Dribbles,
           Receives, FindsNothing, readVars, vars
  <2>3. ~ReadInterrupted
    BY MaxSignalsAssumption DEF ReadInterrupted
  <2> QED
    BY <2>1, <2>2, <2>3
<1>2. left >= 0 - 1 /\ (waiting => left >= 0)
  BY <1>1
<1>3. CASE UNCHANGED <<waiting, left>>
  BY <1>2, <1>3
<1>4. ASSUME NEW d \in 0..1, Elapse(d), waiting
      PROVE  left' >= 0 - 1 /\ (~TimedOut => left' >= 0)
  BY <1>2, <1>4 DEF Elapse, Later, TimedOut
<1>5. ASSUME Receives(Pops) \/ Receives(Waits) \/ Receives(Refuses) \/ FindsNothing
      PROVE  left' >= 0 - 1 /\ (~TimedOut => left' >= 0)
  <2>1. waiting /\ \E d \in 0..1 : Elapse(d)
    <3>1. 1 \in 0..1
      OBVIOUS
    <3> QED
      BY <1>5, <3>1, Zenon DEF Receives, FindsNothing
  <2> QED
    BY <1>4, <2>1
<1>6. CASE ReadGoesOn
  <2>1. CASE left' \in Timeouts
    BY <2>1, TimeoutsAssumption
  <2>2. CASE Dribbles \/ (FindsNothing /\ ~TimedOut)
    <3>1. ~TimedOut /\ (Receives(Waits) \/ FindsNothing)
      BY <2>2, Zenon DEF Dribbles
    <3> QED
      BY <1>5, <3>1
  <2>3. ~ReadInterrupted
    BY <1>1, MaxSignalsAssumption DEF ReadInterrupted
  <2> QED
    BY <1>6, <2>1, <2>2, <2>3, Zenon DEF ReadGoesOn
<1>7. CASE Reading /\ ~ReadGoesOn
  <2>1. ASSUME GotLine \/ Expired \/ \E e \in ReadErrors : GotError(e)
        PROVE  left' >= 0 - 1 /\ ~waiting'
    <3>1. ~waiting'
      BY <2>1, Zenon DEF GotLine, GotError, Expired
    <3>2. \/ left' = left \/ FindsNothing
          \/ Receives(Pops) \/ Receives(Waits) \/ Receives(Refuses)
      BY <2>1, Zenon DEF GotLine, GotError, Expired
    <3> QED
      BY <1>2, <1>5, <3>1, <3>2
  <2> QED
    BY <1>7, <2>1, Zenon
       DEF Reading, HelloAccepted, HelloFailed, CallAnswered, CallFailed, CallTimedOut,
           CloseRead
<1>8. CASE DialFails
  BY <1>2, <1>8 DEF DialFails
<1>9. CASE ~Reading /\ ~DialFails
  BY <1>3, <1>9, Zenon
     DEF Next, User, OwnerStep, PeerStep, SetTimeout, CallRefused, CallStart, Close, Drop,
         CloseFrom, DialConnects, DialGivesUp, CallWrite, CallWriteFails,
         CloseWrite, PeerTakes, Reading, readVars, vars
<1> QED
  BY <1>6, <1>7, <1>8, <1>9, Zenon

LEMMA StageStep == ASSUME TypeOK, StageInv, WireInv, [Next]_vars PROVE StageInv'
<1> USE DEF TypeOK, StageInv, Calling
<1>1. CASE User
  BY <1>1 DEF User, SetTimeout, CallRefused, CallStart, Close, Drop, CloseFrom
<1>2. CASE DialConnects \/ DialFails \/ DialGivesUp
  <2>1. CASE DialFails
    <3>1. UNCHANGED sessionVars
      BY <2>1, Zenon DEF DialFails
    <3> QED
      BY <3>1 DEF sessionVars
  <2> QED
    BY <1>2, <2>1 DEF DialConnects, DialGivesUp, DialGoesOn
<1>3. CASE ReadGoesOn \/ HelloAccepted \/ HelloFailed
  BY <1>3 DEF ReadGoesOn, HelloAccepted, HelloFailed, sessionVars
<1>4. CASE CallWrite \/ CallWriteFails \/ PeerTakes
  BY <1>4 DEF CallWrite, CallWriteFails, PeerTakes
<1>5. CASE CallAnswered \/ CallFailed \/ CallTimedOut
  BY <1>5 DEF CallAnswered, CallFailed, CallTimedOut
<1>6. CASE CloseWrite \/ CloseRead
  BY <1>6 DEF CloseWrite, CloseRead
<1>7. CASE PeerStep \/ UNCHANGED vars
  BY <1>7 DEF PeerStep, vars, sessionVars
<1> QED
  BY <1>1, <1>2, <1>3, <1>4, <1>5, <1>6, <1>7, Zenon DEF Next, OwnerStep

LEMMA OrderStep == ASSUME TypeOK, OrderInv, [Next]_vars PROVE OrderInv'
<1> USE MaxRequestsAssumption DEF TypeOK, OrderInv, Calling, Ids
<1>1. CASE CallRefused \/ CallStart
  <2>1. issued + 1 \in Ids /\ issued' = issued + 1
    BY <1>1 DEF CallRefused, CallStart
  <2>2. \A i \in Ids : i # issued + 1 => outcome'[i] = outcome[i]
    BY <1>1, <2>1 DEF CallRefused, CallStart
  <2>3. CASE CallRefused
    <3>1. outcome'[issued + 1].kind = "closed"
      BY <2>1, <2>3 DEF CallRefused
    <3> QED
      BY <2>1, <2>2, <2>3, <3>1 DEF CallRefused
  <2>4. CASE CallStart
    <3>1. outcome'[issued + 1].kind = "pending"
      BY <2>1, <2>4 DEF CallStart
    <3> QED
      BY <2>1, <2>2, <2>4, <3>1 DEF CallStart
  <2> QED
    BY <1>1, <2>3, <2>4
<1>2. ASSUME NEW k \in Outcomes \ {"none", "pending"}, NEW r, Return(k, r),
             pc \in Calling, pc' = "idle", UNCHANGED issued
      PROVE  OrderInv'
  <2>1. issued \in Ids /\ outcome'[issued].kind = k
    BY <1>2 DEF Return
  <2>2. \A i \in Ids : i # issued => outcome'[i] = outcome[i]
    BY <1>2 DEF Return
  <2> QED
    BY <1>2, <2>1, <2>2
<1>3. CASE CallWriteFails \/ CallAnswered \/ CallFailed \/ CallTimedOut
  <2>1. \A k \in {"io", "timeout", "response", "bad"} : k \in Outcomes \ {"none", "pending"}
    BY DEF Outcomes
  <2>2. CASE CallAnswered
    <3>1. PICK k \in {"response", "bad"} : Return(k, LastLine.id)
      BY <2>2, Zenon DEF CallAnswered
    <3> QED
      BY <1>2, <2>1, <2>2, <3>1 DEF CallAnswered
  <2> QED
    BY <1>2, <1>3, <2>1, <2>2 DEF CallWriteFails, CallFailed, CallTimedOut
<1>4. ASSUME UNCHANGED <<issued, outcome>>, pc \in Calling <=> pc' \in Calling
      PROVE  OrderInv'
  BY <1>4
<1>5. CASE SetTimeout \/ Close \/ Drop \/ DialConnects \/ DialFails \/ DialGivesUp
  <2>1. CASE DialFails
    <3>1. UNCHANGED sessionVars
      BY <2>1, Zenon DEF DialFails
    <3> QED
      BY <1>4, <3>1 DEF sessionVars
  <2>2. CASE SetTimeout \/ Close \/ Drop
    BY <1>4, <2>2 DEF SetTimeout, Close, Drop, CloseFrom
  <2>3. CASE DialConnects \/ DialGivesUp
    BY <1>4, <2>3 DEF DialConnects, DialGivesUp, DialGoesOn
  <2> QED
    BY <1>5, <2>1, <2>2, <2>3
<1>6. CASE ReadGoesOn \/ HelloAccepted \/ HelloFailed \/ CallWrite \/ PeerTakes
  BY <1>4, <1>6 DEF ReadGoesOn, HelloAccepted, HelloFailed, CallWrite, PeerTakes, sessionVars
<1>7. CASE CloseWrite \/ CloseRead
  BY <1>4, <1>7 DEF CloseWrite, CloseRead
<1>8. CASE PeerStep \/ UNCHANGED vars
  BY <1>4, <1>8 DEF PeerStep, vars, sessionVars
<1> QED
  BY <1>1, <1>3, <1>5, <1>6, <1>7, <1>8, Zenon DEF Next, User, OwnerStep

(* Nothing revives a connection that can no longer hand out a line.        *)
LEMMA StraysStay == ASSUME TypeOK, [Next]_vars, strays PROVE strays'
<1>1. CASE Reading
  BY <1>1, Zenon
     DEF Reading, HelloAccepted, HelloFailed, ReadGoesOn, CallAnswered, CallFailed,
         CallTimedOut, CloseRead
<1>2. CASE CallWrite \/ CallWriteFails \/ CloseWrite \/ PeerTakes
  BY <1>2 DEF CallWrite, CallWriteFails, CloseWrite, PeerTakes, Written, WriteFails
<1>3. CASE PeerStep
  BY <1>3 DEF PeerStep, PeerHello, PeerAnswer, PeerGone
<1>4. CASE UNCHANGED peerVars
  BY <1>4 DEF peerVars
<1>5. CASE User \/ DialConnects \/ DialFails \/ DialGivesUp \/ UNCHANGED vars
  BY <1>4, <1>5, Zenon
     DEF User, SetTimeout, CallRefused, CallStart, Close, Drop, CloseFrom, DialConnects,
         DialFails, DialGivesUp, vars
<1> QED
  BY <1>1, <1>2, <1>3, <1>5, Zenon DEF Next, OwnerStep, Reading

LEMMA LiveBefore == ASSUME TypeOK, [Next]_vars, Live' PROVE Live
<1>0. ~strays
  BY StraysStay DEF Live
<1> SUFFICES terminal = "none" /\ ~closed /\ pc # "gone"
  BY <1>0 DEF Live
<1>1. terminal' = "none" /\ closed' = FALSE /\ pc' # "gone"
  BY DEF Live, TypeOK
<1>2. CASE User
  BY <1>1, <1>2
     DEF Live, TypeOK, User, SetTimeout, CallRefused, CallStart, Close, Drop, CloseFrom, readVars
<1>3. CASE DialConnects \/ DialFails \/ DialGivesUp
  BY <1>1, <1>3, Zenon
     DEF Live, DialConnects, DialFails, DialGivesUp, DialGoesOn, sessionVars, readVars
<1>4. CASE ReadGoesOn \/ HelloAccepted \/ HelloFailed
  BY <1>1, <1>4 DEF Live, ReadGoesOn, HelloAccepted, HelloFailed, sessionVars
<1>5. CASE CallFailed
  BY <1>1, <1>5, Zenon DEF CallFailed, ReadErrors
<1>6. CASE CallWrite \/ CallWriteFails \/ PeerTakes \/ CallAnswered
  BY <1>1, <1>6
     DEF Live, CallWrite, CallWriteFails, PeerTakes, CallAnswered, readVars
<1>7. CASE CallTimedOut \/ CloseRead
  BY <1>1, <1>7 DEF CallTimedOut, CloseRead
<1>8. CASE CloseWrite
  BY <1>1, <1>8 DEF Live, CloseWrite, readVars
<1>9. CASE PeerStep \/ UNCHANGED vars
  BY <1>1, <1>9 DEF Live, PeerStep, vars, sessionVars, readVars
<1> QED
  BY <1>2, <1>3, <1>4, <1>5, <1>6, <1>7, <1>8, <1>9, Zenon DEF Next, OwnerStep

(* A line the peer writes, where nothing was on the wire.                  *)
LEMMA NewLine ==
  ASSUME NEW k \in LineKinds, NEW n \in LineLengths, issued \in 0..MaxRequests
  PROVE  OneLine(LineOf(issued, k, n))
<1>1. Len(LineOf(issued, k, n)) = n + 1 /\ n \in Nat /\ n # 0
  BY LineType, LineLengthsAssumption
<1>2. ASSUME NEW p \in 1..n + 1
      PROVE  /\ LineOf(issued, k, n)[p].id = issued
             /\ LineOf(issued, k, n)[p].nl => 1 < p /\ p = n + 1
  <2>1. LineOf(issued, k, n)[p] = [id |-> issued, kind |-> k, nl |-> p = n + 1]
    BY Zenon DEF LineOf
  <2>2. LineOf(issued, k, n)[p].id = issued /\ (LineOf(issued, k, n)[p].nl => p = n + 1)
    <3> DEFINE r(c) == [id |-> issued, kind |-> k, nl |-> c]
    <3>1. r(FALSE).nl = FALSE /\ \A c : r(c).id = issued
      OBVIOUS
    <3>2. p # n + 1 => (p = n + 1) = FALSE
      BY SMT
    <3>3. LineOf(issued, k, n)[p] = r(p = n + 1)
      BY <2>1, Zenon
    <3> HIDE DEF r
    <3>4. p # n + 1 => r(p = n + 1) = r(FALSE)
      BY <3>2, Zenon
    <3> QED
      BY <3>1, <3>3, <3>4, Zenon
  <2>3. p = n + 1 => 1 < p
    BY <1>1
  <2> QED
    BY <2>2, <2>3, Zenon
<1> QED
  BY <1>1, <1>2 DEF OneLine

LEMMA EmptyWire == ASSUME TypeOK PROVE Wire = <<>> <=> buf = <<>> /\ fromPeer = <<>>
  BY ConcatEqualIffEmpty DEF TypeOK, Wire

LEMMA WirePeer == ASSUME TypeOK, StageInv, WireInv, PeerStep PROVE WireInv'
<1> SUFFICES ASSUME Live' PROVE WireInv'
  BY DEF WireInv
<1>1. /\ UNCHANGED <<buf, pc, issued, closed, terminal, back>>
      /\ issued \in 0..MaxRequests
  BY DEF PeerStep, framerVars, sessionVars, readVars, TypeOK
<1>2. Live
  <2>1. strays' = strays
    BY DEF PeerStep, PeerHello, PeerAnswer, PeerGone
  <2> QED
    BY <1>1, <2>1 DEF Live
<1>3. /\ OneLine(Wire)
      /\ toPeer # <<>> => Wire = <<>> /\ Len(toPeer) = 1 /\ Head(toPeer).id = issued
      /\ pc \in {"dial", "hello"} => toPeer = <<>> /\ (peer = "booting" => Wire = <<>>)
      /\ pc \in {"idle", "write"} => toPeer = <<>> /\ Wire = <<>>
      /\ pc \in {"idle", "write", "read"} => peer # "booting"
  BY <1>2 DEF WireInv
<1>4. pc \in {"dial", "hello", "idle", "write", "read"}
  BY <1>2 DEF StageInv, Live, TypeOK
<1>5. ASSUME NEW k \in LineKinds, NEW n \in LineLengths, Wire = <<>>,
             fromPeer' = fromPeer \o LineOf(issued, k, n)
      PROVE  OneLine(Wire)'
  <2>1. LineOf(issued, k, n) \in Seq(Byte)
    BY <1>1, LineType
  <2>2. Wire' = LineOf(issued, k, n)
    BY <1>1, <1>5, <2>1, EmptyWire, ConcatEmptySeq DEF Wire
  <2> QED
    BY <1>1, <2>2, NewLine DEF OneLine
<1>6. CASE PeerHello
  <2>1. pc \in {"dial", "hello"} /\ issued = 0 /\ Wire = <<>> /\ toPeer = <<>>
    BY <1>3, <1>4, <1>6 DEF PeerHello, StageInv
  <2>2. OneLine(Wire)'
    BY <1>5, <1>6, <2>1 DEF PeerHello, LineKinds
  <2> QED
    BY <1>1, <1>6, <2>1, <2>2 DEF PeerHello, WireInv
<1>7. CASE PeerAnswer
  <2>1. Wire = <<>> /\ Head(toPeer).id = issued /\ Len(toPeer) = 1 /\ pc = "read"
    BY <1>3, <1>4, <1>7 DEF PeerAnswer
  <2>2. OneLine(Wire)'
    BY <1>5, <1>7, <2>1 DEF PeerAnswer, LineKinds
  <2>3. toPeer' = <<>>
    <3>1. toPeer # <<>> /\ toPeer' = Tail(toPeer) /\ toPeer \in Seq(Request)
      BY <1>7 DEF PeerAnswer, TypeOK
    <3>2. Tail(toPeer) \in Seq(Request) /\ Len(Tail(toPeer)) = Len(toPeer) - 1
      BY <3>1, HeadTailProperties
    <3>3. Len(Tail(toPeer)) = 0
      BY <2>1, <3>2
    <3> QED
      BY <3>1, <3>2, <3>3, EmptySeq
  <2> QED
    BY <1>1, <1>7, <2>1, <2>2, <2>3 DEF PeerAnswer, WireInv
<1>8. CASE PeerGone
  <2> PICK n \in 0..Len(fromPeer) : fromPeer' = SubSeq(fromPeer, 1, n)
    BY <1>8 DEF PeerGone
  <2>1. buf \in Seq(Byte) /\ fromPeer \in Seq(Byte)
    BY DEF TypeOK
  <2>2. /\ fromPeer' \in Seq(Byte) /\ Len(fromPeer') = n /\ n <= Len(fromPeer) /\ n \in Nat
        /\ \A i \in 1..n : fromPeer'[i] = fromPeer[i]
    BY <2>1, SubSeqProperties
  <2>3. /\ Len(Wire) = Len(buf) + Len(fromPeer) /\ Len(Wire') = Len(buf) + n
        /\ Len(buf) \in Nat /\ Len(fromPeer) \in Nat
        /\ \A i \in 1..Len(buf) + n : Wire'[i] = Wire[i]
    <3>1. /\ Len(Wire) = Len(buf) + Len(fromPeer)
          /\ \A i \in 1..Len(buf) + Len(fromPeer) :
                Wire[i] = IF i <= Len(buf) THEN buf[i] ELSE fromPeer[i - Len(buf)]
      BY <2>1, ConcatProperties DEF Wire
    <3>2. Wire' = buf \o fromPeer'
      BY <1>1 DEF Wire
    <3>3. /\ Len(Wire') = Len(buf) + n
          /\ \A i \in 1..Len(buf) + n :
                Wire'[i] = IF i <= Len(buf) THEN buf[i] ELSE fromPeer'[i - Len(buf)]
      BY <2>1, <2>2, <3>2, ConcatProperties
    <3>4. Len(buf) \in Nat /\ Len(fromPeer) \in Nat
      BY <2>1
    <3>5. ASSUME NEW i \in 1..Len(buf) + n PROVE Wire'[i] = Wire[i]
      <4>1. i \in 1..Len(buf) + Len(fromPeer) /\ (~(i <= Len(buf)) => i - Len(buf) \in 1..n)
        BY <2>2, <3>4
      <4> QED
        BY <2>2, <3>1, <3>3, <4>1
    <3> QED
      BY <3>1, <3>3, <3>4, <3>5
  <2>4. OneLine(Wire)'
    <3>1. ASSUME NEW i \in 1..Len(Wire')
          PROVE  Wire'[i].id = issued /\ (Wire'[i].nl => 1 < i /\ i = Len(Wire'))
      <4>1. i \in 1..Len(Wire) /\ i \in 1..Len(buf) + n
        BY <2>2, <2>3
      <4>2. Wire'[i] = Wire[i]
        BY <2>3, <4>1
      <4>3. Wire[i].id = issued /\ (Wire[i].nl => 1 < i /\ i = Len(Wire))
        BY <1>3, <4>1 DEF OneLine
      <4>4. i = Len(Wire) => i = Len(Wire')
        BY <2>2, <2>3, <4>1
      <4> QED
        BY <4>2, <4>3, <4>4
    <3> QED
      BY <1>1, <3>1 DEF OneLine
  <2>5. Wire = <<>> => Wire' = <<>>
    <3> SUFFICES ASSUME Wire = <<>> PROVE Wire' = <<>>
      OBVIOUS
    <3>1. fromPeer = <<>> /\ buf = <<>>
      BY EmptyWire
    <3>2. fromPeer' = <<>>
      BY <2>2, <3>1, EmptySeq
    <3> QED
      BY <1>1, <3>1, <3>2, ConcatEmptySeq, EmptySeq DEF Wire
  <2> QED
    BY <1>1, <1>3, <1>8, <2>4, <2>5 DEF PeerGone, WireInv
<1> QED
  BY <1>6, <1>7, <1>8 DEF PeerStep

LEMMA WireRead == ASSUME TypeOK, FramedAsSent, StageInv, WireInv, Reading PROVE WireInv'
<1> SUFFICES ASSUME Live' PROVE WireInv'
  BY DEF WireInv
<1>1. ReadGoesOn \/ HelloAccepted \/ CallAnswered
  BY Zenon
     DEF Reading, Live, HelloFailed, CallFailed, CallTimedOut, CloseRead, ReadErrors
<1>2. UNCHANGED <<peer, toPeer, strays, issued, closed, terminal>>
  BY <1>1, Zenon DEF ReadGoesOn, HelloAccepted, CallAnswered, sessionVars
<1>3. Live
  BY <1>1, <1>2, Zenon DEF Live, ReadGoesOn, HelloAccepted, CallAnswered, sessionVars
<1>4. /\ OneLine(Wire)
      /\ toPeer # <<>> => Wire = <<>> /\ Len(toPeer) = 1 /\ Head(toPeer).id = issued
      /\ pc \in {"dial", "hello"} => toPeer = <<>> /\ (peer = "booting" => Wire = <<>>)
      /\ pc \in {"idle", "write"} => toPeer = <<>> /\ Wire = <<>>
      /\ pc \in {"idle", "write", "read"} => peer # "booting"
  BY <1>3 DEF WireInv
<1>5. CASE ReadGoesOn
  <2>1. Wire' = Wire
    <3>1. ASSUME NEW chunk \in Seq(Byte), Moves(chunk), Waits(chunk) PROVE Wire' = Wire
      BY <3>1, KeepsWire, Zenon DEF Waits
    <3>2. CASE UNCHANGED <<framerVars, fromPeer>>
      BY <3>2, Zenon DEF Wire, framerVars
    <3>3. CASE Waits(<<>>) /\ UNCHANGED fromPeer
      <4>1. <<>> \in Seq(Byte)
        BY EmptySeq
      <4>2. Moves(<<>>)
        BY <3>3, Zenon DEF Moves, Waits
      <4> QED
        BY <3>1, <3>3, <4>1, <4>2
    <3>4. CASE Receives(Waits)
      <4>1. PICK n \in 1..Len(fromPeer) :
              /\ Waits(SubSeq(fromPeer, 1, n))
              /\ fromPeer' = SubSeq(fromPeer, n + 1, Len(fromPeer))
        BY <3>4, Zenon DEF Receives
      <4>2. SubSeq(fromPeer, 1, n) \in Seq(Byte)
        BY FirstPart DEF TypeOK
      <4>3. Moves(SubSeq(fromPeer, 1, n))
        BY <4>1, Zenon DEF Moves, Waits
      <4> QED
        BY <3>1, <4>1, <4>2, <4>3
    <3> QED
      BY <1>5, <3>2, <3>3, <3>4, Zenon
         DEF ReadGoesOn, Dribbles, FindsNothing, ReadInterrupted
  <2>2. pc' = pc
    BY <1>5, Zenon DEF ReadGoesOn, sessionVars
  <2> QED
    BY <1>2, <1>4, <2>1, <2>2 DEF WireInv, OneLine
<1>6. CASE HelloAccepted \/ CallAnswered
  <2>1. GotLine /\ pc' = "idle" /\ pc \in {"hello", "read"}
    BY <1>6, Zenon DEF HelloAccepted, CallAnswered
  <2>2. ~closed /\ pc # "gone" /\ ~strays
    BY <1>3 DEF Live
  <2>3. Wire # <<>> /\ Wire' = <<>>
    BY <2>1, <2>2, GotLineWire
  <2>4. toPeer = <<>> /\ peer # "booting"
    BY <1>4, <2>1, <2>3
  <2>5. OneLine(Wire)'
    BY <2>3, EmptySeq DEF OneLine
  <2> QED
    BY <1>2, <2>1, <2>3, <2>4, <2>5 DEF WireInv
<1> QED
  BY <1>1, <1>5, <1>6

LEMMA WireStep ==
  ASSUME TypeOK, FramedAsSent, StageInv, WireInv, [Next]_vars
  PROVE  WireInv'
<1>1. CASE Reading
  BY <1>1, WireRead
<1>2. CASE PeerStep
  BY <1>2, WirePeer
<1> SUFFICES ASSUME ~Reading, ~PeerStep, Live' PROVE WireInv'
  BY <1>1, <1>2 DEF WireInv
<1>3. Live
  BY LiveBefore
<1>4. /\ OneLine(Wire)
      /\ toPeer # <<>> => Wire = <<>> /\ Len(toPeer) = 1 /\ Head(toPeer).id = issued
      /\ pc \in {"dial", "hello"} => toPeer = <<>> /\ (peer = "booting" => Wire = <<>>)
      /\ pc \in {"idle", "write"} => toPeer = <<>> /\ Wire = <<>>
      /\ pc \in {"idle", "write", "read"} => peer # "booting"
  BY <1>3 DEF WireInv
<1>5. pc \in {"dial", "hello", "idle", "write", "read"} /\ closed' = FALSE /\ pc' # "gone"
  BY <1>3 DEF StageInv, Live, TypeOK
<1>6. UNCHANGED <<buf, fromPeer, peer>>
  <2>1. UNCHANGED buf
    BY OthersKeepFramer, Zenon DEF framerVars
  <2>2. UNCHANGED <<fromPeer, peer>>
    BY Zenon
       DEF Reading, Next, User, OwnerStep, SetTimeout, CallRefused, CallStart, Close, Drop,
           CloseFrom, DialConnects, DialFails, DialGivesUp, CallWrite, CallWriteFails,
           CloseWrite, PeerTakes, Written, WriteFails, peerVars, vars
  <2> QED
    BY <2>1, <2>2
<1>7. Wire' = Wire
  BY <1>6 DEF Wire
<1>8. CASE UNCHANGED <<toPeer, pc, issued>>
  BY <1>4, <1>6, <1>7, <1>8 DEF WireInv, OneLine
<1>9. CASE SetTimeout \/ DialFails \/ UNCHANGED vars
  BY <1>8, <1>9, Zenon DEF SetTimeout, DialFails, peerVars, sessionVars, vars
<1>10. CASE CallRefused
  <2>1. closed
    BY <1>10 DEF CallRefused
  <2> QED
    BY <1>3, <2>1 DEF Live
<1>11. CASE Close \/ Drop \/ DialGivesUp \/ CloseWrite
  <2>1. ~Close /\ ~DialGivesUp /\ ~Drop
    BY <1>5 DEF Close, Drop, CloseFrom, DialGivesUp
  <2>2. ~CloseWrite
    BY <1>5 DEF CloseWrite
  <2> QED
    BY <1>11, <2>1, <2>2
<1>12. CASE DialConnects
  BY <1>4, <1>6, <1>7, <1>12 DEF DialConnects, DialGoesOn, WireInv, OneLine, peerVars
<1>13. CASE CallStart
  <2>1. /\ toPeer = <<>> /\ Wire = <<>> /\ peer # "booting" /\ toPeer' = toPeer
        /\ pc' = "write"
    BY <1>4, <1>13 DEF CallStart, peerVars
  <2>2. OneLine(Wire)'
    BY <1>7, <2>1, EmptySeq DEF OneLine
  <2> QED
    BY <1>6, <1>7, <2>1, <2>2 DEF WireInv
<1>14. CASE CallWriteFails
  <2>1. toPeer' = toPeer
    BY <1>14, Zenon DEF CallWriteFails, WriteFails, Live
  <2> QED
    BY <1>4, <1>6, <1>7, <1>14, <2>1 DEF CallWriteFails, WireInv, OneLine
<1>15. CASE CallWrite \/ PeerTakes
  <2> DEFINE r == [CallRequest EXCEPT !.op = IF cut THEN "call" ELSE @]
  <2>1. pc = "write" /\ pc' = "read" /\ UNCHANGED issued
    BY <1>5, <1>15 DEF CallWrite, PeerTakes
  <2>2. toPeer = <<>> /\ Wire = <<>> /\ peer # "booting"
    BY <1>4, <2>1
  <2>3. toPeer' = Append(toPeer, r) \/ toPeer' = toPeer
    <3>1. Written(CallRequest) \/ Sends(CallRequest)
      BY <1>15, <2>1 DEF CallWrite, PeerTakes
    <3> QED
      BY <3>1 DEF Written, Sends
  <2>4. Append(<<>>, r) = <<r>> /\ Len(<<r>>) = 1 /\ Head(<<r>>) = r /\ r.id = issued
    BY DEF CallRequest
  <2>5. toPeer' # <<>> => Len(toPeer') = 1 /\ Head(toPeer').id = issued
    BY <2>2, <2>3, <2>4
  <2>6. OneLine(Wire)'
    BY <1>7, <2>2, EmptySeq DEF OneLine
  <2> QED
    BY <1>6, <1>7, <2>1, <2>2, <2>5, <2>6 DEF WireInv
<1> QED
  BY <1>9, <1>10, <1>11, <1>12, <1>13, <1>14, <1>15, Zenon
     DEF Next, User, OwnerStep, Reading

(* A caller is handed what the wire has, and that is its own.              *)
LEMMA OwnStep ==
  ASSUME TypeOK, FramedAsSent, StageInv, WireInv, OrderInv, OwnInv, [Next]_vars
  PROVE  OwnInv'
<1> SUFFICES ASSUME ~strays' PROVE OwnInv'
  BY DEF OwnInv
<1>1. ~strays /\ \A i \in Ids : outcome[i].kind \in Answered => outcome[i].re = i
  BY StraysStay DEF OwnInv
<1>2. CASE UNCHANGED outcome
  BY <1>1, <1>2 DEF OwnInv
<1>3. ASSUME NEW n, NEW k, NEW r, k \in Answered => r = n,
             outcome' = [outcome EXCEPT ![n] = [re |-> r, kind |-> k]]
      PROVE  OwnInv'
  BY <1>1, <1>3 DEF OwnInv, TypeOK
<1>4. CASE CallRefused \/ CallStart
  <2>1. "pending" \notin Answered /\ "closed" \notin Answered
    BY DEF Answered
  <2> QED
    BY <1>3, <1>4, <2>1, Zenon DEF CallRefused, CallStart
<1>5. CASE CallWriteFails \/ CallFailed \/ CallTimedOut
  <2>1. "io" \notin Answered /\ "timeout" \notin Answered
    BY DEF Answered
  <2> QED
    BY <1>3, <1>5, <2>1, Zenon DEF CallWriteFails, CallFailed, CallTimedOut, Return
<1>6. CASE CallAnswered
  <2>1. GotLine /\ pc = "read" /\ ~closed
    BY <1>6, Zenon DEF CallAnswered, StageInv, Calling
  <2>2. LastLine.id = issued
    BY <1>1, <2>1, GotLineWire
  <2>3. \E k : Return(k, LastLine.id)
    BY <1>6, Zenon DEF CallAnswered
  <2> QED
    BY <1>3, <2>2, <2>3, Zenon DEF Return
<1>7. CASE UNCHANGED sessionVars
  BY <1>2, <1>7 DEF sessionVars
<1>8. CASE SetTimeout \/ Close \/ Drop \/ DialConnects \/ DialFails \/ DialGivesUp \/ ReadGoesOn
           \/ HelloAccepted \/ HelloFailed \/ CallWrite \/ CloseWrite \/ CloseRead
           \/ PeerTakes \/ PeerStep \/ UNCHANGED vars
  BY <1>2, <1>7, <1>8, Zenon
     DEF SetTimeout, Close, Drop, CloseFrom, DialConnects, DialFails, DialGivesUp, ReadGoesOn,
         HelloAccepted, HelloFailed, CallWrite, CloseWrite, CloseRead, PeerTakes, PeerStep, vars
<1> QED
  BY <1>4, <1>5, <1>6, <1>8, Zenon DEF Next, User, OwnerStep

LEMMA InvInit == Init => IInv
<1> SUFFICES ASSUME Init PROVE IInv
  OBVIOUS
<1> USE DEF Init, FramerInit
<1>1. TypeOK
  <2>1. FramerTypeOK
    BY EmptySeq DEF FramerTypeOK
  <2>2. PeerTypeOK
    BY EmptySeq DEF PeerTypeOK
  <2>3. SessionTypeOK
    <3>1. 0 \in 0..MaxRequests /\ "none" \in Outcomes
      BY MaxRequestsAssumption DEF Outcomes
    <3>2. outcome \in [Ids -> [re : 0..MaxRequests, kind : Outcomes]]
      BY <3>1
    <3> QED
      BY <3>1, <3>2 DEF SessionTypeOK
  <2>4. ReadTypeOK
    <3>1. addrs \in Nat
      BY AddrAssumption
    <3>2. left \in Int /\ signals \in 0..MaxSignals
      BY TimeoutsAssumption, MaxSignalsAssumption
    <3> QED
      BY <3>1, <3>2 DEF ReadTypeOK
  <2> QED
    BY <2>1, <2>2, <2>3, <2>4, Types
<1>2. FramedAsSent
  <2>1. Taken = 0 /\ Len(stream) = 0 /\ Len(buf) = 0 /\ Len(lines) = Len(ends)
        /\ DOMAIN ends = {}
    BY DEF Taken
  <2>2. buf = SubSeq(stream, Taken + 1, Len(stream))
    <3>1. Taken + 1 \in Int /\ Len(stream) \in Int /\ Len(stream) < Taken + 1
      BY <2>1
    <3> QED
      BY <3>1, SubSeqEmpty
  <2> QED
    BY <2>1, <2>2 DEF FramedAsSent
<1>3. DeadlineInv
  BY TimeoutsAssumption DEF DeadlineInv
<1>4. StageInv
  BY DEF StageInv, Calling
<1>5. OrderInv /\ OwnInv /\ ReadInv /\ LimitHonoured
  BY DEF OrderInv, OwnInv, ReadInv, LimitHonoured, Calling, Ids, Answered
<1>6. WireInv
  <2>1. Wire = <<>>
    BY ConcatEmptySeq, EmptySeq DEF Wire
  <2> QED
    BY <2>1, EmptySeq DEF WireInv, OneLine
<1> QED
  BY <1>1, <1>2, <1>3, <1>4, <1>5, <1>6 DEF IInv

LEMMA InvStep == IInv /\ [Next]_vars => IInv'
<1> SUFFICES ASSUME IInv, [Next]_vars PROVE IInv'
  OBVIOUS
<1>1. TypeOK'
  <2>1. FramerTypeOK' /\ PeerTypeOK' /\ SessionTypeOK' /\ ReadTypeOK'
    BY FramerStep, PeerType, SessionType, ReadType DEF IInv
  <2> QED
    BY <2>1 DEF TypeOK, FramerTypeOK, PeerTypeOK, SessionTypeOK, ReadTypeOK
<1> QED
  BY <1>1, FramedStep, LimitStep, DeadlineStep, StageStep, OrderStep, ReadStep, WireStep,
     OwnStep DEF IInv

(* The strengthening of the properties below, inductive.                   *)
THEOREM InductiveInvariant == Spec => []IInv
  BY InvInit, InvStep, PTL DEF Spec

(* Every variable of the socket connection keeps its type; that the id of  *)
(* an answer is one needs that a line ends at a byte of the stream.        *)
THEOREM TypeCorrect == Spec => []TypeOK
<1>1. IInv => TypeOK
  BY DEF IInv
<1> QED
  BY <1>1, InductiveInvariant, PTL

(* LineFramer hands out the stream split at its newlines, for every limit  *)
(* and every way the stream is cut into chunks (transport/mod.rs), also    *)
(* across time-outs that leave a partial line in it; and only a line that  *)
(* has outgrown the limit without a newline is refused.                    *)
THEOREM FramedHolds == Spec => []LinesAsSent
<1>1. IInv => LinesAsSent
  BY DEF IInv, LinesAsSent
<1> QED
  BY <1>1, InductiveInvariant, PTL

(* No read and no dial outlasts its deadline by more than one poll         *)
(* interval, for all time-outs and however the peer dribbles (socket.rs).  *)
THEOREM DeadlineHolds == Spec => []DeadlineHonoured
<1>1. IInv => DeadlineHonoured
  BY DEF IInv, DeadlineInv, DeadlineHonoured
<1> QED
  BY <1>1, InductiveInvariant, PTL

-----------------------------------------------------------------------------
(* Refinement: every step of the session maps to a step of the serial      *)
(* connection or leaves its state alone.                                   *)

(* What the serial connection says of the requests.                        *)
AbstractStatuses == [i \in Ids |-> AbstractStatus(outcome[i], i)]
Statuses         == [i \in Ids |-> Meaning[outcome[i].kind]]

(* No answer is a stale one.                                               *)
LEMMA NoneStale == OwnInv => AbstractStatuses = Statuses
  BY DEF OwnInv, AbstractStatuses, AbstractStatus, Statuses

LEMMA AbstractState == Connection!Requests = Ids
  BY DEF Connection!Requests, Ids

(* The next request is new, and all before it are done with.               *)
LEMMA NextRequest ==
  ASSUME TypeOK, OrderInv, issued < MaxRequests, pc \notin Calling
  PROVE  /\ issued + 1 \in Ids
         /\ Statuses[issued + 1] = "new"
         /\ \A j \in Ids : j < issued + 1 => Statuses[j] \notin {"new", "pending"}
<1> USE MaxRequestsAssumption DEF Ids
<1>1. issued + 1 \in Ids
  BY DEF TypeOK
<1>2. outcome[issued + 1].kind = "none"
  BY <1>1 DEF OrderInv, TypeOK
<1>3. ASSUME NEW j \in Ids, j < issued + 1
      PROVE  outcome[j].kind \in Outcomes \ {"none", "pending"}
  BY <1>3 DEF OrderInv, TypeOK
<1> QED
  BY <1>1, <1>2, <1>3 DEF Statuses, Meaning, Answered, Outcomes

(* One request changes its status.                                         *)
LEMMA OneChanges ==
  ASSUME NEW n \in Ids, NEW v, \A i \in Ids \ {n} : outcome'[i] = outcome[i],
         Meaning[outcome'[n].kind] = v
  PROVE  Statuses' = [Statuses EXCEPT ![n] = v]
  BY DEF Statuses

(* A request starts out: it is pending, or was refused.                    *)
LEMMA Started ==
  ASSUME TypeOK, OrderInv, issued < MaxRequests, pc \notin Calling,
         NEW k \in {"pending", "closed"},
         outcome' = [outcome EXCEPT ![issued + 1] = [re |-> 0, kind |-> k]]
  PROVE  Statuses' = [Statuses EXCEPT ![issued + 1] =
               IF k = "pending" THEN "pending" ELSE "refused"]
<1>1. PICK n \in Ids : n = issued + 1
  BY NextRequest
<1>2. /\ outcome'[n] = [re |-> 0, kind |-> k]
      /\ \A i \in Ids \ {n} : outcome'[i] = outcome[i]
  BY <1>1 DEF TypeOK
<1> DEFINE v == IF k = "pending" THEN "pending" ELSE "refused"
<1>3. Meaning[outcome'[n].kind] = v
  BY <1>2 DEF Answered, Meaning
<1> HIDE DEF v
<1>4. Statuses' = [Statuses EXCEPT ![n] = v]
  BY <1>2, <1>3, OneChanges
<1> QED
  BY <1>1, <1>4 DEF v

(* The request in progress comes to its end.                               *)
LEMMA Ended ==
  ASSUME TypeOK, OrderInv, pc \in Calling,
         NEW k \in Outcomes \ {"none", "pending", "closed"}, NEW r,
         Return(k, r)
  PROVE  /\ issued \in Ids
         /\ Statuses[issued] = "pending"
         /\ Statuses' = [Statuses EXCEPT ![issued] =
               IF k \in Answered THEN "answered" ELSE "failed"]
<1>1. /\ issued \in Ids /\ outcome[issued].kind = "pending"
      /\ outcome \in [Ids -> [re : 0..MaxRequests, kind : Outcomes]]
  <2>1. issued \in Ids /\ issued <= issued
    BY DEF OrderInv, TypeOK
  <2> QED
    BY <2>1 DEF OrderInv, TypeOK
<1>2. Statuses[issued] = "pending"
  BY <1>1 DEF Statuses, Meaning, Answered
<1>3. /\ outcome'[issued] = [re |-> r, kind |-> k]
      /\ \A i \in Ids \ {issued} : outcome'[i] = outcome[i]
  BY <1>1 DEF Return
<1>4. Meaning[outcome'[issued].kind]
         = IF k \in Answered THEN "answered" ELSE "failed"
  BY <1>3 DEF Answered, Meaning, Outcomes
<1>5. Statuses' = [Statuses EXCEPT ![issued] =
               IF k \in Answered THEN "answered" ELSE "failed"]
  BY <1>1, <1>3, <1>4, OneChanges
<1> QED
  BY <1>1, <1>2, <1>5

LEMMA RefinementInit == Init => Connection!Init
  BY DEF Init, Connection!Init, Connection!Requests, Ids, AbstractPhase,
         AbstractStatus, Meaning, Answered

LEMMA RefinementStep ==
  ASSUME IInv, [Next]_vars
  PROVE  [Connection!Next]_(Connection!vars)
<1> USE DEF Calling
<1>0. TypeOK /\ StageInv /\ OrderInv /\ AbstractStatuses = Statuses
  BY NoneStale DEF IInv
<1>a. AbstractStatuses' = Statuses'
  <2>1. OwnInv'
    BY InvStep DEF IInv
  <2> QED
    BY <2>1 DEF OwnInv, AbstractStatuses, AbstractStatus, Statuses
<1>1. CASE UNCHANGED <<AbstractPhase, AbstractStatuses>>
  BY <1>1 DEF Connection!vars, AbstractStatuses
<1>2. ASSUME UNCHANGED outcome PROVE UNCHANGED AbstractStatuses
  BY <1>0, <1>a, <1>2 DEF Statuses
<1>3. CASE UNCHANGED <<AbstractPhase, outcome>>
  BY <1>1, <1>2, <1>3
<1>4. CASE SetTimeout \/ PeerStep \/ UNCHANGED vars \/ ReadGoesOn \/ DialFails
  <2>1. UNCHANGED <<pc, back, closed, outcome>>
    BY <1>4, Zenon
       DEF SetTimeout, PeerStep, ReadGoesOn, DialFails, sessionVars, vars
  <2> QED
    BY <1>3, <2>1 DEF AbstractPhase
<1>5. CASE CallWrite \/ PeerTakes \/ DialConnects \/ CloseWrite \/ CloseRead
  <2>1. UNCHANGED <<closed, outcome>>
    BY <1>5, Zenon DEF CallWrite, PeerTakes, DialConnects, CloseWrite, CloseRead
  <2>2. UNCHANGED AbstractPhase
    BY <1>0, <1>5, <2>1
       DEF CallWrite, PeerTakes, DialConnects, DialGoesOn, CloseWrite, CloseRead,
           AbstractPhase, StageInv
  <2> QED
    BY <1>3, <2>1, <2>2
<1>6. CASE CallRefused
  <2>1. AbstractPhase = "closed" /\ UNCHANGED AbstractPhase
    BY <1>6 DEF CallRefused, AbstractPhase
  <2>2. /\ issued < MaxRequests /\ pc \notin Calling
        /\ outcome' = [outcome EXCEPT ![issued + 1] = [re |-> 0, kind |-> "closed"]]
    BY <1>6 DEF CallRefused
  <2>3. AbstractStatuses' = [AbstractStatuses EXCEPT ![issued + 1] = "refused"]
    BY <1>0, <1>a, <2>2, Started
  <2>4. Connection!Refuse(issued + 1)
    BY <1>0, <2>1, <2>2, <2>3, NextRequest, AbstractState
       DEF Connection!Refuse, Connection!Next1, AbstractStatuses
  <2> QED
    BY <1>0, <2>2, <2>4, NextRequest, AbstractState DEF Connection!Next
<1>7. CASE CallStart
  <2>1. AbstractPhase = "open" /\ UNCHANGED AbstractPhase
    BY <1>0, <1>7 DEF CallStart, AbstractPhase, StageInv
  <2>2. /\ issued < MaxRequests /\ pc \notin Calling
        /\ outcome' = [outcome EXCEPT ![issued + 1] = [re |-> 0, kind |-> "pending"]]
    BY <1>7 DEF CallStart
  <2>3. AbstractStatuses' = [AbstractStatuses EXCEPT ![issued + 1] = "pending"]
    BY <1>0, <1>a, <2>2, Started
  <2>4. Connection!Submit(issued + 1)
    BY <1>0, <2>1, <2>2, <2>3, NextRequest, AbstractState
       DEF Connection!Submit, Connection!Next1, AbstractStatuses
  <2> QED
    BY <1>0, <2>2, <2>4, NextRequest, AbstractState DEF Connection!Next
<1>8. ASSUME UNCHANGED outcome, AbstractPhase # "closed", AbstractPhase' = "closed"
      PROVE  Connection!Next
  BY <1>2, <1>8 DEF Connection!Close, Connection!Next, AbstractStatuses
<1>9. CASE Close \/ Drop
  <2>1. CASE ~closed
    BY <1>0, <1>8, <1>9, <2>1 DEF Close, Drop, CloseFrom, AbstractPhase, StageInv
  <2>2. CASE closed
    BY <1>3, <1>9, <2>2 DEF Close, Drop, CloseFrom, AbstractPhase
  <2> QED
    BY <2>1, <2>2
<1>10. CASE HelloFailed \/ DialGivesUp
  <2>1. back' = "gone" /\ pc \in {"dial", "hello"} /\ UNCHANGED <<outcome, closed>>
    BY <1>10, Zenon DEF HelloFailed, DialGivesUp
  <2> QED
    BY <1>0, <1>8, <2>1 DEF AbstractPhase, StageInv
<1>11. CASE HelloAccepted
  <2>1. pc = "hello" /\ pc' = "idle" /\ UNCHANGED <<outcome, closed, back>>
    BY <1>11, Zenon DEF HelloAccepted
  <2>2. AbstractPhase = "opening" /\ AbstractPhase' = "open"
    BY <1>0, <2>1 DEF AbstractPhase, StageInv
  <2> QED
    BY <1>2, <2>1, <2>2 DEF Connection!Open, Connection!Next, AbstractStatuses
<1>12. CASE CallWriteFails \/ CallFailed
  <2>1. Return("io", 0) /\ pc \in Calling /\ pc' = "idle" /\ UNCHANGED <<back, closed>>
    BY <1>12, Zenon DEF CallWriteFails, CallFailed
  <2>2. /\ issued \in Ids /\ AbstractStatuses[issued] = "pending"
        /\ AbstractStatuses' = [AbstractStatuses EXCEPT ![issued] = "failed"]
    BY <1>0, <1>a, <2>1, Ended DEF Outcomes, Answered
  <2>3. UNCHANGED AbstractPhase
    BY <2>1 DEF AbstractPhase
  <2>4. Connection!Fail(issued)
    BY <2>2, <2>3 DEF Connection!Fail, AbstractStatuses
  <2> QED
    BY <2>2, <2>4, AbstractState DEF Connection!Next
<1>13. CASE CallAnswered
  <2>1. pc = "read" /\ pc' = "idle" /\ UNCHANGED <<back, closed>>
    BY <1>13, Zenon DEF CallAnswered
  <2>2. PICK k \in {"response", "bad"} : Return(k, LastLine.id)
    BY <1>13, Zenon DEF CallAnswered
  <2>3. /\ issued \in Ids /\ AbstractStatuses[issued] = "pending"
        /\ AbstractStatuses' = [AbstractStatuses EXCEPT ![issued] = "answered"]
    BY <1>0, <1>a, <2>1, <2>2, Ended DEF Outcomes, Answered
  <2>4. UNCHANGED AbstractPhase
    BY <2>1 DEF AbstractPhase
  <2>5. Connection!Answer(issued)
    BY <2>3, <2>4 DEF Connection!Answer, AbstractStatuses
  <2> QED
    BY <2>3, <2>5, AbstractState DEF Connection!Next
<1>14. CASE CallTimedOut
  <2>1. Return("timeout", 0) /\ pc = "read" /\ closed' = TRUE
    BY <1>14, Zenon DEF CallTimedOut
  <2>2. /\ issued \in Ids /\ AbstractStatuses[issued] = "pending"
        /\ AbstractStatuses' = [AbstractStatuses EXCEPT ![issued] = "failed"]
    BY <1>0, <1>a, <2>1, Ended DEF Outcomes, Answered
  <2>3. AbstractPhase # "closed" /\ AbstractPhase' = "closed"
    BY <1>0, <2>1 DEF AbstractPhase, StageInv
  <2> QED
    BY <2>2, <2>3, AbstractState DEF Connection!Close, Connection!Next, AbstractStatuses
<1> QED
  BY <1>4, <1>5, <1>6, <1>7, <1>9, <1>10, <1>11, <1>12, <1>13, <1>14, Zenon
     DEF Next, User, OwnerStep

(* Session over SocketTransport implements the same serial connection as   *)
(* over DirectTransport: requests in order, each with its own answer or a  *)
(* failure, also when a late line, a cut line or one beyond the limit is   *)
(* on the wire, and refusal for good once closed.                          *)
THEOREM Refinement == Spec => ImplementsConnection
<1>1. IInv /\ [Next]_vars => [Connection!Next]_(Connection!vars)
  BY RefinementStep
<1> QED
  BY <1>1, RefinementInit, InductiveInvariant, PTL
     DEF Spec, ImplementsConnection, Connection!Spec
=============================================================================
