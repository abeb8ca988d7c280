-------------------------- MODULE WireFormatProofs --------------------------
(***************************************************************************)
(* Proofs about WireFormat for all messages, however many and however      *)
(* long.  The argument is about where in buff_ each message begins, and    *)
(* what is found there.                                                    *)
(***************************************************************************)
EXTENDS WireFormat, SequenceTheorems, TLAPS

-----------------------------------------------------------------------------
(* Bytes *)

(* What is in a buffer stays there when something is put behind it.        *)
LEMMA Behind ==
  ASSUME NEW b \in Seq(Nat), NEW s \in Seq(Nat)
  PROVE  /\ b \o s \in Seq(Nat) /\ Len(b) \in Nat /\ Len(s) \in Nat
         /\ Len(b \o s) = Len(b) + Len(s)
         /\ \A i \in 1..Len(b) : (b \o s)[i] = b[i]
         /\ \A i \in 1..Len(s) : (b \o s)[Len(b) + i] = s[i]
<1>1. Len(b) \in Nat /\ Len(s) \in Nat
  BY LenProperties
<1>2. /\ b \o s \in Seq(Nat) /\ Len(b \o s) = Len(b) + Len(s)
      /\ \A i \in 1..(Len(b) + Len(s)) :
           (b \o s)[i] = IF i <= Len(b) THEN b[i] ELSE s[i - Len(b)]
  BY ConcatProperties
<1>3. \A i \in 1..Len(b) : i \in 1..(Len(b) + Len(s)) /\ i <= Len(b)
  BY <1>1
<1>4. \A i \in 1..Len(s) :
        /\ Len(b) + i \in 1..(Len(b) + Len(s)) /\ ~(Len(b) + i <= Len(b))
        /\ (Len(b) + i) - Len(b) = i
  BY <1>1
<1>5. \A i \in 1..Len(s) : (b \o s)[Len(b) + i] = s[i]
  BY <1>2, <1>4
<1>6. \A i \in 1..Len(b) : (b \o s)[i] = b[i]
  BY <1>2, <1>3
<1>. QED
  BY <1>1, <1>2, <1>5, <1>6
(* A number is read back from its two bytes.                               *)
LEMMA HalfReads ==
  ASSUME NEW n \in Nat
  PROVE  /\ n % 256 \in Nat /\ n \div 256 \in Nat
         /\ (n % 256) + 256 * (n \div 256) = n
OBVIOUS

(* What is in a word: half of it, and nothing in the other half.           *)
LEMMA HalfBytes ==
  ASSUME NEW n \in Nat
  PROVE  /\ Half(n) \in Seq(Nat) /\ Len(Half(n)) = 2
         /\ Half(n)[1] + 256 * Half(n)[2] = n
<1>1. n % 256 \in Nat /\ n \div 256 \in Nat /\ (n % 256) + 256 * (n \div 256) = n
  BY HalfReads
<1> DEFINE a == n % 256
           b == n \div 256
<1>2. Half(n) = <<a, b>>
  BY DEF Half
<1>3. a \in Nat /\ b \in Nat /\ a + 256 * b = n
  BY <1>1
<1> HIDE DEF a, b
<1>. QED
  BY <1>2, <1>3

LEMMA WordBytes ==
  ASSUME NEW n \in Nat
  PROVE  /\ Word(n) \in Seq(Nat) /\ Len(Word(n)) = 4
         /\ Word(n)[1] + 256 * Word(n)[2] = n
<1> DEFINE h == Half(n)
<1>1. h \in Seq(Nat) /\ Len(h) = 2 /\ h[1] + 256 * h[2] = n
  BY HalfBytes
<1> HIDE DEF h
<1> DEFINE rest == <<0, 0>>
<1>2. rest \in Seq(Nat) /\ Len(rest) = 2
  OBVIOUS
<1> HIDE DEF rest
<1>3. /\ h \o rest \in Seq(Nat) /\ Len(h \o rest) = Len(h) + Len(rest)
      /\ \A i \in 1..Len(h) : (h \o rest)[i] = h[i]
  <2>1. h \in Seq(Nat)
    BY <1>1
  <2>2. rest \in Seq(Nat)
    BY <1>2
  <2>. QED
    BY <2>1, <2>2, Behind
<1>4. Len(h \o rest) = 4
  BY <1>1, <1>2, <1>3
<1>5. (h \o rest)[1] = h[1] /\ (h \o rest)[2] = h[2]
  BY <1>1, <1>3
<1>. QED
  BY <1>1, <1>3, <1>4, <1>5 DEF Word, h, rest

LEMMA HeaderBytes ==
  ASSUME NEW o \in Nat, NEW c \in Nat, NEW z \in Nat
  PROVE  /\ Header(o, c, z) \in Seq(Nat) /\ Len(Header(o, c, z)) = 8
         /\ Header(o, c, z)[1] + 256 * Header(o, c, z)[2] = o
         /\ Header(o, c, z)[5] + 256 * Header(o, c, z)[6] = c
         /\ Header(o, c, z)[7] + 256 * Header(o, c, z)[8] = z
<1> DEFINE w == Word(o)
           hc == Half(c)
           hz == Half(z)
<1>1. /\ w \in Seq(Nat) /\ Len(w) = 4 /\ w[1] + 256 * w[2] = o
      /\ hc \in Seq(Nat) /\ Len(hc) = 2 /\ hc[1] + 256 * hc[2] = c
      /\ hz \in Seq(Nat) /\ Len(hz) = 2 /\ hz[1] + 256 * hz[2] = z
  BY WordBytes, HalfBytes
<1>2. Header(o, c, z) = (w \o hc) \o hz
  BY DEF Header
<1> HIDE DEF w, hc, hz
<1>3. w \in Seq(Nat) /\ hc \in Seq(Nat) /\ hz \in Seq(Nat)
  BY <1>1
<1> DEFINE x == w \o hc
           y == x \o hz
<1>4. /\ x \in Seq(Nat) /\ Len(x) = Len(w) + Len(hc)
      /\ \A i \in 1..Len(w) : x[i] = w[i]
      /\ \A i \in 1..Len(hc) : x[Len(w) + i] = hc[i]
  BY <1>3, Behind
<1>5. /\ y \in Seq(Nat) /\ Len(y) = Len(x) + Len(hz)
      /\ \A i \in 1..Len(x) : y[i] = x[i]
      /\ \A i \in 1..Len(hz) : y[Len(x) + i] = hz[i]
  BY <1>3, <1>4, Behind
<1> HIDE DEF x, y
<1>6. Len(x) = 6
  BY <1>1, <1>4
<1>7. Len(y) = 8
  BY <1>1, <1>5, <1>6
<1>8. x[1] = w[1] /\ x[2] = w[2] /\ x[4 + 1] = hc[1] /\ x[4 + 2] = hc[2]
  BY <1>1, <1>4
<1>9. /\ y[1] = x[1] /\ y[2] = x[2] /\ y[5] = x[5] /\ y[6] = x[6]
      /\ y[6 + 1] = hz[1] /\ y[6 + 2] = hz[2]
  BY <1>1, <1>5, <1>6
<1>10. x[5] = hc[1] /\ x[6] = hc[2] /\ y[7] = hz[1] /\ y[8] = hz[2]
  <2>1. 4 + 1 = 5 /\ 4 + 2 = 6 /\ 6 + 1 = 7 /\ 6 + 2 = 8
    OBVIOUS
  <2>. QED
    BY <1>8, <1>9, <2>1
<1>11. /\ y[1] + 256 * y[2] = o /\ y[5] + 256 * y[6] = c
       /\ y[7] + 256 * y[8] = z
  BY <1>1, <1>8, <1>9, <1>10
<1>12. Header(o, c, z) = y
  BY <1>2 DEF x, y
<1>13. y \in Seq(Nat)
  BY <1>5
<1>. QED
  BY ONLY <1>7, <1>11, <1>12, <1>13

(* Elements are filled up to whole words.                                  *)
LEMMA PaddedBytes ==
  ASSUME NEW bytes \in Seq(Nat)
  PROVE  /\ Padded(bytes) \in Seq(Nat)
         /\ Len(Padded(bytes)) = Len(bytes) + PadTo4(Len(bytes))
         /\ Len(bytes) <= Len(Padded(bytes)) /\ Len(bytes) \in Nat
         /\ \A i \in 1..Len(bytes) : Padded(bytes)[i] = bytes[i]
<1> DEFINE pad == PadTo4(Len(bytes))
<1>1. Len(bytes) \in Nat
  BY LenProperties
<1>2. pad \in Nat
  BY <1>1 DEF PadTo4
<1> HIDE DEF pad
<1>3. JunkBytes(pad) \in Seq(Nat) /\ Len(JunkBytes(pad)) = pad
  <2>1. JunkBytes(pad) \in [1..pad -> Nat]
    BY DEF JunkBytes, Junk
  <2>. QED
    BY <1>2, <2>1, SeqDef, LenProperties
<1>4. /\ bytes \o JunkBytes(pad) \in Seq(Nat)
      /\ Len(bytes \o JunkBytes(pad)) = Len(bytes) + pad
      /\ \A i \in 1..(Len(bytes) + pad) :
           (bytes \o JunkBytes(pad))[i] =
             IF i <= Len(bytes) THEN bytes[i] ELSE JunkBytes(pad)[i - Len(bytes)]
  BY <1>3, ConcatProperties
<1>. QED
  BY <1>1, <1>2, <1>4 DEF Padded, pad

(* Writing 8 bytes over those behind the first h of a buffer.              *)
Overwrite(b, h, bytes) ==
  SubSeq(b, 1, h) \o bytes \o SubSeq(b, h + HeaderSize + 1, Len(b))

LEMMA OverwriteBytes ==
  ASSUME NEW b \in Seq(Nat), NEW h \in Nat, h + HeaderSize <= Len(b),
         NEW bytes \in Seq(Nat), Len(bytes) = HeaderSize
  PROVE  /\ Overwrite(b, h, bytes) \in Seq(Nat)
         /\ Len(Overwrite(b, h, bytes)) = Len(b)
         /\ \A i \in 1..Len(b) :
              i <= h \/ i > h + HeaderSize => Overwrite(b, h, bytes)[i] = b[i]
         /\ \A i \in 1..HeaderSize : Overwrite(b, h, bytes)[h + i] = bytes[i]
<1> DEFINE x == SubSeq(b, 1, h)
           z == SubSeq(b, h + HeaderSize + 1, Len(b))
           y == x \o bytes
           r == y \o z
           N == Len(b)
<1>1. N \in Nat /\ HeaderSize = 8 /\ h + 8 <= N /\ \A i \in 1..N : b[i] \in Nat
  BY LenProperties, ElementOfSeq DEF HeaderSize
<1> HIDE DEF N
<1>2. x \in Seq(Nat) /\ Len(x) = h /\ \A i \in 1..h : x[i] = b[i]
  <2>1. \A i \in 1..h : b[i] \in Nat
    BY <1>1
  <2>2. /\ x \in Seq(Nat) /\ Len(x) = IF 1 <= h THEN h - 1 + 1 ELSE 0
        /\ \A i \in 1..(h - 1 + 1) : x[i] = b[1 + i - 1]
    BY SMTT(30), <2>1, SubSeqProperties
  <2>. HIDE DEF x
  <2>. QED
    BY <2>2
<1>3. /\ z \in Seq(Nat) /\ Len(z) = N - (h + 8)
      /\ \A i \in 1..(N - (h + 8)) : z[i] = b[h + 8 + i]
  <2>1. /\ \A i \in (h + 8 + 1)..N : b[i] \in Nat
        /\ h + 8 + 1 \in Nat /\ h + 8 + 1 \in Int /\ N \in Int
    BY <1>1
  <2>2. z = SubSeq(b, h + 8 + 1, N)
    BY <1>1 DEF N
  <2>. HIDE DEF z
  <2>3. /\ z \in Seq(Nat)
        /\ Len(z) = IF h + 8 + 1 <= N THEN N - (h + 8 + 1) + 1 ELSE 0
        /\ \A i \in 1..(N - (h + 8 + 1) + 1) : z[i] = b[h + 8 + 1 + i - 1]
    BY <2>1, <2>2, SubSeqProperties
  <2>. QED
    BY <1>1, <2>3
<1> HIDE DEF x, z
<1>4. /\ y \in Seq(Nat) /\ Len(y) = Len(x) + Len(bytes)
      /\ \A i \in 1..Len(x) : y[i] = x[i]
      /\ \A i \in 1..Len(bytes) : y[Len(x) + i] = bytes[i]
  BY <1>2, Behind
<1>5. /\ r \in Seq(Nat) /\ Len(r) = Len(y) + Len(z)
      /\ \A i \in 1..Len(y) : r[i] = y[i]
      /\ \A i \in 1..Len(z) : r[Len(y) + i] = z[i]
  BY <1>3, <1>4, Behind
<1> HIDE DEF y, r
<1>6. Len(y) = h + 8
  BY <1>1, <1>2, <1>4
<1>7. Len(r) = N
  BY <1>1, <1>3, <1>5, <1>6
<1>8. \A i \in 1..h : r[i] = b[i]
  <2>1. \A i \in 1..h : i \in 1..Len(x) /\ i \in 1..Len(y)
    BY <1>2, <1>6
  <2>. QED
    BY <1>2, <1>4, <1>5, <2>1
<1>9. \A i \in 1..8 : r[h + i] = bytes[i]
  <2>1. \A i \in 1..8 : i \in 1..Len(bytes) /\ h + i \in 1..Len(y) /\ h + i = Len(x) + i
    BY <1>1, <1>2, <1>6
  <2>. QED
    BY <1>4, <1>5, <2>1
<1>10. ASSUME NEW i \in 1..N, i > h + 8
       PROVE  r[i] = b[i]
  <2> DEFINE k == i - (h + 8)
  <2>1. k \in 1..Len(z) /\ k \in 1..(N - (h + 8)) /\ Len(y) + k = i /\ h + 8 + k = i
    BY <1>1, <1>3, <1>6, <1>10
  <2>. HIDE DEF k
  <2>. QED
    BY <1>3, <1>5, <2>1
<1>11. r = Overwrite(b, h, bytes)
  BY DEF Overwrite, r, y, x, z
<1>12. \A i \in 1..N : i <= h => i \in 1..h
  BY <1>1
<1>. QED
  BY <1>1, <1>5, <1>7, <1>8, <1>9, <1>10, <1>11, <1>12 DEF N

-----------------------------------------------------------------------------
(* Messages in a buffer *)

(* A message of this size begins behind the first i bytes, unless some     *)
(* message has outgrown its size field.                                    *)
Heads(b, i, msg, size, over) ==
  /\ WordAt(b, i) = msg.obj /\ WordAt(b, i + 4) = msg.opcode
  /\ over \/ WordAt(b, i + 6) = size

(* Message k of msgs begins at at[k] and ends where the next one begins,   *)
(* the last at the end of b; only the last may still be open, without its  *)
(* header.                                                                 *)
Framed(at, msgs, b, open, over) ==
  /\ at \in [1..(Len(msgs) + 1) -> Nat]
  /\ at[1] = 0 /\ at[Len(msgs) + 1] = Len(b)
  /\ \A j, k \in 1..(Len(msgs) + 1) : j < k => at[j] + HeaderSize <= at[k]
  /\ \A k \in 1..Len(msgs) :
       (open /\ k = Len(msgs)) \/ Heads(b, at[k], msgs[k], at[k + 1] - at[k], over)

(* The end of the last of n messages is moved. *)
EndMoved(at, n, end) == [k \in 1..(n + 1) |-> IF k = n + 1 THEN end ELSE at[k]]

LEMMA HeadsKept ==
  ASSUME NEW b, NEW b2, NEW i \in Nat, NEW msg, NEW size, NEW over, NEW over2,
         Heads(b, i, msg, size, over), over => over2,
         \A j \in 1..8 : b2[i + j] = b[i + j]
  PROVE  Heads(b2, i, msg, size, over2)
<1>1. \A j \in {0, 4, 6} : WordAt(b2, i + j) = WordAt(b, i + j)
  <2>1. \A j \in {0, 4, 6} :
          /\ j + 1 \in 1..8 /\ j + 2 \in 1..8
          /\ (i + j) + 1 = i + (j + 1) /\ (i + j) + 2 = i + (j + 2)
    OBVIOUS
  <2>. QED
    BY <2>1 DEF WordAt
<1>2. i + 0 = i
  OBVIOUS
<1>3. WordAt(b2, i) = WordAt(b, i)
  BY <1>1, <1>2
<1>. QED
  BY <1>1, <1>3 DEF Heads

LEMMA HeadsMoved ==
  ASSUME NEW b, NEW b2, NEW i \in Nat, NEW msg, NEW size, NEW over,
         Heads(b, i, msg, size, over), \A j \in 1..8 : b2[i + j] = b[i + j]
  PROVE  Heads(b2, i, msg, size, over)
<1>1. over => over
  OBVIOUS
<1>. QED
  BY <1>1, HeadsKept

LEMMA ByteAndShort == Byte \subseteq Nat /\ Short \subseteq Nat
BY DEF Byte, Short

LEMMA MessageFields ==
  ASSUME NEW m \in MessageType
  PROVE  m.obj \in Nat /\ m.opcode \in Nat /\ m.args \in Seq(Primitive)
<1>1. m.obj \in Short /\ m.opcode \in Short /\ m.args \in Seq(Primitive)
  BY DEF MessageType
<1>. QED
  BY <1>1, ByteAndShort

LEMMA Below ==
  ASSUME NEW p \in Nat, NEW l \in Nat, NEW c \in Nat, p + HeaderSize <= l, l <= c
  PROVE  p + HeaderSize <= c /\ p <= l
BY DEF HeaderSize

LEMMA InHeader ==
  ASSUME NEW i \in Nat, NEW n \in Nat, i + HeaderSize <= n
  PROVE  \A j \in 1..8 : i + j \in 1..n
BY DEF HeaderSize

(* append leaves room for a header.                                        *)
LEMMA BeginFramed ==
  ASSUME NEW msgs \in Seq(MessageType), NEW msg \in MessageType,
         NEW b \in Seq(Nat), NEW s \in Seq(Nat), HeaderSize <= Len(s),
         NEW over, NEW at, Framed(at, msgs, b, FALSE, over)
  PROVE  Framed(EndMoved(at, Len(msgs) + 1, Len(b \o s)), Append(msgs, msg), b \o s,
                TRUE, over)
<1> DEFINE n == Len(msgs)
           m == Append(msgs, msg)
           c == b \o s
           g == EndMoved(at, n + 1, Len(c))
<1>1. /\ c \in Seq(Nat) /\ Len(c) \in Nat /\ Len(b) \in Nat
      /\ Len(b) + HeaderSize <= Len(c) /\ Len(b) <= Len(c)
      /\ \A i \in 1..Len(b) : c[i] = b[i]
  BY Behind, LenProperties DEF HeaderSize
<1>2. n \in Nat /\ Len(m) = n + 1 /\ m[n + 1] = msg /\ \A k \in 1..n : m[k] = msgs[k]
  BY AppendProperties, LenProperties
<1>3. /\ at \in [1..(n + 1) -> Nat] /\ at[1] = 0 /\ at[n + 1] = Len(b)
      /\ \A j, k \in 1..(n + 1) : j < k => at[j] + HeaderSize <= at[k]
      /\ \A k \in 1..n : Heads(b, at[k], msgs[k], at[k + 1] - at[k], over)
  BY DEF Framed
<1> HIDE DEF n, m, c
<1>4. /\ g \in [1..(n + 2) -> Nat] /\ g[n + 2] = Len(c)
      /\ \A k \in 1..(n + 1) : g[k] = at[k] /\ k \in 1..(n + 2) /\ at[k] \in Nat
      /\ \A k \in 1..(n + 2) : k \in 1..(n + 1) \/ k = n + 2
      /\ n + 1 \in 1..(n + 1) /\ 1 \in 1..(n + 1) /\ (n + 1) + 1 = n + 2
  <2>1. /\ \A k \in 1..(n + 1) : k \in 1..(n + 2) /\ k # n + 2
        /\ \A k \in 1..(n + 2) : k \in 1..(n + 1) \/ k = n + 2
        /\ n + 1 \in 1..(n + 1) /\ 1 \in 1..(n + 1) /\ (n + 1) + 1 = n + 2
        /\ n + 2 \in 1..(n + 2)
    BY <1>2
  <2>2. g = [k \in 1..(n + 2) |-> IF k = n + 2 THEN Len(c) ELSE at[k]]
    BY <2>1 DEF EndMoved
  <2>. HIDE DEF g
  <2>. QED
    BY <1>1, <1>3, <2>1, <2>2
<1> HIDE DEF g
<1>5. \A k \in 1..(n + 1) : at[k] + HeaderSize <= Len(c) /\ at[k] <= Len(b)
  <2>1. \A k \in 1..(n + 1) : k < n + 1 \/ k = n + 1
    BY <1>2
  <2>2. \A k \in 1..(n + 1) : k < n + 1 => at[k] + HeaderSize <= Len(b)
    BY <1>3, <1>4
  <2>3. ASSUME NEW k \in 1..(n + 1), k < n + 1
        PROVE  at[k] + HeaderSize <= Len(c) /\ at[k] <= Len(b)
    <3>1. at[k] \in Nat /\ at[k] + HeaderSize <= Len(b)
      BY <1>4, <2>2, <2>3
    <3>. QED
      BY <1>1, <3>1, Below
  <2>4. at[n + 1] + HeaderSize <= Len(c) /\ at[n + 1] <= Len(b)
    BY <1>1, <1>3
  <2>. QED
    BY <2>1, <2>3, <2>4
<1>6. ASSUME NEW j \in 1..(n + 2), NEW k \in 1..(n + 2), j < k
      PROVE  g[j] + HeaderSize <= g[k]
  <2>1. j \in 1..(n + 1)
    BY <1>2, <1>6
  <2>. QED
    BY <1>3, <1>4, <1>5, <1>6, <2>1
<1>7. ASSUME NEW k \in 1..n
      PROVE  Heads(c, g[k], m[k], g[k + 1] - g[k], over)
  <2>1. k \in 1..(n + 1) /\ k + 1 \in 1..(n + 1) /\ k < k + 1 /\ k \in Nat
    BY <1>2
  <2>2. at[k] + HeaderSize <= at[k + 1] /\ at[k + 1] <= Len(b) /\ at[k] \in Nat
    BY <1>3, <1>4, <1>5, <2>1
  <2>3. \A j \in 1..8 : at[k] + j \in 1..Len(b)
    <3>1. at[k] + HeaderSize <= Len(b)
      BY <1>1, <1>4, <2>1, <2>2, Below
    <3>. QED
      BY <1>1, <2>2, <3>1, InHeader
  <2>4. \A j \in 1..8 : c[at[k] + j] = b[at[k] + j]
    BY <1>1, <2>3
  <2>5. Heads(b, at[k], msgs[k], at[k + 1] - at[k], over)
    BY <1>3
  <2>6. Heads(c, at[k], msgs[k], at[k + 1] - at[k], over)
    BY <2>2, <2>4, <2>5, HeadsMoved
  <2>. QED
    BY <1>2, <1>4, <2>1, <2>6
<1>8. Framed(g, m, c, TRUE, over)
  <2>1. \A k \in 1..Len(m) : k \in 1..n \/ k = Len(m)
    BY <1>2
  <2>2. Len(m) + 1 = n + 2
    BY <1>2
  <2>3. g[1] = 0
    BY <1>3, <1>4
  <2>. QED
    BY <1>4, <1>6, <1>7, <2>1, <2>2, <2>3 DEF Framed
<1>. QED
  BY <1>8 DEF g, m, c, n

(* Something may have been put behind b. *)
Extends(c, b) == Len(b) <= Len(c) /\ \A i \in 1..Len(b) : c[i] = b[i]

(* The open message grows.                                                 *)
LEMMA GrowFramed ==
  ASSUME NEW msgs \in Seq(MessageType), msgs # <<>>,
         NEW b \in Seq(Nat), NEW c \in Seq(Nat), Extends(c, b),
         NEW over, NEW at, Framed(at, msgs, b, TRUE, over)
  PROVE  Framed(EndMoved(at, Len(msgs), Len(c)), msgs, c, TRUE, over)
<1> DEFINE n == Len(msgs)
           g == EndMoved(at, n, Len(c))
<1>1. /\ Len(c) \in Nat /\ Len(b) \in Nat /\ Len(b) <= Len(c)
      /\ \A i \in 1..Len(b) : c[i] = b[i]
  BY LenProperties DEF Extends
<1>2. n \in Nat \ {0}
  BY LenProperties, EmptySeq
<1>3. /\ at \in [1..(n + 1) -> Nat] /\ at[1] = 0 /\ at[n + 1] = Len(b)
      /\ \A j, k \in 1..(n + 1) : j < k => at[j] + HeaderSize <= at[k]
      /\ \A k \in 1..n : k = n \/ Heads(b, at[k], msgs[k], at[k + 1] - at[k], over)
  BY DEF Framed
<1> HIDE DEF n
<1>4. /\ g \in [1..(n + 1) -> Nat] /\ g[n + 1] = Len(c)
      /\ \A k \in 1..n : g[k] = at[k] /\ k \in 1..(n + 1) /\ at[k] \in Nat
      /\ \A k \in 1..(n + 1) : k \in 1..n \/ k = n + 1
      /\ n + 1 \in 1..(n + 1) /\ 1 \in 1..n /\ \A k \in 1..n : k < n + 1
  <2>1. /\ \A k \in 1..n : k \in 1..(n + 1) /\ k # n + 1 /\ k < n + 1
        /\ \A k \in 1..(n + 1) : k \in 1..n \/ k = n + 1
        /\ n + 1 \in 1..(n + 1) /\ 1 \in 1..n
    BY <1>2
  <2>2. g = [k \in 1..(n + 1) |-> IF k = n + 1 THEN Len(c) ELSE at[k]]
    BY DEF EndMoved
  <2>. HIDE DEF g
  <2>. QED
    BY <1>1, <1>3, <2>1, <2>2
<1> HIDE DEF g
<1>5. \A k \in 1..n : at[k] + HeaderSize <= Len(b)
  BY <1>3, <1>4
<1>6. ASSUME NEW j \in 1..(n + 1), NEW k \in 1..(n + 1), j < k
      PROVE  g[j] + HeaderSize <= g[k]
  <2>1. j \in 1..n
    BY <1>2, <1>6
  <2>2. at[j] + HeaderSize <= Len(c)
    BY <1>1, <1>4, <1>5, <2>1 DEF HeaderSize
  <2>. QED
    BY <1>3, <1>4, <1>6, <2>1, <2>2
<1>7. ASSUME NEW k \in 1..n, k # n
      PROVE  Heads(c, g[k], msgs[k], g[k + 1] - g[k], over)
  <2>1. k \in 1..n /\ k + 1 \in 1..n
    BY <1>2, <1>7
  <2>2. at[k] + HeaderSize <= Len(b) /\ at[k] \in Nat
    BY <1>4, <1>5, <2>1
  <2>3. \A j \in 1..8 : at[k] + j \in 1..Len(b)
    BY <1>1, <2>2, InHeader
  <2>4. \A j \in 1..8 : c[at[k] + j] = b[at[k] + j]
    BY <1>1, <2>3
  <2>5. Heads(b, at[k], msgs[k], at[k + 1] - at[k], over)
    BY <1>3, <1>7
  <2>6. Heads(c, at[k], msgs[k], at[k + 1] - at[k], over)
    BY <2>2, <2>4, <2>5, HeadsMoved
  <2>. QED
    BY <1>4, <2>1, <2>6
<1>8. Framed(g, msgs, c, TRUE, over)
  <2>1. g[1] = 0
    BY <1>3, <1>4
  <2>. QED
    BY <1>4, <1>6, <1>7, <2>1 DEF Framed, n
<1>. QED
  BY <1>8 DEF g, n

(* A header for a message of this size, unless that has outgrown its field. *)
IsHeader(bytes, msg, size, over) ==
  /\ bytes \in Seq(Nat) /\ Len(bytes) = HeaderSize
  /\ bytes[1] + 256 * bytes[2] = msg.obj
  /\ bytes[5] + 256 * bytes[6] = msg.opcode
  /\ over \/ bytes[7] + 256 * bytes[8] = size

LEMMA HeaderIsHeader ==
  ASSUME NEW msg \in MessageType, NEW z \in Nat, NEW size, NEW over
  PROVE  over \/ z = size =>
           IsHeader(Header(msg.obj, msg.opcode, z), msg, size, over)
<1> DEFINE o == msg.obj
           c == msg.opcode
           H == Header(o, c, z)
<1>1. o \in Nat /\ c \in Nat
  BY MessageFields
<1> HIDE DEF o, c
<1>2. /\ H \in Seq(Nat) /\ Len(H) = 8
      /\ H[1] + 256 * H[2] = o
      /\ H[5] + 256 * H[6] = c
      /\ H[7] + 256 * H[8] = z
  BY <1>1, HeaderBytes
<1> HIDE DEF H
<1>3. over \/ z = size => IsHeader(H, msg, size, over)
  BY <1>2 DEF IsHeader, HeaderSize, o, c
<1>. QED
  BY <1>3 DEF H, o, c

(* The header is written over the room for it.                             *)
LEMMA CloseFramed ==
  ASSUME NEW msgs \in Seq(MessageType), msgs # <<>>, NEW b \in Seq(Nat),
         NEW over, NEW over2, over => over2,
         NEW at, Framed(at, msgs, b, TRUE, over),
         NEW bytes,
         IsHeader(bytes, msgs[Len(msgs)], Len(b) - at[Len(msgs)], over2)
  PROVE  LET c == Overwrite(b, at[Len(msgs)], bytes) IN
         /\ Framed(at, msgs, c, FALSE, over2) /\ c \in Seq(Nat)
         /\ at[Len(msgs)] \in Nat /\ at[Len(msgs)] + HeaderSize <= Len(b)
<1> DEFINE n == Len(msgs)
           h == at[n]
           c == Overwrite(b, h, bytes)
           msg == msgs[n]
<1>1. n \in Nat \ {0} /\ n \in 1..n /\ Len(b) \in Nat
  BY LenProperties, EmptySeq
<1>2. /\ at \in [1..(n + 1) -> Nat] /\ at[1] = 0 /\ at[n + 1] = Len(b)
      /\ \A j, k \in 1..(n + 1) : j < k => at[j] + HeaderSize <= at[k]
      /\ \A k \in 1..n : k = n \/ Heads(b, at[k], msgs[k], at[k + 1] - at[k], over)
  BY DEF Framed
<1>3. IsHeader(bytes, msg, Len(b) - h, over2)
  OBVIOUS
<1>4. bytes \in Seq(Nat) /\ Len(bytes) = HeaderSize
  BY DEF IsHeader
<1> HIDE DEF n, msg
<1>5. h \in Nat /\ h + HeaderSize <= Len(b)
  <2>1. n \in 1..(n + 1) /\ n + 1 \in 1..(n + 1) /\ n < n + 1
    BY <1>1
  <2>. QED
    BY <1>2, <2>1
<1> HIDE DEF h
<1>6. /\ c \in Seq(Nat) /\ Len(c) = Len(b)
      /\ \A i \in 1..Len(b) : i <= h \/ i > h + HeaderSize => c[i] = b[i]
      /\ \A i \in 1..HeaderSize : c[h + i] = bytes[i]
  BY <1>4, <1>5, OverwriteBytes
<1> HIDE DEF c
<1>7. ASSUME NEW k \in 1..n, k # n
      PROVE  Heads(c, at[k], msgs[k], at[k + 1] - at[k], over2)
  <2>1. k \in 1..(n + 1) /\ n \in 1..(n + 1) /\ k < n
    BY <1>1, <1>7
  <2>2. at[k] + HeaderSize <= h /\ at[k] \in Nat
    BY <1>2, <2>1 DEF h
  <2>3. \A j \in 1..8 : at[k] + j \in 1..h
    BY <1>5, <2>2, InHeader
  <2>4. \A i \in 1..h : i \in 1..Len(b) /\ i <= h
    BY <1>1, <1>5 DEF HeaderSize
  <2>5. \A j \in 1..8 : c[at[k] + j] = b[at[k] + j]
    BY <1>6, <2>3, <2>4
  <2>6. Heads(b, at[k], msgs[k], at[k + 1] - at[k], over)
    BY <1>2, <1>7
  <2>7. Heads(c, at[k], msgs[k], at[k + 1] - at[k], over)
    BY <2>2, <2>5, <2>6, HeadsMoved
  <2>. QED
    BY <2>7 DEF Heads
<1>8. Heads(c, h, msg, Len(b) - h, over2)
  <2>1. \A i \in 1..8 : c[h + i] = bytes[i]
    BY <1>6 DEF HeaderSize
  <2>2. /\ c[h + 1] = bytes[1] /\ c[h + 2] = bytes[2] /\ c[h + 5] = bytes[5]
        /\ c[h + 6] = bytes[6] /\ c[h + 7] = bytes[7] /\ c[h + 8] = bytes[8]
    BY <2>1
  <2>3. /\ (h + 4) + 1 = h + 5 /\ (h + 4) + 2 = h + 6
        /\ (h + 6) + 1 = h + 7 /\ (h + 6) + 2 = h + 8
    BY <1>5
  <2>4. WordAt(c, h) = msg.obj
    BY <1>3, <2>2 DEF WordAt, IsHeader
  <2>5. WordAt(c, h + 4) = msg.opcode
    <3>1. WordAt(c, h + 4) = c[h + 5] + 256 * c[h + 6]
      BY <2>3 DEF WordAt
    <3>. QED
      BY <1>3, <2>2, <3>1 DEF IsHeader
  <2>6. over2 \/ WordAt(c, h + 6) = Len(b) - h
    <3>1. WordAt(c, h + 6) = c[h + 7] + 256 * c[h + 8]
      BY <2>3 DEF WordAt
    <3>. QED
      BY <1>3, <2>2, <3>1 DEF IsHeader
  <2>. QED
    BY <2>4, <2>5, <2>6 DEF Heads
<1>9. Framed(at, msgs, c, FALSE, over2)
  <2>1. Heads(c, at[n], msgs[n], at[n + 1] - at[n], over2)
    BY <1>2, <1>8 DEF h, msg
  <2>2. \A k \in 1..n : Heads(c, at[k], msgs[k], at[k + 1] - at[k], over2)
    BY <1>7, <2>1
  <2>. QED
    BY <1>2, <1>6, <2>2 DEF Framed, n
<1>. QED
  BY <1>5, <1>6, <1>9 DEF c, h, n

-----------------------------------------------------------------------------
(* Arguments *)

LEMMA PrimitiveFacts ==
  ASSUME NEW p \in Primitive
  PROVE  /\ p.t \in {"word", "fd", "string", "array", "null"}
         /\ p = [t |-> p.t, v |-> p.v]
         /\ p.t \in {"word", "fd"} => p.v \in Nat
         /\ p.t \in {"string", "array"} => p.v \in Seq(Nat) /\ Len(p.v) \in Nat
         /\ p.t = "null" => p.v = <<>>
<1>1. /\ p.t \in {"word", "fd", "string", "array", "null"}
      /\ p = [t |-> p.t, v |-> p.v]
      /\ p.t \in {"word", "fd"} => p.v \in Short
      /\ p.t \in {"string", "array"} => p.v \in Seq(Byte)
      /\ p.t = "null" => p.v = <<>>
  BY DEF Primitive
<1>2. Seq(Byte) \subseteq Seq(Nat)
  <2>1. ASSUME NEW v \in Seq(Byte)
        PROVE  v \in Seq(Nat)
    <3>1. v \in [1..Len(v) -> Byte] /\ Len(v) \in Nat
      BY LenProperties
    <3>2. v \in [1..Len(v) -> Nat]
      BY <3>1, ByteAndShort
    <3>. QED
      BY <3>1, <3>2, SeqDef
  <2>. QED
    BY <2>1
<1>. QED
  BY <1>1, <1>2, ByteAndShort, LenProperties

(* The word that an argument begins with, the bytes behind that word, and  *)
(* how many bytes it takes with its padding.                               *)
Lead(p) ==
  CASE p.t = "word" -> p.v [] p.t = "string" -> Len(p.v) + 1
    [] p.t = "array" -> Len(p.v) [] OTHER -> 0
Body(p) == IF p.t \in {"string", "array"} THEN p.v ELSE <<>>
Size(p) ==
  CASE p.t \in {"word", "null"} -> 4 [] p.t = "fd" -> 0
    [] OTHER -> PaddedSize(Lead(p))
NumFds(p) == IF p.t = "fd" THEN 1 ELSE 0

LEMMA PaddedSizes ==
  ASSUME NEW n \in Nat
  PROVE  /\ PadTo4(n) \in Nat /\ PaddedSize(n) \in Nat /\ 4 + n <= PaddedSize(n)
         /\ PaddedSize(n) = (4 + n) + PadTo4(4 + n) /\ PadTo4(4) = 0
<1>1. \A k \in Nat : PadTo4(k) \in Nat
  BY DEF PadTo4
<1>2. 4 + n \in Nat
  OBVIOUS
<1>3. PadTo4(4 + n) \in Nat
  BY <1>1, <1>2
<1>4. PadTo4(4) = 0
  BY DEF PadTo4
<1>. QED
  BY <1>1, <1>3, <1>4 DEF PaddedSize

LEMMA SizeFacts ==
  ASSUME NEW p \in Primitive
  PROVE  /\ Size(p) \in Nat /\ Lead(p) \in Nat /\ NumFds(p) \in Nat
         /\ Body(p) \in Seq(Nat) /\ Len(Body(p)) \in Nat
         /\ p.t # "fd" => 4 + Len(Body(p)) <= Size(p) /\ NumFds(p) = 0
         /\ p.t = "fd" => Size(p) = 0 /\ NumFds(p) = 1
         /\ p.t \in {"word", "null"} => Size(p) = 4
         /\ p.t \in {"string", "array"} => Size(p) = PaddedSize(Lead(p))
<1>1. <<>> \in Seq(Nat) /\ Len(<<>>) = 0
  BY EmptySeq
<1>2. NumFds(p) \in Nat
  BY DEF NumFds
<1>3. CASE p.t \in {"string", "array"}
  <2>1. p.v \in Seq(Nat) /\ Len(p.v) \in Nat /\ Body(p) = p.v
    BY <1>3, PrimitiveFacts DEF Body
  <2>2. Lead(p) \in Nat /\ Len(p.v) <= Lead(p)
    BY <1>3, <2>1 DEF Lead
  <2>3. Size(p) = PaddedSize(Lead(p)) /\ NumFds(p) = 0 /\ p.t \notin {"word", "null", "fd"}
    BY <1>3 DEF Size, NumFds
  <2>4. PaddedSize(Lead(p)) \in Nat /\ 4 + Lead(p) <= PaddedSize(Lead(p))
    BY <2>2, PaddedSizes
  <2>5. 4 + Len(p.v) <= PaddedSize(Lead(p))
    BY <2>1, <2>2, <2>4
  <2>. QED
    BY <1>2, <1>3, <2>1, <2>2, <2>3, <2>4, <2>5
<1>4. CASE p.t \in {"word", "fd", "null"}
  <2>1. Lead(p) \in Nat
    BY <1>4, PrimitiveFacts DEF Lead
  <2>2. Body(p) = <<>> /\ (p.t = "fd" => Size(p) = 0 /\ NumFds(p) = 1)
        /\ (p.t # "fd" => Size(p) = 4 /\ NumFds(p) = 0)
    BY <1>4 DEF Body, Size, NumFds
  <2>3. Len(Body(p)) = 0 /\ Body(p) \in Seq(Nat)
    BY <1>1, <2>2
  <2>. QED
    BY <1>2, <1>4, <2>1, <2>2, <2>3
<1>. QED
  BY <1>3, <1>4, PrimitiveFacts

(* Primitive p is found behind the first i bytes of b, or is descriptor    *)
(* d + 1 of f.                                                             *)
Found(b, f, i, d, p) ==
  IF p.t = "fd" THEN d < Len(f) /\ f[d + 1] = p.v
  ELSE /\ WordAt(b, i) = Lead(p)
       /\ \A x \in 1..Len(Body(p)) : b[i + 4 + x] = Body(p)[x]

LEMMA FoundKept ==
  ASSUME NEW b, NEW b2, NEW f \in Seq(Nat), NEW f2 \in Seq(Nat),
         NEW i \in Nat, NEW d \in Nat, NEW p \in Primitive, Found(b, f, i, d, p),
         \A x \in 1..Size(p) : b2[i + x] = b[i + x], Extends(f2, f)
  PROVE  Found(b2, f2, i, d, p)
<1>1. CASE p.t = "fd"
  <2>1. d < Len(f) /\ f[d + 1] = p.v
    BY <1>1 DEF Found
  <2>2. Len(f) \in Nat /\ Len(f2) \in Nat /\ Len(f) <= Len(f2)
    BY LenProperties DEF Extends
  <2>3. d + 1 \in 1..Len(f) /\ d < Len(f2)
    BY <2>1, <2>2
  <2>4. f2[d + 1] = p.v
    BY <2>1, <2>3 DEF Extends
  <2>. QED
    BY <1>1, <2>3, <2>4 DEF Found
<1>2. CASE p.t # "fd"
  <2> DEFINE n == Len(Body(p))
             z == Size(p)
  <2>1. n \in Nat /\ z \in Nat /\ 4 + n <= z
    BY <1>2, SizeFacts
  <2>2. WordAt(b, i) = Lead(p) /\ \A x \in 1..n : b[i + 4 + x] = Body(p)[x]
    BY <1>2 DEF Found
  <2>3. \A x \in 1..z : b2[i + x] = b[i + x]
    OBVIOUS
  <2>. HIDE DEF n, z
  <2>4. 1 \in 1..z /\ 2 \in 1..z /\ \A x \in 1..n : 4 + x \in 1..z /\ i + (4 + x) = i + 4 + x
    BY <2>1
  <2>5. WordAt(b2, i) = WordAt(b, i)
    BY <2>3, <2>4 DEF WordAt
  <2>6. \A x \in 1..n : b2[i + 4 + x] = b[i + 4 + x]
    BY <2>3, <2>4
  <2>7. \A x \in 1..Len(Body(p)) : b2[i + 4 + x] = Body(p)[x]
    BY <2>2, <2>6 DEF n
  <2>. QED
    BY <1>2, <2>2, <2>5, <2>7 DEF Found
<1>. QED
  BY <1>1, <1>2

(* The first n of args lie one behind the other in b, from behind its      *)
(* first i bytes on, and in f behind its first d descriptors: argument k   *)
(* behind the first place[k] bytes and the first taken[k] descriptors.     *)
Laid(place, taken, b, f, args, n, i, d) ==
  /\ place \in [1..(n + 1) -> Nat] /\ place[1] = i
  /\ taken \in [1..(n + 1) -> Nat] /\ taken[1] = d
  /\ \A k \in 1..n :
       /\ Found(b, f, place[k], taken[k], args[k])
       /\ place[k + 1] = place[k] + Size(args[k])
       /\ taken[k + 1] = taken[k] + NumFds(args[k])
  /\ \A k \in 1..(n + 1) : i <= place[k] /\ place[k] <= place[n + 1]
  /\ (\A k \in 1..n : args[k].t # "fd") => taken[n + 1] = d

(* They end at the first j bytes and the first e descriptors.              *)
LaidOut(b, f, args, n, i, j, d, e) ==
  \E place, taken :
    Laid(place, taken, b, f, args, n, i, d) /\ place[n + 1] = j /\ taken[n + 1] = e

LEMMA LaidNone ==
  ASSUME NEW b, NEW f, NEW args, NEW i \in Nat, NEW d \in Nat
  PROVE  LaidOut(b, f, args, 0, i, i, d, d)
<1> DEFINE place == [k \in 1..1 |-> i]
           taken == [k \in 1..1 |-> d]
<1>1. /\ place \in [1..(0 + 1) -> Nat] /\ place[1] = i
      /\ taken \in [1..(0 + 1) -> Nat] /\ taken[1] = d
  OBVIOUS
<1> HIDE DEF place, taken
<1>2. 0 + 1 = 1 /\ (\A k \in 1..0 : FALSE) /\ \A k \in 1..(0 + 1) : k = 1
  OBVIOUS
<1>3. Laid(place, taken, b, f, args, 0, i, d)
  BY <1>1, <1>2 DEF Laid
<1>. QED
  BY <1>1, <1>2, <1>3 DEF LaidOut

(* They stay where they are while the buffer changes elsewhere.            *)
Alike(c, b, i, j) == \A x \in (i + 1)..j : c[x] = b[x]

LEMMA LaidMoved ==
  ASSUME NEW b, NEW c, NEW f \in Seq(Nat), NEW g \in Seq(Nat), Extends(g, f),
         NEW args \in Seq(Primitive), NEW n \in Nat, n <= Len(args),
         NEW i \in Nat, NEW j \in Nat, NEW d, NEW e,
         LaidOut(b, f, args, n, i, j, d, e), Alike(c, b, i, j)
  PROVE  LaidOut(c, g, args, n, i, j, d, e)
<1>1. PICK place, taken : /\ Laid(place, taken, b, f, args, n, i, d)
                          /\ place[n + 1] = j /\ taken[n + 1] = e
  BY DEF LaidOut
<1>2. ASSUME NEW k \in 1..n
      PROVE  Found(c, g, place[k], taken[k], args[k])
  <2>1. k \in 1..(n + 1) /\ k + 1 \in 1..(n + 1) /\ k \in 1..Len(args)
    BY LenProperties
  <2>2. args[k] \in Primitive
    BY <2>1, ElementOfSeq
  <2>3. Size(args[k]) \in Nat
    BY <2>2, SizeFacts
  <2>4. /\ place[k] \in Nat /\ taken[k] \in Nat /\ i <= place[k]
        /\ place[k] + Size(args[k]) <= j
        /\ Found(b, f, place[k], taken[k], args[k])
    BY <1>1, <2>1 DEF Laid
  <2>5. \A x \in 1..Size(args[k]) : place[k] + x \in (i + 1)..j
    <3> DEFINE q == place[k]
               z == Size(args[k])
    <3>1. q \in Nat /\ z \in Nat /\ i <= q /\ q + z <= j
      BY <2>3, <2>4
    <3>. HIDE DEF q, z
    <3>2. \A x \in 1..z : q + x \in (i + 1)..j
      BY <3>1
    <3>. QED
      BY <3>2 DEF q, z
  <2>6. \A x \in 1..Size(args[k]) : c[place[k] + x] = b[place[k] + x]
    BY <2>5 DEF Alike
  <2>. QED
    BY <2>2, <2>4, <2>6, FoundKept
<1>3. Laid(place, taken, c, g, args, n, i, d)
  BY <1>1, <1>2 DEF Laid
<1>. QED
  BY <1>1, <1>3 DEF LaidOut

(* One more argument. *)
LEMMA LaidMore ==
  ASSUME NEW b, NEW f, NEW args \in Seq(Primitive), NEW n \in Nat, n < Len(args),
         NEW i \in Nat, NEW j \in Nat, NEW d \in Nat, NEW e \in Nat,
         LaidOut(b, f, args, n, i, j, d, e), Found(b, f, j, e, args[n + 1])
  PROVE  LaidOut(b, f, args, n + 1, i, j + Size(args[n + 1]),
                 d, e + NumFds(args[n + 1]))
<1> DEFINE p == args[n + 1]
           j2 == j + Size(p)
           e2 == e + NumFds(p)
<1>1. PICK place, taken : /\ Laid(place, taken, b, f, args, n, i, d)
                          /\ place[n + 1] = j /\ taken[n + 1] = e
  BY DEF LaidOut
<1>2. Size(p) \in Nat /\ NumFds(p) \in Nat /\ (p.t # "fd" => NumFds(p) = 0)
  <2>1. n + 1 \in 1..Len(args)
    BY LenProperties
  <2>2. p \in Primitive
    BY <2>1, ElementOfSeq
  <2>. QED
    BY <2>2, SizeFacts
<1>3. j2 \in Nat /\ j <= j2 /\ e2 \in Nat /\ (p.t # "fd" => e2 = e)
  BY <1>2
<1> HIDE DEF j2, e2
<1> DEFINE place2 == EndMoved(place, n + 1, j2)
           taken2 == EndMoved(taken, n + 1, e2)
<1>4. /\ (n + 1) + 1 = n + 2 /\ n + 1 \in 1..(n + 1) /\ n + 2 \in 1..(n + 2)
      /\ \A k \in 1..(n + 1) : k \in 1..(n + 2) /\ k # n + 2 /\ k + 1 \in 1..(n + 2)
      /\ \A k \in 1..(n + 2) : k \in 1..(n + 1) \/ k = n + 2
      /\ \A k \in 1..n : k \in 1..(n + 1) /\ k + 1 \in 1..(n + 1)
      /\ \A k \in 1..(n + 1) : k \in 1..n \/ k = n + 1
      /\ 1 \in 1..(n + 1)
  OBVIOUS
<1>5. /\ place \in [1..(n + 1) -> Nat] /\ taken \in [1..(n + 1) -> Nat]
      /\ \A k \in 1..(n + 1) : i <= place[k] /\ place[k] <= j
  BY <1>1 DEF Laid
<1>6. /\ place2 \in [1..(n + 2) -> Nat] /\ place2[n + 2] = j2
      /\ taken2 \in [1..(n + 2) -> Nat] /\ taken2[n + 2] = e2
      /\ \A k \in 1..(n + 1) : place2[k] = place[k] /\ taken2[k] = taken[k]
  <2>1. /\ place2 = [k \in 1..(n + 2) |-> IF k = n + 2 THEN j2 ELSE place[k]]
        /\ taken2 = [k \in 1..(n + 2) |-> IF k = n + 2 THEN e2 ELSE taken[k]]
    BY <1>4 DEF EndMoved
  <2>. HIDE DEF place2, taken2
  <2>. QED
    BY <1>3, <1>4, <1>5, <2>1
<1> HIDE DEF place2, taken2
<1>7. ASSUME NEW k \in 1..(n + 1)
      PROVE  /\ Found(b, f, place2[k], taken2[k], args[k])
             /\ place2[k + 1] = place2[k] + Size(args[k])
             /\ taken2[k + 1] = taken2[k] + NumFds(args[k])
  <2>1. CASE k \in 1..n
    <3>1. /\ Found(b, f, place[k], taken[k], args[k])
          /\ place[k + 1] = place[k] + Size(args[k])
          /\ taken[k + 1] = taken[k] + NumFds(args[k])
      BY <1>1, <2>1 DEF Laid
    <3>2. /\ place2[k] = place[k] /\ taken2[k] = taken[k]
          /\ place2[k + 1] = place[k + 1] /\ taken2[k + 1] = taken[k + 1]
      BY <1>4, <1>6, <2>1
    <3>. QED
      BY <3>1, <3>2
  <2>2. CASE k = n + 1
    <3>1. place2[k] = j /\ taken2[k] = e
      BY <1>1, <1>6, <2>2
    <3>2. place2[k + 1] = j2 /\ taken2[k + 1] = e2
      BY <1>4, <1>6, <2>2
    <3>. QED
      BY <2>2, <3>1, <3>2 DEF j2, e2
  <2>. QED
    BY <1>4, <2>1, <2>2
<1>8. ASSUME NEW k \in 1..(n + 2)
      PROVE  i <= place2[k] /\ place2[k] <= j2
  <2>1. CASE k \in 1..(n + 1)
    <3>1. i <= place[k] /\ place[k] <= j /\ place[k] \in Nat /\ place2[k] = place[k]
      BY <1>5, <1>6, <2>1
    <3>. QED
      BY <1>3, <3>1
  <2>2. CASE k = n + 2
    <3>1. i <= j
      BY <1>1, <1>4, <1>5
    <3>. QED
      BY <1>3, <1>6, <2>2, <3>1
  <2>. QED
    BY <1>4, <2>1, <2>2
<1>9. ASSUME \A k \in 1..(n + 1) : args[k].t # "fd"
      PROVE  e2 = d
  <2>1. e = d
    BY <1>1, <1>4, <1>9 DEF Laid
  <2>. QED
    BY <1>3, <1>4, <1>9, <2>1
<1>10. place2[1] = i /\ taken2[1] = d
  BY <1>1, <1>4, <1>6 DEF Laid
<1>11. Laid(place2, taken2, b, f, args, n + 1, i, d)
  BY <1>4, <1>6, <1>7, <1>8, <1>9, <1>10 DEF Laid
<1>. QED
  BY <1>4, <1>6, <1>11 DEF LaidOut, j2, e2

(* What append writes for primitive p, before it is filled up.             *)
Element(bytes, p) ==
  /\ bytes \in Seq(Nat) /\ Len(bytes) + PadTo4(Len(bytes)) = Size(p)
  /\ bytes[1] + 256 * bytes[2] = Lead(p)
  /\ 4 + Len(Body(p)) <= Len(bytes)
  /\ \A x \in 1..Len(Body(p)) : bytes[4 + x] = Body(p)[x]

(* It is found again where it has been written.                            *)
LEMMA ElementFound ==
  ASSUME NEW b \in Seq(Nat), NEW bytes, NEW p \in Primitive, p.t # "fd",
         Element(bytes, p), NEW f, NEW e
  PROVE  /\ b \o Padded(bytes) \in Seq(Nat)
         /\ Extends(b \o Padded(bytes), b)
         /\ Len(Padded(bytes)) = Size(p)
         /\ Len(b \o Padded(bytes)) = Len(b) + Size(p)
         /\ Found(b \o Padded(bytes), f, Len(b), e, p)
<1> DEFINE s == Padded(bytes)
           c == b \o s
           m == Len(Body(p))
           l == Len(bytes)
           h == Len(b)
<1>1. bytes \in Seq(Nat)
  BY DEF Element
<1>2. /\ s \in Seq(Nat) /\ Len(s) = l + PadTo4(l) /\ l <= Len(s) /\ l \in Nat
      /\ \A x \in 1..l : s[x] = bytes[x]
  BY <1>1, PaddedBytes
<1> HIDE DEF s
<1>3. /\ c \in Seq(Nat) /\ h \in Nat /\ Len(s) \in Nat /\ Len(c) = h + Len(s)
      /\ \A x \in 1..h : c[x] = b[x]
      /\ \A x \in 1..Len(s) : c[h + x] = s[x]
  BY <1>2, Behind
<1>4. /\ Len(s) = Size(p) /\ 4 + m <= l /\ bytes[1] + 256 * bytes[2] = Lead(p)
      /\ \A x \in 1..m : bytes[4 + x] = Body(p)[x]
  BY <1>2 DEF Element
<1>5. m \in Nat
  BY SizeFacts
<1> HIDE DEF c, m, l, h
<1>6. \A x \in 1..l : c[h + x] = bytes[x]
  <2>1. \A x \in 1..l : x \in 1..Len(s)
    BY <1>2, <1>3
  <2>. QED
    BY <1>2, <1>3, <2>1
<1>7. /\ 1 \in 1..l /\ 2 \in 1..l
      /\ \A x \in 1..m : 4 + x \in 1..l /\ h + 4 + x = h + (4 + x)
  BY <1>2, <1>3, <1>4, <1>5
<1>8. WordAt(c, h) = Lead(p)
  <2>1. c[h + 1] = bytes[1] /\ c[h + 2] = bytes[2]
    BY <1>6, <1>7
  <2>. QED
    BY <1>4, <2>1 DEF WordAt
<1>9. \A x \in 1..m : c[h + 4 + x] = Body(p)[x]
  BY <1>4, <1>6, <1>7
<1>10. Found(c, f, h, e, p)
  BY <1>8, <1>9 DEF Found, m
<1>11. Extends(c, b)
  <2>1. h <= Len(c)
    BY <1>3
  <2>. QED
    BY <1>3, <2>1 DEF Extends, h
<1>. QED
  BY <1>3, <1>4, <1>10, <1>11 DEF c, h, s

LEMMA WordElement ==
  ASSUME NEW p \in Primitive, p.t = "word"
  PROVE  Element(Word(p.v), p)
<1> DEFINE w == Word(p.v)
<1>1. p.v \in Nat
  BY PrimitiveFacts
<1>2. w \in Seq(Nat) /\ Len(w) = 4 /\ w[1] + 256 * w[2] = p.v
  BY <1>1, WordBytes
<1> HIDE DEF w
<1>3. Lead(p) = p.v /\ Body(p) = <<>> /\ Size(p) = 4
  BY DEF Lead, Body, Size
<1>4. Len(Body(p)) = 0 /\ PadTo4(4) = 0
  <2>1. Len(<<>>) = 0
    OBVIOUS
  <2>. QED
    BY <1>3, <2>1, PaddedSizes
<1>5. /\ Len(w) + PadTo4(Len(w)) = Size(p) /\ 4 + Len(Body(p)) <= Len(w)
      /\ \A x \in 1..Len(Body(p)) : FALSE
  BY <1>2, <1>3, <1>4
<1>6. Element(w, p)
  BY <1>2, <1>3, <1>5 DEF Element
<1>. QED
  BY <1>6 DEF w

LEMMA NullElement ==
  ASSUME NEW p \in Primitive, p.t = "null"
  PROVE  Element(Word(0), p)
<1> DEFINE w == Word(0)
<1>1. w \in Seq(Nat) /\ Len(w) = 4 /\ w[1] + 256 * w[2] = 0
  BY WordBytes
<1> HIDE DEF w
<1>2. Lead(p) = 0 /\ Body(p) = <<>> /\ Size(p) = 4
  BY DEF Lead, Body, Size
<1>3. Len(Body(p)) = 0 /\ PadTo4(4) = 0
  <2>1. Len(<<>>) = 0
    OBVIOUS
  <2>. QED
    BY <1>2, <2>1, PaddedSizes
<1>4. /\ Len(w) + PadTo4(Len(w)) = Size(p) /\ 4 + Len(Body(p)) <= Len(w)
      /\ \A x \in 1..Len(Body(p)) : FALSE
  BY <1>1, <1>2, <1>3
<1>5. Element(w, p)
  BY <1>1, <1>2, <1>4 DEF Element
<1>. QED
  BY <1>5 DEF w

(* The length word and the bytes behind it. *)
Counted(s, n, v) ==
  /\ s \in Seq(Nat) /\ Len(s) = 4 + Len(v) /\ s[1] + 256 * s[2] = n
  /\ \A x \in 1..Len(v) : s[4 + x] = v[x]

LEMMA CountedBytes ==
  ASSUME NEW n \in Nat, NEW v \in Seq(Nat)
  PROVE  Counted(Word(n) \o v, n, v)
<1> DEFINE w == Word(n)
           c == w \o v
<1>1. w \in Seq(Nat) /\ Len(w) = 4 /\ w[1] + 256 * w[2] = n
  BY WordBytes
<1> HIDE DEF w
<1>2. w \in Seq(Nat)
  BY <1>1
<1>3. /\ c \in Seq(Nat) /\ Len(c) = Len(w) + Len(v)
      /\ \A x \in 1..Len(w) : c[x] = w[x]
      /\ \A x \in 1..Len(v) : c[Len(w) + x] = v[x]
  BY <1>2, Behind
<1> HIDE DEF c
<1>4. c[1] = w[1] /\ c[2] = w[2]
  BY <1>1, <1>3
<1>5. \A x \in 1..Len(v) : c[4 + x] = v[x]
  BY <1>1, <1>3
<1>6. Len(c) = 4 + Len(v)
  BY <1>1, <1>3
<1>7. c[1] + 256 * c[2] = n
  BY <1>1, <1>4
<1>. QED
  BY <1>3, <1>5, <1>6, <1>7 DEF c, w, Counted

LEMMA ArrayElement ==
  ASSUME NEW p \in Primitive, p.t = "array"
  PROVE  Element(Word(Len(p.v)) \o p.v, p)
<1> DEFINE v == p.v
           l == Len(v)
           s == Word(l) \o v
<1>1. v \in Seq(Nat) /\ l \in Nat
  BY PrimitiveFacts
<1>2. Lead(p) = l /\ Body(p) = v /\ Size(p) = PaddedSize(l)
  BY DEF Lead, Body, Size
<1>3. PaddedSize(l) = (4 + l) + PadTo4(4 + l)
  BY <1>1, PaddedSizes
<1> HIDE DEF l, v
<1>4. /\ s \in Seq(Nat) /\ Len(s) = 4 + l /\ s[1] + 256 * s[2] = l
      /\ \A x \in 1..l : s[4 + x] = v[x]
  <2>1. Counted(s, l, v)
    BY <1>1, CountedBytes
  <2>. QED
    BY <2>1 DEF Counted, l
<1> HIDE DEF s
<1>5. Element(s, p)
  <2>1. Len(s) + PadTo4(Len(s)) = Size(p)
    BY <1>2, <1>3, <1>4
  <2>2. Len(Body(p)) = l
    BY <1>2 DEF l
  <2>3. 4 + Len(Body(p)) <= Len(s)
    BY <1>1, <1>4, <2>2
  <2>. QED
    BY <1>2, <1>4, <2>1, <2>2, <2>3 DEF Element
<1>. QED
  BY <1>5 DEF s, l, v

LEMMA StringElement ==
  ASSUME NEW p \in Primitive, p.t = "string"
  PROVE  Element(Word(Len(p.v) + 1) \o p.v \o <<0>>, p)
<1> DEFINE v == p.v
           l == Len(v)
           z == <<0>>
           r == Word(l + 1) \o v
           s == r \o z
<1>1. v \in Seq(Nat) /\ l \in Nat /\ l + 1 \in Nat
  BY PrimitiveFacts
<1>2. Lead(p) = l + 1 /\ Body(p) = v /\ Size(p) = PaddedSize(l + 1)
  BY DEF Lead, Body, Size
<1>3. PaddedSize(l + 1) = (4 + (l + 1)) + PadTo4(4 + (l + 1))
  BY <1>1, PaddedSizes
<1> HIDE DEF l, v
<1>4. /\ r \in Seq(Nat) /\ Len(r) = 4 + l /\ r[1] + 256 * r[2] = l + 1
      /\ \A x \in 1..l : r[4 + x] = v[x]
  <2>1. Counted(r, l + 1, v)
    BY <1>1, CountedBytes
  <2>. QED
    BY <2>1 DEF Counted, l
<1>5. z \in Seq(Nat) /\ Len(z) = 1
  OBVIOUS
<1> HIDE DEF r, z
<1>6. r \in Seq(Nat) /\ z \in Seq(Nat)
  BY <1>4, <1>5
<1>7. /\ s \in Seq(Nat) /\ Len(s) = Len(r) + Len(z)
      /\ \A x \in 1..Len(r) : s[x] = r[x]
  BY <1>6, Behind
<1> HIDE DEF s
<1>8. Len(s) = 4 + (l + 1)
  BY <1>1, <1>4, <1>5, <1>7
<1>9. /\ 1 \in 1..Len(r) /\ 2 \in 1..Len(r)
      /\ \A x \in 1..l : 4 + x \in 1..Len(r)
  BY <1>1, <1>4
<1>10. /\ s[1] = r[1] /\ s[2] = r[2] /\ \A x \in 1..l : s[4 + x] = v[x]
  BY <1>4, <1>7, <1>9
<1>11. Element(s, p)
  <2>1. Len(s) + PadTo4(Len(s)) = Size(p)
    BY <1>2, <1>3, <1>8
  <2>2. Len(Body(p)) = l
    BY <1>2 DEF l
  <2>3. 4 + Len(Body(p)) <= Len(s)
    BY <1>1, <1>8, <2>2
  <2>4. s[1] + 256 * s[2] = Lead(p)
    BY <1>2, <1>4, <1>10
  <2>. QED
    BY <1>2, <1>7, <1>10, <2>1, <2>2, <2>3, <2>4 DEF Element
<1>. QED
  BY <1>11 DEF s, r, l, v, z

(* Message k of msgs has its arguments between its header and the next     *)
(* message, and its descriptors are those of f behind the first fdAt[k];   *)
(* of an open message only the first n arguments are there.                *)
Spread(at, fdAt, msgs, b, f, open, n) ==
  /\ fdAt \in [1..(Len(msgs) + 1) -> Nat]
  /\ fdAt[1] = 0 /\ fdAt[Len(msgs) + 1] = Len(f)
  /\ \A k \in 1..Len(msgs) :
       LaidOut(b, f, msgs[k].args,
               IF open /\ k = Len(msgs) THEN n ELSE Len(msgs[k].args),
               at[k] + HeaderSize, at[k + 1], fdAt[k], fdAt[k + 1])

(* Where a message is, and that an earlier one ends where the last begins. *)
LEMMA FramedPlaces ==
  ASSUME NEW msgs \in Seq(MessageType), NEW b \in Seq(Nat), NEW open, NEW over,
         NEW at, Framed(at, msgs, b, open, over), NEW k \in 1..Len(msgs)
  PROVE  /\ at[k] \in Nat /\ at[k + 1] \in Nat /\ at[k] + HeaderSize <= at[k + 1]
         /\ at[k] + HeaderSize \in Nat /\ at[k + 1] <= Len(b)
         /\ at[Len(msgs)] \in Nat /\ (k # Len(msgs) => at[k + 1] <= at[Len(msgs)])
         /\ msgs[k] \in MessageType /\ msgs[k].args \in Seq(Primitive)
         /\ Len(msgs[k].args) \in Nat
<1> DEFINE n == Len(msgs)
<1>1. n \in Nat /\ Len(b) \in Nat
  BY LenProperties
<1>2. /\ at \in [1..(n + 1) -> Nat] /\ at[n + 1] = Len(b)
      /\ \A i, j \in 1..(n + 1) : i < j => at[i] + HeaderSize <= at[j]
  BY DEF Framed
<1>3. msgs[k] \in MessageType
  BY ElementOfSeq
<1>4. msgs[k].args \in Seq(Primitive)
  BY <1>3, MessageFields
<1>5. Len(msgs[k].args) \in Nat
  BY <1>4, LenProperties
<1> HIDE DEF n
<1>6. k \in 1..n
  BY DEF n
<1>7. /\ k \in 1..(n + 1) /\ k + 1 \in 1..(n + 1) /\ k < k + 1
      /\ n \in 1..(n + 1) /\ n + 1 \in 1..(n + 1)
  BY <1>1, <1>6
<1>8. /\ at[k] \in Nat /\ at[k + 1] \in Nat /\ at[n] \in Nat
      /\ at[k] + HeaderSize <= at[k + 1]
  BY <1>2, <1>7
<1>9. ASSUME NEW m \in 1..(n + 1), k + 1 <= m
      PROVE  at[k + 1] <= at[m]
  <2>1. CASE k + 1 = m
    BY <1>8, <2>1
  <2>2. CASE k + 1 # m
    <3>1. k + 1 < m /\ at[m] \in Nat
      BY <1>1, <1>2, <1>6, <1>9, <2>2
    <3>2. at[k + 1] + HeaderSize <= at[m]
      BY <1>2, <1>7, <3>1
    <3>. QED
      BY <1>8, <3>1, <3>2 DEF HeaderSize
  <2>. QED
    BY <2>1, <2>2
<1>10. at[k + 1] <= Len(b)
  <2>1. k + 1 <= n + 1
    BY <1>1, <1>6
  <2>. QED
    BY <1>2, <1>7, <1>9, <2>1
<1>11. k # n => at[k + 1] <= at[n]
  <2>1. k # n => k + 1 <= n
    BY <1>1, <1>6
  <2>. QED
    BY <1>7, <1>9, <2>1
<1>12. at[k] + HeaderSize \in Nat
  BY <1>8 DEF HeaderSize
<1>. QED
  BY <1>3, <1>4, <1>5, <1>8, <1>10, <1>11, <1>12 DEF n

(* A message begins: it has no arguments yet.                              *)
LEMMA BeginSpread ==
  ASSUME NEW msgs \in Seq(MessageType), NEW msg,
         NEW b \in Seq(Nat), NEW c \in Seq(Nat), Extends(c, b),
         Len(c) = Len(b) + HeaderSize, NEW f \in Seq(Nat), NEW over,
         NEW at, Framed(at, msgs, b, FALSE, over),
         NEW fdAt, NEW x, Spread(at, fdAt, msgs, b, f, FALSE, x)
  PROVE  Spread(EndMoved(at, Len(msgs) + 1, Len(c)),
                EndMoved(fdAt, Len(msgs) + 1, Len(f)),
                Append(msgs, msg), c, f, TRUE, 0)
<1> DEFINE n == Len(msgs)
           m == Append(msgs, msg)
           g == EndMoved(at, n + 1, Len(c))
           h == EndMoved(fdAt, n + 1, Len(f))
<1>1. n \in Nat /\ Len(b) \in Nat /\ Len(c) \in Nat /\ Len(f) \in Nat
  BY LenProperties
<1>2. Len(m) = n + 1 /\ m[n + 1] = msg /\ \A k \in 1..n : m[k] = msgs[k]
  BY AppendProperties, LenProperties
<1>3. at \in [1..(n + 1) -> Nat] /\ at[n + 1] = Len(b)
  BY DEF Framed
<1>4. /\ fdAt \in [1..(n + 1) -> Nat] /\ fdAt[1] = 0 /\ fdAt[n + 1] = Len(f)
      /\ \A k \in 1..n :
           LaidOut(b, f, msgs[k].args, Len(msgs[k].args), at[k] + HeaderSize,
                   at[k + 1], fdAt[k], fdAt[k + 1])
  BY DEF Spread
<1>5. \A k \in 1..n :
        /\ at[k + 1] <= Len(b) /\ at[k + 1] \in Nat /\ at[k] + HeaderSize \in Nat
        /\ msgs[k].args \in Seq(Primitive) /\ Len(msgs[k].args) \in Nat
  BY FramedPlaces
<1> HIDE DEF n, m
<1>6. /\ n + 1 \in Nat /\ 1 \in 1..(n + 1) /\ n + 1 \in 1..(n + 1)
      /\ \A k \in 1..n : k \in 1..(n + 1) /\ k + 1 \in 1..(n + 1) /\ k # n + 1
      /\ \A k \in 1..(n + 1) : k \in 1..n \/ k = n + 1
  BY <1>1
<1> DEFINE N == n + 1
<1>7. /\ g[N + 1] = Len(c) /\ \A k \in 1..N : g[k] = at[k]
      /\ h \in [1..(N + 1) -> Nat] /\ h[N + 1] = Len(f)
      /\ \A k \in 1..N : h[k] = fdAt[k]
  <2> DEFINE p == Len(c)
             q == Len(f)
  <2>1. N \in Nat /\ at \in [1..N -> Nat] /\ fdAt \in [1..N -> Nat]
    BY <1>3, <1>4, <1>6
  <2>2. g = EndMoved(at, N, p) /\ h = EndMoved(fdAt, N, q)
    OBVIOUS
  <2>3. p \in Nat /\ q \in Nat
    BY <1>1
  <2>. HIDE DEF g, h, N, p, q
  <2>4. /\ N + 1 \in 1..(N + 1) /\ \A k \in 1..N : k \in 1..(N + 1) /\ k # N + 1
        /\ \A k \in 1..(N + 1) : k \in 1..N \/ k = N + 1
    BY <2>1
  <2>5. g[N + 1] = p /\ \A k \in 1..N : g[k] = at[k]
    BY <2>2, <2>4 DEF EndMoved
  <2>6. h \in [1..(N + 1) -> Nat] /\ h[N + 1] = q /\ \A k \in 1..N : h[k] = fdAt[k]
    BY <2>1, <2>2, <2>3, <2>4 DEF EndMoved
  <2>. QED
    BY <2>5, <2>6 DEF p, q
<1>8. /\ g[(n + 1) + 1] = Len(c) /\ \A k \in 1..(n + 1) : g[k] = at[k]
      /\ h \in [1..((n + 1) + 1) -> Nat] /\ h[(n + 1) + 1] = Len(f)
      /\ \A k \in 1..(n + 1) : h[k] = fdAt[k]
  BY <1>7
<1> HIDE DEF g, h, N
<1>9. ASSUME NEW k \in 1..n
      PROVE  LaidOut(c, f, m[k].args, Len(m[k].args), g[k] + HeaderSize, g[k + 1],
                     h[k], h[k + 1])
  <2> DEFINE i == at[k] + HeaderSize
             j == at[k + 1]
             args == msgs[k].args
             l == Len(args)
  <2>1. /\ i \in Nat /\ j \in Nat /\ j <= Len(b)
        /\ args \in Seq(Primitive) /\ l \in Nat /\ l <= Len(args)
    BY <1>5
  <2>2. LaidOut(b, f, args, l, i, j, fdAt[k], fdAt[k + 1])
    BY <1>4
  <2>3. Extends(f, f)
    BY <1>1 DEF Extends
  <2>. HIDE DEF i, j, args, l
  <2>4. \A y \in (i + 1)..j : y \in 1..Len(b)
    BY <1>1, <2>1
  <2>5. Alike(c, b, i, j)
    BY <2>4 DEF Extends, Alike
  <2>6. LaidOut(c, f, args, l, i, j, fdAt[k], fdAt[k + 1])
    BY <2>1, <2>2, <2>3, <2>5, LaidMoved
  <2>. QED
    BY <1>2, <1>6, <1>8, <2>6 DEF i, j, args, l
<1>10. LaidOut(c, f, msg.args, 0, g[n + 1] + HeaderSize, g[(n + 1) + 1],
               h[n + 1], h[(n + 1) + 1])
  <2>1. Len(c) \in Nat /\ Len(f) \in Nat
    BY <1>1
  <2>2. LaidOut(c, f, msg.args, 0, Len(c), Len(c), Len(f), Len(f))
    BY <2>1, LaidNone
  <2>3. g[n + 1] + HeaderSize = Len(c) /\ h[n + 1] = Len(f)
    BY <1>3, <1>4, <1>6, <1>8
  <2>. QED
    BY <1>8, <2>2, <2>3
<1>11. ASSUME NEW k \in 1..(n + 1)
       PROVE  LaidOut(c, f, m[k].args, IF k = n + 1 THEN 0 ELSE Len(m[k].args),
                      g[k] + HeaderSize, g[k + 1], h[k], h[k + 1])
  <2>1. CASE k \in 1..n
    BY <1>6, <1>9, <2>1
  <2>2. CASE k = n + 1
    BY <1>2, <1>10, <2>2
  <2>. QED
    BY <1>6, <2>1, <2>2
<1>12. h[1] = 0
  BY <1>4, <1>6, <1>8
<1>13. Spread(g, h, m, c, f, TRUE, 0)
  BY <1>2, <1>8, <1>11, <1>12 DEF Spread
<1>. QED
  BY <1>13 DEF g, h, m, n

(* Primitive p has been put behind b, or behind f.                         *)
Grown(c, g, b, f, p) ==
  /\ c \in Seq(Nat) /\ Extends(c, b) /\ Len(c) = Len(b) + Size(p)
  /\ g \in Seq(Nat) /\ Extends(g, f) /\ Len(g) = Len(f) + NumFds(p)
  /\ Found(c, g, Len(b), Len(f), p)

(* The next argument of the open message is there.                         *)
LEMMA GrowSpread ==
  ASSUME NEW msgs \in Seq(MessageType), msgs # <<>>,
         NEW b \in Seq(Nat), NEW c, NEW f \in Seq(Nat), NEW g, NEW over,
         NEW at, Framed(at, msgs, b, TRUE, over),
         NEW fdAt, NEW n \in Nat, Spread(at, fdAt, msgs, b, f, TRUE, n),
         n < Len(msgs[Len(msgs)].args),
         Grown(c, g, b, f, msgs[Len(msgs)].args[n + 1])
  PROVE  Spread(EndMoved(at, Len(msgs), Len(c)), EndMoved(fdAt, Len(msgs), Len(g)),
                msgs, c, g, TRUE, n + 1)
<1> DEFINE m == Len(msgs)
           last == msgs[m].args
           p == last[n + 1]
           at2 == EndMoved(at, m, Len(c))
           fdAt2 == EndMoved(fdAt, m, Len(g))
<1>1. m \in Nat \ {0} /\ m \in Nat /\ Len(b) \in Nat /\ Len(f) \in Nat
  BY LenProperties, EmptySeq
<1>2. at \in [1..(m + 1) -> Nat] /\ at[m + 1] = Len(b)
  BY DEF Framed
<1>3. /\ fdAt \in [1..(m + 1) -> Nat] /\ fdAt[1] = 0 /\ fdAt[m + 1] = Len(f)
      /\ \A k \in 1..m :
           LaidOut(b, f, msgs[k].args, IF k = m THEN n ELSE Len(msgs[k].args),
                   at[k] + HeaderSize, at[k + 1], fdAt[k], fdAt[k + 1])
  BY DEF Spread
<1>4. \A k \in 1..m :
        /\ at[k + 1] <= Len(b) /\ at[k + 1] \in Nat /\ at[k] + HeaderSize \in Nat
        /\ msgs[k].args \in Seq(Primitive) /\ Len(msgs[k].args) \in Nat
  BY FramedPlaces
<1>5. Grown(c, g, b, f, p) /\ n < Len(last)
  OBVIOUS
<1>6. /\ c \in Seq(Nat) /\ g \in Seq(Nat) /\ Len(c) \in Nat /\ Len(g) \in Nat
      /\ Extends(c, b) /\ Extends(g, f)
  BY <1>5, LenProperties DEF Grown
<1> HIDE DEF p, last, m
<1>7. /\ m \in 1..m /\ m \in 1..(m + 1) /\ m + 1 \in 1..(m + 1) /\ 1 \in 1..m
      /\ \A k \in 1..m : k \in 1..(m + 1) /\ (k # m => k + 1 \in 1..m)
  BY <1>1
<1>8. /\ at2[m + 1] = Len(c) /\ \A k \in 1..m : at2[k] = at[k]
      /\ fdAt2 \in [1..(m + 1) -> Nat] /\ fdAt2[m + 1] = Len(g)
      /\ \A k \in 1..m : fdAt2[k] = fdAt[k]
  <2> DEFINE x == Len(c)
             y == Len(g)
  <2>1. x \in Nat /\ y \in Nat
    BY <1>6
  <2>2. at2 = EndMoved(at, m, x) /\ fdAt2 = EndMoved(fdAt, m, y)
    OBVIOUS
  <2>. HIDE DEF at2, fdAt2, x, y
  <2>3. /\ m + 1 \in 1..(m + 1) /\ \A k \in 1..m : k \in 1..(m + 1) /\ k # m + 1
        /\ \A k \in 1..(m + 1) : k \in 1..m \/ k = m + 1
    BY <1>1
  <2>4. at2[m + 1] = x /\ \A k \in 1..m : at2[k] = at[k]
    BY <2>2, <2>3 DEF EndMoved
  <2>5. fdAt2 \in [1..(m + 1) -> Nat] /\ fdAt2[m + 1] = y /\ \A k \in 1..m : fdAt2[k] = fdAt[k]
    BY <1>3, <2>1, <2>2, <2>3 DEF EndMoved
  <2>. QED
    BY <2>4, <2>5 DEF x, y
<1> HIDE DEF at2, fdAt2
<1>9. ASSUME NEW k \in 1..m, NEW l \in Nat, l <= Len(msgs[k].args),
             LaidOut(b, f, msgs[k].args, l, at[k] + HeaderSize, at[k + 1],
                     fdAt[k], fdAt[k + 1])
      PROVE  LaidOut(c, g, msgs[k].args, l, at[k] + HeaderSize, at[k + 1],
                     fdAt[k], fdAt[k + 1])
  <2> DEFINE i == at[k] + HeaderSize
             j == at[k + 1]
             args == msgs[k].args
  <2>1. /\ i \in Nat /\ j \in Nat /\ j <= Len(b)
        /\ args \in Seq(Primitive) /\ l <= Len(args)
    BY <1>4, <1>9
  <2>2. LaidOut(b, f, args, l, i, j, fdAt[k], fdAt[k + 1])
    BY <1>9
  <2>. HIDE DEF i, j, args
  <2>3. \A y \in (i + 1)..j : y \in 1..Len(b)
    BY <1>1, <2>1
  <2>4. Alike(c, b, i, j)
    BY <1>6, <2>3 DEF Extends, Alike
  <2>5. LaidOut(c, g, args, l, i, j, fdAt[k], fdAt[k + 1])
    BY <1>6, <2>1, <2>2, <2>4, LaidMoved
  <2>. QED
    BY <2>5 DEF i, j, args
<1>10. ASSUME NEW k \in 1..m, k # m
       PROVE  LaidOut(c, g, msgs[k].args, Len(msgs[k].args), at2[k] + HeaderSize,
                      at2[k + 1], fdAt2[k], fdAt2[k + 1])
  <2>1. Len(msgs[k].args) \in Nat /\ Len(msgs[k].args) <= Len(msgs[k].args)
    BY <1>4
  <2>2. LaidOut(b, f, msgs[k].args, Len(msgs[k].args), at[k] + HeaderSize,
                at[k + 1], fdAt[k], fdAt[k + 1])
    BY <1>3, <1>10
  <2>3. LaidOut(c, g, msgs[k].args, Len(msgs[k].args), at[k] + HeaderSize,
                at[k + 1], fdAt[k], fdAt[k + 1])
    BY <1>9, <2>1, <2>2
  <2>. QED
    BY <1>7, <1>8, <1>10, <2>3
<1>11. LaidOut(c, g, last, n + 1, at2[m] + HeaderSize, at2[m + 1],
               fdAt2[m], fdAt2[m + 1])
  <2> DEFINE i == at[m] + HeaderSize
             j == at[m + 1]
             d == fdAt[m]
             e == fdAt[m + 1]
  <2>1. /\ i \in Nat /\ j \in Nat /\ j = Len(b)
        /\ d \in Nat /\ e \in Nat /\ e = Len(f) /\ last \in Seq(Primitive)
    BY <1>2, <1>3, <1>4, <1>7 DEF last
  <2>2. LaidOut(b, f, last, n, i, j, d, e)
    BY <1>3, <1>7 DEF last
  <2>3. n <= Len(last)
    BY <1>5, <2>1, LenProperties
  <2>4. LaidOut(c, g, last, n, i, j, d, e)
    BY <1>7, <1>9, <2>2, <2>3 DEF last
  <2>5. Found(c, g, j, e, p) /\ Len(c) = j + Size(p) /\ Len(g) = e + NumFds(p)
    BY <1>5, <2>1 DEF Grown
  <2>6. at2[m] + HeaderSize = i /\ fdAt2[m] = d
    BY <1>7, <1>8
  <2>7. Found(c, g, j, e, last[n + 1])
    BY <2>5 DEF p
  <2>. HIDE DEF i, j, d, e
  <2>8. LaidOut(c, g, last, n + 1, i, j + Size(last[n + 1]), d,
                e + NumFds(last[n + 1]))
    BY <1>5, <2>1, <2>4, <2>7, LaidMore
  <2>. QED
    BY <1>8, <2>5, <2>6, <2>8 DEF p
<1>12. \A k \in 1..m :
         LaidOut(c, g, msgs[k].args, IF k = m THEN n + 1 ELSE Len(msgs[k].args),
                 at2[k] + HeaderSize, at2[k + 1], fdAt2[k], fdAt2[k + 1])
  BY <1>10, <1>11 DEF last
<1>13. fdAt2[1] = 0
  BY <1>3, <1>7, <1>8
<1>14. Spread(at2, fdAt2, msgs, c, g, TRUE, n + 1)
  BY <1>8, <1>12, <1>13 DEF Spread, m
<1>. QED
  BY <1>14 DEF at2, fdAt2, m

(* The header overwrites no argument.                                      *)
LEMMA CloseSpread ==
  ASSUME NEW msgs \in Seq(MessageType), msgs # <<>>, NEW b \in Seq(Nat),
         NEW f \in Seq(Nat), NEW over, NEW at, Framed(at, msgs, b, TRUE, over),
         NEW fdAt, Spread(at, fdAt, msgs, b, f, TRUE, Len(msgs[Len(msgs)].args)),
         NEW bytes \in Seq(Nat), Len(bytes) = HeaderSize, NEW x
  PROVE  Spread(at, fdAt, msgs, Overwrite(b, at[Len(msgs)], bytes), f, FALSE, x)
<1> DEFINE m == Len(msgs)
           h == at[m]
           c == Overwrite(b, h, bytes)
<1>1. m \in Nat \ {0} /\ m \in Nat /\ Len(b) \in Nat /\ m \in 1..m
  BY LenProperties, EmptySeq
<1>2. /\ fdAt \in [1..(m + 1) -> Nat] /\ fdAt[1] = 0 /\ fdAt[m + 1] = Len(f)
      /\ \A k \in 1..m :
           LaidOut(b, f, msgs[k].args, Len(msgs[k].args),
                   at[k] + HeaderSize, at[k + 1], fdAt[k], fdAt[k + 1])
  BY DEF Spread
<1>3. \A k \in 1..m :
        /\ at[k + 1] <= Len(b) /\ at[k + 1] \in Nat /\ at[k] + HeaderSize \in Nat
        /\ at[k] + HeaderSize <= at[k + 1]
        /\ h \in Nat /\ (k # m => at[k + 1] <= h)
        /\ msgs[k].args \in Seq(Primitive) /\ Len(msgs[k].args) \in Nat
  BY FramedPlaces
<1>4. h + HeaderSize <= Len(b) /\ h \in Nat
  <2>1. /\ at[m + 1] <= Len(b) /\ at[m + 1] \in Nat /\ h + HeaderSize \in Nat
        /\ h + HeaderSize <= at[m + 1] /\ h \in Nat
    BY <1>1, <1>3
  <2>. HIDE DEF h, m
  <2>. QED
    BY <1>1, <2>1
<1> HIDE DEF h, m
<1>5. \A i \in 1..Len(b) : i <= h \/ i > h + HeaderSize => c[i] = b[i]
  BY <1>4, OverwriteBytes
<1> HIDE DEF c
<1>6. Extends(f, f)
  BY LenProperties DEF Extends
<1>7. ASSUME NEW k \in 1..m
      PROVE  LaidOut(c, f, msgs[k].args, Len(msgs[k].args), at[k] + HeaderSize,
                     at[k + 1], fdAt[k], fdAt[k + 1])
  <2> DEFINE i == at[k] + HeaderSize
             j == at[k + 1]
             args == msgs[k].args
             l == Len(args)
  <2>1. /\ i \in Nat /\ j \in Nat /\ j <= Len(b) /\ (k # m => j <= h)
        /\ args \in Seq(Primitive) /\ l \in Nat /\ l <= Len(args)
    BY <1>3
  <2>2. LaidOut(b, f, args, l, i, j, fdAt[k], fdAt[k + 1])
    BY <1>2
  <2>3. k = m => i = h + HeaderSize
    BY DEF h
  <2>. HIDE DEF i, j, args, l
  <2>4. \A y \in (i + 1)..j : y \in 1..Len(b) /\ (y <= h \/ y > h + HeaderSize)
    <3>1. CASE k = m
      BY <1>1, <1>4, <2>1, <2>3, <3>1 DEF HeaderSize
    <3>2. CASE k # m
      BY <1>1, <1>4, <2>1, <3>2
    <3>. QED
      BY <3>1, <3>2
  <2>5. Alike(c, b, i, j)
    BY <1>5, <2>4 DEF Alike
  <2>6. LaidOut(c, f, args, l, i, j, fdAt[k], fdAt[k + 1])
    BY <1>6, <2>1, <2>2, <2>5, LaidMoved
  <2>. QED
    BY <2>6 DEF i, j, args, l
<1>8. Spread(at, fdAt, msgs, c, f, FALSE, x)
  BY <1>2, <1>7 DEF Spread, m
<1>. QED
  BY <1>8 DEF c, h, m

-----------------------------------------------------------------------------
(* The inductive invariant *)

FrameTypes ==
  /\ messages \in Seq(MessageType) /\ \A k \in 1..Len(messages) : messages[k] \in Sendable
  /\ buff \in Seq(Nat) /\ fds \in Seq(Nat)
  /\ header \in Nat /\ total \in Nat /\ done \in Nat /\ oversized \in BOOLEAN
  /\ index \in Nat /\ begin \in Nat /\ payload \in Seq(Nat)
  /\ fdsRead \in Nat /\ (index = 0 => fdsRead = 0)
  /\ pc \in {"append", "idle", "interpret", "thrown"}

(* While a message is appended none has been parsed, and what has been     *)
(* counted for it is what is in buff_ from its header on.                  *)
Appending ==
  pc = "append" =>
    index = 0 /\ messages # <<>> /\ header + total = Len(buff)

(* The generator steps by the size it has read, and does not throw on      *)
(* what append has laid out; what it gives the interpreter is buff_ behind *)
(* the header.                                                             *)
Parsing ==
  /\ pc = "thrown" => oversized
  /\ pc = "interpret" =>
       /\ index > 0 /\ SizeAt(begin) = HeaderSize + Len(payload)
       /\ \A x \in 1..Len(payload) : payload[x] = buff[begin + HeaderSize + x]

(* The messages lie one behind the other in buff_, and the one that the    *)
(* generator is at begins and ends where append has put it.                *)
Positions(at) ==
  /\ Framed(at, messages, buff, pc = "append", oversized)
  /\ pc = "append" => header = at[Len(messages)]
  /\ index > 0 /\ ~oversized =>
       /\ index <= Len(messages)
       /\ begin = at[index]
       /\ begin + HeaderSize + Len(payload) = at[index + 1]

(* With their arguments and their descriptors.                             *)
Filled(at, fdAt) ==
  Spread(at, fdAt, messages, buff, fds, pc = "append", done)

(* The interpreter has got the first of the arguments and is at the next   *)
(* one, or at the length word of a null string, which is the last.         *)
Interpreting(place, taken, fdAt) ==
  LET args == messages[index].args
      n == Len(got)
  IN /\ members = Shape(args) /\ got \in Seq(Primitive) /\ n <= Len(args)
     /\ \A i \in 1..n : got[i] = args[i]
     /\ Laid(place, taken, buff, fds, args, Len(args), begin + HeaderSize,
             fdAt[index])
     /\ place[Len(args) + 1] = begin + HeaderSize + Len(payload)
     /\ taken[Len(args) + 1] = fdAt[index + 1]
     /\ fdsRead = taken[n + 1] /\ bytesRead \in Nat
     /\ begin + HeaderSize + bytesRead + (IF NullLast THEN 4 ELSE 0) = place[n + 1]
     /\ NullLast => n = Len(args)

(* What the reader has taken, if it knows the messages.                    *)
Reached(fdAt) ==
  LayoutsAgree /\ NullsLast /\ ~oversized /\ index > 0 =>
    /\ pc = "idle" => fdsRead = fdAt[index + 1]
    /\ pc = "interpret" => \E place, taken : Interpreting(place, taken, fdAt)

IInv ==
  /\ FrameTypes /\ Appending /\ Parsing
  /\ \E at, fdAt : Positions(at) /\ Filled(at, fdAt) /\ Reached(fdAt)

LEMMA InitIInv == Init => IInv
<1> SUFFICES ASSUME Init
             PROVE  IInv
  OBVIOUS
<1> DEFINE at == [k \in 1..(Len(messages) + 1) |-> 0]
<1>1. messages = <<>> /\ buff = <<>> /\ fds = <<>> /\ index = 0 /\ pc = "idle"
  BY DEF Init
<1>2. Len(messages) = 0 /\ Len(buff) = 0 /\ Len(fds) = 0
  BY <1>1
<1>3. /\ at \in [1..(Len(messages) + 1) -> Nat] /\ at[1] = 0
      /\ at[Len(messages) + 1] = 0
  BY <1>2
<1>4. /\ \A j, k \in 1..(Len(messages) + 1) : ~(j < k)
      /\ \A k \in 1..Len(messages) : FALSE
  BY <1>2
<1> HIDE DEF at
<1>5. Framed(at, messages, buff, pc = "append", oversized)
  BY <1>2, <1>3, <1>4 DEF Framed
<1>6. Positions(at)
  BY <1>1, <1>5 DEF Positions
<1>7. Filled(at, at)
  BY <1>2, <1>3, <1>4 DEF Filled, Spread
<1>8. Reached(at)
  BY <1>1 DEF Reached
<1>9. FrameTypes
  <2>1. <<>> \in Seq(MessageType) /\ <<>> \in Seq(Nat)
    OBVIOUS
  <2>. QED
    BY <1>4, <2>1 DEF Init, FrameTypes
<1>. QED
  BY <1>1, <1>6, <1>7, <1>8, <1>9 DEF IInv, Appending, Parsing

LEMMA SentMessages == ASSUME FrameTypes, NEW msg \in Sent
                      PROVE  msg \in MessageType /\ msg \in Sendable
<1>1. PICK batch \in Batches : /\ Len(messages) < Len(batch)
                               /\ msg \in batch[Len(messages) + 1]
  BY DEF Sent
<1>2. batch \in Seq(SUBSET MessageType)
  BY BatchesAssumption
<1>3. Len(messages) \in Nat
  BY LenProperties DEF FrameTypes
<1>4. Len(messages) + 1 \in 1..Len(batch)
  BY <1>1, <1>2, <1>3, LenProperties
<1>5. batch[Len(messages) + 1] \in SUBSET MessageType
  BY <1>2, <1>4, ElementOfSeq
<1>6. msg \in Sendable
  BY <1>1, <1>4 DEF Sendable
<1>. QED
  BY <1>1, <1>5, <1>6

(* The next primitive is one. *)
LEMMA NextPrimitive ==
  ASSUME IInv, NEW t, NextIs(t)
  PROVE  Current[done + 1] \in Primitive /\ Current[done + 1].t = t
<1>1. /\ messages \in Seq(MessageType) /\ messages # <<>> /\ done \in Nat
      /\ done < Len(Current) /\ Current[done + 1].t = t
  BY DEF IInv, FrameTypes, Appending, NextIs
<1>2. messages[Len(messages)] \in MessageType
  <2>1. Len(messages) \in 1..Len(messages)
    BY <1>1, LenProperties, EmptySeq
  <2>. QED
    BY <1>1, <2>1, ElementOfSeq
<1>3. Current \in Seq(Primitive)
  BY <1>2, MessageFields DEF Current
<1> HIDE DEF Current
<1>4. done + 1 \in 1..Len(Current)
  BY <1>1, <1>3, LenProperties
<1>. QED
  BY <1>1, <1>3, <1>4, ElementOfSeq

LEMMA BeginStep ==
  ASSUME IInv, NEW msg \in Sent, AppendBegin(msg)
  PROVE  IInv'
<1> DEFINE room == JunkBytes(HeaderSize)
<1>1. /\ messages \in Seq(MessageType) /\ buff \in Seq(Nat) /\ msg \in MessageType
      /\ fds \in Seq(Nat) /\ msg \in Sendable /\ Len(buff) \in Nat
  BY SentMessages, LenProperties DEF IInv, FrameTypes
<1>2. room \in Seq(Nat) /\ Len(room) = HeaderSize
  <2>1. room \in [1..HeaderSize -> Nat] /\ HeaderSize \in Nat
    BY DEF JunkBytes, Junk, HeaderSize
  <2>. QED
    BY <2>1, SeqDef, LenProperties
<1> HIDE DEF room
<1>3. HeaderSize <= Len(room)
  BY <1>2 DEF HeaderSize
<1>4. /\ messages' = Append(messages, msg) /\ buff' = buff \o room
      /\ index' = 0 /\ pc' = "append" /\ oversized' = oversized
      /\ header' = Len(buff) /\ total' = HeaderSize /\ done' = 0
      /\ begin' = begin /\ payload' = payload /\ fds' = fds /\ fdsRead' = fdsRead
      /\ index = 0
  BY DEF AppendBegin, room, reader
<1>5. PICK at, fdAt : Positions(at) /\ Filled(at, fdAt)
  BY DEF IInv
<1>6. Framed(at, messages, buff, FALSE, oversized) /\ at[Len(messages) + 1] = Len(buff)
  <2>1. Framed(at, messages, buff, pc = "append", oversized) /\ pc = "idle"
    BY <1>5 DEF Positions, AppendBegin
  <2>. QED
    BY <2>1 DEF Framed
<1> DEFINE next == EndMoved(at, Len(messages) + 1, Len(buff \o room))
           fdNext == EndMoved(fdAt, Len(messages) + 1, Len(fds))
<1>7. Framed(next, Append(messages, msg), buff \o room, TRUE, oversized)
  BY <1>1, <1>2, <1>3, <1>6, BeginFramed
<1>8. /\ Append(messages, msg) \in Seq(MessageType)
      /\ Len(Append(messages, msg)) = Len(messages) + 1
      /\ Append(messages, msg) # <<>>
  <2>1. /\ Append(messages, msg) \in Seq(MessageType)
        /\ Len(Append(messages, msg)) = Len(messages) + 1
    BY <1>1, AppendProperties
  <2>2. Len(messages) \in Nat
    BY <1>1, LenProperties
  <2>. QED
    BY <2>1, <2>2
<1>9. buff \o room \in Seq(Nat) /\ Len(buff \o room) = Len(buff) + HeaderSize
  BY <1>1, <1>2, Behind
<1>10. next[Len(messages) + 1] = Len(buff)
  <2>1. Len(messages) \in Nat
    BY <1>1, LenProperties
  <2>2. Len(messages) + 1 \in 1..((Len(messages) + 1) + 1)
    BY <2>1
  <2>3. Len(messages) + 1 # (Len(messages) + 1) + 1
    BY <2>1
  <2>. QED
    BY <1>6, <2>2, <2>3 DEF EndMoved
<1>11. Spread(next, fdNext, Append(messages, msg), buff \o room, fds, TRUE, 0)
  <2>1. Spread(at, fdAt, messages, buff, fds, FALSE, done)
    <3>1. Spread(at, fdAt, messages, buff, fds, pc = "append", done) /\ pc = "idle"
      BY <1>5 DEF Filled, AppendBegin
    <3>. QED
      BY <3>1 DEF Spread
  <2> DEFINE c == buff \o room
  <2>2. c \in Seq(Nat) /\ Len(c) = Len(buff) + HeaderSize
    BY <1>9
  <2>3. Extends(c, buff)
    <3>1. Len(buff) <= Len(c)
      BY <1>1, <2>2 DEF HeaderSize
    <3>2. \A i \in 1..Len(buff) : c[i] = buff[i]
      BY <1>1, <1>2, Behind
    <3>. QED
      BY <3>1, <3>2 DEF Extends
  <2>. HIDE DEF c
  <2>4. Spread(EndMoved(at, Len(messages) + 1, Len(c)), fdNext,
               Append(messages, msg), c, fds, TRUE, 0)
    BY <1>1, <1>6, <2>1, <2>2, <2>3, BeginSpread
  <2>. QED
    BY <2>4 DEF c
<1> HIDE DEF next, fdNext
<1>12. PICK moved, fdMoved :
         /\ Framed(moved, Append(messages, msg), buff \o room, TRUE, oversized)
         /\ moved[Len(messages) + 1] = Len(buff)
         /\ Spread(moved, fdMoved, Append(messages, msg), buff \o room, fds, TRUE, 0)
  BY <1>7, <1>10, <1>11
<1>13. Positions(moved)'
  <2>1. Framed(moved, messages', buff', TRUE, oversized')
    BY <1>4, <1>12
  <2>2. header' = moved[Len(messages')]
    BY <1>4, <1>8, <1>12
  <2>. QED
    BY <1>4, <2>1, <2>2 DEF Positions, Framed
<1>14. Filled(moved, fdMoved)'
  <2>1. Spread(moved, fdMoved, messages', buff', fds', TRUE, done')
    BY <1>4, <1>12
  <2>. QED
    BY <1>4, <2>1 DEF Filled, Spread
<1>15. Reached(fdMoved)'
  BY <1>4 DEF Reached
<1>16. FrameTypes' /\ Appending' /\ Parsing'
  <2>1. HeaderSize \in Nat
    BY DEF HeaderSize
  <2>2. Len(buff') = header' + total'
    BY <1>4, <1>9
  <2>3. \A k \in 1..Len(messages') : messages'[k] \in Sendable
    <3>1. Len(messages) \in Nat /\ \A k \in 1..Len(messages) : messages[k] \in Sendable
      BY LenProperties DEF IInv, FrameTypes
    <3>2. /\ Append(messages, msg)[Len(messages) + 1] = msg
          /\ \A k \in 1..Len(messages) : Append(messages, msg)[k] = messages[k]
      BY <1>1, AppendProperties
    <3>3. \A k \in 1..(Len(messages) + 1) : k \in 1..Len(messages) \/ k = Len(messages) + 1
      BY <3>1
    <3>. QED
      BY <1>1, <1>4, <1>8, <3>1, <3>2, <3>3
  <2>4. /\ fds' \in Seq(Nat) /\ fdsRead' = 0 /\ begin' \in Nat /\ payload' \in Seq(Nat)
        /\ oversized' \in BOOLEAN
    BY <1>1, <1>4 DEF IInv, FrameTypes
  <2>5. FrameTypes'
    BY <1>1, <1>4, <1>8, <1>9, <2>1, <2>3, <2>4 DEF FrameTypes
  <2>. QED
    BY <1>4, <1>8, <2>2, <2>5 DEF Appending, Parsing
<1>. QED
  BY <1>13, <1>14, <1>15, <1>16 DEF IInv

LEMMA BothGrow ==
  ASSUME NEW a \in Nat, NEW b \in Nat, NEW c \in Nat, NEW d \in Nat, a + b = c
  PROVE  a + (b + d) = c + d /\ b + d \in Nat
OBVIOUS

(* The next argument of the open message is appended. *)
LEMMA GrowStep ==
  ASSUME IInv, pc = "append", done < Len(Current),
         NEW p, p = Current[done + 1], Grown(buff', fds', buff, fds, p),
         total' = total + Size(p), Size(p) \in Nat, done' = done + 1,
         UNCHANGED <<messages, header, oversized, reader, pc>>
  PROVE  IInv'
<1>1. /\ messages \in Seq(MessageType) /\ messages # <<>> /\ buff \in Seq(Nat)
      /\ \A k \in 1..Len(messages) : messages[k] \in Sendable
      /\ fds \in Seq(Nat) /\ total \in Nat /\ header \in Nat /\ done \in Nat
      /\ index = 0 /\ header + total = Len(buff)
      /\ oversized \in BOOLEAN /\ begin \in Nat /\ payload \in Seq(Nat)
      /\ fdsRead = 0
  BY DEF IInv, FrameTypes, Appending
<1>2. /\ messages' = messages /\ header' = header /\ oversized' = oversized
      /\ index' = index /\ begin' = begin /\ payload' = payload /\ pc' = "append"
      /\ fdsRead' = fdsRead
  BY DEF reader
<1>3. /\ buff' \in Seq(Nat) /\ fds' \in Seq(Nat) /\ Extends(buff', buff)
      /\ Len(buff') = Len(buff) + Size(p) /\ Len(buff) \in Nat
  BY <1>1, LenProperties DEF Grown
<1>4. PICK at, fdAt : Positions(at) /\ Filled(at, fdAt)
  BY DEF IInv
<1>5. Framed(at, messages, buff, TRUE, oversized) /\ header = at[Len(messages)]
  BY <1>4 DEF Positions, Framed
<1>6. Spread(at, fdAt, messages, buff, fds, TRUE, done)
  BY <1>4 DEF Filled, Spread
<1> DEFINE next == EndMoved(at, Len(messages), Len(buff'))
           fdNext == EndMoved(fdAt, Len(messages), Len(fds'))
<1>7. Framed(next, messages, buff', TRUE, oversized)
  BY <1>1, <1>3, <1>5, GrowFramed
<1>8. Spread(next, fdNext, messages, buff', fds', TRUE, done + 1)
  BY <1>1, <1>5, <1>6, GrowSpread DEF Current
<1>9. next[Len(messages)] = at[Len(messages)]
  <2>1. Len(messages) \in Nat \ {0}
    BY <1>1, LenProperties, EmptySeq
  <2>2. Len(messages) \in 1..(Len(messages) + 1) /\ Len(messages) # Len(messages) + 1
    BY <2>1
  <2>. QED
    BY <2>2 DEF EndMoved
<1> HIDE DEF next, fdNext
<1>10. PICK moved, fdMoved :
         /\ Framed(moved, messages, buff', TRUE, oversized)
         /\ Spread(moved, fdMoved, messages, buff', fds', TRUE, done + 1)
         /\ moved[Len(messages)] = at[Len(messages)]
  BY <1>7, <1>8, <1>9
<1>11. Positions(moved)'
  <2>1. Framed(moved, messages', buff', TRUE, oversized')
    BY <1>2, <1>10
  <2>2. header' = moved[Len(messages')] /\ index' = 0
    BY <1>1, <1>2, <1>5, <1>10
  <2>. QED
    BY <1>2, <2>1, <2>2 DEF Positions, Framed
<1>12. Filled(moved, fdMoved)'
  <2>1. Spread(moved, fdMoved, messages', buff', fds', TRUE, done')
    BY <1>2, <1>10
  <2>. QED
    BY <1>2, <2>1 DEF Filled, Spread
<1>13. Reached(fdMoved)'
  BY <1>1, <1>2 DEF Reached
<1>14. FrameTypes' /\ Appending' /\ Parsing'
  <2>1. header' + total' = Len(buff') /\ total' \in Nat
    <3> DEFINE z == Size(p)
               l == Len(buff)
    <3>1. z \in Nat /\ l \in Nat /\ header + total = l
      BY <1>1, <1>3
    <3>2. total' = total + z /\ Len(buff') = l + z
      BY <1>3
    <3>. HIDE DEF z, l
    <3>3. header \in Nat /\ total \in Nat
      BY <1>1
    <3>4. header + (total + z) = l + z /\ total + z \in Nat
      BY ONLY <3>1, <3>3, BothGrow
    <3>. QED
      BY <1>2, <3>2, <3>4
  <2>2. FrameTypes'
    BY <1>1, <1>2, <1>3, <2>1 DEF FrameTypes
  <2>. QED
    BY <1>1, <1>2, <2>1, <2>2 DEF Appending, Parsing
<1>. QED
  BY <1>11, <1>12, <1>13, <1>14 DEF IInv

LEMMA ElementStep ==
  ASSUME IInv, NEW t, NextIs(t), t # "fd", NEW bytes, AppendElement(bytes),
         Element(bytes, Current[done + 1])
  PROVE  IInv'
<1> DEFINE p == Current[done + 1]
<1>1. p \in Primitive /\ p.t # "fd" /\ pc = "append" /\ done < Len(Current)
  BY NextPrimitive DEF NextIs
<1>2. /\ buff' = buff \o Padded(bytes) /\ total' = total + Len(Padded(bytes))
      /\ done' = done + 1 /\ fds' = fds
      /\ UNCHANGED <<messages, header, oversized, reader, pc>>
  BY DEF AppendElement
<1>3. buff \in Seq(Nat) /\ fds \in Seq(Nat)
  BY DEF IInv, FrameTypes
<1>4. Element(bytes, p)
  OBVIOUS
<1> HIDE DEF p
<1>5. /\ buff' \in Seq(Nat) /\ Extends(buff', buff) /\ Len(Padded(bytes)) = Size(p)
      /\ Len(buff') = Len(buff) + Size(p)
      /\ Found(buff', fds, Len(buff), Len(fds), p)
  BY <1>1, <1>2, <1>3, <1>4, ElementFound
<1>6. Size(p) \in Nat /\ NumFds(p) = 0
  BY <1>1, SizeFacts
<1>7. Grown(buff', fds', buff, fds, p)
  <2>1. Extends(fds, fds) /\ Len(fds) = Len(fds) + 0
    BY <1>3, LenProperties DEF Extends
  <2>. QED
    BY <1>2, <1>3, <1>5, <1>6, <2>1 DEF Grown
<1>8. total' = total + Size(p)
  BY <1>2, <1>5
<1>9. p = Current[done + 1]
  BY DEF p
<1>. QED
  BY <1>1, <1>2, <1>6, <1>7, <1>8, <1>9, GrowStep

LEMMA FdStep == ASSUME IInv, AppendFd PROVE IInv'
<1> DEFINE p == Current[done + 1]
<1>1. NextIs("fd") /\ fds' = Append(fds, p.v) /\ done' = done + 1 /\ buff' = buff
  BY DEF AppendFd, Value
<1>2. /\ UNCHANGED <<messages, header, oversized, reader, pc>> /\ total' = total
  BY DEF AppendFd
<1>3. p \in Primitive /\ p.t = "fd" /\ pc = "append" /\ done < Len(Current)
  BY <1>1, NextPrimitive DEF NextIs
<1>4. buff \in Seq(Nat) /\ fds \in Seq(Nat) /\ total \in Nat /\ Len(fds) \in Nat
  BY LenProperties DEF IInv, FrameTypes
<1> HIDE DEF p
<1>5. p.v \in Nat /\ Size(p) = 0 /\ NumFds(p) = 1
  BY <1>3, PrimitiveFacts, SizeFacts
<1>6. /\ fds' \in Seq(Nat) /\ Len(fds') = Len(fds) + 1 /\ fds'[Len(fds) + 1] = p.v
      /\ \A x \in 1..Len(fds) : fds'[x] = fds[x]
  BY <1>1, <1>4, <1>5, AppendProperties
<1>7. Grown(buff', fds', buff, fds, p)
  <2>1. Extends(buff, buff) /\ Len(buff) = Len(buff) + 0
    BY <1>4, LenProperties DEF Extends
  <2>2. Extends(fds', fds) /\ Len(fds) < Len(fds')
    <3>1. Len(fds) <= Len(fds') /\ Len(fds) < Len(fds')
      BY <1>4, <1>6
    <3>. QED
      BY <1>6, <3>1 DEF Extends
  <2>3. Found(buff', fds', Len(buff), Len(fds), p)
    BY <1>3, <1>6, <2>2 DEF Found
  <2>. QED
    BY <1>1, <1>4, <1>5, <1>6, <2>1, <2>2, <2>3 DEF Grown
<1>8. total' = total + Size(p) /\ Size(p) \in Nat
  BY <1>2, <1>4, <1>5
<1>9. p = Current[done + 1]
  BY DEF p
<1>. QED
  BY <1>1, <1>2, <1>3, <1>7, <1>8, <1>9, GrowStep

LEMMA SmallRemainder ==
  ASSUME NEW a \in Nat, NEW m \in Nat \ {0}
  PROVE  a % m \in Nat /\ (a < m => a % m = a)
OBVIOUS

LEMMA Modulus == SizeModulus \in Nat \ {0}
BY SizeModulusAssumption

LEMMA HeaderStep == ASSUME IInv, AppendHeader PROVE IInv'
<1> DEFINE n == Len(messages)
           msg == messages[n]
           z == total % SizeModulus
           over == oversized \/ total >= SizeModulus
           bytes == Header(msg.obj, msg.opcode, z)
<1>1. /\ messages \in Seq(MessageType) /\ messages # <<>> /\ buff \in Seq(Nat)
      /\ total \in Nat /\ index = 0 /\ header \in Nat
      /\ header + total = Len(buff) /\ pc = "append" /\ oversized \in BOOLEAN
      /\ fds \in Seq(Nat)
  BY DEF IInv, FrameTypes, Appending, AppendHeader
<1>2. /\ buff' = Overwrite(buff, header, bytes) /\ oversized' = over
      /\ pc' = "idle" /\ messages' = messages /\ header' = header /\ total' = total
      /\ done' = done /\ index' = index /\ begin' = begin /\ payload' = payload
      /\ fds' = fds /\ fdsRead' = fdsRead
  BY DEF AppendHeader, Overwrite, reader
<1>3. PICK at, fdAt : Positions(at) /\ Filled(at, fdAt)
  BY DEF IInv
<1>4. Framed(at, messages, buff, TRUE, oversized) /\ header = at[n]
  BY <1>1, <1>3 DEF Positions, Framed
<1>5. msg \in MessageType
  <2>1. n \in 1..n
    BY <1>1, LenProperties, EmptySeq
  <2>. QED
    BY <1>1, <2>1, ElementOfSeq
<1>6. z \in Nat /\ (over \/ z = total) /\ (oversized => over)
  <2>1. z \in Nat /\ (total < SizeModulus => z = total)
    BY <1>1, Modulus, SmallRemainder
  <2>2. total < SizeModulus \/ total >= SizeModulus
    BY <1>1, Modulus
  <2>. QED
    BY <2>1, <2>2
<1>7. total = Len(buff) - at[n]
  <2>1. Len(buff) - header = total
    BY <1>1
  <2>. QED
    BY <1>4, <2>1
<1> HIDE DEF msg, z, over
<1>8. IsHeader(bytes, msg, total, over)
  BY <1>5, <1>6, HeaderIsHeader
<1> HIDE DEF bytes
<1>9. IsHeader(bytes, messages[Len(messages)], Len(buff) - at[Len(messages)], over)
  BY <1>7, <1>8 DEF msg
<1> HIDE DEF n
<1>10. /\ Framed(at, messages, Overwrite(buff, at[Len(messages)], bytes), FALSE, over)
       /\ Overwrite(buff, at[Len(messages)], bytes) \in Seq(Nat)
  BY <1>1, <1>4, <1>6, <1>9, CloseFramed
<1>11. Framed(at, messages', buff', FALSE, oversized') /\ buff' \in Seq(Nat)
  BY <1>2, <1>4, <1>10 DEF n
<1>12. Positions(at)'
  BY <1>1, <1>2, <1>11 DEF Positions, Framed
<1>13. Filled(at, fdAt)'
  <2>1. Spread(at, fdAt, messages, buff, fds, TRUE, Len(messages[Len(messages)].args))
    BY <1>1, <1>3 DEF Filled, Spread, AppendHeader, Current
  <2>2. bytes \in Seq(Nat) /\ Len(bytes) = HeaderSize
    BY <1>8 DEF IsHeader
  <2>3. Spread(at, fdAt, messages, Overwrite(buff, at[Len(messages)], bytes), fds,
               FALSE, done)
    BY <1>1, <1>4, <2>1, <2>2, CloseSpread DEF n
  <2>4. Spread(at, fdAt, messages', buff', fds', FALSE, done')
    BY <1>2, <1>4, <2>3 DEF n
  <2>. QED
    BY <1>2, <2>4 DEF Filled, Spread
<1>14. Reached(fdAt)'
  BY <1>1, <1>2 DEF Reached
<1>15. FrameTypes' /\ Appending' /\ Parsing'
  BY <1>1, <1>2, <1>11 DEF IInv, FrameTypes, Appending, Parsing, over
<1>. QED
  BY <1>12, <1>13, <1>14, <1>15 DEF IInv

(* The length of the payload of a message of size z at p. *)
LEMMA PayloadLength ==
  ASSUME NEW p \in Nat, NEW z \in Nat, HeaderSize <= z
  PROVE  /\ (IF p + HeaderSize + 1 <= p + z
             THEN (p + z) - (p + HeaderSize + 1) + 1 ELSE 0) = z - HeaderSize
         /\ \A x \in 1..(z - HeaderSize) :
              /\ x \in 1..((p + z) - (p + HeaderSize + 1) + 1)
              /\ (p + HeaderSize + 1) + x - 1 = p + HeaderSize + x
BY DEF HeaderSize

LEMMA InBuffer ==
  ASSUME NEW p \in Nat, NEW z \in Nat, NEW n \in Nat, p + z <= n
  PROVE  \A i \in (p + HeaderSize + 1)..(p + z) : i \in 1..n
BY DEF HeaderSize

(* Where the next message begins, and that it is there in full.            *)
LEMMA NextFound ==
  ASSUME IInv, pc = "idle", ~oversized, NextBegin < Len(buff),
         NEW at, Positions(at)
  PROVE  /\ index + 1 \in 1..Len(messages) /\ index + 2 \in 1..(Len(messages) + 1)
         /\ NextBegin = at[index + 1] /\ NextBegin \in Nat
         /\ NextBegin + SizeAt(NextBegin) = at[index + 2]
         /\ SizeAt(NextBegin) \in Nat /\ HeaderSize <= SizeAt(NextBegin)
         /\ NextBegin + SizeAt(NextBegin) <= Len(buff)
         /\ KeyAt(NextBegin) = <<messages[index + 1].obj, messages[index + 1].opcode>>
<1> DEFINE n == Len(messages)
           p == NextBegin
           N == Len(buff)
           z == SizeAt(p)
<1>1. n \in Nat /\ index \in Nat /\ N \in Nat /\ p < N
  BY LenProperties DEF IInv, FrameTypes
<1>2. /\ at \in [1..(n + 1) -> Nat] /\ at[1] = 0 /\ at[n + 1] = N
      /\ \A j, k \in 1..(n + 1) : j < k => at[j] + HeaderSize <= at[k]
      /\ \A k \in 1..n : Heads(buff, at[k], messages[k], at[k + 1] - at[k], oversized)
  BY DEF Positions, Framed
<1>3. p = at[index + 1] /\ index <= n
  <2>1. CASE index = 0
    BY <1>1, <1>2, <2>1 DEF NextBegin
  <2>2. CASE index > 0
    BY <1>1, <2>2 DEF NextBegin, Positions
  <2>. QED
    BY <1>1, <2>1, <2>2
<1> HIDE DEF n, p, N
<1>4. index # n
  BY <1>1, <1>2, <1>3
<1>5. index + 1 \in 1..n /\ index + 1 \in 1..(n + 1) /\ index + 2 \in 1..(n + 1)
      /\ (index + 1) + 1 = index + 2 /\ index + 1 < index + 2 /\ n + 1 \in 1..(n + 1)
  BY <1>1, <1>3, <1>4
<1>6. p \in Nat /\ at[index + 2] \in Nat
  BY <1>2, <1>3, <1>5
<1>7. /\ z = at[index + 2] - at[index + 1]
      /\ KeyAt(p) = <<messages[index + 1].obj, messages[index + 1].opcode>>
  <2>1. Heads(buff, at[index + 1], messages[index + 1],
              at[(index + 1) + 1] - at[index + 1], oversized)
    BY <1>2, <1>5
  <2>. QED
    BY <1>3, <1>5, <2>1 DEF Heads, SizeAt, KeyAt, ObjectAt, OpcodeAt
<1>8. at[index + 1] + HeaderSize <= at[index + 2]
  BY <1>2, <1>5
<1>9. at[index + 2] <= N
  <2>1. CASE index + 2 = n + 1
    BY <1>1, <1>2, <2>1
  <2>2. CASE index + 2 # n + 1
    <3>1. index + 2 < n + 1
      BY <1>1, <1>5, <2>2
    <3>2. at[index + 2] + HeaderSize <= at[n + 1]
      BY <1>2, <1>5, <3>1
    <3>. QED
      BY <1>1, <1>2, <1>6, <3>2 DEF HeaderSize
  <2>. QED
    BY <2>1, <2>2
<1> HIDE DEF z
<1>10. z \in Nat /\ HeaderSize <= z /\ p + z = at[index + 2] /\ p + z <= N
  <2>1. z = at[index + 2] - p /\ p + HeaderSize <= at[index + 2]
    BY <1>3, <1>7, <1>8
  <2>. QED
    BY <1>6, <1>9, <2>1 DEF HeaderSize
<1>. QED
  BY <1>3, <1>5, <1>6, <1>7, <1>10 DEF n, p, N, z

(* The interpreter begins at the first argument of the message; nobody    *)
(* takes descriptors of a message that is skipped, for there are none.     *)
LEMMA ParseReaches ==
  ASSUME IInv, Parse, NEW at, NEW fdAt, Positions(at), Filled(at, fdAt), Reached(fdAt)
  PROVE  Reached(fdAt)'
<1> DEFINE k == index + 1
           msg == messages[k]
           args == msg.args
           key == <<msg.obj, msg.opcode>>
           p == NextBegin
           z == SizeAt(p)
           load == SubSeq(buff, p + HeaderSize + 1, p + z)
<1>1. /\ pc = "idle" /\ p < Len(buff) /\ index \in Nat /\ fdsRead \in Nat
      /\ messages' = messages /\ buff' = buff /\ fds' = fds /\ oversized' = oversized
      /\ index' = k /\ begin' = p /\ payload' = load /\ members' = Expected(KeyAt(p))
      /\ bytesRead' = 0 /\ got' = <<>> /\ fdsRead' = fdsRead
      /\ pc' = IF KeyAt(p) \in DOMAIN Layouts THEN "interpret" ELSE "idle"
      /\ Len(buff) \in Nat
  BY LenProperties DEF Parse, appender, IInv, FrameTypes
<1> SUFFICES ASSUME LayoutsAgree, NullsLast, ~oversized
             PROVE  /\ pc' = "idle" => fdsRead' = fdAt[index' + 1]
                    /\ pc' = "interpret" =>
                         \E place, taken : Interpreting(place, taken, fdAt)'
  BY <1>1 DEF Reached
<1>2. /\ k \in 1..Len(messages) /\ p = at[k] /\ p \in Nat
      /\ p + z = at[index + 2] /\ z \in Nat /\ HeaderSize <= z
      /\ KeyAt(p) = key /\ p + z <= Len(buff)
  BY <1>1, NextFound
<1>3. index + 2 = k + 1
  BY <1>1
<1>4. msg \in MessageType /\ msg \in Sendable
  BY <1>2, ElementOfSeq DEF IInv, FrameTypes
<1>5. args \in Seq(Primitive) /\ Len(args) \in Nat
  BY <1>4, MessageFields, LenProperties
<1>6. /\ LaidOut(buff, fds, args, Len(args), p + HeaderSize, p + z,
                 fdAt[k], fdAt[k + 1])
      /\ fdAt[1] = 0
  <2>1. /\ LaidOut(buff, fds, args, Len(args), at[k] + HeaderSize, at[k + 1],
                   fdAt[k], fdAt[k + 1])
        /\ fdAt[1] = 0
    BY <1>1, <1>2 DEF Filled, Spread
  <2>. QED
    BY <1>2, <1>3, <2>1
<1>7. fdsRead = fdAt[k]
  <2>1. CASE index = 0
    BY <1>6, <2>1 DEF IInv, FrameTypes
  <2>2. CASE index > 0
    BY <1>1, <2>2 DEF Reached
  <2>. QED
    BY <1>1, <2>1, <2>2
<1>8. Len(load) = z - HeaderSize
  <2>. HIDE DEF p, z
  <2>1. \A i \in (p + HeaderSize + 1)..(p + z) : i \in 1..Len(buff)
    BY <1>1, <1>2, InBuffer
  <2>2. \A i \in (p + HeaderSize + 1)..(p + z) : buff[i] \in Nat
    BY <2>1, ElementOfSeq DEF IInv, FrameTypes
  <2>3. p + HeaderSize + 1 \in Int /\ p + z \in Int
    BY <1>2 DEF HeaderSize
  <2>4. Len(load) = IF p + HeaderSize + 1 <= p + z
                    THEN (p + z) - (p + HeaderSize + 1) + 1 ELSE 0
    BY <2>2, <2>3, SubSeqProperties
  <2>. HIDE DEF load
  <2>. QED
    BY <1>2, <2>4, PayloadLength
<1> HIDE DEF p, z, load
<1>9. begin' + HeaderSize + Len(payload') = p + z
  <2>1. begin' = p /\ Len(payload') = z - HeaderSize
    BY <1>1, <1>8
  <2>2. p + HeaderSize + (z - HeaderSize) = p + z
    BY <1>2 DEF HeaderSize
  <2>. QED
    BY <2>1, <2>2
<1>10. ASSUME KeyAt(p) \notin DOMAIN Layouts
       PROVE  fdsRead' = fdAt[index' + 1]
  <2>1. \A i \in 1..Len(args) : args[i].t # "fd"
    BY <1>2, <1>4, <1>10 DEF LayoutsAgree
  <2>2. PICK place, taken :
          /\ Laid(place, taken, buff, fds, args, Len(args), p + HeaderSize, fdAt[k])
          /\ taken[Len(args) + 1] = fdAt[k + 1]
    BY <1>6 DEF LaidOut
  <2>3. fdAt[k + 1] = fdAt[k]
    BY <2>1, <2>2 DEF Laid
  <2>. QED
    BY <1>1, <1>7, <2>3
<1>11. ASSUME KeyAt(p) \in DOMAIN Layouts
       PROVE  \E place, taken : Interpreting(place, taken, fdAt)'
  <2>1. members' = Shape(args)
    BY <1>1, <1>2, <1>4, <1>11 DEF LayoutsAgree, Expected
  <2>2. PICK place, taken :
          /\ Laid(place, taken, buff, fds, args, Len(args), p + HeaderSize, fdAt[k])
          /\ place[Len(args) + 1] = p + z /\ taken[Len(args) + 1] = fdAt[k + 1]
    BY <1>6 DEF LaidOut
  <2>3. place[1] = p + HeaderSize /\ taken[1] = fdAt[k]
    BY <2>2 DEF Laid
  <2>4. /\ Len(got') = 0 /\ ~NullLast' /\ got' \in Seq(Primitive)
        /\ Len(got') <= Len(args) /\ \A i \in 1..Len(got') : FALSE
    BY <1>1, <1>5 DEF NullLast
  <2>5. begin' + HeaderSize + bytesRead' + 0 = place[Len(got') + 1]
    <3>1. p + HeaderSize + 0 + 0 = p + HeaderSize /\ 0 + 1 = 1
      BY <1>2 DEF HeaderSize
    <3>. QED
      BY <1>1, <2>3, <2>4, <3>1
  <2>6. fdsRead' = taken[Len(got') + 1]
    BY <1>1, <1>7, <2>3, <2>4
  <2>7. messages'[index'].args = args
    BY <1>1
  <2>8. /\ Laid(place, taken, buff', fds', args, Len(args), begin' + HeaderSize,
                fdAt[index'])
        /\ taken[Len(args) + 1] = fdAt[index' + 1] /\ bytesRead' \in Nat
    BY <1>1, <2>2
  <2>. HIDE DEF args
  <2>9. Interpreting(place, taken, fdAt)'
    BY <1>9, <2>1, <2>2, <2>4, <2>5, <2>6, <2>7, <2>8 DEF Interpreting
  <2>. QED
    BY <2>9
<1>. QED
  BY <1>1, <1>10, <1>11

LEMMA ParseStep == ASSUME IInv, Parse PROVE IInv'
<1> DEFINE p == NextBegin
           z == SizeAt(p)
           load == SubSeq(buff, p + HeaderSize + 1, p + z)
<1>1. /\ buff \in Seq(Nat) /\ index \in Nat /\ Len(buff) \in Nat /\ pc = "idle"
      /\ p < Len(buff) /\ begin \in Nat /\ Len(payload) \in Nat
  BY LenProperties DEF IInv, FrameTypes, Parse
<1>2. /\ messages' = messages /\ buff' = buff /\ header' = header /\ total' = total
      /\ done' = done /\ oversized' = oversized
      /\ index' = index + 1 /\ begin' = p /\ payload' = load
      /\ pc' \in {"interpret", "idle"} /\ fds' = fds /\ fdsRead' = fdsRead
  BY DEF Parse, appender
<1>3. p \in Nat
  BY <1>1 DEF NextBegin, HeaderSize
<1>4. p + HeaderSize <= Len(buff) /\ HeaderSize <= z /\ p + z <= Len(buff) /\ z \in Nat
  <2>1. /\ ~(Len(buff) - p < HeaderSize) /\ ~(z < HeaderSize)
        /\ ~(z > Len(buff) - p)
    BY DEF Parse, ParseThrows
  <2>2. Len(buff) - p >= HeaderSize
    BY <1>1, <1>3, <2>1 DEF HeaderSize
  <2>3. p + 7 \in 1..Len(buff) /\ p + 8 \in 1..Len(buff)
    BY <1>1, <1>3, <2>2 DEF HeaderSize
  <2>4. buff[p + 7] \in Nat /\ buff[p + 8] \in Nat
    BY <1>1, <2>3, ElementOfSeq
  <2>5. z = buff[p + 7] + 256 * buff[p + 8]
    <3>1. (p + 6) + 1 = p + 7 /\ (p + 6) + 2 = p + 8
      BY <1>3
    <3>. QED
      BY <3>1 DEF SizeAt, WordAt
  <2>6. z \in Nat
    BY <2>4, <2>5
  <2>. HIDE DEF p, z
  <2>. QED
    BY <1>1, <1>3, <2>1, <2>2, <2>6 DEF HeaderSize
<1>5. /\ load \in Seq(Nat) /\ Len(load) = z - HeaderSize
      /\ \A x \in 1..Len(load) : load[x] = buff[p + HeaderSize + x]
  <2>. HIDE DEF p, z
  <2>1. \A i \in (p + HeaderSize + 1)..(p + z) : i \in 1..Len(buff)
    BY <1>1, <1>3, <1>4, InBuffer
  <2>2. \A i \in (p + HeaderSize + 1)..(p + z) : buff[i] \in Nat
    BY <1>1, <2>1, ElementOfSeq
  <2>3. p + HeaderSize + 1 \in Int /\ p + z \in Int
    BY <1>3, <1>4 DEF HeaderSize
  <2>4. /\ load \in Seq(Nat)
        /\ Len(load) = IF p + HeaderSize + 1 <= p + z
                       THEN (p + z) - (p + HeaderSize + 1) + 1 ELSE 0
        /\ \A i \in 1..((p + z) - (p + HeaderSize + 1) + 1) :
             load[i] = buff[(p + HeaderSize + 1) + i - 1]
    BY <2>2, <2>3, SubSeqProperties
  <2>. HIDE DEF load
  <2>5. Len(load) = z - HeaderSize
    BY <1>3, <1>4, <2>4, PayloadLength
  <2>6. \A x \in 1..(z - HeaderSize) :
          /\ x \in 1..((p + z) - (p + HeaderSize + 1) + 1)
          /\ (p + HeaderSize + 1) + x - 1 = p + HeaderSize + x
    BY <1>3, <1>4, PayloadLength
  <2>. QED
    BY <2>4, <2>5, <2>6
<1>6. PICK at, fdAt : Positions(at) /\ Filled(at, fdAt) /\ Reached(fdAt)
  BY DEF IInv
<1>7. ~oversized => /\ index + 1 <= Len(messages) /\ p = at[index + 1]
                    /\ p + z = at[(index + 1) + 1]
  <2>. SUFFICES ASSUME ~oversized
                PROVE  /\ index + 1 <= Len(messages) /\ p = at[index + 1]
                       /\ p + z = at[(index + 1) + 1]
    OBVIOUS
  <2>1. /\ index + 1 \in 1..Len(messages) /\ p = at[index + 1]
        /\ p + z = at[index + 2]
    BY <1>1, <1>6, NextFound
  <2>. HIDE DEF p, z
  <2>2. (index + 1) + 1 = index + 2 /\ index + 1 <= Len(messages)
    BY <1>1, <2>1
  <2>. QED
    BY <2>1, <2>2
<1>8. SizeAt(begin)' = z
  BY <1>2 DEF SizeAt, WordAt
<1> HIDE DEF p, z, load
<1>9. HeaderSize + Len(load) = z /\ p + HeaderSize + Len(load) = p + z
  BY <1>3, <1>4, <1>5 DEF HeaderSize
<1>10. Positions(at)'
  <2>1. Framed(at, messages, buff, FALSE, oversized)
    BY <1>1, <1>6 DEF Positions, Framed
  <2>2. Framed(at, messages', buff', FALSE, oversized')
    BY <1>2, <2>1
  <2>3. ~oversized => /\ index' <= Len(messages)' /\ begin' = at[index']
                      /\ begin' + HeaderSize + Len(payload') = at[index' + 1]
    BY <1>2, <1>7, <1>9
  <2>. QED
    BY <1>2, <2>2, <2>3 DEF Positions, Framed
<1>11. Filled(at, fdAt)'
  <2>1. Spread(at, fdAt, messages, buff, fds, FALSE, done)
    BY <1>1, <1>6 DEF Filled, Spread
  <2>2. Spread(at, fdAt, messages', buff', fds', FALSE, done')
    BY <1>2, <2>1
  <2>. QED
    BY <1>2, <2>2 DEF Filled, Spread
<1>12. Reached(fdAt)'
  BY <1>6, ParseReaches
<1>13. FrameTypes' /\ Appending' /\ Parsing'
  <2>1. FrameTypes'
    <3>1. index' \in Nat /\ index' # 0
      BY <1>1, <1>2
    <3>. QED
      BY <1>1, <1>2, <1>3, <1>5, <3>1 DEF IInv, FrameTypes
  <2>2. index' > 0 /\ SizeAt(begin)' = HeaderSize + Len(payload')
    BY <1>1, <1>2, <1>8, <1>9
  <2>3. \A x \in 1..Len(payload') : payload'[x] = buff'[begin' + HeaderSize + x]
    BY <1>2, <1>5
  <2>. QED
    BY <1>2, <2>1, <2>2, <2>3 DEF Appending, Parsing
<1>. QED
  BY <1>10, <1>11, <1>12, <1>13 DEF IInv

LEMMA ThrowStep == ASSUME IInv, Throw PROVE IInv'
<1>1. /\ pc = "idle" /\ NextBegin < Len(buff) /\ ParseThrows /\ pc' = "thrown"
      /\ UNCHANGED <<messages, buff, fds, header, total, done, oversized, index,
                     begin, payload, fdsRead>>
  BY DEF Throw, appender, reader
<1>2. PICK at, fdAt : Positions(at) /\ Filled(at, fdAt)
  BY DEF IInv
<1>3. oversized
  <2>. SUFFICES ASSUME ~oversized
                PROVE  FALSE
    OBVIOUS
  <2> DEFINE p == NextBegin
             z == SizeAt(p)
  <2>1. /\ p \in Nat /\ z \in Nat /\ HeaderSize <= z /\ p + z <= Len(buff)
    BY <1>1, <1>2, NextFound
  <2>2. \/ Len(buff) - p < HeaderSize \/ z < HeaderSize \/ z > Len(buff) - p
    BY <1>1 DEF ParseThrows
  <2>3. Len(buff) \in Nat
    BY LenProperties DEF IInv, FrameTypes
  <2>. HIDE DEF p, z
  <2>. QED
    BY <2>1, <2>2, <2>3 DEF HeaderSize
<1>4. Positions(at)'
  BY <1>1, <1>2 DEF Positions, Framed
<1>5. Filled(at, fdAt)'
  BY <1>1, <1>2 DEF Filled, Spread
<1>6. Reached(fdAt)'
  BY <1>1, <1>3 DEF Reached
<1>7. FrameTypes' /\ Appending' /\ Parsing'
  BY <1>1, <1>3 DEF IInv, FrameTypes, Appending, Parsing
<1>. QED
  BY <1>4, <1>5, <1>6, <1>7 DEF IInv

LEMMA AppendSteps ==
  ASSUME IInv, AppendWord \/ AppendString \/ AppendArray \/ AppendNull \/ AppendFd
  PROVE  IInv'
<1> DEFINE p == Current[done + 1]
<1>1. CASE AppendWord
  <2>1. NextIs("word") /\ AppendElement(Word(p.v))
    BY <1>1 DEF AppendWord, Value
  <2>2. Element(Word(p.v), p)
    BY <2>1, NextPrimitive, WordElement
  <2>. QED
    BY <2>1, <2>2, ElementStep
<1>2. CASE AppendString
  <2> DEFINE bytes == Word(Len(p.v) + 1) \o p.v \o <<0>>
  <2>1. NextIs("string") /\ AppendElement(bytes)
    BY <1>2 DEF AppendString, Value
  <2>2. Element(bytes, p)
    BY <2>1, NextPrimitive, StringElement
  <2>. HIDE DEF bytes
  <2>. QED
    BY <2>1, <2>2, ElementStep
<1>3. CASE AppendArray
  <2> DEFINE bytes == Word(Len(p.v)) \o p.v
  <2>1. NextIs("array") /\ AppendElement(bytes)
    BY <1>3 DEF AppendArray, Value
  <2>2. Element(bytes, p)
    BY <2>1, NextPrimitive, ArrayElement
  <2>. HIDE DEF bytes
  <2>. QED
    BY <2>1, <2>2, ElementStep
<1>4. CASE AppendNull
  <2>1. NextIs("null") /\ AppendElement(Word(0))
    BY <1>4 DEF AppendNull
  <2>2. Element(Word(0), p)
    BY <2>1, NextPrimitive, NullElement
  <2>. QED
    BY <2>1, <2>2, ElementStep
<1>5. CASE AppendFd
  BY <1>5, FdStep
<1>. QED
  BY <1>1, <1>2, <1>3, <1>4, <1>5

LEMMA ShapeFacts ==
  ASSUME NEW args \in Seq(Primitive)
  PROVE  /\ Len(Shape(args)) = Len(args)
         /\ \A i \in 1..Len(args) :
              Shape(args)[i] = IF args[i].t = "null" THEN "string" ELSE args[i].t
<1> DEFINE n == Len(args)
           S == {Shape(args)[i] : i \in 1..n}
<1>1. n \in Nat
  BY LenProperties
<1>2. \A i \in 1..n : Shape(args)[i] = IF args[i].t = "null" THEN "string" ELSE args[i].t
  BY DEF Shape
<1>3. Shape(args) \in [1..n -> S]
  BY DEF Shape
<1> HIDE DEF n, S
<1>4. Len(Shape(args)) = n
  BY <1>1, <1>3, SeqDef, LenProperties
<1>. QED
  BY <1>2, <1>4 DEF n

(* The argument p that comes next is where the interpreter reads.          *)
AtArgument(p, place, taken) ==
  /\ p \in Primitive /\ got \in Seq(Primitive) /\ bytesRead \in Nat
  /\ p = messages[index].args[Len(got) + 1]
  /\ members[Len(got) + 1] = (IF p.t = "null" THEN "string" ELSE p.t)
  /\ p.t = "null" => Len(got) + 1 = Len(messages[index].args)
  /\ place[Len(got) + 1] = begin + HeaderSize + bytesRead
  /\ place[(Len(got) + 1) + 1] = (begin + HeaderSize + bytesRead) + Size(p)
  /\ taken[(Len(got) + 1) + 1] = fdsRead + NumFds(p)
  /\ p.t = "fd" => fdsRead < Len(fds) /\ fds[fdsRead + 1] = p.v
  /\ p.t # "fd" =>
       /\ bytesRead + 4 + Len(Body(p)) <= Len(payload)
       /\ WordAt(payload, bytesRead) = Lead(p)
       /\ \A x \in 1..Len(Body(p)) : payload[bytesRead + 4 + x] = Body(p)[x]

LEMMA NextArgument ==
  ASSUME IInv, pc = "interpret", NullsLast, ~oversized,
         NEW place, NEW taken, NEW fdAt, Interpreting(place, taken, fdAt),
         Len(got) < Len(members)
  PROVE  /\ \E p : AtArgument(p, place, taken)
         /\ Len(got) \in Nat /\ Len(got) + 1 <= Len(messages[index].args)
<1> DEFINE args == messages[index].args
           n == Len(got)
           p == args[n + 1]
           i == begin + HeaderSize
           q == i + bytesRead
<1>1. /\ index \in Nat /\ index > 0 /\ begin \in Nat /\ payload \in Seq(Nat)
      /\ fdsRead \in Nat /\ fds \in Seq(Nat)
      /\ \A x \in 1..Len(payload) : payload[x] = buff[i + x]
  BY DEF IInv, FrameTypes, Parsing
<1>2. index \in 1..Len(messages)
  <2>1. PICK at : Positions(at)
    BY DEF IInv
  <2>2. index <= Len(messages)
    BY <1>1, <2>1 DEF Positions
  <2>3. Len(messages) \in Nat
    BY LenProperties DEF IInv, FrameTypes
  <2>. QED
    BY <1>1, <2>2, <2>3
<1>3. messages[index] \in MessageType /\ messages[index] \in Sendable
  BY <1>2, ElementOfSeq DEF IInv, FrameTypes
<1>4. args \in Seq(Primitive) /\ Len(args) \in Nat
  BY <1>3, MessageFields, LenProperties
<1>5. /\ members = Shape(args) /\ got \in Seq(Primitive) /\ n <= Len(args)
      /\ Laid(place, taken, buff, fds, args, Len(args), i, fdAt[index])
      /\ place[Len(args) + 1] = i + Len(payload)
      /\ fdsRead = taken[n + 1] /\ bytesRead \in Nat
      /\ q + (IF NullLast THEN 4 ELSE 0) = place[n + 1]
      /\ NullLast => n = Len(args)
  BY DEF Interpreting
<1>6. n \in Nat /\ i \in Nat /\ q \in Nat
  <2>1. n \in Nat
    BY <1>5, LenProperties
  <2>2. i \in Nat
    BY <1>1 DEF HeaderSize
  <2>. HIDE DEF i
  <2>. QED
    BY <1>5, <2>1, <2>2
<1>7. n < Len(args)
  <2>1. Len(members) = Len(args)
    BY <1>4, <1>5, ShapeFacts
  <2>. QED
    BY <2>1
<1>8. NullsLast => \A k \in 1..Len(args) : args[k].t = "null" => k = Len(args)
  BY <1>3 DEF NullsLast
<1> HIDE DEF args, n, p, i, q
<1>9. n + 1 \in 1..Len(args) /\ n + 1 <= Len(args) /\ n + 1 \in 1..(Len(args) + 1)
      /\ (n + 1) + 1 \in 1..(Len(args) + 1)
  BY <1>4, <1>6, <1>7
<1>10. p \in Primitive
  BY <1>4, <1>9, ElementOfSeq DEF p
<1>11. members[n + 1] = (IF p.t = "null" THEN "string" ELSE p.t)
  BY <1>4, <1>5, <1>9, ShapeFacts DEF p
<1>12. p.t = "null" => n + 1 = Len(args)
  BY <1>8, <1>9 DEF p
<1>13. q = place[n + 1]
  <2>1. ~NullLast
    BY <1>4, <1>5, <1>6, <1>7
  <2>. QED
    BY <1>5, <1>6, <2>1
<1>14. /\ Found(buff, fds, q, fdsRead, p)
       /\ place[(n + 1) + 1] = q + Size(p) /\ taken[(n + 1) + 1] = fdsRead + NumFds(p)
       /\ place[(n + 1) + 1] <= i + Len(payload)
  BY <1>5, <1>9, <1>13 DEF Laid, p
<1>15. p.t = "fd" => fdsRead < Len(fds) /\ fds[fdsRead + 1] = p.v
  BY <1>14 DEF Found
<1>16. ASSUME p.t # "fd"
       PROVE  /\ bytesRead + 4 + Len(Body(p)) <= Len(payload)
              /\ WordAt(payload, bytesRead) = Lead(p)
              /\ \A x \in 1..Len(Body(p)) : payload[bytesRead + 4 + x] = Body(p)[x]
  <2> DEFINE m == Len(Body(p))
             z == Size(p)
             N == Len(payload)
  <2>1. m \in Nat /\ z \in Nat /\ 4 + m <= z /\ N \in Nat
    BY <1>1, <1>10, <1>16, SizeFacts, LenProperties
  <2>2. q + z <= i + N /\ q = i + bytesRead
    BY <1>14 DEF q
  <2>3. WordAt(buff, q) = Lead(p) /\ \A x \in 1..m : buff[q + 4 + x] = Body(p)[x]
    BY <1>14, <1>16 DEF Found
  <2>4. \A x \in 1..N : payload[x] = buff[i + x]
    BY <1>1
  <2>. HIDE DEF m, z, N
  <2>5. bytesRead + z <= N
    BY <1>5, <1>6, <2>1, <2>2
  <2>6. bytesRead + 4 + m <= N
    BY <1>5, <2>1, <2>5
  <2>7. /\ bytesRead + 1 \in 1..N /\ bytesRead + 2 \in 1..N
        /\ i + (bytesRead + 1) = q + 1 /\ i + (bytesRead + 2) = q + 2
    BY <1>5, <1>6, <2>1, <2>2, <2>6
  <2>8. WordAt(payload, bytesRead) = WordAt(buff, q)
    BY <2>4, <2>7 DEF WordAt
  <2>9. \A x \in 1..m : bytesRead + 4 + x \in 1..N /\ i + (bytesRead + 4 + x) = q + 4 + x
    BY <1>5, <1>6, <2>1, <2>2, <2>6
  <2>10. \A x \in 1..m : payload[bytesRead + 4 + x] = buff[q + 4 + x]
    BY <2>4, <2>9
  <2>. QED
    BY <2>3, <2>6, <2>8, <2>10 DEF m, N
<1>17. AtArgument(p, place, taken)
  <2>1. place[n + 1] = i + bytesRead /\ place[(n + 1) + 1] = (i + bytesRead) + Size(p)
    BY <1>13, <1>14 DEF q
  <2>. QED
    BY <1>5, <1>10, <1>11, <1>12, <1>14, <1>15, <1>16, <2>1
    DEF AtArgument, args, n, i, p
<1>. QED
  BY <1>6, <1>9, <1>17 DEF n, args

(* The argument has been read.                                             *)
LEMMA ReadOne ==
  ASSUME IInv, pc = "interpret", NullsLast, ~oversized,
         NEW place, NEW taken, NEW fdAt, Interpreting(place, taken, fdAt),
         Len(got) < Len(members), NEW p, AtArgument(p, place, taken),
         got' = Append(got, p), fdsRead' = fdsRead + NumFds(p),
         bytesRead' = bytesRead + (IF p.t = "null" THEN 0 ELSE Size(p)),
         UNCHANGED <<messages, buff, fds, index, begin, payload, members>>
  PROVE  Interpreting(place, taken, fdAt)'
<1> DEFINE args == messages[index].args
           n == Len(got)
           i == begin + HeaderSize
<1>1. n \in Nat /\ n + 1 <= Len(args)
  BY NextArgument
<1>2. /\ p \in Primitive /\ got \in Seq(Primitive) /\ bytesRead \in Nat
      /\ p = args[n + 1] /\ (p.t = "null" => n + 1 = Len(args))
      /\ place[(n + 1) + 1] = (i + bytesRead) + Size(p)
      /\ taken[(n + 1) + 1] = fdsRead + NumFds(p)
  BY DEF AtArgument
<1>3. /\ members = Shape(args) /\ \A k \in 1..n : got[k] = args[k]
      /\ Laid(place, taken, buff, fds, args, Len(args), i, fdAt[index])
      /\ place[Len(args) + 1] = i + Len(payload)
      /\ taken[Len(args) + 1] = fdAt[index + 1]
  BY DEF Interpreting
<1>4. i \in Nat
  BY DEF IInv, FrameTypes, HeaderSize
<1>5. /\ messages' = messages /\ buff' = buff /\ fds' = fds /\ index' = index
      /\ begin' = begin /\ payload' = payload /\ members' = members
  OBVIOUS
<1>6. /\ got' \in Seq(Primitive) /\ Len(got') = n + 1 /\ got'[n + 1] = p
      /\ \A k \in 1..n : got'[k] = got[k]
  BY <1>2, AppendProperties
<1>7. Size(p) \in Nat /\ (p.t = "null" => Size(p) = 4)
  BY <1>2, SizeFacts
<1> HIDE DEF args, n, i
<1>8. \A k \in 1..(n + 1) : got'[k] = args[k]
  <2>1. \A k \in 1..(n + 1) : k \in 1..n \/ k = n + 1
    BY <1>1
  <2>. QED
    BY <1>2, <1>3, <1>6, <2>1
<1>9. NullLast' <=> p.t = "null"
  <2>1. got' # <<>>
    <3>1. Len(got') # 0
      BY <1>1, <1>6
    <3>. QED
      BY <3>1, EmptySeq
  <2>. QED
    BY <1>6, <2>1 DEF NullLast
<1>10. bytesRead' \in Nat
  BY <1>2, <1>7
<1>11. (i + bytesRead') + (IF p.t = "null" THEN 4 ELSE 0) = place[(n + 1) + 1]
  <2>1. CASE p.t = "null"
    <3>1. bytesRead' = bytesRead
      BY <1>2, <2>1
    <3>. QED
      BY <1>2, <1>4, <1>7, <2>1, <3>1
  <2>2. CASE p.t # "null"
    <3>1. bytesRead' = bytesRead + Size(p)
      BY <2>2
    <3>. QED
      BY <1>2, <1>4, <1>7, <2>2, <3>1
  <2>. QED
    BY <2>1, <2>2
<1>12. fdsRead' = taken[(n + 1) + 1]
  BY <1>2
<1>13. messages'[index'].args = args
  BY <1>5 DEF args
<1>14. begin' + HeaderSize = i
  BY <1>5 DEF i
<1>. QED
  BY <1>1, <1>2, <1>3, <1>5, <1>6, <1>8, <1>9, <1>10, <1>11, <1>12, <1>13, <1>14
  DEF Interpreting

(* The bytes of a string or an array, taken out of the payload.            *)
LEMMA TakenOut ==
  ASSUME NEW s \in Seq(Nat), NEW r \in Nat, NEW v \in Seq(Nat),
         r + 4 + Len(v) <= Len(s), \A x \in 1..Len(v) : s[r + 4 + x] = v[x]
  PROVE  SubSeq(s, r + 5, r + 4 + Len(v)) = v
<1> DEFINE l == Len(v)
           lo == r + 5
           hi == r + 4 + l
           c == SubSeq(s, lo, hi)
           N == Len(s)
<1>1. l \in Nat /\ N \in Nat /\ r + 4 + l <= N
  BY LenProperties
<1>2. \A x \in 1..l : s[r + 4 + x] = v[x]
  OBVIOUS
<1> HIDE DEF l
<1>3. /\ \A y \in lo..hi : s[y] \in Nat
      /\ lo \in Int /\ hi \in Int
  <2>1. \A y \in lo..hi : y \in 1..N
    BY <1>1
  <2>. QED
    BY <1>1, <2>1, ElementOfSeq
<1> HIDE DEF lo, hi
<1>4. /\ c \in Seq(Nat)
      /\ Len(c) = IF lo <= hi THEN hi - lo + 1 ELSE 0
      /\ \A y \in 1..(hi - lo + 1) : c[y] = s[lo + y - 1]
  BY <1>3, SubSeqProperties
<1> HIDE DEF c
<1>5. Len(c) = l
  BY <1>1, <1>4 DEF lo, hi
<1>6. \A y \in 1..l : y \in 1..(hi - lo + 1) /\ lo + y - 1 = r + 4 + y
  BY <1>1 DEF lo, hi
<1>7. \A y \in 1..l : c[y] = v[y]
  BY <1>2, <1>4, <1>6
<1>8. c = v
  <2>1. Len(c) = Len(v)
    BY <1>5 DEF l
  <2>2. \A y \in 1..Len(c) : c[y] = v[y]
    BY <1>5, <1>7
  <2>. QED
    BY <1>4, <2>1, <2>2, SeqEqual
<1>. QED
  BY <1>8 DEF c, l, lo, hi

LEMMA ReadsArgument ==
  ASSUME IInv, NullsLast, ~oversized,
         NEW place, NEW taken, NEW fdAt, Interpreting(place, taken, fdAt),
         ReadWord \/ ReadString \/ ReadNullString \/ ReadArray \/ ReadFd
  PROVE  Interpreting(place, taken, fdAt)'
<1>1. /\ pc = "interpret" /\ Len(got) < Len(members)
      /\ UNCHANGED <<messages, buff, fds, index, begin, payload, members>>
  BY DEF ReadWord, ReadString, ReadNullString, ReadArray, ReadFd, Yield, Reads, appender
<1>2. PICK p : AtArgument(p, place, taken)
  BY <1>1, NextArgument
<1>3. /\ p \in Primitive /\ p = [t |-> p.t, v |-> p.v]
      /\ members[Len(got) + 1] = (IF p.t = "null" THEN "string" ELSE p.t)
      /\ bytesRead \in Nat /\ payload \in Seq(Nat)
      /\ p.t \in {"string", "array"} => p.v \in Seq(Nat) /\ Len(p.v) \in Nat
      /\ Size(p) \in Nat /\ fdsRead \in Nat
  BY <1>2, PrimitiveFacts, SizeFacts DEF AtArgument, IInv, FrameTypes
<1>4. p.t # "fd" => Length = Lead(p)
  BY <1>2 DEF AtArgument, Length
<1> DEFINE Advanced ==
             /\ got' = Append(got, p) /\ fdsRead' = fdsRead + NumFds(p)
             /\ bytesRead' = bytesRead + (IF p.t = "null" THEN 0 ELSE Size(p))
<1>5. CASE ReadWord
  <2>1. /\ members[Len(got) + 1] = "word"
        /\ got' = Append(got, [t |-> "word", v |-> Length])
        /\ bytesRead' = bytesRead + 4 /\ fdsRead' = fdsRead
    BY <1>5 DEF ReadWord, Reads, Yield, Length
  <2>2. p.t = "word"
    BY <1>3, <2>1
  <2>3. Length = p.v /\ Size(p) = 4 /\ NumFds(p) = 0
    BY <1>4, <2>2 DEF Lead, Size, NumFds
  <2>4. Advanced
    BY <1>3, <2>1, <2>2, <2>3
  <2>. QED
    BY <1>1, <1>2, <2>4, ReadOne
<1>6. CASE ReadString
  <2>1. /\ members[Len(got) + 1] = "string" /\ Length # 0
        /\ got' = Append(got, [t |-> "string", v |-> Contents(Length - 1)])
        /\ bytesRead' = bytesRead + PaddedSize(Length) /\ fdsRead' = fdsRead
    BY <1>6 DEF ReadString, Reads, Yield
  <2>2. p.t = "string"
    <3>1. p.t = "null" \/ p.t = "string"
      BY <1>3, <2>1
    <3>2. p.t # "null"
      BY <1>4, <2>1 DEF Lead
    <3>. QED
      BY <3>1, <3>2
  <2>3. Length = Len(p.v) + 1 /\ Size(p) = PaddedSize(Length) /\ NumFds(p) = 0
    BY <1>4, <2>2 DEF Lead, Size, NumFds
  <2>4. Contents(Length - 1) = p.v
    <3>1. Length - 1 = Len(p.v)
      BY <1>3, <2>2, <2>3
    <3>2. Body(p) = p.v
      BY <2>2 DEF Body
    <3>3. /\ bytesRead + 4 + Len(p.v) <= Len(payload)
          /\ \A x \in 1..Len(p.v) : payload[bytesRead + 4 + x] = p.v[x]
      BY <1>2, <2>2, <3>2 DEF AtArgument
    <3>4. SubSeq(payload, bytesRead + 5, bytesRead + 4 + Len(p.v)) = p.v
      BY <1>3, <2>2, <3>3, TakenOut
    <3>. QED
      BY <3>1, <3>4 DEF Contents
  <2>5. Advanced
    BY <1>3, <2>1, <2>2, <2>3, <2>4
  <2>. QED
    BY <1>1, <1>2, <2>5, ReadOne
<1>7. CASE ReadNullString
  <2>1. /\ members[Len(got) + 1] = "string" /\ Length = 0
        /\ got' = Append(got, [t |-> "null", v |-> <<>>])
        /\ bytesRead' = bytesRead + 0 /\ fdsRead' = fdsRead
    BY <1>7 DEF ReadNullString, Reads, Yield
  <2>2. p.t = "null"
    <3>1. p.t = "null" \/ p.t = "string"
      BY <1>3, <2>1
    <3>2. CASE p.t = "string"
      <4>1. Length = Len(p.v) + 1
        BY <1>4, <3>2 DEF Lead
      <4>. QED
        BY <1>3, <2>1, <3>2, <4>1
    <3>. QED
      BY <3>1, <3>2
  <2>3. p.v = <<>> /\ NumFds(p) = 0
    BY <1>3, <2>2, PrimitiveFacts DEF NumFds
  <2>4. Advanced
    BY <1>3, <2>1, <2>2, <2>3
  <2>. QED
    BY <1>1, <1>2, <2>4, ReadOne
<1>8. CASE ReadArray
  <2>1. /\ members[Len(got) + 1] = "array"
        /\ got' = Append(got, [t |-> "array", v |-> Contents(Length)])
        /\ bytesRead' = bytesRead + PaddedSize(Length) /\ fdsRead' = fdsRead
    BY <1>8 DEF ReadArray, Reads, Yield
  <2>2. p.t = "array"
    BY <1>3, <2>1
  <2>3. Length = Len(p.v) /\ Size(p) = PaddedSize(Length) /\ NumFds(p) = 0
    BY <1>4, <2>2 DEF Lead, Size, NumFds
  <2>4. Contents(Length) = p.v
    <3>1. Body(p) = p.v
      BY <2>2 DEF Body
    <3>2. /\ bytesRead + 4 + Len(p.v) <= Len(payload)
          /\ \A x \in 1..Len(p.v) : payload[bytesRead + 4 + x] = p.v[x]
      BY <1>2, <2>2, <3>1 DEF AtArgument
    <3>3. SubSeq(payload, bytesRead + 5, bytesRead + 4 + Len(p.v)) = p.v
      BY <1>3, <2>2, <3>2, TakenOut
    <3>. QED
      BY <2>3, <3>3 DEF Contents
  <2>5. Advanced
    BY <1>3, <2>1, <2>2, <2>3, <2>4
  <2>. QED
    BY <1>1, <1>2, <2>5, ReadOne
<1>9. CASE ReadFd
  <2>1. /\ members[Len(got) + 1] = "fd"
        /\ got' = Append(got, [t |-> "fd", v |-> fds[fdsRead + 1]])
        /\ bytesRead' = bytesRead /\ fdsRead' = fdsRead + 1
    BY <1>9 DEF ReadFd, Reads
  <2>2. p.t = "fd"
    BY <1>3, <2>1
  <2>3. fds[fdsRead + 1] = p.v /\ Size(p) = 0 /\ NumFds(p) = 1
    BY <1>2, <2>2 DEF AtArgument, Size, NumFds
  <2>4. Advanced
    BY <1>3, <2>1, <2>2, <2>3
  <2>. QED
    BY <1>1, <1>2, <2>4, ReadOne
<1>. QED
  BY <1>5, <1>6, <1>7, <1>8, <1>9

(* When all arguments have been read, the descriptors of the message have  *)
(* been taken.                                                             *)
LEMMA InterpretedReaches ==
  ASSUME IInv, NEW fdAt, Reached(fdAt), Interpreted
  PROVE  Reached(fdAt)'
<1>1. /\ pc = "interpret" /\ Len(got) = Len(members) /\ pc' = "idle"
      /\ index' = index /\ fdsRead' = fdsRead /\ oversized' = oversized
  BY DEF Interpreted, appender, reader
<1> SUFFICES ASSUME LayoutsAgree, NullsLast, ~oversized, index > 0
             PROVE  fdsRead = fdAt[index + 1]
  BY <1>1 DEF Reached
<1>2. PICK place, taken : Interpreting(place, taken, fdAt)
  BY <1>1 DEF Reached
<1> DEFINE args == messages[index].args
<1>3. /\ members = Shape(args) /\ fdsRead = taken[Len(got) + 1]
      /\ taken[Len(args) + 1] = fdAt[index + 1]
  BY <1>2 DEF Interpreting
<1>4. args \in Seq(Primitive)
  <2>1. PICK at : Positions(at)
    BY DEF IInv
  <2>2. index <= Len(messages)
    BY <2>1 DEF Positions
  <2>3. index \in 1..Len(messages)
    BY <2>2, LenProperties DEF IInv, FrameTypes
  <2>. QED
    BY <2>3, ElementOfSeq, MessageFields DEF IInv, FrameTypes
<1> HIDE DEF args
<1>5. Len(got) = Len(args)
  BY <1>1, <1>3, <1>4, ShapeFacts
<1>. QED
  BY <1>3, <1>5

LEMMA ReadSteps ==
  ASSUME IInv, ReadWord \/ ReadString \/ ReadNullString \/ ReadArray \/ ReadFd
                 \/ Interpreted \/ UNCHANGED vars
  PROVE  IInv'
<1>1. UNCHANGED <<messages, buff, fds, header, total, done, oversized, index, begin,
                  payload>>
  BY DEF ReadWord, ReadString, ReadNullString, ReadArray, ReadFd, Yield, Interpreted,
         vars, appender, reader
<1>2. pc' = pc \/ (pc = "interpret" /\ pc' = "idle")
  BY DEF ReadWord, ReadString, ReadNullString, ReadArray, ReadFd, Yield, Interpreted,
         vars
<1>3. fdsRead' \in Nat /\ (fdsRead' # fdsRead => pc = "interpret")
  BY SMTT(30) DEF ReadWord, ReadString, ReadNullString, ReadArray, ReadFd, Yield, Interpreted,
         Reads, vars, reader, IInv, FrameTypes
<1>4. PICK at, fdAt : Positions(at) /\ Filled(at, fdAt) /\ Reached(fdAt)
  BY DEF IInv
<1>5. (pc' = "append") <=> (pc = "append")
  BY <1>2
<1>6. Positions(at)'
  <2>1. Framed(at, messages, buff, pc = "append", oversized)
    BY <1>4 DEF Positions
  <2>2. Framed(at, messages, buff, pc = "append", oversized)'
    BY <1>1, <1>5, <2>1 DEF Framed
  <2>. QED
    BY <1>1, <1>4, <1>5, <2>2 DEF Positions
<1>7. Filled(at, fdAt)'
  <2>1. Spread(at, fdAt, messages, buff, fds, pc = "append", done)
    BY <1>4 DEF Filled
  <2>2. Spread(at, fdAt, messages, buff, fds, pc = "append", done)'
    BY <1>1, <1>5, <2>1 DEF Spread
  <2>. QED
    BY <2>2 DEF Filled
<1>8. Reached(fdAt)'
  <2>1. CASE ReadWord \/ ReadString \/ ReadNullString \/ ReadArray \/ ReadFd
    <3>1. pc = "interpret" /\ pc' = "interpret"
      BY <2>1 DEF ReadWord, ReadString, ReadNullString, ReadArray, ReadFd, Yield, Reads
    <3>. SUFFICES ASSUME LayoutsAgree, NullsLast, ~oversized, index > 0
                  PROVE  \E place, taken : Interpreting(place, taken, fdAt)'
      BY <1>1, <3>1 DEF Reached
    <3>2. PICK place, taken : Interpreting(place, taken, fdAt)
      BY <1>4, <3>1 DEF Reached
    <3>3. Interpreting(place, taken, fdAt)'
      BY <2>1, <3>2, ReadsArgument
    <3>. QED
      BY <3>3
  <2>2. CASE Interpreted
    BY <1>4, <2>2, InterpretedReaches
  <2>3. CASE UNCHANGED vars
    BY <1>4, <2>3 DEF Reached, Interpreting, NullLast, vars
  <2>. QED
    BY <2>1, <2>2, <2>3
<1>9. FrameTypes' /\ Appending' /\ Parsing'
  <2>1. FrameTypes'
    BY <1>1, <1>2, <1>3 DEF IInv, FrameTypes, Parsing
  <2>. QED
    BY <1>1, <1>2, <2>1 DEF IInv, Appending, Parsing, SizeAt, WordAt
<1>. QED
  BY <1>6, <1>7, <1>8, <1>9 DEF IInv

LEMMA StepIInv == IInv /\ [Next]_vars => IInv'
<1> SUFFICES ASSUME IInv, [Next]_vars
             PROVE  IInv'
  OBVIOUS
<1>1. ASSUME NEW msg \in Sent, AppendBegin(msg)
      PROVE  IInv'
  BY <1>1, BeginStep
<1>2. CASE AppendWord \/ AppendString \/ AppendArray \/ AppendNull \/ AppendFd
  BY <1>2, AppendSteps
<1>3. CASE AppendHeader
  BY <1>3, HeaderStep
<1>4. CASE Parse
  BY <1>4, ParseStep
<1>5. CASE Throw
  BY <1>5, ThrowStep
<1>6. CASE ReadWord \/ ReadString \/ ReadNullString \/ ReadArray \/ ReadFd
             \/ Interpreted \/ UNCHANGED vars
  BY <1>6, ReadSteps
<1>7. CASE Finished
  BY <1>6, <1>7 DEF Finished
<1>. QED
  BY <1>1, <1>2, <1>3, <1>4, <1>5, <1>6, <1>7 DEF Next, AppendStep, InterpretStep

LEMMA Invariant == Spec => []IInv
<1>. QED
  BY InitIInv, StepIInv, PTL DEF Spec

(* Messages, however many and long, are found by parsed_message_generator  *)
(* one after the other, with the object and the opcode that append has put *)
(* in their headers, as long as none outgrows the 16 bits of its size.     *)
THEOREM InOrder == Spec => []MessagesInOrder
<1>1. IInv => MessagesInOrder
  <2> SUFFICES ASSUME IInv, index > 0, ~oversized
               PROVE  /\ index <= Len(messages)
                      /\ KeyAt(begin) = <<messages[index].obj, messages[index].opcode>>
    BY DEF MessagesInOrder
  <2>1. PICK at : Positions(at)
    BY DEF IInv
  <2>2. index \in Nat /\ Len(messages) \in Nat /\ pc # "append"
    BY LenProperties DEF IInv, FrameTypes, Appending
  <2>3. index \in 1..Len(messages) /\ begin = at[index]
    BY <2>1, <2>2 DEF Positions
  <2>4. Heads(buff, at[index], messages[index], at[index + 1] - at[index], oversized)
    BY <2>1, <2>2, <2>3 DEF Positions, Framed
  <2>5. /\ WordAt(buff, begin) = messages[index].obj
        /\ WordAt(buff, begin + 4) = messages[index].opcode
    BY <2>3, <2>4 DEF Heads
  <2>. QED
    BY <2>2, <2>3, <2>5 DEF KeyAt, ObjectAt, OpcodeAt
<1>. QED
  BY <1>1, Invariant, PTL

(* parsed_message_generator throws on no buffer of append but one with a   *)
(* message that has outgrown its size field, steps by the size it has      *)
(* read, and has seen every message when no byte is left.                  *)
THEOREM ParsesAppended == Spec => []ParsesWhatWasAppended
<1>1. IInv => ParsesWhatWasAppended
  <2> SUFFICES ASSUME IInv
               PROVE  ParsesWhatWasAppended
    OBVIOUS
  <2>1. /\ pc = "thrown" => oversized
        /\ pc = "interpret" => SizeAt(begin) = HeaderSize + Len(payload)
    BY DEF IInv, Parsing
  <2>2. ASSUME index > 0, pc = "idle", ~oversized, NextBegin = Len(buff)
        PROVE  index = Len(messages)
    <3> DEFINE n == Len(messages)
    <3>1. PICK at : Positions(at)
      BY DEF IInv
    <3>2. index \in Nat /\ n \in Nat /\ Len(buff) \in Nat
      BY LenProperties DEF IInv, FrameTypes
    <3>3. index <= n /\ NextBegin = at[index + 1]
      BY <2>2, <3>1, <3>2 DEF Positions, NextBegin
    <3>4. /\ at[n + 1] = Len(buff)
          /\ \A j, k \in 1..(n + 1) : j < k => at[j] + HeaderSize <= at[k]
      BY <3>1 DEF Positions, Framed
    <3>. HIDE DEF n
    <3>5. CASE index < n
      <4>1. index + 1 \in 1..(n + 1) /\ n + 1 \in 1..(n + 1) /\ index + 1 < n + 1
        BY <3>2, <3>5
      <4>2. at[index + 1] + HeaderSize <= at[n + 1]
        BY <3>4, <4>1
      <4>3. Len(buff) + HeaderSize <= Len(buff)
        BY <2>2, <3>3, <3>4, <4>2
      <4>. QED
        BY <3>2, <4>3 DEF HeaderSize
    <3>. QED
      BY <3>2, <3>3, <3>5 DEF n
  <2>. QED
    BY <2>1, <2>2 DEF ParsesWhatWasAppended
<1>. QED
  BY <1>1, Invariant, PTL

(* If every overload has the members of the message it is for, nobody      *)
(* skips a message with descriptors, and no argument is behind a null      *)
(* string, then interpert_message_payload gives back what was appended:    *)
(* every word, string, array and descriptor, in messages of any length.    *)
THEOREM GivesBack ==
  ASSUME LayoutsAgree, NullsLast
  PROVE  Spec => []RoundTrip
<1>1. IInv => RoundTrip
  <2> SUFFICES ASSUME IInv, pc = "interpret", ~oversized
               PROVE  /\ Len(members) = Len(messages[index].args)
                      /\ \A i \in 1..Len(got) : got[i] = messages[index].args[i]
    BY DEF RoundTrip
  <2>1. PICK at, fdAt : Positions(at) /\ Reached(fdAt)
    BY DEF IInv
  <2>2. index > 0
    BY DEF IInv, Parsing
  <2>3. PICK place, taken : Interpreting(place, taken, fdAt)
    BY <2>1, <2>2 DEF Reached
  <2>4. index \in 1..Len(messages)
    <3>1. index <= Len(messages)
      BY <2>1, <2>2 DEF Positions
    <3>. QED
      BY <2>2, <3>1, LenProperties DEF IInv, FrameTypes
  <2>5. messages[index].args \in Seq(Primitive)
    BY <2>4, ElementOfSeq, MessageFields DEF IInv, FrameTypes
  <2>6. /\ members = Shape(messages[index].args)
        /\ \A i \in 1..Len(got) : got[i] = messages[index].args[i]
    BY <2>3 DEF Interpreting
  <2>. QED
    BY <2>5, <2>6, ShapeFacts
<1>. QED
  BY <1>1, Invariant, PTL

(* Under the same conditions the interpreter does not read behind the      *)
(* payload, and has read all of it when it has the last argument.          *)
THEOREM ReadsAll ==
  ASSUME LayoutsAgree, NullsLast
  PROVE  Spec => []ReadsWholePayload
<1>1. IInv => ReadsWholePayload
  <2> SUFFICES ASSUME IInv, pc = "interpret", ~oversized
               PROVE  /\ bytesRead <= Len(payload)
                      /\ Len(got) = Len(members) =>
                           bytesRead + (IF NullLast THEN 4 ELSE 0) = Len(payload)
    BY DEF ReadsWholePayload
  <2>1. PICK at, fdAt : Positions(at) /\ Reached(fdAt)
    BY DEF IInv
  <2>2. /\ index > 0 /\ index \in Nat /\ begin \in Nat /\ Len(payload) \in Nat
    BY LenProperties DEF IInv, Parsing, FrameTypes
  <2>3. PICK place, taken : Interpreting(place, taken, fdAt)
    BY <2>1, <2>2 DEF Reached
  <2> DEFINE args == messages[index].args
             i == begin + HeaderSize
             rest == IF NullLast THEN 4 ELSE 0
             n == Len(got)
  <2>4. args \in Seq(Primitive)
    <3>1. index <= Len(messages)
      BY <2>1, <2>2 DEF Positions
    <3>2. index \in 1..Len(messages)
      BY <2>2, <3>1, LenProperties DEF IInv, FrameTypes
    <3>. QED
      BY <3>2, ElementOfSeq, MessageFields DEF IInv, FrameTypes
  <2>5. /\ members = Shape(args) /\ got \in Seq(Primitive) /\ n <= Len(args)
        /\ Laid(place, taken, buff, fds, args, Len(args), i, fdAt[index])
        /\ place[Len(args) + 1] = i + Len(payload)
        /\ bytesRead \in Nat /\ i + bytesRead + rest = place[n + 1]
    BY <2>3 DEF Interpreting
  <2>6. i \in Nat /\ rest \in {0, 4} /\ n \in Nat /\ Len(args) \in Nat
    BY <2>2, <2>4, <2>5, LenProperties DEF HeaderSize
  <2>7. Len(members) = Len(args)
    BY <2>4, <2>5, ShapeFacts
  <2>. HIDE DEF args, i, rest, n
  <2>8. n + 1 \in 1..(Len(args) + 1)
    BY <2>5, <2>6
  <2>9. place[n + 1] <= place[Len(args) + 1]
    BY <2>5, <2>8 DEF Laid
  <2>10. bytesRead <= Len(payload)
    BY <2>2, <2>5, <2>6, <2>9
  <2>11. n = Len(members) => bytesRead + rest = Len(payload)
    <3>. SUFFICES ASSUME n = Len(members)
                  PROVE  bytesRead + rest = Len(payload)
      OBVIOUS
    <3>1. i + bytesRead + rest = i + Len(payload)
      BY <2>5, <2>7
    <3>. QED
      BY <2>2, <2>5, <2>6, <3>1
  <2>. QED
    BY <2>10, <2>11 DEF n, rest
<1>. QED
  BY <1>1, Invariant, PTL
=============================================================================
