------------------------ MODULE TelemetrySessionProofs ------------------------
(***************************************************************************)
(* One connection of the telemetry server byte by byte, from the checksum  *)
(* of a payload to the rows of the table: which damage the checksum finds, *)
(* that frames come back as they were sent, and that the rows are the      *)
(* readings of the client, for any readings and tokens.                    *)
(***************************************************************************)
EXTENDS TelemetrySession, SumProofs, TLAPS

-------------------------------------------------------------------------------
(* The checksum: words of sixteen bits *)

\* The sum of two bits is a bit, and one of them can be cancelled.
LEMMA PlusBit ==
  ASSUME NEW a \in {0, 1}, NEW b \in {0, 1}
  PROVE  Plus(a, b) \in {0, 1}
  BY DEF Plus

LEMMA PlusCancel ==
  ASSUME NEW a \in {0, 1}, NEW b \in {0, 1}, NEW d \in {0, 1},
         Plus(a, d) = Plus(b, d) \/ Plus(d, a) = Plus(d, b)
  PROVE  a = b
  BY DEF Plus

\* The two halves of a word are the same when their bits are.
Upper(c, d) ==
  /\ c[1] = d[1] /\ c[2] = d[2] /\ c[3] = d[3] /\ c[4] = d[4]
  /\ c[5] = d[5] /\ c[6] = d[6] /\ c[7] = d[7] /\ c[8] = d[8]

Lower(c, d) ==
  /\ c[9] = d[9] /\ c[10] = d[10] /\ c[11] = d[11] /\ c[12] = d[12]
  /\ c[13] = d[13] /\ c[14] = d[14] /\ c[15] = d[15] /\ c[16] = d[16]

LEMMA SameWord ==
  ASSUME NEW c \in Word, NEW d \in Word, Upper(c, d), Lower(c, d)
  PROVE  c = d
<1>1. \A k \in 1 .. 16 : k \in {1, 2, 3, 4, 5, 6, 7, 8, 9, 10, 11, 12, 13, 14, 15, 16}
  OBVIOUS
<1>2. \A k \in 1 .. 16 : c[k] = d[k]
  BY <1>1 DEF Upper, Lower
<1> QED
  BY <1>2 DEF Word

\* Eight bits stand for a byte, and different ones for different bytes.
LEMMA OctetIs ==
  ASSUME NEW c \in Word, NEW k \in {1, 9}
  PROVE  /\ Octet(c, k) \in Byte
         /\ \A d \in Word : Octet(c, k) = Octet(d, k) => \A j \in k .. k + 7 : c[j] = d[j]
<1> DEFINE High == [w \in Word |-> 8 * w[k] + 4 * w[k + 1] + 2 * w[k + 2] + w[k + 3]]
           Low == [w \in Word |-> 8 * w[k + 4] + 4 * w[k + 5] + 2 * w[k + 6] + w[k + 7]]
<1>1. \A w \in Word : /\ w[k] \in 0 .. 1 /\ w[k + 1] \in 0 .. 1 /\ w[k + 2] \in 0 .. 1
                      /\ w[k + 3] \in 0 .. 1 /\ w[k + 4] \in 0 .. 1 /\ w[k + 5] \in 0 .. 1
                      /\ w[k + 6] \in 0 .. 1 /\ w[k + 7] \in 0 .. 1
  BY DEF Word
<1>2. \A w \in Word : High[w] \in 0 .. 15 /\ Low[w] \in 0 .. 15 /\ Octet(w, k) = 16 * High[w] + Low[w]
  BY <1>1 DEF Octet
<1>3. ASSUME NEW d \in Word, High[c] = High[d]
      PROVE  c[k] = d[k] /\ c[k + 1] = d[k + 1] /\ c[k + 2] = d[k + 2] /\ c[k + 3] = d[k + 3]
  BY <1>1, <1>3
<1>4. ASSUME NEW d \in Word, Low[c] = Low[d]
      PROVE  c[k + 4] = d[k + 4] /\ c[k + 5] = d[k + 5] /\ c[k + 6] = d[k + 6] /\ c[k + 7] = d[k + 7]
  BY <1>1, <1>4
<1> HIDE DEF High, Low
<1>5. Octet(c, k) \in Byte
  BY <1>2 DEF Byte
<1>6. ASSUME NEW d \in Word, Octet(c, k) = Octet(d, k)
      PROVE  High[c] = High[d] /\ Low[c] = Low[d]
  <2> DEFINE h == High[c]
             i == High[d]
             l == Low[c]
             m == Low[d]
  <2>1. h \in 0 .. 15 /\ i \in 0 .. 15 /\ l \in 0 .. 15 /\ m \in 0 .. 15 /\ 16 * h + l = 16 * i + m
    BY <1>2, <1>6
  <2> HIDE DEF h, i, l, m
  <2>2. h = i /\ l = m
    BY <2>1
  <2> QED
    BY <2>2 DEF h, i, l, m
<1>7. \A j \in k .. k + 7 : j \in {k, k + 1, k + 2, k + 3, k + 4, k + 5, k + 6, k + 7}
  OBVIOUS
<1> QED
  BY <1>3, <1>4, <1>5, <1>6, <1>7

\* The bits of a shifted word
LEMMA ShiftIs ==
  ASSUME NEW c \in Word
  PROVE  /\ Shift[c] \in Word
         /\ Shift[c][1] = c[2] /\ Shift[c][2] = c[3] /\ Shift[c][3] = c[4]
         /\ Shift[c][4] = Plus(c[5], c[1])
         /\ Shift[c][5] = c[6] /\ Shift[c][6] = c[7] /\ Shift[c][7] = c[8]
         /\ Shift[c][8] = c[9] /\ Shift[c][9] = c[10] /\ Shift[c][10] = c[11]
         /\ Shift[c][11] = Plus(c[12], c[1])
         /\ Shift[c][12] = c[13] /\ Shift[c][13] = c[14] /\ Shift[c][14] = c[15]
         /\ Shift[c][15] = c[16] /\ Shift[c][16] = c[1]
<1>1. \A k \in 1 .. 16 : c[k] \in {0, 1}
  BY DEF Word
<1>2. Plus(c[5], c[1]) \in {0, 1} /\ Plus(c[12], c[1]) \in {0, 1}
  BY <1>1, PlusBit
<1>3. Shift[c] = <<c[2], c[3], c[4], Plus(c[5], c[1]), c[6], c[7], c[8], c[9],
                   c[10], c[11], Plus(c[12], c[1]), c[13], c[14], c[15], c[16], c[1]>>
  BY DEF Shift
<1>4. Shift[c] \in Word
  BY <1>1, <1>2, <1>3 DEF Word
<1> QED
  BY <1>3, <1>4

\* A shift loses nothing.
LEMMA ShiftOneToOne ==
  ASSUME NEW c \in Word, NEW d \in Word, Shift[c] = Shift[d]
  PROVE  c = d
<1>1. \A k \in 1 .. 16 : c[k] \in {0, 1} /\ d[k] \in {0, 1}
  BY DEF Word
<1>2. c[1] = d[1]
  BY ShiftIs
<1>3. c[5] = d[5] /\ c[12] = d[12]
  BY <1>1, <1>2, ShiftIs, PlusCancel
<1>4. Upper(c, d) /\ Lower(c, d)
  BY <1>2, <1>3, ShiftIs DEF Upper, Lower
<1> QED
  BY <1>4, SameWord

LEMMA Shift4OneToOne ==
  ASSUME NEW c \in Word, NEW d \in Word
  PROVE  Shift4[c] \in Word /\ (Shift4[c] = Shift4[d] => c = d)
<1>1. \A w \in Word : Shift[w] \in Word
  BY ShiftIs
<1>2. \A w \in Word : Shift4[w] = Shift[Shift[Shift[Shift[w]]]]
  BY DEF Shift4
<1>3. ASSUME Shift4[c] = Shift4[d]  PROVE c = d
  <2>1. Shift[Shift[Shift[c]]] = Shift[Shift[Shift[d]]]
    BY <1>1, <1>2, <1>3, ShiftOneToOne, SMTT(30)
  <2>2. Shift[Shift[c]] = Shift[Shift[d]]
    BY <1>1, <2>1, ShiftOneToOne
  <2>3. Shift[c] = Shift[d]
    BY <1>1, <2>2, ShiftOneToOne
  <2> QED
    BY <2>3, ShiftOneToOne
<1> QED
  BY <1>1, <1>2, <1>3

\* The bits of a byte
LEMMA BitsOf ==
  ASSUME NEW p \in Byte
  PROVE  /\ \A w \in {128, 64, 32, 16, 8, 4, 2, 1} : Bit(p, w) \in {0, 1}
         /\ p = 128 * Bit(p, 128) + 64 * Bit(p, 64) + 32 * Bit(p, 32) + 16 * Bit(p, 16)
                + 8 * Bit(p, 8) + 4 * Bit(p, 4) + 2 * Bit(p, 2) + Bit(p, 1)
<1>1. \A w \in {128, 64, 32, 16, 8, 4, 2, 1} : Bit(p, w) \in {0, 1}
  BY DEF Byte, Bit
<1>2. p = 128 * Bit(p, 128) + 64 * Bit(p, 64) + 32 * Bit(p, 32) + 16 * Bit(p, 16)
          + 8 * Bit(p, 8) + 4 * Bit(p, 4) + 2 * Bit(p, 2) + Bit(p, 1)
  BY DEF Byte, Bit
<1> QED
  BY <1>1, <1>2, Zenon

\* The bits of a word to which a byte is added
LEMMA AddByteIs ==
  ASSUME NEW c \in Word, NEW p \in Byte
  PROVE  /\ AddByte(c, p) \in Word
         /\ AddByte(c, p)[1] = Plus(c[1], Bit(p, 128)) /\ AddByte(c, p)[2] = Plus(c[2], Bit(p, 64))
         /\ AddByte(c, p)[3] = Plus(c[3], Bit(p, 32)) /\ AddByte(c, p)[4] = Plus(c[4], Bit(p, 16))
         /\ AddByte(c, p)[5] = Plus(c[5], Bit(p, 8)) /\ AddByte(c, p)[6] = Plus(c[6], Bit(p, 4))
         /\ AddByte(c, p)[7] = Plus(c[7], Bit(p, 2)) /\ AddByte(c, p)[8] = Plus(c[8], Bit(p, 1))
         /\ Lower(AddByte(c, p), c)
<1>1. \A k \in 1 .. 16 : c[k] \in {0, 1}
  BY DEF Word
<1>2. /\ Bit(p, 128) \in {0, 1} /\ Bit(p, 64) \in {0, 1} /\ Bit(p, 32) \in {0, 1} /\ Bit(p, 16) \in {0, 1}
      /\ Bit(p, 8) \in {0, 1} /\ Bit(p, 4) \in {0, 1} /\ Bit(p, 2) \in {0, 1} /\ Bit(p, 1) \in {0, 1}
  BY BitsOf
<1>3. /\ Plus(c[1], Bit(p, 128)) \in {0, 1} /\ Plus(c[2], Bit(p, 64)) \in {0, 1}
      /\ Plus(c[3], Bit(p, 32)) \in {0, 1} /\ Plus(c[4], Bit(p, 16)) \in {0, 1}
      /\ Plus(c[5], Bit(p, 8)) \in {0, 1} /\ Plus(c[6], Bit(p, 4)) \in {0, 1}
      /\ Plus(c[7], Bit(p, 2)) \in {0, 1} /\ Plus(c[8], Bit(p, 1)) \in {0, 1}
  BY <1>1, <1>2, PlusBit
<1>4. AddByte(c, p) \in Word
  BY <1>1, <1>3 DEF AddByte, Word
<1> QED
  BY <1>4, Zenon DEF AddByte, Lower

\* The sum with a byte determines the word.
LEMMA AddByteOneToOne ==
  ASSUME NEW c \in Word, NEW d \in Word, NEW p \in Byte, AddByte(c, p) = AddByte(d, p)
  PROVE  c = d
<1>1. \A k \in 1 .. 16 : c[k] \in {0, 1} /\ d[k] \in {0, 1}
  BY DEF Word
<1>2. \A w \in {128, 64, 32, 16, 8, 4, 2, 1} : Bit(p, w) \in {0, 1}
  BY BitsOf
<1>3. Upper(c, d)
  BY <1>1, <1>2, AddByteIs, PlusCancel DEF Upper
<1>4. Lower(c, d)
  BY AddByteIs DEF Lower
<1> QED
  BY <1>3, <1>4, SameWord

\* The sum with a word determines the byte.
LEMMA AddedByte ==
  ASSUME NEW c \in Word, NEW p \in Byte, NEW q \in Byte, Upper(AddByte(c, p), AddByte(c, q))
  PROVE  p = q
<1>1. \A k \in 1 .. 16 : c[k] \in {0, 1}
  BY DEF Word
<1>2. \A w \in {128, 64, 32, 16, 8, 4, 2, 1} : Bit(p, w) \in {0, 1} /\ Bit(q, w) \in {0, 1}
  BY BitsOf
<1>3. \A w \in {128, 64, 32, 16, 8, 4, 2, 1} : Bit(p, w) = Bit(q, w)
  BY <1>1, <1>2, AddByteIs, PlusCancel DEF Upper
<1> QED
  BY <1>3, BitsOf

\* The lower half of a word that is shifted by eight bits, from the upper half it had
LEMMA LowerHalf ==
  ASSUME NEW u \in Word, NEW w, w = Shift4[Shift4[u]]
  PROVE  /\ w[16] = Plus(u[8], u[4]) /\ w[15] = Plus(u[7], u[3])
         /\ w[14] = Plus(u[6], u[2]) /\ w[13] = Plus(u[5], u[1])
         /\ w[12] = u[4] /\ w[11] = Plus(u[3], w[16])
         /\ w[10] = Plus(u[2], w[15]) /\ w[9] = Plus(u[1], w[14])
<1> DEFINE a1 == Shift[u]
           a2 == Shift[a1]
           a3 == Shift[a2]
           a4 == Shift[a3]
           a5 == Shift[a4]
           a6 == Shift[a5]
           a7 == Shift[a6]
           a8 == Shift[a7]
<1>1. Shift4[u] = a4 /\ a4 \in Word
  BY Shift4OneToOne, Zenon DEF Shift4
<1> HIDE DEF a4
<1>2. w = a8
  BY <1>1, Zenon DEF Shift4
<1> HIDE DEF a1, a2, a3, a5, a6, a7, a8
<1>3. /\ a1 \in Word
      /\ a1[1] = u[2] /\ a1[2] = u[3] /\ a1[3] = u[4] /\ a1[4] = Plus(u[5], u[1])
      /\ a1[5] = u[6] /\ a1[6] = u[7] /\ a1[7] = u[8] /\ a1[16] = u[1]
  BY ShiftIs DEF a1
<1>4. /\ a2 \in Word
      /\ a2[1] = a1[2] /\ a2[2] = a1[3] /\ a2[3] = a1[4] /\ a2[4] = Plus(a1[5], a1[1])
      /\ a2[5] = a1[6] /\ a2[6] = a1[7] /\ a2[15] = a1[16] /\ a2[16] = a1[1]
  BY <1>3, ShiftIs DEF a2
<1>5. /\ a3 \in Word
      /\ a3[1] = a2[2] /\ a3[2] = a2[3] /\ a3[3] = a2[4] /\ a3[4] = Plus(a2[5], a2[1])
      /\ a3[5] = a2[6] /\ a3[14] = a2[15] /\ a3[15] = a2[16] /\ a3[16] = a2[1]
  BY <1>4, ShiftIs DEF a3
<1>6. /\ a4 \in Word
      /\ a4[1] = a3[2] /\ a4[2] = a3[3] /\ a4[3] = a3[4] /\ a4[4] = Plus(a3[5], a3[1])
      /\ a4[13] = a3[14] /\ a4[14] = a3[15] /\ a4[15] = a3[16] /\ a4[16] = a3[1]
  BY <1>5, ShiftIs DEF a4
<1>7. /\ a5 \in Word
      /\ a5[1] = a4[2] /\ a5[2] = a4[3] /\ a5[3] = a4[4] /\ a5[12] = a4[13]
      /\ a5[13] = a4[14] /\ a5[14] = a4[15] /\ a5[15] = a4[16] /\ a5[16] = a4[1]
  BY <1>6, ShiftIs DEF a5
<1>8. /\ a6 \in Word
      /\ a6[1] = a5[2] /\ a6[2] = a5[3] /\ a6[11] = Plus(a5[12], a5[1]) /\ a6[12] = a5[13]
      /\ a6[13] = a5[14] /\ a6[14] = a5[15] /\ a6[15] = a5[16] /\ a6[16] = a5[1]
  BY <1>7, ShiftIs DEF a6
<1>9. /\ a7 \in Word
      /\ a7[1] = a6[2] /\ a7[10] = a6[11] /\ a7[11] = Plus(a6[12], a6[1]) /\ a7[12] = a6[13]
      /\ a7[13] = a6[14] /\ a7[14] = a6[15] /\ a7[15] = a6[16] /\ a7[16] = a6[1]
  BY <1>8, ShiftIs DEF a7
<1>10. /\ a8 \in Word
       /\ a8[9] = a7[10] /\ a8[10] = a7[11] /\ a8[11] = Plus(a7[12], a7[1]) /\ a8[12] = a7[13]
       /\ a8[13] = a7[14] /\ a8[14] = a7[15] /\ a8[15] = a7[16] /\ a8[16] = a7[1]
  BY <1>9, ShiftIs DEF a8
<1>11. /\ a1[1] = u[2] /\ a2[1] = u[3] /\ a3[1] = u[4] /\ a4[1] = Plus(u[5], u[1])
       /\ a5[1] = Plus(u[6], u[2]) /\ a6[1] = Plus(u[7], u[3]) /\ a7[1] = Plus(u[8], u[4])
  BY <1>3, <1>4, <1>5, <1>6, <1>7, <1>8, <1>9
<1>12. /\ a8[16] = a7[1] /\ a8[15] = a6[1] /\ a8[14] = a5[1] /\ a8[13] = a4[1] /\ a8[12] = a3[1]
       /\ a8[11] = Plus(a2[1], a7[1]) /\ a8[10] = Plus(a1[1], a6[1]) /\ a8[9] = Plus(u[1], a5[1])
  BY <1>3, <1>4, <1>5, <1>6, <1>7, <1>8, <1>9, <1>10
<1> QED
  BY <1>2, <1>11, <1>12, Zenon

\* So the lower half after the shifts determines the upper half before them.
LEMMA LowerTellsUpper ==
  ASSUME NEW u \in Word, NEW v \in Word, Lower(Shift4[Shift4[u]], Shift4[Shift4[v]])
  PROVE  Upper(u, v)
<1> DEFINE w == Shift4[Shift4[u]]
           x == Shift4[Shift4[v]]
<1>1. \A k \in 1 .. 16 : u[k] \in {0, 1} /\ v[k] \in {0, 1} /\ w[k] \in {0, 1}
  <2>1. w \in Word
    BY Shift4OneToOne
  <2> QED
    BY <2>1 DEF Word
<1>2. Lower(w, x)
  OBVIOUS
<1>3. /\ w[16] = Plus(u[8], u[4]) /\ w[15] = Plus(u[7], u[3])
      /\ w[14] = Plus(u[6], u[2]) /\ w[13] = Plus(u[5], u[1])
      /\ w[12] = u[4] /\ w[11] = Plus(u[3], w[16])
      /\ w[10] = Plus(u[2], w[15]) /\ w[9] = Plus(u[1], w[14])
  BY LowerHalf
<1>4. /\ x[16] = Plus(v[8], v[4]) /\ x[15] = Plus(v[7], v[3])
      /\ x[14] = Plus(v[6], v[2]) /\ x[13] = Plus(v[5], v[1])
      /\ x[12] = v[4] /\ x[11] = Plus(v[3], x[16])
      /\ x[10] = Plus(v[2], x[15]) /\ x[9] = Plus(v[1], x[14])
  BY LowerHalf
<1> HIDE DEF w, x
<1>5. u[4] = v[4]
  BY <1>2, <1>3, <1>4, Zenon DEF Lower
<1>6. /\ Plus(u[3], w[16]) = Plus(v[3], w[16]) /\ Plus(u[2], w[15]) = Plus(v[2], w[15])
      /\ Plus(u[1], w[14]) = Plus(v[1], w[14])
  BY <1>2, <1>3, <1>4, ZenonT(60) DEF Lower
<1>7. u[3] = v[3] /\ u[2] = v[2] /\ u[1] = v[1]
  BY <1>1, <1>6, PlusCancel
<1>8. /\ Plus(u[8], u[4]) = Plus(v[8], u[4]) /\ Plus(u[7], u[3]) = Plus(v[7], u[3])
      /\ Plus(u[6], u[2]) = Plus(v[6], u[2]) /\ Plus(u[5], u[1]) = Plus(v[5], u[1])
  BY <1>2, <1>3, <1>4, <1>5, <1>7, Zenon DEF Lower
<1>9. u[8] = v[8] /\ u[7] = v[7] /\ u[6] = v[6] /\ u[5] = v[5]
  BY <1>1, <1>8, PlusCancel
<1> QED
  BY <1>5, <1>7, <1>9 DEF Upper

\* A byte takes a word to a word; what comes out determines the word, and the byte.
LEMMA CrcByteIs ==
  ASSUME NEW p \in Byte, NEW c \in Word
  PROVE  CrcByte[p][c] \in Word /\ CrcByte[p][c] = Shift4[Shift4[AddByte(c, p)]]
<1>1. CrcByte[p][c] = Shift4[Shift4[AddByte(c, p)]]
  BY DEF CrcByte
<1> QED
  BY <1>1, AddByteIs, Shift4OneToOne

LEMMA CrcByteOneToOne ==
  ASSUME NEW p \in Byte, NEW q \in Byte, NEW c \in Word, NEW d \in Word,
         CrcByte[p][c] = CrcByte[q][d]
  PROVE  AddByte(c, p) = AddByte(d, q)
<1>1. AddByte(c, p) \in Word /\ AddByte(d, q) \in Word
  BY AddByteIs
<1>2. Shift4[AddByte(c, p)] \in Word /\ Shift4[AddByte(d, q)] \in Word
  BY <1>1, Shift4OneToOne
<1>3. Shift4[AddByte(c, p)] = Shift4[AddByte(d, q)]
  BY <1>2, CrcByteIs, Shift4OneToOne
<1> QED
  BY <1>1, <1>3, Shift4OneToOne

\* Two bytes that lead from one word to the same word are the same two bytes.
LEMMA TwoBytes ==
  ASSUME NEW c \in Word, NEW p \in Byte, NEW q \in Byte, NEW r \in Byte, NEW s \in Byte,
         CrcByte[q][CrcByte[p][c]] = CrcByte[s][CrcByte[r][c]]
  PROVE  p = r /\ q = s
<1> DEFINE d == CrcByte[p][c]
           e == CrcByte[r][c]
<1>1. d \in Word /\ e \in Word
  BY CrcByteIs
<1>2. AddByte(d, q) = AddByte(e, s)
  BY <1>1, CrcByteOneToOne
<1> HIDE DEF d, e
<1>3. Lower(d, e)
  <2>1. Lower(AddByte(d, q), d) /\ Lower(AddByte(d, q), e)
    BY <1>1, <1>2, AddByteIs
  <2> HIDE DEF AddByte
  <2> QED
    BY <2>1 DEF Lower
<1>4. Upper(AddByte(c, p), AddByte(c, r))
  BY <1>3, AddByteIs, CrcByteIs, LowerTellsUpper DEF d, e
<1>5. p = r
  BY <1>4, AddedByte
<1>6. AddByte(d, q) = AddByte(d, s)
  BY <1>2, <1>5 DEF d, e
<1>7. q = s
  BY <1>1, <1>6, AddedByte DEF Upper
<1> QED
  BY <1>5, <1>7

\* The words that the checksum of data goes through
Progress(g, data) ==
  /\ g \in [Nat -> Word]
  /\ g[0] = AllOnes
  /\ \A n \in 0 .. Len(data) - 1 : g[n + 1] = CrcByte[data[n + 1]][g[n]]

LEMMA ProgressExists ==
  ASSUME NEW data \in Seq(Byte)
  PROVE  \E g : Progress(g, data)
<1> DEFINE t == [n \in Nat |-> IF n + 1 \in 1 .. Len(data) THEN data[n + 1] ELSE 0]
           F == [w \in Word |-> [n \in Nat |-> CrcByte[t[n]][w]]]
<1>1. t \in [Nat -> Byte] /\ \A n \in 0 .. Len(data) - 1 : t[n] = data[n + 1]
  <2>1. Len(data) \in Nat /\ \A k \in 1 .. Len(data) : data[k] \in Byte
    OBVIOUS
  <2>0. 0 \in Byte
    BY DEF Byte
  <2>2. \A n \in Nat : t[n] \in Byte
    BY <2>0, <2>1
  <2>3. \A n \in 0 .. Len(data) - 1 : n \in Nat /\ n + 1 \in 1 .. Len(data)
    BY <2>1
  <2> QED
    BY <2>2, <2>3
<1> HIDE DEF t
<1>2. F \in [Word -> [Nat -> Word]] /\ \A w \in Word, n \in Nat : F[w][n] = CrcByte[t[n]][w]
  BY <1>1, CrcByteIs
<1> HIDE DEF F
<1>3. AllOnes \in Word
  BY DEF AllOnes, Word
<1>4. PICK g : Recursive(g, AllOnes, F, Word)
  BY <1>2, <1>3, Recursion, Zenon
<1>5. g \in [Nat -> Word] /\ g[0] = AllOnes /\ \A n \in Nat : g[n + 1] = F[g[n]][n]
  BY <1>4 DEF Recursive
<1>6. ASSUME NEW n \in 0 .. Len(data) - 1 PROVE g[n + 1] = CrcByte[data[n + 1]][g[n]]
  <2>1. n \in Nat /\ g[n] \in Word
    BY <1>5
  <2>2. g[n + 1] = F[g[n]][n]
    BY <1>5, <2>1
  <2>3. F[g[n]][n] = CrcByte[t[n]][g[n]]
    BY <1>2, <2>1, Zenon
  <2> QED
    BY <1>1, <2>2, <2>3
<1>7. Progress(g, data)
  BY <1>5, <1>6 DEF Progress
<1> QED
  BY <1>7

\* The last of them is the checksum.
LEMMA CrcIs ==
  ASSUME NEW data \in Seq(Byte), NEW g, Progress(g, data)
  PROVE  crc16(data) = 256 * Octet(g[Len(data)], 1) + Octet(g[Len(data)], 9)
<1> DEFINE l == Len(data)
           Def(h) == h = [n \in 0 .. l |-> IF n = 0 THEN AllOnes ELSE CrcByte[data[n]][h[n - 1]]]
           h == CHOOSE u : Def(u)
           w == [n \in 0 .. l |-> g[n]]
<1>0. l \in Nat
  OBVIOUS
<1>a. g[0] = AllOnes /\ \A n \in 0 .. l - 1 : g[n + 1] = CrcByte[data[n + 1]][g[n]]
  BY DEF Progress
<1> HIDE DEF l
<1>1. Def(w)
  <2>1. ASSUME NEW n \in 0 .. l
        PROVE  g[n] = IF n = 0 THEN AllOnes ELSE CrcByte[data[n]][w[n - 1]]
    <3>1. CASE n = 0
      BY <1>a, <3>1
    <3>2. CASE n # 0
      <4>1. n - 1 \in 0 .. l - 1 /\ (n - 1) + 1 = n /\ n - 1 \in 0 .. l
        BY <1>0, <3>2
      <4>2. g[n] = CrcByte[data[n]][g[n - 1]]
        BY <1>a, <4>1
      <4> QED
        BY <3>2, <4>1, <4>2
    <3> QED
      BY <3>1, <3>2
  <2> QED
    BY <2>1
<1>2. Def(h)
  BY <1>1, Zenon
<1> HIDE DEF h, w
<1> DEFINE S == {n \in Nat : n \in 0 .. l => h[n] = g[n]}
<1>3. 0 \in S
  BY <1>0, <1>a, <1>2
<1>4. ASSUME NEW n \in Nat, n \in S PROVE n + 1 \in S
  <2> SUFFICES ASSUME n + 1 \in 0 .. l PROVE h[n + 1] = g[n + 1]
    OBVIOUS
  <2>1. n \in 0 .. l - 1 /\ (n + 1) - 1 = n /\ n + 1 # 0 /\ h[n] = g[n]
    BY <1>0, <1>4
  <2>2. h[n + 1] = CrcByte[data[n + 1]][h[n]]
    BY <1>2, <2>1, Zenon
  <2> QED
    BY <1>a, <2>1, <2>2
<1> HIDE DEF S, Def
<1>5. \A n \in Nat : n \in S
  BY <1>3, <1>4, SetInduction
<1>6. h[l] = g[l]
  BY <1>0, <1>5 DEF S
<1>7. crc16(data) = Number[g[l]]
  BY <1>6, Zenon DEF crc16, h, Def, l
<1>8. g[l] \in Word
  BY <1>0 DEF Progress
<1> QED
  BY <1>7, <1>8 DEF Number, l

LEMMA CrcType ==
  ASSUME NEW data \in Seq(Byte)
  PROVE  crc16(data) \in Nat /\ crc16(data) < 65536
<1>1. PICK g : Progress(g, data)
  BY ProgressExists
<1> DEFINE w == g[Len(data)]
<1>2. w \in Word
  BY <1>1 DEF Progress
<1>3. crc16(data) = 256 * Octet(w, 1) + Octet(w, 9)
  BY <1>1, CrcIs
<1> HIDE DEF w
<1> DEFINE a == Octet(w, 1)
           b == Octet(w, 9)
<1>4. a \in Byte /\ b \in Byte /\ crc16(data) = 256 * a + b
  BY <1>2, <1>3, OctetIs
<1> HIDE DEF a, b
<1> QED
  BY <1>4 DEF Byte

(* The checksum tells payloads apart that differ in one byte, or in two      *)
(* bytes next to each other, whatever the payload: what crc16() is there for.*)
THEOREM BurstDetected ==
  ASSUME NEW p \in Seq(Byte), NEW q \in Seq(Byte), Len(p) = Len(q), NEW i \in 1 .. Len(p),
         \A j \in 1 .. Len(p) : j # i /\ j # i + 1 => p[j] = q[j],
         crc16(p) = crc16(q)
  PROVE  p = q
<1> DEFINE l == Len(p)
<1>1. PICK g : Progress(g, p)
  BY ProgressExists
<1>2. PICK h : Progress(h, q)
  BY ProgressExists
<1>3. /\ l \in Nat /\ i \in 1 .. l /\ p \in [1 .. l -> Byte] /\ q \in [1 .. l -> Byte]
      /\ \A j \in 1 .. l : j # i /\ j # i + 1 => p[j] = q[j]
  OBVIOUS
<1>4. /\ g \in [Nat -> Word] /\ h \in [Nat -> Word] /\ g[0] = h[0]
      /\ \A n \in 0 .. l - 1 : g[n + 1] = CrcByte[p[n + 1]][g[n]] /\ h[n + 1] = CrcByte[q[n + 1]][h[n]]
  BY <1>1, <1>2 DEF Progress
<1>5. g[l] = h[l]
  <2>1. 256 * Octet(g[l], 1) + Octet(g[l], 9) = 256 * Octet(h[l], 1) + Octet(h[l], 9)
    BY <1>1, <1>2, CrcIs
  <2> DEFINE a == Octet(g[l], 1)
             b == Octet(g[l], 9)
             c == Octet(h[l], 1)
             d == Octet(h[l], 9)
  <2>2. g[l] \in Word /\ h[l] \in Word
    BY <1>3, <1>4
  <2> HIDE DEF l
  <2>3. a \in Byte /\ b \in Byte /\ c \in Byte /\ d \in Byte
    BY <2>2, OctetIs, Zenon
  <2> HIDE DEF a, b, c, d
  <2>4. 256 * a + b = 256 * c + d
    BY <2>1 DEF a, b, c, d
  <2>5. a = c /\ b = d
    BY <2>3, <2>4, SMTT(30) DEF Byte
  <2>6. Octet(g[l], 1) = Octet(h[l], 1) /\ Octet(g[l], 9) = Octet(h[l], 9)
    BY <2>5 DEF a, b, c, d
  <2>7. (\A j \in 1 .. 1 + 7 : g[l][j] = h[l][j]) /\ (\A j \in 9 .. 9 + 7 : g[l][j] = h[l][j])
    BY <2>2, <2>6, OctetIs, Zenon
  <2>8. Upper(g[l], h[l]) /\ Lower(g[l], h[l])
    BY <2>7 DEF Upper, Lower
  <2> QED
    BY <2>2, <2>8, SameWord
<1> HIDE DEF l
\* Before the burst both have come to the same word.
<1>6. g[i - 1] = h[i - 1]
  <2> DEFINE S == {n \in Nat : n <= i - 1 => g[n] = h[n]}
  <2>1. 0 \in S
    BY <1>4
  <2>2. ASSUME NEW n \in Nat, n \in S PROVE n + 1 \in S
    <3> SUFFICES ASSUME n + 1 <= i - 1 PROVE g[n + 1] = h[n + 1]
      OBVIOUS
    <3>1. n \in 0 .. l - 1 /\ n + 1 \in 1 .. l /\ n + 1 # i /\ n + 1 # i + 1 /\ g[n] = h[n]
      BY <1>3, <2>2
    <3>2. p[n + 1] = q[n + 1]
      BY <1>3, <3>1
    <3>3. g[n + 1] = CrcByte[p[n + 1]][g[n]] /\ h[n + 1] = CrcByte[q[n + 1]][h[n]]
      BY <1>4, <3>1
    <3> QED
      BY <3>1, <3>2, <3>3, Zenon
  <2> HIDE DEF S
  <2>3. \A n \in Nat : n \in S
    BY <2>1, <2>2, SetInduction, Zenon
  <2> QED
    BY <1>3, <2>3 DEF S
\* From the last word back to the end of the burst they stay the same.
<1> DEFINE e == IF i < l THEN i + 1 ELSE i
<1>7. g[e] = h[e]
  <2> DEFINE S == {n \in Nat : n <= l - e => g[l - n] = h[l - n]}
  <2>0. e \in i .. l
    BY <1>3
  <2>e. \A j \in 1 .. l : j > e => j # i /\ j # i + 1
    BY <1>3
  <2> HIDE DEF e
  <2>1. 0 \in S
    BY <1>3, <1>5
  <2>2. ASSUME NEW n \in Nat, n \in S PROVE n + 1 \in S
    <3> SUFFICES ASSUME n + 1 <= l - e PROVE g[l - (n + 1)] = h[l - (n + 1)]
      OBVIOUS
    <3> DEFINE m == l - (n + 1)
    <3>1. m \in 0 .. l - 1 /\ m + 1 \in 1 .. l /\ m + 1 = l - n /\ m \in Nat /\ m + 1 > e
      BY <1>3, <2>0
    <3> HIDE DEF m
    <3>2. g[m + 1] = h[m + 1]
      <4>1. n <= l - e
        BY <1>3, <2>0
      <4>2. g[l - n] = h[l - n]
        BY <2>2, <4>1
      <4> QED
        BY <3>1, <4>2
    <3>3. p[m + 1] = q[m + 1] /\ p[m + 1] \in Byte
      BY <1>3, <2>e, <3>1
    <3>4. CrcByte[p[m + 1]][g[m]] = CrcByte[p[m + 1]][h[m]]
      BY <1>4, <3>1, <3>2, <3>3
    <3>5. g[m] = h[m]
      BY <1>4, <3>1, <3>3, <3>4, CrcByteOneToOne, AddByteOneToOne
    <3> QED
      BY <3>5 DEF m
  <2> HIDE DEF S
  <2>3. \A n \in Nat : n \in S
    BY <2>1, <2>2, SetInduction, Zenon
  <2>4. l - e \in Nat /\ l - (l - e) = e
    BY <1>3, <2>0
  <2> QED
    BY <2>3, <2>4 DEF S
<1>8. p[i] = q[i] /\ (i < l => p[i + 1] = q[i + 1])
  <2>1. /\ i - 1 \in 0 .. l - 1 /\ (i - 1) + 1 = i /\ i - 1 \in Nat
        /\ g[i] = CrcByte[p[i]][g[i - 1]] /\ h[i] = CrcByte[q[i]][g[i - 1]]
        /\ p[i] \in Byte /\ q[i] \in Byte /\ g[i - 1] \in Word
    BY <1>3, <1>4, <1>6
  <2>2. CASE i < l
    <3>1. i \in 0 .. l - 1 /\ e = i + 1 /\ i + 1 \in 1 .. l
      BY <1>3, <2>2
    <3>2. p[i + 1] \in Byte /\ q[i + 1] \in Byte
      BY <1>3, <3>1
    <3>3. g[e] = CrcByte[p[i + 1]][g[i]] /\ h[e] = CrcByte[q[i + 1]][h[i]]
      BY <1>4, <3>1
    <3>4. CrcByte[p[i + 1]][CrcByte[p[i]][g[i - 1]]] = CrcByte[q[i + 1]][CrcByte[q[i]][g[i - 1]]]
      BY <1>7, <2>1, <3>3, Zenon
    <3> DEFINE c == g[i - 1]
               x == p[i]
               y == p[i + 1]
               z == q[i]
               v == q[i + 1]
    <3>5. c \in Word /\ x \in Byte /\ y \in Byte /\ z \in Byte /\ v \in Byte
      BY <2>1, <3>2, Zenon
    <3>6. CrcByte[y][CrcByte[x][c]] = CrcByte[v][CrcByte[z][c]]
      BY <3>4
    <3> HIDE DEF c, x, y, z, v
    <3>7. x = z /\ y = v
      BY <3>5, <3>6, TwoBytes
    <3> QED
      BY <3>7 DEF x, y, z, v
  <2>3. CASE ~(i < l)
    <3>1. AddByte(g[i - 1], p[i]) = AddByte(g[i - 1], q[i])
      BY <1>7, <2>1, <2>3, CrcByteOneToOne
    <3> QED
      BY <2>1, <2>3, <3>1, AddedByte, Zenon DEF Upper
  <2> QED
    BY <2>2, <2>3
<1>9. \A j \in 1 .. l : p[j] = q[j]
  BY <1>3, <1>8
<1> QED
  BY <1>3, <1>9

-------------------------------------------------------------------------------
(* Frames *)

\* The last byte of a number, and what is in front of it
LEMMA LastByte ==
  ASSUME NEW n \in Nat
  PROVE  n \div 256 \in Nat /\ n % 256 \in Byte /\ n = 256 * (n \div 256) + (n % 256)
<1>1. n \in Int /\ n % 256 \in Nat /\ n % 256 < 256 /\ n \div 256 \in Nat
  OBVIOUS
<1>2. n % 256 \in Byte
  BY <1>1 DEF Byte
<1>3. n = 256 * (n \div 256) + (n % 256)
  BY <1>1
<1> QED
  BY <1>1, <1>2, <1>3

\* x has the fields of a frame with this type, checksum and payload.
Holds(x, t, c, p) ==
  /\ x \in Seq(Byte) /\ Len(x) = 12 + Len(p)
  /\ x[1] = 78 /\ x[2] = 69 /\ x[3] = 88 /\ x[4] = 84 /\ x[5] = 1 /\ x[6] = t
  /\ PayloadLen(x) = Len(p) /\ Checksum(x) = c
  /\ \A i \in 13 .. 12 + Len(p) : x[i] = p[i - 12]

\* The digits that htons() and htonl() write
LEMMA Be16Is ==
  ASSUME NEW n \in Nat, n < 65536
  PROVE  \E a \in Byte, b \in Byte : Be16(n) = <<a, b>> /\ n = 256 * a + b
<1>1. n \div 256 \in Nat /\ n % 256 \in Byte /\ n = 256 * (n \div 256) + (n % 256)
  BY LastByte
<1>2. n \div 256 \in Byte
  BY <1>1 DEF Byte
<1> QED
  BY <1>1, <1>2 DEF Be16

LEMMA Be32Is ==
  ASSUME NEW n \in Nat, (((12 + n) \div 256) \div 256) \div 256 < 256
  PROVE  \E a \in Byte, b \in Byte, c \in Byte, d \in Byte :
           Be32(n) = <<a, b, c, d>> /\ n = 256 * (256 * (256 * a + b) + c) + d
<1> DEFINE m == n \div 256
<1>1. m \in Nat /\ n % 256 \in Byte /\ n = 256 * m + (n % 256)
  BY LastByte
<1> DEFINE k == m \div 256
<1>2. Be32(n) = <<k \div 256, k % 256, m % 256, n % 256>>
  BY DEF Be32
<1> HIDE DEF m
<1>3. k \in Nat /\ m % 256 \in Byte /\ m = 256 * k + (m % 256)
  BY <1>1, LastByte
<1> HIDE DEF k
<1>4. k \div 256 \in Nat /\ k % 256 \in Byte /\ k = 256 * (k \div 256) + (k % 256)
  BY <1>3, LastByte
<1>5. k \div 256 \in Byte
  BY <1>1, <1>3, <1>4 DEF Byte
<1>6. n = 256 * (256 * (256 * (k \div 256) + (k % 256)) + (m % 256)) + (n % 256)
  BY <1>1, <1>3, <1>4
<1> DEFINE a == k \div 256
           b == k % 256
           c == m % 256
           d == n % 256
<1>7. a \in Byte /\ b \in Byte /\ c \in Byte /\ d \in Byte
  BY <1>1, <1>3, <1>4, <1>5
<1>8. Be32(n) = <<a, b, c, d>> /\ n = 256 * (256 * (256 * a + b) + c) + d
  BY <1>2, <1>6
<1> HIDE DEF a, b, c, d
<1> QED
  BY <1>7, <1>8

\* The bytes of a frame as serialize() writes it
LEMMA SerializeHolds ==
  ASSUME NEW t \in Byte, NEW p, Payload(p)
  PROVE  Holds(Serialize([type |-> t, payload |-> p]), t, crc16(p), p)
<1> DEFINE f == [type |-> t, payload |-> p]
           n == Len(p)
           s == crc16(p)
<1>1. p \in Seq(Byte) /\ n \in Nat /\ (((12 + n) \div 256) \div 256) \div 256 < 256
  BY DEF Payload
<1>2. f.type = t /\ f.payload = p
  OBVIOUS
<1> HIDE DEF f
<1>3. Serialize(f) = MAGIC \o <<VERSION, t>> \o Be32(n) \o Be16(s) \o p
  BY <1>2 DEF Serialize
<1>4. s \in Nat /\ s < 65536
  BY <1>1, CrcType
<1> HIDE DEF n, s
<1>5. PICK a \in Byte, b \in Byte, c \in Byte, d \in Byte :
        Be32(n) = <<a, b, c, d>> /\ n = 256 * (256 * (256 * a + b) + c) + d
  BY <1>1, Be32Is
<1>6. PICK e \in Byte, g \in Byte : Be16(s) = <<e, g>> /\ s = 256 * e + g
  BY <1>4, Be16Is
<1> DEFINE x == Serialize(f)
<1>7. x = MAGIC \o <<VERSION, t>> \o <<a, b, c, d>> \o <<e, g>> \o p
  BY <1>3, <1>5, <1>6, ZenonT(60)
<1> HIDE DEF x
<1>8. /\ Len(x) = 12 + Len(p)
      /\ x[1] = 78 /\ x[2] = 69 /\ x[3] = 88 /\ x[4] = 84 /\ x[5] = 1 /\ x[6] = t
      /\ x[7] = a /\ x[8] = b /\ x[9] = c /\ x[10] = d /\ x[11] = e /\ x[12] = g
  BY <1>1, <1>7 DEF MAGIC, VERSION
<1>9. ASSUME NEW i \in 13 .. 12 + Len(p)  PROVE x[i] = p[i - 12]
  BY <1>1, <1>7 DEF MAGIC, VERSION
<1>10. x \in Seq(Byte)
  <2>1. MAGIC \in Seq(Byte) /\ <<VERSION, t>> \in Seq(Byte)
    BY DEF MAGIC, VERSION, Byte
  <2>2. <<a, b, c, d>> \in Seq(Byte) /\ <<e, g>> \in Seq(Byte)
    BY <1>5, <1>6
  <2> QED
    BY <1>1, <1>7, <2>1, <2>2
<1>11. PayloadLen(x) = Len(p) /\ Checksum(x) = s
  BY <1>5, <1>6, <1>8 DEF PayloadLen, Checksum, n
<1> QED
  BY <1>8, <1>9, <1>10, <1>11, Zenon DEF Holds, x, f, s

\* The payload of a frame
LEMMA PayloadIs ==
  ASSUME NEW x \in Seq(Byte), NEW p \in Seq(Byte), Len(x) >= 12 + Len(p),
         \A i \in 13 .. 12 + Len(p) : x[i] = p[i - 12]
  PROVE  SubSeq(x, 13, 12 + Len(p)) = p
<1> DEFINE y == SubSeq(x, 13, 12 + Len(p))
<1>1. Len(p) \in Nat /\ Len(x) \in Nat /\ 12 + Len(p) \in Nat
  OBVIOUS
<1>2. y \in Seq(Byte) /\ Len(y) = Len(p) /\ \A i \in 1 .. Len(p) : y[i] = x[12 + i]
  BY <1>1
<1>3. \A i \in 1 .. Len(p) : y[i] = p[i]
  BY <1>1, <1>2
<1> QED
  BY <1>2, <1>3

(* What serialize() writes deserialize() reads: no frame that was sent is    *)
(* refused, and type and payload come back as they were.                     *)
THEOREM RoundTrip ==
  ASSUME NEW t \in Byte, NEW p, Payload(p)
  PROVE  /\ Acceptable(Serialize([type |-> t, payload |-> p]))
         /\ Deserialize(Serialize([type |-> t, payload |-> p])) = [type |-> t, payload |-> p]
<1> DEFINE x == Serialize([type |-> t, payload |-> p])
<1>1. Holds(x, t, crc16(p), p) /\ p \in Seq(Byte)
  BY SerializeHolds DEF Payload
<1> HIDE DEF x
<1>2. SubSeq(x, 13, 12 + PayloadLen(x)) = p
  BY <1>1, PayloadIs DEF Holds
<1>3. Acceptable(x)
  <2>1. \A k \in 1 .. 4 : x[k] = MAGIC[k]
    BY <1>1 DEF Holds, MAGIC
  <2>2. Len(x) >= 12 /\ Len(x) >= 12 + PayloadLen(x) /\ x[5] = VERSION
    BY <1>1 DEF Holds, VERSION
  <2>3. crc16(SubSeq(x, 13, 12 + PayloadLen(x))) = Checksum(x)
    BY <1>1, <1>2, Zenon DEF Holds
  <2> QED
    BY <2>1, <2>2, <2>3, Zenon DEF Acceptable
<1>4. Deserialize(x) = [type |-> t, payload |-> p]
  BY <1>1, <1>2, Zenon DEF Holds, Deserialize
<1> QED
  BY <1>3, <1>4 DEF x

-------------------------------------------------------------------------------
(* A damaged frame *)

\* Four bytes make a natural number.
LEMMA LengthType ==
  ASSUME NEW a \in Byte, NEW b \in Byte, NEW c \in Byte, NEW d \in Byte
  PROVE  256 * (256 * (256 * a + b) + c) + d \in Nat
  BY DEF Byte

\* What read_frame() looks at when it has the frame at the start of x
LEMMA FirstFrameIs ==
  ASSUME NEW x \in Seq(Byte), Whole(x)
  PROVE  /\ PayloadLen(x) \in Nat
         /\ FirstFrame(x) \in Seq(Byte) /\ Len(FirstFrame(x)) = 12 + PayloadLen(x)
         /\ \A k \in 1 .. 12 : FirstFrame(x)[k] = x[k]
         /\ PayloadLen(FirstFrame(x)) = PayloadLen(x) /\ Checksum(FirstFrame(x)) = Checksum(x)
         /\ SubSeq(FirstFrame(x), 13, 12 + PayloadLen(x)) = SubSeq(x, 13, 12 + PayloadLen(x))
<1> DEFINE l == PayloadLen(x)
           z == FirstFrame(x)
<1>1. l \in Nat /\ Len(x) >= 12 + l /\ Len(x) >= 12 /\ Len(x) \in Nat
  <2>1. Len(x) >= 12 /\ Len(x) >= 12 + l /\ Len(x) \in Nat
    BY DEF Whole
  <2>2. x[7] \in Byte /\ x[8] \in Byte /\ x[9] \in Byte /\ x[10] \in Byte
    BY <2>1
  <2>3. l \in Nat
    <3> DEFINE a == x[7]
               b == x[8]
               c == x[9]
               d == x[10]
    <3>1. l = 256 * (256 * (256 * a + b) + c) + d
      BY DEF PayloadLen
    <3>2. a \in Byte /\ b \in Byte /\ c \in Byte /\ d \in Byte
      BY <2>2
    <3> HIDE DEF a, b, c, d, l
    <3>3. 256 * (256 * (256 * a + b) + c) + d \in Nat
      BY <3>2, LengthType
    <3> QED
      BY <3>1, <3>3, Zenon
  <2> QED
    BY <2>1, <2>3
<1>2. z = SubSeq(x, 1, 12 + l)
  BY DEF FirstFrame
<1> HIDE DEF l, z
<1>3. z \in Seq(Byte) /\ Len(z) = 12 + l /\ \A k \in 1 .. 12 + l : z[k] = x[k]
  BY <1>1, <1>2
<1>4. \A k \in 1 .. 12 : z[k] = x[k]
  BY <1>1, <1>3
<1>5. PayloadLen(z) = PayloadLen(x) /\ Checksum(z) = Checksum(x)
  BY <1>4 DEF PayloadLen, Checksum
<1>6. SubSeq(z, 13, 12 + l) = SubSeq(x, 13, 12 + l)
  <2> DEFINE p == SubSeq(x, 13, 12 + l)
  <2>1. p \in Seq(Byte) /\ Len(p) = l /\ \A k \in 1 .. l : p[k] = x[12 + k]
    BY <1>1
  <2>2. \A k \in 13 .. 12 + Len(p) : z[k] = p[k - 12]
    BY <1>1, <1>3, <2>1
  <2> HIDE DEF p
  <2>3. SubSeq(z, 13, 12 + Len(p)) = p
    BY <1>1, <1>3, <2>1, <2>2, PayloadIs
  <2> QED
    BY <2>1, <2>3 DEF p
<1> QED
  BY <1>1, <1>3, <1>4, <1>5, <1>6, Zenon DEF l, z

\* What deserialize() has checked when it returns
LEMMA PassesIs ==
  ASSUME NEW x \in Seq(Byte), Passes(x)
  PROVE  /\ PayloadLen(x) \in Nat /\ Len(x) >= 12 + PayloadLen(x)
         /\ crc16(SubSeq(x, 13, 12 + PayloadLen(x))) = Checksum(x)
         /\ Deserialize(FirstFrame(x)).payload = SubSeq(x, 13, 12 + PayloadLen(x))
<1>1. Whole(x) /\ Acceptable(FirstFrame(x))
  BY DEF Passes
<1>2. Len(x) >= 12 + PayloadLen(x)
  BY <1>1 DEF Whole
<1>3. /\ PayloadLen(x) \in Nat /\ PayloadLen(FirstFrame(x)) = PayloadLen(x)
      /\ Checksum(FirstFrame(x)) = Checksum(x)
      /\ SubSeq(FirstFrame(x), 13, 12 + PayloadLen(x)) = SubSeq(x, 13, 12 + PayloadLen(x))
  BY <1>1, FirstFrameIs, Zenon
<1>4. crc16(SubSeq(x, 13, 12 + PayloadLen(x))) = Checksum(x)
  BY <1>1, <1>3, Zenon DEF Acceptable
<1>5. Deserialize(FirstFrame(x)).payload = SubSeq(x, 13, 12 + PayloadLen(x))
  BY <1>3 DEF Deserialize
<1> QED
  BY <1>2, <1>3, <1>4, <1>5

\* The bytes that damage changes, and those it leaves
LEMMA HitIs ==
  ASSUME NEW x \in Seq(Byte), NEW i \in 1 .. Len(x) - 1, NEW b \in Byte \X Byte
  PROVE  /\ Hit(x, i, b) \in Seq(Byte) /\ Len(Hit(x, i, b)) = Len(x)
         /\ Hit(x, i, b)[i] = b[1] /\ Hit(x, i, b)[i + 1] = b[2]
         /\ \A j \in 1 .. Len(x) : j # i /\ j # i + 1 => Hit(x, i, b)[j] = x[j]
<1> DEFINE l == Len(x)
           y == Hit(x, i, b)
<1>1. l \in Nat /\ x \in [1 .. l -> Byte] /\ i \in 1 .. l /\ i + 1 \in 1 .. l /\ i # i + 1
  OBVIOUS
<1>2. b[1] \in Byte /\ b[2] \in Byte
  OBVIOUS
<1>3. y = [x EXCEPT ![i] = b[1], ![i + 1] = b[2]]
  BY DEF Hit
<1> HIDE DEF l, y
<1>4. y \in [1 .. l -> Byte] /\ y[i] = b[1] /\ y[i + 1] = b[2]
      /\ \A j \in 1 .. l : j # i /\ j # i + 1 => y[j] = x[j]
  BY <1>1, <1>2, <1>3
<1>5. y \in Seq(Byte) /\ Len(y) = l
  BY <1>1, <1>4
<1> QED
  BY <1>4, <1>5 DEF l, y

\* The frames have a type of one byte and a payload that can be announced.
LEMMA FrameIs ==
  ASSUME NEW f \in Frames
  PROVE  /\ f = [type |-> f.type, payload |-> f.payload] /\ f.type \in Byte /\ Payload(f.payload)
<1>1. AUTH \in Byte /\ TELEMETRY \in Byte /\ ACK \in Byte /\ ERROR \in Byte
  BY DEF AUTH, TELEMETRY, ACK, ERROR, Byte
<1>2. Payload(<< >>)
  BY DEF Payload
<1>3. CASE f \in [type : {AUTH}, payload : Token]
  BY <1>1, <1>3, TokenAssumption
<1>4. CASE f \in [type : {TELEMETRY}, payload : Reading]
  BY <1>1, <1>4, ReadingAssumption
<1>5. CASE f \in {Empty(ACK), Empty(ERROR)}
  BY <1>1, <1>2, <1>5 DEF Empty
<1> QED
  BY <1>3, <1>4, <1>5 DEF Frames

\* Two payloads with the same bytes are the same.
LEMMA SameSeq ==
  ASSUME NEW p \in Seq(Byte), NEW q \in Seq(Byte), Len(q) = Len(p),
         \A j \in 1 .. Len(p) : q[j] = p[j]
  PROVE  q = p
  OBVIOUS

(* A frame that was damaged in two neighbouring bytes is refused, or its     *)
(* payload is as it was sent, as long as the damage leaves the length, and   *)
(* either the checksum or the payload: then the checksum tells.              *)
LEMMA HitPasses ==
  ASSUME NEW f \in Frames, NEW i \in 1 .. Len(Serialize(f)) - 1, NEW b \in Burst,
         ~LengthHit(Serialize(f), i, b), ~Straddles(Serialize(f), i, b),
         Passes(Hit(Serialize(f), i, b))
  PROVE  /\ PayloadLen(Hit(Serialize(f), i, b)) = Len(f.payload)
         /\ SubSeq(Hit(Serialize(f), i, b), 13, 12 + Len(f.payload)) = f.payload
<1> DEFINE s == Serialize(f)
           p == f.payload
           n == Len(p)
           y == Hit(s, i, b)
           q == SubSeq(y, 13, 12 + n)
<1>1. Holds(s, f.type, crc16(p), p) /\ p \in Seq(Byte) /\ n \in Nat
  <2>1. f = [type |-> f.type, payload |-> p] /\ f.type \in Byte /\ Payload(p)
    BY FrameIs, Zenon
  <2>2. Holds(Serialize([type |-> f.type, payload |-> p]), f.type, crc16(p), p)
    BY <2>1, SerializeHolds, Zenon
  <2>3. p \in Seq(Byte) /\ n \in Nat
    BY <2>1 DEF Payload
  <2> QED
    BY <2>1, <2>2, <2>3, Zenon
<1>2. i \in 1 .. Len(s) - 1 /\ b \in Byte \X Byte /\ Passes(y)
  BY BurstAssumption
<1>3. ~LengthHit(s, i, b) /\ ~Straddles(s, i, b)
  OBVIOUS
<1> HIDE DEF s, p
<1>4. s \in Seq(Byte) /\ Len(s) = 12 + n /\ PayloadLen(s) = n /\ Checksum(s) = crc16(p)
      /\ \A j \in 13 .. 12 + n : s[j] = p[j - 12]
  BY <1>1 DEF Holds
<1>5. y \in Seq(Byte) /\ Len(y) = 12 + n /\ y[i] = b[1] /\ y[i + 1] = b[2]
      /\ \A j \in 1 .. 12 + n : j # i /\ j # i + 1 => y[j] = s[j]
  <2>1. /\ y \in Seq(Byte) /\ Len(y) = Len(s) /\ y[i] = b[1] /\ y[i + 1] = b[2]
        /\ \A j \in 1 .. Len(s) : j # i /\ j # i + 1 => y[j] = s[j]
    BY <1>2, <1>4, HitIs, Zenon
  <2> QED
    BY <1>4, <2>1, Zenon
<1>6. i \in Nat /\ 1 <= i /\ i < Len(s)
  BY <1>1, <1>2, <1>4
<1>7. /\ \A j \in {i, i + 1} \cap 7 .. 10 : y[j] = s[j]
      /\ i = 12 => b[1] = s[12] \/ b[2] = s[13]
  BY <1>3, Zenon DEF LengthHit, Straddles
<1> HIDE DEF n, y
<1>8. PayloadLen(y) = n
  <2>1. ASSUME NEW j \in 7 .. 10  PROVE y[j] = s[j]
    <3>1. j \in 1 .. 12 + n
      BY <1>1
    <3>2. j = i \/ j = i + 1 => j \in {i, i + 1} \cap 7 .. 10
      BY <2>1, Zenon
    <3> QED
      BY <1>5, <1>7, <3>1, <3>2, Zenon
  <2>2. \A j \in 7 .. 10 : y[j] = s[j]
    BY <2>1, Zenon
  <2>3. y[7] = s[7] /\ y[8] = s[8] /\ y[9] = s[9] /\ y[10] = s[10]
    BY <2>2
  <2> QED
    BY <1>4, <2>3 DEF PayloadLen
<1>9. q \in Seq(Byte) /\ Len(q) = n /\ \A j \in 1 .. n : q[j] = y[12 + j]
  BY <1>1, <1>5
<1>10. crc16(q) = Checksum(y)
  BY <1>2, <1>5, <1>8, PassesIs
<1> HIDE DEF q
<1>11. ASSUME NEW j \in 1 .. n, 12 + j # i, 12 + j # i + 1  PROVE q[j] = p[j]
  <2>1. 12 + j \in 13 .. 12 + n /\ 12 + j \in 1 .. 12 + n /\ (12 + j) - 12 = j
    BY <1>1
  <2> QED
    BY <1>4, <1>5, <1>9, <1>11, <2>1, Zenon
<1>12. ASSUME i <= 11  PROVE q = p
  <2>1. \A j \in 1 .. n : 12 + j # i /\ 12 + j # i + 1
    BY <1>1, <1>6, <1>12
  <2> QED
    BY <1>1, <1>9, <1>11, <2>1, SameSeq, Zenon DEF n
<1>13. ASSUME i = 12, b[2] = s[13]  PROVE q = p
  <2>1. ASSUME NEW j \in 1 .. n  PROVE q[j] = p[j]
    <3>1. CASE j = 1
      <4>1. 13 \in 13 .. 12 + n /\ 1 \in 1 .. n /\ 12 + 1 = 13 /\ 13 - 12 = 1
        BY <1>1, <3>1
      <4>2. q[1] = y[13] /\ s[13] = p[1]
        BY <1>4, <1>9, <4>1, Zenon
      <4>3. y[13] = b[2]
        BY <1>5, <1>13
      <4> QED
        BY <1>13, <3>1, <4>2, <4>3
    <3>2. CASE j # 1
      <4>1. 12 + j # i /\ 12 + j # i + 1
        BY <1>13, <3>2
      <4> QED
        BY <1>11, <4>1
    <3> QED
      BY <3>1, <3>2
  <2> QED
    BY <1>1, <1>9, <2>1, SameSeq DEF n
\* From here on the checksum is the one that was sent.
<1>14. ASSUME i >= 12, ~(i = 12 /\ b[2] = s[13])  PROVE q = p
  <2>1. y[11] = s[11]
    BY <1>1, <1>5, <1>6, <1>14
  <2>2. y[12] = s[12]
    <3>1. CASE i = 12
      BY <1>5, <1>7, <1>14, <3>1
    <3>2. CASE i # 12
      BY <1>1, <1>5, <1>6, <1>14, <3>2
    <3> QED
      BY <3>1, <3>2, Zenon
  <2>3. crc16(q) = crc16(p)
    BY <1>4, <1>10, <2>1, <2>2, Zenon DEF Checksum
  <2> DEFINE m == IF i = 12 THEN 1 ELSE i - 12
  <2>4. m \in 1 .. n /\ \A j \in 1 .. n : j # m /\ j # m + 1 => 12 + j # i /\ 12 + j # i + 1
    BY <1>1, <1>4, <1>6, <1>14, SMTT(30)
  <2> HIDE DEF m
  <2>5. \A j \in 1 .. n : j # m /\ j # m + 1 => q[j] = p[j]
    BY <1>11, <2>4
  <2>6. /\ q \in Seq(Byte) /\ p \in Seq(Byte) /\ Len(q) = Len(p) /\ m \in 1 .. Len(q)
        /\ \A j \in 1 .. Len(q) : j # m /\ j # m + 1 => q[j] = p[j]
    BY <1>1, <1>9, <2>4, <2>5, Zenon DEF n
  <2> QED
    BY <2>3, <2>6, BurstDetected, Zenon
<1>15. i <= 11 \/ i >= 12
  BY <1>6
<1>16. q = p
  BY <1>12, <1>13, <1>14, <1>15, Zenon
<1> QED
  BY <1>8, <1>16 DEF q, y, s, p, n

-------------------------------------------------------------------------------
(* One connection *)

(* What the link may have made of a frame: nothing as long as it has done no *)
(* damage, or damage that the checksum tells.                                *)
Variants(d, f) ==
  {y \in Seq(Byte) :
     \/ y = Serialize(f)
     \/ /\ d = "covered"
        /\ \E i \in 1 .. Len(Serialize(f)) - 1, b \in Burst :
             /\ y = Hit(Serialize(f), i, b)
             /\ ~LengthHit(Serialize(f), i, b) /\ ~Straddles(Serialize(f), i, b)}

\* x is what is left of f on its way: all of it, or a first part.
Carries(d, x, f) == \E y \in Variants(d, f) : \E n \in 0 .. Len(y) : x = SubSeq(y, 1, n)

AuthFrame(t) == [type |-> AUTH, payload |-> t]
DataFrame(r) == [type |-> TELEMETRY, payload |-> r]

ClientPlace ==
  {"connect", "refused", "writeAuth", "readAuthReply", "writeFrame", "readReply", "done", "failed"}
Place ==
  ClientPlace \cup {"accept", "readAuth", "writeError", "writeAck", "readFrame", "ended", "blocked"}

SessionTypes ==
  /\ place \in [End -> Place] /\ place["client"] \in ClientPlace
  /\ stream \in [End -> Seq(Byte)]
  /\ token \in Token /\ answered \in Nat
  /\ readings \in Seq(Reading) /\ rows \in Seq(Reading)

\* One reading is written and not stored.
OneOpen == Len(readings) = Len(rows) + 1 /\ rows = SubSeq(readings, 1, Len(rows))

\* The client counts the answers of the frames it writes.
Counts ==
  /\ place["client"] \in {"connect", "refused", "writeAuth", "readAuthReply"} =>
       readings = << >> /\ answered = 0
  /\ place["client"] \in {"writeFrame", "done"} => answered = Len(readings)
  /\ place["client"] = "readReply" => Len(readings) = answered + 1
  /\ place["client"] = "failed" => Len(readings) \in {answered, answered + 1}
  /\ answered <= Len(rows)

Silent == stream["client"] = << >> /\ stream["server"] = << >>

\* What is on its way, and how far the rows are, at each place of handle_session()
Before ==
  /\ readings = << >> /\ rows = << >> /\ stream["client"] = << >>
  /\ place["client"] \in {"connect", "refused", "writeAuth", "readAuthReply", "failed"}
  /\ Carries(damage, stream["server"], AuthFrame(token))
  /\ place["client"] \in {"connect", "refused", "writeAuth"} => stream["server"] = << >>

Refusing ==
  /\ readings = << >> /\ rows = << >> /\ Silent
  /\ place["client"] \in {"readAuthReply", "failed"}

Answering ==
  /\ rows = readings /\ Silent /\ authLog = "AUTH_OK"
  /\ place["client"] \in {"readAuthReply", "readReply", "failed"}

Answered ==
  /\ rows = readings /\ stream["server"] = << >> /\ authLog = "AUTH_OK"
  /\ \/ /\ place["client"] \in {"readAuthReply", "readReply"}
        /\ Carries(damage, stream["client"], Empty(ACK))
     \/ place["client"] = "writeFrame" /\ stream["client"] = << >>
     \/ place["client"] \in {"done", "failed"}

Written ==
  /\ OneOpen /\ stream["client"] = << >> /\ authLog = "AUTH_OK"
  /\ Carries(damage, stream["server"], DataFrame(readings[Len(readings)]))
  /\ place["client"] \in {"readReply", "failed"}

Over ==
  /\ rows = readings \/ OneOpen
  /\ rows # << >> => authLog = "AUTH_OK"
  /\ place["client"] \in {"connect", "refused", "writeAuth"} => stream["client"] = << >>
  /\ place["client"] = "readAuthReply" =>
       \E t \in {ACK, ERROR} : Carries(damage, stream["client"], Empty(t))
  /\ place["client"] = "writeFrame" => rows = readings /\ stream["client"] = << >>
  /\ place["client"] = "readReply" =>
       \/ stream["client"] = << >>
       \/ rows = readings /\ Carries(damage, stream["client"], Empty(ACK))

InStep ==
  \/ place["server"] \in {"accept", "readAuth"} /\ Before
  \/ place["server"] = "writeError" /\ Refusing
  \/ place["server"] = "writeAck" /\ Answering
  \/ place["server"] = "readFrame" /\ (Answered \/ Written)
  \/ place["server"] \in {"ended", "blocked"} /\ Over

Genuine == authLog = "AUTH_OK" => token \in GoodToken

LinkInv == SessionTypes /\ Counts /\ InStep /\ Genuine

\* What serialize() makes
LEMMA SerializeType ==
  ASSUME NEW f \in Frames
  PROVE  Serialize(f) \in Seq(Byte)
<1>1. f = [type |-> f.type, payload |-> f.payload] /\ f.type \in Byte /\ Payload(f.payload)
  BY FrameIs, Zenon
<1>2. Holds(Serialize([type |-> f.type, payload |-> f.payload]), f.type, crc16(f.payload), f.payload)
  BY <1>1, SerializeHolds, Zenon
<1> QED
  BY <1>1, <1>2, Zenon DEF Holds

\* A frame on its way has the size it was sent with; if it passes, so do its length and payload.
LEMMA VariantIs ==
  ASSUME NEW f \in Frames, NEW d, NEW y \in Variants(d, f)
  PROVE  /\ y \in Seq(Byte) /\ Len(f.payload) \in Nat /\ Len(y) = 12 + Len(f.payload)
         /\ Passes(y) => /\ PayloadLen(y) = Len(f.payload)
                         /\ SubSeq(y, 13, 12 + Len(f.payload)) = f.payload
<1> DEFINE s == Serialize(f)
           p == f.payload
<1>1. f = [type |-> f.type, payload |-> p] /\ f.type \in Byte /\ Payload(p)
  BY FrameIs, Zenon
<1>2. Holds(Serialize([type |-> f.type, payload |-> p]), f.type, crc16(p), p)
  BY <1>1, SerializeHolds, Zenon
<1>3. Holds(s, f.type, crc16(p), p)
  BY <1>1, <1>2, Zenon
<1>4. p \in Seq(Byte) /\ Len(p) \in Nat
  BY <1>1 DEF Payload
<1>5. CASE y = s
  <2> HIDE DEF s, p
  <2>1. /\ y \in Seq(Byte) /\ Len(y) = 12 + Len(p) /\ PayloadLen(y) = Len(p)
        /\ \A i \in 13 .. 12 + Len(p) : y[i] = p[i - 12]
    BY <1>3, <1>5 DEF Holds
  <2>2. Len(y) >= 12 + Len(p)
    BY <1>4, <2>1
  <2>3. SubSeq(y, 13, 12 + Len(p)) = p
    BY <1>4, <2>1, <2>2, PayloadIs, Zenon
  <2> QED
    BY <1>4, <2>1, <2>3, Zenon DEF p
<1>6. CASE \E i \in 1 .. Len(s) - 1, b \in Burst :
              y = Hit(s, i, b) /\ ~LengthHit(s, i, b) /\ ~Straddles(s, i, b)
  <2>1. PICK i \in 1 .. Len(s) - 1, b \in Burst :
               y = Hit(s, i, b) /\ ~LengthHit(s, i, b) /\ ~Straddles(s, i, b)
    BY <1>6, Zenon
  <2>2. s \in Seq(Byte) /\ Len(s) = 12 + Len(p) /\ b \in Byte \X Byte
    BY <1>3, BurstAssumption DEF Holds
  <2>3. y \in Seq(Byte) /\ Len(y) = Len(s)
    BY <2>1, <2>2, HitIs, Zenon
  <2>4. Passes(y) => PayloadLen(y) = Len(p) /\ SubSeq(y, 13, 12 + Len(p)) = p
    BY <2>1, HitPasses, Zenon
  <2> QED
    BY <1>4, <2>2, <2>3, <2>4, Zenon
<1>7. y = s \/ \E i \in 1 .. Len(s) - 1, b \in Burst :
                 y = Hit(s, i, b) /\ ~LengthHit(s, i, b) /\ ~Straddles(s, i, b)
  BY Zenon DEF Variants
<1> QED
  BY <1>5, <1>6, <1>7, Zenon

\* The first bytes of a sequence
LEMMA FirstBytes ==
  ASSUME NEW y \in Seq(Byte), NEW n \in 0 .. Len(y)
  PROVE  /\ SubSeq(y, 1, n) \in Seq(Byte) /\ Len(SubSeq(y, 1, n)) = n
         /\ \A k \in 1 .. n : SubSeq(y, 1, n)[k] = y[k]
  OBVIOUS

\* The first bytes of the first bytes
LEMMA FirstOfFirst ==
  ASSUME NEW y \in Seq(Byte), NEW n \in 0 .. Len(y), NEW m \in 0 .. n
  PROVE  SubSeq(SubSeq(y, 1, n), 1, m) = SubSeq(y, 1, m)
<1> DEFINE x == SubSeq(y, 1, n)
           q == SubSeq(x, 1, m)
           p == SubSeq(y, 1, m)
<1>1. m \in 0 .. Len(y) /\ \A k \in 1 .. m : k \in 1 .. n
  OBVIOUS
<1>2. x \in Seq(Byte) /\ Len(x) = n /\ \A k \in 1 .. n : x[k] = y[k]
  BY FirstBytes, Zenon
<1>3. p \in Seq(Byte) /\ Len(p) = m /\ \A k \in 1 .. m : p[k] = y[k]
  BY <1>1, FirstBytes, Zenon
<1> HIDE DEF x, p
<1>4. q \in Seq(Byte) /\ Len(q) = m /\ \A k \in 1 .. m : q[k] = x[k]
  BY <1>2, FirstBytes, Zenon
<1> HIDE DEF q
<1>5. Len(q) = Len(p) /\ \A k \in 1 .. Len(p) : q[k] = p[k]
  BY <1>1, <1>2, <1>3, <1>4, Zenon
<1>6. q = p
  BY <1>3, <1>4, <1>5, SameSeq, Zenon
<1> QED
  BY <1>6 DEF q, p, x

\* read_frame() waits while nothing has come.
LEMMA NothingPasses == ~Passes(<< >>)
  BY DEF Passes, Whole

(* What passes at the end of a way that carries one frame is all of that     *)
(* frame, with its payload, and nothing stays behind.                        *)
LEMMA CarriesPasses ==
  ASSUME NEW f \in Frames, NEW d, NEW x, Carries(d, x, f), Passes(x)
  PROVE  Deserialize(FirstFrame(x)).payload = f.payload /\ Behind(x) = << >>
<1>0. PICK y \in Variants(d, f) : \E n \in 0 .. Len(y) : x = SubSeq(y, 1, n)
  BY Zenon DEF Carries
<1>1. PICK n \in 0 .. Len(y) : x = SubSeq(y, 1, n)
  BY <1>0, Zenon
<1> DEFINE p == f.payload
           l == PayloadLen(x)
           w == Len(p)
<1>2. /\ y \in Seq(Byte) /\ w \in Nat /\ Len(y) = 12 + w
      /\ Passes(y) => PayloadLen(y) = w /\ SubSeq(y, 13, 12 + w) = p
  BY VariantIs, Zenon
<1>3. x \in Seq(Byte) /\ Len(x) = n /\ \A k \in 1 .. n : x[k] = y[k]
  BY <1>1, <1>2, FirstBytes, Zenon
<1>4. /\ l \in Nat /\ Len(x) >= 12 + l
      /\ Deserialize(FirstFrame(x)).payload = SubSeq(x, 13, 12 + l)
  BY <1>3, PassesIs, Zenon
<1>5. FirstFrame(x) = SubSeq(x, 1, 12 + l) /\ Behind(x) = SubSeq(x, 13 + l, Len(x))
  BY DEF FirstFrame, Behind
<1> HIDE DEF l, w, p
<1>6. n \in Nat /\ n >= 12 + l /\ n <= Len(y) /\ 12 + l \in 0 .. n
  BY <1>1, <1>2, <1>3, <1>4
<1>7. PayloadLen(y) = l
  <2>1. \A k \in {7, 8, 9, 10} : k \in 1 .. n
    BY <1>4, <1>6
  <2>2. \A k \in {7, 8, 9, 10} : x[k] = y[k]
    BY <1>3, <2>1, Zenon
  <2> QED
    BY <2>2 DEF l, PayloadLen
<1>8. FirstFrame(y) = FirstFrame(x)
  <2>1. SubSeq(SubSeq(y, 1, n), 1, 12 + l) = SubSeq(y, 1, 12 + l)
    BY <1>2, <1>6, FirstOfFirst, Zenon
  <2> QED
    BY <1>1, <1>5, <1>7, <2>1, Zenon DEF FirstFrame
<1>9. Passes(y)
  <2>1. Whole(y)
    BY <1>2, <1>4, <1>6, <1>7 DEF Whole
  <2> QED
    BY <1>8, <2>1, Zenon DEF Passes
<1>10. l = w /\ SubSeq(y, 13, 12 + l) = p
  BY <1>2, <1>7, <1>9, Zenon
<1>11. n = Len(y) /\ n = 12 + l
  BY <1>2, <1>6, <1>10
<1>12. x = y
  BY <1>2, <1>3, <1>11, SameSeq, Zenon
<1>13. Behind(x) = << >>
  BY <1>3, <1>4, <1>5, <1>11
<1> QED
  BY <1>4, <1>10, <1>12, <1>13, Zenon DEF p

\* What is on its way is a sequence of bytes.
LEMMA CarriesType ==
  ASSUME NEW f \in Frames, NEW d, NEW x, Carries(d, x, f)
  PROVE  x \in Seq(Byte)
<1>0. PICK y \in Variants(d, f) : \E n \in 0 .. Len(y) : x = SubSeq(y, 1, n)
  BY Zenon DEF Carries
<1>1. PICK n \in 0 .. Len(y) : x = SubSeq(y, 1, n)
  BY <1>0, Zenon
<1> QED
  BY <1>1, VariantIs, FirstBytes, Zenon

\* A frame that is written, and none
LEMMA CarriesAll ==
  ASSUME NEW f \in Frames, NEW d
  PROVE  /\ << >> \o Serialize(f) = Serialize(f) /\ Serialize(f) \in Seq(Byte)
         /\ Carries(d, Serialize(f), f) /\ Carries(d, << >>, f)
<1> DEFINE s == Serialize(f)
<1>2. s \in Seq(Byte)
  BY SerializeType, Zenon
<1>1. s \in Variants(d, f)
  BY <1>2, Zenon DEF Variants
<1> HIDE DEF s
<1>3. << >> \o s = s
  BY <1>2
<1>4. Len(s) \in 0 .. Len(s) /\ 0 \in 0 .. Len(s) /\ SubSeq(s, 1, 0) = << >>
  BY <1>2
<1>5. s = SubSeq(s, 1, Len(s))
  BY <1>2
<1>6. Carries(d, s, f) /\ Carries(d, << >>, f)
  BY <1>1, <1>4, <1>5, Zenon DEF Carries
<1> QED
  BY <1>2, <1>3, <1>6 DEF s

\* The last bytes of a write do not leave.
LEMMA CarriesCut ==
  ASSUME NEW f \in Frames, NEW d, NEW x, Carries(d, x, f), NEW m \in 0 .. Len(x)
  PROVE  Carries(d, SubSeq(x, 1, m), f)
<1>0. PICK y \in Variants(d, f) : \E n \in 0 .. Len(y) : x = SubSeq(y, 1, n)
  BY Zenon DEF Carries
<1>1. PICK n \in 0 .. Len(y) : x = SubSeq(y, 1, n)
  BY <1>0, Zenon
<1>2. y \in Seq(Byte)
  BY VariantIs, Zenon
<1>3. Len(x) = n
  BY <1>1, <1>2, FirstBytes, Zenon
<1>4. m \in 0 .. n /\ m \in 0 .. Len(y)
  BY <1>1, <1>2, <1>3
<1>5. SubSeq(x, 1, m) = SubSeq(y, 1, m)
  BY <1>1, <1>2, <1>4, FirstOfFirst, Zenon
<1> QED
  BY <1>4, <1>5, Zenon DEF Carries

\* The link does its damage.
LEMMA CarriesHit ==
  ASSUME NEW f \in Frames, NEW x, Carries("none", x, f),
         NEW i \in 1 .. Len(x) - 1, NEW b \in Burst,
         ~LengthHit(x, i, b), ~Straddles(x, i, b)
  PROVE  Carries("covered", Hit(x, i, b), f)
<1> DEFINE y == Serialize(f)
           z == Hit(y, i, b)
           h == Hit(x, i, b)
<1>1. \A v \in Variants("none", f) : v = y
  BY DEF Variants
<1>2. PICK n \in 0 .. Len(y) : x = SubSeq(y, 1, n)
  BY <1>1, Zenon DEF Carries
<1>3. y \in Seq(Byte)
  BY SerializeType, Zenon
<1>4. x \in Seq(Byte) /\ Len(x) = n /\ \A k \in 1 .. n : x[k] = y[k]
  BY <1>2, <1>3, FirstBytes, Zenon
<1>5. n \in Nat /\ n <= Len(y) /\ i \in 1 .. Len(y) - 1 /\ \A k \in 1 .. n : k \in 1 .. Len(y)
  BY <1>2, <1>3, <1>4
<1>6. b \in Byte \X Byte
  BY BurstAssumption
<1>7. /\ h \in Seq(Byte) /\ Len(h) = Len(x) /\ h[i] = b[1] /\ h[i + 1] = b[2]
      /\ \A j \in 1 .. Len(x) : j # i /\ j # i + 1 => h[j] = x[j]
  <2>1. i \in 1 .. Len(x) - 1
    OBVIOUS
  <2>2. x \in Seq(Byte)
    BY <1>4
  <2> QED
    BY <1>6, <2>1, <2>2, HitIs, Zenon
<1> HIDE DEF y
<1>9. /\ z \in Seq(Byte) /\ Len(z) = Len(y) /\ z[i] = b[1] /\ z[i + 1] = b[2]
      /\ \A j \in 1 .. Len(y) : j # i /\ j # i + 1 => z[j] = y[j]
  BY <1>3, <1>5, <1>6, HitIs, Zenon
<1>14. ~LengthHit(y, i, b)
  <2>1. ASSUME NEW j \in {i, i + 1} \cap 7 .. 10  PROVE z[j] = y[j]
    <3>1. j \in 1 .. n
      BY <1>4, <1>5
    <3>2. h[j] = x[j] /\ x[j] = y[j]
      BY <1>4, <3>1, Zenon DEF LengthHit
    <3>3. h[j] = z[j]
      BY <1>7, <1>9, Zenon
    <3> QED
      BY <3>2, <3>3, Zenon
  <2> QED
    BY <2>1, Zenon DEF LengthHit
<1>15. ~Straddles(y, i, b)
  <2>1. i = 12 => 12 \in 1 .. n /\ 13 \in 1 .. n
    BY <1>4, <1>5
  <2>2. i = 12 => x[12] = y[12] /\ x[13] = y[13]
    BY <1>4, <2>1, Zenon
  <2> QED
    BY <2>2, Zenon DEF Straddles
<1>8. z \in Variants("covered", f)
  BY <1>5, <1>9, <1>14, <1>15, Zenon DEF Variants, y
<1> DEFINE q == SubSeq(z, 1, n)
<1> HIDE DEF z, h
<1>10. n \in 0 .. Len(z)
  BY <1>2, <1>9, Zenon
<1>11. q \in Seq(Byte) /\ Len(q) = n /\ \A k \in 1 .. n : q[k] = z[k]
  BY <1>9, <1>10, FirstBytes, Zenon
<1> HIDE DEF q
<1>12. Len(h) = Len(q) /\ \A k \in 1 .. Len(q) : h[k] = q[k]
  BY <1>4, <1>5, <1>7, <1>9, <1>11, ZenonT(60)
<1>13. h = q
  BY <1>7, <1>11, <1>12, SameSeq, Zenon
<1> QED
  BY <1>8, <1>10, <1>13, Zenon DEF Carries, q, h

\* Damage done later does not take back what may be on its way.
LEMMA CarriesLater ==
  ASSUME NEW f, NEW d, NEW x, Carries("none", x, f)
  PROVE  Carries(d, x, f)
<1>1. Variants("none", f) \subseteq Variants(d, f)
  BY Zenon DEF Variants
<1> QED
  BY <1>1, Zenon DEF Carries

\* The frames that the two ends write
LEMMA FramesAre ==
  /\ \A t \in Token : AuthFrame(t) \in Frames /\ AuthFrame(t).payload = t
  /\ \A r \in Reading : DataFrame(r) \in Frames /\ DataFrame(r).payload = r
  /\ Empty(ACK) \in Frames /\ Empty(ERROR) \in Frames
<1>1. \A t \in Token : AuthFrame(t) \in Frames /\ AuthFrame(t).payload = t
  BY DEF AuthFrame, Frames
<1>2. \A r \in Reading : DataFrame(r) \in Frames /\ DataFrame(r).payload = r
  BY DEF DataFrame, Frames
<1>3. Empty(ACK) \in Frames /\ Empty(ERROR) \in Frames
  BY DEF Frames
<1> QED
  BY <1>1, <1>2, <1>3, Zenon

\* What changes when one end goes on, leaves, or its stream changes
LEMMA MoveIs ==
  ASSUME place \in [End -> Place], NEW l \in Place
  PROVE  /\ MoveTo("client", l) => /\ place' \in [End -> Place] /\ place'["client"] = l
                                   /\ place'["server"] = place["server"]
         /\ MoveTo("server", l) => /\ place' \in [End -> Place] /\ place'["server"] = l
                                   /\ place'["client"] = place["client"]
  BY DEF MoveTo, End

LEMMA LeaveIs ==
  ASSUME place \in [End -> Place]
  PROVE  /\ Leave("client") => /\ place' \in [End -> Place] /\ place'["client"] = "failed"
                               /\ place'["server"] = place["server"]
         /\ Leave("server") => /\ place' \in [End -> Place] /\ place'["server"] = "ended"
                               /\ place'["client"] = place["client"]
<1>1. "failed" \in Place /\ "ended" \in Place
  BY DEF Place, ClientPlace
<1>2. /\ Leave("client") => MoveTo("client", "failed")
      /\ Leave("server") => MoveTo("server", "ended")
  BY DEF Leave
<1> QED
  BY <1>1, <1>2, MoveIs, Zenon

LEMMA StreamIs ==
  ASSUME stream \in [End -> Seq(Byte)], NEW x \in Seq(Byte)
  PROVE  /\ stream' = [stream EXCEPT !["client"] = x] =>
              /\ stream' \in [End -> Seq(Byte)] /\ stream'["client"] = x
              /\ stream'["server"] = stream["server"]
         /\ stream' = [stream EXCEPT !["server"] = x] =>
              /\ stream' \in [End -> Seq(Byte)] /\ stream'["server"] = x
              /\ stream'["client"] = stream["client"]
  BY DEF End

\* An end writes a frame, or throws because the other one is gone.
LEMMA ClientWrites ==
  ASSUME place \in [End -> Place], stream \in [End -> Seq(Byte)],
         NEW f \in Frames, NEW l \in Place, WriteFrame("client", f, l)
  PROVE  /\ place' \in [End -> Place] /\ stream' \in [End -> Seq(Byte)]
         /\ place'["server"] = place["server"] /\ stream'["client"] = stream["client"]
         /\ \/ place'["client"] = l /\ stream'["server"] = stream["server"] \o Serialize(f)
            \/ place'["client"] = "failed" /\ stream' = stream
<1> DEFINE x == stream["server"] \o Serialize(f)
<1>1. Serialize(f) \in Seq(Byte)
  BY CarriesAll, Zenon
<1>2. x \in Seq(Byte)
  BY <1>1 DEF End
<1>3. CASE MoveTo("client", l) /\ stream' = [stream EXCEPT !["server"] = x]
  <2> HIDE DEF x
  <2> QED
    BY <1>2, <1>3, MoveIs, StreamIs, Zenon DEF x
<1>4. CASE Leave("client") /\ UNCHANGED stream
  BY <1>4, LeaveIs, Zenon
<1>5. Peer("client") = "server"
  BY DEF Peer
<1> QED
  BY <1>3, <1>4, <1>5, Zenon DEF WriteFrame

LEMMA ServerWrites ==
  ASSUME place \in [End -> Place], stream \in [End -> Seq(Byte)],
         NEW f \in Frames, NEW l \in Place, WriteFrame("server", f, l)
  PROVE  /\ place' \in [End -> Place] /\ stream' \in [End -> Seq(Byte)]
         /\ place'["client"] = place["client"] /\ stream'["server"] = stream["server"]
         /\ \/ place'["server"] = l /\ stream'["client"] = stream["client"] \o Serialize(f)
            \/ place'["server"] = "ended" /\ stream' = stream
<1> DEFINE x == stream["client"] \o Serialize(f)
<1>1. Serialize(f) \in Seq(Byte)
  BY CarriesAll, Zenon
<1>2. x \in Seq(Byte)
  BY <1>1 DEF End
<1>3. CASE MoveTo("server", l) /\ stream' = [stream EXCEPT !["client"] = x]
  <2> HIDE DEF x
  <2> QED
    BY <1>2, <1>3, MoveIs, StreamIs, Zenon DEF x
<1>4. CASE Leave("server") /\ UNCHANGED stream
  BY <1>4, LeaveIs, Zenon
<1>5. Peer("server") = "client"
  BY DEF Peer
<1> QED
  BY <1>3, <1>4, <1>5, Zenon DEF WriteFrame

\* A frame is read from a stream that carries one frame.
LEMMA ReadIs ==
  ASSUME NEW f \in Frames, NEW d, NEW e, Carries(d, stream[e], f), Passes(stream[e])
  PROVE  Received(e).payload = f.payload /\ Behind(stream[e]) = << >>
<1> DEFINE x == stream[e]
<1>1. Received(e) = Deserialize(FirstFrame(x))
  BY DEF Received, Buffer
<1> HIDE DEF x
<1>2. Carries(d, x, f) /\ Passes(x)
  BY DEF x
<1>3. Deserialize(FirstFrame(x)).payload = f.payload /\ Behind(x) = << >>
  BY <1>2, CarriesPasses, Zenon
<1> QED
  BY <1>1, <1>3, Zenon DEF x

-------------------------------------------------------------------------------
(* Each step of the connection keeps the invariant *)

\* Whatever the session does, it may end: what the client finds then is in order.
LEMMA OverIs ==
  ASSUME InStep
  PROVE  Over
<1>1. \A t \in {ACK, ERROR} : Carries(damage, << >>, Empty(t))
  BY CarriesAll, FramesAre, Zenon
<1>2. CASE Before
  BY <1>1, <1>2 DEF Before, Over
<1>3. CASE Refusing
  BY <1>1, <1>3 DEF Refusing, Silent, Over
<1>4. CASE Answering
  BY <1>1, <1>4 DEF Answering, Silent, Over
<1>5. CASE Answered
  BY <1>1, <1>5, Zenon DEF Answered, Over
<1>6. CASE Written
  BY <1>1, <1>6 DEF Written, Over
<1>7. CASE Over
  BY <1>7
<1> QED
  BY <1>2, <1>3, <1>4, <1>5, <1>6, <1>7, Zenon DEF InStep

\* The session ends, and nothing the client sees changes.
LEMMA EndsOver ==
  ASSUME InStep, place'["server"] \in {"ended", "blocked"}, place'["client"] = place["client"],
         stream'["client"] = stream["client"],
         UNCHANGED <<readings, rows, damage>>, authLog' = authLog \/ rows = << >>
  PROVE  InStep'
<1>1. Over
  BY OverIs, Zenon
<1>2. Over'
  BY <1>1 DEF Over, OneOpen
<1> QED
  BY <1>2, Zenon DEF InStep

\* A connection begins: nothing is on its way and nothing is stored.
LEMMA SessionStarts ==
  ASSUME SessionInit
  PROVE  LinkInv
<1>1. /\ place["client"] = "connect" /\ place["server"] = "accept"
      /\ stream["client"] = << >> /\ stream["server"] = << >>
      /\ readings = << >> /\ rows = << >> /\ answered = 0 /\ authLog = "none" /\ token \in Token
  BY DEF SessionInit, End
<1>2. SessionTypes
  <2>1. place \in [End -> Place] /\ stream \in [End -> Seq(Byte)]
    BY DEF SessionInit, End, Place, ClientPlace
  <2> QED
    BY <1>1, <2>1 DEF SessionTypes, ClientPlace
<1>3. Counts
  BY <1>1 DEF Counts
<1>4. Carries(damage, << >>, AuthFrame(token))
  BY <1>1, CarriesAll, FramesAre, Zenon
<1>5. InStep
  BY <1>1, <1>4 DEF InStep, Before
<1>6. Genuine
  BY <1>1 DEF Genuine
<1> QED
  BY <1>2, <1>3, <1>5, <1>6, Zenon DEF LinkInv

\* The client connects, or cannot.
LEMMA KeepConnect ==
  ASSUME LinkInv, Connect
  PROVE  LinkInv'
<1> USE DEF LinkInv
<1>1. place["client"] = "connect" /\ UNCHANGED <<stream, token, readings, answered, authLog, rows, damage>>
  BY DEF Connect
<1>2. /\ place' \in [End -> Place] /\ place'["server"] = place["server"]
      /\ place'["client"] \in {"writeAuth", "refused"}
  <2>1. "writeAuth" \in Place /\ "refused" \in Place
    BY DEF Place, ClientPlace
  <2>2. place \in [End -> Place]
    BY DEF SessionTypes
  <2> QED
    BY <2>1, <2>2, MoveIs DEF Connect
<1>3. SessionTypes' /\ Genuine'
  BY <1>1, <1>2 DEF SessionTypes, ClientPlace, Genuine
<1>4. Counts'
  BY <1>1, <1>2, SMTT(30) DEF Counts
<1>5. InStep'
  <2>1. CASE place["server"] \in {"accept", "readAuth"} /\ Before
    BY <1>1, <1>2, <2>1, ZenonT(60) DEF InStep, Before
  <2>2. CASE place["server"] \in {"ended", "blocked"} /\ Over
    BY <1>1, <1>2, <2>2, Zenon DEF InStep, Over, OneOpen
  <2> QED
    BY <1>1, <2>1, <2>2, ZenonT(60) DEF InStep, Refusing, Answering, Answered, Written
<1> QED
  BY <1>3, <1>4, <1>5

\* It writes its token: what is on its way to the session is this frame.
LEMMA KeepWriteAuth ==
  ASSUME LinkInv, WriteAuth
  PROVE  LinkInv'
<1> DEFINE f == AuthFrame(token)
<1>0. SessionTypes /\ Counts /\ InStep /\ Genuine
  BY DEF LinkInv
<1>1. place["client"] = "writeAuth" /\ UNCHANGED <<token, readings, answered, authLog, rows, damage>>
  BY DEF WriteAuth
<1>2. f \in Frames /\ WriteFrame("client", f, "readAuthReply")
  BY <1>0, FramesAre DEF WriteAuth, AuthFrame, SessionTypes
<1> HIDE DEF f
<1>3. /\ place' \in [End -> Place] /\ stream' \in [End -> Seq(Byte)]
      /\ place'["server"] = place["server"] /\ stream'["client"] = stream["client"]
      /\ \/ place'["client"] = "readAuthReply" /\ stream'["server"] = stream["server"] \o Serialize(f)
         \/ place'["client"] = "failed" /\ stream' = stream
  <2>1. place \in [End -> Place] /\ stream \in [End -> Seq(Byte)] /\ "readAuthReply" \in Place
    BY <1>0 DEF SessionTypes, Place, ClientPlace
  <2> QED
    BY <1>2, <2>1, ClientWrites, Zenon
<1>4. SessionTypes' /\ Genuine'
  BY <1>0, <1>1, <1>3 DEF SessionTypes, ClientPlace, Genuine
<1>5. Counts'
  BY <1>0, <1>1, <1>3 DEF Counts
<1>6. /\ << >> \o Serialize(f) = Serialize(f) /\ Carries(damage, Serialize(f), f)
      /\ Carries(damage, << >>, Empty(ACK))
  BY <1>2, CarriesAll, FramesAre, ZenonT(60)
<1>7. InStep'
  <2>1. CASE place["server"] \in {"accept", "readAuth"} /\ Before
    <3>1. Carries(damage', stream'["server"], AuthFrame(token'))
      BY <1>1, <1>3, <1>6, <2>1, Zenon DEF Before, f
    <3> QED
      BY <1>1, <1>3, <2>1, <3>1 DEF InStep, Before
  <2>2. CASE place["server"] \in {"ended", "blocked"} /\ Over
    BY <1>1, <1>3, <1>6, <2>2 DEF InStep, Over, OneOpen
  <2> QED
    BY <1>0, <1>1, <2>1, <2>2, ZenonT(60) DEF InStep, Refusing, Answering, Answered, Written
<1> QED
  BY <1>4, <1>5, <1>7 DEF LinkInv

\* The end e has read a frame: its stream is empty, and the other one as it was.
LEMMA ClientReads ==
  ASSUME SessionTypes, NEW l, FrameRead("client", l), Behind(stream["client"]) = << >>
  PROVE  /\ place["client"] = l /\ stream["client"] # << >>
         /\ stream' \in [End -> Seq(Byte)] /\ stream'["client"] = << >>
         /\ stream'["server"] = stream["server"]
<1>1. place["client"] = l /\ Passes(stream["client"]) /\ stream' = [stream EXCEPT !["client"] = << >>]
  BY DEF FrameRead
<1>2. << >> \in Seq(Byte) /\ stream \in [End -> Seq(Byte)]
  BY DEF SessionTypes
<1>3. stream["client"] # << >>
  BY <1>1, NothingPasses, Zenon
<1> QED
  BY <1>1, <1>2, <1>3, StreamIs, Zenon

LEMMA ServerReads ==
  ASSUME SessionTypes, NEW l, FrameRead("server", l), Behind(stream["server"]) = << >>
  PROVE  /\ place["server"] = l /\ stream["server"] # << >>
         /\ stream' \in [End -> Seq(Byte)] /\ stream'["server"] = << >>
         /\ stream'["client"] = stream["client"]
<1>1. place["server"] = l /\ Passes(stream["server"]) /\ stream' = [stream EXCEPT !["server"] = << >>]
  BY DEF FrameRead
<1>2. << >> \in Seq(Byte) /\ stream \in [End -> Seq(Byte)]
  BY DEF SessionTypes
<1>3. stream["server"] # << >>
  BY <1>1, NothingPasses, Zenon
<1> QED
  BY <1>1, <1>2, <1>3, StreamIs, Zenon

\* Where the client is after a frame
LEMMA NextFrameIs ==
  ASSUME place \in [End -> Place], NEW n, NextFrame(n)
  PROVE  /\ place' \in [End -> Place] /\ place'["server"] = place["server"]
         /\ place'["client"] \in {"writeFrame", "done"}
<1>1. "writeFrame" \in Place /\ "done" \in Place
  BY DEF Place, ClientPlace
<1>2. MoveTo("client", "writeFrame") \/ MoveTo("client", "done")
  BY DEF NextFrame
<1> QED
  BY <1>1, <1>2, MoveIs

\* It reads the answer, after which both streams are empty.
LEMMA KeepReadAuthReply ==
  ASSUME LinkInv, ReadAuthReply
  PROVE  LinkInv'
<1>0. SessionTypes /\ Counts /\ InStep /\ Genuine
  BY DEF LinkInv
<1>1. /\ FrameRead("client", "readAuthReply") /\ place["client"] = "readAuthReply"
      /\ Passes(stream["client"]) /\ stream["client"] # << >>
      /\ UNCHANGED <<token, readings, answered, authLog, rows, damage>>
  BY NothingPasses, Zenon DEF ReadAuthReply, FrameRead
<1>2. \/ place["server"] = "readFrame" /\ Answered
      \/ place["server"] \in {"ended", "blocked"} /\ Over
  BY <1>0, <1>1, ZenonT(60) DEF InStep, Before, Refusing, Answering, Silent, Written
<1>3. \E t \in {ACK, ERROR} : Carries(damage, stream["client"], Empty(t))
  BY <1>1, <1>2 DEF Answered, Over
<1>4. Behind(stream["client"]) = << >>
  BY <1>1, <1>3, ReadIs, FramesAre, Zenon
<1>5. /\ stream' \in [End -> Seq(Byte)] /\ stream'["client"] = << >>
      /\ stream'["server"] = stream["server"]
  BY <1>0, <1>1, <1>4, ClientReads, Zenon
<1>6. /\ place' \in [End -> Place] /\ place'["server"] = place["server"]
      /\ place'["client"] \in {"writeFrame", "done", "failed"}
  <2>1. place \in [End -> Place]
    BY <1>0 DEF SessionTypes
  <2>2. NextFrame(0) \/ Leave("client")
    BY DEF ReadAuthReply
  <2> QED
    BY <2>1, <2>2, NextFrameIs, LeaveIs, Zenon
<1>7. SessionTypes' /\ Genuine'
  BY <1>0, <1>1, <1>5, <1>6, ZenonT(60) DEF SessionTypes, ClientPlace, Genuine
<1>8. readings = << >> /\ answered = 0 /\ 0 <= Len(rows)
  BY <1>0, <1>1 DEF Counts
<1>9. Counts'
  BY <1>1, <1>6, <1>8 DEF Counts
<1>10. InStep'
  <2>1. CASE place["server"] = "readFrame" /\ Answered
    BY <1>1, <1>5, <1>6, <2>1, Zenon DEF InStep, Answered
  <2>2. CASE place["server"] \in {"ended", "blocked"} /\ Over
    <3>1. rows = readings
      BY <1>0, <1>8, <2>2 DEF Over, OneOpen, SessionTypes
    <3> QED
      BY <1>1, <1>5, <1>6, <2>2, <3>1, Zenon DEF InStep, Over
  <2> QED
    BY <1>2, <2>1, <2>2, Zenon
<1> QED
  BY <1>7, <1>9, <1>10 DEF LinkInv

\* It writes a reading, the only one that is not stored.
LEMMA KeepWriteTelemetry ==
  ASSUME LinkInv, WriteTelemetry
  PROVE  LinkInv'
<1>0. SessionTypes /\ Counts /\ InStep /\ Genuine
  BY DEF LinkInv
<1>1. place["client"] = "writeFrame" /\ UNCHANGED <<token, answered, authLog, rows, damage>>
  BY DEF WriteTelemetry
<1>2. PICK r \in Reading :
        /\ WriteFrame("client", [type |-> TELEMETRY, payload |-> r], "readReply")
        /\ readings' = IF place'["client"] = "readReply" THEN Append(readings, r) ELSE readings
  BY DEF WriteTelemetry
<1> DEFINE f == DataFrame(r)
<1>3. f \in Frames /\ WriteFrame("client", f, "readReply")
  BY <1>2, FramesAre DEF DataFrame
<1> HIDE DEF f
<1>4. /\ place' \in [End -> Place] /\ stream' \in [End -> Seq(Byte)]
      /\ place'["server"] = place["server"] /\ stream'["client"] = stream["client"]
      /\ \/ place'["client"] = "readReply" /\ stream'["server"] = stream["server"] \o Serialize(f)
         \/ place'["client"] = "failed" /\ stream' = stream
  <2>1. place \in [End -> Place] /\ stream \in [End -> Seq(Byte)] /\ "readReply" \in Place
    BY <1>0, Zenon DEF SessionTypes, Place, ClientPlace
  <2> QED
    BY <1>3, <2>1, ClientWrites, Zenon
<1>5. \/ place["server"] = "readFrame" /\ Answered
      \/ place["server"] \in {"ended", "blocked"} /\ Over
  BY <1>0, <1>1, Zenon DEF InStep, Before, Refusing, Answering, Written
<1>6. rows = readings /\ stream["client"] = << >> /\ (Answered => stream["server"] = << >>)
  BY <1>1, <1>5, Zenon DEF Answered, Over
<1>7. readings \in Seq(Reading) /\ answered = Len(readings) /\ answered \in Nat
  BY <1>0, <1>1 DEF Counts, SessionTypes
<1>8. CASE place'["client"] = "failed" /\ stream' = stream
  <2>1. readings' = readings
    BY <1>2, <1>8, Zenon
  <2>2. SessionTypes' /\ Genuine'
    BY <1>0, <1>1, <1>4, <1>8, <2>1, Zenon DEF SessionTypes, ClientPlace, Genuine
  <2>3. Counts'
    BY <1>0, <1>1, <1>7, <1>8, <2>1, Zenon DEF Counts
  <2>4. InStep'
    BY <1>1, <1>4, <1>5, <1>8, <2>1, Zenon DEF InStep, Answered, Over, OneOpen
  <2> QED
    BY <2>2, <2>3, <2>4, Zenon DEF LinkInv
<1>9. CASE place'["client"] = "readReply" /\ stream'["server"] = stream["server"] \o Serialize(f)
  <2>1. readings' = Append(readings, r)
    BY <1>2, <1>9
  <2>2. /\ readings' \in Seq(Reading) /\ Len(readings') = Len(readings) + 1
        /\ readings'[Len(readings')] = r /\ SubSeq(readings', 1, Len(readings)) = readings
    BY <1>7, <2>1
  <2>3. SessionTypes' /\ Genuine'
    BY <1>0, <1>1, <1>4, <1>9, <2>2, Zenon DEF SessionTypes, ClientPlace, Genuine
  <2>4. Counts'
    BY <1>0, <1>1, <1>7, <1>9, <2>2, Zenon DEF Counts
  <2>5. OneOpen'
    BY <1>1, <1>6, <2>2, Zenon DEF OneOpen
  <2>6. << >> \o Serialize(f) = Serialize(f) /\ Carries(damage, Serialize(f), f)
    BY <1>3, CarriesAll, Zenon
  <2>7. InStep'
    <3>1. CASE place["server"] = "readFrame" /\ Answered
      <4>1. Carries(damage', stream'["server"], DataFrame(readings'[Len(readings')]))
        BY <1>1, <1>6, <1>9, <2>2, <2>6, <3>1, Zenon DEF f
      <4>2. authLog' = "AUTH_OK" /\ stream'["client"] = << >>
        BY <1>1, <1>4, <1>6, <3>1, Zenon DEF Answered
      <4> QED
        BY <1>4, <1>9, <2>5, <3>1, <4>1, <4>2, Zenon DEF InStep, Written
    <3>2. CASE place["server"] \in {"ended", "blocked"} /\ Over
      BY <1>1, <1>4, <1>6, <1>9, <2>5, <3>2, Zenon DEF InStep, Over
    <3> QED
      BY <1>5, <3>1, <3>2, Zenon
  <2> QED
    BY <2>3, <2>4, <2>7 DEF LinkInv
<1> QED
  BY <1>4, <1>8, <1>9

\* It reads the answer to a reading, which is stored by then.
LEMMA KeepReadReply ==
  ASSUME LinkInv, ReadReply
  PROVE  LinkInv'
<1>0. SessionTypes /\ Counts /\ InStep /\ Genuine
  BY DEF LinkInv
<1>1. /\ FrameRead("client", "readReply") /\ place["client"] = "readReply"
      /\ Passes(stream["client"]) /\ stream["client"] # << >> /\ answered' = answered + 1
      /\ UNCHANGED <<token, readings, authLog, rows, damage>>
  BY NothingPasses, Zenon DEF ReadReply, FrameRead
<1>2. \/ place["server"] = "readFrame" /\ Answered
      \/ place["server"] \in {"ended", "blocked"} /\ Over
  BY <1>0, <1>1, Zenon DEF InStep, Before, Refusing, Answering, Silent, Written
<1>3. rows = readings /\ Carries(damage, stream["client"], Empty(ACK))
  BY <1>1, <1>2 DEF Answered, Over
<1>4. Behind(stream["client"]) = << >>
  BY <1>1, <1>3, ReadIs, FramesAre, Zenon
<1>5. /\ stream' \in [End -> Seq(Byte)] /\ stream'["client"] = << >>
      /\ stream'["server"] = stream["server"]
  BY <1>0, <1>1, <1>4, ClientReads, Zenon
<1>6. /\ place' \in [End -> Place] /\ place'["server"] = place["server"]
      /\ place'["client"] \in {"writeFrame", "done"}
  <2>1. place \in [End -> Place]
    BY <1>0 DEF SessionTypes
  <2>2. NextFrame(answered')
    BY DEF ReadReply
  <2> QED
    BY <2>1, <2>2, NextFrameIs
<1>7. answered \in Nat /\ Len(readings) = answered + 1
  BY <1>0, <1>1, Zenon DEF Counts, SessionTypes
<1>8. SessionTypes' /\ Genuine'
  BY <1>0, <1>1, <1>5, <1>6, <1>7, SMTT(30) DEF SessionTypes, ClientPlace, Genuine
<1>9. Counts'
  BY <1>1, <1>3, <1>6, <1>7 DEF Counts
<1>10. InStep'
  <2>1. CASE place["server"] = "readFrame" /\ Answered
    BY <1>1, <1>5, <1>6, <2>1, ZenonT(60) DEF InStep, Answered
  <2>2. CASE place["server"] \in {"ended", "blocked"} /\ Over
    BY <1>1, <1>3, <1>5, <1>6, <2>2, Zenon DEF InStep, Over
  <2> QED
    BY <1>2, <2>1, <2>2, SMTT(30)
<1> QED
  BY <1>8, <1>9, <1>10 DEF LinkInv

\* It is killed, and the last bytes of its frame may not have left.
LEMMA KeepClientDies ==
  ASSUME LinkInv, ClientDies
  PROVE  LinkInv'
<1>0. SessionTypes /\ Counts /\ InStep /\ Genuine
  BY DEF LinkInv
<1>1. Leave("client") /\ UNCHANGED <<token, readings, answered, authLog, rows, damage>>
  BY DEF ClientDies
<1> DEFINE s == stream["server"]
<1>2. PICK n \in 0 .. Len(s) : stream' = [stream EXCEPT !["server"] = SubSeq(s, 1, n)]
  BY Zenon DEF ClientDies
<1>3. s \in Seq(Byte) /\ place \in [End -> Place] /\ stream \in [End -> Seq(Byte)]
  BY <1>0 DEF SessionTypes, End
<1> HIDE DEF s
<1> DEFINE x == SubSeq(s, 1, n)
<1>4. x \in Seq(Byte) /\ Len(x) = n /\ (s = << >> => x = << >>)
  BY <1>2, <1>3
<1>5. /\ stream' \in [End -> Seq(Byte)] /\ stream'["server"] = x
      /\ stream'["client"] = stream["client"]
  BY <1>2, <1>3, <1>4, StreamIs, Zenon
<1>6. /\ place' \in [End -> Place] /\ place'["client"] = "failed"
      /\ place'["server"] = place["server"]
  BY <1>1, <1>3, LeaveIs, Zenon
<1>7. \A f \in Frames : Carries(damage, s, f) => Carries(damage, x, f)
  BY <1>2, CarriesCut, Zenon
<1> HIDE DEF x
<1>8. SessionTypes' /\ Genuine'
  BY <1>0, <1>1, <1>5, <1>6, Zenon DEF SessionTypes, ClientPlace, Genuine
<1>9. Counts'
  BY <1>0, <1>1, <1>6 DEF Counts, SessionTypes, ClientPlace
<1>10. InStep'
  <2>1. CASE place["server"] \in {"accept", "readAuth"} /\ Before
    <3>1. Carries(damage', stream'["server"], AuthFrame(token'))
      <4>1. Carries(damage, s, AuthFrame(token)) /\ token \in Token
        BY <1>0, <2>1 DEF Before, s, SessionTypes
      <4>2. Carries(damage, x, AuthFrame(token))
        BY <1>7, <4>1, FramesAre, Zenon
      <4> QED
        BY <1>1, <1>5, <4>2, Zenon
    <3> QED
      BY <1>1, <1>5, <1>6, <2>1, <3>1, Zenon DEF InStep, Before
  <2>2. CASE place["server"] = "writeError" /\ Refusing
    BY <1>1, <1>4, <1>5, <1>6, <2>2, Zenon DEF InStep, Refusing, Silent, s
  <2>3. CASE place["server"] = "writeAck" /\ Answering
    BY <1>1, <1>4, <1>5, <1>6, <2>3, Zenon DEF InStep, Answering, Silent, s
  <2>4. CASE place["server"] = "readFrame" /\ Answered
    BY <1>1, <1>4, <1>5, <1>6, <2>4, Zenon DEF InStep, Answered, s
  <2>5. CASE place["server"] = "readFrame" /\ Written
    <3> DEFINE r == readings[Len(readings)]
    <3>1. r \in Reading
      BY <1>0, <2>5 DEF SessionTypes, Written, OneOpen
    <3>2. Carries(damage, s, DataFrame(r))
      BY <2>5 DEF Written, s
    <3>3. r' = r
      BY <1>1
    <3> HIDE DEF r
    <3>4. Carries(damage, x, DataFrame(r))
      BY <1>7, <3>1, <3>2, FramesAre, Zenon
    <3>5. Carries(damage', stream'["server"], DataFrame(r'))
      BY <1>1, <1>5, <3>3, <3>4, Zenon
    <3> QED
      BY <1>1, <1>5, <1>6, <2>5, <3>5, Zenon DEF InStep, Written, OneOpen, r
  <2>6. CASE place["server"] \in {"ended", "blocked"} /\ Over
    BY <1>1, <1>5, <1>6, <2>6, Zenon DEF InStep, Over, OneOpen
  <2> QED
    BY <1>0, <2>1, <2>2, <2>3, <2>4, <2>5, <2>6, ZenonT(60) DEF InStep
<1> QED
  BY <1>8, <1>9, <1>10 DEF LinkInv

\* Its read throws, and what was on its way to it is lost.
LEMMA KeepClientThrows ==
  ASSUME LinkInv, ReadThrows("client")
  PROVE  LinkInv'
<1>0. SessionTypes /\ Counts /\ InStep /\ Genuine
  BY DEF LinkInv
<1>1. /\ Leave("client") /\ stream' = [stream EXCEPT !["client"] = << >>]
      /\ UNCHANGED <<token, readings, answered, authLog, rows, damage>>
  BY DEF ReadThrows
<1>2. << >> \in Seq(Byte) /\ place \in [End -> Place] /\ stream \in [End -> Seq(Byte)]
  BY <1>0 DEF SessionTypes
<1>3. /\ stream' \in [End -> Seq(Byte)] /\ stream'["client"] = << >>
      /\ stream'["server"] = stream["server"]
  BY <1>1, <1>2, StreamIs, Zenon
<1>4. /\ place' \in [End -> Place] /\ place'["client"] = "failed"
      /\ place'["server"] = place["server"]
  BY <1>1, <1>2, LeaveIs, Zenon
<1>5. SessionTypes' /\ Genuine'
  BY <1>0, <1>1, <1>3, <1>4, Zenon DEF SessionTypes, ClientPlace, Genuine
<1>6. Counts'
  BY <1>0, <1>1, <1>4 DEF Counts, SessionTypes, ClientPlace
<1>7. InStep'
  <2>1. CASE place["server"] \in {"accept", "readAuth"} /\ Before
    BY <1>1, <1>3, <1>4, <2>1, Zenon DEF InStep, Before
  <2>2. CASE place["server"] = "writeError" /\ Refusing
    BY <1>1, <1>3, <1>4, <2>2, Zenon DEF InStep, Refusing, Silent
  <2>3. CASE place["server"] = "writeAck" /\ Answering
    BY <1>1, <1>3, <1>4, <2>3, Zenon DEF InStep, Answering, Silent
  <2>4. CASE place["server"] = "readFrame" /\ Answered
    BY <1>1, <1>3, <1>4, <2>4, Zenon DEF InStep, Answered
  <2>5. CASE place["server"] = "readFrame" /\ Written
    BY <1>1, <1>3, <1>4, <2>5, Zenon DEF InStep, Written, OneOpen
  <2>6. CASE place["server"] \in {"ended", "blocked"} /\ Over
    BY <1>1, <1>3, <1>4, <2>6, Zenon DEF InStep, Over, OneOpen
  <2> QED
    BY <1>0, <2>1, <2>2, <2>3, <2>4, <2>5, <2>6, Zenon DEF InStep
<1> QED
  BY <1>5, <1>6, <1>7 DEF LinkInv

\* The session ends without a row: stopped, or because a read throws; or it blocks.
LEMMA KeepServerEnds ==
  ASSUME LinkInv, Leave("server") \/ Blocks, stream' \in [End -> Seq(Byte)],
         stream'["client"] = stream["client"],
         UNCHANGED <<token, readings, answered, rows, damage>>,
         authLog' = authLog \/ (rows = << >> /\ authLog' # "AUTH_OK")
  PROVE  LinkInv'
<1>0. SessionTypes /\ Counts /\ InStep /\ Genuine
  BY Zenon DEF LinkInv
<1>1. /\ place' \in [End -> Place] /\ place'["server"] \in {"ended", "blocked"}
      /\ place'["client"] = place["client"]
  <2>1. place \in [End -> Place] /\ "blocked" \in Place
    BY <1>0 DEF SessionTypes, Place
  <2>2. CASE Leave("server")
    BY <2>1, <2>2, LeaveIs, Zenon
  <2>3. CASE Blocks
    <3>1. MoveTo("server", "blocked")
      BY <2>3 DEF Blocks
    <3> QED
      BY <2>1, <3>1, MoveIs, Zenon
  <2> QED
    BY <2>2, <2>3
<1>2. SessionTypes' /\ Genuine'
  BY <1>0, <1>1, Zenon DEF SessionTypes, Genuine
<1>3. Counts'
  BY <1>0, <1>1, Zenon DEF Counts
<1>4. InStep'
  BY <1>0, <1>1, EndsOver, Zenon
<1> QED
  BY <1>2, <1>3, <1>4 DEF LinkInv

\* The read of the session throws.
LEMMA KeepServerThrows ==
  ASSUME LinkInv, ReadThrows("server")
  PROVE  LinkInv'
<1>1. /\ Leave("server") /\ stream' = [stream EXCEPT !["server"] = << >>]
      /\ UNCHANGED <<token, readings, answered, authLog, rows, damage>>
  BY DEF ReadThrows
<1>2. << >> \in Seq(Byte) /\ stream \in [End -> Seq(Byte)]
  BY DEF LinkInv, SessionTypes
<1>3. stream' \in [End -> Seq(Byte)] /\ stream'["client"] = stream["client"]
  BY <1>1, <1>2, StreamIs, Zenon
<1> QED
  BY <1>1, <1>3, KeepServerEnds, Zenon

\* The server is stopped where it awaits.
LEMMA KeepServerStops ==
  ASSUME LinkInv, ServerStops
  PROVE  LinkInv'
<1>1. Leave("server") /\ UNCHANGED <<stream, token, readings, answered, authLog, rows, damage>>
  BY DEF ServerStops
<1>2. stream' \in [End -> Seq(Byte)] /\ stream'["client"] = stream["client"]
  BY <1>1 DEF LinkInv, SessionTypes
<1> QED
  BY <1>1, <1>2, KeepServerEnds, Zenon

\* The server accepts, or finds the client gone.
LEMMA KeepAcceptClient ==
  ASSUME LinkInv, AcceptClient
  PROVE  LinkInv'
<1>0. SessionTypes /\ Counts /\ InStep /\ Genuine
  BY DEF LinkInv
<1>1. /\ place["server"] = "accept"
      /\ UNCHANGED <<stream, token, readings, answered, authLog, rows, damage>>
  BY DEF AcceptClient
<1>2. stream' \in [End -> Seq(Byte)] /\ stream'["client"] = stream["client"]
      /\ place \in [End -> Place]
  BY <1>0, <1>1 DEF SessionTypes
<1>3. CASE Leave("server")
  BY <1>1, <1>2, <1>3, KeepServerEnds, Zenon
<1>4. CASE MoveTo("server", "readAuth")
  <2>1. "readAuth" \in Place
    BY DEF Place
  <2>2. place' \in [End -> Place] /\ place'["server"] = "readAuth" /\ place'["client"] = place["client"]
    BY <1>2, <1>4, <2>1, MoveIs, Zenon
  <2>3. SessionTypes' /\ Genuine'
    BY <1>0, <1>1, <2>2, Zenon DEF SessionTypes, Genuine
  <2>4. Counts'
    BY <1>0, <1>1, <2>2 DEF Counts
  <2>5. Before
    BY <1>0, <1>1, Zenon DEF InStep
  <2>6. InStep'
    BY <1>1, <2>2, <2>5, Zenon DEF InStep, Before
  <2> QED
    BY <2>3, <2>4, <2>6 DEF LinkInv
<1> QED
  BY <1>3, <1>4 DEF AcceptClient

\* It reads the token as it was sent, validates it and logs the result.
LEMMA KeepReadToken ==
  ASSUME LinkInv, ReadToken
  PROVE  LinkInv'
<1> DEFINE f == Received("server")
<1>0. SessionTypes /\ Counts /\ InStep /\ Genuine
  BY DEF LinkInv
<1>1. /\ FrameRead("server", "readAuth") /\ place["server"] = "readAuth"
      /\ Passes(stream["server"]) /\ UNCHANGED <<token, readings, answered, rows, damage>>
  BY DEF ReadToken, FrameRead
<1>2. Before /\ token \in Token /\ place \in [End -> Place]
  BY <1>0, <1>1 DEF InStep, SessionTypes
<1>3. f.payload = token /\ Behind(stream["server"]) = << >>
  <2>1. Carries(damage, stream["server"], AuthFrame(token))
    BY <1>2 DEF Before
  <2>2. AuthFrame(token) \in Frames /\ AuthFrame(token).payload = token
    BY <1>2, FramesAre, Zenon
  <2> QED
    BY <1>1, <2>1, <2>2, ReadIs, Zenon
<1>4. /\ stream' \in [End -> Seq(Byte)] /\ stream'["server"] = << >> /\ stream["server"] # << >>
      /\ stream'["client"] = stream["client"]
  BY <1>0, <1>1, <1>3, ServerReads, Zenon
<1>5. /\ readings = << >> /\ rows = << >> /\ stream'["client"] = << >>
      /\ place["client"] \in {"readAuthReply", "failed"}
  BY <1>2, <1>4 DEF Before
<1>6. \/ MoveTo("server", "writeError") /\ (authLog' = authLog \/ authLog' = "AUTH_FAIL_SIG")
      \/ MoveTo("server", "writeAck") /\ authLog' = "AUTH_OK" /\ f.payload \in GoodToken
      \/ (Leave("server") \/ Blocks) /\ authLog' = authLog
  BY Zenon DEF ReadToken, Valid
<1> HIDE DEF f
<1>7. CASE (Leave("server") \/ Blocks) /\ authLog' = authLog
  BY <1>1, <1>4, <1>7, KeepServerEnds, Zenon
<1>8. CASE MoveTo("server", "writeError") /\ (authLog' = authLog \/ authLog' = "AUTH_FAIL_SIG")
  <2>1. "writeError" \in Place
    BY DEF Place
  <2>2. place' \in [End -> Place] /\ place'["server"] = "writeError" /\ place'["client"] = place["client"]
    BY <1>2, <1>8, <2>1, MoveIs, Zenon
  <2>3. SessionTypes' /\ Genuine'
    BY <1>0, <1>1, <1>4, <1>8, <2>2, Zenon DEF SessionTypes, Genuine
  <2>4. Counts'
    BY <1>0, <1>1, <2>2, Zenon DEF Counts
  <2>5. InStep'
    BY <1>1, <1>4, <1>5, <2>2, Zenon DEF InStep, Refusing, Silent
  <2> QED
    BY <2>3, <2>4, <2>5 DEF LinkInv
<1>9. CASE MoveTo("server", "writeAck") /\ authLog' = "AUTH_OK" /\ f.payload \in GoodToken
  <2>1. "writeAck" \in Place
    BY DEF Place
  <2>2. place' \in [End -> Place] /\ place'["server"] = "writeAck" /\ place'["client"] = place["client"]
    BY <1>2, <1>9, <2>1, MoveIs, Zenon
  <2>3. SessionTypes' /\ Genuine'
    BY <1>0, <1>1, <1>3, <1>4, <1>9, <2>2, Zenon DEF SessionTypes, Genuine
  <2>4. Counts'
    BY <1>0, <1>1, <2>2, Zenon DEF Counts
  <2>5. InStep'
    BY <1>1, <1>4, <1>5, <1>9, <2>2, Zenon DEF InStep, Answering, Silent
  <2> QED
    BY <2>3, <2>4, <2>5 DEF LinkInv
<1> QED
  BY <1>6, <1>7, <1>8, <1>9

\* It refuses the client, and the session ends.
LEMMA KeepWriteError ==
  ASSUME LinkInv, WriteError
  PROVE  LinkInv'
<1> DEFINE s == Serialize(Empty(ERROR))
<1>0. SessionTypes /\ Counts /\ InStep /\ Genuine
  BY DEF LinkInv
<1>1. /\ place["server"] = "writeError" /\ Leave("server")
      /\ stream' = [stream EXCEPT !["client"] = stream["client"] \o s]
      /\ UNCHANGED <<token, readings, answered, authLog, rows, damage>>
  BY DEF WriteError
<1>2. Refusing /\ place \in [End -> Place] /\ stream \in [End -> Seq(Byte)]
  BY <1>0, <1>1 DEF InStep, SessionTypes
<1>3. << >> \o s = s /\ s \in Seq(Byte) /\ Carries(damage, s, Empty(ERROR))
  BY CarriesAll, FramesAre, Zenon
<1> HIDE DEF s
<1>4. stream' \in [End -> Seq(Byte)] /\ stream'["client"] = s
  <2>1. stream["client"] = << >>
    BY <1>2 DEF Refusing, Silent
  <2> QED
    BY <1>1, <1>2, <1>3, <2>1, StreamIs, Zenon
<1>5. place' \in [End -> Place] /\ place'["server"] = "ended" /\ place'["client"] = place["client"]
  BY <1>1, <1>2, LeaveIs, Zenon
<1>6. SessionTypes' /\ Genuine'
  BY <1>0, <1>1, <1>4, <1>5, Zenon DEF SessionTypes, Genuine
<1>7. Counts'
  BY <1>0, <1>1, <1>5, ZenonT(60) DEF Counts
<1>8. InStep'
  <2>1. \E t \in {ACK, ERROR} : Carries(damage', stream'["client"], Empty(t))
    BY <1>1, <1>3, <1>4, Zenon
  <2> QED
    BY <1>1, <1>2, <1>5, <2>1 DEF InStep, Refusing, Over
<1> QED
  BY <1>6, <1>7, <1>8 DEF LinkInv

\* It acknowledges the token or a reading; each row has its answer on its way.
LEMMA KeepWriteAck ==
  ASSUME LinkInv, WriteAck
  PROVE  LinkInv'
<1> DEFINE f == Empty(ACK)
<1>0. SessionTypes /\ Counts /\ InStep /\ Genuine
  BY DEF LinkInv
<1>1. /\ place["server"] = "writeAck" /\ WriteFrame("server", f, "readFrame")
      /\ UNCHANGED <<token, readings, answered, authLog, rows, damage>>
  BY DEF WriteAck
<1>2. Answering /\ place \in [End -> Place] /\ stream \in [End -> Seq(Byte)] /\ "readFrame" \in Place
  BY <1>0, <1>1 DEF InStep, SessionTypes, Place
<1>3. f \in Frames
  BY FramesAre
<1> HIDE DEF f
<1>4. << >> \o Serialize(f) = Serialize(f) /\ Carries(damage, Serialize(f), f)
  BY <1>3, CarriesAll, Zenon
<1>5. /\ place' \in [End -> Place] /\ stream' \in [End -> Seq(Byte)]
      /\ place'["client"] = place["client"] /\ stream'["server"] = stream["server"]
      /\ \/ place'["server"] = "readFrame" /\ stream'["client"] = stream["client"] \o Serialize(f)
         \/ place'["server"] = "ended" /\ stream' = stream
  BY <1>1, <1>2, <1>3, ServerWrites, Zenon
<1>6. SessionTypes' /\ Genuine'
  BY <1>0, <1>1, <1>5, Zenon DEF SessionTypes, Genuine
<1>7. Counts'
  BY <1>0, <1>1, <1>5, Zenon DEF Counts
<1>8. CASE place'["server"] = "readFrame" /\ stream'["client"] = stream["client"] \o Serialize(f)
  <2>1. stream["client"] = << >>
    BY <1>2 DEF Answering, Silent
  <2>2. Carries(damage', stream'["client"], Empty(ACK))
    BY <1>1, <1>4, <1>8, <2>1, Zenon DEF f
  <2>3. InStep'
    BY <1>1, <1>2, <1>5, <1>8, <2>2, Zenon DEF InStep, Answering, Silent, Answered
  <2> QED
    BY <1>6, <1>7, <2>3, Zenon DEF LinkInv
<1>9. CASE place'["server"] = "ended" /\ stream' = stream
  <2>1. InStep'
    BY <1>0, <1>1, <1>5, <1>9, EndsOver, Zenon
  <2> QED
    BY <1>6, <1>7, <2>1, Zenon DEF LinkInv
<1> QED
  BY <1>5, <1>8, <1>9

\* A row is added: the reading that was open.
LEMMA KeepReadTelemetry ==
  ASSUME LinkInv, ReadTelemetry
  PROVE  LinkInv'
<1> DEFINE f == Received("server")
           r == readings[Len(readings)]
<1>0. SessionTypes /\ Counts /\ InStep /\ Genuine
  BY Zenon DEF LinkInv
<1>1. /\ FrameRead("server", "readFrame") /\ place["server"] = "readFrame"
      /\ Passes(stream["server"]) /\ stream["server"] # << >>
      /\ UNCHANGED <<token, readings, answered, authLog, damage>>
  BY NothingPasses, Zenon DEF ReadTelemetry, FrameRead
<1>2. Written
  BY <1>0, <1>1, Zenon DEF InStep, Answered
<1>3. /\ place \in [End -> Place] /\ rows \in Seq(Reading) /\ readings \in Seq(Reading)
      /\ OneOpen /\ Carries(damage, stream["server"], DataFrame(r))
  BY <1>0, <1>2 DEF SessionTypes, Written
<1>4. r \in Reading /\ readings = Append(rows, r)
  BY <1>3 DEF OneOpen
<1>5. r \in Seq(Byte) /\ Len(r) = MinSize
  BY <1>4, ReadingAssumption DEF Payload
<1> HIDE DEF r
<1>6. f.payload = r /\ Behind(stream["server"]) = << >>
  <2>1. DataFrame(r) \in Frames /\ DataFrame(r).payload = r
    BY <1>4, FramesAre, Zenon
  <2> QED
    BY <1>1, <1>3, <2>1, ReadIs, Zenon
<1>7. /\ stream' \in [End -> Seq(Byte)] /\ stream'["server"] = << >>
      /\ stream'["client"] = stream["client"]
  BY <1>0, <1>1, <1>6, ServerReads, Zenon
<1>8. \/ (Leave("server") \/ Blocks) /\ rows' = rows
      \/ /\ MoveTo("server", "writeAck")
         /\ rows' = IF Len(f.payload) >= MinSize
                      THEN Append(rows, SubSeq(f.payload, 1, MinSize)) ELSE rows
  BY Zenon DEF ReadTelemetry
<1> HIDE DEF f
<1>9. CASE (Leave("server") \/ Blocks) /\ rows' = rows
  BY <1>1, <1>7, <1>9, KeepServerEnds, Zenon
<1>10. CASE /\ MoveTo("server", "writeAck")
            /\ rows' = IF Len(f.payload) >= MinSize
                         THEN Append(rows, SubSeq(f.payload, 1, MinSize)) ELSE rows
  <2>1. "writeAck" \in Place
    BY DEF Place
  <2>2. place' \in [End -> Place] /\ place'["server"] = "writeAck" /\ place'["client"] = place["client"]
    BY <1>3, <1>10, <2>1, MoveIs, Zenon
  <2>3. Len(r) >= MinSize /\ SubSeq(r, 1, MinSize) = r
    BY <1>5
  <2>4. rows' = readings
    BY <1>4, <1>6, <1>10, <2>3, Zenon
  <2>5. SessionTypes' /\ Genuine'
    BY <1>0, <1>1, <1>7, <2>2, <2>4, Zenon DEF SessionTypes, Genuine
  <2>6. answered <= Len(readings)
    BY <1>0, <1>3 DEF Counts, OneOpen, SessionTypes
  <2>7. Counts'
    BY <1>0, <1>1, <2>2, <2>4, <2>6, Zenon DEF Counts
  <2>8. InStep'
    BY <1>1, <1>2, <1>7, <2>2, <2>4, Zenon DEF InStep, Written, Answering, Silent
  <2> QED
    BY <2>5, <2>7, <2>8 DEF LinkInv
<1> QED
  BY <1>8, <1>9, <1>10, Zenon

\* The link damages what is on its way to the server, or to the client.
LEMMA KeepDamageToServer ==
  ASSUME LinkInv, NEW i \in 1 .. Len(stream["server"]) - 1, NEW b \in Burst, Damage("server", i, b),
         damage' = "covered"
  PROVE  LinkInv'
<1> DEFINE s == stream["server"]
           x == Hit(s, i, b)
<1>0. SessionTypes /\ Counts /\ InStep /\ Genuine
  BY DEF LinkInv
<1>1. /\ damage = "none" /\ damage' = "covered" /\ stream' = [stream EXCEPT !["server"] = x]
      /\ UNCHANGED <<place, token, readings, answered, authLog, rows>>
  BY DEF Damage
<1>a. ~LengthHit(s, i, b) /\ ~Straddles(s, i, b)
  BY DEF Damage
<1>2. s \in Seq(Byte) /\ stream \in [End -> Seq(Byte)] /\ b \in Byte \X Byte /\ i \in 1 .. Len(s) - 1
  BY <1>0, BurstAssumption DEF SessionTypes, End
<1> HIDE DEF s
<1>3. x \in Seq(Byte) /\ s # << >>
  <2>1. s # << >>
    BY <1>2
  <2> QED
    BY <1>2, <2>1, HitIs, Zenon
<1>4. \A f \in Frames : Carries(damage, s, f) => Carries(damage', x, f)
  BY <1>1, <1>2, <1>a, CarriesHit, Zenon
<1>5. \A c, f : Carries(damage, c, f) => Carries(damage', c, f)
  BY <1>1, CarriesLater, Zenon
<1> HIDE DEF x
<1>6. /\ stream' \in [End -> Seq(Byte)] /\ stream'["server"] = x
      /\ stream'["client"] = stream["client"]
  BY <1>1, <1>2, <1>3, StreamIs, Zenon
<1>7. SessionTypes' /\ Genuine'
  BY <1>0, <1>1, <1>6, Zenon DEF SessionTypes, Genuine
<1>8. Counts'
  BY <1>0, <1>1, SMTT(30) DEF Counts
<1>9. InStep'
  <2>1. CASE place["server"] \in {"accept", "readAuth"} /\ Before
    <3>1. Carries(damage', stream'["server"], AuthFrame(token'))
      <4>1. Carries(damage, s, AuthFrame(token)) /\ token \in Token
        BY <1>0, <2>1 DEF Before, s, SessionTypes
      <4>2. Carries(damage', x, AuthFrame(token))
        BY <1>4, <4>1, FramesAre, ZenonT(60)
      <4> QED
        BY <1>1, <1>6, <4>2, Zenon
    <3> QED
      BY <1>1, <1>3, <1>6, <2>1, <3>1, Zenon DEF InStep, Before, s
  <2>2. CASE place["server"] = "readFrame" /\ Written
    <3> DEFINE r == readings[Len(readings)]
    <3>1. r \in Reading
      BY <1>0, <2>2 DEF SessionTypes, Written, OneOpen
    <3>2. Carries(damage, s, DataFrame(r))
      BY <2>2 DEF Written, s
    <3>3. r' = r
      BY <1>1
    <3> HIDE DEF r
    <3>4. Carries(damage', x, DataFrame(r))
      BY <1>4, <3>1, <3>2, FramesAre, Zenon
    <3>5. Carries(damage', stream'["server"], DataFrame(r'))
      BY <1>6, <3>3, <3>4, Zenon
    <3> QED
      BY <1>1, <1>6, <2>2, <3>5, Zenon DEF InStep, Written, OneOpen, r
  <2>3. CASE place["server"] \in {"ended", "blocked"} /\ Over
    <3>1. Over'
      BY <1>1, <1>5, <1>6, <2>3, Zenon DEF Over, OneOpen
    <3> QED
      BY <1>1, <2>3, <3>1, Zenon DEF InStep
  <2> QED
    BY <1>0, <1>3, <2>1, <2>2, <2>3, ZenonT(60) DEF InStep, Refusing, Answering, Answered, Silent, s
<1> QED
  BY <1>7, <1>8, <1>9 DEF LinkInv

LEMMA KeepDamageToClient ==
  ASSUME LinkInv, NEW i \in 1 .. Len(stream["client"]) - 1, NEW b \in Burst, Damage("client", i, b),
         damage' = "covered"
  PROVE  LinkInv'
<1> DEFINE c == stream["client"]
           x == Hit(c, i, b)
<1>0. SessionTypes /\ Counts /\ InStep /\ Genuine
  BY DEF LinkInv
<1>1. /\ damage = "none" /\ damage' = "covered" /\ stream' = [stream EXCEPT !["client"] = x]
      /\ UNCHANGED <<place, token, readings, answered, authLog, rows>>
  BY DEF Damage
<1>a. ~LengthHit(c, i, b) /\ ~Straddles(c, i, b)
  BY DEF Damage
<1>2. c \in Seq(Byte) /\ stream \in [End -> Seq(Byte)] /\ b \in Byte \X Byte /\ i \in 1 .. Len(c) - 1
  BY <1>0, BurstAssumption DEF SessionTypes, End
<1> HIDE DEF c
<1>3. x \in Seq(Byte) /\ c # << >>
  <2>1. c # << >>
    BY <1>2
  <2> QED
    BY <1>2, <2>1, HitIs, Zenon
<1>4. \A t \in {ACK, ERROR} : Carries(damage, c, Empty(t)) => Carries(damage', x, Empty(t))
  <2>1. \A f \in Frames : Carries(damage, c, f) => Carries(damage', x, f)
    BY <1>1, <1>2, <1>a, CarriesHit, Zenon
  <2> QED
    BY <2>1, FramesAre, Zenon
<1> HIDE DEF x
<1>5. /\ stream' \in [End -> Seq(Byte)] /\ stream'["client"] = x
      /\ stream'["server"] = stream["server"]
  BY <1>1, <1>2, <1>3, StreamIs, Zenon
<1>6. SessionTypes' /\ Genuine'
  BY <1>0, <1>1, <1>5, Zenon DEF SessionTypes, Genuine
<1>7. Counts'
  BY <1>0, <1>1, SMTT(30) DEF Counts
<1>8. InStep'
  <2>1. CASE place["server"] = "readFrame" /\ Answered
    <3>1. Answered'
      BY <1>1, <1>3, <1>4, <1>5, <2>1 DEF Answered, c
    <3> QED
      BY <1>1, <2>1, <3>1, Zenon DEF InStep
  <2>2. CASE place["server"] \in {"ended", "blocked"} /\ Over
    <3>1. Over'
      BY <1>1, <1>3, <1>4, <1>5, <2>2, Zenon DEF Over, OneOpen, c
    <3> QED
      BY <1>1, <2>2, <3>1, Zenon DEF InStep
  <2> QED
    BY <1>0, <1>3, <2>1, <2>2, Zenon DEF InStep, Before, Refusing, Answering, Written, Silent, c
<1> QED
  BY <1>6, <1>7, <1>8 DEF LinkInv

-------------------------------------------------------------------------------
\* Every step keeps the invariant, but for damage that the checksum may miss.
LEMMA KeepLink ==
  ASSUME LinkInv, [SessionNext]_linkVars, Covered'
  PROVE  LinkInv'
<1>1. CASE ClientStep
  BY <1>1, KeepConnect, KeepWriteAuth, KeepReadAuthReply, KeepWriteTelemetry, KeepReadReply,
     KeepClientThrows, Zenon DEF ClientStep
<1>2. CASE ServerStep
  BY <1>2, KeepAcceptClient, KeepReadToken, KeepWriteError, KeepWriteAck, KeepReadTelemetry,
     KeepServerThrows, Zenon DEF ServerStep
<1>3. CASE ClientDies \/ ServerStops
  BY <1>3, KeepClientDies, KeepServerStops, Zenon
<1>4. ASSUME NEW e \in End, NEW i \in 1 .. Len(stream[e]) - 1, NEW b \in Burst, Damage(e, i, b)
      PROVE  LinkInv'
  <2>0. damage' = "covered"
    BY <1>4 DEF Damage, Covered
  <2>1. CASE e = "server"
    BY <1>4, <2>0, <2>1, KeepDamageToServer, Zenon
  <2>2. CASE e = "client"
    BY <1>4, <2>0, <2>2, KeepDamageToClient, ZenonT(60)
  <2> QED
    BY <2>1, <2>2 DEF End
<1>5. CASE UNCHANGED linkVars
  BY <1>5, ZenonT(60) DEF linkVars, LinkInv, SessionTypes, Counts, InStep, Genuine, Before, Refusing,
     Answering, Answered, Written, Over, OneOpen, Silent
<1> QED
  BY <1>1, <1>2, <1>3, <1>4, <1>5, Zenon DEF SessionNext

\* Damage is done once and is never taken back.
LEMMA DamageStays ==
  ASSUME [SessionNext]_linkVars, Covered'
  PROVE  Covered
<1>1. CASE ClientStep
  BY <1>1 DEF ClientStep, Connect, WriteAuth, ReadAuthReply, WriteTelemetry, ReadReply, ReadThrows, Covered
<1>2. CASE ServerStep
  BY <1>2 DEF ServerStep, AcceptClient, ReadToken, WriteError, WriteAck, ReadTelemetry, ReadThrows, Covered
<1>3. CASE ClientDies \/ ServerStops \/ UNCHANGED linkVars
  BY <1>3 DEF ClientDies, ServerStops, linkVars, Covered
<1>4. CASE \E e \in End : \E i \in 1 .. Len(stream[e]) - 1, b \in Burst : Damage(e, i, b)
  BY <1>4, Zenon DEF Damage, Covered
<1> QED
  BY <1>1, <1>2, <1>3, <1>4, Zenon DEF SessionNext

(* As long as the link has damaged no length and no checksum together with   *)
(* its payload, what is on its way in each direction is at most one frame,   *)
(* damaged in one place or cut off, and the rows are at most one behind the  *)
(* readings that were written (read_frame and write_frame of both ends).     *)
THEOREM LinkInvariant == SessionSpec => [](Covered => LinkInv)
<1>1. SessionInit => (Covered => LinkInv)
  BY SessionStarts
<1>2. (Covered => LinkInv) /\ [SessionNext]_linkVars => (Covered => LinkInv)'
  BY KeepLink, DamageStays
<1> QED
  BY <1>1, <1>2, PTL DEF SessionSpec

-------------------------------------------------------------------------------
\* Whatever the link damages, the session is past a token that was logged as AUTH_OK.
LoggedInv ==
  /\ place \in [End -> Place]
  /\ place["server"] \in {"accept", "readAuth"} => rows = << >>
  /\ place["server"] \in {"writeAck", "readFrame"} => authLog = "AUTH_OK"
  /\ rows # << >> => authLog = "AUTH_OK"

\* The client writes neither, and the session goes on where it was.
LEMMA ClientLogs ==
  ASSUME LoggedInv, UNCHANGED <<authLog, rows>>, place' \in [End -> Place],
         place'["server"] = place["server"]
  PROVE  LoggedInv'
  BY Zenon DEF LoggedInv

\* The session ends, blocks or answers with ERROR: nothing is stored from then on.
LEMMA SessionOver ==
  ASSUME LoggedInv, rows' = rows, authLog' = authLog \/ rows = << >>, place' \in [End -> Place],
         place'["server"] \in {"ended", "blocked", "writeError"}
  PROVE  LoggedInv'
  BY Zenon DEF LoggedInv

\* The end e goes to another place, the other one stays.
LEMMA Moves ==
  ASSUME LoggedInv
  PROVE  /\ \A l \in Place : MoveTo("client", l) =>
              place' \in [End -> Place] /\ place'["server"] = place["server"]
         /\ \A l \in Place : MoveTo("server", l) =>
              place' \in [End -> Place] /\ place'["server"] = l
         /\ Leave("client") => place' \in [End -> Place] /\ place'["server"] = place["server"]
         /\ Leave("server") => place' \in [End -> Place] /\ place'["server"] = "ended"
         /\ Blocks => place' \in [End -> Place] /\ place'["server"] = "blocked"
<1>1. place \in [End -> Place] /\ "blocked" \in Place
  BY DEF LoggedInv, Place
<1> QED
  BY <1>1, MoveIs, LeaveIs, Zenon DEF Blocks

LEMMA KeepLogged ==
  ASSUME LoggedInv, [SessionNext]_linkVars
  PROVE  LoggedInv'
<1>0. ClientPlace \subseteq Place /\ {"accept", "readAuth", "writeError", "writeAck", "readFrame"} \subseteq Place
  BY DEF Place
<1>a. {"refused", "writeAuth", "readAuthReply", "writeFrame", "readReply", "done"} \subseteq Place
  BY <1>0 DEF ClientPlace
<1>1. CASE ClientStep
  <2>1. UNCHANGED <<authLog, rows>>
    BY <1>1 DEF ClientStep, Connect, WriteAuth, ReadAuthReply, WriteTelemetry, ReadReply, ReadThrows
  <2>2. \/ Leave("client")
        \/ \E l \in {"refused", "writeAuth", "readAuthReply", "writeFrame", "readReply", "done"} :
             MoveTo("client", l)
    BY <1>1, Zenon DEF ClientStep, Connect, WriteAuth, ReadAuthReply, WriteTelemetry, ReadReply,
       ReadThrows, WriteFrame, NextFrame
  <2> QED
    BY <1>a, <2>1, <2>2, Moves, ClientLogs, Zenon
<1>2. CASE AcceptClient
  BY <1>0, <1>2, Moves, Zenon DEF AcceptClient, LoggedInv
<1>3. CASE ReadToken
  <2>1. place["server"] = "readAuth" /\ UNCHANGED rows /\ rows = << >>
    BY <1>3 DEF ReadToken, FrameRead, LoggedInv
  <2>2. \/ MoveTo("server", "writeError") \/ Leave("server") \/ Blocks
        \/ MoveTo("server", "writeAck") /\ authLog' = "AUTH_OK"
    BY <1>3, Zenon DEF ReadToken
  <2>3. CASE MoveTo("server", "writeAck") /\ authLog' = "AUTH_OK"
    BY <1>0, <2>1, <2>3, Moves, Zenon DEF LoggedInv
  <2>4. CASE MoveTo("server", "writeError") \/ Leave("server") \/ Blocks
    BY <1>0, <2>1, <2>4, Moves, SessionOver, Zenon
  <2> QED
    BY <2>2, <2>3, <2>4
<1>4. CASE WriteError \/ ReadThrows("server") \/ ServerStops
  <2>1. Leave("server") /\ UNCHANGED <<authLog, rows>>
    BY <1>4 DEF WriteError, ReadThrows, ServerStops
  <2> QED
    BY <2>1, Moves, SessionOver, Zenon
<1>5. CASE WriteAck
  <2>1. place["server"] = "writeAck" /\ UNCHANGED <<authLog, rows>>
        /\ (MoveTo("server", "readFrame") \/ Leave("server"))
    BY <1>5 DEF WriteAck, WriteFrame
  <2> QED
    BY <1>0, <2>1, Moves, Zenon DEF LoggedInv
<1>6. CASE ReadTelemetry
  <2>1. place["server"] = "readFrame" /\ UNCHANGED authLog /\ authLog = "AUTH_OK"
        /\ (MoveTo("server", "writeAck") \/ Leave("server") \/ Blocks)
    BY <1>6, Zenon DEF ReadTelemetry, FrameRead, LoggedInv
  <2> QED
    BY <1>0, <2>1, Moves, Zenon DEF LoggedInv
<1>7. CASE ClientDies
  <2>1. Leave("client") /\ UNCHANGED <<authLog, rows>>
    BY <1>7 DEF ClientDies
  <2> QED
    BY <2>1, Moves, ClientLogs, Zenon
<1>8. CASE \E e \in End : \E i \in 1 .. Len(stream[e]) - 1, b \in Burst : Damage(e, i, b)
  BY <1>8, Zenon DEF Damage, LoggedInv
<1>9. CASE UNCHANGED linkVars
  BY <1>9, Zenon DEF linkVars, LoggedInv
<1> QED
  BY <1>1, <1>2, <1>3, <1>4, <1>5, <1>6, <1>7, <1>8, <1>9, Zenon DEF SessionNext, ServerStep

(* No row without an AUTH_OK, whatever the link damages; and as long as it   *)
(* damages no length, and no checksum together with its payload, the rows    *)
(* are readings of the client, in order, whoever is killed, stopped, throws  *)
(* or blocks: for any readings, tokens and damage (handle_session,           *)
(* run_client).                                                              *)
THEOREM RowsAreSentHolds == SessionSpec => []RowsAreSent
<1>1. LinkInv => RowsAreSent
  <2> SUFFICES ASSUME LinkInv PROVE RowsAreSent
    OBVIOUS
  <2>1. SessionTypes /\ Genuine /\ Over
    BY OverIs DEF LinkInv
  <2>2. Len(rows) <= Len(readings) /\ rows = SubSeq(readings, 1, Len(rows))
    BY <2>1 DEF SessionTypes, Over, OneOpen
  <2> QED
    BY <2>1, <2>2 DEF RowsAreSent, Genuine, Over
<1>2. LoggedInv /\ ~Covered => RowsAreSent
  BY DEF LoggedInv, RowsAreSent
<1>3. SessionInit => LoggedInv
  BY DEF SessionInit, LoggedInv, End, Place, ClientPlace
<1>4. LoggedInv /\ [SessionNext]_linkVars => LoggedInv'
  BY KeepLogged
<1> QED
  BY <1>1, <1>2, <1>3, <1>4, LinkInvariant, PTL DEF SessionSpec

(* A frame that was answered is stored, and at most one row has not been     *)
(* answered, as long as the link damages no length and no checksum together  *)
(* with its payload (the loops of run_client and handle_session).            *)
THEOREM AnsweredIsStoredHolds == SessionSpec => []AnsweredIsStored
<1>1. LinkInv => AnsweredIsStored
  <2> SUFFICES ASSUME LinkInv PROVE AnsweredIsStored
    OBVIOUS
  <2>1. SessionTypes /\ Counts /\ Over
    BY OverIs DEF LinkInv
  <2>2. answered <= Len(rows)
    BY <2>1, Zenon DEF Counts
  <2>3. Len(rows) <= Len(readings)
    BY <2>1 DEF SessionTypes, Over, OneOpen
  <2>4. Len(readings) <= answered + 1
    BY <2>1 DEF SessionTypes, ClientPlace, Counts
  <2> QED
    BY <2>2, <2>3, <2>4 DEF AnsweredIsStored
<1>2. ~Covered => AnsweredIsStored
  BY DEF AnsweredIsStored
<1> QED
  BY <1>1, <1>2, LinkInvariant, PTL
===============================================================================
