----------------------------- MODULE AudioProofs -----------------------------
(***************************************************************************)
(* Proofs about the audio path.  First the ring of RingBuf: for every      *)
(* capacity and every width of size_t it is a bounded FIFO.  The argument  *)
(* is arithmetic: the capacity divides the modulus of the offsets, so      *)
(* masking an offset that has wrapped gives the same cell as masking the   *)
(* offset that has not.  Then its users, the reader and the audio worker   *)
(* of Audio: types, accounting and order of what is heard.                 *)
(***************************************************************************)
EXTENDS Audio, SequenceTheorems, TLAPS

-----------------------------------------------------------------------------
(* Remainders.                                                             *)

\* A remainder lies below its divisor.
LEMMA ModRange ==
  ASSUME NEW n \in Nat \ {0}, NEW a \in Int
  PROVE  a % n \in 0..n-1
  OBVIOUS

\* Division with remainder.
LEMMA DivMod ==
  ASSUME NEW n \in Nat \ {0}, NEW a \in Int
  PROVE  a \div n \in Int /\ a = n * (a \div n) + (a % n)
  OBVIOUS

\* A multiple of n smaller than n is zero.
LEMMA SmallMultiple ==
  ASSUME NEW n \in Nat \ {0}, NEW d \in Int, NEW r \in Int,
         -n < r, r < n, n * d = r
  PROVE  d = 0
<1>1. d >= 1 => n * d >= n
  OBVIOUS
<1>2. d <= -1 => n * d <= -n
  OBVIOUS
<1> QED BY <1>1, <1>2

\* The remainder is the only number below n that differs by a multiple of n.
LEMMA ModUnique ==
  ASSUME NEW n \in Nat \ {0}, NEW a \in Int, NEW q \in Int, NEW r \in 0..n-1,
         a = n * q + r
  PROVE  a % n = r
<1> DEFINE p == a \div n
           s == a % n
<1>1. p \in Int /\ s \in 0..n-1 /\ a = n * p + s
  BY ModRange, DivMod
<1> HIDE DEF p, s
<1>2. n * (p - q) = r - s
  BY <1>1
<1>3. p - q = 0
  BY <1>1, <1>2, SmallMultiple
<1>4. p = q
  BY <1>1, <1>3
<1>5. s = r
  BY <1>1, <1>4
<1> QED BY <1>5 DEF s

\* Adding a multiple of n does not change a remainder.
LEMMA ModShift ==
  ASSUME NEW n \in Nat \ {0}, NEW a \in Int, NEW q \in Int
  PROVE  (a + n * q) % n = a % n
<1> DEFINE p == a \div n
           r == a % n
<1>1. p \in Int /\ r \in 0..n-1 /\ a = n * p + r
  BY ModRange, DivMod
<1> HIDE DEF p, r
<1>2. a + n * q = n * (p + q) + r
  BY <1>1
<1>3. (a + n * q) % n = r
  <2>1. a + n * q \in Int /\ p + q \in Int
    BY <1>1
  <2> QED BY <1>1, <1>2, <2>1, ModUnique
<1> QED BY <1>3 DEF r

\* A summand may be reduced first.
LEMMA ModAdd ==
  ASSUME NEW n \in Nat \ {0}, NEW a \in Int, NEW b \in Int
  PROVE  ((a % n) + b) % n = (a + b) % n
<1> DEFINE p == a \div n
           r == a % n
<1>1. p \in Int /\ r \in 0..n-1 /\ a = n * p + r
  BY ModRange, DivMod
<1> HIDE DEF p, r
<1>2. a + b = (r + b) + n * p /\ r + b \in Int
  BY <1>1
<1>3. ((r + b) + n * p) % n = (r + b) % n
  BY <1>1, <1>2, ModShift
<1> QED BY <1>2, <1>3 DEF r

\* Masking an offset that has wrapped at a multiple of n.
LEMMA ModMod ==
  ASSUME NEW n \in Nat \ {0}, NEW m \in Nat \ {0}, m % n = 0, NEW a \in Int
  PROVE  (a % m) % n = a % n
<1> DEFINE k == m \div n
           p == a \div m
           r == a % m
<1>1. k \in Int /\ m = n * k
  BY DivMod
<1>2. p \in Int /\ r \in Int /\ a = m * p + r
  BY ModRange, DivMod
<1> HIDE DEF k, p, r
<1>3. m * p = n * (k * p)
  BY <1>1, <1>2
<1>4. a = r + n * (k * p) /\ k * p \in Int
  BY <1>1, <1>2, <1>3
<1>5. (r + n * (k * p)) % n = r % n
  BY <1>2, <1>4, ModShift
<1> QED BY <1>4, <1>5 DEF r

\* Stepping at most n cells from an offset: at most one wrap.
LEMMA ModStep ==
  ASSUME NEW n \in Nat \ {0}, NEW a \in Int, NEW b \in 0..n
  PROVE  (a + b) % n = IF (a % n) + b < n THEN (a % n) + b ELSE (a % n) + b - n
<1> DEFINE r == a % n
<1>1. r \in 0..n-1
  BY ModRange
<1>2. (r + b) % n = (a + b) % n
  <2>1. b \in Int
    OBVIOUS
  <2> QED BY <2>1, ModAdd
<1> HIDE DEF r
<1>3. CASE r + b < n
  <2>1. r + b \in 0..n-1 /\ r + b \in Int /\ r + b = n * 0 + (r + b)
    BY <1>1, <1>3
  <2>2. (r + b) % n = r + b
    BY <2>1, ModUnique
  <2> QED BY <1>2, <1>3, <2>2 DEF r
<1>4. CASE ~(r + b < n)
  <2>1. r + b - n \in 0..n-1 /\ r + b \in Int /\ r + b = n * 1 + (r + b - n)
    BY <1>1, <1>4
  <2>2. (r + b) % n = r + b - n
    BY <2>1, ModUnique
  <2> QED BY <1>2, <1>4, <2>2 DEF r
<1> QED BY <1>3, <1>4

-----------------------------------------------------------------------------
(* The type invariant and the agreement of count with the offsets.         *)

RingInv == RingTypeOK /\ CountIsDistance

\* Requests are sequences of at most MaxLen bytes.
LEMMA RequestType ==
  ASSUME NEW s \in Requests
  PROVE  s \in Seq(Bytes) /\ Len(s) \in 0..MaxLen
<1>1. PICK n \in 0..MaxLen : s \in [1..n -> Bytes]
  BY DEF Requests
<1>2. n \in Nat
  BY CapacityAssumption
<1> QED BY <1>1, <1>2

\* AtMost is the minimum.
LEMMA AtMostFact ==
  ASSUME NEW n \in Nat, NEW m \in Nat
  PROVE  AtMost(n, m) \in Nat /\ AtMost(n, m) <= n /\ AtMost(n, m) <= m
         /\ (AtMost(n, m) = n \/ AtMost(n, m) = m)
  BY DEF AtMost

\* A memcpy into the storage leaves an array of bytes.
LEMMA CopyInType ==
  ASSUME NEW d \in [0..Capacity-1 -> Bytes], NEW at \in Nat, NEW s \in Seq(Bytes)
  PROVE  CopyIn(d, at, s) \in [0..Capacity-1 -> Bytes]
<1>1. \A i \in 0..Capacity-1 : at <= i /\ i < at + Len(s) => s[i - at + 1] \in Bytes
  <2> SUFFICES ASSUME NEW i \in 0..Capacity-1, at <= i, i < at + Len(s)
               PROVE  s[i - at + 1] \in Bytes
    OBVIOUS
  <2>1. i - at + 1 \in 1..Len(s)
    BY CapacityAssumption
  <2> QED BY <2>1
<1> QED BY <1>1 DEF CopyIn

\* The cells of a transfer: the cell k places after an offset is the k-th of
\* the first part or, past the end of the storage, of the second.
LEMMA PartFact ==
  ASSUME NEW off \in Nat, NEW len \in 0..Capacity
  PROVE  /\ rb_mask(off) \in 0..Capacity-1
         /\ FirstPart(off, len) \in 0..len
         /\ FirstPart(off, len) <= Capacity - rb_mask(off)
         /\ FirstPart(off, len) = len \/ FirstPart(off, len) = Capacity - rb_mask(off)
<1>1. rb_mask(off) \in 0..Capacity-1
  BY CapacityAssumption, ModRange DEF rb_mask
<1>2. len \in Nat /\ Capacity - rb_mask(off) \in Nat
  BY <1>1, CapacityAssumption
<1> QED BY <1>1, <1>2, AtMostFact DEF FirstPart

\* Writing leaves an array of bytes in the storage.
LEMMA WriteType ==
  ASSUME RingTypeOK, NEW s \in Seq(Bytes), NEW len \in 0..Capacity, len <= Len(s)
  PROVE  WriteData(s, len) \in [0..Capacity-1 -> Bytes]
<1> DEFINE n1 == FirstPart(head, len)
<1>1. head \in Nat /\ data \in [0..Capacity-1 -> Bytes]
  BY CapacityAssumption DEF RingTypeOK
<1>2. rb_mask(head) \in 0..Capacity-1 /\ n1 \in 0..len
  BY <1>1, PartFact
<1>3. rb_mask(head) \in Nat
  BY <1>2
<1> HIDE DEF n1
<1>4. SubSeq(s, 1, n1) \in Seq(Bytes) /\ SubSeq(s, n1 + 1, len) \in Seq(Bytes)
  <2>1. n1 \in Int /\ len \in Int /\ n1 <= Len(s) /\ n1 + 1 >= 1
    BY <1>2, CapacityAssumption
  <2> QED BY <2>1
<1>5. CopyIn(data, rb_mask(head), SubSeq(s, 1, n1)) \in [0..Capacity-1 -> Bytes]
  BY <1>1, <1>3, <1>4, CopyInType
<1>6. CopyIn(CopyIn(data, rb_mask(head), SubSeq(s, 1, n1)), 0, SubSeq(s, n1 + 1, len))
        \in [0..Capacity-1 -> Bytes]
  BY <1>4, <1>5, CopyInType
<1> QED BY <1>6 DEF WriteData, n1

\* The head's cell is the one after the last stored byte.
LEMMA HeadCell ==
  ASSUME RingInv
  PROVE  rb_mask(head) = rb_mask(tail + count)
<1> DEFINE d == head - tail
           p == d \div SizeMod
           k == SizeMod \div Capacity
<1>1. head \in Int /\ tail \in Int /\ count \in Int /\ d \in Int
  BY CapacityAssumption DEF RingInv, RingTypeOK
<1>2. p \in Int /\ d = SizeMod * p + (d % SizeMod)
  BY <1>1, CapacityAssumption, DivMod
<1>3. k \in Int /\ SizeMod = Capacity * k + (SizeMod % Capacity)
  BY CapacityAssumption, DivMod
<1>4. d % SizeMod = count
  BY DEF RingInv, CountIsDistance
<1> DEFINE q == k * p
           e == tail + count
<1> HIDE DEF p, k
<1>5. SizeMod = Capacity * k
  BY <1>3, CapacityAssumption
<1>6. SizeMod * p = Capacity * q /\ q \in Int /\ e \in Int
  BY <1>1, <1>2, <1>3, <1>5, CapacityAssumption
<1>7. head = e + SizeMod * p
  <2>1. SizeMod * p \in Int
    BY <1>2, CapacityAssumption
  <2> QED BY <1>1, <1>2, <1>4, <2>1
<1> HIDE DEF q, e
<1>8. (e + Capacity * q) % Capacity = e % Capacity
  BY <1>6, CapacityAssumption, ModShift
<1> QED BY <1>6, <1>7, <1>8 DEF rb_mask, e

\* Cells counted from an offset that was reduced modulo SizeMod are those
\* counted from the offset itself.
LEMMA WrapCell ==
  ASSUME NEW off \in Int, NEW b \in Int
  PROVE  rb_mask((off % SizeMod) + b) = rb_mask(off + b)
<1>1. off % SizeMod \in Int /\ off % Capacity \in Int
  BY CapacityAssumption, ModRange
<1>2. (off % SizeMod) % Capacity = off % Capacity
  BY CapacityAssumption, ModMod
<1>3. (((off % SizeMod) % Capacity) + b) % Capacity = ((off % SizeMod) + b) % Capacity
  BY <1>1, CapacityAssumption, ModAdd
<1>4. ((off % Capacity) + b) % Capacity = (off + b) % Capacity
  BY CapacityAssumption, ModAdd
<1> QED BY <1>2, <1>3, <1>4 DEF rb_mask

\* Moving the head or the tail keeps count the distance between them.
LEMMA HeadMoves ==
  ASSUME RingInv, NEW len \in Nat, count + len <= Capacity
  PROVE  (((head + len) % SizeMod) - tail) % SizeMod = count + len
<1>1. head \in Int /\ tail \in Int /\ count \in Nat /\ head + len \in Int /\ -tail \in Int
      /\ head - tail \in Int
  BY CapacityAssumption DEF RingInv, RingTypeOK
<1>2. (((head + len) % SizeMod) + (-tail)) % SizeMod = ((head + len) + (-tail)) % SizeMod
  BY <1>1, CapacityAssumption, ModAdd
<1> DEFINE d == head - tail
<1>3. ((d % SizeMod) + len) % SizeMod = (d + len) % SizeMod
  <2> HIDE DEF d
  <2>1. d \in Int /\ len \in Int
    BY <1>1 DEF d
  <2> QED BY <2>1, CapacityAssumption, ModAdd
<1>4. (count + len) % SizeMod = count + len
  <2>1. count + len \in 0..SizeMod-1 /\ count + len = SizeMod * 0 + (count + len)
    BY <1>1, CapacityAssumption
  <2> QED BY <2>1, CapacityAssumption, ModUnique
<1>5. (head + len) + (-tail) = (head - tail) + len
  BY <1>1
<1>6. ((head + len) % SizeMod) + (-tail) = ((head + len) % SizeMod) - tail
  <2>1. (head + len) % SizeMod \in Int
    BY <1>1, CapacityAssumption, ModRange
  <2> QED BY <1>1, <2>1
<1>7. (head - tail) % SizeMod = count
  BY DEF RingInv, CountIsDistance
<1> QED BY <1>2, <1>3, <1>4, <1>5, <1>6, <1>7

LEMMA TailMoves ==
  ASSUME RingInv, NEW len \in 0..count
  PROVE  (head - ((tail + len) % SizeMod)) % SizeMod = count - len
<1> DEFINE a == tail + len
           p == a \div SizeMod
           r == a % SizeMod
<1>1. head \in Int /\ tail \in Int /\ count \in 0..Capacity /\ len \in Nat /\ a \in Int
      /\ -len \in Int /\ head - tail \in Int
  BY CapacityAssumption DEF RingInv, RingTypeOK
<1>2. p \in Int /\ r \in Int /\ a = SizeMod * p + r
  BY <1>1, CapacityAssumption, DivMod, ModRange
<1> HIDE DEF p, r
<1>3. head - r = ((head - tail) + (-len)) + SizeMod * p
  BY <1>1, <1>2, CapacityAssumption
<1> DEFINE e == (head - tail) + (-len)
<1>4. (e + SizeMod * p) % SizeMod = e % SizeMod
  <2> HIDE DEF e
  <2>1. e \in Int
    BY <1>1 DEF e
  <2> QED BY <1>2, <2>1, CapacityAssumption, ModShift
<1>5. (((head - tail) % SizeMod) + (-len)) % SizeMod = ((head - tail) + (-len)) % SizeMod
  BY <1>1, CapacityAssumption, ModAdd
<1>6. (head - tail) % SizeMod = count
  BY DEF RingInv, CountIsDistance
<1>7. (count + (-len)) % SizeMod = count - len
  <2>1. count - len \in 0..SizeMod-1 /\ count + (-len) = SizeMod * 0 + (count - len)
        /\ count + (-len) \in Int
    BY <1>1, CapacityAssumption
  <2> QED BY <2>1, CapacityAssumption, ModUnique
<1> QED BY <1>3, <1>4, <1>5, <1>6, <1>7 DEF r

\* The cell of the storage that the two memcpys of a write leave at j.
LEMMA WriteCell ==
  ASSUME RingInv, NEW s \in Seq(Bytes), NEW len \in 0..Capacity, len <= Len(s),
         NEW j \in 0..Capacity-1
  PROVE  LET n1 == FirstPart(head, len)
             h  == rb_mask(head)
         IN  WriteData(s, len)[j] =
               IF j < len - n1 THEN s[n1 + j + 1]
               ELSE IF h <= j /\ j < h + n1 THEN s[j - h + 1] ELSE data[j]
<1> DEFINE n1 == FirstPart(head, len)
           h  == rb_mask(head)
           s1 == SubSeq(s, 1, n1)
           s2 == SubSeq(s, n1 + 1, len)
           d1 == CopyIn(data, h, s1)
<1>1. head \in Nat /\ data \in [0..Capacity-1 -> Bytes]
  BY CapacityAssumption DEF RingInv, RingTypeOK
<1>2. h \in 0..Capacity-1 /\ n1 \in 0..len
  BY <1>1, PartFact
<1> HIDE DEF n1, h
<1>3. h \in Nat /\ n1 \in Nat /\ len \in Nat /\ j \in Nat
  BY <1>2, CapacityAssumption
<1>4. s1 \in Seq(Bytes) /\ Len(s1) = n1 /\ \A i \in 1..n1 : s1[i] = s[i]
  BY <1>2, <1>3
<1>5. s2 \in Seq(Bytes) /\ Len(s2) = len - n1 /\ \A i \in 1..len-n1 : s2[i] = s[n1 + i]
  BY <1>2, <1>3
<1>6. d1 \in [0..Capacity-1 -> Bytes]
  BY <1>1, <1>3, <1>4, CopyInType
<1> HIDE DEF s1, s2
<1>7. d1[j] = IF h <= j /\ j < h + n1 THEN s[j - h + 1] ELSE data[j]
  <2>1. d1[j] = IF h <= j /\ j < h + Len(s1) THEN s1[j - h + 1] ELSE data[j]
    BY <1>1 DEF CopyIn
  <2>2. h <= j /\ j < h + n1 => j - h + 1 \in 1..n1
    BY <1>3
  <2> QED BY <1>4, <2>1, <2>2
<1> HIDE DEF d1
<1>8. CopyIn(d1, 0, s2)[j] = IF j < len - n1 THEN s2[j + 1] ELSE d1[j]
  <2>1. CopyIn(d1, 0, s2)[j] =
          IF 0 <= j /\ j < 0 + Len(s2) THEN s2[j - 0 + 1] ELSE d1[j]
    BY <1>6 DEF CopyIn
  <2>2. 0 <= j /\ 0 + (len - n1) = len - n1 /\ j - 0 + 1 = j + 1
    BY <1>3
  <2> QED BY <1>5, <2>1, <2>2
<1>9. j < len - n1 => s2[j + 1] = s[n1 + j + 1]
  <2>1. j < len - n1 => j + 1 \in 1..len-n1 /\ n1 + (j + 1) = n1 + j + 1
    BY <1>3
  <2> QED BY <1>5, <2>1
<1> QED BY <1>7, <1>8, <1>9 DEF WriteData, n1, h, s1, s2, d1

\* A write of len bytes leaves the stored bytes alone and puts the new ones
\* after them.
LEMMA WriteContents ==
  ASSUME RingInv, NEW s \in Seq(Bytes), NEW len \in 0..Capacity, len <= Len(s),
         count + len <= Capacity, NEW i \in 1..count+len
  PROVE  WriteData(s, len)[rb_mask(tail + i - 1)] =
           IF i <= count THEN data[rb_mask(tail + i - 1)] ELSE s[i - count]
<1> DEFINE n1 == FirstPart(head, len)
           h  == rb_mask(head)
           t  == rb_mask(tail)
           b  == i - 1
           j  == rb_mask(tail + b)
<1>1. head \in Nat /\ tail \in Int /\ tail \in Nat /\ count \in 0..Capacity /\ len \in Nat
  BY CapacityAssumption DEF RingInv, RingTypeOK
<1>2. h \in 0..Capacity-1 /\ n1 \in 0..len /\ n1 <= Capacity - h
      /\ (n1 = len \/ n1 = Capacity - h)
  BY <1>1, PartFact
<1>3. t \in 0..Capacity-1
  BY <1>1, CapacityAssumption, ModRange DEF rb_mask
<1>4. b \in 0..Capacity /\ tail + i - 1 = tail + b /\ tail + b \in Int
  BY <1>1, CapacityAssumption
<1>5. h = IF t + count < Capacity THEN t + count ELSE t + count - Capacity
  BY <1>1, CapacityAssumption, HeadCell, ModStep DEF rb_mask
<1> HIDE DEF b
<1>6. j = IF t + b < Capacity THEN t + b ELSE t + b - Capacity
  BY <1>1, <1>4, CapacityAssumption, ModStep DEF rb_mask
<1>7. j \in 0..Capacity-1
  BY <1>4, CapacityAssumption, ModRange DEF rb_mask
<1>8. WriteData(s, len)[j] =
        IF j < len - n1 THEN s[n1 + j + 1]
        ELSE IF h <= j /\ j < h + n1 THEN s[j - h + 1] ELSE data[j]
  BY <1>7, WriteCell
<1> HIDE DEF n1, h, t, j
<1>9. CASE i <= count
  <2>1. ~(j < len - n1) /\ ~(h <= j /\ j < h + n1)
    BY <1>1, <1>2, <1>3, <1>5, <1>6, <1>7, <1>9, CapacityAssumption DEF b
  <2> QED BY <1>4, <1>8, <1>9, <2>1 DEF j
<1>10. CASE ~(i <= count)
  <2>1. CASE j < len - n1
    <3>1. n1 + j + 1 = i - count
      BY <1>1, <1>2, <1>3, <1>5, <1>6, <1>7, <1>10, <2>1, CapacityAssumption DEF b
    <3> QED BY <1>4, <1>8, <1>10, <2>1, <3>1 DEF j
  <2>2. CASE ~(j < len - n1)
    <3>1. h <= j /\ j < h + n1 /\ j - h + 1 = i - count
      BY <1>1, <1>2, <1>3, <1>5, <1>6, <1>7, <1>10, <2>2, CapacityAssumption DEF b
    <3> QED BY <1>4, <1>8, <1>10, <2>2, <3>1 DEF j
  <2> QED BY <2>1, <2>2
<1> QED BY <1>9, <1>10

\* The two memcpys of a read deliver the oldest len bytes in order.
LEMMA ReadContents ==
  ASSUME RingInv, NEW len \in 0..count
  PROVE  /\ ReadData(len) \in Seq(Bytes)
         /\ Len(ReadData(len)) = len
         /\ \A i \in 1..len : ReadData(len)[i] = data[rb_mask(tail + i - 1)]
<1> DEFINE n1 == FirstPart(tail, len)
           t  == rb_mask(tail)
           c1 == CopyOut(t, n1)
           c2 == CopyOut(0, len - n1)
<1>1. tail \in Nat /\ tail \in Int /\ count \in 0..Capacity /\ len \in 0..Capacity
      /\ data \in [0..Capacity-1 -> Bytes] /\ len \in Nat
  BY CapacityAssumption DEF RingInv, RingTypeOK
<1>2. t \in 0..Capacity-1 /\ n1 \in 0..len /\ n1 <= Capacity - t
      /\ (n1 = len \/ n1 = Capacity - t)
  BY <1>1, PartFact
<1> HIDE DEF n1, t
<1>3. t \in Nat /\ n1 \in Nat /\ len - n1 \in Nat /\ len - n1 <= Capacity
  BY <1>1, <1>2, CapacityAssumption
<1>4. c1 \in Seq(Bytes) /\ Len(c1) = n1 /\ \A i \in 1..n1 : c1[i] = data[t + i - 1]
  <2>1. \A i \in 1..n1 : t + i - 1 \in 0..Capacity-1
    BY <1>2, <1>3, CapacityAssumption
  <2>2. c1 \in [1..n1 -> Bytes]
    BY <1>1, <2>1 DEF CopyOut
  <2> QED BY <1>3, <2>2 DEF CopyOut
<1>5. c2 \in Seq(Bytes) /\ Len(c2) = len - n1
      /\ \A i \in 1..len-n1 : c2[i] = data[0 + i - 1]
  <2>1. \A i \in 1..len-n1 : 0 + i - 1 \in 0..Capacity-1
    BY <1>2, <1>3, CapacityAssumption
  <2>2. c2 \in [1..len-n1 -> Bytes]
    BY <1>1, <2>1 DEF CopyOut
  <2> QED BY <1>3, <2>2 DEF CopyOut
<1>6. ReadData(len) = c1 \o c2
  BY DEF ReadData, n1, t
<1> HIDE DEF c1, c2
<1>7. c1 \o c2 \in Seq(Bytes) /\ Len(c1 \o c2) = len
  BY <1>2, <1>3, <1>4, <1>5
<1>8. ASSUME NEW i \in 1..len
      PROVE  (c1 \o c2)[i] = data[rb_mask(tail + i - 1)]
  <2> DEFINE b == i - 1
  <2>1. b \in 0..Capacity /\ tail + i - 1 = tail + b
    BY <1>1, CapacityAssumption
  <2>2. rb_mask(tail + b) = IF t + b < Capacity THEN t + b ELSE t + b - Capacity
    <3> HIDE DEF b
    <3> QED BY <1>1, <2>1, CapacityAssumption, ModStep DEF rb_mask, t
  <2>3. (c1 \o c2)[i] = IF i <= n1 THEN c1[i] ELSE c2[i - n1]
    BY <1>2, <1>3, <1>4, <1>5
  <2>4. CASE i <= n1
    <3>1. i \in 1..n1 /\ t + b < Capacity /\ t + b = t + i - 1
      BY <1>2, <1>3, <2>4, CapacityAssumption
    <3> QED BY <1>4, <2>1, <2>2, <2>3, <2>4, <3>1
  <2>5. CASE ~(i <= n1)
    <3>1. i - n1 \in 1..len-n1 /\ ~(t + b < Capacity)
          /\ t + b - Capacity = 0 + (i - n1) - 1
      BY <1>2, <1>3, <2>5, CapacityAssumption
    <3> QED BY <1>5, <2>1, <2>2, <2>3, <2>5, <3>1
  <2> QED BY <2>4, <2>5
<1> QED BY <1>6, <1>7, <1>8

-----------------------------------------------------------------------------
(* The invariant, one step per operation.                                  *)

\* The two transfers clamp their length to what fits or what is stored.
LEMMA Clamped ==
  ASSUME RingInv, NEW n \in 0..MaxLen
  PROVE  /\ AtMost(n, rb_free) \in 0..Capacity /\ AtMost(n, rb_free) \in 0..MaxLen
         /\ AtMost(n, rb_free) <= n /\ count + AtMost(n, rb_free) <= Capacity
         /\ AtMost(n, count) \in 0..count /\ AtMost(n, count) \in 0..MaxLen
<1>1. count \in Nat /\ rb_free \in Nat /\ n \in Nat /\ count + rb_free = Capacity
  BY CapacityAssumption DEF RingInv, RingTypeOK, rb_free
<1> DEFINE a == AtMost(n, rb_free)
           c == AtMost(n, count)
<1>2. a \in Nat /\ a <= n /\ a <= rb_free
  BY <1>1, AtMostFact
<1>3. c \in Nat /\ c <= n /\ c <= count
  BY <1>1, AtMostFact
<1> HIDE DEF a, c
<1>4. a \in 0..Capacity /\ a \in 0..MaxLen /\ a <= n /\ count + a <= Capacity
  BY <1>1, <1>2, CapacityAssumption
<1>5. c \in 0..count /\ c \in 0..MaxLen
  BY <1>1, <1>3, CapacityAssumption
<1> QED BY <1>4, <1>5 DEF a, c

LEMMA WriteKeeps ==
  ASSUME RingInv, NEW s \in Requests, vmc_ringbuf_write(s)
  PROVE  RingInv'
<1> DEFINE len == AtMost(Len(s), rb_free)
<1>1. s \in Seq(Bytes) /\ Len(s) \in 0..MaxLen
  BY RequestType
<1>2. len \in 0..Capacity /\ len \in 0..MaxLen /\ len <= Len(s) /\ count + len <= Capacity
  BY <1>1, Clamped
<1>3. data' = WriteData(s, len) /\ head' = (head + len) % SizeMod /\ count' = count + len
      /\ out' = <<>> /\ ret' = len /\ tail' = tail
  BY DEF vmc_ringbuf_write
<1> HIDE DEF len
<1>4. WriteData(s, len) \in [0..Capacity-1 -> Bytes]
  BY <1>1, <1>2, WriteType DEF RingInv
<1>5. (head + len) % SizeMod \in 0..SizeMod-1 /\ count + len \in 0..Capacity /\ len \in Nat
  <2>1. head + len \in Int /\ count \in Nat /\ len \in Nat
    BY <1>2, CapacityAssumption DEF RingInv, RingTypeOK
  <2>2. (head + len) % SizeMod \in 0..SizeMod-1
    BY <2>1, CapacityAssumption, ModRange
  <2> QED BY <1>2, <2>1, <2>2, CapacityAssumption
<1>6. RingTypeOK'
  BY <1>2, <1>3, <1>4, <1>5 DEF RingInv, RingTypeOK
<1>7. CountIsDistance'
  BY <1>2, <1>3, <1>5, HeadMoves DEF CountIsDistance
<1> QED BY <1>6, <1>7 DEF RingInv

\* Reading and discarding move the tail alike.
LEMMA TailKeeps ==
  ASSUME RingInv, NEW len \in 0..count, len \in 0..MaxLen,
         tail' = (tail + len) % SizeMod, count' = count - len,
         ret' = len, out' \in Seq(Bytes), UNCHANGED <<data, head>>
  PROVE  RingInv'
<1>1. tail + len \in Int /\ count - len \in 0..Capacity
  BY CapacityAssumption DEF RingInv, RingTypeOK
<1>2. (tail + len) % SizeMod \in 0..SizeMod-1
  BY <1>1, CapacityAssumption, ModRange
<1>3. RingTypeOK'
  BY <1>1, <1>2 DEF RingInv, RingTypeOK
<1>4. CountIsDistance'
  BY TailMoves DEF CountIsDistance
<1> QED BY <1>3, <1>4 DEF RingInv

LEMMA ResetKeeps ==
  ASSUME head' = 0, tail' = 0, count' = 0, out' = <<>>, ret' = 0,
         data' \in [0..Capacity-1 -> Bytes]
  PROVE  RingInv'
<1>1. RingTypeOK'
  BY CapacityAssumption DEF RingTypeOK
<1>2. (0 - 0) % SizeMod = 0
  <2>1. 0 \in 0..SizeMod-1 /\ 0 \in Int /\ 0 = SizeMod * 0 + 0
    BY CapacityAssumption
  <2>2. 0 % SizeMod = 0
    BY <2>1, CapacityAssumption, ModUnique
  <2> QED BY <2>2
<1> QED BY <1>1, <1>2 DEF RingInv, CountIsDistance

LEMMA RingStep ==
  ASSUME RingInv, [RingNext]_ringVars
  PROVE  RingInv'
<1>1. ASSUME NEW s \in Requests, vmc_ringbuf_write(s)
      PROVE  RingInv'
  BY <1>1, WriteKeeps
<1>2. ASSUME NEW n \in 0..MaxLen, vmc_ringbuf_read(n)
      PROVE  RingInv'
  <2> DEFINE len == AtMost(n, count)
  <2>1. len \in 0..count /\ len \in 0..MaxLen
    BY Clamped
  <2>2. tail' = (tail + len) % SizeMod /\ count' = count - len /\ ret' = len
        /\ out' = ReadData(len) /\ UNCHANGED <<data, head>>
    BY <1>2 DEF vmc_ringbuf_read
  <2> HIDE DEF len
  <2>3. out' \in Seq(Bytes)
    BY <2>1, <2>2, ReadContents
  <2> QED BY <2>1, <2>2, <2>3, TailKeeps
<1>3. ASSUME NEW n \in 0..MaxLen, vmc_ringbuf_peek(n)
      PROVE  RingInv'
  <2> DEFINE len == AtMost(n, count)
  <2>1. len \in 0..count /\ len \in 0..MaxLen
    BY Clamped
  <2>2. ret' = len /\ out' = ReadData(len) /\ UNCHANGED <<data, head, tail, count>>
    BY <1>3 DEF vmc_ringbuf_peek
  <2> HIDE DEF len
  <2>3. out' \in Seq(Bytes)
    BY <2>1, <2>2, ReadContents
  <2> QED BY <2>1, <2>2, <2>3 DEF RingInv, RingTypeOK, CountIsDistance
<1>4. ASSUME NEW n \in 0..MaxLen, vmc_ringbuf_discard(n)
      PROVE  RingInv'
  <2> DEFINE len == AtMost(n, count)
  <2>1. len \in 0..count /\ len \in 0..MaxLen
    BY Clamped
  <2>2. tail' = (tail + len) % SizeMod /\ count' = count - len /\ ret' = len
        /\ out' = <<>> /\ UNCHANGED <<data, head>>
    BY <1>4 DEF vmc_ringbuf_discard
  <2> HIDE DEF len
  <2>3. out' \in Seq(Bytes)
    BY <2>2
  <2> QED BY <2>1, <2>2, <2>3, TailKeeps
<1>5. CASE vmc_ringbuf_reset
  BY <1>5, ResetKeeps DEF vmc_ringbuf_reset, RingInv, RingTypeOK
<1>6. CASE UNCHANGED ringVars
  BY <1>6 DEF ringVars, RingInv, RingTypeOK, CountIsDistance
<1> QED BY <1>1, <1>2, <1>3, <1>4, <1>5, <1>6 DEF RingNext

LEMMA RingInit ==
  ASSUME vmc_ringbuf_init
  PROVE  RingInv
<1>1. RingTypeOK
  BY CapacityAssumption DEF vmc_ringbuf_init, RingTypeOK
<1>2. 0 \in 0..SizeMod-1 /\ 0 \in Int /\ 0 = SizeMod * 0 + 0
  BY CapacityAssumption
<1>3. 0 % SizeMod = 0
  BY <1>2, CapacityAssumption, ModUnique
<1>4. head - tail = 0 /\ count = 0
  BY DEF vmc_ringbuf_init
<1> QED BY <1>1, <1>3, <1>4 DEF RingInv, CountIsDistance

\* For every capacity that divides the size_t modulus (vmc_ringbuf_init only
\* admits powers of two) the ring keeps its types, and the separately kept
\* count is the distance between the offsets, across every wrap of either.
THEOREM RingCorrect == RingSpec => [](RingTypeOK /\ CountIsDistance)
<1>1. vmc_ringbuf_init => RingInv
  BY RingInit
<1>2. RingInv /\ [RingNext]_ringVars => RingInv'
  BY RingStep
<1>3. RingInv => RingTypeOK /\ CountIsDistance
  BY DEF RingInv
<1> QED BY <1>1, <1>2, <1>3, PTL DEF RingSpec

-----------------------------------------------------------------------------
(* The refinement of the bounded FIFO of ringbuf.h.                        *)

\* The n cells from an offset on, as a sequence.
Cells(d, off, n) == [i \in 1..n |-> d[rb_mask(off + i - 1)]]

LEMMA FunctionIsSeq ==
  ASSUME NEW n \in Nat, NEW S, NEW f \in [1..n -> S]
  PROVE  f \in Seq(S) /\ Len(f) = n
  OBVIOUS

LEMMA CellsFact ==
  ASSUME NEW d \in [0..Capacity-1 -> Bytes], NEW off \in Int, NEW n \in Nat
  PROVE  /\ Cells(d, off, n) \in Seq(Bytes) /\ Len(Cells(d, off, n)) = n
         /\ \A i \in 1..n : Cells(d, off, n)[i] = d[rb_mask(off + i - 1)]
<1>1. ASSUME NEW i \in 1..n
      PROVE  d[rb_mask(off + i - 1)] \in Bytes
  <2> DEFINE e == off + i - 1
  <2>1. e \in Int
    OBVIOUS
  <2> HIDE DEF e
  <2>2. rb_mask(e) \in 0..Capacity-1
    BY <2>1, CapacityAssumption, ModRange DEF rb_mask
  <2> QED BY <2>2 DEF e
<1>2. Cells(d, off, n) \in [1..n -> Bytes]
  BY <1>1 DEF Cells
<1>3. \A i \in 1..n : Cells(d, off, n)[i] = d[rb_mask(off + i - 1)]
  BY DEF Cells
<1> QED BY <1>2, <1>3, FunctionIsSeq

\* What the ring holds, as a sequence.
LEMMA ContentsFact ==
  ASSUME RingInv
  PROVE  /\ Contents \in Seq(Bytes) /\ Len(Contents) = count
         /\ \A i \in 1..count : Contents[i] = data[rb_mask(tail + i - 1)]
<1>1. count \in Nat /\ tail \in Int /\ data \in [0..Capacity-1 -> Bytes]
  BY CapacityAssumption DEF RingInv, RingTypeOK
<1>2. Contents = Cells(data, tail, count)
  BY DEF Contents, Cells
<1> QED BY <1>1, <1>2, CellsFact

LEMMA WriteRefines ==
  ASSUME RingInv, NEW s \in Requests, vmc_ringbuf_write(s)
  PROVE  Fifo!Write(s)
<1> DEFINE len == AtMost(Len(s), rb_free)
<1>1. s \in Seq(Bytes) /\ Len(s) \in 0..MaxLen
  BY RequestType
<1>2. len \in 0..Capacity /\ len <= Len(s) /\ count + len <= Capacity
  BY <1>1, Clamped
<1>3. data' = WriteData(s, len) /\ count' = count + len /\ tail' = tail
      /\ out' = <<>> /\ ret' = len
  BY DEF vmc_ringbuf_write
<1>4. len = Fifo!AtMost(Len(s), Capacity - Len(Contents))
  BY ContentsFact DEF Fifo!AtMost, AtMost, rb_free
<1> HIDE DEF len
<1>5. count \in Nat /\ len \in Nat /\ Len(s) \in Nat
  BY <1>1, <1>2, CapacityAssumption DEF RingInv, RingTypeOK
<1> DEFINE new == SubSeq(s, 1, len)
           q   == Contents
<1>6. new \in Seq(Bytes) /\ Len(new) = len /\ \A i \in 1..len : new[i] = s[i]
  BY <1>1, <1>2, <1>5
<1>7. q \in Seq(Bytes) /\ Len(q) = count
      /\ \A i \in 1..count : q[i] = data[rb_mask(tail + i - 1)]
  BY ContentsFact
<1>8. Contents' \in Seq(Bytes) /\ Len(Contents') = count + len
      /\ \A i \in 1..count+len : Contents'[i] = WriteData(s, len)[rb_mask(tail + i - 1)]
  <2>1. RingInv'
    BY WriteKeeps
  <2>2. Contents' = Cells(WriteData(s, len), tail, count + len)
    BY <1>3 DEF Contents, Cells, rb_mask
  <2>3. count' \in Nat /\ tail' \in Int /\ data' \in [0..Capacity-1 -> Bytes]
    BY <2>1, CapacityAssumption DEF RingInv, RingTypeOK
  <2>4. count + len \in Nat /\ tail \in Int /\ WriteData(s, len) \in [0..Capacity-1 -> Bytes]
    BY <1>3, <1>5, <2>3
  <2> QED BY <2>2, <2>4, CellsFact
<1> DEFINE r == Contents'
<1> HIDE DEF new, q, r
<1>9. q \o new \in Seq(Bytes) /\ Len(q \o new) = count + len
      /\ \A i \in 1..count+len : (q \o new)[i] = IF i <= count THEN q[i] ELSE new[i - count]
  BY <1>5, <1>6, <1>7
<1>10. ASSUME NEW i \in 1..count+len
       PROVE  r[i] = (q \o new)[i]
  <2>1. r[i] = IF i <= count THEN data[rb_mask(tail + i - 1)] ELSE s[i - count]
    BY <1>1, <1>2, <1>8, WriteContents DEF r
  <2>2. i <= count => i \in 1..count
    BY <1>5
  <2>3. ~(i <= count) => i - count \in 1..len
    BY <1>5
  <2> QED BY <1>6, <1>7, <1>9, <2>1, <2>2, <2>3
<1>11. r = q \o new
  BY <1>8, <1>9, <1>10, SeqEqual DEF r
<1> QED BY <1>3, <1>4, <1>11 DEF Fifo!Write, r, q, new

\* Taking len bytes from the tail removes the oldest len.
LEMMA TailRefines ==
  ASSUME RingInv, RingInv', NEW len \in 0..count,
         tail' = (tail + len) % SizeMod, count' = count - len, data' = data
  PROVE  Contents' = SubSeq(Contents, len + 1, Len(Contents))
<1> DEFINE q == Contents
           r == Contents'
           z == SubSeq(q, len + 1, count)
<1>1. count \in Nat /\ len \in Nat /\ count - len \in Nat /\ tail \in Int /\ tail + len \in Int
  BY CapacityAssumption DEF RingInv, RingTypeOK
<1>2. q \in Seq(Bytes) /\ Len(q) = count
      /\ \A i \in 1..count : q[i] = data[rb_mask(tail + i - 1)]
  BY ContentsFact
<1>3. r \in Seq(Bytes) /\ Len(r) = count - len
      /\ \A i \in 1..count-len : r[i] = data[rb_mask(tail' + i - 1)]
  <2>1. count' \in Nat /\ tail' \in Int /\ data' \in [0..Capacity-1 -> Bytes]
    BY CapacityAssumption DEF RingInv, RingTypeOK
  <2>2. r = Cells(data, tail', count - len)
    BY DEF Contents, Cells, rb_mask
  <2> QED BY <1>1, <2>1, <2>2, CellsFact
<1> HIDE DEF q, r
<1>4. z \in Seq(Bytes) /\ Len(z) = count - len /\ \A i \in 1..count-len : z[i] = q[len + i]
  BY <1>1, <1>2
<1>5. ASSUME NEW i \in 1..count-len
      PROVE  r[i] = z[i]
  <2> DEFINE off == tail + len
             b   == i - 1
  <2>1. off \in Int /\ b \in Int /\ len + i \in 1..count
    BY <1>1
  <2>2. tail + (len + i) - 1 = off + b /\ tail' + i - 1 = (off % SizeMod) + b
    <3>1. off % SizeMod \in Int
      BY <2>1, CapacityAssumption, ModRange
    <3> QED BY <1>1, <3>1
  <2> HIDE DEF off, b
  <2>3. rb_mask((off % SizeMod) + b) = rb_mask(off + b)
    BY <2>1, WrapCell
  <2>4. r[i] = data[rb_mask((off % SizeMod) + b)]
    BY <1>3, <2>2
  <2>5. z[i] = q[len + i] /\ q[len + i] = data[rb_mask(off + b)]
    BY <1>2, <1>4, <2>1, <2>2
  <2> QED BY <2>3, <2>4, <2>5
<1>6. r = z
  <2> HIDE DEF z
  <2> QED BY <1>3, <1>4, <1>5, SeqEqual
<1> QED BY <1>2, <1>6 DEF r, q

\* What a read or a peek copies out is the front of the queue.
LEMMA OutRefines ==
  ASSUME RingInv, NEW len \in 0..count
  PROVE  ReadData(len) = SubSeq(Contents, 1, len)
<1> DEFINE q == Contents
           z == SubSeq(q, 1, len)
<1>1. count \in Nat /\ len \in Nat
  BY CapacityAssumption DEF RingInv, RingTypeOK
<1>2. q \in Seq(Bytes) /\ Len(q) = count
      /\ \A i \in 1..count : q[i] = data[rb_mask(tail + i - 1)]
  BY ContentsFact
<1> HIDE DEF q
<1>3. z \in Seq(Bytes) /\ Len(z) = len /\ \A i \in 1..len : z[i] = q[i]
  BY <1>1, <1>2
<1> HIDE DEF z
<1>4. \A i \in 1..len : i \in 1..count
  BY <1>1
<1> QED BY ZenonT(60), <1>2, <1>3, <1>4, ReadContents, SeqEqual DEF z, q

LEMMA StepRefines ==
  ASSUME RingInv, [RingNext]_ringVars
  PROVE  [Fifo!Next]_(Fifo!vars)
<1>1. ASSUME NEW s \in Requests, vmc_ringbuf_write(s)
      PROVE  Fifo!Next
  <2>1. s \in Fifo!Requests
    BY DEF Requests, Fifo!Requests
  <2> QED BY <1>1, <2>1, WriteRefines DEF Fifo!Next
<1>2. RingInv'
  BY RingStep
<1>3. ASSUME NEW n \in 0..MaxLen
      PROVE  /\ AtMost(n, count) \in 0..count
             /\ AtMost(n, count) = Fifo!AtMost(n, Len(Contents))
  BY Clamped, ContentsFact DEF AtMost, Fifo!AtMost
<1>4. ASSUME NEW n \in 0..MaxLen, vmc_ringbuf_read(n)
      PROVE  Fifo!Next
  <2> DEFINE len == AtMost(n, count)
  <2>1. len \in 0..count /\ len = Fifo!AtMost(n, Len(Contents))
    BY <1>3
  <2>2. out' = ReadData(len) /\ tail' = (tail + len) % SizeMod /\ count' = count - len
        /\ ret' = len /\ data' = data
    BY <1>4 DEF vmc_ringbuf_read
  <2> HIDE DEF len
  <2>3. Fifo!Read(n)
    BY <1>2, <2>1, <2>2, TailRefines, OutRefines DEF Fifo!Read
  <2> QED BY <2>3 DEF Fifo!Next
<1>5. ASSUME NEW n \in 0..MaxLen, vmc_ringbuf_peek(n)
      PROVE  Fifo!Next
  <2> DEFINE len == AtMost(n, count)
  <2>1. len \in 0..count /\ len = Fifo!AtMost(n, Len(Contents))
    BY <1>3
  <2>2. out' = ReadData(len) /\ ret' = len /\ UNCHANGED <<data, tail, count>>
    BY <1>5 DEF vmc_ringbuf_peek
  <2> HIDE DEF len
  <2>3. Contents' = Contents
    BY <2>2 DEF Contents, rb_mask
  <2>4. Fifo!Peek(n)
    BY <2>1, <2>2, <2>3, OutRefines DEF Fifo!Peek
  <2> QED BY <2>4 DEF Fifo!Next
<1>6. ASSUME NEW n \in 0..MaxLen, vmc_ringbuf_discard(n)
      PROVE  Fifo!Next
  <2> DEFINE len == AtMost(n, count)
  <2>1. len \in 0..count /\ len = Fifo!AtMost(n, Len(Contents))
    BY <1>3
  <2>2. out' = <<>> /\ tail' = (tail + len) % SizeMod /\ count' = count - len
        /\ ret' = len /\ data' = data
    BY <1>6 DEF vmc_ringbuf_discard
  <2> HIDE DEF len
  <2>3. Fifo!Discard(n)
    BY <1>2, <2>1, <2>2, TailRefines DEF Fifo!Discard
  <2> QED BY <2>3 DEF Fifo!Next
<1>7. CASE vmc_ringbuf_reset
  <2>1. Contents' = <<>>
    BY <1>7 DEF vmc_ringbuf_reset, Contents
  <2> QED BY <1>7, <2>1 DEF vmc_ringbuf_reset, Fifo!Reset, Fifo!Next
<1>8. CASE UNCHANGED ringVars
  <2>1. Contents' = Contents
    BY <1>8 DEF ringVars, Contents, rb_mask
  <2> QED BY <1>8, <2>1 DEF ringVars, Fifo!vars
<1> QED BY <1>1, <1>4, <1>5, <1>6, <1>7, <1>8 DEF RingNext

\* The masked, wrapping, two-memcpy ring of ringbuf.c implements the bounded
\* FIFO of ringbuf.h for every capacity, every size_t modulus it divides and
\* every sequence of calls: the bytes handed out are those written, in order.
THEOREM RingRefinesFifo == RingSpec => ImplementsFifo
<1>1. vmc_ringbuf_init => RingInv
  BY RingInit
<1>2. vmc_ringbuf_init => Fifo!Init
  BY DEF vmc_ringbuf_init, Fifo!Init, Contents
<1>3. RingInv /\ [RingNext]_ringVars => RingInv'
  BY RingStep
<1>4. RingInv /\ [RingNext]_ringVars => [Fifo!Next]_(Fifo!vars)
  BY StepRefines
<1> QED BY <1>1, <1>2, <1>3, <1>4, PTL DEF RingSpec, ImplementsFifo, Fifo!Spec

-----------------------------------------------------------------------------
(* The audio path around the ring                                          *)

\* The units of s rise and lie strictly between lo and hi.
Rising(s, lo, hi) ==
  \A i \in 1..Len(s) :
    /\ lo < s[i] /\ s[i] < hi
    /\ \A j \in 1..Len(s) : i < j => s[i] < s[j]

\* While the reader has not gone back in the stream: the device, then the
\* worker's hand, then the FIFO hold ever later content, all of it older than
\* what the reader delivers next.
LineOrdered ==
  rd.made = rd.next - 1 =>
    /\ heard.last < rd.next
    /\ Rising(Contents, heard.last, rd.next)
    /\ wk.pc = "render" =>
         /\ Rising(wk.pcm, heard.last, rd.next)
         /\ \A i \in 1..Len(wk.pcm), j \in 1..count : wk.pcm[i] < Contents[j]

\* The FIFO holds content only (the storage starts as silence), and a reader
\* that has been restarted is never ahead of what it has delivered.
AudioInv ==
  /\ TypeOK /\ CountIsDistance
  /\ Contents \in Seq(Units)
  /\ rd.next <= rd.made + 1
  /\ AudioAccounted
  /\ LineOrdered

\* The frame the reader writes next.
Frame(n) == [i \in 1..n |-> rd.next + i - 1]

\* It is a request of the ring and holds content only.
LEMMA FrameFact ==
  ASSUME AudioInv, NEW n \in 1..MaxLen, rd.made + n <= MaxUnits
  PROVE  Frame(n) \in Requests /\ Frame(n) \in Seq(Units) /\ Len(Frame(n)) = n
         /\ \A i \in 1..n : Frame(n)[i] = rd.next + i - 1
<1>1. n \in Nat /\ n \in 0..MaxLen /\ MaxUnits \in Nat
  BY CapacityAssumption, AudioAssumption
<1>2. rd.next \in 1..MaxUnits + 1 /\ rd.made \in 0..MaxUnits /\ rd.next <= rd.made + 1
  BY DEF AudioInv, TypeOK
<1>3. \A i \in 1..n : rd.next + i - 1 \in Units /\ rd.next + i - 1 \in Bytes
  BY <1>1, <1>2, AudioAssumption DEF Units
<1>4. Frame(n) \in [1..n -> Units] /\ Frame(n) \in [1..n -> Bytes]
  BY <1>3 DEF Frame
<1>5. Frame(n) \in Requests
  BY <1>1, <1>4 DEF Requests
<1>6. Frame(n) \in Seq(Units) /\ Len(Frame(n)) = n
  BY <1>1, <1>4, FunctionIsSeq
<1> QED BY <1>5, <1>6 DEF Frame

\* audio_fifo_write_raw appends the k units that fit and drops the rest.
LEMMA QueueWrite ==
  ASSUME AudioInv, NEW n \in 1..MaxLen, rd.made + n <= MaxUnits,
         vmc_ringbuf_write(Frame(n))
  PROVE  \E k \in 0..n :
           /\ count' = count + k /\ ret' = k
           /\ Contents' = Contents \o SubSeq(Frame(n), 1, k)
<1>1. Frame(n) \in Requests /\ Len(Frame(n)) = n
  BY FrameFact
<1>2. RingInv
  BY DEF AudioInv, TypeOK, RingInv
<1>3. Fifo!Write(Frame(n))
  BY <1>1, <1>2, WriteRefines
<1>4. Len(Contents) = count
  BY <1>2, ContentsFact
<1> DEFINE k == AtMost(n, rb_free)
<1>5. n \in 0..MaxLen
  BY CapacityAssumption
<1>6. k \in 0..Capacity /\ k <= n
  BY <1>2, <1>5, Clamped
<1>7. count' = count + k /\ ret' = k
  BY <1>1 DEF vmc_ringbuf_write
<1>8. Fifo!AtMost(n, Capacity - count) = k
  BY DEF Fifo!AtMost, AtMost, rb_free
<1>9. Contents' = Contents \o SubSeq(Frame(n), 1, k)
  BY <1>1, <1>3, <1>4, <1>8 DEF Fifo!Write
<1>10. k \in 0..n
  BY <1>6, CapacityAssumption
<1> QED BY <1>7, <1>9, <1>10

\* A flush empties the FIFO.
LEMMA QueueFlush ==
  ASSUME vmc_ringbuf_reset
  PROVE  Contents' = <<>> /\ count' = 0
<1>1. count' = 0
  BY DEF vmc_ringbuf_reset
<1>2. Contents' = [i \in 1..0 |-> data[rb_mask(tail + i - 1)]']
  BY <1>1 DEF Contents
<1> QED BY <1>1, <1>2

\* The worker takes the oldest k units, at most a period.
LEMMA QueueTake ==
  ASSUME AudioInv, TakePeriod
  PROVE  \E k \in 0..count :
           /\ k <= Period /\ count' = count - k
           /\ wk' = [wk EXCEPT !.pc = "render", !.pcm = SubSeq(Contents, 1, k)]
           /\ Contents' = SubSeq(Contents, k + 1, count)
           /\ [RingNext]_ringVars
<1>1. RingInv /\ count \in Nat
  BY CapacityAssumption DEF AudioInv, TypeOK, RingInv, RingTypeOK
<1>2. Period \in Nat /\ Period <= MaxLen /\ MaxLen \in Nat
  BY CapacityAssumption, AudioAssumption
<1>3. Contents \in Seq(Units) /\ Len(Contents) = count
  BY <1>1, ContentsFact DEF AudioInv
<1>4. CASE /\ count > 0
           /\ vmc_ringbuf_read(AtMost(count, Period))
           /\ wk' = [wk EXCEPT !.pc = "render", !.pcm = out']
  <2> DEFINE k == AtMost(count, Period)
  <2>1. k \in 0..count /\ k <= Period /\ k \in 0..MaxLen
    BY <1>1, <1>2 DEF AtMost
  <2>2. vmc_ringbuf_read(k) /\ wk' = [wk EXCEPT !.pc = "render", !.pcm = out']
    BY <1>4
  <2> HIDE DEF k
  <2>3. AtMost(k, count) = k
    BY <1>1, <2>1 DEF AtMost
  <2>4. tail' = (tail + k) % SizeMod /\ count' = count - k /\ data' = data
        /\ out' = ReadData(k)
    BY <2>2, <2>3 DEF vmc_ringbuf_read
  <2>5. RingNext
    BY <2>1, <2>2 DEF RingNext
  <2>6. RingInv'
    BY <1>1, <2>5, RingStep
  <2>7. Contents' = SubSeq(Contents, k + 1, count)
    BY <1>1, <1>3, <2>1, <2>4, <2>6, TailRefines
  <2>8. out' = SubSeq(Contents, 1, k)
    BY <1>1, <2>1, <2>4, OutRefines
  <2> QED BY <2>1, <2>2, <2>4, <2>5, <2>7, <2>8
<1>5. CASE /\ count = 0
           /\ wk' = [wk EXCEPT !.pc = "render", !.pcm = <<>>]
           /\ UNCHANGED ringVars
  <2>1. 0 \in 0..count /\ 0 <= Period /\ count' = count - 0
    BY <1>1, <1>2, <1>5 DEF ringVars
  <2>2. Contents' = Contents
    BY <1>5 DEF ringVars, Contents
  <2>3. Contents = <<>> /\ SubSeq(Contents, 1, 0) = <<>>
        /\ SubSeq(Contents, 0 + 1, count) = <<>>
    BY <1>3, <1>5
  <2> QED BY <1>5, <2>1, <2>2, <2>3
<1> QED BY <1>4, <1>5 DEF TakePeriod

\* Every step of the audio path is one call of the ring or leaves it alone.
LEMMA AudioRingStep ==
  ASSUME AudioInv, [Next]_vars
  PROVE  [RingNext]_ringVars
<1>1. ASSUME NEW n \in 1..MaxLen, dash_audio_write_frame(n)
      PROVE  RingNext
  <2>1. Frame(n) \in Requests
    BY <1>1, FrameFact DEF dash_audio_write_frame
  <2>2. vmc_ringbuf_write(Frame(n))
    BY <1>1 DEF dash_audio_write_frame, audio_fifo_write_raw, Frame
  <2> QED BY <2>1, <2>2 DEF RingNext
<1>2. CASE FellBehind \/ LiveEdgeReset
  BY <1>2 DEF FellBehind, LiveEdgeReset, FlushFifo, RingNext
<1>3. CASE TakePeriod
  BY <1>3, QueueTake
<1>4. CASE ZeroAudioClock \/ RestartReader \/ FirstVideoReady \/ StopRequest \/ Tick
  BY <1>4 DEF ZeroAudioClock, RestartReader, FirstVideoReady, StopRequest, Tick, mwRest
<1>5. CASE PrefillCheck \/ PrefillWake \/ LoopTop \/ TimedWait \/ Render \/ PublishClock
  BY <1>5 DEF PrefillCheck, PrefillWake, LoopTop, TimedWait, Render, PublishClock
<1>6. CASE Presenter
  BY <1>6 DEF Presenter, GateSleep, GateOpen, Presented, PresentLeave, pwRest
<1>7. CASE MainStop
  BY <1>7 DEF MainStop, CancelReader, JoinPresent, WakeAudio, JoinAudio, mwRest
<1>8. CASE UNCHANGED vars
  BY <1>8 DEF vars
<1>9. CASE Terminated
  BY <1>9 DEF Terminated, vars
<1> QED BY <1>1, <1>2, <1>3, <1>4, <1>5, <1>6, <1>7, <1>8, <1>9
        DEF Next, Reader, Worker

LEMMA AudioRingInv ==
  ASSUME AudioInv, [Next]_vars
  PROVE  RingInv /\ RingInv' /\ RingTypeOK' /\ CountIsDistance'
<1>1. RingInv
  BY DEF AudioInv, TypeOK, RingInv
<1>2. RingInv'
  BY <1>1, AudioRingStep, RingStep
<1> QED BY <1>1, <1>2 DEF RingInv

\* The steps of the other threads, and those of the reader and of the worker
\* that move no content.
MovesNothing ==
  \/ ZeroAudioClock \/ RestartReader \/ FirstVideoReady \/ StopRequest \/ Tick
  \/ PrefillCheck \/ PrefillWake \/ LoopTop \/ TimedWait \/ PublishClock
  \/ Presenter \/ MainStop \/ Terminated \/ UNCHANGED vars

LEMMA StepSplit ==
  ASSUME [Next]_vars
  PROVE  \/ \E n \in 1..MaxLen : dash_audio_write_frame(n)
         \/ FellBehind \/ LiveEdgeReset \/ TakePeriod \/ Render
         \/ MovesNothing
  BY DEF Next, Reader, Worker, MovesNothing

\* They keep the FIFO, the hand, the device and the books, and the reader's
\* place can only go back.
LEMMA NothingMoved ==
  ASSUME AudioInv, MovesNothing
  PROVE  /\ UNCHANGED <<ringVars, heard, gone>>
         /\ rd'.made = rd.made /\ rd'.next <= rd.next
         /\ wk'.pc = "render" => wk.pc = "render" /\ wk'.pcm = wk.pcm
         /\ wk.pc = "render" => wk'.pc = "render"
<1>0. rd \in [pc : {"run", "zero", "gone"}, next : 1..MaxUnits + 1,
              made : 0..MaxUnits, some : BOOLEAN]
      /\ wk \in [pc : {"prefill", "asleep", "loop", "take", "render", "clock", "exit"},
                 waited : 0..MaxWaits, pcm : Seq(Units)]
  BY DEF AudioInv, TypeOK
<1>1. rd.next \in Int /\ Window \in Nat /\ MaxUnits \in Nat
  BY <1>0, AudioAssumption
<1>2. CASE RestartReader
  <2>1. rd'.next <= rd.next /\ rd'.made = rd.made
    BY <1>0, <1>1, <1>2 DEF RestartReader
  <2> QED BY <1>2, <2>1 DEF RestartReader
<1>3. CASE rd' = rd /\ wk' = wk /\ UNCHANGED <<ringVars, heard, gone>>
  BY <1>1, <1>3
<1>4. CASE ZeroAudioClock
  <2>1. rd'.next = rd.next /\ rd'.made = rd.made
    BY <1>0, <1>4 DEF ZeroAudioClock
  <2> QED BY <1>1, <1>4, <2>1 DEF ZeroAudioClock
<1>5. CASE CancelReader
  <2>1. rd'.next = rd.next /\ rd'.made = rd.made
    BY <1>0, <1>5 DEF CancelReader
  <2> QED BY <1>1, <1>5, <2>1 DEF CancelReader, mwRest
<1>6. CASE PrefillCheck \/ PrefillWake \/ LoopTop \/ TimedWait \/ PublishClock
  <2>1. wk'.pc = "render" => wk.pc = "render" /\ wk'.pcm = wk.pcm
    BY <1>0, <1>6 DEF PrefillCheck, PrefillWake, LoopTop, TimedWait, PublishClock, WkGoto
  <2>2. wk.pc # "render"
    BY <1>6 DEF PrefillCheck, PrefillWake, LoopTop, TimedWait, PublishClock
  <2>3. UNCHANGED <<ringVars, heard, gone, rd>>
    BY <1>6 DEF PrefillCheck, PrefillWake, LoopTop, TimedWait, PublishClock, wkRest
  <2> QED BY <1>1, <2>1, <2>2, <2>3
<1>7. FirstVideoReady \/ StopRequest \/ Tick \/ Presenter \/ JoinPresent \/ WakeAudio
      \/ JoinAudio \/ Terminated \/ UNCHANGED vars
      => rd' = rd /\ wk' = wk /\ UNCHANGED <<ringVars, heard, gone>>
  BY DEF FirstVideoReady, StopRequest, Tick, Presenter, GateSleep, GateOpen, Presented,
         PresentLeave, JoinPresent, WakeAudio, JoinAudio, Terminated, vars, audioVars,
         pwRest, mwRest
<1> QED BY <1>2, <1>3, <1>4, <1>5, <1>6, <1>7 DEF MovesNothing, MainStop

\* Steps that leave the ring alone leave its contents.
LEMMA QueueSame ==
  ASSUME UNCHANGED ringVars
  PROVE  Contents' = Contents /\ count' = count
  BY DEF ringVars, Contents

-----------------------------------------------------------------------------
(* Types                                                                   *)

WkShape == [pc : {"prefill", "asleep", "loop", "take", "render", "clock", "exit"},
            waited : 0..MaxWaits, pcm : Seq(Units)]
RdShape == [pc : {"run", "zero", "gone"}, next : 1..MaxUnits + 1,
            made : 0..MaxUnits, some : BOOLEAN]
ClkShape == [active : BOOLEAN, started : BOOLEAN, lag : None..MaxAge, adv : 0..MaxAge]

LEMMA Bounds ==
  /\ Period \in Nat /\ MaxLen \in Nat /\ MaxWaits \in Nat /\ MaxGate \in Nat
  /\ Window \in Nat /\ MaxUnits \in Nat /\ MaxFlushes \in Nat /\ MaxAge \in Nat
  BY CapacityAssumption, AudioAssumption DEF MaxAge

LEMMA WkTyped ==
  ASSUME AudioInv, [Next]_vars
  PROVE  wk' \in WkShape /\ Len(wk'.pcm) <= Period
<1>0. wk \in WkShape /\ Len(wk.pcm) <= Period
  BY DEF AudioInv, TypeOK, WkShape
<1>1. CASE wk' = wk
  BY <1>0, <1>1
<1>2. CASE TakePeriod
  <2>1. PICK k \in 0..count :
          /\ k <= Period
          /\ wk' = [wk EXCEPT !.pc = "render", !.pcm = SubSeq(Contents, 1, k)]
    BY <1>2, QueueTake
  <2>2. Contents \in Seq(Units) /\ Len(Contents) = count /\ count \in Nat
    BY CapacityAssumption, AudioRingInv, ContentsFact DEF AudioInv, RingInv, RingTypeOK
  <2>3. SubSeq(Contents, 1, k) \in Seq(Units) /\ Len(SubSeq(Contents, 1, k)) = k
    BY <2>2
  <2> QED BY <1>0, <2>1, <2>3 DEF WkShape
<1>3. CASE PrefillCheck \/ PrefillWake \/ Render
  BY <1>0, <1>3 DEF PrefillCheck, PrefillWake, Render, WkGoto, WkShape
<1>4. CASE LoopTop
  <2>1. 0 \in 0..MaxWaits
    BY Bounds
  <2> QED BY <1>0, <1>4, <2>1 DEF LoopTop, WkGoto, WkShape
<1>5. CASE TimedWait
  <2>1. wk.waited + 1 \in 0..MaxWaits
    BY <1>0, <1>5, Bounds DEF TimedWait, WkShape
  <2>2. wk' = [wk EXCEPT !.waited = wk.waited + 1]
    BY <1>5 DEF TimedWait
  <2> QED BY <1>0, <2>1, <2>2 DEF WkShape
<1>6. CASE PublishClock
  <2>1. wk' = [wk EXCEPT !.pc = "loop", !.pcm = <<>>]
    BY <1>6 DEF PublishClock
  <2>2. <<>> \in Seq(Units) /\ Len(<<>>) <= Period
    BY Bounds
  <2> QED BY <1>0, <2>1, <2>2 DEF WkShape
<1>7. \/ wk' = wk \/ TakePeriod \/ PrefillCheck \/ PrefillWake \/ Render \/ LoopTop
      \/ TimedWait \/ PublishClock
  <2>1. ASSUME NEW n \in 1..MaxLen, dash_audio_write_frame(n)
        PROVE  wk' = wk
    BY <2>1 DEF dash_audio_write_frame
  <2>2. FellBehind \/ LiveEdgeReset \/ RestartReader \/ ZeroAudioClock \/ FirstVideoReady
        \/ StopRequest \/ Tick => wk' = wk
    BY DEF FellBehind, LiveEdgeReset, RestartReader, ZeroAudioClock, FirstVideoReady,
           StopRequest, Tick, mwRest
  <2>3. Presenter \/ MainStop => wk' = wk
    BY DEF Presenter, GateSleep, GateOpen, Presented, PresentLeave, pwRest,
           MainStop, CancelReader, JoinPresent, WakeAudio, JoinAudio, mwRest
  <2>4. Terminated \/ UNCHANGED vars => wk' = wk
    BY DEF Terminated, vars, audioVars
  <2> QED BY <2>1, <2>2, <2>3, <2>4 DEF Next, Reader, Worker
<1> QED BY <1>1, <1>2, <1>3, <1>4, <1>5, <1>6, <1>7

LEMMA RdTyped ==
  ASSUME AudioInv, [Next]_vars
  PROVE  rd' \in RdShape /\ rd'.next <= rd'.made + 1 /\ flushes' \in 0..MaxFlushes
<1>0. rd \in RdShape /\ rd.next <= rd.made + 1 /\ flushes \in 0..MaxFlushes
  BY DEF AudioInv, TypeOK, RdShape
<1>1. ASSUME NEW n \in 1..MaxLen, dash_audio_write_frame(n)
      PROVE  rd' \in RdShape /\ rd'.next <= rd'.made + 1 /\ flushes' = flushes
  <2>1. rd' = [rd EXCEPT !.next = rd.next + n, !.made = rd.made + n, !.some = TRUE]
        /\ rd.made + n <= MaxUnits /\ flushes' = flushes
    BY <1>1 DEF dash_audio_write_frame
  <2>2. rd.next + n \in 1..MaxUnits + 1 /\ rd.made + n \in 0..MaxUnits
        /\ rd.next + n <= rd.made + n + 1
    BY <1>0, <2>1, Bounds DEF RdShape
  <2> QED BY <1>0, <2>1, <2>2 DEF RdShape
<1>2. CASE RestartReader
  <2> DEFINE m == IF rd.next > Window THEN rd.next - Window ELSE 1
  <2>1. rd' = [rd EXCEPT !.next = m, !.some = FALSE]
    BY <1>2 DEF RestartReader
  <2>2. m \in 1..MaxUnits + 1 /\ m <= rd.made + 1
    BY <1>0, Bounds DEF RdShape
  <2>3. flushes' \in 0..MaxFlushes
    BY <1>0, <1>2, Bounds DEF RestartReader
  <2> HIDE DEF m
  <2> QED BY <1>0, <2>1, <2>2, <2>3 DEF RdShape
<1>3. CASE LiveEdgeReset
  <2>1. rd' = [rd EXCEPT !.pc = "zero"]
    BY <1>3 DEF LiveEdgeReset
  <2>2. flushes' \in 0..MaxFlushes
    BY <1>0, <1>3, Bounds DEF LiveEdgeReset
  <2> QED BY <1>0, <2>1, <2>2 DEF RdShape
<1>4. CASE FellBehind
  <2>1. flushes' \in 0..MaxFlushes
    BY <1>0, <1>4, Bounds DEF FellBehind
  <2> QED BY <1>0, <1>4, <2>1 DEF FellBehind
<1>5. CASE ZeroAudioClock
  <2>1. rd' = [rd EXCEPT !.pc = "run", !.some = FALSE] /\ flushes' = flushes
    BY <1>5 DEF ZeroAudioClock
  <2> QED BY <1>0, <2>1 DEF RdShape
<1>6. CASE CancelReader
  <2>1. rd' = [rd EXCEPT !.pc = "gone"] /\ flushes' = flushes
    BY <1>6 DEF CancelReader, mwRest
  <2> QED BY <1>0, <2>1 DEF RdShape
<1>7. FirstVideoReady \/ StopRequest \/ Tick \/ JoinPresent \/ WakeAudio \/ JoinAudio
      => rd' = rd /\ flushes' = flushes
  BY DEF FirstVideoReady, StopRequest, Tick, JoinPresent, WakeAudio, JoinAudio, mwRest
<1>8. Worker => rd' = rd /\ flushes' = flushes
  BY DEF Worker, PrefillCheck, PrefillWake, LoopTop, TimedWait, TakePeriod, Render,
         PublishClock, wkRest
<1>9. Presenter \/ Terminated \/ UNCHANGED vars => rd' = rd /\ flushes' = flushes
  BY DEF Presenter, GateSleep, GateOpen, Presented, PresentLeave, pwRest, Terminated,
         vars, audioVars
<1>10. CASE rd' = rd /\ flushes' = flushes
  BY <1>0, <1>10
<1> QED BY <1>0, <1>1, <1>2, <1>3, <1>4, <1>5, <1>6, <1>7, <1>8, <1>9, <1>10
        DEF Next, Reader, MainStop

LEMMA OlderAge ==
  ASSUME NEW a \in 0..MaxAge
  PROVE  Older(a) \in 0..MaxAge
  BY Bounds DEF Older, AtMost

\* Ages stay in range, and the clock a lost sink leaves is some age.
LEMMA ClkTyped ==
  ASSUME AudioInv, [Next]_vars
  PROVE  clk' \in ClkShape
<1>0. clk \in ClkShape
  BY DEF AudioInv, TypeOK, ClkShape
<1>1. CASE Tick
  <2> DEFINE l == IF clk.lag = None THEN clk.lag ELSE Older(clk.lag)
  <2>1. clk' = [clk EXCEPT !.lag = l, !.adv = Older(clk.adv)]
    BY <1>1 DEF Tick
  <2>2. clk.lag # None => clk.lag \in 0..MaxAge
    BY <1>0, Bounds DEF ClkShape, None
  <2>3. \A a \in 0..MaxAge : a \in None..MaxAge
    BY Bounds DEF None
  <2>4. l \in None..MaxAge
    BY <1>0, <2>2, <2>3, OlderAge DEF ClkShape
  <2>5. Older(clk.adv) \in 0..MaxAge
    BY <1>0, OlderAge DEF ClkShape
  <2> HIDE DEF l
  <2> QED BY <1>0, <2>1, <2>4, <2>5 DEF ClkShape
<1>2. CASE ZeroAudioClock
  BY <1>0, <1>2 DEF ZeroAudioClock, ClkShape
<1>3. CASE PublishClock
  <2>1. 0 \in None..MaxAge /\ 0 \in 0..MaxAge
    BY Bounds DEF None
  <2>2. [clk EXCEPT !.active = TRUE, !.lag = 0, !.adv = 0] \in ClkShape
    BY <1>0, <2>1 DEF ClkShape
  <2>3. ASSUME NEW age \in IF clk.started THEN 0..MaxAge ELSE {clk.lag}
        PROVE  [clk EXCEPT !.active = TRUE, !.adv = 0, !.lag = age] \in ClkShape
    <3>1. age \in None..MaxAge
      BY <1>0, <2>3, Bounds DEF ClkShape, None
    <3> QED BY <1>0, <2>1, <3>1 DEF ClkShape
  <2>4. \A c \in ClockAfter : c \in ClkShape
    BY <1>0, <2>2, <2>3 DEF ClockAfter
  <2>5. PICK c \in ClockAfter : clk' = [c EXCEPT !.started = c.started \/ c.active]
    BY <1>3 DEF PublishClock
  <2>6. c \in ClkShape
    BY <2>4
  <2>7. (c.started \/ c.active) \in BOOLEAN
    OBVIOUS
  <2> QED BY <2>5, <2>6, <2>7 DEF ClkShape
<1>4. ASSUME NEW n \in 1..MaxLen, dash_audio_write_frame(n)
      PROVE  clk' = clk
  BY <1>4 DEF dash_audio_write_frame
<1>5. FellBehind \/ LiveEdgeReset \/ RestartReader \/ FirstVideoReady \/ StopRequest
      \/ MainStop => clk' = clk
  BY DEF FellBehind, LiveEdgeReset, RestartReader, FirstVideoReady, StopRequest, MainStop,
         CancelReader, JoinPresent, WakeAudio, JoinAudio, mwRest
<1>6. PrefillCheck \/ PrefillWake \/ LoopTop \/ TimedWait \/ TakePeriod \/ Render => clk' = clk
  BY DEF PrefillCheck, PrefillWake, LoopTop, TimedWait, TakePeriod, Render
<1>7. Presenter \/ Terminated \/ UNCHANGED vars => clk' = clk
  BY DEF Presenter, GateSleep, GateOpen, Presented, PresentLeave, pwRest, Terminated,
         vars, audioVars
<1>8. CASE clk' = clk
  BY <1>0, <1>8
<1> QED BY <1>1, <1>2, <1>3, <1>4, <1>5, <1>6, <1>7, <1>8 DEF Next, Reader, Worker

\* The flags and the threads that move no content.
FlagsOK ==
  /\ woken \in BOOLEAN /\ sink \in {"open", "closed"}
  /\ pw \in [pc : {"gate", "present", "exit"}, waits : 0..MaxGate]
  /\ mw \in {"run", "cancel", "joinpresent", "wake", "join", "done"}
  /\ g_first_video_ready \in BOOLEAN /\ g_run_audio \in BOOLEAN

LEMMA FlagsTyped ==
  ASSUME FlagsOK, [Next]_vars
  PROVE  FlagsOK'
<1>1. ASSUME NEW n \in 1..MaxLen, dash_audio_write_frame(n)
      PROVE  FlagsOK'
  BY <1>1 DEF dash_audio_write_frame, audio_fifo_write_raw, Signal, FlagsOK
<1>2. CASE FellBehind \/ LiveEdgeReset
  BY <1>2 DEF FellBehind, LiveEdgeReset, FlushFifo, Signal, FlagsOK
<1>3. CASE RestartReader \/ ZeroAudioClock \/ FirstVideoReady \/ Tick
  BY <1>3 DEF RestartReader, ZeroAudioClock, FirstVideoReady, Tick, FlagsOK
<1>4. CASE PrefillCheck \/ PrefillWake \/ LoopTop \/ TimedWait \/ TakePeriod \/ PublishClock
  BY <1>4 DEF PrefillCheck, PrefillWake, LoopTop, TimedWait, TakePeriod, PublishClock,
              wkRest, FlagsOK
<1>5. CASE Render
  BY <1>5 DEF Render, alsa_play, wkRest, FlagsOK
<1>6. CASE GateSleep
  <2>1. pw' = [pw EXCEPT !.waits = pw.waits + 1] /\ pw.waits + 1 \in 0..MaxGate
    BY <1>6, Bounds DEF GateSleep, FlagsOK
  <2> QED BY <1>6, <2>1 DEF GateSleep, pwRest, FlagsOK
<1>7. CASE GateOpen \/ PresentLeave
  BY <1>7 DEF GateOpen, PresentLeave, pwRest, FlagsOK
<1>8. CASE Presented
  <2>1. 0 \in 0..MaxGate
    BY Bounds
  <2> QED BY <1>8, <2>1 DEF Presented, pwRest, FlagsOK
<1>9. CASE StopRequest \/ MainStop
  BY <1>9 DEF StopRequest, MainStop, CancelReader, JoinPresent, WakeAudio, JoinAudio,
              Signal, mwRest, FlagsOK
<1>10. CASE Terminated \/ UNCHANGED vars
  BY <1>10 DEF Terminated, vars, audioVars, FlagsOK
<1> QED BY <1>1, <1>2, <1>3, <1>4, <1>5, <1>6, <1>7, <1>8, <1>9, <1>10
        DEF Next, Reader, Worker, Presenter

-----------------------------------------------------------------------------
(* The books                                                               *)

\* What every step does to the books: the units of a frame are stored or
\* dropped, a flush drops what is stored, a take moves the oldest units into
\* the worker's hand, and the sink plays or loses the hand.
LEMMA BooksStep ==
  ASSUME AudioInv, [Next]_vars
  PROVE  /\ AudioAccounted'
         /\ heard' \in [last : 0..MaxUnits, n : Nat] /\ gone' \in Nat
         /\ Contents' \in Seq(Units)
<1>0. /\ rd \in RdShape /\ wk \in WkShape /\ AudioAccounted
      /\ heard \in [last : 0..MaxUnits, n : Nat] /\ gone \in Nat
      /\ Contents \in Seq(Units)
  BY DEF AudioInv, TypeOK, RdShape, WkShape
<1>1. RingInv /\ count \in Nat /\ Len(Contents) = count
  BY CapacityAssumption, AudioRingInv, ContentsFact DEF RingInv, RingTypeOK
<1>2. Len(wk.pcm) \in Nat /\ rd.made \in Nat /\ heard.n \in Nat
  BY <1>0, Bounds DEF WkShape, RdShape
<1>3. ASSUME NEW n \in 1..MaxLen, dash_audio_write_frame(n)
      PROVE  /\ AudioAccounted' /\ gone' \in Nat /\ heard' = heard
             /\ Contents' \in Seq(Units)
  <2>1. rd.made + n <= MaxUnits /\ vmc_ringbuf_write(Frame(n)) /\ wk' = wk /\ heard' = heard
        /\ rd' = [rd EXCEPT !.next = rd.next + n, !.made = rd.made + n, !.some = TRUE]
    BY <1>3 DEF dash_audio_write_frame, audio_fifo_write_raw, Frame
  <2>2. PICK k \in 0..n :
          /\ count' = count + k /\ ret' = k
          /\ Contents' = Contents \o SubSeq(Frame(n), 1, k)
    BY <2>1, QueueWrite
  <2>3. Frame(n) \in Seq(Units) /\ Len(Frame(n)) = n
    BY <2>1, FrameFact
  <2>4. gone' = gone + n - k
    BY <1>3, <2>2, <2>3 DEF dash_audio_write_frame, audio_fifo_write_raw, Frame
  <2>5. gone' \in Nat
    BY <1>0, <2>4
  <2>6. SubSeq(Frame(n), 1, k) \in Seq(Units)
    BY <2>3
  <2>7. Contents' \in Seq(Units)
    BY <1>0, <2>2, <2>6
  <2>8. rd'.made = rd.made + n
    BY <1>0, <2>1 DEF RdShape
  <2>9. AudioAccounted'
    <3>1. InHand' = InHand /\ InHand \in Nat
      BY <1>2, <2>1 DEF InHand
    <3>2. rd.made = heard.n + gone + count + InHand
      BY <1>0 DEF AudioAccounted
    <3>3. heard'.n = heard.n
      BY <2>1
    <3>4. count' = count + k /\ k \in Int
      BY <2>2
    <3>5. n \in Int /\ gone \in Int /\ count \in Int /\ heard.n \in Int /\ InHand \in Int
      BY <1>0, <1>1, <1>2, <3>1
    <3>6. rd'.made = heard'.n + gone' + count' + InHand'
      BY <2>4, <2>8, <3>1, <3>2, <3>3, <3>4, <3>5
    <3> QED BY <3>6 DEF AudioAccounted
  <2> QED BY <2>1, <2>5, <2>7, <2>9
<1>4. CASE FellBehind \/ LiveEdgeReset
  <2>1. gone' = gone + count /\ heard' = heard /\ wk' = wk /\ vmc_ringbuf_reset
    BY <1>4 DEF FellBehind, LiveEdgeReset, FlushFifo
  <2>2. Contents' = <<>> /\ count' = 0
    BY <2>1, QueueFlush
  <2>3. rd'.made = rd.made
    BY <1>0, <1>4 DEF FellBehind, LiveEdgeReset, RdShape
  <2>4. InHand' = InHand /\ InHand \in Nat
    BY <1>2, <2>1 DEF InHand
  <2>5. AudioAccounted'
    <3>1. rd.made = heard.n + gone + count + InHand
      BY <1>0 DEF AudioAccounted
    <3>2. gone \in Int /\ count \in Int /\ heard.n \in Int
      BY <1>0, <1>1, <1>2
    <3>3. heard'.n = heard.n /\ gone' = gone + count
      BY <2>1
    <3>4. count' = 0
      BY <2>2
    <3>5. rd'.made = heard'.n + gone' + count' + InHand'
      BY <2>3, <2>4, <3>1, <3>2, <3>3, <3>4
    <3> QED BY <3>5 DEF AudioAccounted
  <2>6. gone' \in Nat
    BY <1>0, <1>1, <2>1
  <2> QED BY <1>0, <2>1, <2>2, <2>5, <2>6
<1>5. CASE TakePeriod
  <2>1. PICK k \in 0..count :
          /\ count' = count - k
          /\ wk' = [wk EXCEPT !.pc = "render", !.pcm = SubSeq(Contents, 1, k)]
          /\ Contents' = SubSeq(Contents, k + 1, count)
    BY <1>5, QueueTake
  <2>2. wk.pc = "take" /\ UNCHANGED <<rd, heard, gone>>
    BY <1>5 DEF TakePeriod, wkRest
  <2>3. Len(SubSeq(Contents, 1, k)) = k
    BY <1>0, <1>1
  <2>4. InHand = 0 /\ InHand' = k
    BY <1>0, <2>1, <2>2, <2>3 DEF InHand, WkShape
  <2>5. AudioAccounted'
    <3>1. rd.made = heard.n + gone + count + InHand
      BY <1>0 DEF AudioAccounted
    <3>2. gone \in Int /\ count \in Int /\ heard.n \in Int
      BY <1>0, <1>1, <1>2
    <3>3. heard'.n = heard.n /\ gone' = gone /\ rd'.made = rd.made
      BY <2>2
    <3>4. count' = count - k /\ k \in Int
      BY <2>1
    <3>5. rd'.made = heard'.n + gone' + count' + InHand'
      BY <2>4, <3>1, <3>2, <3>3, <3>4
    <3> QED BY <3>5 DEF AudioAccounted
  <2>6. Contents' \in Seq(Units)
    BY <1>0, <1>1, <2>1
  <2> QED BY <1>0, <2>2, <2>5, <2>6
<1>6. CASE Render
  <2>1. wk.pc = "render" /\ UNCHANGED <<ringVars, rd>> /\ wk' = [wk EXCEPT !.pc = "clock"]
    BY <1>6 DEF Render, WkGoto, wkRest
  <2>2. Contents' = Contents /\ count' = count
    BY <2>1, QueueSame
  <2>3. InHand = Len(wk.pcm) /\ InHand' = 0
    BY <1>0, <2>1 DEF InHand, WkShape
  <2>4. /\ heard' \in [last : 0..MaxUnits, n : Nat] /\ gone' \in Nat
        /\ heard'.n + gone' = heard.n + gone + Len(wk.pcm)
    <3>1. CASE heard' = Played(wk.pcm) /\ gone' = gone
      <4>1. CASE wk.pcm = <<>>
        BY <1>0, <1>2, <3>1, <4>1 DEF Played
      <4>2. CASE wk.pcm # <<>>
        <5>1. heard' = [last |-> wk.pcm[Len(wk.pcm)], n |-> heard.n + Len(wk.pcm)]
          BY <3>1, <4>2 DEF Played
        <5>2. wk.pcm[Len(wk.pcm)] \in Units
          BY <1>0, <4>2 DEF WkShape
        <5>3. wk.pcm[Len(wk.pcm)] \in 0..MaxUnits
          BY <5>2 DEF Units
        <5>4. heard.n + Len(wk.pcm) \in Nat
          BY <1>2
        <5> QED BY <1>0, <1>2, <3>1, <5>1, <5>3, <5>4
      <4> QED BY <4>1, <4>2
    <3>2. CASE heard' = heard /\ gone' = gone + Len(wk.pcm)
      BY <1>0, <1>2, <3>2
    <3> QED BY <1>6, <3>1, <3>2 DEF Render, alsa_play
  <2>5. AudioAccounted'
    <3>1. rd.made = heard.n + gone + count + InHand
      BY <1>0 DEF AudioAccounted
    <3>2. gone \in Int /\ count \in Int /\ heard.n \in Int
      BY <1>0, <1>1, <1>2
    <3>3. rd'.made = rd.made
      BY <2>1
    <3>4. heard'.n \in Int /\ gone' \in Int
      BY <2>4
    <3>5. heard'.n + gone' = heard.n + gone + InHand /\ InHand \in Int
      BY <1>2, <2>3, <2>4
    <3>6. count' = count /\ InHand' = 0
      BY <2>2, <2>3
    <3>7. rd'.made = heard'.n + gone' + count' + InHand'
      BY <3>1, <3>2, <3>3, <3>4, <3>5, <3>6
    <3> QED BY <3>7 DEF AudioAccounted
  <2> QED BY <1>0, <2>2, <2>4, <2>5
<1>7. CASE MovesNothing
  <2>1. UNCHANGED <<ringVars, heard, gone>> /\ rd'.made = rd.made
        /\ (wk'.pc = "render" => wk.pc = "render" /\ wk'.pcm = wk.pcm)
        /\ (wk.pc = "render" => wk'.pc = "render")
    BY <1>7, NothingMoved
  <2>2. InHand' = InHand
    BY <2>1 DEF InHand
  <2>3. Contents' = Contents /\ count' = count
    BY <2>1, QueueSame
  <2> QED BY <1>0, <2>1, <2>2, <2>3 DEF AudioAccounted
<1> QED BY <1>0, <1>3, <1>4, <1>5, <1>6, <1>7, StepSplit

-----------------------------------------------------------------------------
(* Order                                                                   *)

\* Appending later content keeps a line rising.
LEMMA RisingAppend ==
  ASSUME NEW s \in Seq(Int), NEW lo \in Int, NEW hi \in Int, NEW top \in Int, Rising(s, lo, hi),
         NEW t \in Seq(Int), lo < hi, hi <= top,
         \A i \in 1..Len(t) : t[i] = hi + i - 1, hi + Len(t) <= top
  PROVE  Rising(s \o t, lo, top)
<1> DEFINE u == s \o t
<1>1. u \in Seq(Int) /\ Len(u) = Len(s) + Len(t) /\ Len(s) \in Nat /\ Len(t) \in Nat
  OBVIOUS
<1>2. \A i \in 1..Len(u) : u[i] = IF i <= Len(s) THEN s[i] ELSE t[i - Len(s)]
  OBVIOUS
<1> HIDE DEF u
<1>3. ASSUME NEW i \in 1..Len(u), i > Len(s)
      PROVE  u[i] = hi + (i - Len(s)) - 1 /\ u[i] \in Int
  <2>1. i - Len(s) \in 1..Len(t)
    BY <1>1, <1>3
  <2> QED BY <1>2, <1>3, <2>1
<1>4. ASSUME NEW i \in 1..Len(u), i <= Len(s)
      PROVE  u[i] = s[i] /\ i \in 1..Len(s) /\ u[i] \in Int
  <2>1. i \in 1..Len(s)
    BY <1>1, <1>4
  <2> QED BY <1>2, <1>4, <2>1
<1>5. ASSUME NEW i \in 1..Len(u)
      PROVE  lo < u[i] /\ u[i] < top
  <2>1. CASE i <= Len(s)
    <3>1. lo < u[i] /\ u[i] < hi
      BY <1>4, <2>1 DEF Rising
    <3>2. u[i] \in Int
      BY <1>4, <2>1
    <3> QED BY <3>1, <3>2
  <2>2. CASE i > Len(s)
    BY <1>1, <1>3, <2>2
  <2> QED BY <1>1, <2>1, <2>2
<1>6. ASSUME NEW i \in 1..Len(u), NEW j \in 1..Len(u), i < j
      PROVE  u[i] < u[j]
  <2>1. CASE j <= Len(s)
    <3>1. i <= Len(s)
      BY <1>1, <1>6, <2>1
    <3> QED BY <1>4, <1>6, <2>1, <3>1 DEF Rising
  <2>2. CASE j > Len(s) /\ i <= Len(s)
    <3>1. u[i] < hi
      BY <1>4, <2>2 DEF Rising
    <3> QED BY <1>1, <1>3, <1>4, <2>2, <3>1
  <2>3. CASE j > Len(s) /\ i > Len(s)
    BY <1>1, <1>3, <1>6, <2>3
  <2>4. i \in Int /\ j \in Int /\ Len(s) \in Int
    BY <1>1
  <2>5. (j <= Len(s)) \/ (j > Len(s) /\ i <= Len(s)) \/ (j > Len(s) /\ i > Len(s))
    BY <2>4
  <2> QED BY <2>1, <2>2, <2>3, <2>5
<1>7. Rising(u, lo, top)
  BY <1>5, <1>6 DEF Rising
<1> QED BY <1>7 DEF u

\* A cut of a rising line splits it into two, the first all before the second.
LEMMA RisingCut ==
  ASSUME NEW s \in Seq(Int), NEW lo, NEW hi, Rising(s, lo, hi), NEW k \in 0..Len(s)
  PROVE  /\ Rising(SubSeq(s, 1, k), lo, hi)
         /\ Rising(SubSeq(s, k + 1, Len(s)), lo, hi)
         /\ \A i \in 1..k, j \in 1..Len(s) - k :
              SubSeq(s, 1, k)[i] < SubSeq(s, k + 1, Len(s))[j]
<1> DEFINE a == SubSeq(s, 1, k)
           b == SubSeq(s, k + 1, Len(s))
<1>1. Len(s) \in Nat /\ k \in Nat /\ k <= Len(s)
  OBVIOUS
<1>2. Len(a) = k /\ \A i \in 1..k : a[i] = s[i] /\ i \in 1..Len(s)
  BY <1>1
<1>3. Len(b) = Len(s) - k /\ \A i \in 1..Len(s) - k : b[i] = s[k + i] /\ k + i \in 1..Len(s)
  BY <1>1
<1> HIDE DEF a, b
<1>4. Rising(a, lo, hi)
  BY <1>2 DEF Rising
<1>5. Rising(b, lo, hi)
  <2>1. ASSUME NEW i \in 1..Len(s) - k, NEW j \in 1..Len(s) - k, i < j
        PROVE  b[i] < b[j]
    <3>1. k + i < k + j
      BY <1>1, <2>1
    <3> QED BY <1>3, <3>1 DEF Rising
  <2>2. ASSUME NEW i \in 1..Len(s) - k
        PROVE  lo < b[i] /\ b[i] < hi
    BY <1>3 DEF Rising
  <2> QED BY <1>3, <2>1, <2>2 DEF Rising
<1>6. ASSUME NEW i \in 1..k, NEW j \in 1..Len(s) - k
      PROVE  a[i] < b[j]
  <2>1. i < k + j
    BY <1>1
  <2> QED BY <1>2, <1>3, <2>1 DEF Rising
<1> QED BY <1>4, <1>5, <1>6 DEF a, b

LEMMA OrderWrite ==
  ASSUME AudioInv, NEW n \in 1..MaxLen, dash_audio_write_frame(n)
  PROVE  LineOrdered'
<1>0. /\ rd \in RdShape /\ wk \in WkShape /\ heard.last \in Int
      /\ Contents \in Seq(Units)
  BY AudioAssumption DEF AudioInv, TypeOK, RdShape, WkShape
<1>1. RingInv /\ Len(Contents) = count /\ count \in Nat
  <2>1. RingInv
    BY DEF AudioInv, TypeOK, RingInv
  <2> QED BY <2>1, CapacityAssumption, ContentsFact DEF RingInv, RingTypeOK
<1>2. rd.made + n <= MaxUnits /\ vmc_ringbuf_write(Frame(n)) /\ wk' = wk /\ heard' = heard
      /\ rd' = [rd EXCEPT !.next = rd.next + n, !.made = rd.made + n, !.some = TRUE]
  BY DEF dash_audio_write_frame, audio_fifo_write_raw, Frame
<1>3. rd'.next = rd.next + n /\ rd'.made = rd.made + n /\ n \in Nat
      /\ rd.next \in Int /\ rd.made \in Int /\ MaxUnits \in Nat
  BY <1>0, <1>2, Bounds DEF RdShape
<1>4. PICK k \in 0..n :
        count' = count + k /\ Contents' = Contents \o SubSeq(Frame(n), 1, k)
  BY <1>2, QueueWrite
<1> DEFINE t == SubSeq(Frame(n), 1, k)
<1>5. t \in Seq(Units) /\ Len(t) = k /\ \A i \in 1..k : t[i] = rd.next + i - 1
  <2>1. Frame(n) \in Seq(Units) /\ Len(Frame(n)) = n
        /\ \A i \in 1..n : Frame(n)[i] = rd.next + i - 1
    BY <1>2, FrameFact
  <2> QED BY <1>3, <2>1
<1>6. \A s \in Seq(Units) : s \in Seq(Int)
  BY <1>3 DEF Units
<1>7. Contents' = Contents \o t
  BY <1>4
<1> HIDE DEF t
<1>8. SUFFICES ASSUME rd.made = rd.next - 1
               PROVE  /\ heard.last < rd'.next
                      /\ Rising(Contents', heard.last, rd'.next)
                      /\ wk.pc = "render" =>
                           /\ Rising(wk.pcm, heard.last, rd'.next)
                           /\ \A i \in 1..Len(wk.pcm), j \in 1..count' :
                                wk.pcm[i] < Contents'[j]
  <2>1. rd'.made = rd'.next - 1 => rd.made = rd.next - 1
    BY <1>3
  <2> QED BY <1>2, <2>1 DEF LineOrdered
<1>9. /\ heard.last < rd.next
      /\ Rising(Contents, heard.last, rd.next)
      /\ wk.pc = "render" =>
           /\ Rising(wk.pcm, heard.last, rd.next)
           /\ \A i \in 1..Len(wk.pcm), j \in 1..count : wk.pcm[i] < Contents[j]
  BY <1>8 DEF AudioInv, LineOrdered
<1>10. Rising(Contents \o t, heard.last, rd.next + n)
  <2>1. rd.next <= rd.next + n /\ rd.next + Len(t) <= rd.next + n /\ rd.next + n \in Int
    BY <1>3, <1>5
  <2>2. Contents \in Seq(Int) /\ t \in Seq(Int)
    BY <1>0, <1>5, <1>6
  <2> QED BY <1>0, <1>3, <1>5, <1>9, <2>1, <2>2, RisingAppend
<1>11. ASSUME wk.pc = "render"
       PROVE  /\ Rising(wk.pcm, heard.last, rd.next + n)
              /\ \A i \in 1..Len(wk.pcm), j \in 1..count + k : wk.pcm[i] < Contents'[j]
  <2>1. \A i \in 1..Len(wk.pcm) : wk.pcm[i] \in Int /\ wk.pcm[i] < rd.next
    BY <1>0, <1>3, <1>9, <1>11 DEF WkShape, Units, Rising
  <2>2. Rising(wk.pcm, heard.last, rd.next + n)
    <3>1. \A i \in 1..Len(wk.pcm) : wk.pcm[i] < rd.next + n
      BY <1>3, <2>1
    <3> QED BY <1>9, <1>11, <3>1 DEF Rising
  <2>3. ASSUME NEW i \in 1..Len(wk.pcm), NEW j \in 1..count + k
        PROVE  wk.pcm[i] < Contents'[j]
    <3>1. CASE j <= count
      <4>1. j \in 1..count /\ Contents'[j] = Contents[j]
        BY <1>0, <1>1, <1>5, <1>7, <3>1
      <4> QED BY <1>9, <1>11, <4>1
    <3>2. CASE j > count
      <4>1. j - count \in 1..k /\ Contents'[j] = t[j - count]
        BY <1>0, <1>1, <1>5, <1>7, <3>2
      <4>2. Contents'[j] = rd.next + (j - count) - 1
        BY <1>5, <4>1
      <4>3. rd.next <= rd.next + (j - count) - 1 /\ j - count \in Int
        BY <1>3, <4>1
      <4>4. wk.pcm[i] \in Int /\ wk.pcm[i] < rd.next
        BY <2>1
      <4>5. wk.pcm[i] < rd.next + (j - count) - 1
        BY <1>3, <4>3, <4>4
      <4> QED BY <4>2, <4>5
    <3> QED BY <1>1, <3>1, <3>2
  <2> QED BY <2>2, <2>3
<1>12. heard.last < rd.next + n
  BY <1>0, <1>3, <1>9
<1> QED BY <1>3, <1>4, <1>10, <1>11, <1>12, <1>7

\* The order of the line is kept by every step.
LEMMA OrderStep ==
  ASSUME AudioInv, [Next]_vars
  PROVE  LineOrdered'
<1>0. /\ rd \in RdShape /\ wk \in WkShape /\ heard.last \in Int
      /\ Contents \in Seq(Units) /\ rd.next <= rd.made + 1
  BY AudioAssumption DEF AudioInv, TypeOK, RdShape, WkShape
<1>1. Len(Contents) = count /\ count \in Nat
  BY CapacityAssumption, AudioRingInv, ContentsFact DEF RingInv, RingTypeOK
<1>2. \A s \in Seq(Units) : s \in Seq(Int)
  BY Bounds DEF Units
<1>3. rd.next \in Int /\ rd.made \in Int
  BY <1>0, Bounds DEF RdShape
<1>4. rd.made = rd.next - 1 =>
        /\ heard.last < rd.next
        /\ Rising(Contents, heard.last, rd.next)
        /\ wk.pc = "render" =>
             /\ Rising(wk.pcm, heard.last, rd.next)
             /\ \A i \in 1..Len(wk.pcm), j \in 1..count : wk.pcm[i] < Contents[j]
  BY DEF AudioInv, LineOrdered
<1>5. CASE FellBehind \/ LiveEdgeReset
  <2>1. heard' = heard /\ wk' = wk /\ vmc_ringbuf_reset
    BY <1>5 DEF FellBehind, LiveEdgeReset, FlushFifo
  <2>2. Contents' = <<>> /\ count' = 0
    BY <2>1, QueueFlush
  <2>3. rd'.made = rd.made /\ rd'.next = rd.next
    BY <1>0, <1>5 DEF FellBehind, LiveEdgeReset, RdShape
  <2>4. Rising(<<>>, heard.last, rd.next)
    BY DEF Rising
  <2>5. 1..0 = {}
    OBVIOUS
  <2> QED BY <1>4, <2>1, <2>2, <2>3, <2>4, <2>5 DEF LineOrdered
<1>6. CASE TakePeriod
  <2>1. PICK k \in 0..count :
          /\ count' = count - k
          /\ wk' = [wk EXCEPT !.pc = "render", !.pcm = SubSeq(Contents, 1, k)]
          /\ Contents' = SubSeq(Contents, k + 1, count)
    BY <1>6, QueueTake
  <2>2. UNCHANGED <<rd, heard>>
    BY <1>6 DEF TakePeriod, wkRest
  <2>3. wk'.pcm = SubSeq(Contents, 1, k) /\ Len(SubSeq(Contents, 1, k)) = k
    <3>1. wk'.pcm = SubSeq(Contents, 1, k)
      BY <1>0, <2>1 DEF WkShape
    <3>2. Len(SubSeq(Contents, 1, k)) = k
      BY <1>0, <1>1
    <3> QED BY <3>1, <3>2
  <2>4. ASSUME rd.made = rd.next - 1
        PROVE  /\ Rising(SubSeq(Contents, 1, k), heard.last, rd.next)
               /\ Rising(SubSeq(Contents, k + 1, count), heard.last, rd.next)
               /\ \A i \in 1..k, j \in 1..count - k :
                    SubSeq(Contents, 1, k)[i] < SubSeq(Contents, k + 1, count)[j]
    <3>1. Contents \in Seq(Int) /\ Rising(Contents, heard.last, rd.next)
      BY <1>0, <1>2, <1>4, <2>4
    <3>2. k \in 0..Len(Contents)
      BY <1>1
    <3> QED BY <1>1, <3>1, <3>2, RisingCut
  <2> QED BY <1>4, <2>1, <2>2, <2>3, <2>4 DEF LineOrdered
<1>7. CASE Render
  <2>1. wk.pc = "render" /\ UNCHANGED <<ringVars, rd>> /\ wk' = [wk EXCEPT !.pc = "clock"]
    BY <1>7 DEF Render, WkGoto, wkRest
  <2>2. Contents' = Contents /\ count' = count
    BY <2>1, QueueSame
  <2>3. wk'.pc # "render"
    BY <1>0, <2>1 DEF WkShape
  <2>4. CASE heard' = heard
    BY <1>4, <2>1, <2>2, <2>3, <2>4 DEF LineOrdered
  <2>5. CASE wk.pcm # <<>> /\ heard'.last = wk.pcm[Len(wk.pcm)]
    <3> SUFFICES ASSUME rd.made = rd.next - 1
                 PROVE  heard'.last < rd.next /\ Rising(Contents, heard'.last, rd.next)
      BY <2>1, <2>2, <2>3 DEF LineOrdered
    <3>1. Len(wk.pcm) \in 1..Len(wk.pcm)
      BY <1>0, <2>5 DEF WkShape
    <3>2. heard'.last < rd.next
      BY <1>4, <2>1, <2>5, <3>1 DEF Rising
    <3>3. \A j \in 1..count : heard'.last < Contents[j]
      BY <1>4, <2>1, <2>5, <3>1
    <3>4. Rising(Contents, heard.last, rd.next)
      BY <1>4
    <3> QED BY <1>1, <3>2, <3>3, <3>4 DEF Rising
  <2>6. heard' = heard \/ (wk.pcm # <<>> /\ heard'.last = wk.pcm[Len(wk.pcm)])
    BY <1>7 DEF Render, alsa_play, Played
  <2> QED BY <2>4, <2>5, <2>6
<1>8. CASE MovesNothing
  <2>1. UNCHANGED <<ringVars, heard, gone>> /\ rd'.made = rd.made /\ rd'.next <= rd.next
        /\ (wk'.pc = "render" => wk.pc = "render" /\ wk'.pcm = wk.pcm)
    BY <1>8, NothingMoved
  <2>2. Contents' = Contents /\ count' = count
    BY <2>1, QueueSame
  <2>3. rd' \in RdShape
    BY RdTyped
  <2>4. rd'.next \in Int
    BY <2>3, Bounds DEF RdShape
  <2>5. rd'.made = rd'.next - 1 => rd'.next = rd.next /\ rd.made = rd.next - 1
    BY <1>0, <1>3, <2>1, <2>4
  <2> QED BY <1>4, <2>1, <2>2, <2>5 DEF LineOrdered
<1> QED BY <1>5, <1>6, <1>7, <1>8, StepSplit, OrderWrite

-----------------------------------------------------------------------------
(* The theorems                                                            *)

LEMMA AudioStart ==
  ASSUME Init
  PROVE  AudioInv
<1>1. RingInv /\ RingTypeOK /\ count = 0
  BY RingInit DEF Init, vmc_ringbuf_init, RingInv
<1>2. Contents = <<>>
  <2>1. Len(Contents) = 0 /\ Contents \in Seq(Bytes)
    BY <1>1, ContentsFact
  <2> QED BY <2>1
<1>3. wk \in WkShape /\ Len(wk.pcm) <= Period /\ wk.pc = "prefill"
  <2>1. wk = [pc |-> "prefill", waited |-> 0, pcm |-> <<>>]
    BY DEF Init
  <2>2. 0 \in 0..MaxWaits /\ <<>> \in Seq(Units) /\ Len(<<>>) <= Period
    BY Bounds
  <2> QED BY <2>1, <2>2 DEF WkShape
<1>4. rd \in RdShape /\ rd.next = 1 /\ rd.made = 0
  <2>1. rd = [pc |-> "run", next |-> 1, made |-> 0, some |-> FALSE]
    BY DEF Init
  <2>2. 1 \in 1..MaxUnits + 1 /\ 0 \in 0..MaxUnits
    BY Bounds
  <2> QED BY <2>1, <2>2 DEF RdShape
<1>5. clk \in ClkShape
  <2>1. None \in None..MaxAge /\ MaxAge \in 0..MaxAge
    BY Bounds DEF None
  <2> QED BY <2>1 DEF Init, InitClock, ClkShape
<1>6. FlagsOK
  <2>1. pw = [pc |-> "gate", waits |-> 0] /\ 0 \in 0..MaxGate
    <3>1. pw = [pc |-> "gate", waits |-> 0]
      BY Zenon DEF Init
    <3>2. 0 \in 0..MaxGate
      BY Bounds
    <3> QED BY <3>1, <3>2
  <2>2. sink \in {"open", "closed"}
    BY DEF Init, vmc_alsa_sink_init
  <2>3. woken = FALSE /\ mw = "run" /\ g_first_video_ready = FALSE /\ g_run_audio = TRUE
    BY DEF Init
  <2> QED BY <2>1, <2>2, <2>3 DEF FlagsOK
<1>7. heard \in [last : 0..MaxUnits, n : Nat] /\ gone = 0 /\ heard.n = 0 /\ heard.last = 0
      /\ flushes \in 0..MaxFlushes
  <2>1. heard = [last |-> 0, n |-> 0] /\ gone = 0 /\ flushes = 0
    BY DEF Init
  <2>2. 0 \in 0..MaxUnits /\ 0 \in 0..MaxFlushes
    BY Bounds
  <2> QED BY <2>1, <2>2
<1>8. TypeOK
  BY <1>1, <1>3, <1>4, <1>5, <1>6, <1>7 DEF TypeOK, WkShape, RdShape, ClkShape, FlagsOK
<1>9. AudioAccounted
  BY <1>1, <1>3, <1>4, <1>7 DEF AudioAccounted, InHand
<1>10. LineOrdered
  <2>1. Rising(<<>>, 0, 1)
    BY DEF Rising
  <2> QED BY <1>2, <1>3, <1>4, <1>7, <2>1 DEF LineOrdered
<1>11. rd.next <= rd.made + 1 /\ Contents \in Seq(Units)
  BY <1>2, <1>4
<1> QED BY <1>1, <1>8, <1>9, <1>10, <1>11 DEF AudioInv, RingInv

LEMMA AudioStep ==
  ASSUME AudioInv, [Next]_vars
  PROVE  AudioInv'
<1>1. FlagsOK'
  <2>1. FlagsOK
    BY DEF AudioInv, TypeOK, FlagsOK
  <2> QED BY <2>1, FlagsTyped
<1>2. wk' \in WkShape /\ Len(wk'.pcm) <= Period
  BY WkTyped
<1>3. rd' \in RdShape /\ rd'.next <= rd'.made + 1 /\ flushes' \in 0..MaxFlushes
  BY RdTyped
<1>4. clk' \in ClkShape
  BY ClkTyped
<1>5. /\ AudioAccounted'
      /\ heard' \in [last : 0..MaxUnits, n : Nat] /\ gone' \in Nat
      /\ Contents' \in Seq(Units)
  BY BooksStep
<1>6. RingTypeOK' /\ CountIsDistance'
  BY AudioRingInv
<1>7. TypeOK'
  BY <1>1, <1>2, <1>3, <1>4, <1>5, <1>6 DEF TypeOK, FlagsOK, WkShape, RdShape, ClkShape
<1> QED BY <1>3, <1>5, <1>6, <1>7, OrderStep DEF AudioInv

\* Audio's variables keep their types, and the ring's its bounds, through
\* every interleaving of the reader, the worker, the main thread and the sink.
THEOREM AudioTyped == Spec => []TypeOK
<1>1. AudioInv => TypeOK
  BY DEF AudioInv
<1> QED BY <1>1, AudioStart, AudioStep, PTL DEF Spec

\* Every unit the reader delivers is heard, dropped, in the FIFO or in the
\* worker's hand, exactly once: dash_audio_write_frame, the flushes,
\* audio_worker's reads and alsa_play keep the books for every capacity,
\* period and sequence of faults.
THEOREM AudioBooks == Spec => []AudioAccounted
<1>1. AudioInv => AudioAccounted
  BY DEF AudioInv
<1> QED BY <1>1, AudioStart, AudioStep, PTL DEF Spec

\* Until the watchdog restarts the reader, what alsa_play hands to the device
\* is later content than all it was handed before, in rising order.
THEOREM AudioInOrder == Spec => HeardInOrder
<1>1. ASSUME AudioInv, [Next]_vars
      PROVE  [heard'.n > heard.n /\ rd.made = rd.next - 1 => InContentOrder]_vars
  <2> SUFFICES ASSUME heard'.n > heard.n, rd.made = rd.next - 1
               PROVE  InContentOrder
    OBVIOUS
  <2>0. heard.n \in Nat /\ wk \in WkShape
    BY <1>1 DEF AudioInv, TypeOK, WkShape
  <2>1. heard' # heard
    BY <2>0
  <2>2. Render
    <3>1. ASSUME NEW n \in 1..MaxLen, dash_audio_write_frame(n)
          PROVE  heard' = heard
      BY <3>1 DEF dash_audio_write_frame
    <3>2. FellBehind \/ LiveEdgeReset \/ TakePeriod => heard' = heard
      BY DEF FellBehind, LiveEdgeReset, TakePeriod
    <3>3. MovesNothing => heard' = heard
      BY <1>1, NothingMoved
    <3> QED BY <1>1, <2>1, <3>1, <3>2, <3>3, StepSplit
  <2>3. wk.pc = "render" /\ wk.pcm # <<>>
    BY <2>1, <2>2 DEF Render, alsa_play, Played
  <2>4. Rising(wk.pcm, heard.last, rd.next)
    BY <1>1, <2>3 DEF AudioInv, LineOrdered
  <2>5. DOMAIN wk.pcm = 1..Len(wk.pcm) /\ 1 \in 1..Len(wk.pcm)
    BY <2>0, <2>3 DEF WkShape
  <2>6. heard.last < wk.pcm[1]
    BY <2>4, <2>5 DEF Rising
  <2>7. wk.pcm[1] > heard.last
    <3>1. wk.pcm[1] \in Units /\ heard.last \in 0..MaxUnits
      BY <1>1, <2>0, <2>5 DEF AudioInv, TypeOK, WkShape
    <3> QED BY <2>6, <3>1, Bounds DEF Units
  <2> QED BY <2>4, <2>5, <2>7 DEF Rising, InContentOrder
<1> QED BY <1>1, AudioStart, AudioStep, PTL DEF Spec, HeardInOrder

\* Inside the audio path the ring is the bounded FIFO of ringbuf.h: no thread
\* uses it in a way the refinement of the ring alone does not cover.
THEOREM AudioFifo == Spec => ImplementsFifo
<1>1. Init => Fifo!Init
  <2> SUFFICES ASSUME Init PROVE Fifo!Init
    OBVIOUS
  <2>1. count = 0 /\ out = <<>> /\ ret = 0
    BY DEF Init, vmc_ringbuf_init
  <2>2. Contents = <<>>
    BY <2>1 DEF Contents
  <2> QED BY <2>1, <2>2 DEF Fifo!Init
<1>2. AudioInv /\ [Next]_vars => [Fifo!Next]_(Fifo!vars)
  <2> SUFFICES ASSUME AudioInv, [Next]_vars PROVE [Fifo!Next]_(Fifo!vars)
    OBVIOUS
  <2> QED BY AudioRingInv, AudioRingStep, StepRefines
<1> QED BY <1>1, <1>2, AudioStart, AudioStep, PTL DEF Spec, ImplementsFifo, Fifo!Spec
=============================================================================
