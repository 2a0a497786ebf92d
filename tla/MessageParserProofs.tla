------------------------- MODULE MessageParserProofs -------------------------
(***************************************************************************)
(* Proofs about MessageParser, for every string of bytes of any length and *)
(* every AddrLen: lengths are read as they must be written, no read goes   *)
(* past the end, whatever a serializer writes is read back as it was       *)
(* written, and whatever is read is what a serializer writes.              *)
(***************************************************************************)
EXTENDS MessageParser, Induction, SequenceTheorems

\* The bytes that end a length and those another one follows.
Low  == 0..127
High == 128..255

-----------------------------------------------------------------------------
(* Lengths.                                                                *)

\* The least member of a set of numbers.
LEMMA MinIs ==
  ASSUME NEW T \in SUBSET Int, NEW x \in T, \A y \in T : x <= y
  PROVE  Min(T) = x
  <1>1. \A z \in T : (\A y \in T : z <= y) => z = x
    OBVIOUS
  <1>2. \E z \in T : \A y \in T : z <= y
    OBVIOUS
  <1> QED
    BY <1>1, <1>2 DEF Min

\* A byte of the string, at a place within it.
LEMMA ByteAt ==
  ASSUME NEW b \in Seq(Byte), NEW i \in Int, i >= 1, i <= Len(b)
  PROVE  b[i] \in Byte
  <1>1. Len(b) \in Nat
    BY LenProperties
  <1>2. i \in 1..Len(b)
    BY <1>1
  <1> QED
    BY <1>2, ElementOfSeq

\* What is left of a byte without its high bit.
LEMMA Septet ==
  ASSUME NEW x \in 0..255
  PROVE  x % 128 = IF x < 128 THEN x ELSE x - 128
  OBVIOUS

\* Byte k of those at off is the first without a continuation bit.
StopsAt(b, off, k) ==
  /\ k \in 1..3
  /\ off + k <= Len(b) /\ b[off + k] < 128
  /\ \A i \in 1..3 : i < k => ~(off + i <= Len(b) /\ b[off + i] < 128)

\* The number the first k bytes at off make.
Septets(b, off, k) ==
  (IF 1 <= k THEN b[off + 1] % 128 ELSE 0)
    + 128 * (IF 2 <= k THEN b[off + 2] % 128 ELSE 0)
    + 16384 * (IF 3 <= k THEN b[off + 3] % 128 ELSE 0)

\* compactU16, by where that byte stands.
LEMMA CompactStops ==
  ASSUME NEW b, NEW off, NEW k, StopsAt(b, off, k)
  PROVE  compactU16(b, off) =
           IF (k > 1 /\ b[off + k] = 0) \/ Septets(b, off, k) > MaxLength
           THEN Failed ELSE Read(off + k, Septets(b, off, k))
  <1> DEFINE stops == { i \in 1..3 : off + i <= Len(b) /\ b[off + i] < 128 }
             n     == Min(stops)
             septet(i) == IF i <= n THEN b[off + i] % 128 ELSE 0
             val   == septet(1) + 128 * septet(2) + 16384 * septet(3)
  <1>1. compactU16(b, off) =
          IF stops = {} \/ (n > 1 /\ b[off + n] = 0) \/ val > MaxLength
          THEN Failed ELSE Read(off + n, val)
    BY DEF compactU16
  <1>2. stops \in SUBSET Int
    OBVIOUS
  <1>3. k \in stops
    BY DEF StopsAt
  <1>4. \A y \in stops : k <= y
    BY DEF StopsAt
  <1> HIDE DEF stops
  <1>5. Min(stops) = k
    BY <1>2, <1>3, <1>4, MinIs
  <1>6. n = k
    BY <1>5
  <1> HIDE DEF n
  <1>7. val = Septets(b, off, k)
    BY <1>6 DEF Septets
  <1> HIDE DEF val
  <1> QED
    BY <1>1, <1>3, <1>6, <1>7

\* And when there is no such byte.
LEMMA CompactRunsOn ==
  ASSUME NEW b, NEW off,
         \A i \in 1..3 : ~(off + i <= Len(b) /\ b[off + i] < 128)
  PROVE  compactU16(b, off) = Failed
  BY DEF compactU16

\* What two and three septets can make.
Val2(x, y)    == (x - 128) + 128 * y
Val3(x, y, z) == (x - 128) + 128 * (y - 128) + 16384 * z

\* A length of two bytes has at most fourteen bits.
LEMMA TwoSeptets ==
  ASSUME NEW p \in High, NEW q \in Low
  PROVE  /\ Val2(p, q) \in Int
         /\ Val2(p, q) >= 0
         /\ Val2(p, q) <= 16383
  <1> DEFINE high == 128 * q
  <1>1. high \in Int /\ high >= 0 /\ high <= 16256
    BY DEF Low
  <1> HIDE DEF high
  <1>2. Val2(p, q) = (p - 128) + high
    BY DEF Val2, high
  <1> QED
    BY <1>1, <1>2 DEF High

\* A length of three bytes fits in sixteen bits exactly when its last byte is
\* at most 3.
LEMMA ThreeSeptets ==
  ASSUME NEW p \in High, NEW q \in High, NEW r \in Low
  PROVE  /\ Val3(p, q, r) \in Int
         /\ Val3(p, q, r) >= 0
         /\ Val3(p, q, r) > 65535 <=> r > 3
  <1> DEFINE low  == (p - 128) + 128 * (q - 128)
             high == 16384 * r
  <1>1. low \in Int /\ low >= 0 /\ low <= 16383
    BY DEF High
  <1>2. /\ high \in Int /\ high >= 0
        /\ (r > 3 => high >= 65536) /\ (~(r > 3) => high <= 49152)
    BY DEF Low
  <1>3. Val3(p, q, r) = low + high
    BY DEF Val3
  <1> HIDE DEF low, high
  <1> QED
    BY <1>1, <1>2, <1>3

\* A length of two bytes is never out of range.
LEMMA Val2Fits ==
  ASSUME NEW p \in High, NEW q \in Low PROVE Val2(p, q) \in 0..MaxLength
  <1>1. MaxLength \in Int
    BY DEF MaxLength
  <1>2. Val2(p, q) \in Int /\ Val2(p, q) >= 0 /\ Val2(p, q) <= MaxLength
    BY TwoSeptets DEF MaxLength
  <1> QED
    BY <1>1, <1>2

\* A length of three bytes is in range when its last byte is 1, 2 or 3.
LEMMA Val3Fits ==
  ASSUME NEW p \in High, NEW q \in High, NEW r \in Low, r \in 1..3
  PROVE  Val3(p, q, r) \in 0..MaxLength
  <1>1. MaxLength \in Int
    BY DEF MaxLength
  <1>2. Val3(p, q, r) \in Int /\ Val3(p, q, r) >= 0 /\ Val3(p, q, r) <= MaxLength
    BY ThreeSeptets DEF MaxLength
  <1> QED
    BY <1>1, <1>2

\* A length is read in one of four ways.
OneByte(b, off) ==
  /\ off + 1 <= Len(b) /\ b[off + 1] \in Low
  /\ compactU16(b, off) = Read(off + 1, b[off + 1])

TwoBytes(b, off) ==
  /\ off + 2 <= Len(b) /\ b[off + 1] \in High /\ b[off + 2] \in Low
  /\ compactU16(b, off) =
       IF b[off + 2] = 0 THEN Failed
       ELSE Read(off + 2, Val2(b[off + 1], b[off + 2]))

ThreeBytes(b, off) ==
  /\ off + 3 <= Len(b)
  /\ b[off + 1] \in High /\ b[off + 2] \in High /\ b[off + 3] \in Low
  /\ compactU16(b, off) =
       IF b[off + 3] \notin 1..3 THEN Failed
       ELSE Read(off + 3, Val3(b[off + 1], b[off + 2], b[off + 3]))

NoLength(b, off) ==
  /\ \A i \in 1..3 : off + i <= Len(b) => b[off + i] \in High
  /\ compactU16(b, off) = Failed

\* compactU16 on a byte below 128.
LEMMA CompactOne ==
  ASSUME NEW b, NEW off, NEW x \in Low, off + 1 <= Len(b), b[off + 1] = x
  PROVE  OneByte(b, off)
  <1>1. Septets(b, off, 1) = x
    BY Septet DEF Septets, Low
  <1>2. StopsAt(b, off, 1)
    BY DEF StopsAt, Low
  <1>3. compactU16(b, off) = IF (1 > 1 /\ b[off + 1] = 0) \/ x > MaxLength
                             THEN Failed ELSE Read(off + 1, x)
    BY <1>1, <1>2, CompactStops
  <1>4. compactU16(b, off) = Read(off + 1, x)
    BY <1>3 DEF MaxLength, Low
  <1> QED
    BY <1>4 DEF OneByte

\* compactU16 when the second byte ends the length.
LEMMA CompactTwo ==
  ASSUME NEW b, NEW off, NEW x \in High, NEW y \in Low,
         off + 2 <= Len(b), b[off + 1] = x, b[off + 2] = y
  PROVE  TwoBytes(b, off)
  <1>1. Septets(b, off, 2) = Val2(x, y)
    BY Septet DEF Septets, Low, High, Val2
  <1>2. ~(Val2(x, y) > 65535)
    BY TwoSeptets
  <1>3. StopsAt(b, off, 2)
    BY DEF StopsAt, Low, High
  <1>4. compactU16(b, off) = IF (2 > 1 /\ b[off + 2] = 0) \/ Val2(x, y) > MaxLength
                             THEN Failed ELSE Read(off + 2, Val2(x, y))
    BY <1>1, <1>3, CompactStops
  <1>5. compactU16(b, off) = IF y = 0 THEN Failed ELSE Read(off + 2, Val2(x, y))
    BY <1>2, <1>4 DEF MaxLength
  <1> QED
    BY <1>5 DEF TwoBytes

\* compactU16 when the first two bytes continue.
LEMMA CompactThree ==
  ASSUME NEW b, NEW off, NEW x \in High, NEW y \in High, NEW z \in Low,
         off + 3 <= Len(b), b[off + 1] = x, b[off + 2] = y, b[off + 3] = z
  PROVE  ThreeBytes(b, off)
  <1>1. /\ b[off + 1] % 128 = x - 128 /\ b[off + 2] % 128 = y - 128
        /\ b[off + 3] % 128 = z
    BY Septet DEF Low, High
  <1>2. Septets(b, off, 3) = Val3(x, y, z)
    BY <1>1 DEF Septets, Val3
  <1>3. Val3(x, y, z) > 65535 <=> z > 3
    BY ThreeSeptets
  <1>4. StopsAt(b, off, 3)
    <2> SUFFICES ASSUME NEW i \in 1..3, i < 3 PROVE ~(b[off + i] < 128)
      BY DEF StopsAt, Low
    <2>1. i = 1 \/ i = 2
      OBVIOUS
    <2> QED
      BY <2>1 DEF High
  <1>5. compactU16(b, off) =
          IF (3 > 1 /\ b[off + 3] = 0) \/ Val3(x, y, z) > MaxLength
          THEN Failed ELSE Read(off + 3, Val3(x, y, z))
    BY <1>2, <1>4, CompactStops
  <1>6. compactU16(b, off) =
          IF z \notin 1..3 THEN Failed ELSE Read(off + 3, Val3(x, y, z))
    BY <1>3, <1>5 DEF MaxLength, Low
  <1> QED
    BY <1>6 DEF ThreeBytes

\* A byte is low or high, and a high one continues.
LEMMA ByteKinds ==
  ASSUME NEW x \in Byte
  PROVE  (x \in Low \/ x \in High) /\ (x \in High => ~(x < 128))
  BY DEF Byte, Low, High

\* An offset with three bytes left has two, and one with two has one.
LEMMA Within ==
  ASSUME NEW o \in Nat, NEW l \in Nat
  PROVE  (o + 3 <= l => o + 2 <= l) /\ (o + 2 <= l => o + 1 <= l)
  OBVIOUS

\* The bytes that can stand at an offset of a string.
LEMMA NextBytes ==
  ASSUME NEW b \in Seq(Byte), NEW off \in 0..Len(b)
  PROVE  /\ off \in Nat /\ Len(b) \in Nat
         /\ \A i \in 1..3 : off + i <= Len(b) => b[off + i] \in Byte
  <1>1. off \in Nat /\ Len(b) \in Nat
    BY LenProperties
  <1>2. ASSUME NEW i \in 1..3, off + i <= Len(b)
        PROVE  b[off + i] \in Byte
    <2>1. off + i \in Int /\ off + i >= 1
      BY <1>1
    <2> QED
      BY <1>2, <2>1, ByteAt
  <1> QED
    BY <1>1, <1>2

\* There is no fifth.
LEMMA CompactCases ==
  ASSUME NEW b \in Seq(Byte), NEW off \in 0..Len(b)
  PROVE  \/ OneByte(b, off) \/ TwoBytes(b, off) \/ ThreeBytes(b, off)
         \/ NoLength(b, off)
  <1>1. \A i \in 1..3 : i = 1 \/ i = 2 \/ i = 3
    OBVIOUS
  <1>2. 1 \in 1..3 /\ 2 \in 1..3 /\ 3 \in 1..3
    OBVIOUS
  <1>3. /\ off + 1 <= Len(b) => b[off + 1] \in Low \/ b[off + 1] \in High
        /\ off + 2 <= Len(b) => b[off + 2] \in Low \/ b[off + 2] \in High
        /\ off + 3 <= Len(b) => b[off + 3] \in Low \/ b[off + 3] \in High
    BY <1>2, NextBytes, ByteKinds, Zenon
  <1>4. /\ off + 3 <= Len(b) => off + 2 <= Len(b)
        /\ off + 2 <= Len(b) => off + 1 <= Len(b)
    BY NextBytes, Within, Zenon
  <1>5. CASE off + 1 <= Len(b) /\ b[off + 1] \in Low
    BY <1>5, CompactOne, Zenon
  <1>6. CASE off + 2 <= Len(b) /\ b[off + 1] \in High /\ b[off + 2] \in Low
    BY <1>6, CompactTwo, Zenon
  <1>7. CASE /\ off + 3 <= Len(b) /\ b[off + 1] \in High
             /\ b[off + 2] \in High /\ b[off + 3] \in Low
    BY <1>7, CompactThree, Zenon
  <1>8. CASE /\ off + 1 <= Len(b) => b[off + 1] \in High
             /\ off + 2 <= Len(b) => b[off + 2] \in High
             /\ off + 3 <= Len(b) => b[off + 3] \in High
    <2>1. \A i \in 1..3 : off + i <= Len(b) => b[off + i] \in High
      BY <1>1, <1>8, Zenon
    <2>2. \A i \in 1..3 : ~(off + i <= Len(b) /\ b[off + i] < 128)
      BY <2>1, NextBytes, ByteKinds, Zenon
    <2>3. compactU16(b, off) = Failed
      BY <2>2, CompactRunsOn, Zenon
    <2> QED
      BY <2>1, <2>3, Zenon DEF NoLength
  <1> QED
    BY <1>3, <1>4, <1>5, <1>6, <1>7, <1>8, Zenon

\* The n bytes after the first off.
LEMMA Slice ==
  ASSUME NEW b \in Seq(Byte), NEW off \in Nat, NEW n \in Nat, off + n <= Len(b)
  PROVE  /\ SubSeq(b, off + 1, off + n) \in Seq(Byte)
         /\ Len(SubSeq(b, off + 1, off + n)) = n
         /\ \A i \in 1..n : SubSeq(b, off + 1, off + n)[i] = b[off + i]
  <1> DEFINE lo == off + 1
             hi == off + n
             s  == SubSeq(b, lo, hi)
  <1>1. lo \in Int /\ hi \in Int /\ lo >= 1 /\ hi <= Len(b)
    OBVIOUS
  <1>2. \A i \in lo..hi : b[i] \in Byte
    <2> TAKE i \in lo..hi
    <2>1. Len(b) \in Nat
      BY LenProperties
    <2>2. i \in Int /\ i >= 1 /\ i <= Len(b)
      BY <1>1, <2>1
    <2> QED
      BY <2>2, ByteAt
  <1>3. hi - lo + 1 = n /\ (IF lo <= hi THEN hi - lo + 1 ELSE 0) = n
    OBVIOUS
  <1>4. \A i \in 1..n : lo + i - 1 = off + i
    OBVIOUS
  <1> HIDE DEF lo, hi
  <1>5. /\ s \in Seq(Byte)
        /\ Len(s) = (IF lo <= hi THEN hi - lo + 1 ELSE 0)
        /\ \A i \in 1..(hi - lo + 1) : s[i] = b[lo + i - 1]
    BY <1>1, <1>2, SubSeqProperties
  <1> HIDE DEF s
  <1>6. s \in Seq(Byte) /\ Len(s) = n /\ \A i \in 1..n : s[i] = b[off + i]
    BY <1>3, <1>4, <1>5
  <1> QED
    BY <1>6 DEF s, lo, hi

-----------------------------------------------------------------------------
(* The wire format of a length.                                            *)

\* Division by 128, of a number put together from septets.
LEMMA SeptetDiv ==
  ASSUME NEW p \in High, NEW q \in Nat, NEW v, v = (p - 128) + 128 * q
  PROVE  128 + (v % 128) = p /\ v \div 128 = q
  BY DEF High

\* What a serializer writes for a one-byte length.
LEMMA Encode1 == ASSUME NEW x \in Low PROVE EncodeLength(x) = << x >>
  BY DEF EncodeLength, Low

\* What it writes for a two-byte length.
LEMMA Encode2 ==
  ASSUME NEW x \in High, NEW y \in Low, y # 0
  PROVE  EncodeLength(Val2(x, y)) = << x, y >>
  <1> DEFINE n == Val2(x, y)
  <1>1. n \in Int /\ n >= 128 /\ n < 16384
    BY TwoSeptets DEF Val2, High, Low
  <1>2. n = (x - 128) + 128 * y /\ y \in Nat
    BY DEF Val2, Low
  <1> HIDE DEF n
  <1>3. 128 + (n % 128) = x /\ n \div 128 = y
    BY <1>2, SeptetDiv
  <1>4. EncodeLength(n) = << 128 + (n % 128), n \div 128 >>
    BY <1>1 DEF EncodeLength
  <1> QED
    BY <1>3, <1>4 DEF n

\* What it writes for a three-byte length.
LEMMA Encode3 ==
  ASSUME NEW x \in High, NEW y \in High, NEW z \in 1..3
  PROVE  EncodeLength(Val3(x, y, z)) = << x, y, z >>
  <1> DEFINE n == Val3(x, y, z)
             m == (y - 128) + 128 * z
  <1>1. n \in Int /\ n >= 16384
    BY DEF Val3, High
  <1>2. m \in Nat /\ n = (x - 128) + 128 * m
    BY DEF Val3, High
  <1>3. m = (y - 128) + 128 * z /\ z \in Nat
    OBVIOUS
  <1>4. n \div 16384 = z
    BY DEF Val3, High
  <1> HIDE DEF n, m
  <1>5. 128 + (n % 128) = x /\ n \div 128 = m
    BY <1>2, SeptetDiv
  <1>6. 128 + (m % 128) = y /\ m \div 128 = z
    BY <1>3, SeptetDiv
  <1>7. EncodeLength(n) = << 128 + (n % 128), 128 + ((n \div 128) % 128),
                             n \div 16384 >>
    BY <1>1 DEF EncodeLength
  <1> QED
    BY <1>4, <1>5, <1>6, <1>7 DEF n

\* Every length is written in one of these three ways.
LEMMA EncodeShape ==
  ASSUME NEW n \in 0..MaxLength
  PROVE  \/ \E x \in Low : x = n /\ EncodeLength(n) = << x >>
         \/ \E x \in High, y \in Low :
              y # 0 /\ Val2(x, y) = n /\ EncodeLength(n) = << x, y >>
         \/ \E x \in High, y \in High, z \in 1..3 :
              Val3(x, y, z) = n /\ EncodeLength(n) = << x, y, z >>
  <1>1. CASE n < 128
    <2>0. n \in Nat
      BY DEF MaxLength
    <2>1. n \in Low
      <3> HIDE DEF MaxLength
      <3> QED
        BY <1>1, <2>0 DEF Low
    <2>2. EncodeLength(n) = << n >>
      BY <2>1, Encode1
    <2> QED
      BY <2>1, <2>2, Zenon
  <1>2. CASE ~(n < 128) /\ n < 16384
    <2>1. EncodeLength(n) = << 128 + (n % 128), n \div 128 >>
      BY <1>2 DEF EncodeLength
    <2>2. 128 + (n % 128) \in High
      BY <1>2 DEF High, MaxLength
    <2>3. n \div 128 \in Low /\ n \div 128 # 0
      BY <1>2 DEF Low, MaxLength
    <2>4. Val2(128 + (n % 128), n \div 128) = n
      BY <1>2 DEF Val2, MaxLength
    <2> QED
      BY <2>1, <2>2, <2>3, <2>4, Zenon
  <1>3. CASE ~(n < 128) /\ ~(n < 16384)
    <2> DEFINE x == 128 + (n % 128)
               y == 128 + ((n \div 128) % 128)
               z == n \div 16384
    <2>1. EncodeLength(n) = << x, y, z >>
      BY <1>3 DEF EncodeLength
    <2>2. x \in High /\ y \in High
      BY <1>3 DEF High, MaxLength
    <2>3. z \in 1..3
      BY <1>3 DEF MaxLength
    <2>4. Val3(x, y, z) = n
      BY <1>3 DEF Val3, MaxLength
    <2> HIDE DEF x, y, z
    <2> QED
      BY <2>1, <2>2, <2>3, <2>4
  <1> QED
    BY <1>1, <1>2, <1>3

\* A string of one byte, of two and of three.
LEMMA Tuple1 == ASSUME NEW s \in Seq(Byte), Len(s) = 1 PROVE s = << s[1] >>
  OBVIOUS

\* A string of two bytes is the pair of them.
LEMMA Tuple2 == ASSUME NEW s \in Seq(Byte), Len(s) = 2 PROVE s = << s[1], s[2] >>
  OBVIOUS

\* A string of three bytes is the triple of them.
LEMMA Tuple3 ==
  ASSUME NEW s \in Seq(Byte), Len(s) = 3 PROVE s = << s[1], s[2], s[3] >>
  OBVIOUS

\* The parts of a tuple of up to three.
LEMMA TupleLengths ==
  /\ \A x : Len(<< x >>) = 1 /\ << x >>[1] = x
  /\ \A x, y : Len(<< x, y >>) = 2 /\ << x, y >>[1] = x /\ << x, y >>[2] = y
  /\ \A x, y, z : /\ Len(<< x, y, z >>) = 3 /\ << x, y, z >>[1] = x
                  /\ << x, y, z >>[2] = y /\ << x, y, z >>[3] = z
  OBVIOUS

\* The first k bytes at off, when k is small.
At(b, off, k) == SubSeq(b, off + 1, off + k)

\* Its length and its bytes.
LEMMA AtProperties ==
  ASSUME NEW b \in Seq(Byte), NEW off \in Nat, NEW k \in 1..3, off + k <= Len(b)
  PROVE  /\ At(b, off, k) \in Seq(Byte) /\ Len(At(b, off, k)) = k
         /\ At(b, off, k)[1] = b[off + 1]
         /\ k = 2 => At(b, off, k)[2] = b[off + 2]
         /\ k = 3 => At(b, off, k)[2] = b[off + 2] /\ At(b, off, k)[3] = b[off + 3]
  <1>1. k \in Nat
    OBVIOUS
  <1>2. /\ At(b, off, k) \in Seq(Byte) /\ Len(At(b, off, k)) = k
        /\ \A i \in 1..k : At(b, off, k)[i] = b[off + i]
    BY <1>1, Slice, Zenon DEF At
  <1>3. 1 \in 1..k /\ (k = 2 => 2 \in 1..k) /\ (k = 3 => 2 \in 1..k /\ 3 \in 1..k)
    OBVIOUS
  <1> QED
    BY <1>2, <1>3, Zenon

\* One byte that was read.
LEMMA At1 ==
  ASSUME NEW b \in Seq(Byte), NEW off \in Nat, off + 1 <= Len(b)
  PROVE  At(b, off, 1) = << b[off + 1] >>
  <1>1. 1 \in 1..3
    OBVIOUS
  <1>2. /\ At(b, off, 1) \in Seq(Byte) /\ Len(At(b, off, 1)) = 1
        /\ At(b, off, 1)[1] = b[off + 1]
    BY <1>1, AtProperties, Zenon
  <1>3. At(b, off, 1) = << At(b, off, 1)[1] >>
    BY <1>2, Tuple1, Zenon
  <1> QED
    BY <1>2, <1>3, Zenon

\* Two bytes that were read.
LEMMA At2 ==
  ASSUME NEW b \in Seq(Byte), NEW off \in Nat, off + 2 <= Len(b)
  PROVE  At(b, off, 2) = << b[off + 1], b[off + 2] >>
  <1>1. 2 \in 1..3
    OBVIOUS
  <1>2. /\ At(b, off, 2) \in Seq(Byte) /\ Len(At(b, off, 2)) = 2
        /\ At(b, off, 2)[1] = b[off + 1] /\ At(b, off, 2)[2] = b[off + 2]
    BY <1>1, AtProperties, Zenon
  <1>3. At(b, off, 2) = << At(b, off, 2)[1], At(b, off, 2)[2] >>
    BY <1>2, Tuple2, Zenon
  <1> QED
    BY <1>2, <1>3, Zenon

\* Three bytes that were read.
LEMMA At3 ==
  ASSUME NEW b \in Seq(Byte), NEW off \in Nat, off + 3 <= Len(b)
  PROVE  At(b, off, 3) = << b[off + 1], b[off + 2], b[off + 3] >>
  <1>1. 3 \in 1..3
    OBVIOUS
  <1>2. /\ At(b, off, 3) \in Seq(Byte) /\ Len(At(b, off, 3)) = 3
        /\ At(b, off, 3)[1] = b[off + 1] /\ At(b, off, 3)[2] = b[off + 2]
        /\ At(b, off, 3)[3] = b[off + 3]
    BY <1>1, AtProperties, Zenon
  <1>3. At(b, off, 3) = << At(b, off, 3)[1], At(b, off, 3)[2], At(b, off, 3)[3] >>
    BY <1>2, Tuple3, Zenon
  <1> QED
    BY <1>2, <1>3, Zenon

\* A length that is read is a 16-bit one, and stands there as it is written.
LEMMA CompactReads ==
  ASSUME NEW b \in Seq(Byte), NEW off \in 0..Len(b)
  PROVE  \/ compactU16(b, off) = Failed
         \/ \E k \in 1..3, n \in 0..MaxLength :
              /\ compactU16(b, off) = Read(off + k, n)
              /\ off + k <= Len(b)
              /\ At(b, off, k) = EncodeLength(n)
  <1>1. off \in Nat /\ 1 \in 1..3 /\ 2 \in 1..3 /\ 3 \in 1..3
    BY NextBytes
  <1>2. CASE OneByte(b, off)
    <2> DEFINE n == b[off + 1]
    <2>1. n \in Low /\ off + 1 <= Len(b) /\ compactU16(b, off) = Read(off + 1, n)
      BY <1>2, Zenon DEF OneByte
    <2>2. At(b, off, 1) = << n >>
      BY <1>1, <2>1, At1, Zenon
    <2> HIDE DEF n
    <2>3. At(b, off, 1) = EncodeLength(n)
      BY <2>1, <2>2, Encode1, Zenon
    <2>4. n \in 0..MaxLength
      BY <2>1 DEF Low, MaxLength
    <2> QED
      BY <1>1, <2>1, <2>3, <2>4, Zenon
  <1>3. CASE TwoBytes(b, off)
    <2> DEFINE x == b[off + 1]
               y == b[off + 2]
               n == Val2(x, y)
    <2>1. /\ x \in High /\ y \in Low /\ off + 2 <= Len(b)
          /\ compactU16(b, off) = IF y = 0 THEN Failed ELSE Read(off + 2, n)
      BY <1>3, Zenon DEF TwoBytes
    <2>2. At(b, off, 2) = << x, y >>
      BY <1>1, <2>1, At2, Zenon
    <2> HIDE DEF x, y
    <2>4. n \in 0..MaxLength
      BY <2>1, Val2Fits, Zenon
    <2>5. CASE y = 0
      BY <2>1, <2>5
    <2>6. CASE y # 0
      <3>1. EncodeLength(n) = << x, y >>
        BY <2>1, <2>6, Encode2, Zenon
      <3>2. compactU16(b, off) = Read(off + 2, n)
        BY <2>1, <2>6, Zenon
      <3> HIDE DEF n
      <3> QED
        BY <1>1, <2>1, <2>2, <2>4, <3>1, <3>2, Zenon
    <2> QED
      BY <2>5, <2>6
  <1>4. CASE ThreeBytes(b, off)
    <2> DEFINE x == b[off + 1]
               y == b[off + 2]
               z == b[off + 3]
               n == Val3(x, y, z)
    <2>1. /\ x \in High /\ y \in High /\ z \in Low /\ off + 3 <= Len(b)
          /\ compactU16(b, off) = IF z \notin 1..3 THEN Failed ELSE Read(off + 3, n)
      BY <1>4, Zenon DEF ThreeBytes
    <2>2. At(b, off, 3) = << x, y, z >>
      BY <1>1, <2>1, At3, Zenon
    <2> HIDE DEF x, y, z
    <2>5. CASE z \notin 1..3
      BY <2>1, <2>5, Zenon
    <2>6. CASE z \in 1..3
      <3>1. EncodeLength(n) = << x, y, z >>
        BY <2>1, <2>6, Encode3, Zenon
      <3>2. compactU16(b, off) = Read(off + 3, n)
        BY <2>1, <2>6, Zenon
      <3>3. n \in 0..MaxLength
        BY <2>1, <2>6, Val3Fits, Zenon
      <3> HIDE DEF n
      <3> QED
        BY <1>1, <2>1, <2>2, <3>1, <3>2, <3>3, Zenon
    <2> QED
      BY <2>5, <2>6
  <1>5. CASE NoLength(b, off)
    BY <1>5 DEF NoLength
  <1> QED
    BY <1>2, <1>3, <1>4, <1>5, CompactCases

\* A length that stands at off as it is written is read,
\* with its value.
LEMMA CompactAccepts ==
  ASSUME NEW b \in Seq(Byte), NEW off \in 0..Len(b), NEW k \in 1..3,
         off + k <= Len(b), NEW n \in 0..MaxLength, At(b, off, k) = EncodeLength(n)
  PROVE  compactU16(b, off) = Read(off + k, n)
  <1> DEFINE s == At(b, off, k)
  <1>1. /\ off \in Nat /\ Len(s) = k /\ s[1] = b[off + 1]
        /\ k = 2 => s[2] = b[off + 2]
        /\ k = 3 => s[2] = b[off + 2] /\ s[3] = b[off + 3]
    BY NextBytes, AtProperties, Zenon
  <1> HIDE DEF s
  <1>3. ASSUME NEW x \in Low, x = n, s = << x >> PROVE compactU16(b, off) = Read(off + k, n)
    <2>1. k = 1 /\ b[off + 1] = x
      BY <1>1, <1>3, TupleLengths, Zenon
    <2>2. OneByte(b, off)
      BY <2>1, CompactOne, Zenon
    <2> QED
      BY <1>3, <2>1, <2>2, Zenon DEF OneByte
  <1>4. ASSUME NEW x \in High, NEW y \in Low, y # 0, Val2(x, y) = n,
               s = << x, y >>
        PROVE  compactU16(b, off) = Read(off + k, n)
    <2>1. k = 2 /\ b[off + 1] = x /\ b[off + 2] = y
      BY <1>1, <1>4, TupleLengths, Zenon
    <2>2. TwoBytes(b, off)
      BY <2>1, CompactTwo, Zenon
    <2> QED
      BY <1>4, <2>1, <2>2, Zenon DEF TwoBytes
  <1>5. ASSUME NEW x \in High, NEW y \in High, NEW z \in 1..3,
               Val3(x, y, z) = n, s = << x, y, z >>
        PROVE  compactU16(b, off) = Read(off + k, n)
    <2>1. k = 3 /\ b[off + 1] = x /\ b[off + 2] = y /\ b[off + 3] = z
      BY <1>1, <1>5, TupleLengths, Zenon
    <2>2. z \in Low
      BY DEF Low
    <2>3. ThreeBytes(b, off)
      BY <2>1, <2>2, CompactThree, Zenon
    <2> QED
      BY <1>5, <2>1, <2>3, Zenon DEF ThreeBytes
  <1>6. s = EncodeLength(n)
    BY DEF s
  <1> QED
    BY <1>3, <1>4, <1>5, <1>6, EncodeShape, Zenon

\* compactU16 reads a length exactly where one stands as it must be written,
\* and reads that length: it accepts no second spelling, none that runs past
\* the end of the payload and none above 65535.
THEOREM LengthsCanonical ==
  ASSUME NEW b \in Seq(Byte), NEW off \in 0..Len(b)
  PROVE  CanonicalAt(b, off)
  <1> DEFINE r == compactU16(b, off)
             written == \E k \in 1..3 : off + k <= Len(b) /\ At(b, off, k) \in ShortVecs
  <1>1. CanonicalAt(b, off) <=>
          /\ r.ok <=> written
          /\ r.ok => EncodeLength(r.val) = SubSeq(b, off + 1, r.off)
    BY Zenon DEF CanonicalAt, At
  <1>2. CASE r = Failed
    <2>1. ~r.ok
      BY <1>2 DEF Failed
    <2>2. \A o, v : Read(o, v) # Failed
      BY DEF Read, Failed
    <2>3. ASSUME NEW k \in 1..3, off + k <= Len(b), NEW n \in 0..MaxLength,
                 At(b, off, k) = EncodeLength(n)
          PROVE  FALSE
      <3>1. r = Read(off + k, n)
        BY <2>3, CompactAccepts
      <3> QED
        BY <1>2, <2>2, <3>1
    <2>4. ~written
      BY <2>3, Zenon DEF ShortVecs
    <2> QED
      BY <1>1, <2>1, <2>4, Zenon
  <1>3. ASSUME NEW k \in 1..3, NEW n \in 0..MaxLength, r = Read(off + k, n),
               off + k <= Len(b), At(b, off, k) = EncodeLength(n)
        PROVE  CanonicalAt(b, off)
    <2>1. r.ok /\ r.off = off + k /\ r.val = n
      BY <1>3 DEF Read
    <2>2. written
      BY <1>3, Zenon DEF ShortVecs
    <2>3. EncodeLength(r.val) = SubSeq(b, off + 1, r.off)
      BY <1>3, <2>1, Zenon DEF At
    <2> QED
      BY <1>1, <2>1, <2>2, <2>3, Zenon
  <1> QED
    BY <1>2, <1>3, CompactReads, Zenon

-----------------------------------------------------------------------------
(* What the parser returns: Failed, or an offset within the payload and a  *)
(* value of the right shape.                                               *)

Reads(b, V) == {Failed} \cup { Read(o, v) : o \in 0..Len(b), v \in V }

IxType  == [ programIndex : Byte, data : Seq(Byte) ]
MsgType == [ accounts : Seq(Address), instructions : Seq(IxType) ]

\* What a read that succeeded left and returned.
LEMMA ReadsFacts ==
  ASSUME NEW b, NEW V, NEW r \in Reads(b, V)
  PROVE  \/ r = Failed /\ r.ok = FALSE
         \/ r.ok = TRUE /\ r.off \in 0..Len(b) /\ r.val \in V
  BY DEF Reads, Read, Failed

\* A value with an offset within the payload is a read.
LEMMA ReadIsRead ==
  ASSUME NEW b, NEW V, NEW o \in 0..Len(b), NEW v \in V
  PROVE  Read(o, v) \in Reads(b, V)
  BY DEF Reads

\* A failed read is a read.
LEMMA FailedIsRead == \A b, V : Failed \in Reads(b, V)
  BY DEF Reads

\* compactU16 returns a 16-bit number and stays within the payload.
LEMMA CompactType ==
  ASSUME NEW b \in Seq(Byte), NEW off \in 0..Len(b)
  PROVE  compactU16(b, off) \in Reads(b, 0..MaxLength)
  <1>1. ASSUME NEW k \in 1..3, off + k <= Len(b) PROVE off + k \in 0..Len(b)
    <2>1. off \in Nat /\ Len(b) \in Nat
      BY NextBytes
    <2> QED
      BY <1>1, <2>1
  <1>2. ASSUME NEW k \in 1..3, NEW n \in 0..MaxLength, off + k <= Len(b),
               compactU16(b, off) = Read(off + k, n)
        PROVE  compactU16(b, off) \in Reads(b, 0..MaxLength)
    BY <1>1, <1>2, ReadIsRead
  <1>3. CASE compactU16(b, off) = Failed
    BY <1>3, FailedIsRead
  <1> QED
    BY <1>2, <1>3, CompactReads, Zenon

\* take returns exactly the bytes it was asked for, all within the payload.
LEMMA TakeType ==
  ASSUME NEW b \in Seq(Byte), NEW off \in 0..Len(b), NEW n \in Nat
  PROVE  /\ take(b, off, n) \in Reads(b, Seq(Byte))
         /\ take(b, off, n).ok => Len(take(b, off, n).val) = n
  <1>1. off \in Nat /\ Len(b) \in Nat
    BY NextBytes
  <1>2. CASE Len(b) - off >= n
    <2> DEFINE s == SubSeq(b, off + 1, off + n)
    <2>1. off + n <= Len(b) /\ off + n \in 0..Len(b)
      BY <1>1, <1>2
    <2>2. take(b, off, n) = Read(off + n, s)
      BY <1>2 DEF take
    <2>3. s \in Seq(Byte) /\ Len(s) = n
      BY <1>1, <2>1, Slice, Zenon
    <2> HIDE DEF s
    <2>4. Read(off + n, s).val = s
      BY DEF Read
    <2> QED
      BY <2>1, <2>2, <2>3, <2>4, ReadIsRead, Zenon
  <1>3. CASE ~(Len(b) - off >= n)
    <2>1. take(b, off, n) = Failed
      BY <1>3 DEF take
    <2>2. Failed.ok = FALSE
      BY DEF Failed
    <2> QED
      BY <2>1, <2>2, FailedIsRead, Zenon
  <1> QED
    BY <1>2, <1>3

\* One instruction read from the payload is well formed.
LEMMA InstructionType ==
  ASSUME NEW b \in Seq(Byte), NEW off \in 0..Len(b)
  PROVE  takeInstruction(b, off) \in Reads(b, IxType)
  <1> DEFINE prog   == take(b, off, 1)
             nAccts == compactU16(b, prog.off)
             accts  == take(b, nAccts.off, nAccts.val)
             nData  == compactU16(b, accts.off)
             data   == take(b, nData.off, nData.val)
             ix     == [ programIndex |-> prog.val[1], data |-> data.val ]
  <1>1. takeInstruction(b, off) =
          IF prog.ok /\ nAccts.ok /\ accts.ok /\ nData.ok /\ data.ok
          THEN Read(data.off, ix) ELSE Failed
    BY DEF takeInstruction, Then
  <1>2. 0..MaxLength \subseteq Nat
    OBVIOUS
  <1> SUFFICES ASSUME prog.ok, nAccts.ok, accts.ok, nData.ok, data.ok
               PROVE  Read(data.off, ix) \in Reads(b, IxType)
    BY <1>1, FailedIsRead, Zenon
  <1>3. prog.off \in 0..Len(b) /\ prog.val \in Seq(Byte) /\ Len(prog.val) = 1
    BY TakeType, ReadsFacts
  <1>4. prog.val[1] \in Byte
    BY <1>3, ElementOfSeq
  <1> HIDE DEF prog
  <1>5. nAccts.off \in 0..Len(b) /\ nAccts.val \in Nat
    BY <1>2, <1>3, CompactType, ReadsFacts
  <1> HIDE DEF nAccts
  <1>6. accts.off \in 0..Len(b)
    BY <1>5, TakeType, ReadsFacts
  <1> HIDE DEF accts
  <1>7. nData.off \in 0..Len(b) /\ nData.val \in Nat
    BY <1>2, <1>6, CompactType, ReadsFacts
  <1> HIDE DEF nData
  <1>8. data.off \in 0..Len(b) /\ data.val \in Seq(Byte)
    BY <1>7, TakeType, ReadsFacts
  <1> HIDE DEF data
  <1>9. ix \in IxType
    BY <1>4, <1>8 DEF IxType
  <1> QED
    BY <1>8, <1>9, ReadIsRead

\* some[n][o] is what reading n instructions from offset o on gives.
Loops(b, some) ==
  /\ \A o \in 0..Len(b) : some[0][o] = Read(o, << >>)
  /\ \A n \in 1..MaxLength, o \in 0..Len(b) :
       some[n][o] = LET ix   == takeInstruction(b, o)
                        more == some[n - 1][ix.off]
                    IN  IF ix.ok /\ more.ok
                        THEN Read(more.off, << ix.val >> \o more.val) ELSE Failed
  /\ \A n \in 0..MaxLength, o \in 0..Len(b) : some[n][o] \in Reads(b, Seq(IxType))

\* The loop over the instructions is such a function, at the count that stands
\* before them, and stays within the payload whatever that count.
LEMMA InstructionLoop ==
  ASSUME NEW b \in Seq(Byte), NEW off \in 0..Len(b)
  PROVE  \E some :
           /\ Loops(b, some)
           /\ takeInstructions(b, off) =
                IF compactU16(b, off).ok
                THEN some[compactU16(b, off).val][compactU16(b, off).off] ELSE Failed
  <1> DEFINE N == MaxLength
             D == 0..Len(b)
             V == [D -> Reads(b, Seq(IxType))]
             base == [o \in D |-> Read(o, << >>)]
             Turn(g, o) == Then(takeInstruction(b, o), LAMBDA ix :
                           Then(g[ix.off],             LAMBDA more :
                             Read(more.off, << ix.val >> \o more.val)))
             Round(g) == [o \in D |-> Turn(g, o)]
             step == [p \in V \X (1..N) |-> Round(p[1])]
             Loop(f) == f = [n \in 0..N |->
                               [o \in D |-> IF n = 0 THEN Read(o, << >>)
                                            ELSE Turn(f[n - 1], o)]]
             some == CHOOSE f : Loop(f)
  <1>0. N \in Nat
    BY DEF MaxLength
  <1>1. base \in V
    <2>1. << >> \in Seq(IxType)
      BY EmptySeq
    <2>2. \A o \in D : Read(o, << >>) \in Reads(b, Seq(IxType))
      BY <2>1, ReadIsRead
    <2> QED
      BY <2>2
  <1>2. ASSUME NEW g \in V, NEW o \in D
        PROVE  Turn(g, o) \in Reads(b, Seq(IxType))
    <2> DEFINE ix   == takeInstruction(b, o)
               more == g[ix.off]
    <2>1. Turn(g, o) = IF ix.ok
                       THEN IF more.ok THEN Read(more.off, << ix.val >> \o more.val)
                            ELSE Failed
                       ELSE Failed
      BY DEF Then
    <2> SUFFICES ASSUME ix.ok, more.ok
                 PROVE  Read(more.off, << ix.val >> \o more.val) \in Reads(b, Seq(IxType))
      BY <2>1, FailedIsRead
    <2>2. ix.off \in D /\ ix.val \in IxType
      BY InstructionType, ReadsFacts
    <2> HIDE DEF ix
    <2>3. more \in Reads(b, Seq(IxType))
      BY <2>2
    <2> HIDE DEF more
    <2>4. more.off \in D /\ more.val \in Seq(IxType)
      BY <2>3, ReadsFacts
    <2>5. << ix.val >> \o more.val \in Seq(IxType)
      BY <2>2, <2>4
    <2> QED
      BY <2>4, <2>5, ReadIsRead
  <1> HIDE DEF Turn, D
  <1>3. \A g \in V : Round(g) \in V
    BY <1>2
  <1> HIDE DEF V
  <1>4. step \in [V \X (1..N) -> V]
    <2> HIDE DEF Round, N
    <2> QED
      BY <1>3
  <1>5. ASSUME NEW g \in V, NEW i \in 1..N PROVE step[<< g, i >>] = Round(g)
    <2> HIDE DEF Round, N
    <2> QED
      OBVIOUS
  <1> HIDE DEF step, N, base
  <1>6. \E f : Loop(f)
    <2>1. PICK f : Computed(f, N, V, base, step)
      BY <1>0, <1>1, <1>4, RecursionUpTo
    <2> DEFINE row(n) == [o \in D |-> IF n = 0 THEN Read(o, << >>)
                                      ELSE Turn(f[n - 1], o)]
    <2>2. ASSUME NEW n \in 0..N PROVE f[n] = row(n)
      <3>1. CASE n = 0
        <4>1. f[n] = base
          BY <2>1, <3>1 DEF Computed
        <4> QED
          BY <3>1, <4>1 DEF base
      <3>2. CASE n # 0
        <4>1. n \in 1..N
          BY <1>0, <3>2
        <4>2. f[n - 1] \in V /\ f[n] = step[<< f[n - 1], n >>]
          BY <1>0, <2>1, <4>1, ComputedStep
        <4>3. f[n] = Round(f[n - 1])
          BY <1>5, <4>1, <4>2
        <4> QED
          BY <3>2, <4>3
      <3> QED
        BY <3>1, <3>2
    <2>3. f = [n \in 0..N |-> f[n]]
      BY <2>1 DEF Computed
    <2> HIDE DEF row
    <2>4. f = [n \in 0..N |-> row(n)]
      BY <2>2, <2>3
    <2>5. Loop(f)
      BY <2>4, Zenon DEF row
    <2> HIDE DEF Loop
    <2> QED
      BY <2>5
  <1>7. Loop(some)
    <2> HIDE DEF Loop
    <2> QED
      BY <1>6
  <1>8. takeInstructions(b, off) =
          IF compactU16(b, off).ok
          THEN some[compactU16(b, off).val][compactU16(b, off).off] ELSE Failed
    BY DEF takeInstructions, Then, Turn, N, D
  <1> HIDE DEF some
  <1>9. Computed(some, N, V, base, step)
    <2> DEFINE body == [n \in 0..N |->
                          [o \in D |-> IF n = 0 THEN Read(o, << >>)
                                       ELSE Turn(some[n - 1], o)]]
    <2>1. some = body
      BY <1>7
    <2>2. /\ body = [n \in 0..N |-> body[n]]
          /\ body[0] = base
          /\ \A n \in 1..N : body[n] = Round(some[n - 1])
      BY <1>0 DEF base
    <2> HIDE DEF body
    <2>3. /\ some = [n \in 0..N |-> some[n]] /\ some[0] = base
          /\ \A n \in 1..N : some[n] = Round(some[n - 1])
      BY <2>1, <2>2
    <2> HIDE DEF Round
    <2> QED
      BY <1>0, <1>1, <1>4, <1>5, <2>3, ComputedByEquation
  <1>10. \A n \in 0..N, o \in D : some[n][o] \in Reads(b, Seq(IxType))
    BY <1>9 DEF Computed, V
  <1>11. \A o \in D : some[0][o] = Read(o, << >>)
    BY <1>9 DEF Computed, base
  <1>12. ASSUME NEW n \in 1..N, NEW o \in D
         PROVE  LET ix   == takeInstruction(b, o)
                    more == some[n - 1][ix.off]
                IN  some[n][o] =
                      IF ix.ok /\ more.ok
                      THEN Read(more.off, << ix.val >> \o more.val) ELSE Failed
    <2>1. some[n - 1] \in V /\ some[n] = step[<< some[n - 1], n >>]
      BY <1>0, <1>9, ComputedStep
    <2>2. some[n] = Round(some[n - 1])
      BY <1>5, <2>1
    <2>3. some[n][o] = Turn(some[n - 1], o)
      BY <2>2
    <2> QED
      BY <2>3 DEF Turn, Then
  <1>13. Loops(b, some)
    BY <1>10, <1>11, <1>12, Zenon DEF Loops, N, D
  <1> QED
    BY <1>8, <1>13

\* Whatever was read, it is a list of instructions.
LEMMA InstructionsType ==
  ASSUME NEW b \in Seq(Byte), NEW off \in 0..Len(b)
  PROVE  takeInstructions(b, off) \in Reads(b, Seq(IxType))
  <1> DEFINE c == compactU16(b, off)
  <1>1. PICK some :
          /\ Loops(b, some)
          /\ takeInstructions(b, off) = IF c.ok THEN some[c.val][c.off] ELSE Failed
    BY InstructionLoop
  <1>2. CASE c.ok
    <2>1. c.val \in 0..MaxLength /\ c.off \in 0..Len(b)
      BY <1>2, CompactType, ReadsFacts
    <2> HIDE DEF c
    <2>2. some[c.val][c.off] \in Reads(b, Seq(IxType))
      BY <1>1, <2>1 DEF Loops
    <2> QED
      BY <1>1, <1>2, <2>2
  <1>3. CASE ~c.ok
    BY <1>1, <1>3, FailedIsRead
  <1> QED
    BY <1>2, <1>3

\* The addresses of a run of n.
LEMMA Multiples ==
  ASSUME NEW A \in Nat, NEW n \in Nat, NEW i \in 1..n
  PROVE  /\ (i - 1) * A \in Nat
         /\ (i - 1) * A + A = i * A
         /\ i * A <= n * A
  <1>1. /\ (i - 1) * A + A = i * A
    OBVIOUS
  <1>2. (i - 1) * A >= 0 /\ (n - i) * A >= 0
    OBVIOUS
  <1>3. i * A + (n - i) * A = n * A
    OBVIOUS
  <1> QED
    BY <1>1, <1>2, <1>3

\* The account keys read from the payload are addresses.
LEMMA AccountsType ==
  ASSUME NEW b \in Seq(Byte), NEW off \in 0..Len(b)
  PROVE  takeAccounts(b, off) \in Reads(b, Seq(Address))
  <1> DEFINE n   == compactU16(b, off)
             all == take(b, n.off, n.val * AddrLen)
             cut(i) == SubSeq(all.val, (i - 1) * AddrLen + 1, i * AddrLen)
             accts  == [ i \in 1..n.val |-> cut(i) ]
  <1>1. takeAccounts(b, off) =
          IF n.ok THEN IF all.ok THEN Read(all.off, accts) ELSE Failed ELSE Failed
    BY DEF takeAccounts, Then
  <1> SUFFICES ASSUME n.ok, all.ok
               PROVE  Read(all.off, accts) \in Reads(b, Seq(Address))
    BY <1>1, FailedIsRead
  <1>2. 0..MaxLength \subseteq Nat
    OBVIOUS
  <1>3. n.off \in 0..Len(b) /\ n.val \in Nat
    BY <1>2, CompactType, ReadsFacts
  <1> HIDE DEF n
  <1>4. AddrLen \in Nat /\ n.val * AddrLen \in Nat
    BY <1>3, AddrAssumption
  <1>5. /\ all.off \in 0..Len(b)
        /\ all.val \in Seq(Byte) /\ Len(all.val) = n.val * AddrLen
    BY <1>3, <1>4, TakeType, ReadsFacts
  <1> HIDE DEF all
  <1>6. ASSUME NEW i \in 1..n.val PROVE cut(i) \in Address
    <2> DEFINE o == (i - 1) * AddrLen
    <2>1. o \in Nat /\ o + AddrLen = i * AddrLen /\ o + AddrLen <= Len(all.val)
      BY <1>3, <1>4, <1>5, Multiples
    <2>2. cut(i) = SubSeq(all.val, o + 1, o + AddrLen)
      BY <2>1
    <2> HIDE DEF o, cut
    <2>3. o \in Nat /\ o + AddrLen <= Len(all.val)
      BY <2>1, Zenon
    <2>4. /\ SubSeq(all.val, o + 1, o + AddrLen) \in Seq(Byte)
          /\ Len(SubSeq(all.val, o + 1, o + AddrLen)) = AddrLen
      BY <1>4, <1>5, <2>3, Slice, Zenon
    <2>5. cut(i) \in Seq(Byte) /\ Len(cut(i)) = AddrLen
      BY <2>2, <2>4, Zenon
    <2> QED
      BY <2>5 DEF Address
  <1> HIDE DEF cut
  <1>7. accts \in Seq(Address)
    BY <1>3, <1>6
  <1> HIDE DEF accts
  <1> QED
    BY <1>5, <1>7, ReadIsRead

\* A payload parseMessage accepts was read to its last byte, its accounts are
\* whole addresses and its instructions whole instructions.
THEOREM MessagesWellFormed ==
  ASSUME NEW b \in Seq(Byte), parseMessage(b).ok
  PROVE  parseMessage(b).off = Len(b) /\ parseMessage(b).val \in MsgType
  <1> DEFINE header    == take(b, 0, 3)
             accts     == takeAccounts(b, header.off)
             blockhash == take(b, accts.off, AddrLen)
             ixs       == takeInstructions(b, blockhash.off)
             m         == [ accounts |-> accts.val, instructions |-> ixs.val ]
  <1>1. parseMessage(b) =
          IF /\ ~(Len(b) = 0 \/ b[1] >= 128)
             /\ header.ok /\ accts.ok /\ blockhash.ok /\ ixs.ok
             /\ ixs.off = Len(b)
          THEN Read(ixs.off, m) ELSE Failed
    BY DEF parseMessage, Then
  <1>2. Failed.ok = FALSE
    BY DEF Failed
  <1>3. /\ header.ok /\ accts.ok /\ blockhash.ok /\ ixs.ok /\ ixs.off = Len(b)
        /\ parseMessage(b) = Read(ixs.off, m)
    BY <1>1, <1>2
  <1>4. 0 \in 0..Len(b) /\ AddrLen \in Nat
    BY LenProperties, AddrAssumption
  <1>5. header.off \in 0..Len(b)
    BY <1>3, <1>4, TakeType, ReadsFacts
  <1> HIDE DEF header
  <1>6. accts.off \in 0..Len(b) /\ accts.val \in Seq(Address)
    BY <1>3, <1>5, AccountsType, ReadsFacts
  <1> HIDE DEF accts
  <1>7. blockhash.off \in 0..Len(b)
    BY <1>3, <1>4, <1>6, TakeType, ReadsFacts
  <1> HIDE DEF blockhash
  <1>8. ixs.val \in Seq(IxType)
    BY <1>3, <1>7, InstructionsType, ReadsFacts
  <1> HIDE DEF ixs
  <1>9. m \in MsgType
    BY <1>6, <1>8 DEF MsgType
  <1> HIDE DEF m
  <1> QED
    BY <1>3, <1>9 DEF Read

-----------------------------------------------------------------------------
(* What stands in a payload.  The wire format is a concatenation, so what  *)
(* it puts into a payload is said of its parts one after the other.        *)

\* The bytes of s stand in b after the first o.
Stands(b, o, s) ==
  o + Len(s) <= Len(b) /\ \A i \in 1..Len(s) : b[o + i] = s[i]

\* A concatenation stands where its parts stand, the second after the first.
LEMMA StandsConcat ==
  ASSUME NEW b \in Seq(Byte), NEW o \in Nat, NEW s \in Seq(Byte), NEW t \in Seq(Byte)
  PROVE  Stands(b, o, s \o t) <=> Stands(b, o, s) /\ Stands(b, o + Len(s), t)
  <1> DEFINE u == s \o t
             k == Len(s)
             l == Len(t)
  <1>1. k \in Nat /\ l \in Nat /\ Len(b) \in Nat
    BY LenProperties
  <1>2. /\ Len(u) = k + l
        /\ \A i \in 1..(k + l) : u[i] = IF i <= k THEN s[i] ELSE t[i - k]
    BY ConcatProperties
  <1> HIDE DEF u
  <1>3. ASSUME Stands(b, o, u) PROVE Stands(b, o, s) /\ Stands(b, o + k, t)
    <2>1. o + (k + l) <= Len(b) /\ \A i \in 1..(k + l) : b[o + i] = u[i]
      BY <1>2, <1>3 DEF Stands
    <2>2. ASSUME NEW i \in 1..k PROVE b[o + i] = s[i]
      <3>1. i \in 1..(k + l) /\ i <= k
        BY <1>1
      <3> QED
        BY <1>2, <2>1, <3>1
    <2>3. ASSUME NEW i \in 1..l PROVE b[(o + k) + i] = t[i]
      <3>1. /\ k + i \in 1..(k + l) /\ ~(k + i <= k) /\ (k + i) - k = i
            /\ o + (k + i) = (o + k) + i
        BY <1>1
      <3>2. b[o + (k + i)] = u[k + i] /\ u[k + i] = t[(k + i) - k]
        BY <1>2, <2>1, <3>1
      <3> QED
        BY <3>1, <3>2
    <2>4. o + k <= Len(b) /\ (o + k) + l <= Len(b)
      BY <1>1, <2>1
    <2> QED
      BY <2>2, <2>3, <2>4 DEF Stands
  <1>4. ASSUME Stands(b, o, s), Stands(b, o + k, t) PROVE Stands(b, o, u)
    <2>1. /\ \A i \in 1..k : b[o + i] = s[i]
          /\ (o + k) + l <= Len(b) /\ \A i \in 1..l : b[(o + k) + i] = t[i]
      BY <1>4 DEF Stands
    <2>2. ASSUME NEW i \in 1..(k + l) PROVE b[o + i] = u[i]
      <3>1. CASE i <= k
        <4>1. i \in 1..k
          BY <1>1, <3>1
        <4> QED
          BY <1>2, <2>1, <3>1, <4>1
      <3>2. CASE ~(i <= k)
        <4>1. i - k \in 1..l /\ (o + k) + (i - k) = o + i
          BY <1>1, <3>2
        <4>2. b[(o + k) + (i - k)] = t[i - k] /\ u[i] = t[i - k]
          BY <1>2, <2>1, <3>2, <4>1
        <4> QED
          BY <4>1, <4>2
      <3> QED
        BY <3>1, <3>2
    <2>3. o + (k + l) <= Len(b)
      BY <1>1, <2>1
    <2> QED
      BY <1>2, <2>2, <2>3 DEF Stands
  <1> QED
    BY <1>3, <1>4 DEF u

\* The payload as a whole.
LEMMA StandsWhole ==
  ASSUME NEW b \in Seq(Byte), NEW s \in Seq(Byte)
  PROVE  b = s <=> Stands(b, 0, s) /\ Len(s) = Len(b)
  <1>1. Len(b) \in Nat /\ Len(s) \in Nat
    BY LenProperties
  <1>2. ASSUME b = s PROVE Stands(b, 0, s) /\ Len(s) = Len(b)
    BY <1>1, <1>2 DEF Stands
  <1>3. ASSUME Stands(b, 0, s), Len(s) = Len(b) PROVE b = s
    <2>1. \A i \in 1..Len(b) : b[i] = s[i]
      BY <1>1, <1>3 DEF Stands
    <2> QED
      BY <1>3, <2>1, SeqEqual
  <1> QED
    BY <1>2, <1>3

\* What take returns stands where it was taken.
LEMMA TakeStands ==
  ASSUME NEW b \in Seq(Byte), NEW o \in 0..Len(b), NEW n \in Nat, take(b, o, n).ok
  PROVE  /\ take(b, o, n).off = o + n /\ o + n \in 0..Len(b)
         /\ take(b, o, n).val = SubSeq(b, o + 1, o + n)
         /\ take(b, o, n).val \in Seq(Byte) /\ Len(take(b, o, n).val) = n
         /\ Stands(b, o, take(b, o, n).val)
  <1> DEFINE s == SubSeq(b, o + 1, o + n)
  <1>1. o \in Nat /\ Len(b) \in Nat
    BY NextBytes
  <1>2. Len(b) - o >= n
    BY DEF take, Failed
  <1>3. o + n <= Len(b) /\ o + n \in 0..Len(b)
    BY <1>1, <1>2
  <1>4. take(b, o, n).off = o + n /\ take(b, o, n).val = s
    BY <1>2 DEF take, Read
  <1>5. s \in Seq(Byte) /\ Len(s) = n /\ \A i \in 1..n : s[i] = b[o + i]
    BY <1>1, <1>3, Slice
  <1> HIDE DEF s
  <1>6. Stands(b, o, s)
    BY <1>3, <1>5 DEF Stands
  <1> QED
    BY <1>3, <1>4, <1>5, <1>6 DEF s

\* take returns what stands where it looks.
LEMMA StandsTake ==
  ASSUME NEW b \in Seq(Byte), NEW o \in Nat, NEW s \in Seq(Byte), Stands(b, o, s)
  PROVE  /\ o \in 0..Len(b) /\ o + Len(s) \in 0..Len(b)
         /\ take(b, o, Len(s)) = Read(o + Len(s), s)
  <1> DEFINE n == Len(s)
             t == SubSeq(b, o + 1, o + n)
  <1>1. n \in Nat /\ Len(b) \in Nat
    BY LenProperties
  <1>2. o + n <= Len(b) /\ \A i \in 1..n : b[o + i] = s[i]
    BY DEF Stands
  <1>3. Len(b) - o >= n /\ o \in 0..Len(b) /\ o + n \in 0..Len(b)
    BY <1>1, <1>2
  <1>4. t \in Seq(Byte) /\ Len(t) = n /\ \A i \in 1..n : t[i] = b[o + i]
    BY <1>1, <1>2, Slice
  <1>5. take(b, o, n) = Read(o + n, t)
    BY <1>3 DEF take
  <1> HIDE DEF t
  <1>6. t = s
    <2>1. \A i \in 1..Len(t) : t[i] = s[i]
      BY <1>2, <1>4
    <2> QED
      BY <1>4, <2>1, SeqEqual
  <1> QED
    BY <1>3, <1>5, <1>6

\* How a length is written.
LEMMA LengthType ==
  ASSUME NEW n \in 0..MaxLength
  PROVE  EncodeLength(n) \in Seq(Byte) /\ Len(EncodeLength(n)) \in 1..3
  <1> DEFINE Goal == EncodeLength(n) \in Seq(Byte) /\ Len(EncodeLength(n)) \in 1..3
  <1>1. ASSUME NEW x \in Low, EncodeLength(n) = << x >> PROVE Goal
    BY <1>1 DEF Low, Byte
  <1>2. ASSUME NEW x \in High, NEW y \in Low, EncodeLength(n) = << x, y >>
        PROVE  Goal
    BY <1>2 DEF Low, High, Byte
  <1>3. ASSUME NEW x \in High, NEW y \in High, NEW z \in 1..3,
               EncodeLength(n) = << x, y, z >>
        PROVE  Goal
    BY <1>3 DEF High, Byte
  <1> HIDE DEF Goal
  <1>4. Goal
    BY <1>1, <1>2, <1>3, EncodeShape
  <1> QED
    BY <1>4 DEF Goal

\* compactU16 returns the length that stands where it looks.
LEMMA StandsLength ==
  ASSUME NEW b \in Seq(Byte), NEW o \in Nat, NEW n \in 0..MaxLength,
         Stands(b, o, EncodeLength(n))
  PROVE  compactU16(b, o) = Read(o + Len(EncodeLength(n)), n)
  <1> DEFINE s == EncodeLength(n)
             k == Len(s)
  <1>1. s \in Seq(Byte) /\ k \in 1..3
    BY LengthType
  <1> HIDE DEF s
  <1>2. /\ o \in 0..Len(b) /\ take(b, o, k) = Read(o + k, s)
        /\ o + k <= Len(b)
    BY <1>1, StandsTake DEF Stands, s
  <1>3. At(b, o, k) = s
    <2>1. take(b, o, k).ok /\ take(b, o, k).val = s
      BY <1>2 DEF Read
    <2>2. k \in Nat
      BY <1>1
    <2> QED
      BY <1>2, <2>1, <2>2, TakeStands DEF At
  <1> HIDE DEF k
  <1> QED
    BY <1>1, <1>2, <1>3, CompactAccepts DEF s, k

\* A length that is read stands where it was read.
LEMMA LengthStands ==
  ASSUME NEW b \in Seq(Byte), NEW o \in 0..Len(b), compactU16(b, o).ok
  PROVE  LET r == compactU16(b, o)
         IN  /\ r.val \in 0..MaxLength
             /\ r.off = o + Len(EncodeLength(r.val)) /\ r.off \in 0..Len(b)
             /\ Stands(b, o, EncodeLength(r.val))
  <1> DEFINE r == compactU16(b, o)
  <1>1. r # Failed
    BY DEF Failed
  <1>2. PICK k \in 1..3, n \in 0..MaxLength :
          r = Read(o + k, n) /\ o + k <= Len(b) /\ At(b, o, k) = EncodeLength(n)
    BY <1>1, CompactReads
  <1>3. r.val = n /\ r.off = o + k
    BY <1>2 DEF Read
  <1> HIDE DEF r
  <1>4. o \in Nat /\ k \in Nat /\ Len(b) \in Nat
    BY NextBytes
  <1>5. /\ Len(EncodeLength(n)) = k
        /\ \A i \in 1..k : EncodeLength(n)[i] = b[o + i]
    <2>1. /\ Len(SubSeq(b, o + 1, o + k)) = k
          /\ \A i \in 1..k : SubSeq(b, o + 1, o + k)[i] = b[o + i]
      BY <1>2, <1>4, Slice
    <2>2. SubSeq(b, o + 1, o + k) = EncodeLength(n)
      BY <1>2 DEF At
    <2> QED
      BY <2>1, <2>2
  <1>6. Stands(b, o, EncodeLength(n))
    BY <1>2, <1>5 DEF Stands
  <1>7. o + k \in 0..Len(b)
    BY <1>2, <1>4
  <1> QED
    BY <1>2, <1>3, <1>5, <1>6, <1>7 DEF r

-----------------------------------------------------------------------------
(* Parts written one after the other.                                      *)

\* f[i] is the first i parts of s, joined.
Joins(f, s) ==
  /\ f \in [0..Len(s) -> Seq(Byte)]
  /\ f[0] = << >>
  /\ \A i \in 1..Len(s) : f[i] = f[i - 1] \o s[i]

\* FlattenSeq joins all parts.
LEMMA FlattenJoins ==
  ASSUME NEW s \in Seq(Seq(Byte))
  PROVE  \E f : Joins(f, s) /\ FlattenSeq(s) = f[Len(s)]
  <1> DEFINE n == Len(s)
             V == Seq(Byte)
             step == [p \in V \X (1..n) |-> p[1] \o s[p[2]]]
             Loop(g) == g = [i \in 1..n |-> IF i = 1 THEN s[i] ELSE g[i-1] \o s[i]]
             flat == CHOOSE g : Loop(g)
  <1>0. n \in Nat /\ << >> \in V
    BY LenProperties
  <1>1. \A i \in 1..n : s[i] \in V
    BY ElementOfSeq
  <1>2. \A v \in V, i \in 1..n : v \o s[i] \in V
    BY <1>1, ConcatProperties
  <1>3. \A v \in V : << >> \o v = v
    BY ConcatEmptySeq
  <1> HIDE DEF V, n
  <1>4. step \in [V \X (1..n) -> V]
    BY <1>2
  <1>5. \A v \in V, i \in 1..n : step[<< v, i >>] = v \o s[i]
    OBVIOUS
  <1> HIDE DEF step
  <1>6. CASE n = 0
    <2> DEFINE f == [i \in 0..0 |-> << >>]
    <2>1. f \in [0..n -> V] /\ f[0] = << >>
      BY <1>0, <1>6
    <2>2. s = << >>
      BY <1>6 DEF n
    <2>3. FlattenSeq(s) = s
      BY <1>6 DEF FlattenSeq, n
    <2> HIDE DEF f
    <2>4. Joins(f, s)
      BY <1>6, <2>1 DEF Joins, n, V
    <2> QED
      BY <1>6, <2>1, <2>2, <2>3, <2>4 DEF n
  <1>7. CASE n # 0
    <2>1. FlattenSeq(s) = flat[n]
      BY <1>7 DEF FlattenSeq, n
    <2>2. PICK f : Computed(f, n, V, << >>, step)
      BY <1>0, <1>4, RecursionUpTo
    <2>3. \A i \in 1..n : f[i - 1] \in V /\ f[i] \in V /\ f[i] = f[i - 1] \o s[i]
      <3> TAKE i \in 1..n
      <3>1. f[i - 1] \in V /\ f[i] \in V /\ f[i] = step[<< f[i - 1], i >>]
        BY <1>0, <2>2, ComputedStep
      <3> QED
        BY <1>5, <3>1
    <2>4. f[0] = << >>
      BY <2>2 DEF Computed
    <2>5. \E g : Loop(g)
      <3> DEFINE g == [i \in 1..n |-> f[i]]
      <3>1. ASSUME NEW i \in 1..n
            PROVE  g[i] = IF i = 1 THEN s[i] ELSE g[i-1] \o s[i]
        <4>1. CASE i = 1
          <5>0. i - 1 = 0
            BY <4>1
          <5>1. f[i] = << >> \o s[i]
            BY <2>3, <2>4, <5>0, Zenon
          <5> QED
            BY <1>1, <1>3, <4>1, <5>1
        <4>2. CASE i # 1
          <5>1. i - 1 \in 1..n
            BY <1>0, <4>2
          <5> QED
            BY <2>3, <4>2, <5>1
        <4> QED
          BY <4>1, <4>2
      <3>2. g = [i \in 1..n |-> g[i]]
        OBVIOUS
      <3> HIDE DEF g
      <3>3. Loop(g)
        BY <3>1, <3>2
      <3> HIDE DEF Loop
      <3> QED
        BY <3>3
    <2>6. Loop(flat)
      <3> HIDE DEF Loop
      <3> QED
        BY <2>5
    <2> HIDE DEF flat
    <2> DEFINE body == [i \in 1..n |-> IF i = 1 THEN s[i] ELSE flat[i-1] \o s[i]]
    <2>7. flat = body
      BY <2>6
    <2>8. \A i \in 1..n : body[i] = IF i = 1 THEN s[i] ELSE flat[i-1] \o s[i]
      OBVIOUS
    <2> HIDE DEF body
    <2>9. \A i \in 1..n : flat[i] = IF i = 1 THEN s[i] ELSE flat[i-1] \o s[i]
      BY <2>7, <2>8
    <2> DEFINE S == { i \in 0..n : i = 0 \/ flat[i] = f[i] }
    <2>10. 0 \in S
      BY <1>0
    <2>11. ASSUME NEW i \in 0..(n - 1), i \in S PROVE i + 1 \in S
      <3>1. i + 1 \in 1..n /\ (i + 1) - 1 = i
        BY <1>0
      <3>2. f[i + 1] = f[i] \o s[i + 1]
        BY <2>3, <3>1
      <3>3. CASE i = 0
        <4>1. f[1] = << >> \o s[1] /\ flat[1] = s[1] /\ 1 \in 1..n
          <5>1. i + 1 = 1
            BY <3>3
          <5>2. flat[1] = s[1]
            BY <2>9, <3>1, <5>1
          <5> QED
            BY <2>4, <3>1, <3>2, <3>3, <5>1, <5>2, Zenon
        <4>2. flat[1] = f[1]
          BY <1>1, <1>3, <4>1
        <4> QED
          BY <1>0, <3>1, <3>3, <4>2
      <3>4. CASE i # 0
        <4>1. flat[i] = f[i]
          BY <2>11, <3>4
        <4>2. flat[i + 1] = flat[i] \o s[i + 1]
          <5>1. i + 1 # 1 /\ i + 1 \in 0..n
            BY <1>0, <3>1, <3>4
          <5> QED
            BY <2>9, <3>1, <5>1, Zenon
        <4>3. flat[i + 1] = f[i + 1]
          BY <3>2, <4>1, <4>2, Zenon
        <4> QED
          BY <1>0, <3>1, <4>3
      <3> QED
        BY <3>3, <3>4
    <2>12. n \in S
      <3> HIDE DEF S
      <3>1. \A i \in 0..n : i \in S
        BY <1>0, <2>10, <2>11, InductionUpTo
      <3> QED
        BY <1>0, <3>1
    <2>13. FlattenSeq(s) = f[n]
      BY <1>7, <2>1, <2>12
    <2>14. Joins(f, s)
      BY <2>2, <2>3 DEF Joins, Computed, V, n
    <2> QED
      BY <2>13, <2>14 DEF n
  <1> QED
    BY <1>6, <1>7

\* There is one way to join them.
LEMMA FlattenIs ==
  ASSUME NEW s \in Seq(Seq(Byte)), NEW f, Joins(f, s)
  PROVE  FlattenSeq(s) = f[Len(s)] /\ FlattenSeq(s) \in Seq(Byte)
  <1> DEFINE n == Len(s)
  <1>0. n \in Nat
    BY LenProperties
  <1>1. PICK g : Joins(g, s) /\ FlattenSeq(s) = g[n]
    BY FlattenJoins
  <1> DEFINE S == { i \in 0..n : f[i] = g[i] }
  <1>2. 0 \in S
    BY <1>0, <1>1 DEF Joins
  <1>3. ASSUME NEW i \in 0..(n - 1), i \in S PROVE i + 1 \in S
    <2>1. i + 1 \in 1..n /\ (i + 1) - 1 = i /\ i + 1 \in 0..n
      BY <1>0
    <2>2. f[i + 1] = f[i] \o s[i + 1] /\ g[i + 1] = g[i] \o s[i + 1]
      BY <1>1, <2>1 DEF Joins
    <2> QED
      BY <1>3, <2>1, <2>2
  <1>4. \A i \in 0..n : i \in S
    <2> HIDE DEF S, n
    <2> QED
      BY <1>0, <1>2, <1>3, InductionUpTo
  <1>5. n \in 0..n
    BY <1>0
  <1> QED
    BY <1>1, <1>4, <1>5 DEF Joins

\* No parts flatten to no bytes.
LEMMA FlattenEmpty == FlattenSeq(<< >>) = << >>
  BY DEF FlattenSeq

\* One part more in front comes before the bytes of the others.
LEMMA FlattenCons ==
  ASSUME NEW x \in Seq(Byte), NEW s \in Seq(Seq(Byte))
  PROVE  FlattenSeq(<< x >> \o s) = x \o FlattenSeq(s)
  <1> DEFINE n == Len(s)
             t == << x >> \o s
             e == FlattenSeq(s)
  <1>0. n \in Nat
    BY LenProperties
  <1>1. PICK f : Joins(f, s) /\ e = f[n]
    BY FlattenJoins
  <1> HIDE DEF e
  <1>2. /\ t \in Seq(Seq(Byte)) /\ Len(t) = n + 1
        /\ t[1] = x /\ \A i \in 2..(n + 1) : t[i] = s[i - 1]
    OBVIOUS
  <1> HIDE DEF t, n
  <1>10. \A u, v, w \in Seq(Byte) : (u \o v) \o w = u \o (v \o w)
    BY ConcatAssociative
  <1>3. /\ f[0] = << >> /\ \A i \in 0..n : f[i] \in Seq(Byte)
        /\ \A i \in 1..n : f[i] = f[i - 1] \o s[i] /\ s[i] \in Seq(Byte)
    BY <1>1, ElementOfSeq DEF Joins, n
  <1> DEFINE g == [i \in 0..(n + 1) |-> IF i = 0 THEN << >> ELSE x \o f[i - 1]]
  <1>4. g \in [0..(n + 1) -> Seq(Byte)]
    <2>1. ASSUME NEW i \in 0..(n + 1), i # 0 PROVE x \o f[i - 1] \in Seq(Byte)
      <3>1. i - 1 \in 0..n
        BY <1>0, <2>1
      <3> QED
        BY <1>3, <3>1, ConcatProperties
    <2>2. << >> \in Seq(Byte)
      OBVIOUS
    <2> QED
      BY <2>1, <2>2
  <1>5. g[0] = << >> /\ \A i \in 1..(n + 1) : g[i] = x \o f[i - 1]
    BY <1>0
  <1> HIDE DEF g
  <1>6. ASSUME NEW i \in 1..(n + 1) PROVE g[i] = g[i - 1] \o t[i]
    <2>1. CASE i = 1
      <3>1. g[1] = x \o << >> /\ g[0] = << >>
        <4>1. 1 \in 1..(n + 1) /\ 1 - 1 = 0
          BY <1>0
        <4> QED
          BY <1>3, <1>5, <4>1, Zenon
      <3>2. x \o << >> = x /\ << >> \o x = x
        BY ConcatEmptySeq
      <3> QED
        BY <1>2, <2>1, <3>1, <3>2
    <2>2. CASE i # 1
      <3>1. i - 1 \in 1..n /\ i - 1 \in 1..(n + 1) /\ i \in 2..(n + 1)
            /\ i - 2 \in 0..n /\ (i - 1) - 1 = i - 2
        BY <1>0, <2>2
      <3>2. /\ f[i - 1] = f[i - 2] \o s[i - 1] /\ s[i - 1] \in Seq(Byte)
            /\ f[i - 2] \in Seq(Byte)
        BY <1>3, <3>1
      <3>3. (x \o f[i - 2]) \o s[i - 1] = x \o (f[i - 2] \o s[i - 1])
        BY <1>10, <3>2, Zenon
      <3>4. g[i] = x \o f[i - 1] /\ g[i - 1] = x \o f[i - 2] /\ t[i] = s[i - 1]
        BY <1>2, <1>5, <3>1
      <3> QED
        BY <3>2, <3>3, <3>4
    <2> QED
      BY <2>1, <2>2
  <1>7. Joins(g, t)
    BY <1>2, <1>4, <1>5, <1>6 DEF Joins
  <1>8. FlattenSeq(t) = g[n + 1]
    BY <1>2, <1>7, FlattenIs
  <1>9. g[n + 1] = x \o e
    <2>1. n + 1 \in 1..(n + 1) /\ (n + 1) - 1 = n
      BY <1>0
    <2> QED
      BY <1>1, <1>5, <2>1
  <1> QED
    BY <1>8, <1>9 DEF t, e

\* Concatenation, as it is used below.
LEMMA Concat ==
  ASSUME NEW s \in Seq(Byte), NEW t \in Seq(Byte)
  PROVE  s \o t \in Seq(Byte) /\ Len(s \o t) = Len(s) + Len(t)
  BY ConcatProperties

\* The length of a prefix of parts that are addresses.
LEMMA JoinedLengths ==
  ASSUME NEW s \in Seq(Address), NEW f, Joins(f, s)
  PROVE  \A i \in 0..Len(s) : Len(f[i]) = i * AddrLen
  <1> DEFINE n == Len(s)
             S == { i \in 0..n : Len(f[i]) = i * AddrLen }
  <1>0. n \in Nat /\ AddrLen \in Nat
    BY LenProperties, AddrAssumption
  <1>1. 0 \in S
    <2>1. f[0] = << >> /\ Len(<< >>) = 0
      BY DEF Joins
    <2>2. 0 * AddrLen = 0 /\ 0 \in 0..n
      BY <1>0
    <2> QED
      BY <2>1, <2>2, Zenon
  <1>2. ASSUME NEW i \in 0..(n - 1), i \in S PROVE i + 1 \in S
    <2>1. i + 1 \in 1..n /\ (i + 1) - 1 = i /\ i \in 0..n /\ i + 1 \in 0..n
      BY <1>0
    <2>2. f[i + 1] = f[i] \o s[i + 1] /\ f[i] \in Seq(Byte)
      BY <2>1 DEF Joins
    <2>3. s[i + 1] \in Seq(Byte) /\ Len(s[i + 1]) = AddrLen
      BY <2>1, ElementOfSeq DEF Address
    <2>4. Len(f[i + 1]) = Len(f[i]) + AddrLen
      BY <2>2, <2>3, Concat
    <2>5. Len(f[i]) = i * AddrLen
      BY <1>2
    <2>6. i * AddrLen + AddrLen = (i + 1) * AddrLen
      BY <1>0, <2>1
    <2> QED
      BY <2>1, <2>4, <2>5, <2>6
  <1>3. \A i \in 0..n : i \in S
    <2> HIDE DEF S, n
    <2> QED
      BY <1>0, <1>1, <1>2, InductionUpTo
  <1> QED
    BY <1>3

\* Parts that are joined stand one after the other.
LEMMA JoinedStand ==
  ASSUME NEW s \in Seq(Seq(Byte)), NEW f, Joins(f, s), NEW b \in Seq(Byte),
         b = f[Len(s)]
  PROVE  \A i \in 0..Len(s) : Stands(b, 0, f[i])
  <1> DEFINE n == Len(s)
             S == { i \in 0..n : Stands(b, 0, f[n - i]) }
  <1>0. n \in Nat
    BY LenProperties
  <1>1. 0 \in S
    <2>1. n - 0 = n /\ 0 \in 0..n
      BY <1>0
    <2>2. Stands(b, 0, b)
      BY StandsWhole
    <2> QED
      BY <2>1, <2>2
  <1>2. ASSUME NEW i \in 0..(n - 1), i \in S PROVE i + 1 \in S
    <2> DEFINE j == n - i
    <2>1. j \in 1..n /\ j \in 0..n /\ j - 1 = n - (i + 1) /\ j - 1 \in 0..n /\ i + 1 \in 0..n
      BY <1>0
    <2>2. Stands(b, 0, f[j])
      BY <1>2
    <2> HIDE DEF j
    <2>3. f[j] = f[j - 1] \o s[j] /\ f[j - 1] \in Seq(Byte) /\ s[j] \in Seq(Byte)
      BY <2>1, ElementOfSeq DEF Joins
    <2>4. Stands(b, 0, f[j - 1] \o s[j])
      BY <2>2, <2>3, Zenon
    <2>5. Stands(b, 0, f[j - 1])
      BY <2>3, <2>4, StandsConcat
    <2> QED
      BY <2>1, <2>5
  <1>3. \A i \in 0..n : i \in S
    <2> HIDE DEF S, n
    <2> QED
      BY <1>0, <1>1, <1>2, InductionUpTo
  <1>4. ASSUME NEW i \in 0..n PROVE Stands(b, 0, f[i])
    <2>1. n - i \in 0..n /\ n - (n - i) = i
      BY <1>0
    <2>2. Stands(b, 0, f[n - (n - i)])
      BY <1>3, <2>1
    <2> QED
      BY <2>1, <2>2
  <1> QED
    BY <1>4

\* Address i of a run of them.
Cut(all, i) == SubSeq(all, (i - 1) * AddrLen + 1, i * AddrLen)

\* Addresses written one after the other are cut where they were joined.
LEMMA CutsOfJoined ==
  ASSUME NEW s \in Seq(Address)
  PROVE  /\ FlattenSeq(s) \in Seq(Byte)
         /\ Len(FlattenSeq(s)) = Len(s) * AddrLen
         /\ \A i \in 1..Len(s) : Cut(FlattenSeq(s), i) = s[i]
  <1> DEFINE b == FlattenSeq(s)
             n == Len(s)
  <1>0. n \in Nat /\ AddrLen \in Nat
    BY LenProperties, AddrAssumption
  <1>1. s \in Seq(Seq(Byte))
    BY DEF Address
  <1>2. PICK f : Joins(f, s) /\ b = f[n]
    BY <1>1, FlattenJoins
  <1>3. b \in Seq(Byte)
    BY <1>1, <1>2, FlattenIs
  <1> HIDE DEF b
  <1>4. \A i \in 0..n : Len(f[i]) = i * AddrLen
    BY <1>2, JoinedLengths
  <1>5. Len(b) = n * AddrLen
    BY <1>0, <1>2, <1>4
  <1>6. ASSUME NEW i \in 1..n PROVE Cut(b, i) = s[i]
    <2> DEFINE o == (i - 1) * AddrLen
    <2>0. i \in 0..n /\ i - 1 \in 0..n
      BY <1>0
    <2>1. o \in Nat /\ o + AddrLen = i * AddrLen
      BY <1>0, Multiples
    <2>2. /\ f[i] = f[i - 1] \o s[i] /\ f[i - 1] \in Seq(Byte)
          /\ s[i] \in Seq(Byte) /\ Len(s[i]) = AddrLen
      <3>1. f[i] = f[i - 1] \o s[i] /\ f[i - 1] \in Seq(Byte)
        BY <1>2, <2>0 DEF Joins
      <3>2. s[i] \in Address
        BY ElementOfSeq
      <3> QED
        BY <3>1, <3>2 DEF Address
    <2>3. Stands(b, 0, f[i - 1] \o s[i])
      <3>1. Stands(b, 0, f[i])
        BY <1>1, <1>2, <1>3, <2>0, JoinedStand
      <3> QED
        BY <2>2, <3>1, Zenon
    <2>4. Len(f[i - 1]) = o
      BY <1>4, <2>0
    <2> HIDE DEF o
    <2>5. Stands(b, 0 + Len(f[i - 1]), s[i])
      BY <1>3, <2>2, <2>3, StandsConcat
    <2>6. Stands(b, o, s[i])
      BY <2>1, <2>4, <2>5
    <2>7. /\ o \in 0..Len(b) /\ take(b, o, AddrLen) = Read(o + AddrLen, s[i])
      BY <1>3, <2>1, <2>2, <2>6, StandsTake
    <2>8. take(b, o, AddrLen).ok /\ take(b, o, AddrLen).val = s[i]
      BY <2>7 DEF Read
    <2>9. s[i] = SubSeq(b, o + 1, o + AddrLen)
      BY <1>0, <1>3, <2>7, <2>8, TakeStands
    <2> QED
      BY <2>1, <2>9 DEF Cut, o
  <1> QED
    BY <1>3, <1>5, <1>6 DEF b

\* And what is cut is joined again.
LEMMA JoinedOfCuts ==
  ASSUME NEW all \in Seq(Byte), NEW n \in Nat, Len(all) = n * AddrLen
  PROVE  /\ [i \in 1..n |-> Cut(all, i)] \in Seq(Address)
         /\ FlattenSeq([i \in 1..n |-> Cut(all, i)]) = all
  <1> DEFINE s == [i \in 1..n |-> Cut(all, i)]
             f == [i \in 0..n |-> SubSeq(all, 1, i * AddrLen)]
  <1>0. AddrLen \in Nat
    BY AddrAssumption
  <1>1. ASSUME NEW i \in 1..n PROVE Cut(all, i) \in Address
    <2> DEFINE o == (i - 1) * AddrLen
    <2>1. o \in Nat /\ o + AddrLen = i * AddrLen /\ o + AddrLen <= Len(all)
      BY <1>0, Multiples
    <2>2. Cut(all, i) = SubSeq(all, o + 1, o + AddrLen)
      BY <2>1 DEF Cut
    <2> HIDE DEF o
    <2>3. /\ SubSeq(all, o + 1, o + AddrLen) \in Seq(Byte)
          /\ Len(SubSeq(all, o + 1, o + AddrLen)) = AddrLen
      BY <1>0, <2>1, Slice
    <2> QED
      BY <2>2, <2>3 DEF Address
  <1>2. s \in Seq(Address) /\ Len(s) = n
    <2> HIDE DEF Address, Cut
    <2> QED
      BY <1>1
  <1>3. s \in Seq(Seq(Byte))
    BY <1>2 DEF Address
  <1>4. ASSUME NEW i \in 0..n
        PROVE  i * AddrLen \in Nat /\ i * AddrLen <= Len(all)
    <2>1. (n - i) * AddrLen >= 0 /\ i * AddrLen >= 0
      BY <1>0
    <2>2. i * AddrLen + (n - i) * AddrLen = n * AddrLen
      BY <1>0
    <2> QED
      BY <1>0, <2>1, <2>2
  <1>5. ASSUME NEW i \in 0..n PROVE f[i] \in Seq(Byte)
    <2> DEFINE k == i * AddrLen
    <2>1. f[i] = SubSeq(all, 1, k)
      OBVIOUS
    <2>2. k \in Nat /\ k <= Len(all)
      BY <1>4
    <2> HIDE DEF k, f
    <2>3. SubSeq(all, 0 + 1, 0 + k) \in Seq(Byte)
      <3>1. 0 + k <= Len(all)
        BY <2>2
      <3> QED
        BY <2>2, <3>1, Slice
    <2> QED
      BY <2>1, <2>2, <2>3
  <1>6. f[0] = << >>
    <2>1. 0 * AddrLen = 0
      BY <1>0
    <2>2. SubSeq(all, 1, 0) = << >>
      OBVIOUS
    <2> QED
      BY <2>1, <2>2
  <1>7. ASSUME NEW i \in 1..n PROVE f[i] = f[i - 1] \o s[i]
    <2> DEFINE o == (i - 1) * AddrLen
               e == i * AddrLen
    <2>1. o \in Nat /\ o + AddrLen = e /\ e <= Len(all)
      BY <1>0, Multiples
    <2>2. /\ f[i] = SubSeq(all, 1, e) /\ f[i - 1] = SubSeq(all, 1, o)
          /\ s[i] = SubSeq(all, o + 1, e)
      <3>1. i \in 0..n /\ i - 1 \in 0..n
        OBVIOUS
      <3>2. f[i] = SubSeq(all, 1, e) /\ f[i - 1] = SubSeq(all, 1, o)
        BY <3>1
      <3>3. s[i] = Cut(all, i)
        OBVIOUS
      <3> QED
        BY <3>2, <3>3 DEF Cut
    <2> HIDE DEF o, e, f, s
    <2>3. /\ 1 \in 1..(Len(all) + 1) /\ o \in (1 - 1)..Len(all)
          /\ e \in o..Len(all)
      <3>1. Len(all) \in Nat
        BY LenProperties
      <3> QED
        BY <1>0, <2>1, <3>1
    <2>4. SubSeq(all, 1, o) \o SubSeq(all, o + 1, e) = SubSeq(all, 1, e)
      BY <2>3, ConcatAdjacentSubSeq
    <2> QED
      BY <2>2, <2>4
  <1>8. f \in [0..n -> Seq(Byte)]
    BY <1>5
  <1>9. f[n] = all
    <2>1. f[n] = SubSeq(all, 1, Len(all))
      OBVIOUS
    <2> QED
      BY <2>1, SubSeqFull
  <1> HIDE DEF f, s
  <1>10. Joins(f, s)
    BY <1>2, <1>6, <1>7, <1>8 DEF Joins
  <1>11. FlattenSeq(s) = all
    BY <1>2, <1>3, <1>9, <1>10, FlattenIs
  <1> QED
    BY <1>2, <1>11 DEF s

-----------------------------------------------------------------------------
(* The parser against the wire format, part by part.                       *)

\* A run of bytes within b.
LEMMA SliceOf ==
  ASSUME NEW b, NEW i \in 1..(Len(b) + 1), NEW j \in 0..Len(b)
  PROVE  SubSeq(b, i, j) \in Slices(b)
  BY DEF Slices

\* A count c and the bytes d it counts, as they stand in b from o on.
CountedAt(b, o, c, d) ==
  /\ d.val \in Counted(Byte) /\ d.val \in Slices(b) /\ c.val = Len(d.val)
  /\ c.off = o + Len(EncodeLength(Len(d.val))) /\ c.off \in 0..Len(b)
  /\ d.off = c.off + Len(d.val) /\ d.off \in 0..Len(b)
  /\ Stands(b, o, EncodeLength(Len(d.val))) /\ Stands(b, c.off, d.val)

\* What was read as a count and its bytes stands there as they are written.
LEMMA CountedStands ==
  ASSUME NEW b \in Seq(Byte), NEW o \in 0..Len(b), NEW c, NEW d,
         c = compactU16(b, o), c.ok, d = take(b, c.off, c.val), d.ok
  PROVE  CountedAt(b, o, c, d)
  <1>1. /\ c.val \in 0..MaxLength /\ c.off = o + Len(EncodeLength(c.val))
        /\ c.off \in 0..Len(b) /\ Stands(b, o, EncodeLength(c.val))
    BY LengthStands
  <1>2. c.val \in Nat
    BY <1>1
  <1>3. /\ d.off = c.off + c.val /\ c.off + c.val \in 0..Len(b)
        /\ d.val = SubSeq(b, c.off + 1, c.off + c.val)
        /\ d.val \in Seq(Byte) /\ Len(d.val) = c.val /\ Stands(b, c.off, d.val)
    BY <1>1, <1>2, TakeStands
  <1>4. d.val \in Counted(Byte)
    BY <1>1, <1>3 DEF Counted
  <1>5. d.val \in Slices(b)
    <2>1. c.off + 1 \in 1..(Len(b) + 1)
      <3>1. Len(b) \in Nat
        BY LenProperties
      <3> QED
        BY <1>1, <3>1
    <2>2. SubSeq(b, c.off + 1, c.off + c.val) \in Slices(b)
      BY <1>3, <2>1, SliceOf
    <2> QED
      BY <1>3, <2>2
  <1> QED
    BY <1>1, <1>3, <1>4, <1>5, Zenon DEF CountedAt

\* Where they stand they are read.
LEMMA StandsCounted ==
  ASSUME NEW b \in Seq(Byte), NEW o \in Nat, NEW s \in Counted(Byte),
         NEW p \in Nat, p = o + Len(EncodeLength(Len(s))),
         Stands(b, o, EncodeLength(Len(s))), Stands(b, p, s)
  PROVE  /\ compactU16(b, o) = Read(p, Len(s))
         /\ take(b, p, Len(s)) = Read(p + Len(s), s)
         /\ p + Len(s) \in 0..Len(b)
  <1>1. s \in Seq(Byte) /\ Len(s) \in 0..MaxLength
    BY LenProperties DEF Counted
  <1> QED
    BY <1>1, StandsLength, StandsTake

\* Where the parts of a written instruction stand.
LEMMA InstructionParts ==
  ASSUME NEW b \in Seq(Byte), NEW o \in Nat, NEW ix \in Instruction
  PROVE  LET p  == << ix.programIndex >>
             a  == ix.accounts
             d  == ix.data
             o1 == o + 1
             o2 == o1 + Len(EncodeLength(Len(a)))
             o3 == o2 + Len(a)
             o4 == o3 + Len(EncodeLength(Len(d)))
         IN  /\ EncodeInstruction(ix) \in Seq(Byte)
             /\ o + Len(EncodeInstruction(ix)) = o4 + Len(d)
             /\ o1 \in Nat /\ o2 \in Nat /\ o3 \in Nat /\ o4 \in Nat
             /\ p \in Seq(Byte) /\ a \in Counted(Byte) /\ d \in Counted(Byte)
             /\ Stands(b, o, EncodeInstruction(ix)) <=>
                  /\ Stands(b, o, p)
                  /\ Stands(b, o1, EncodeLength(Len(a))) /\ Stands(b, o2, a)
                  /\ Stands(b, o3, EncodeLength(Len(d))) /\ Stands(b, o4, d)
  <1> DEFINE p  == << ix.programIndex >>
             a  == ix.accounts
             d  == ix.data
             la == EncodeLength(Len(a))
             ld == EncodeLength(Len(d))
             o1 == o + 1
             o2 == o1 + Len(la)
             o3 == o2 + Len(a)
             o4 == o3 + Len(ld)
             s1 == p \o la
             s2 == s1 \o a
             s3 == s2 \o ld
             s4 == s3 \o d
  <1>1. p \in Seq(Byte) /\ Len(p) = 1 /\ a \in Counted(Byte) /\ d \in Counted(Byte)
    BY DEF Instruction
  <1>2. /\ a \in Seq(Byte) /\ d \in Seq(Byte)
        /\ Len(a) \in 0..MaxLength /\ Len(d) \in 0..MaxLength
    BY <1>1, LenProperties DEF Counted
  <1>3. la \in Seq(Byte) /\ ld \in Seq(Byte)
    BY <1>2, LengthType
  <1>4. EncodeInstruction(ix) = s4
    BY DEF EncodeInstruction
  <1> HIDE DEF p, a, d
  <1>5. /\ Len(a) \in Nat /\ Len(d) \in Nat /\ Len(la) \in Nat /\ Len(ld) \in Nat
    BY <1>2, <1>3, LenProperties
  <1> HIDE DEF la, ld
  <1>6. o1 \in Nat /\ o2 \in Nat /\ o3 \in Nat /\ o4 \in Nat
    BY <1>5
  <1>7. s1 \in Seq(Byte) /\ Len(s1) = 1 + Len(la)
    BY <1>1, <1>3, Concat
  <1> HIDE DEF s1
  <1>8. s2 \in Seq(Byte) /\ Len(s2) = Len(s1) + Len(a)
    BY <1>2, <1>7, Concat
  <1> HIDE DEF s2
  <1>9. s3 \in Seq(Byte) /\ Len(s3) = Len(s2) + Len(ld)
    BY <1>3, <1>8, Concat
  <1> HIDE DEF s3
  <1>10. s4 \in Seq(Byte) /\ Len(s4) = Len(s3) + Len(d)
    BY <1>2, <1>9, Concat
  <1> HIDE DEF s4
  <1>11. /\ o + Len(p) = o1 /\ o + Len(s1) = o2 /\ o + Len(s2) = o3
         /\ o + Len(s3) = o4 /\ o + Len(s4) = o4 + Len(d)
    BY <1>1, <1>5, <1>7, <1>8, <1>9, <1>10
  <1>12. Stands(b, o, s4) <=> Stands(b, o, s3) /\ Stands(b, o4, d)
    <2>1. Stands(b, o, s3 \o d) <=> Stands(b, o, s3) /\ Stands(b, o + Len(s3), d)
      BY <1>2, <1>9, StandsConcat
    <2> HIDE DEF o4
    <2> QED
      BY <1>11, <2>1 DEF s4
  <1>13. Stands(b, o, s3) <=> Stands(b, o, s2) /\ Stands(b, o3, ld)
    <2>1. Stands(b, o, s2 \o ld) <=> Stands(b, o, s2) /\ Stands(b, o + Len(s2), ld)
      BY <1>3, <1>8, StandsConcat
    <2> HIDE DEF o3
    <2> QED
      BY <1>11, <2>1 DEF s3
  <1>14. Stands(b, o, s2) <=> Stands(b, o, s1) /\ Stands(b, o2, a)
    <2>1. Stands(b, o, s1 \o a) <=> Stands(b, o, s1) /\ Stands(b, o + Len(s1), a)
      BY <1>2, <1>7, StandsConcat
    <2> HIDE DEF o2
    <2> QED
      BY <1>11, <2>1 DEF s2
  <1>15. Stands(b, o, s1) <=> Stands(b, o, p) /\ Stands(b, o1, la)
    <2>1. Stands(b, o, p \o la) <=> Stands(b, o, p) /\ Stands(b, o + Len(p), la)
      BY <1>1, <1>3, StandsConcat
    <2> HIDE DEF o1
    <2> QED
      BY <1>11, <2>1 DEF s1
  <1> HIDE DEF o1, o2, o3, o4
  <1>16. /\ EncodeInstruction(ix) \in Seq(Byte)
         /\ o + Len(EncodeInstruction(ix)) = o4 + Len(d)
         /\ Stands(b, o, EncodeInstruction(ix)) <=>
              /\ Stands(b, o, p)
              /\ Stands(b, o1, la) /\ Stands(b, o2, a)
              /\ Stands(b, o3, ld) /\ Stands(b, o4, d)
    BY <1>4, <1>10, <1>11, <1>12, <1>13, <1>14, <1>15, Zenon
  <1> QED
    BY <1>1, <1>6, <1>16, Zenon DEF p, a, d, la, ld, o1, o2, o3, o4

\* An instruction is read where it stands as it is written, whatever follows.
LEMMA StandsInstruction ==
  ASSUME NEW b \in Seq(Byte), NEW o \in Nat, NEW ix \in Instruction,
         Stands(b, o, EncodeInstruction(ix))
  PROVE  /\ o + Len(EncodeInstruction(ix)) \in 0..Len(b)
         /\ takeInstruction(b, o) =
              Read(o + Len(EncodeInstruction(ix)), Visible(ix))
  <1> DEFINE p  == << ix.programIndex >>
             a  == ix.accounts
             d  == ix.data
             o1 == o + 1
             o2 == o1 + Len(EncodeLength(Len(a)))
             o3 == o2 + Len(a)
             o4 == o3 + Len(EncodeLength(Len(d)))
             e  == o4 + Len(d)
  <1>1. /\ o1 \in Nat /\ o2 \in Nat /\ o3 \in Nat /\ o4 \in Nat
        /\ p \in Seq(Byte) /\ a \in Counted(Byte) /\ d \in Counted(Byte)
        /\ o + Len(EncodeInstruction(ix)) = e
        /\ Stands(b, o, p)
        /\ Stands(b, o1, EncodeLength(Len(a))) /\ Stands(b, o2, a)
        /\ Stands(b, o3, EncodeLength(Len(d))) /\ Stands(b, o4, d)
    BY InstructionParts, Zenon
  <1>2. Len(p) = 1 /\ p[1] = ix.programIndex
    OBVIOUS
  <1>3. take(b, o, 1) = Read(o1, p)
    <2> HIDE DEF p
    <2>1. take(b, o, Len(p)) = Read(o + Len(p), p)
      BY <1>1, StandsTake
    <2> QED
      BY <1>2, <2>1
  <1>15. /\ o2 = o1 + Len(EncodeLength(Len(a))) /\ o3 = o2 + Len(a)
         /\ o4 = o3 + Len(EncodeLength(Len(d))) /\ e = o4 + Len(d)
    OBVIOUS
  <1> HIDE DEF a, d, o1, o2, o3, o4, e
  <1>4. /\ compactU16(b, o1) = Read(o2, Len(a))
        /\ take(b, o2, Len(a)) = Read(o3, a)
    BY <1>1, <1>15, StandsCounted
  <1>5. /\ compactU16(b, o3) = Read(o4, Len(d))
        /\ take(b, o4, Len(d)) = Read(e, d)
        /\ e \in 0..Len(b)
    BY <1>1, <1>15, StandsCounted
  <1> HIDE DEF p
  <1>6. \A f, v : Read(f, v).ok /\ Read(f, v).off = f /\ Read(f, v).val = v
    BY DEF Read
  <1> DEFINE prog   == take(b, o, 1)
             nAccts == compactU16(b, prog.off)
             accts  == take(b, nAccts.off, nAccts.val)
             nData  == compactU16(b, accts.off)
             data   == take(b, nData.off, nData.val)
  <1>7. takeInstruction(b, o) =
          IF prog.ok /\ nAccts.ok /\ accts.ok /\ nData.ok /\ data.ok
          THEN Read(data.off, [ programIndex |-> prog.val[1], data |-> data.val ])
          ELSE Failed
    BY DEF takeInstruction, Then
  <1>14. /\ prog = take(b, o, 1) /\ nAccts = compactU16(b, prog.off)
        /\ accts = take(b, nAccts.off, nAccts.val)
        /\ nData = compactU16(b, accts.off)
        /\ data = take(b, nData.off, nData.val)
    OBVIOUS
  <1> HIDE DEF prog, nAccts, accts, nData, data
  <1>8. prog.ok /\ prog.off = o1 /\ prog.val = p
    BY <1>3, <1>6, <1>14
  <1>9. nAccts.ok /\ nAccts.off = o2 /\ nAccts.val = Len(a)
    BY <1>4, <1>6, <1>8, <1>14
  <1>10. accts.ok /\ accts.off = o3
    BY <1>4, <1>6, <1>9, <1>14
  <1>11. nData.ok /\ nData.off = o4 /\ nData.val = Len(d)
    BY <1>5, <1>6, <1>10, <1>14
  <1>12. data.ok /\ data.off = e /\ data.val = d
    BY <1>5, <1>6, <1>11, <1>14
  <1>13. takeInstruction(b, o) = Read(e, [ programIndex |-> p[1], data |-> d ])
    BY <1>7, <1>8, <1>9, <1>10, <1>11, <1>12, Zenon
  <1> QED
    BY <1>1, <1>2, <1>5, <1>13, Zenon DEF Visible, d

\* An instruction that is read stands there, as it is written, with account
\* indexes that are bytes of the payload.
LEMMA InstructionStands ==
  ASSUME NEW b \in Seq(Byte), NEW o \in 0..Len(b), takeInstruction(b, o).ok
  PROVE  \E ix \in Instruction :
           /\ ix.accounts \in Slices(b)
           /\ Stands(b, o, EncodeInstruction(ix))
  <1> DEFINE prog   == take(b, o, 1)
             nAccts == compactU16(b, prog.off)
             accts  == take(b, nAccts.off, nAccts.val)
             nData  == compactU16(b, accts.off)
             data   == take(b, nData.off, nData.val)
             ix     == [ programIndex |-> prog.val[1], accounts |-> accts.val,
                         data |-> data.val ]
  <1>1. prog.ok /\ nAccts.ok /\ accts.ok /\ nData.ok /\ data.ok
    <2>1. takeInstruction(b, o) =
            IF prog.ok /\ nAccts.ok /\ accts.ok /\ nData.ok /\ data.ok
            THEN Read(data.off, [ programIndex |-> prog.val[1], data |-> data.val ])
            ELSE Failed
      BY DEF takeInstruction, Then
    <2>2. Failed.ok = FALSE
      BY DEF Failed
    <2> QED
      BY <2>1, <2>2
  <1>9. /\ prog = take(b, o, 1) /\ nAccts = compactU16(b, prog.off)
        /\ accts = take(b, nAccts.off, nAccts.val)
        /\ nData = compactU16(b, accts.off)
        /\ data = take(b, nData.off, nData.val)
    OBVIOUS
  <1> HIDE DEF prog, nAccts, accts, nData, data
  <1>2. /\ prog.off = o + 1 /\ prog.off \in 0..Len(b) /\ o \in Nat
        /\ prog.val \in Seq(Byte) /\ Len(prog.val) = 1 /\ Stands(b, o, prog.val)
    <2>1. 1 \in Nat /\ o \in Nat
      BY NextBytes
    <2> QED
      BY <1>1, <1>9, <2>1, TakeStands
  <1>3. prog.val = << prog.val[1] >> /\ prog.val[1] \in Byte
    BY <1>2, Tuple1, ElementOfSeq
  <1>10. CountedAt(b, prog.off, nAccts, accts)
    BY <1>1, <1>2, <1>9, CountedStands, Zenon
  <1>4. /\ accts.val \in Counted(Byte) /\ accts.val \in Slices(b)
        /\ nAccts.off = prog.off + Len(EncodeLength(Len(accts.val)))
        /\ accts.off = nAccts.off + Len(accts.val) /\ accts.off \in 0..Len(b)
        /\ Stands(b, prog.off, EncodeLength(Len(accts.val)))
        /\ Stands(b, nAccts.off, accts.val)
    BY <1>10 DEF CountedAt
  <1>11. CountedAt(b, accts.off, nData, data)
    BY <1>1, <1>4, <1>9, CountedStands, Zenon
  <1>5. /\ data.val \in Counted(Byte)
        /\ nData.off = accts.off + Len(EncodeLength(Len(data.val)))
        /\ data.off = nData.off + Len(data.val)
        /\ Stands(b, accts.off, EncodeLength(Len(data.val)))
        /\ Stands(b, nData.off, data.val)
    BY <1>11 DEF CountedAt
  <1>6. ix \in Instruction
    BY <1>3, <1>4, <1>5 DEF Instruction
  <1>7. /\ << ix.programIndex >> = prog.val /\ ix.accounts = accts.val
        /\ ix.data = data.val
    BY <1>3
  <1> HIDE DEF ix
  <1>8. Stands(b, o, EncodeInstruction(ix))
    <2> DEFINE o1 == o + 1
               o2 == o1 + Len(EncodeLength(Len(ix.accounts)))
               o3 == o2 + Len(ix.accounts)
               o4 == o3 + Len(EncodeLength(Len(ix.data)))
    <2>1. o1 = prog.off /\ o2 = nAccts.off /\ o3 = accts.off /\ o4 = nData.off
      BY <1>2, <1>4, <1>5, <1>7, Zenon
    <2>2. Stands(b, o, EncodeInstruction(ix)) <=>
            /\ Stands(b, o, << ix.programIndex >>)
            /\ Stands(b, o1, EncodeLength(Len(ix.accounts)))
            /\ Stands(b, o2, ix.accounts)
            /\ Stands(b, o3, EncodeLength(Len(ix.data))) /\ Stands(b, o4, ix.data)
      BY <1>2, <1>6, InstructionParts, Zenon
    <2> HIDE DEF o1, o2, o3, o4
    <2> QED
      BY <1>2, <1>4, <1>5, <1>7, <2>1, <2>2, Zenon
  <1> QED
    BY <1>4, <1>6, <1>7, <1>8

-----------------------------------------------------------------------------
(* The loop over the instructions against the wire format.                 *)

\* What is seen of some instructions.
Seen(s) == [ i \in DOMAIN s |-> Visible(s[i]) ]

\* What is written for an instruction is a string of bytes.
LEMMA InstructionBytes ==
  ASSUME NEW ix \in Instruction PROVE EncodeInstruction(ix) \in Seq(Byte)
  <1>1. << >> \in Seq(Byte) /\ 0 \in Nat
    OBVIOUS
  <1> QED
    BY <1>1, InstructionParts, Zenon

\* And so is each of several.
LEMMA InstructionsBytes ==
  ASSUME NEW s \in Seq(Instruction)
  PROVE  /\ [ i \in DOMAIN s |-> EncodeInstruction(s[i]) ] \in Seq(Seq(Byte))
         /\ EncodeInstructions(s) \in Seq(Byte)
  <1> DEFINE w == [ i \in DOMAIN s |-> EncodeInstruction(s[i]) ]
  <1>1. \A i \in DOMAIN s : EncodeInstruction(s[i]) \in Seq(Byte)
    <2> TAKE i \in DOMAIN s
    <2>1. s[i] \in Instruction
      BY ElementOfSeq
    <2> QED
      BY <2>1, InstructionBytes
  <1>2. DOMAIN s = 1..Len(s) /\ Len(s) \in Nat
    BY LenProperties
  <1>3. w \in Seq(Seq(Byte))
    BY <1>1, <1>2
  <1> HIDE DEF w
  <1>4. FlattenSeq(w) \in Seq(Byte)
    BY <1>3, FlattenJoins, FlattenIs
  <1> QED
    BY <1>3, <1>4 DEF w, EncodeInstructions

\* One element in front of others.
LEMMA InFront ==
  ASSUME NEW S, NEW x \in S, NEW s \in Seq(S)
  PROVE  /\ << x >> \o s \in Seq(S) /\ Len(<< x >> \o s) = Len(s) + 1
         /\ DOMAIN (<< x >> \o s) = 1..(Len(s) + 1) /\ Len(s) \in Nat
         /\ DOMAIN s = 1..Len(s)
         /\ (<< x >> \o s)[1] = x
         /\ \A i \in 2..(Len(s) + 1) : (<< x >> \o s)[i] = s[i - 1]
  OBVIOUS

\* A list that is not empty has a first element.
LEMMA FirstAndRest ==
  ASSUME NEW S, NEW s \in Seq(S), NEW n \in Nat, Len(s) = n + 1
  PROVE  \E x \in S, r \in Seq(S) : s = << x >> \o r /\ Len(r) = n
  <1> DEFINE x == s[1]
             r == [ i \in 1..n |-> s[i + 1] ]
  <1>1. \A i \in 1..(n + 1) : s[i] \in S
    BY ElementOfSeq
  <1>2. \A i \in 1..n : s[i + 1] \in S
    BY <1>1
  <1>3. x \in S
    BY <1>1
  <1>4. r \in Seq(S) /\ Len(r) = n
    BY <1>2
  <1>5. \A i \in 2..(n + 1) : r[i - 1] = s[i]
    <2> TAKE i \in 2..(n + 1)
    <2>1. i - 1 \in 1..n /\ (i - 1) + 1 = i
      OBVIOUS
    <2> QED
      BY <2>1
  <1> DEFINE t == << x >> \o r
  <1> HIDE DEF r
  <1>6. t \in Seq(S) /\ Len(t) = n + 1 /\ t[1] = x /\ \A i \in 2..(n + 1) : t[i] = r[i - 1]
    BY <1>3, <1>4, InFront
  <1> HIDE DEF t
  <1>7. \A i \in 1..Len(s) : s[i] = t[i]
    BY <1>5, <1>6
  <1>8. s = t
    BY <1>6, <1>7, SeqEqual
  <1> QED
    BY <1>3, <1>4, <1>8 DEF t

\* Applied to each element.
LEMMA EachInFront ==
  ASSUME NEW S, NEW T, NEW x \in S, NEW s \in Seq(S),
         NEW f \in [S -> T]
  PROVE  [ i \in DOMAIN (<< x >> \o s) |-> f[(<< x >> \o s)[i]] ] =
           << f[x] >> \o [ i \in DOMAIN s |-> f[s[i]] ]
  <1> DEFINE n == Len(s)
             u == << x >> \o s
             l == [ i \in DOMAIN u |-> f[u[i]] ]
             v == [ i \in DOMAIN s |-> f[s[i]] ]
             r == << f[x] >> \o v
  <1>1. /\ u \in Seq(S) /\ DOMAIN u = 1..(n + 1) /\ n \in Nat /\ DOMAIN s = 1..n
        /\ u[1] = x /\ \A i \in 2..(n + 1) : u[i] = s[i - 1]
    BY InFront
  <1>2. \A i \in 1..n : s[i] \in S
    BY ElementOfSeq
  <1> HIDE DEF u, n
  <1>3. \A i \in 1..(n + 1) : u[i] \in S
    <2> TAKE i \in 1..(n + 1)
    <2>1. CASE i = 1
      BY <1>1, <2>1
    <2>2. CASE i # 1
      <3>1. i \in 2..(n + 1) /\ i - 1 \in 1..n
        BY <1>1, <2>2
      <3> QED
        BY <1>1, <1>2, <3>1
    <2> QED
      BY <2>1, <2>2
  <1>4. l \in Seq(T) /\ Len(l) = n + 1 /\ \A i \in 1..(n + 1) : l[i] = f[u[i]]
    BY <1>1, <1>3
  <1>5. v \in Seq(T) /\ Len(v) = n /\ \A i \in 1..n : v[i] = f[s[i]]
    BY <1>1, <1>2
  <1> HIDE DEF l, v
  <1>6. /\ r \in Seq(T) /\ Len(r) = n + 1 /\ r[1] = f[x]
        /\ \A i \in 2..(n + 1) : r[i] = v[i - 1]
    BY <1>5, InFront
  <1> HIDE DEF r
  <1>7. ASSUME NEW i \in 1..(n + 1) PROVE l[i] = r[i]
    <2>1. CASE i = 1
      BY <1>1, <1>4, <1>6, <2>1
    <2>2. CASE i # 1
      <3>1. i \in 2..(n + 1) /\ i - 1 \in 1..n
        BY <1>1, <2>2
      <3> QED
        BY <1>1, <1>4, <1>5, <1>6, <3>1
    <2> QED
      BY <2>1, <2>2
  <1>8. l = r
    BY <1>4, <1>6, <1>7, SeqEqual
  <1> QED
    BY <1>8 DEF l, r, u, v

\* An instruction written before others, and seen before others.
LEMMA InstructionsCons ==
  ASSUME NEW x \in Instruction, NEW s \in Seq(Instruction)
  PROVE  /\ EncodeInstructions(<< x >> \o s) =
              EncodeInstruction(x) \o EncodeInstructions(s)
         /\ Seen(<< x >> \o s) = << Visible(x) >> \o Seen(s)
  <1> DEFINE u == << x >> \o s
             write == [ ix \in Instruction |-> EncodeInstruction(ix) ]
             see   == [ ix \in Instruction |-> Visible(ix) ]
             see_T == { Visible(ix) : ix \in Instruction }
             w == [ i \in DOMAIN s |-> EncodeInstruction(s[i]) ]
             wu == [ i \in DOMAIN u |-> EncodeInstruction(u[i]) ]
  <1>1. u \in Seq(Instruction)
    BY InFront
  <1> HIDE DEF u
  <1>2. write \in [Instruction -> Seq(Byte)]
    BY InstructionBytes
  <1>3. see \in [Instruction -> see_T]
    OBVIOUS
  <1>4. /\ \A i \in DOMAIN s : s[i] \in Instruction
        /\ \A i \in DOMAIN u : u[i] \in Instruction
    BY <1>1, ElementOfSeq
  <1>5. /\ w = [ i \in DOMAIN s |-> write[s[i]] ]
        /\ wu = [ i \in DOMAIN u |-> write[u[i]] ]
        /\ write[x] = EncodeInstruction(x)
    BY <1>4
  <1>6. /\ Seen(s) = [ i \in DOMAIN s |-> see[s[i]] ]
        /\ Seen(u) = [ i \in DOMAIN u |-> see[u[i]] ]
        /\ see[x] = Visible(x)
    BY <1>4 DEF Seen
  <1>7. w \in Seq(Seq(Byte))
    BY InstructionsBytes
  <1>8. EncodeInstruction(x) \in Seq(Byte)
    BY InstructionBytes
  <1>9. FlattenSeq(w) = EncodeInstructions(s) /\ FlattenSeq(wu) = EncodeInstructions(u)
    BY DEF EncodeInstructions
  <1> HIDE DEF write, see, see_T, w, wu
  <1>10. wu = << EncodeInstruction(x) >> \o w
    BY <1>2, <1>5, EachInFront DEF u
  <1>11. Seen(u) = << Visible(x) >> \o Seen(s)
    <2>1. [ i \in DOMAIN u |-> see[u[i]] ] =
            << see[x] >> \o [ i \in DOMAIN s |-> see[s[i]] ]
      BY <1>3, EachInFront DEF u
    <2> QED
      BY <1>6, <2>1, Zenon
  <1>12. FlattenSeq(wu) = EncodeInstruction(x) \o FlattenSeq(w)
    BY <1>7, <1>8, <1>10, FlattenCons
  <1> QED
    BY <1>9, <1>11, <1>12, Zenon DEF u

\* Instructions are read where they stand as they are written.
LEMMA StandsInstructions ==
  ASSUME NEW b \in Seq(Byte), NEW some, Loops(b, some), NEW n \in 0..MaxLength
  PROVE  \A o \in 0..Len(b), s \in Seq(Instruction) :
           Len(s) = n /\ Stands(b, o, EncodeInstructions(s)) =>
             some[n][o] = Read(o + Len(EncodeInstructions(s)), Seen(s))
  <1> DEFINE N == MaxLength
             Good(k, o, s) == some[k][o] = Read(o + Len(EncodeInstructions(s)), Seen(s))
             S == { k \in 0..N : \A o \in 0..Len(b), s \in Seq(Instruction) :
                      Len(s) = k /\ Stands(b, o, EncodeInstructions(s)) => Good(k, o, s) }
  <1>0. N \in Nat /\ Len(b) \in Nat
    BY LenProperties DEF MaxLength
  <1> HIDE DEF N
  <1>1. 0 \in S
    <2> SUFFICES ASSUME NEW o \in 0..Len(b), NEW s \in Seq(Instruction), Len(s) = 0
                 PROVE  Good(0, o, s)
      BY <1>0
    <2>1. s = << >>
      OBVIOUS
    <2>2. EncodeInstructions(s) = << >> /\ Seen(s) = << >>
      <3>1. [ i \in DOMAIN s |-> EncodeInstruction(s[i]) ] = << >>
        BY <2>1
      <3>2. Seen(s) = << >>
        BY <2>1 DEF Seen
      <3> QED
        BY <3>1, <3>2, FlattenEmpty DEF EncodeInstructions
    <2>3. o + Len(<< >>) = o
      OBVIOUS
    <2>4. some[0][o] = Read(o, << >>)
      BY DEF Loops
    <2> QED
      BY <2>2, <2>3, <2>4
  <1>2. ASSUME NEW k \in 0..(N - 1), k \in S PROVE k + 1 \in S
    <2> HIDE DEF Good
    <2>0. k + 1 \in 0..N /\ k + 1 \in 1..MaxLength /\ (k + 1) - 1 = k /\ k \in Nat
      BY <1>0 DEF N
    <2> SUFFICES ASSUME NEW o \in 0..Len(b), NEW s \in Seq(Instruction),
                        Len(s) = k + 1, Stands(b, o, EncodeInstructions(s))
                 PROVE  Good(k + 1, o, s)
      BY <2>0
    <2>1. PICK x \in Instruction, r \in Seq(Instruction) :
            s = << x >> \o r /\ Len(r) = k
      <3>1. Len(s) = k + 1 /\ k \in Nat /\ s \in Seq(Instruction)
        BY <2>0
      <3> QED
        BY <3>1, FirstAndRest, Zenon
    <2> DEFINE e == EncodeInstruction(x)
               er == EncodeInstructions(r)
               p == o + Len(e)
               ix == takeInstruction(b, o)
               more == some[k][ix.off]
    <2>2. EncodeInstructions(s) = e \o er /\ Seen(s) = << Visible(x) >> \o Seen(r)
      BY <2>1, InstructionsCons
    <2>3. e \in Seq(Byte) /\ er \in Seq(Byte) /\ o \in Nat
      <3>1. e \in Seq(Byte) /\ er \in Seq(Byte)
        BY InstructionBytes, InstructionsBytes, Zenon
      <3> QED
        BY <1>0, <3>1
    <2> HIDE DEF e, er
    <2>4. Stands(b, o, e) /\ Stands(b, p, er)
      BY <2>2, <2>3, StandsConcat
    <2>5. p \in 0..Len(b) /\ ix = Read(p, Visible(x))
      BY <2>3, <2>4, StandsInstruction DEF e
    <2> HIDE DEF ix
    <2>6. ix.ok /\ ix.off = p /\ ix.val = Visible(x)
      BY <2>5 DEF Read
    <2>7. more = Read(p + Len(er), Seen(r))
      <3>1. Good(k, p, r)
        BY <1>2, <2>1, <2>4, <2>5 DEF er
      <3> QED
        BY <2>6, <3>1 DEF Good, er
    <2> HIDE DEF more
    <2>8. more.ok /\ more.off = p + Len(er) /\ more.val = Seen(r)
      BY <2>7 DEF Read
    <2>9. some[k + 1][o] =
            IF ix.ok /\ more.ok
            THEN Read(more.off, << ix.val >> \o more.val) ELSE Failed
      <3>1. some[k + 1][o] =
              LET i == takeInstruction(b, o)
                  m == some[(k + 1) - 1][i.off]
              IN  IF i.ok /\ m.ok
                  THEN Read(m.off, << i.val >> \o m.val) ELSE Failed
        BY <2>0 DEF Loops
      <3> QED
        BY <2>0, <3>1 DEF ix, more
    <2>10. some[k + 1][o] = Read(p + Len(er), Seen(s))
      BY <2>2, <2>6, <2>8, <2>9, Zenon
    <2>11. p + Len(er) = o + Len(e \o er)
      <3>1. Len(e) \in Nat /\ Len(er) \in Nat /\ Len(e \o er) = Len(e) + Len(er)
        BY <2>3, Concat, LenProperties
      <3> QED
        BY <2>3, <3>1
    <2> HIDE DEF p
    <2> QED
      BY <2>2, <2>10, <2>11, Zenon DEF Good
  <1>3. \A k \in 0..N : k \in S
    <2> HIDE DEF S
    <2> QED
      BY <1>0, <1>1, <1>2, InductionUpTo
  <1> QED
    BY <1>3 DEF N

\* Instructions that are read stand there, as they are written.
LEMMA InstructionsStand ==
  ASSUME NEW b \in Seq(Byte), NEW some, Loops(b, some), NEW n \in 0..MaxLength
  PROVE  \A o \in 0..Len(b) : some[n][o].ok =>
           \E s \in Seq(Instruction) :
             /\ Len(s) = n /\ \A i \in 1..n : s[i].accounts \in Slices(b)
             /\ Stands(b, o, EncodeInstructions(s))
  <1> DEFINE N == MaxLength
             Good(k, o, s) == /\ Len(s) = k
                              /\ \A i \in 1..k : s[i].accounts \in Slices(b)
                              /\ Stands(b, o, EncodeInstructions(s))
             S == { k \in 0..N : \A o \in 0..Len(b) :
                      some[k][o].ok => \E s \in Seq(Instruction) : Good(k, o, s) }
  <1>0. N \in Nat /\ Len(b) \in Nat
    BY LenProperties DEF MaxLength
  <1> HIDE DEF N
  <1>1. 0 \in S
    <2>1. EncodeInstructions(<< >>) = << >>
      <3>1. [ i \in DOMAIN << >> |-> EncodeInstruction(<< >>[i]) ] = << >>
        OBVIOUS
      <3> QED
        BY <3>1, FlattenEmpty DEF EncodeInstructions
    <2>2. \A o \in 0..Len(b) : Good(0, o, << >>)
      <3> TAKE o \in 0..Len(b)
      <3>1. Stands(b, o, << >>)
        BY DEF Stands
      <3> QED
        BY <2>1, <3>1
    <2>3. << >> \in Seq(Instruction) /\ 0 \in 0..N
      BY <1>0, EmptySeq
    <2> HIDE DEF Good
    <2> QED
      BY <2>2, <2>3, Zenon
  <1>2. ASSUME NEW k \in 0..(N - 1), k \in S PROVE k + 1 \in S
    <2> HIDE DEF Good
    <2>0. k + 1 \in 0..N /\ k + 1 \in 1..MaxLength /\ (k + 1) - 1 = k /\ k \in Nat
      BY <1>0 DEF N
    <2> SUFFICES ASSUME NEW o \in 0..Len(b), some[k + 1][o].ok
                 PROVE  \E s \in Seq(Instruction) : Good(k + 1, o, s)
      BY <2>0
    <2> DEFINE ix == takeInstruction(b, o)
               more == some[k][ix.off]
    <2>1. ix.ok /\ more.ok
      <3>1. some[k + 1][o] =
              LET i == takeInstruction(b, o)
                  m == some[(k + 1) - 1][i.off]
              IN  IF i.ok /\ m.ok
                  THEN Read(m.off, << i.val >> \o m.val) ELSE Failed
        BY <2>0 DEF Loops
      <3>2. Failed.ok = FALSE
        BY DEF Failed
      <3> QED
        BY <2>0, <3>1, <3>2
    <2>2. PICK x \in Instruction :
            x.accounts \in Slices(b) /\ Stands(b, o, EncodeInstruction(x))
      BY <2>1, InstructionStands
    <2> DEFINE e == EncodeInstruction(x)
               p == o + Len(e)
    <2>3. e \in Seq(Byte) /\ o \in Nat
      BY InstructionBytes
    <2>4. p \in 0..Len(b) /\ ix = Read(p, Visible(x))
      BY <2>2, <2>3, StandsInstruction
    <2> HIDE DEF ix
    <2>5. ix.off = p
      BY <2>4 DEF Read
    <2>6. PICK r \in Seq(Instruction) : Good(k, p, r)
      BY <1>2, <2>1, <2>4, <2>5
    <2> DEFINE s == << x >> \o r
               er == EncodeInstructions(r)
    <2>7. Len(r) = k /\ Stands(b, p, er) /\ \A i \in 1..k : r[i].accounts \in Slices(b)
      BY <2>6 DEF Good
    <2>8. /\ s \in Seq(Instruction) /\ Len(s) = k + 1 /\ s[1] = x
          /\ \A i \in 2..(k + 1) : s[i] = r[i - 1]
      BY <2>7, InFront
    <2>9. EncodeInstructions(s) = e \o er
      BY InstructionsCons
    <2>10. er \in Seq(Byte)
      BY InstructionsBytes
    <2> HIDE DEF s, e, er
    <2>11. Stands(b, o, EncodeInstructions(s))
      <3>1. Stands(b, o, e \o er)
        BY <2>2, <2>3, <2>7, <2>10, StandsConcat DEF e
      <3> QED
        BY <2>9, <3>1, Zenon
    <2>12. ASSUME NEW i \in 1..(k + 1) PROVE s[i].accounts \in Slices(b)
      <3>1. CASE i = 1
        BY <2>2, <2>8, <3>1
      <3>2. CASE i # 1
        <4>1. i \in 2..(k + 1) /\ i - 1 \in 1..k
          BY <2>0, <3>2
        <4> QED
          BY <2>7, <2>8, <4>1
      <3> QED
        BY <3>1, <3>2
    <2>13. Good(k + 1, o, s)
      BY <2>8, <2>11, <2>12 DEF Good
    <2> QED
      BY <2>8, <2>13
  <1>3. \A k \in 0..N : k \in S
    <2> HIDE DEF S
    <2> QED
      BY <1>0, <1>1, <1>2, InductionUpTo
  <1> QED
    BY <1>3 DEF N

-----------------------------------------------------------------------------
(* The message as a whole.                                                 *)

\* The fields of a read that succeeded.
LEMMA ReadFields ==
  \A o, v : Read(o, v).ok /\ Read(o, v).off = o /\ Read(o, v).val = v
  BY DEF Read

\* takeAccounts, with its addresses by name.
LEMMA AccountsAre ==
  ASSUME NEW b, NEW o, NEW c, c = compactU16(b, o),
         NEW all, all = take(b, c.off, c.val * AddrLen)
  PROVE  takeAccounts(b, o) =
           IF c.ok /\ all.ok
           THEN Read(all.off, [ i \in 1..c.val |-> Cut(all.val, i) ]) ELSE Failed
  BY DEF takeAccounts, Then, Cut

\* Account keys that are read stand there as they are written.
LEMMA AccountsStand ==
  ASSUME NEW b \in Seq(Byte), NEW o \in 0..Len(b), takeAccounts(b, o).ok
  PROVE  \E s \in Counted(Address) :
           /\ Stands(b, o, EncodeLength(Len(s)))
           /\ Stands(b, o + Len(EncodeLength(Len(s))), FlattenSeq(s))
  <1> DEFINE c   == compactU16(b, o)
             n   == c.val
             all == take(b, c.off, n * AddrLen)
             s   == [ i \in 1..n |-> Cut(all.val, i) ]
  <1>1. takeAccounts(b, o) = IF c.ok /\ all.ok THEN Read(all.off, s) ELSE Failed
    BY AccountsAre
  <1>2. c.ok /\ all.ok
    BY <1>1 DEF Failed
  <1>3. /\ n \in 0..MaxLength /\ c.off = o + Len(EncodeLength(n))
        /\ c.off \in 0..Len(b) /\ Stands(b, o, EncodeLength(n))
    BY <1>2, LengthStands
  <1> HIDE DEF c
  <1>4. n \in Nat /\ AddrLen \in Nat /\ n * AddrLen \in Nat
    BY <1>3, AddrAssumption
  <1> HIDE DEF n
  <1>5. /\ all.val \in Seq(Byte) /\ Len(all.val) = n * AddrLen
        /\ Stands(b, c.off, all.val)
    BY <1>2, <1>3, <1>4, TakeStands
  <1> HIDE DEF all
  <1>6. s \in Seq(Address) /\ FlattenSeq(s) = all.val
    BY <1>4, <1>5, JoinedOfCuts
  <1>7. Len(s) = n
    BY <1>4
  <1> HIDE DEF s
  <1>8. s \in Counted(Address)
    BY <1>3, <1>6, <1>7 DEF Counted
  <1>9. /\ Stands(b, o, EncodeLength(Len(s)))
        /\ Stands(b, o + Len(EncodeLength(Len(s))), FlattenSeq(s))
    BY <1>3, <1>5, <1>6, <1>7, Zenon
  <1> QED
    BY <1>8, <1>9

\* And where they stand they are read.
LEMMA StandsAccounts ==
  ASSUME NEW b \in Seq(Byte), NEW o \in Nat, NEW s \in Counted(Address),
         NEW p \in Nat, p = o + Len(EncodeLength(Len(s))),
         Stands(b, o, EncodeLength(Len(s))), Stands(b, p, FlattenSeq(s))
  PROVE  /\ p + Len(FlattenSeq(s)) \in 0..Len(b)
         /\ takeAccounts(b, o) = Read(p + Len(FlattenSeq(s)), s)
  <1> DEFINE n == Len(s)
             w == FlattenSeq(s)
             c == compactU16(b, o)
             all == take(b, c.off, c.val * AddrLen)
  <1>1. s \in Seq(Address) /\ n \in 0..MaxLength
    BY LenProperties DEF Counted
  <1>2. /\ w \in Seq(Byte) /\ Len(w) = n * AddrLen
        /\ \A i \in 1..n : Cut(w, i) = s[i]
    BY <1>1, CutsOfJoined
  <1>3. c = Read(p, n)
    BY <1>1, StandsLength
  <1>4. c.ok /\ c.off = p /\ c.val = n
    BY <1>3, ReadFields
  <1> HIDE DEF c, w
  <1>5. take(b, p, Len(w)) = Read(p + Len(w), w) /\ p + Len(w) \in 0..Len(b)
    BY <1>2, StandsTake DEF w
  <1>6. all = Read(p + Len(w), w)
    BY <1>2, <1>4, <1>5
  <1> HIDE DEF all
  <1>7. all.ok /\ all.off = p + Len(w) /\ all.val = w
    BY <1>6, ReadFields
  <1>8. [ i \in 1..n |-> Cut(w, i) ] = s
    <2>1. s = [ i \in 1..n |-> s[i] ]
      BY <1>1
    <2> QED
      BY <1>2, <2>1, Zenon
  <1>9. takeAccounts(b, o) =
          IF c.ok /\ all.ok
          THEN Read(all.off, [ i \in 1..c.val |-> Cut(all.val, i) ]) ELSE Failed
    BY AccountsAre DEF c, all
  <1>10. takeAccounts(b, o) = Read(p + Len(w), [ i \in 1..n |-> Cut(w, i) ])
    BY <1>4, <1>7, <1>9, Zenon
  <1> QED
    BY <1>5, <1>8, <1>10 DEF w

\* The instructions with their count: read where they stand.
LEMMA StandsAllInstructions ==
  ASSUME NEW b \in Seq(Byte), NEW o \in Nat, NEW s \in Counted(Instruction),
         NEW p \in Nat, p = o + Len(EncodeLength(Len(s))),
         Stands(b, o, EncodeLength(Len(s))), Stands(b, p, EncodeInstructions(s))
  PROVE  takeInstructions(b, o) = Read(p + Len(EncodeInstructions(s)), Seen(s))
  <1> DEFINE n == Len(s)
             c == compactU16(b, o)
  <1>1. s \in Seq(Instruction) /\ n \in 0..MaxLength
    BY LenProperties DEF Counted
  <1>2. c = Read(p, n)
    BY <1>1, StandsLength
  <1>3. c.ok /\ c.off = p /\ c.val = n
    BY <1>2, ReadFields
  <1>4. o \in 0..Len(b)
    BY <1>1, LengthType, StandsTake
  <1>5. p \in 0..Len(b)
    BY <1>1, InstructionsBytes, StandsTake
  <1>6. PICK some :
          /\ Loops(b, some)
          /\ takeInstructions(b, o) = IF c.ok THEN some[c.val][c.off] ELSE Failed
    BY <1>4, InstructionLoop
  <1> HIDE DEF c
  <1>7. takeInstructions(b, o) = some[n][p]
    BY <1>3, <1>6, Zenon
  <1>8. some[n][p] = Read(p + Len(EncodeInstructions(s)), Seen(s))
    BY <1>1, <1>5, <1>6, StandsInstructions
  <1> QED
    BY <1>7, <1>8

\* And once read, they stand there.
LEMMA AllInstructionsStand ==
  ASSUME NEW b \in Seq(Byte), NEW o \in 0..Len(b), takeInstructions(b, o).ok
  PROVE  \E s \in Counted(Instruction) :
           /\ \A i \in 1..Len(s) : s[i].accounts \in Slices(b)
           /\ Stands(b, o, EncodeLength(Len(s)))
           /\ Stands(b, o + Len(EncodeLength(Len(s))), EncodeInstructions(s))
  <1> DEFINE c == compactU16(b, o)
             n == c.val
  <1>1. PICK some :
          /\ Loops(b, some)
          /\ takeInstructions(b, o) = IF c.ok THEN some[n][c.off] ELSE Failed
    BY InstructionLoop
  <1>2. c.ok /\ some[n][c.off].ok
    <2>1. Failed.ok = FALSE
      BY DEF Failed
    <2> HIDE DEF c, n
    <2> QED
      BY <1>1, <2>1
  <1>3. /\ n \in 0..MaxLength /\ c.off = o + Len(EncodeLength(n))
        /\ c.off \in 0..Len(b) /\ Stands(b, o, EncodeLength(n))
    BY <1>2, LengthStands
  <1> HIDE DEF c, n
  <1>4. PICK s \in Seq(Instruction) :
          /\ Len(s) = n /\ \A i \in 1..n : s[i].accounts \in Slices(b)
          /\ Stands(b, c.off, EncodeInstructions(s))
    BY <1>1, <1>2, <1>3, InstructionsStand
  <1>5. s \in Counted(Instruction)
    BY <1>3, <1>4 DEF Counted
  <1>6. Stands(b, o + Len(EncodeLength(Len(s))), EncodeInstructions(s))
    BY <1>3, <1>4, Zenon
  <1> QED
    BY <1>3, <1>4, <1>5, <1>6

\* A byte has its high bit set or not.
LEMMA ByteSmall == ASSUME NEW x \in Byte PROVE x < 128 <=> ~(x >= 128)
  BY DEF Byte

\* Where the parts of a written message end: the account count, the accounts,
\* the blockhash, the instruction count and the instructions.
MessageEnds(m, o2, o3, o4, o5, e) ==
  /\ o2 = 3 + Len(EncodeLength(Len(m.accounts)))
  /\ o3 = o2 + Len(FlattenSeq(m.accounts))
  /\ o4 = o3 + AddrLen
  /\ o5 = o4 + Len(EncodeLength(Len(m.instructions)))
  /\ e  = o5 + Len(EncodeInstructions(m.instructions))

\* They stand in b one after the other.
MessageStands(b, m, o2, o3, o4, o5) ==
  /\ Stands(b, 0, m.header)
  /\ Stands(b, 3, EncodeLength(Len(m.accounts)))
  /\ Stands(b, o2, FlattenSeq(m.accounts))
  /\ Stands(b, o3, m.blockhash)
  /\ Stands(b, o4, EncodeLength(Len(m.instructions)))
  /\ Stands(b, o5, EncodeInstructions(m.instructions))

\* The parts of a message.
LEMMA MessageFields ==
  ASSUME NEW m \in MessageType
  PROVE  /\ m.header \in Seq(Byte) /\ Len(m.header) = 3 /\ m.header[1] < 128
         /\ m.accounts \in Counted(Address) /\ m.accounts \in Seq(Address)
         /\ Len(m.accounts) \in 0..MaxLength
         /\ m.blockhash \in Seq(Byte) /\ Len(m.blockhash) = AddrLen
         /\ m.instructions \in Counted(Instruction)
         /\ m.instructions \in Seq(Instruction)
         /\ Len(m.instructions) \in 0..MaxLength
  BY LenProperties DEF MessageType, Counted, Address

\* A written message stands in b where its parts do, and ends where they end.
LEMMA MessageParts ==
  ASSUME NEW b \in Seq(Byte), NEW m \in MessageType,
         NEW o2, NEW o3, NEW o4, NEW o5, NEW e, MessageEnds(m, o2, o3, o4, o5, e)
  PROVE  /\ Encode(m) \in Seq(Byte) /\ Len(Encode(m)) = e
         /\ o2 \in Nat /\ o3 \in Nat /\ o4 \in Nat /\ o5 \in Nat /\ e \in Nat
         /\ Stands(b, 0, Encode(m)) <=> MessageStands(b, m, o2, o3, o4, o5)
  <1> DEFINE h  == m.header
             la == EncodeLength(Len(m.accounts))
             fa == FlattenSeq(m.accounts)
             bh == m.blockhash
             li == EncodeLength(Len(m.instructions))
             fi == EncodeInstructions(m.instructions)
             s1 == h \o la
             s2 == s1 \o fa
             s3 == s2 \o bh
             s4 == s3 \o li
             s5 == s4 \o fi
  <1>1. /\ h \in Seq(Byte) /\ Len(h) = 3 /\ bh \in Seq(Byte) /\ Len(bh) = AddrLen
        /\ m.accounts \in Seq(Address) /\ m.instructions \in Seq(Instruction)
        /\ Len(m.accounts) \in 0..MaxLength /\ Len(m.instructions) \in 0..MaxLength
    BY MessageFields
  <1>2. /\ la \in Seq(Byte) /\ li \in Seq(Byte) /\ fa \in Seq(Byte) /\ fi \in Seq(Byte)
    BY <1>1, LengthType, CutsOfJoined, InstructionsBytes
  <1>3. Encode(m) = s5
    BY DEF Encode
  <1>4. /\ o2 = 3 + Len(la) /\ o3 = o2 + Len(fa) /\ o4 = o3 + AddrLen
        /\ o5 = o4 + Len(li) /\ e = o5 + Len(fi)
    BY DEF MessageEnds
  <1>5. MessageStands(b, m, o2, o3, o4, o5) <=>
          /\ Stands(b, 0, h) /\ Stands(b, 3, la) /\ Stands(b, o2, fa)
          /\ Stands(b, o3, bh) /\ Stands(b, o4, li) /\ Stands(b, o5, fi)
    BY Zenon DEF MessageStands
  <1> HIDE DEF h, la, fa, bh, li, fi
  <1>6. /\ AddrLen \in Nat /\ Len(la) \in Nat /\ Len(fa) \in Nat
        /\ Len(li) \in Nat /\ Len(fi) \in Nat
    BY <1>2, LenProperties, AddrAssumption
  <1>7. o2 \in Nat /\ o3 \in Nat /\ o4 \in Nat /\ o5 \in Nat /\ e \in Nat
    BY <1>4, <1>6
  <1>8. s1 \in Seq(Byte) /\ Len(s1) = Len(h) + Len(la)
    BY <1>1, <1>2, Concat
  <1>9. Stands(b, 0, s1) <=> Stands(b, 0, h) /\ Stands(b, 0 + Len(h), la)
    BY <1>1, <1>2, StandsConcat
  <1> HIDE DEF s1
  <1>10. s2 \in Seq(Byte) /\ Len(s2) = Len(s1) + Len(fa)
    BY <1>2, <1>8, Concat
  <1>11. Stands(b, 0, s2) <=> Stands(b, 0, s1) /\ Stands(b, 0 + Len(s1), fa)
    BY <1>2, <1>8, StandsConcat
  <1> HIDE DEF s2
  <1>12. s3 \in Seq(Byte) /\ Len(s3) = Len(s2) + Len(bh)
    BY <1>1, <1>10, Concat
  <1>13. Stands(b, 0, s3) <=> Stands(b, 0, s2) /\ Stands(b, 0 + Len(s2), bh)
    BY <1>1, <1>10, StandsConcat
  <1> HIDE DEF s3
  <1>14. s4 \in Seq(Byte) /\ Len(s4) = Len(s3) + Len(li)
    BY <1>2, <1>12, Concat
  <1>15. Stands(b, 0, s4) <=> Stands(b, 0, s3) /\ Stands(b, 0 + Len(s3), li)
    BY <1>2, <1>12, StandsConcat
  <1> HIDE DEF s4
  <1>16. s5 \in Seq(Byte) /\ Len(s5) = Len(s4) + Len(fi)
    BY <1>2, <1>14, Concat
  <1>17. Stands(b, 0, s5) <=> Stands(b, 0, s4) /\ Stands(b, 0 + Len(s4), fi)
    BY <1>2, <1>14, StandsConcat
  <1> HIDE DEF s5
  <1>18. /\ 0 + Len(h) = 3 /\ 0 + Len(s1) = o2 /\ 0 + Len(s2) = o3
         /\ 0 + Len(s3) = o4 /\ 0 + Len(s4) = o5 /\ Len(s5) = e
    BY <1>1, <1>4, <1>6, <1>8, <1>10, <1>12, <1>14, <1>16
  <1> QED
    BY <1>3, <1>5, <1>7, <1>9, <1>11, <1>13, <1>15, <1>16, <1>17, <1>18, Zenon

\* Whatever a serializer writes is read, to its last byte, and what is seen is
\* what was written: no message that fits the wire format is refused or
\* misread, whichever its counts, its addresses and its data.
THEOREM ParsesWritten ==
  ASSUME NEW m \in MessageType
  PROVE  /\ Encode(m) \in Seq(Byte)
         /\ parseMessage(Encode(m)) = Read(Len(Encode(m)), View(m))
  <1> DEFINE b  == Encode(m)
             h  == m.header
             a  == m.accounts
             bh == m.blockhash
             s  == m.instructions
             o2 == 3 + Len(EncodeLength(Len(a)))
             o3 == o2 + Len(FlattenSeq(a))
             o4 == o3 + AddrLen
             o5 == o4 + Len(EncodeLength(Len(s)))
             e  == o5 + Len(EncodeInstructions(s))
  <1>0. MessageEnds(m, o2, o3, o4, o5, e)
    BY Zenon DEF MessageEnds
  <1> HIDE DEF o2, o3, o4, o5, e
  <1>1. b \in Seq(Byte)
    <2>1. << >> \in Seq(Byte)
      OBVIOUS
    <2> QED
      BY <1>0, <2>1, MessageParts, Zenon
  <1>2. Stands(b, 0, b)
    BY <1>1, StandsWhole, Zenon
  <1>3. /\ Len(b) = e
        /\ o2 \in Nat /\ o3 \in Nat /\ o4 \in Nat /\ o5 \in Nat /\ e \in Nat
        /\ MessageStands(b, m, o2, o3, o4, o5)
    <2>1. /\ Len(b) = e
          /\ o2 \in Nat /\ o3 \in Nat /\ o4 \in Nat /\ o5 \in Nat /\ e \in Nat
          /\ Stands(b, 0, b) <=> MessageStands(b, m, o2, o3, o4, o5)
      BY <1>0, <1>1, MessageParts
    <2> QED
      BY <1>2, <2>1, Zenon
  <1>4. /\ h \in Seq(Byte) /\ Len(h) = 3 /\ h[1] < 128
        /\ a \in Counted(Address) /\ bh \in Seq(Byte) /\ Len(bh) = AddrLen
        /\ s \in Counted(Instruction)
    BY MessageFields
  <1>5. View(m) = [ accounts |-> a, instructions |-> Seen(s) ]
    BY DEF View, Seen
  <1>6. /\ o2 = 3 + Len(EncodeLength(Len(a)))  /\ o3 = o2 + Len(FlattenSeq(a))
        /\ o4 = o3 + AddrLen
        /\ o5 = o4 + Len(EncodeLength(Len(s))) /\ e = o5 + Len(EncodeInstructions(s))
        /\ Stands(b, 0, h)
        /\ Stands(b, 3, EncodeLength(Len(a)))  /\ Stands(b, o2, FlattenSeq(a))
        /\ Stands(b, o3, bh)
        /\ Stands(b, o4, EncodeLength(Len(s))) /\ Stands(b, o5, EncodeInstructions(s))
    BY <1>0, <1>3, Zenon DEF MessageEnds, MessageStands
  <1> HIDE DEF b, h, a, bh, s
  <1>7. take(b, 0, 3) = Read(3, h)
    <2>1. take(b, 0, Len(h)) = Read(0 + Len(h), h)
      BY <1>1, <1>4, <1>6, StandsTake
    <2> QED
      BY <1>4, <2>1
  <1>8. takeAccounts(b, 3) = Read(o3, a)
    <2>1. 3 \in Nat
      OBVIOUS
    <2>2. takeAccounts(b, 3) = Read(o2 + Len(FlattenSeq(a)), a)
      <3>1. /\ a \in Counted(Address) /\ o2 \in Nat
            /\ o2 = 3 + Len(EncodeLength(Len(a)))
            /\ Stands(b, 3, EncodeLength(Len(a))) /\ Stands(b, o2, FlattenSeq(a))
        BY <1>3, <1>4, <1>6, Zenon
      <3> QED
        BY <1>1, <2>1, <3>1, StandsAccounts, Zenon
    <2> QED
      BY <1>6, <2>2, Zenon
  <1>9. take(b, o3, AddrLen) = Read(o4, bh)
    <2>1. take(b, o3, Len(bh)) = Read(o3 + Len(bh), bh)
      BY <1>1, <1>3, <1>4, <1>6, StandsTake
    <2> QED
      BY <1>4, <1>6, <2>1
  <1>10. takeInstructions(b, o4) = Read(e, Seen(s))
    <2>1. takeInstructions(b, o4) = Read(o5 + Len(EncodeInstructions(s)), Seen(s))
      <3>1. /\ s \in Counted(Instruction) /\ o4 \in Nat /\ o5 \in Nat
            /\ o5 = o4 + Len(EncodeLength(Len(s)))
            /\ Stands(b, o4, EncodeLength(Len(s)))
            /\ Stands(b, o5, EncodeInstructions(s))
        BY <1>3, <1>4, <1>6, Zenon
      <3> QED
        BY <1>1, <3>1, StandsAllInstructions, Zenon
    <2> QED
      BY <1>6, <2>1, Zenon
  <1>11. ~(Len(b) = 0 \/ b[1] >= 128)
    <2>1. 0 + Len(h) <= Len(b) /\ \A i \in 1..Len(h) : b[0 + i] = h[i]
      BY <1>6 DEF Stands
    <2>2. b[1] = h[1] /\ Len(b) # 0
      <3>1. 1 \in 1..3 /\ 0 + 1 = 1
        OBVIOUS
      <3>2. b[1] = h[1]
        BY <1>4, <2>1, <3>1
      <3> QED
        BY <1>4, <2>1, <3>2
    <2>3. h[1] \in Byte
      <3>1. 1 \in 1..Len(h)
        BY <1>4
      <3> QED
        BY <1>4, <3>1, ElementOfSeq
    <2> QED
      BY <1>4, <2>2, <2>3, ByteSmall, Zenon
  <1> DEFINE header    == take(b, 0, 3)
             accts     == takeAccounts(b, header.off)
             blockhash == take(b, accts.off, AddrLen)
             ixs       == takeInstructions(b, blockhash.off)
  <1>12. parseMessage(b) =
          IF /\ ~(Len(b) = 0 \/ b[1] >= 128)
             /\ header.ok /\ accts.ok /\ blockhash.ok /\ ixs.ok
             /\ ixs.off = Len(b)
          THEN Read(ixs.off, [ accounts |-> accts.val, instructions |-> ixs.val ])
          ELSE Failed
    BY DEF parseMessage, Then
  <1>13. header = Read(3, h)
    BY <1>7
  <1>14. header.ok /\ header.off = 3
    BY <1>13, ReadFields
  <1> HIDE DEF header
  <1>15. accts = Read(o3, a)
    BY <1>8, <1>14
  <1>16. accts.ok /\ accts.off = o3 /\ accts.val = a
    BY <1>15, ReadFields
  <1> HIDE DEF accts
  <1>17. blockhash = Read(o4, bh)
    BY <1>9, <1>16
  <1>18. blockhash.ok /\ blockhash.off = o4
    BY <1>17, ReadFields
  <1> HIDE DEF blockhash
  <1>19. ixs = Read(e, Seen(s))
    BY <1>10, <1>18
  <1>20. ixs.ok /\ ixs.off = e /\ ixs.val = Seen(s)
    BY <1>19, ReadFields
  <1> HIDE DEF ixs
  <1>21. parseMessage(b) = Read(e, [ accounts |-> a, instructions |-> Seen(s) ])
    BY <1>3, <1>11, <1>12, <1>14, <1>16, <1>18, <1>20, Zenon
  <1> QED
    BY <1>1, <1>3, <1>5, <1>21, Zenon DEF b

\* Whatever is read was written: a payload parseMessage accepts is, byte for
\* byte, what a serializer writes for a message with the accounts, the programs
\* and the data that were read, and no other bytes are accepted for it.
THEOREM ParsesOnlyWritten ==
  ASSUME NEW b \in Seq(Byte), parseMessage(b).ok
  PROVE  \E m \in MessageType :
           /\ Encode(m) = b
           /\ parseMessage(b).val = View(m)
           /\ m.header = SubSeq(b, 1, 3) /\ m.blockhash \in Slices(b)
           /\ \A i \in 1..Len(m.instructions) :
                m.instructions[i].accounts \in Slices(b)
  <1> DEFINE header    == take(b, 0, 3)
             accts     == takeAccounts(b, header.off)
             blockhash == take(b, accts.off, AddrLen)
             ixs       == takeInstructions(b, blockhash.off)
             h         == header.val
             bh        == blockhash.val
  <1>1. parseMessage(b) =
          IF /\ ~(Len(b) = 0 \/ b[1] >= 128)
             /\ header.ok /\ accts.ok /\ blockhash.ok /\ ixs.ok
             /\ ixs.off = Len(b)
          THEN Read(ixs.off, [ accounts |-> accts.val, instructions |-> ixs.val ])
          ELSE Failed
    BY DEF parseMessage, Then
  <1>2. Failed.ok = FALSE
    BY DEF Failed
  <1>3. /\ header.ok /\ accts.ok /\ blockhash.ok /\ ixs.ok /\ ixs.off = Len(b)
        /\ ~(Len(b) = 0 \/ b[1] >= 128)
    BY <1>1, <1>2
  <1>4. 0 \in 0..Len(b) /\ AddrLen \in Nat /\ Len(b) \in Nat
    BY LenProperties, AddrAssumption
  <1>5. /\ header.off = 3 /\ 3 \in 0..Len(b) /\ h = SubSeq(b, 1, 3)
        /\ h \in Seq(Byte) /\ Len(h) = 3 /\ Stands(b, 0, h)
    <2>1. 3 \in Nat /\ 0 + 3 = 3 /\ 0 + 1 = 1
      OBVIOUS
    <2>2. /\ header.off = 0 + 3 /\ 0 + 3 \in 0..Len(b)
          /\ header.val = SubSeq(b, 0 + 1, 0 + 3)
          /\ header.val \in Seq(Byte) /\ Len(header.val) = 3 /\ Stands(b, 0, header.val)
      BY <1>3, <1>4, <2>1, TakeStands
    <2> HIDE DEF header
    <2> QED
      BY <2>1, <2>2
  <1> HIDE DEF header, h
  <1>6. PICK a \in Counted(Address) :
          /\ Stands(b, 3, EncodeLength(Len(a)))
          /\ Stands(b, 3 + Len(EncodeLength(Len(a))), FlattenSeq(a))
    BY <1>3, <1>5, AccountsStand
  <1> DEFINE o2 == 3 + Len(EncodeLength(Len(a)))
             o3 == o2 + Len(FlattenSeq(a))
             o4 == o3 + AddrLen
  <1>7. a \in Seq(Address) /\ Len(a) \in 0..MaxLength
    BY LenProperties DEF Counted
  <1>8. o2 \in Nat
    <2>1. Len(EncodeLength(Len(a))) \in Nat
      BY <1>7, LengthType
    <2> QED
      BY <2>1
  <1> HIDE DEF o2
  <1>9. accts = Read(o3, a) /\ o3 \in 0..Len(b)
    <2>1. 3 \in Nat /\ o2 = 3 + Len(EncodeLength(Len(a)))
      BY DEF o2
    <2>2. Stands(b, o2, FlattenSeq(a))
      BY <1>6 DEF o2
    <2>3. takeAccounts(b, 3) = Read(o3, a) /\ o3 \in 0..Len(b)
      BY <1>6, <1>8, <2>1, <2>2, StandsAccounts, Zenon
    <2> QED
      BY <1>5, <2>3
  <1> HIDE DEF accts, o3
  <1>10. accts.off = o3
    BY <1>9, ReadFields
  <1>11. /\ blockhash.off = o4 /\ o4 \in 0..Len(b) /\ bh \in Seq(Byte)
         /\ Len(bh) = AddrLen /\ Stands(b, o3, bh)
         /\ bh = SubSeq(b, o3 + 1, o3 + AddrLen)
    BY <1>3, <1>4, <1>9, <1>10, TakeStands
  <1>12. bh \in Slices(b)
    <2>1. o3 + 1 \in 1..(Len(b) + 1) /\ o3 + AddrLen \in 0..Len(b)
      BY <1>4, <1>9, <1>11
    <2> QED
      BY <1>11, <2>1, SliceOf
  <1> HIDE DEF blockhash, bh, o4
  <1>13. PICK s \in Counted(Instruction) :
           /\ \A i \in 1..Len(s) : s[i].accounts \in Slices(b)
           /\ Stands(b, o4, EncodeLength(Len(s)))
           /\ Stands(b, o4 + Len(EncodeLength(Len(s))), EncodeInstructions(s))
    BY <1>3, <1>11, AllInstructionsStand
  <1> DEFINE o5 == o4 + Len(EncodeLength(Len(s)))
             e  == o5 + Len(EncodeInstructions(s))
             m  == [ header |-> h, accounts |-> a, blockhash |-> bh,
                     instructions |-> s ]
  <1>14. h[1] < 128
    <2>1. \A i \in 1..Len(h) : b[0 + i] = h[i]
      BY <1>5 DEF Stands
    <2>2. 1 \in 1..3 /\ 0 + 1 = 1
      OBVIOUS
    <2>3. b[1] = h[1]
      BY <1>5, <2>1, <2>2
    <2>4. h[1] \in Byte
      <3>1. 1 \in 1..Len(h)
        BY <1>5
      <3> QED
        BY <1>5, <3>1, ElementOfSeq
    <2> QED
      BY <1>3, <2>3, <2>4, ByteSmall, Zenon
  <1>15. m \in MessageType
    BY <1>5, <1>11, <1>14 DEF MessageType, Address
  <1>16. m.header = h /\ m.accounts = a /\ m.blockhash = bh /\ m.instructions = s
    OBVIOUS
  <1> HIDE DEF m
  <1>17. /\ MessageEnds(m, o2, o3, o4, o5, e)
         /\ MessageStands(b, m, o2, o3, o4, o5)
    BY <1>5, <1>6, <1>11, <1>13, <1>16, Zenon
    DEF MessageEnds, MessageStands, o2, o3, o4
  <1>24. o5 = o4 + Len(EncodeLength(Len(s))) /\ e = o5 + Len(EncodeInstructions(s))
    OBVIOUS
  <1>25. Stands(b, o5, EncodeInstructions(s))
    BY <1>13
  <1> HIDE DEF o5, e
  <1>18. /\ Encode(m) \in Seq(Byte) /\ Len(Encode(m)) = e /\ o5 \in Nat
         /\ Stands(b, 0, Encode(m)) <=> MessageStands(b, m, o2, o3, o4, o5)
    BY <1>15, <1>17, MessageParts, Zenon
  <1>19. Stands(b, 0, Encode(m))
    BY <1>17, <1>18, Zenon
  <1>20. ixs = Read(e, Seen(s))
    <2>1. o4 \in Nat
      BY <1>4, <1>11
    <2>2. takeInstructions(b, o4) = Read(o5 + Len(EncodeInstructions(s)), Seen(s))
      BY <1>13, <1>18, <1>24, <1>25, <2>1, StandsAllInstructions, Zenon
    <2> QED
      BY <1>11, <1>24, <2>2, Zenon
  <1>21. e = Len(b)
    BY <1>3, <1>20, ReadFields
  <1>22. Encode(m) = b
    BY <1>18, <1>19, <1>21, StandsWhole
  <1>23. parseMessage(b).val = View(m)
    BY <1>15, <1>22, ParsesWritten, ReadFields
  <1> QED
    BY <1>5, <1>12, <1>13, <1>15, <1>16, <1>22, <1>23
=============================================================================
