----------------------------- MODULE TextProofs -----------------------------
(***************************************************************************)
(* Theorems about Calls, for every set of arguments, where what is called  *)
(* reads a text or writes one: that the codecs are exact, that an IPv4     *)
(* address has one spelling, which IPv6 addresses the printer returns for  *)
(* and which the parser gets right, and where a URI is cut.  Each rests on *)
(* lemmas about the operators of Codecs, Inet and Uri, a section for each; *)
(* the invariant adds that the result is that of the function called, with *)
(* arguments of its domain.                                                *)
(***************************************************************************)
EXTENDS CallsProofs
-----------------------------------------------------------------------------
(* The hexadecimal codec.                                                  *)

\* What a byte is read as.
LEMMA HexValIs ==
  ASSUME NEW c \in 0..255
  PROVE  /\ HexVal(c) \in -1..15 /\ (HexVal(c) >= 0 <=> c \in XDigit)
         /\ c = 0 => HexVal(c) = -1
BY DEF HexVal, XDigit, Digit

\* The digits are read as what they were written for.
LEMMA HexCsetIs ==
  ASSUME NEW v \in 0..15
  PROVE  /\ HexVal(HexCset[1 + v]) = v
         /\ HexCset[1 + v] \in Range(HexCset)
<1>1. 1 + v \in DOMAIN HexCset /\ HexCset[1 + v] = IF v < 10 THEN 48 + v ELSE 55 + v
  BY DEF HexCset
<1>2. HexVal(HexCset[1 + v]) = v
  <2> DEFINE c == HexCset[1 + v]
  <2> HIDE DEF c
  <2>1. c = IF v < 10 THEN 48 + v ELSE 55 + v
    BY <1>1 DEF c
  <2>2. HexVal(c) = v
    BY <2>1 DEF HexVal, Digit
  <2> QED
    BY <2>2 DEF c
<1>3. HexCset[1 + v] \in Range(HexCset)
  BY <1>1, Zenon DEF Range
<1> QED
  BY <1>2, <1>3

\* Bit i of a byte, the highest first, in the nibbles of the byte.
LEMMA NibbleBits ==
  ASSUME NEW h \in 0..15, NEW l \in 0..15, NEW i \in 0..7
  PROVE  (IF i < 4 THEN (h \div 2^(3 - i)) % 2 ELSE (l \div 2^(7 - i)) % 2)
           = ((16 * h + l) \div 2^(7 - i)) % 2
<1>1. i \in {0, 1, 2, 3, 4, 5, 6, 7}
  OBVIOUS
<1>2. CASE i = 0
  BY <1>2, Powers
<1>3. CASE i = 1
  BY <1>3, Powers
<1>4. CASE i = 2
  BY <1>4, Powers
<1>5. CASE i = 3
  BY <1>5, Powers
<1>6. CASE i = 4
  BY <1>6, Powers
<1>7. CASE i = 5
  BY <1>7, Powers
<1>8. CASE i = 6
  BY <1>8, Powers
<1>9. CASE i = 7
  BY <1>9, Powers
<1> QED
  BY <1>1, <1>2, <1>3, <1>4, <1>5, <1>6, <1>7, <1>8, <1>9

\* The bits of bytes are those of their nibbles.
LEMMA NibblesAre ==
  ASSUME NEW n \in Nat, NEW a \in [1..2 * n -> 0..15], NEW b \in [1..n -> Bytes]
  PROVE  (\A k \in 0..n - 1 : b[k + 1] = 16 * a[2 * k + 1] + a[2 * k + 2])
           => BitsOf(a, 4) = BitsOf(b, 8)
<1> SUFFICES ASSUME \A k \in 0..n - 1 : b[k + 1] = 16 * a[2 * k + 1] + a[2 * k + 2]
             PROVE  BitsOf(a, 4) = BitsOf(b, 8)
  OBVIOUS
<1>1. Len(a) = 2 * n /\ Len(b) = n
  <2>1. 2 * n \in Nat
    OBVIOUS
  <2> QED
    BY <2>1, FunSeq
<1>2. /\ BitsOf(a, 4) = [j \in 1..8 * n |-> (a[(j - 1) \div 4 + 1] \div 2^(4 - 1 - ((j - 1) % 4))) % 2]
      /\ BitsOf(b, 8) = [j \in 1..8 * n |-> (b[(j - 1) \div 8 + 1] \div 2^(8 - 1 - ((j - 1) % 8))) % 2]
  <2>1. 4 * Len(a) = 8 * n /\ 8 * Len(b) = 8 * n
    BY <1>1
  <2> QED
    BY <2>1, Zenon DEF BitsOf
<1>3. ASSUME NEW j \in 1..8 * n
      PROVE  (a[(j - 1) \div 4 + 1] \div 2^(4 - 1 - ((j - 1) % 4))) % 2
               = (b[(j - 1) \div 8 + 1] \div 2^(8 - 1 - ((j - 1) % 8))) % 2
  <2> DEFINE k == (j - 1) \div 8
             i == (j - 1) % 8
             h == a[2 * k + 1]
             l == a[2 * k + 2]
  <2>1. k \in 0..n - 1 /\ i \in 0..7 /\ j - 1 = 8 * k + i
    OBVIOUS
  <2>2. /\ i < 4 => (j - 1) \div 4 + 1 = 2 * k + 1 /\ 4 - 1 - ((j - 1) % 4) = 3 - i
        /\ ~(i < 4) => (j - 1) \div 4 + 1 = 2 * k + 2 /\ 4 - 1 - ((j - 1) % 4) = 7 - i
        /\ 8 - 1 - ((j - 1) % 8) = 7 - i
    <3> HIDE DEF k, i
    <3>1. j \in Nat /\ k \in Nat /\ i \in 0..7 /\ j - 1 = 8 * k + i
      BY <2>1
    <3>2. 8 - 1 - ((j - 1) % 8) = 7 - i
      BY <3>1 DEF i
    <3> QED
      BY <3>1, <3>2
  <2> HIDE DEF k, i
  <2>3. h \in 0..15 /\ l \in 0..15 /\ b[k + 1] = 16 * h + l
    <3>1. 2 * k + 1 \in 1..2 * n /\ 2 * k + 2 \in 1..2 * n
      BY <2>1
    <3> QED
      BY <2>1, <3>1
  <2> HIDE DEF h, l
  <2>4. (IF i < 4 THEN (h \div 2^(3 - i)) % 2 ELSE (l \div 2^(7 - i)) % 2)
           = ((16 * h + l) \div 2^(7 - i)) % 2
    BY <2>1, <2>3, NibbleBits
  <2>5. (j - 1) \div 8 + 1 = k + 1
    BY DEF k
  <2>6. (b[(j - 1) \div 8 + 1] \div 2^(8 - 1 - ((j - 1) % 8))) % 2 = ((16 * h + l) \div 2^(7 - i)) % 2
    BY <2>2, <2>3, <2>5, Zenon
  <2>7. CASE i < 4
    <3>1. (a[(j - 1) \div 4 + 1] \div 2^(4 - 1 - ((j - 1) % 4))) % 2 = (h \div 2^(3 - i)) % 2
      BY <2>2, <2>7, Zenon DEF h
    <3> QED
      BY <2>4, <2>6, <2>7, <3>1
  <2>8. CASE ~(i < 4)
    <3>1. (a[(j - 1) \div 4 + 1] \div 2^(4 - 1 - ((j - 1) % 4))) % 2 = (l \div 2^(7 - i)) % 2
      BY <2>2, <2>8, Zenon DEF l
    <3> QED
      BY <2>4, <2>6, <2>8, <3>1
  <2> QED
    BY <2>7, <2>8
<1> QED
  BY <1>2, <1>3, Zenon

\* The two halves of a byte.
LEMMA Halves ==
  ASSUME NEW x \in Bytes
  PROVE  x \div 16 \in 0..15 /\ x % 16 \in 0..15 /\ x = 16 * (x \div 16) + (x % 16)
BY DEF Bytes

\* hex_encode writes the nibbles of every byte.
LEMMA HexEncodeIs ==
  ASSUME NEW src \in Seq(Bytes)
  PROVE  LET got == HexEncode(src)
         IN /\ Range(got) \subseteq Range(HexCset)
            /\ BitsOf([k \in DOMAIN got |-> HexVal(got[k])], 4) = BitsOf(src, 8)
<1> DEFINE n == Len(src)
           v(k) == LET b == src[(k + 1) \div 2] IN IF k % 2 = 1 THEN b \div 16 ELSE b % 16
           got == HexEncode(src)
           a == [k \in 1..2 * n |-> v(k)]
<1>1. n \in Nat
  OBVIOUS
<1>2. \A k \in 1..2 * n : v(k) \in 0..15
  <2> TAKE k \in 1..2 * n
  <2>1. (k + 1) \div 2 \in 1..n
    BY <1>1
  <2>2. src[(k + 1) \div 2] \in Bytes
    BY <2>1
  <2>3. src[(k + 1) \div 2] \div 16 \in 0..15 /\ src[(k + 1) \div 2] % 16 \in 0..15
    BY <2>2, Halves, Zenon
  <2> QED
    BY <2>3
<1>3. got = [k \in 1..2 * n |-> HexCset[1 + v(k)]]
  BY DEF HexEncode
<1>4. \A k \in 0..n - 1 : src[k + 1] = 16 * a[2 * k + 1] + a[2 * k + 2]
  <2> TAKE k \in 0..n - 1
  <2>1. /\ 2 * k + 1 \in 1..2 * n /\ 2 * k + 2 \in 1..2 * n /\ k + 1 \in 1..n
        /\ ((2 * k + 1) + 1) \div 2 = k + 1 /\ ((2 * k + 2) + 1) \div 2 = k + 1
        /\ (2 * k + 1) % 2 = 1 /\ (2 * k + 2) % 2 = 0
    BY <1>1
  <2>2. src[k + 1] \in Bytes
    BY <2>1
  <2>3. v(2 * k + 1) = src[k + 1] \div 16 /\ v(2 * k + 2) = src[k + 1] % 16
    BY <2>1
  <2>4. a[2 * k + 1] = src[k + 1] \div 16 /\ a[2 * k + 2] = src[k + 1] % 16
    <3> HIDE DEF v
    <3> QED
      BY <2>1, <2>3
  <2>5. src[k + 1] = 16 * (src[k + 1] \div 16) + (src[k + 1] % 16)
    BY <2>2, Halves, Zenon
  <2> HIDE DEF a
  <2> QED
    BY <2>4, <2>5, Zenon
<1> HIDE DEF v
<1>5. DOMAIN got = 1..2 * n
  BY <1>3
<1>6. [k \in DOMAIN got |-> HexVal(got[k])] = a
  BY <1>2, <1>3, <1>5, HexCsetIs
<1>7. a \in [1..2 * n -> 0..15]
  BY <1>2
<1>8. src \in [1..n -> Bytes]
  BY LenProperties, Zenon
<1>9. BitsOf(a, 4) = BitsOf(src, 8)
  <2> HIDE DEF a, n
  <2> QED
    BY <1>1, <1>4, <1>7, <1>8, NibblesAre
<1>10. Range(got) \subseteq Range(HexCset)
  <2>1. \A k \in 1..2 * n : got[k] \in Range(HexCset)
    BY <1>2, <1>3, HexCsetIs
  <2>2. \A x \in Range(got) : \E k \in DOMAIN got : x = got[k]
    BY Zenon DEF Range
  <2> HIDE DEF got
  <2> QED
    BY <1>5, <2>1, <2>2, Zenon
<1> QED
  BY <1>6, <1>9, <1>10

\* A loop that ends at some place ends at a first one.
LEMMA FirstExists ==
  ASSUME NEW n \in Nat, NEW T \in SUBSET (0..n), NEW t \in T
  PROVE  \E k \in 0..n : k \in T /\ \A h \in 0..k - 1 : h \notin T
<1>1. T \subseteq Nat /\ T # {}
  OBVIOUS
<1>2. PICK k \in T : \A h \in T : ~(<<h, k>> \in OpToRel(<, Nat))
  BY <1>1, NatLessThanWellFounded, WFMin
<1>3. k \in 0..n
  OBVIOUS
<1>4. \A h \in 0..k - 1 : h \notin T
  <2> SUFFICES ASSUME NEW h \in 0..k - 1, h \in T PROVE FALSE
    OBVIOUS
  <2>1. h \in Nat /\ k \in Nat /\ h < k
    BY <1>3
  <2> QED
    BY <1>2, <2>1 DEF OpToRel
<1> QED
  BY <1>2, <1>3, <1>4

\* What hex_decode writes and returns.
LEMMA HexDecodeIs ==
  ASSUME NEW src \in Seq(1..255), NEW size \in Nat
  PROVE  LET got == HexDecode(src, size)
             valid == Len(src) % 2 = 0 /\ Range(src) \subseteq XDigit
         IN /\ Len(got.out) <= size
            /\ got.ret = 0 <=> valid /\ Len(src) <= 2 * size
            /\ valid /\ got.ret # 0 => got.ret = ENOMEM
            /\ got.ret = 0 => BitsOf(got.out, 8) =
                                 BitsOf([k \in DOMAIN src |-> HexVal(src[k])], 4)
<1> DEFINE n == Len(src)
           hi(k) == HexVal(At(src, 2 * k))
           lo(k) == HexVal(At(src, 2 * k + 1))
           bad(k) == hi(k) < 0 \/ lo(k) < 0
           i == CHOOSE k \in 0..n : (bad(k) \/ k = size) /\ \A h \in 0..k - 1 : ~(bad(h) \/ h = size)
           out == [k \in 1..i |-> 16 * hi(k - 1) + lo(k - 1)]
           got == HexDecode(src, size)
           valid == Len(src) % 2 = 0 /\ Range(src) \subseteq XDigit
<1>1. n \in Nat
  OBVIOUS
<1>2. \A k \in Nat : /\ At(src, k) \in 0..255 /\ (At(src, k) = 0 <=> k >= n)
                     /\ k < n => At(src, k) = src[k + 1]
  <2> TAKE k \in Nat
  <2>1. CASE k < n
    <3>1. k + 1 \in 1..n
      BY <1>1, <2>1
    <3>2. At(src, k) = src[k + 1]
      BY <2>1 DEF At
    <3>3. src[k + 1] \in 1..255
      <4>1. src \in [1..n -> 1..255]
        BY LenProperties, Zenon
      <4> QED
        BY <3>1, <4>1, Zenon
    <3>4. At(src, k) \in 1..255
      BY <3>2, <3>3
    <3>5. At(src, k) \in 0..255 /\ At(src, k) # 0
      <4>1. \A x \in 1..255 : x \in 0..255 /\ x # 0
        OBVIOUS
      <4> QED
        BY <3>4, <4>1, Zenon
    <3>6. ~(k >= n)
      BY <1>1, <2>1
    <3> QED
      BY <3>2, <3>5, <3>6, Zenon
  <2>2. CASE ~(k < n)
    <3>1. At(src, k) = 0
      BY <2>2 DEF At
    <3> QED
      BY <1>1, <2>2, <3>1
  <2> QED
    BY <2>1, <2>2
<1>3. \A k \in Nat : /\ hi(k) \in -1..15 /\ lo(k) \in -1..15
                     /\ hi(k) >= 0 <=> At(src, 2 * k) \in XDigit
                     /\ lo(k) >= 0 <=> At(src, 2 * k + 1) \in XDigit
  <2> TAKE k \in Nat
  <2>1. At(src, 2 * k) \in 0..255 /\ At(src, 2 * k + 1) \in 0..255
    BY <1>2
  <2> QED
    BY <2>1, HexValIs
<1>4. 0 \notin XDigit
  BY DEF XDigit, Digit
<1>5. \A k \in Nat : ~bad(k) => 2 * k + 2 <= n
  <2> SUFFICES ASSUME NEW k \in Nat, ~bad(k) PROVE 2 * k + 2 <= n
    OBVIOUS
  <2>1. lo(k) >= 0
    BY <1>3
  <2>2. At(src, 2 * k + 1) # 0
    BY <1>3, <1>4, <2>1
  <2>3. 2 * k + 1 \in Nat
    OBVIOUS
  <2>4. ~(2 * k + 1 >= n)
    BY <1>2, <2>2, <2>3
  <2> QED
    BY <1>1, <2>4
<1> HIDE DEF n, hi, lo
<1>6. /\ i \in 0..n /\ (bad(i) \/ i = size)
      /\ \A h \in 0..i - 1 : ~bad(h) /\ h # size
  <2> DEFINE T == {k \in 0..n : bad(k) \/ k = size}
  <2>1. n \in T
    <3>1. ~(2 * n + 2 <= n) /\ n \in Nat
      BY <1>1
    <3>2. bad(n)
      BY <1>5, <3>1
    <3> QED
      BY <3>1, <3>2
  <2>2. \E k \in 0..n : k \in T /\ \A h \in 0..k - 1 : h \notin T
    <3>1. T \in SUBSET (0..n)
      OBVIOUS
    <3> HIDE DEF T
    <3> QED
      BY <1>1, <2>1, <3>1, FirstExists
  <2>3. \E k \in 0..n : (bad(k) \/ k = size) /\ \A h \in 0..k - 1 : ~(bad(h) \/ h = size)
    <3>1. PICK k \in 0..n : k \in T /\ \A h \in 0..k - 1 : h \notin T
      BY <2>2
    <3>2. \A h \in 0..k - 1 : h \in 0..n
      BY <1>1
    <3> HIDE DEF bad
    <3> QED
      BY <3>1, <3>2
  <2> HIDE DEF bad, T
  <2> QED
    BY <2>3
<1>7. got = Returned(IF At(src, 2 * i) = 0 THEN 0 ELSE IF bad(i) THEN EINVAL ELSE ENOMEM, out)
  BY Zenon DEF HexDecode, FirstAt, n, hi, lo
<1> HIDE DEF i
<1>8. got.ret = (IF At(src, 2 * i) = 0 THEN 0 ELSE IF bad(i) THEN EINVAL ELSE ENOMEM) /\ got.out = out
  BY <1>7 DEF Returned
<1>9. At(src, 2 * i) = 0 <=> 2 * i >= n
  BY <1>2, <1>6
<1>10. 2 * i <= n /\ i \in Nat /\ i <= size
  <2>1. CASE i = 0
    BY <1>1, <2>1
  <2>2. CASE i # 0
    <3>1. i - 1 \in 0..i - 1 /\ i - 1 \in Nat
      BY <1>1, <1>6, <2>2
    <3>2. 2 * (i - 1) + 2 <= n
      BY <1>5, <1>6, <3>1
    <3>3. i <= size
      <4>1. ASSUME size < i PROVE FALSE
        <5>1. size \in 0..i - 1
          BY <1>1, <1>6, <4>1
        <5> QED
          BY <1>6, <5>1
      <4> QED
        BY <1>1, <1>6, <4>1
    <3> QED
      BY <1>1, <1>6, <3>2, <3>3
  <2> QED
    BY <2>1, <2>2
<1>11. \A k \in 0..i - 1 : hi(k) \in 0..15 /\ lo(k) \in 0..15
  <2> TAKE k \in 0..i - 1
  <2>1. k \in Nat
    BY <1>10
  <2>2. ~(hi(k) < 0) /\ ~(lo(k) < 0)
    BY <1>6
  <2>3. hi(k) \in -1..15 /\ lo(k) \in -1..15
    BY <1>3, <2>1
  <2> QED
    BY <2>2, <2>3
<1>12. out \in Seq(Bytes) /\ Len(out) = i /\ out \in [1..i -> Bytes]
  <2>1. \A k \in 1..i : 16 * hi(k - 1) + lo(k - 1) \in Bytes
    <3> TAKE k \in 1..i
    <3>1. k - 1 \in 0..i - 1
      BY <1>10
    <3>2. hi(k - 1) \in 0..15 /\ lo(k - 1) \in 0..15
      BY <1>11, <3>1
    <3>3. \A h, l \in 0..15 : 16 * h + l \in Bytes
      BY DEF Bytes
    <3> QED
      BY <3>2, <3>3, Zenon
  <2>2. out \in [1..i -> Bytes]
    BY <2>1
  <2> HIDE DEF out
  <2> QED
    BY <1>10, <2>2, FunSeq
<1>13. Range(src) \subseteq XDigit <=> \A k \in 0..n - 1 : At(src, k) \in XDigit
  <2>1. \A k \in 0..n - 1 : At(src, k) = src[k + 1] /\ k + 1 \in DOMAIN src
    BY <1>1, <1>2 DEF n
  <2>2. \A k \in DOMAIN src : k - 1 \in 0..n - 1 /\ (k - 1) + 1 = k
    BY <1>1 DEF n
  <2>3. ASSUME Range(src) \subseteq XDigit, NEW k \in 0..n - 1 PROVE At(src, k) \in XDigit
    BY <2>1, <2>3, Zenon DEF Range
  <2>4. ASSUME \A k \in 0..n - 1 : At(src, k) \in XDigit, NEW x \in Range(src) PROVE x \in XDigit
    <3>1. PICK k \in DOMAIN src : x = src[k]
      BY Zenon DEF Range
    <3>2. k - 1 \in 0..n - 1 /\ (k - 1) + 1 = k
      BY <2>2
    <3>3. At(src, k - 1) = src[k]
      BY <2>1, <3>2
    <3> QED
      BY <2>4, <3>1, <3>2, <3>3, Zenon
  <2> QED
    BY <2>3, <2>4, Zenon
<1>14. 2 * i >= n => valid
  <2> SUFFICES ASSUME 2 * i >= n PROVE valid
    OBVIOUS
  <2>1. n = 2 * i
    BY <1>1, <1>10
  <2>2. \A k \in 0..n - 1 : At(src, k) \in XDigit
    <3> TAKE k \in 0..n - 1
    <3>1. k \div 2 \in 0..i - 1 /\ (k = 2 * (k \div 2) \/ k = 2 * (k \div 2) + 1)
      BY <1>10, <2>1
    <3>2. k \div 2 \in Nat /\ hi(k \div 2) >= 0 /\ lo(k \div 2) >= 0
      BY <1>11, <3>1
    <3> QED
      BY <1>3, <3>1, <3>2
  <2>3. n % 2 = 0
    BY <1>10, <2>1
  <2> QED
    BY <1>13, <2>2, <2>3 DEF n
<1>15. valid /\ n <= 2 * size => 2 * i >= n
  <2> SUFFICES ASSUME valid, n <= 2 * size, 2 * i < n PROVE FALSE
    BY <1>1, <1>10
  <2>1. n % 2 = 0 /\ \A k \in 0..n - 1 : At(src, k) \in XDigit
    BY <1>13 DEF n
  <2>2. 2 * i \in 0..n - 1 /\ 2 * i + 1 \in 0..n - 1
    BY <1>1, <1>10, <2>1
  <2>3. ~bad(i)
    <3>1. hi(i) >= 0 /\ lo(i) >= 0
      BY <1>3, <1>10, <2>1, <2>2, Zenon
    <3>2. hi(i) \in -1..15 /\ lo(i) \in -1..15
      BY <1>3, <1>10
    <3> QED
      BY <3>1, <3>2
  <2> QED
    BY <1>1, <1>6, <1>10, <2>3
<1>16. valid /\ 2 * i < n => ~bad(i)
  <2> SUFFICES ASSUME valid, 2 * i < n PROVE ~bad(i)
    OBVIOUS
  <2>1. n % 2 = 0 /\ \A k \in 0..n - 1 : At(src, k) \in XDigit
    BY <1>13 DEF n
  <2>2. 2 * i \in 0..n - 1 /\ 2 * i + 1 \in 0..n - 1
    BY <1>1, <1>10, <2>1
  <2>3. hi(i) >= 0 /\ lo(i) >= 0
    BY <1>3, <1>10, <2>1, <2>2, Zenon
  <2>4. hi(i) \in -1..15 /\ lo(i) \in -1..15
    BY <1>3, <1>10
  <2> QED
    BY <2>3, <2>4
<1>17. 0 # EINVAL /\ 0 # ENOMEM
  BY DEF EINVAL, ENOMEM
<1>18. got.ret = 0 <=> 2 * i >= n
  <2> HIDE DEF got, bad
  <2> QED
    BY <1>8, <1>9, <1>17
<1>19. valid /\ got.ret # 0 => got.ret = ENOMEM
  <2> HIDE DEF got, bad, valid
  <2> QED
    BY <1>1, <1>8, <1>9, <1>10, <1>16
<1>20. 2 * i >= n => n <= 2 * size
  BY <1>1, <1>10
<1>21. ASSUME 2 * i >= n PROVE BitsOf(out, 8) = BitsOf([k \in DOMAIN src |-> HexVal(src[k])], 4)
  <2> DEFINE a == [k \in DOMAIN src |-> HexVal(src[k])]
  <2>1. n = 2 * i
    BY <1>1, <1>10, <1>21
  <2>2. DOMAIN src = 1..2 * i
    BY <2>1 DEF n
  <2>3. \A k \in 0..i - 1 : a[2 * k + 1] = hi(k) /\ a[2 * k + 2] = lo(k)
    <3> TAKE k \in 0..i - 1
    <3>1. /\ 2 * k \in Nat /\ 2 * k + 1 \in Nat /\ 2 * k < n /\ 2 * k + 1 < n
          /\ 2 * k + 1 \in DOMAIN src /\ 2 * k + 2 \in DOMAIN src /\ (2 * k + 1) + 1 = 2 * k + 2
      BY <1>10, <2>1, <2>2
    <3>2. At(src, 2 * k) = src[2 * k + 1] /\ At(src, 2 * k + 1) = src[2 * k + 2]
      BY <1>2, <3>1
    <3> QED
      BY <3>1, <3>2, Zenon DEF hi, lo
  <2>4. a \in [1..2 * i -> 0..15]
    <3>1. ASSUME NEW k \in 1..2 * i PROVE a[k] \in 0..15
      <4> DEFINE h == (k - 1) \div 2
      <4>1. h \in 0..i - 1 /\ (k = 2 * h + 1 \/ k = 2 * h + 2)
        BY <1>10
      <4> HIDE DEF a, h
      <4> QED
        BY <1>11, <2>3, <4>1
    <3> QED
      BY <2>2, <3>1
  <2>5. \A k \in 0..i - 1 : out[k + 1] = 16 * a[2 * k + 1] + a[2 * k + 2]
    <3> TAKE k \in 0..i - 1
    <3>1. k + 1 \in 1..i /\ (k + 1) - 1 = k
      BY <1>10
    <3>2. out[k + 1] = 16 * hi(k) + lo(k)
      BY <3>1, Zenon
    <3> HIDE DEF a, out
    <3> QED
      BY <2>3, <3>2, Zenon
  <2> HIDE DEF a, out
  <2>6. BitsOf(a, 4) = BitsOf(out, 8)
    <3>1. i \in Nat /\ out \in [1..i -> Bytes]
      BY <1>10, <1>12
    <3> QED
      BY <3>1, <2>4, <2>5, NibblesAre, Zenon
  <2> QED
    BY <2>6 DEF a
<1>22. Len(got.out) <= size
  BY <1>8, <1>10, <1>12
<1>23. got.ret = 0 => BitsOf(got.out, 8) = BitsOf([k \in DOMAIN src |-> HexVal(src[k])], 4)
  <2> HIDE DEF got, out
  <2> QED
    BY <1>8, <1>18, <1>21, Zenon
<1>24. got.ret = 0 <=> valid /\ Len(src) <= 2 * size
  <2> HIDE DEF got, valid
  <2> QED
    BY <1>14, <1>15, <1>18, <1>20 DEF n
<1> QED
  BY <1>19, <1>22, <1>23, <1>24, Zenon

-----------------------------------------------------------------------------
(* The Base64 codec.                                                       *)

\* Four numbers of six bits have the bits of the three bytes they are cut from.
BitOfSix(a, b, c, d, i) ==
  LET x == IF i < 6 THEN a ELSE IF i < 12 THEN b ELSE IF i < 18 THEN c ELSE d
  IN (x \div 2^(5 - (i % 6))) % 2
BitOfEight(a, b, c, d, i) ==
  LET x == IF i < 8 THEN a * 4 + b \div 16
           ELSE IF i < 16 THEN (b % 16) * 16 + c \div 4 ELSE (c % 4) * 64 + d
  IN (x \div 2^(7 - (i % 8))) % 2

\* The bits of three bytes are those of the four groups of six they are cut into.
LEMMA GroupBits ==
  ASSUME NEW a \in 0..63, NEW b \in 0..63, NEW c \in 0..63, NEW d \in 0..63, NEW i \in 0..23
  PROVE  BitOfSix(a, b, c, d, i) = BitOfEight(a, b, c, d, i)
<1>1. i \in {0, 1, 2, 3, 4, 5, 6, 7, 8, 9, 10, 11, 12, 13, 14, 15, 16, 17, 18, 19, 20, 21, 22, 23}
  OBVIOUS
<1>2. CASE i = 0
  BY <1>2, Powers DEF BitOfSix, BitOfEight
<1>3. CASE i = 1
  BY <1>3, Powers DEF BitOfSix, BitOfEight
<1>4. CASE i = 2
  BY <1>4, Powers DEF BitOfSix, BitOfEight
<1>5. CASE i = 3
  BY <1>5, Powers DEF BitOfSix, BitOfEight
<1>6. CASE i = 4
  BY <1>6, Powers DEF BitOfSix, BitOfEight
<1>7. CASE i = 5
  BY <1>7, Powers DEF BitOfSix, BitOfEight
<1>8. CASE i = 6
  BY <1>8, Powers DEF BitOfSix, BitOfEight
<1>9. CASE i = 7
  BY <1>9, Powers DEF BitOfSix, BitOfEight
<1>10. CASE i = 8
  BY <1>10, Powers DEF BitOfSix, BitOfEight
<1>11. CASE i = 9
  BY <1>11, Powers DEF BitOfSix, BitOfEight
<1>12. CASE i = 10
  BY <1>12, Powers DEF BitOfSix, BitOfEight
<1>13. CASE i = 11
  BY <1>13, Powers DEF BitOfSix, BitOfEight
<1>14. CASE i = 12
  BY <1>14, Powers DEF BitOfSix, BitOfEight
<1>15. CASE i = 13
  BY <1>15, Powers DEF BitOfSix, BitOfEight
<1>16. CASE i = 14
  BY <1>16, Powers DEF BitOfSix, BitOfEight
<1>17. CASE i = 15
  BY <1>17, Powers DEF BitOfSix, BitOfEight
<1>18. CASE i = 16
  BY <1>18, Powers DEF BitOfSix, BitOfEight
<1>19. CASE i = 17
  BY <1>19, Powers DEF BitOfSix, BitOfEight
<1>20. CASE i = 18
  BY <1>20, Powers DEF BitOfSix, BitOfEight
<1>21. CASE i = 19
  BY <1>21, Powers DEF BitOfSix, BitOfEight
<1>22. CASE i = 20
  BY <1>22, Powers DEF BitOfSix, BitOfEight
<1>23. CASE i = 21
  BY <1>23, Powers DEF BitOfSix, BitOfEight
<1>24. CASE i = 22
  BY <1>24, Powers DEF BitOfSix, BitOfEight
<1>25. CASE i = 23
  BY <1>25, Powers DEF BitOfSix, BitOfEight
<1> QED
  BY <1>1, <1>2, <1>3, <1>4, <1>5, <1>6, <1>7, <1>8, <1>9, <1>10, <1>11, <1>12, <1>13, <1>14, <1>15, <1>16, <1>17, <1>18, <1>19, <1>20, <1>21, <1>22, <1>23, <1>24, <1>25

\* The bytes e are those of the numbers w of six bits.
Joined(w, e) ==
  \A g \in Nat : /\ e[3 * g] = w[4 * g] * 4 + w[4 * g + 1] \div 16
                 /\ e[3 * g + 1] = (w[4 * g + 1] % 16) * 16 + w[4 * g + 2] \div 4
                 /\ e[3 * g + 2] = (w[4 * g + 2] % 4) * 64 + w[4 * g + 3]

\* And so are the bits of all of them.
LEMMA JoinedBits ==
  ASSUME NEW w \in [Nat -> 0..63], NEW e, Joined(w, e), NEW t \in Nat
  PROVE  (w[t \div 6] \div 2^(5 - (t % 6))) % 2 = (e[t \div 8] \div 2^(7 - (t % 8))) % 2
<1> DEFINE g == t \div 24
           i == t % 24
           a == w[4 * g]
           b == w[4 * g + 1]
           c == w[4 * g + 2]
           d == w[4 * g + 3]
<1>1. g \in Nat /\ i \in 0..23 /\ t = 24 * g + i
  OBVIOUS
<1>2. e[3 * g] = a * 4 + b \div 16 /\ e[3 * g + 1] = (b % 16) * 16 + c \div 4
      /\ e[3 * g + 2] = (c % 4) * 64 + d
  BY <1>1, Zenon DEF Joined
<1>3. a \in 0..63 /\ b \in 0..63 /\ c \in 0..63 /\ d \in 0..63
  <2>1. 4 * g \in Nat /\ 4 * g + 1 \in Nat /\ 4 * g + 2 \in Nat /\ 4 * g + 3 \in Nat
    BY <1>1
  <2> HIDE DEF g
  <2> QED
    BY <2>1
<1> HIDE DEF g, i
<1>4. /\ t % 6 = i % 6 /\ t % 8 = i % 8
      /\ i < 6 => t \div 6 = 4 * g
      /\ i >= 6 /\ i < 12 => t \div 6 = 4 * g + 1
      /\ i >= 12 /\ i < 18 => t \div 6 = 4 * g + 2
      /\ i >= 18 => t \div 6 = 4 * g + 3
      /\ i < 8 => t \div 8 = 3 * g
      /\ i >= 8 /\ i < 16 => t \div 8 = 3 * g + 1
      /\ i >= 16 => t \div 8 = 3 * g + 2
  BY <1>1
<1>5. w[t \div 6] = IF i < 6 THEN a ELSE IF i < 12 THEN b ELSE IF i < 18 THEN c ELSE d
  BY <1>1, <1>4
<1>6. e[t \div 8] = IF i < 8 THEN a * 4 + b \div 16
                    ELSE IF i < 16 THEN (b % 16) * 16 + c \div 4 ELSE (c % 4) * 64 + d
  <2> HIDE DEF a, b, c, d
  <2> QED
    BY <1>1, <1>2, <1>4
<1> HIDE DEF a, b, c, d
<1>7. (w[t \div 6] \div 2^(5 - (t % 6))) % 2 = BitOfSix(a, b, c, d, i)
  BY <1>4, <1>5, Zenon DEF BitOfSix
<1>8. (e[t \div 8] \div 2^(7 - (t % 8))) % 2 = BitOfEight(a, b, c, d, i)
  BY <1>4, <1>6, Zenon DEF BitOfEight
<1>9. BitOfSix(a, b, c, d, i) = BitOfEight(a, b, c, d, i)
  <2>1. i \in 0..23
    BY <1>1
  <2>2. a \in 0..63 /\ b \in 0..63 /\ c \in 0..63 /\ d \in 0..63
    BY <1>3
  <2>3. \A j \in 0..23 : BitOfSix(a, b, c, d, j) = BitOfEight(a, b, c, d, j)
    BY <2>2, GroupBits, ZenonT(30)
  <2> QED
    BY <2>1, <2>3, Zenon
<1> QED
  BY <1>7, <1>8, <1>9

\* The first numbers of w and the first bytes of e.
LEMMA FirstsAre ==
  ASSUME NEW w \in [Nat -> 0..63], NEW e \in [Nat -> Bytes], Joined(w, e),
         NEW m \in Nat, NEW n \in Nat,
         NEW a \in [1..m -> 0..63], NEW b \in [1..n -> Bytes]
  PROVE  (/\ \A j \in 1..m : a[j] = w[j - 1]
          /\ \A k \in 1..n : b[k] = e[k - 1]) =>
           /\ BitsOf(a, 6) \in [1..6 * m -> Bytes] /\ BitsOf(b, 8) \in [1..8 * n -> Bytes]
           /\ \A t \in 1..6 * m : BitsOf(a, 6)[t] = (e[(t - 1) \div 8] \div 2^(7 - ((t - 1) % 8))) % 2
           /\ \A t \in 1..8 * n : BitsOf(b, 8)[t] = (e[(t - 1) \div 8] \div 2^(7 - ((t - 1) % 8))) % 2
<1> SUFFICES ASSUME \A j \in 1..m : a[j] = w[j - 1], \A k \in 1..n : b[k] = e[k - 1]
             PROVE /\ BitsOf(a, 6) \in [1..6 * m -> Bytes] /\ BitsOf(b, 8) \in [1..8 * n -> Bytes]
                   /\ \A t \in 1..6 * m : BitsOf(a, 6)[t] = (e[(t - 1) \div 8] \div 2^(7 - ((t - 1) % 8))) % 2
                   /\ \A t \in 1..8 * n : BitsOf(b, 8)[t] = (e[(t - 1) \div 8] \div 2^(7 - ((t - 1) % 8))) % 2
  OBVIOUS
<1>1. Len(a) = m /\ Len(b) = n
  BY FunSeq
<1>2. /\ BitsOf(a, 6) = [j \in 1..6 * m |-> (a[(j - 1) \div 6 + 1] \div 2^(6 - 1 - ((j - 1) % 6))) % 2]
      /\ BitsOf(b, 8) = [j \in 1..8 * n |-> (b[(j - 1) \div 8 + 1] \div 2^(8 - 1 - ((j - 1) % 8))) % 2]
  BY <1>1, Zenon DEF BitsOf
<1>3. ASSUME NEW t \in 1..6 * m
      PROVE  BitsOf(a, 6)[t] = (e[(t - 1) \div 8] \div 2^(7 - ((t - 1) % 8))) % 2
  <2>1. t - 1 \in Nat /\ (t - 1) \div 6 + 1 \in 1..m /\ 6 - 1 - ((t - 1) % 6) = 5 - ((t - 1) % 6)
    OBVIOUS
  <2>2. a[(t - 1) \div 6 + 1] = w[(t - 1) \div 6]
    <3>1. ((t - 1) \div 6 + 1) - 1 = (t - 1) \div 6
      BY <2>1
    <3> QED
      BY <2>1, <3>1, Zenon
  <2>3. BitsOf(a, 6)[t] = (a[(t - 1) \div 6 + 1] \div 2^(6 - 1 - ((t - 1) % 6))) % 2
    BY <1>2, Zenon
  <2>4. (w[(t - 1) \div 6] \div 2^(5 - ((t - 1) % 6))) % 2 = (e[(t - 1) \div 8] \div 2^(7 - ((t - 1) % 8))) % 2
    BY <2>1, JoinedBits, Zenon
  <2> QED
    BY <2>1, <2>2, <2>3, <2>4, Zenon
<1>4. ASSUME NEW t \in 1..8 * n
      PROVE  BitsOf(b, 8)[t] = (e[(t - 1) \div 8] \div 2^(7 - ((t - 1) % 8))) % 2
  <2>1. (t - 1) \div 8 + 1 \in 1..n /\ 8 - 1 - ((t - 1) % 8) = 7 - ((t - 1) % 8)
        /\ ((t - 1) \div 8 + 1) - 1 = (t - 1) \div 8
    OBVIOUS
  <2>2. b[(t - 1) \div 8 + 1] = e[(t - 1) \div 8]
    BY <2>1, Zenon
  <2>3. BitsOf(b, 8)[t] = (b[(t - 1) \div 8 + 1] \div 2^(8 - 1 - ((t - 1) % 8))) % 2
    BY <1>2, Zenon
  <2> QED
    BY <2>1, <2>2, <2>3, Zenon
<1>5. BitsOf(a, 6) \in [1..6 * m -> Bytes] /\ BitsOf(b, 8) \in [1..8 * n -> Bytes]
  <2>1. \A t \in Nat : (e[t \div 8] \div 2^(7 - (t % 8))) % 2 \in Bytes
    <3> TAKE t \in Nat
    <3>1. t \div 8 \in Nat /\ 7 - (t % 8) \in 0..7
      OBVIOUS
    <3>2. e[t \div 8] \in Bytes
      BY <3>1, Zenon
    <3>3. Bit(e[t \div 8], 7 - (t % 8)) \in 0..1
      BY <3>1, <3>2, BitsOfByte, Zenon
    <3>4. (e[t \div 8] \div 2^(7 - (t % 8))) % 2 \in 0..1
      BY <3>3, Zenon DEF Bit
    <3> QED
      BY <3>4 DEF Bytes
  <2>2. \A t \in 1..6 * m : t - 1 \in Nat
    OBVIOUS
  <2>3. \A t \in 1..8 * n : t - 1 \in Nat
    OBVIOUS
  <2>4. \A t \in 1..6 * m : BitsOf(a, 6)[t] \in Bytes
    BY <1>3, <2>1, <2>2, Zenon
  <2>5. \A t \in 1..8 * n : BitsOf(b, 8)[t] \in Bytes
    BY <1>4, <2>1, <2>3, Zenon
  <2> DEFINE x == BitsOf(a, 6)
             y == BitsOf(b, 8)
  <2>6. x = [t \in 1..6 * m |-> x[t]] /\ y = [t \in 1..8 * n |-> y[t]]
    BY <1>2
  <2> HIDE DEF x, y
  <2> QED
    BY <2>4, <2>5, <2>6 DEF x, y
<1> QED
  BY <1>3, <1>4, <1>5, Zenon

\* Zeros behind the numbers of y.
LEMMA ZerosBehind ==
  ASSUME NEW n \in Nat, NEW m \in 0..n, NEW x \in [1..n -> Bytes], NEW y \in [1..m -> Bytes]
  PROVE  (\A t \in 1..n : x[t] = IF t <= m THEN y[t] ELSE 0) => x = y \o Zeros(n - m)
<1> SUFFICES ASSUME \A t \in 1..n : x[t] = IF t <= m THEN y[t] ELSE 0
             PROVE  x = y \o Zeros(n - m)
  OBVIOUS
<1> DEFINE z == Zeros(n - m)
<1>1. m \in Nat /\ n - m \in Nat /\ n = m + (n - m)
  OBVIOUS
<1>2. z \in [1..n - m -> Bytes] /\ \A t \in 1..n - m : z[t] = 0
  BY DEF Zeros, Bytes
<1> HIDE DEF z
<1>3. z \in Seq(Bytes) /\ Len(z) = n - m
  BY <1>1, <1>2, FunSeq
<1>4. y \in Seq(Bytes) /\ Len(y) = m
  BY <1>1, FunSeq
<1>5. y \o z \in Seq(Bytes) /\ Len(y \o z) = n
  BY <1>1, <1>3, <1>4
<1>6. \A t \in 1..n : (y \o z)[t] = IF t <= m THEN y[t] ELSE z[t - m]
  BY <1>1, <1>3, <1>4
<1>7. \A t \in 1..n : (y \o z)[t] = x[t]
  <2> TAKE t \in 1..n
  <2>1. ~(t <= m) => t - m \in 1..n - m
    BY <1>1
  <2> QED
    BY <1>2, <1>6, <2>1
<1>8. y \o z \in [1..n -> Bytes]
  BY <1>5, LenProperties
<1> DEFINE u == y \o z
<1> HIDE DEF u
<1>9. u \in [1..n -> Bytes] /\ \A t \in 1..n : u[t] = x[t]
  BY <1>7, <1>8 DEF u
<1>10. x = u
  BY <1>9
<1> QED
  BY <1>10 DEF u, z

\* What a character is read as.
LEMMA B64ValIs ==
  ASSUME NEW c \in 0..255
  PROVE  /\ B64Val(c) \in -1..63
         /\ B64Val(c) >= 0 <=> c \in (65..90) \cup (97..122) \cup Digit \cup {43, 47}
         /\ c \in {0, 61} => B64Val(c) = -1
BY DEF B64Val, Digit

\* The characters are read as what they were written for.
LEMMA B64CsetIs ==
  ASSUME NEW v \in 0..63
  PROVE  /\ B64Val(B64Cset[v + 1]) = v
         /\ B64Cset[v + 1] \in 1..255 /\ B64Cset[v + 1] # 61
<1>1. v + 1 \in DOMAIN B64Cset
      /\ B64Cset[v + 1] = IF v < 26 THEN 65 + v ELSE IF v < 52 THEN 71 + v
                          ELSE IF v < 62 THEN v - 4 ELSE IF v = 62 THEN 43 ELSE 47
  BY DEF B64Cset
<1> DEFINE c == B64Cset[v + 1]
<1> HIDE DEF c
<1>2. c = IF v < 26 THEN 65 + v ELSE IF v < 52 THEN 71 + v
          ELSE IF v < 62 THEN v - 4 ELSE IF v = 62 THEN 43 ELSE 47
  BY <1>1 DEF c
<1>3. B64Val(c) = v
  BY <1>2 DEF B64Val, Digit
<1>4. c \in 1..255 /\ c # 61
  BY <1>2
<1> QED
  BY <1>3, <1>4 DEF c

\* The characters of base64 are those that are read as a number.
LEMMA B64RangeIs ==
  ASSUME NEW c \in 0..255
  PROVE  c \in Range(B64Cset) <=> B64Val(c) >= 0
<1>1. ASSUME c \in Range(B64Cset) PROVE B64Val(c) >= 0
  <2>1. PICK k \in DOMAIN B64Cset : c = B64Cset[k]
    BY <1>1, Zenon DEF Range
  <2>2. DOMAIN B64Cset = 1..64
    BY DEF B64Cset
  <2>3. k - 1 \in 0..63 /\ (k - 1) + 1 = k
    BY <2>1, <2>2
  <2>4. B64Val(c) = k - 1
    BY <2>1, <2>3, B64CsetIs, Zenon
  <2> QED
    BY <2>3, <2>4
<1>2. ASSUME B64Val(c) >= 0 PROVE c \in Range(B64Cset)
  <2> DEFINE v == B64Val(c)
  <2>1. v \in 0..63
    <3>1. v \in -1..63 /\ v >= 0
      BY <1>2, B64ValIs
    <3> HIDE DEF v
    <3> QED
      BY <3>1
  <2>2. v + 1 \in DOMAIN B64Cset
    BY <2>1 DEF B64Cset
  <2>3. B64Cset[v + 1] = c
    <3>1. \/ c \in 65..90 /\ v = c - 65
          \/ c \in 97..122 /\ v = c - 71
          \/ c \in Digit /\ v = c + 4
          \/ c = 43 /\ v = 62
          \/ c = 47 /\ v = 63
      BY <1>2 DEF B64Val, Digit
    <3> HIDE DEF v
    <3> QED
      BY <2>1, <3>1 DEF B64Cset, Digit
  <2> QED
    BY <2>2, <2>3, Zenon DEF Range
<1> QED
  BY <1>1, <1>2

\* The first m of a sequence and the others.
Parts(Elem, s, m) ==
  /\ SubSeq(s, 1, m) \in Seq(Elem) /\ Len(SubSeq(s, 1, m)) = m
  /\ \A k \in 1..m : SubSeq(s, 1, m)[k] = s[k]
  /\ SubSeq(s, m + 1, Len(s)) \in Seq(Elem)
  /\ Len(SubSeq(s, m + 1, Len(s))) = Len(s) - m
  /\ \A k \in 1..Len(s) - m : SubSeq(s, m + 1, Len(s))[k] = s[m + k]
  /\ s = SubSeq(s, 1, m) \o SubSeq(s, m + 1, Len(s))

LEMMA PartsAre ==
  ASSUME NEW Elem, NEW s \in Seq(Elem), NEW m \in 0..Len(s)
  PROVE  Parts(Elem, s, m)
<1> DEFINE n == Len(s)
           a == SubSeq(s, 1, m)
           b == SubSeq(s, m + 1, n)
<1>1. n \in Nat /\ m \in Nat /\ m <= n /\ \A k \in 1..n : s[k] \in Elem
  OBVIOUS
<1>2. a \in Seq(Elem) /\ Len(a) = m
  <2>1. \A k \in 1..m : s[k] \in Elem
    BY <1>1
  <2> QED
    BY <1>1, <2>1, SubSeqProperties
<1>3. \A k \in 1..m : a[k] = s[k]
  <2>1. \A k \in 1..m : s[k] \in Elem
    BY <1>1
  <2> QED
    BY <1>1, <2>1, SubSeqProperties
<1>4. b \in Seq(Elem) /\ Len(b) = n - m
  <2>1. \A k \in m + 1..n : s[k] \in Elem
    BY <1>1
  <2> QED
    BY <1>1, <2>1, SubSeqProperties
<1>5. \A k \in 1..n - m : b[k] = s[m + k]
  <2>1. \A k \in m + 1..n : s[k] \in Elem
    BY <1>1
  <2> QED
    BY <1>1, <2>1, SubSeqProperties
<1> HIDE DEF a, b
<1>6. s = a \o b
  <2> DEFINE c == a \o b
  <2>1. c \in Seq(Elem) /\ Len(c) = n
    BY <1>1, <1>2, <1>4
  <2>2. \A k \in 1..n : c[k] = IF k <= m THEN a[k] ELSE b[k - m]
    BY <1>1, <1>2, <1>4
  <2> HIDE DEF c
  <2>3. \A k \in 1..n : c[k] = s[k]
    <3> TAKE k \in 1..n
    <3>1. ~(k <= m) => k - m \in 1..n - m /\ m + (k - m) = k
      BY <1>1
    <3>2. k <= m => k \in 1..m
      BY <1>1
    <3> QED
      BY <1>3, <1>5, <2>2, <3>1, <3>2
  <2>4. s = c
    <3>1. c \in [1..n -> Elem] /\ s \in [1..n -> Elem]
      BY <2>1, LenProperties, Zenon
    <3> QED
      BY <2>3, <3>1
  <2> QED
    BY <2>4 DEF c
<1> QED
  BY <1>2, <1>3, <1>4, <1>5, <1>6, Zenon DEF a, b, n, Parts

\* A text without '=' is what is left of it behind its padding.
LEMMA UnpaddedIs ==
  ASSUME NEW t \in Seq(0..255), NEW p \in Nat
  PROVE  (\A k \in 1..Len(t) : t[k] # 61) => Unpadded(t \o Pad(p)) = t
<1> SUFFICES ASSUME \A k \in 1..Len(t) : t[k] # 61 PROVE Unpadded(t \o Pad(p)) = t
  OBVIOUS
<1> DEFINE n == Len(t)
           z == Pad(p)
           s == t \o z
<1>1. n \in Nat
  OBVIOUS
<1>2. z \in [1..p -> 0..255] /\ \A k \in 1..p : z[k] = 61
  BY DEF Pad
<1> HIDE DEF z
<1>3. z \in Seq(0..255) /\ Len(z) = p
  BY <1>2, FunSeq
<1>4. s \in Seq(0..255) /\ Len(s) = n + p
  BY <1>3
<1>5. \A k \in 1..n + p : s[k] = IF k <= n THEN t[k] ELSE z[k - n]
  BY <1>3
<1> HIDE DEF s
<1>6. DOMAIN s = 1..n + p
  BY <1>4
<1>7. {k \in DOMAIN s : s[k] = 61} = n + 1..n + p
  <2>1. ASSUME NEW k \in 1..n + p PROVE s[k] = 61 <=> k \in n + 1..n + p
    <3>1. CASE k <= n
      BY <1>1, <1>5, <3>1
    <3>2. CASE ~(k <= n)
      <4>1. k - n \in 1..p
        BY <1>1, <3>2
      <4> QED
        BY <1>1, <1>2, <1>5, <3>2, <4>1
    <3> QED
      BY <3>1, <3>2
  <2>2. \A k \in n + 1..n + p : k \in 1..n + p
    BY <1>1
  <2> HIDE DEF n
  <2> QED
    BY <1>6, <2>1, <2>2
<1>8. Cardinality(n + 1..n + p) = p
  BY <1>1, FS_Interval
<1>9. Unpadded(s) = SubSeq(s, 1, n)
  <2>1. Len(s) - p = n
    BY <1>1, <1>4
  <2> QED
    BY <1>7, <1>8, <2>1, Zenon DEF Unpadded, Prefix
<1>10. SubSeq(s, 1, n) = t
  <2> DEFINE u == SubSeq(s, 1, n)
  <2>1. n \in 0..Len(s)
    BY <1>1, <1>4
  <2>2. u \in Seq(0..255) /\ Len(u) = n /\ \A k \in 1..n : u[k] = s[k]
    <3>1. s \in Seq(0..255)
      BY <1>4
    <3> HIDE DEF n
    <3>2. Parts(0..255, s, n)
      BY <2>1, <3>1, PartsAre, Zenon
    <3> QED
      BY <3>2, Zenon DEF Parts
  <2> HIDE DEF u
  <2>3. u \in [1..n -> 0..255] /\ t \in [1..n -> 0..255]
    BY <2>2, LenProperties, Zenon
  <2>4. \A k \in 1..n : u[k] = t[k]
    BY <1>1, <1>5, <2>2
  <2>5. u = t
    BY <2>3, <2>4
  <2> QED
    BY <2>5 DEF u
<1> QED
  BY <1>9, <1>10 DEF s, z

\* A string read at any place.
LEMMA AtIs ==
  ASSUME NEW s \in Seq(Bytes), NEW k \in Nat
  PROVE  /\ At(s, k) \in Bytes
         /\ k < Len(s) => At(s, k) = s[k + 1]
         /\ k >= Len(s) => At(s, k) = 0
<1>1. CASE k < Len(s)
  <2>1. k + 1 \in 1..Len(s) /\ ~(k >= Len(s))
    BY <1>1
  <2>2. s[k + 1] \in Bytes
    <3>1. s \in [1..Len(s) -> Bytes]
      BY LenProperties, Zenon
    <3> QED
      BY <2>1, <3>1, Zenon
  <2> QED
    BY <1>1, <2>1, <2>2 DEF At
<1>2. CASE ~(k < Len(s))
  BY <1>2 DEF At, Bytes
<1> QED
  BY <1>1, <1>2

\* The six bits of every place, and the bytes they make again.
LEMMA Sixes ==
  ASSUME NEW a \in Bytes, NEW b \in Bytes, NEW c \in Bytes
  PROVE  /\ a \div 4 \in 0..63 /\ (a % 4) * 16 + b \div 16 \in 0..63
         /\ (b % 16) * 4 + c \div 64 \in 0..63 /\ c % 64 \in 0..63
         /\ a = (a \div 4) * 4 + ((a % 4) * 16 + b \div 16) \div 16
         /\ b = (((a % 4) * 16 + b \div 16) % 16) * 16 + ((b % 16) * 4 + c \div 64) \div 4
         /\ c = (((b % 16) * 4 + c \div 64) % 4) * 64 + (c % 64)
BY DEF Bytes

\* The four groups of six, by their place among the four.
LEMMA SextetIs ==
  ASSUME NEW src, NEW g \in Nat, NEW j \in Nat
  PROVE  /\ j \div 4 = g /\ j % 4 = 0 => Sextet(src, j) = At(src, 3 * g) \div 4
         /\ j \div 4 = g /\ j % 4 = 1 =>
              Sextet(src, j) = (At(src, 3 * g) % 4) * 16 + At(src, 3 * g + 1) \div 16
         /\ j \div 4 = g /\ j % 4 = 2 =>
              Sextet(src, j) = (At(src, 3 * g + 1) % 16) * 4 + At(src, 3 * g + 2) \div 64
         /\ j \div 4 = g /\ j % 4 = 3 => Sextet(src, j) = At(src, 3 * g + 2) % 64
BY DEF Sextet

\* The groups of six of a buffer are joined to its bytes.
LEMMA SextetsAre ==
  ASSUME NEW src \in Seq(Bytes), NEW w, w = [j \in Nat |-> Sextet(src, j)],
         NEW e, e = [k \in Nat |-> At(src, k)]
  PROVE  w \in [Nat -> 0..63] /\ e \in [Nat -> Bytes] /\ Joined(w, e)
<1>1. \A k \in Nat : e[k] = At(src, k) /\ e[k] \in Bytes
  BY AtIs
<1>2. e \in [Nat -> Bytes]
  BY <1>1
<1>3. ASSUME NEW g \in Nat
      PROVE  /\ w[4 * g] = e[3 * g] \div 4
             /\ w[4 * g + 1] = (e[3 * g] % 4) * 16 + e[3 * g + 1] \div 16
             /\ w[4 * g + 2] = (e[3 * g + 1] % 16) * 4 + e[3 * g + 2] \div 64
             /\ w[4 * g + 3] = e[3 * g + 2] % 64
  <2>1. /\ 4 * g \in Nat /\ 4 * g + 1 \in Nat /\ 4 * g + 2 \in Nat /\ 4 * g + 3 \in Nat
        /\ 3 * g \in Nat /\ 3 * g + 1 \in Nat /\ 3 * g + 2 \in Nat
        /\ (4 * g) % 4 = 0 /\ (4 * g + 1) % 4 = 1 /\ (4 * g + 2) % 4 = 2 /\ (4 * g + 3) % 4 = 3
        /\ (4 * g) \div 4 = g /\ (4 * g + 1) \div 4 = g /\ (4 * g + 2) \div 4 = g /\ (4 * g + 3) \div 4 = g
    OBVIOUS
  <2>2. /\ e[3 * g] = At(src, 3 * g) /\ e[3 * g + 1] = At(src, 3 * g + 1)
        /\ e[3 * g + 2] = At(src, 3 * g + 2)
    BY <1>1, <2>1, Zenon
  <2>3. /\ w[4 * g] = Sextet(src, 4 * g) /\ w[4 * g + 1] = Sextet(src, 4 * g + 1)
        /\ w[4 * g + 2] = Sextet(src, 4 * g + 2) /\ w[4 * g + 3] = Sextet(src, 4 * g + 3)
    BY <2>1, Zenon
  <2>4. Sextet(src, 4 * g) = At(src, 3 * g) \div 4
    <3>1. 4 * g \in Nat /\ (4 * g) \div 4 = g /\ (4 * g) % 4 = 0
      BY <2>1, Zenon
    <3> QED
      BY <3>1, SextetIs, Zenon
  <2>5. Sextet(src, 4 * g + 1) = (At(src, 3 * g) % 4) * 16 + At(src, 3 * g + 1) \div 16
    <3>1. 4 * g + 1 \in Nat /\ (4 * g + 1) \div 4 = g /\ (4 * g + 1) % 4 = 1
      BY <2>1, Zenon
    <3> QED
      BY <3>1, SextetIs, Zenon
  <2>6. Sextet(src, 4 * g + 2) = (At(src, 3 * g + 1) % 16) * 4 + At(src, 3 * g + 2) \div 64
    <3>1. 4 * g + 2 \in Nat /\ (4 * g + 2) \div 4 = g /\ (4 * g + 2) % 4 = 2
      BY <2>1, Zenon
    <3> QED
      BY <3>1, SextetIs, Zenon
  <2>7. Sextet(src, 4 * g + 3) = At(src, 3 * g + 2) % 64
    <3>1. 4 * g + 3 \in Nat /\ (4 * g + 3) \div 4 = g /\ (4 * g + 3) % 4 = 3
      BY <2>1, Zenon
    <3> QED
      BY <3>1, SextetIs, Zenon
  <2> QED
    BY <2>2, <2>3, <2>4, <2>5, <2>6, <2>7, Zenon
<1>4. ASSUME NEW g \in Nat PROVE e[3 * g] \in Bytes /\ e[3 * g + 1] \in Bytes /\ e[3 * g + 2] \in Bytes
  <2>1. 3 * g \in Nat /\ 3 * g + 1 \in Nat /\ 3 * g + 2 \in Nat
    OBVIOUS
  <2> QED
    BY <1>1, <2>1, Zenon
<1>5. Joined(w, e)
  <2> SUFFICES ASSUME NEW g \in Nat
               PROVE  /\ e[3 * g] = w[4 * g] * 4 + w[4 * g + 1] \div 16
                      /\ e[3 * g + 1] = (w[4 * g + 1] % 16) * 16 + w[4 * g + 2] \div 4
                      /\ e[3 * g + 2] = (w[4 * g + 2] % 4) * 64 + w[4 * g + 3]
    BY Zenon DEF Joined
  <2> DEFINE a == e[3 * g]
             b == e[3 * g + 1]
             c == e[3 * g + 2]
  <2>1. /\ a = (a \div 4) * 4 + ((a % 4) * 16 + b \div 16) \div 16
        /\ b = (((a % 4) * 16 + b \div 16) % 16) * 16 + ((b % 16) * 4 + c \div 64) \div 4
        /\ c = (((b % 16) * 4 + c \div 64) % 4) * 64 + (c % 64)
    <3>1. a \in Bytes /\ b \in Bytes /\ c \in Bytes
      BY <1>4, Zenon
    <3> HIDE DEF a, b, c
    <3> QED
      BY <3>1, Sixes
  <2>2. /\ w[4 * g] = a \div 4 /\ w[4 * g + 1] = (a % 4) * 16 + b \div 16
        /\ w[4 * g + 2] = (b % 16) * 4 + c \div 64 /\ w[4 * g + 3] = c % 64
    BY <1>3, Zenon
  <2>3. a = w[4 * g] * 4 + w[4 * g + 1] \div 16
    BY <2>1, <2>2, Zenon
  <2>4. b = (w[4 * g + 1] % 16) * 16 + w[4 * g + 2] \div 4
    BY <2>1, <2>2, Zenon
  <2>5. c = (w[4 * g + 2] % 4) * 64 + w[4 * g + 3]
    BY <2>1, <2>2, Zenon
  <2> QED
    BY <2>3, <2>4, <2>5, Zenon
<1>6. \A j \in Nat : w[j] \in 0..63
  <2> TAKE j \in Nat
  <2> DEFINE g == j \div 4
  <2>1. g \in Nat /\ j \in {4 * g, 4 * g + 1, 4 * g + 2, 4 * g + 3}
    OBVIOUS
  <2> HIDE DEF g
  <2>2. /\ w[4 * g] \in 0..63 /\ w[4 * g + 1] \in 0..63
        /\ w[4 * g + 2] \in 0..63 /\ w[4 * g + 3] \in 0..63
    <3> DEFINE a == e[3 * g]
               b == e[3 * g + 1]
               c == e[3 * g + 2]
    <3>1. a \in Bytes /\ b \in Bytes /\ c \in Bytes
      BY <1>4, <2>1, Zenon
    <3>2. /\ w[4 * g] = a \div 4 /\ w[4 * g + 1] = (a % 4) * 16 + b \div 16
          /\ w[4 * g + 2] = (b % 16) * 4 + c \div 64 /\ w[4 * g + 3] = c % 64
      BY <1>3, <2>1, Zenon
    <3> HIDE DEF a, b, c
    <3>3. /\ a \div 4 \in 0..63 /\ (a % 4) * 16 + b \div 16 \in 0..63
          /\ (b % 16) * 4 + c \div 64 \in 0..63 /\ c % 64 \in 0..63
      BY <3>1, Sixes, ZenonT(30)
    <3> QED
      BY <3>2, <3>3, Zenon
  <2> QED
    BY <2>1, <2>2
<1> QED
  BY <1>2, <1>5, <1>6

\* What b64_encode writes.
LEMMA B64EncodeIs ==
  ASSUME NEW src \in Seq(Bytes)
  PROVE  LET got == B64Encode(src)
             text == Unpadded(got)
             bits == BitsOf([k \in DOMAIN text |-> B64Val(text[k])], 6)
         IN /\ Len(got) % 4 = 0 /\ got = text \o Pad(Len(got) - Len(text))
            /\ Len(got) - Len(text) < 3
            /\ bits = BitsOf(src, 8) \o Zeros(Len(bits) - 8 * Len(src))
            /\ Len(bits) - 8 * Len(src) < 6
<1> DEFINE n == Len(src)
           r == n % 3
           m == 4 * (n \div 3) + (IF r = 0 THEN 0 ELSE r + 1)
           p == (3 - r) % 3
           t == [j \in 1..m |-> B64Cset[Sextet(src, j - 1) + 1]]
           w == [j \in Nat |-> Sextet(src, j)]
           e == [k \in Nat |-> At(src, k)]
           a == [j \in 1..m |-> w[j - 1]]
<1>1. n \in Nat
  OBVIOUS
<1>2. /\ m \in Nat /\ p \in 0..2 /\ (m + p) % 4 = 0
      /\ 8 * n <= 6 * m /\ 6 * m - 8 * n < 6
  <2>1. n = 3 * (n \div 3) + r /\ r \in {0, 1, 2} /\ n \div 3 \in Nat
    BY <1>1
  <2> DEFINE q == n \div 3
  <2>2. n = 3 * q + r /\ q \in Nat /\ p = (3 - r) % 3
        /\ m = 4 * q + (IF r = 0 THEN 0 ELSE r + 1)
    BY <2>1
  <2> HIDE DEF q, n, m, p, r
  <2>3. CASE r = 0
    BY <2>2, <2>3
  <2>4. CASE r = 1
    BY <2>2, <2>4
  <2>5. CASE r = 2
    BY <2>2, <2>5
  <2> QED
    BY <2>1, <2>3, <2>4, <2>5
<1>3. w \in [Nat -> 0..63] /\ e \in [Nat -> Bytes] /\ Joined(w, e)
  BY SextetsAre, Zenon
<1>4. \A j \in 1..m : j - 1 \in Nat
  BY <1>2
<1>5. \A j \in Nat : w[j] = Sextet(src, j)
  OBVIOUS
<1>6. \A k \in Nat : e[k] = At(src, k)
  OBVIOUS
<1>7. B64Encode(src) = t \o Pad(p)
  BY Zenon DEF B64Encode
<1> HIDE DEF n, r, m, p, w, e
<1>8. a \in [1..m -> 0..63] /\ \A j \in 1..m : a[j] = w[j - 1]
  BY <1>3, <1>4
<1>9. \A j \in 1..m : t[j] = B64Cset[a[j] + 1]
  BY <1>4, <1>5
<1> HIDE DEF a
<1>10. \A j \in 1..m : t[j] \in 1..255 /\ t[j] # 61 /\ B64Val(t[j]) = a[j]
  <2> TAKE j \in 1..m
  <2>1. a[j] \in 0..63
    BY <1>8
  <2>2. /\ B64Cset[a[j] + 1] \in 1..255 /\ B64Cset[a[j] + 1] # 61
        /\ B64Val(B64Cset[a[j] + 1]) = a[j]
    BY <2>1, B64CsetIs, ZenonT(30)
  <2>3. t[j] = B64Cset[a[j] + 1]
    BY <1>9, Zenon
  <2> HIDE DEF t
  <2> QED
    BY <2>2, <2>3, Zenon
<1>11. t \in [1..m -> 0..255]
  <2>1. \A x \in 1..255 : x \in 0..255
    OBVIOUS
  <2>2. \A j \in 1..m : t[j] \in 0..255
    BY <1>10, <2>1, Zenon
  <2>3. t = [j \in 1..m |-> t[j]]
    OBVIOUS
  <2> HIDE DEF t
  <2> QED
    BY <2>2, <2>3
<1> HIDE DEF t
<1>12. t \in Seq(0..255) /\ Len(t) = m /\ DOMAIN t = 1..m
  BY <1>2, <1>11, FunSeq
<1>13. Unpadded(t \o Pad(p)) = t
  <2>1. \A k \in 1..Len(t) : t[k] # 61
    BY <1>10, <1>12
  <2>2. p \in Nat
    BY <1>2
  <2> QED
    BY <1>12, <2>1, <2>2, UnpaddedIs, ZenonT(30)
<1>14. Len(t \o Pad(p)) = m + p
  <2> DEFINE z == Pad(p)
  <2>1. z \in [1..p -> 0..255]
    BY DEF Pad
  <2> HIDE DEF z
  <2>2. z \in Seq(0..255) /\ Len(z) = p
    BY <1>2, <2>1, FunSeq
  <2>3. Len(t \o z) = Len(t) + Len(z)
    BY <1>12, <2>2, ConcatProperties, ZenonT(30)
  <2> QED
    BY <1>12, <2>2, <2>3, Zenon DEF z
<1>15. [k \in DOMAIN t |-> B64Val(t[k])] = a
  BY <1>8, <1>10, <1>12
<1> DEFINE x == BitsOf(a, 6)
           y == BitsOf(src, 8)
<1>16. src \in [1..n -> Bytes] /\ \A k \in 1..n : src[k] = e[k - 1]
  <2>1. src \in [1..n -> Bytes]
    BY LenProperties, Zenon DEF n
  <2>2. \A k \in 1..n : k - 1 \in Nat /\ k - 1 < n /\ (k - 1) + 1 = k
    BY <1>1
  <2>3. \A k \in 1..n : At(src, k - 1) = src[(k - 1) + 1]
    BY <2>2, AtIs, Zenon DEF n
  <2>4. ASSUME NEW k \in 1..n PROVE src[k] = e[k - 1]
    BY <1>6, <2>2, <2>3, Zenon
  <2> QED
    BY <2>1, <2>4
<1>17. /\ x \in [1..6 * m -> Bytes] /\ y \in [1..8 * n -> Bytes]
       /\ \A i \in 1..6 * m : x[i] = (e[(i - 1) \div 8] \div 2^(7 - ((i - 1) % 8))) % 2
       /\ \A i \in 1..8 * n : y[i] = (e[(i - 1) \div 8] \div 2^(7 - ((i - 1) % 8))) % 2
  BY <1>1, <1>2, <1>3, <1>8, <1>16, FirstsAre, ZenonT(30)
<1> HIDE DEF x, y
<1>18. \A i \in 1..6 * m : x[i] = IF i <= 8 * n THEN y[i] ELSE 0
  <2> TAKE i \in 1..6 * m
  <2>1. CASE i <= 8 * n
    <3>1. i \in 1..8 * n
      BY <1>1, <2>1
    <3> QED
      BY <1>17, <2>1, <3>1
  <2>2. CASE ~(i <= 8 * n)
    <3>1. (i - 1) \div 8 \in Nat /\ (i - 1) \div 8 >= n /\ 7 - ((i - 1) % 8) \in 0..7
      BY <1>1, <1>2, <2>2
    <3>2. e[(i - 1) \div 8] = 0
      BY <1>6, <3>1, AtIs, Zenon DEF n
    <3>3. \A h \in 0..7 : (0 \div 2^h) % 2 = 0
      <4>1. \A h \in 0..7 : h \in {0, 1, 2, 3, 4, 5, 6, 7}
        OBVIOUS
      <4>2. \A h \in 0..7 : 2^h \in {1, 2, 4, 8, 16, 32, 64, 128}
        BY <4>1, Powers, ZenonT(30)
      <4>3. \A d \in {1, 2, 4, 8, 16, 32, 64, 128} : (0 \div d) % 2 = 0
        OBVIOUS
      <4> QED
        BY <4>2, <4>3, Zenon
    <3>4. x[i] = 0
      BY <1>17, <3>1, <3>2, <3>3, Zenon
    <3> QED
      BY <2>2, <3>4
  <2> QED
    BY <2>1, <2>2
<1>19. Len(x) = 6 * m /\ x = y \o Zeros(6 * m - 8 * n)
  <2>1. 6 * m \in Nat /\ 8 * n \in 0..6 * m
    BY <1>1, <1>2
  <2>2. Len(x) = 6 * m
    BY <1>17, <2>1, FunSeq
  <2> QED
    BY <1>17, <1>18, <2>1, <2>2, ZerosBehind, Zenon
<1> DEFINE got == B64Encode(src)
           text == Unpadded(got)
           bits == BitsOf([k \in DOMAIN text |-> B64Val(text[k])], 6)
<1>20. text = t
  BY <1>7, <1>13, Zenon
<1>21. bits = x
  BY <1>15, <1>20, Zenon DEF x
<1>22. Len(got) = m + p /\ Len(text) = m
  BY <1>7, <1>12, <1>14, <1>20, Zenon
<1>23. Len(got) % 4 = 0 /\ Len(got) - Len(text) = p /\ p < 3
  <2> HIDE DEF got, text
  <2> QED
    BY <1>2, <1>22
<1>24. got = text \o Pad(Len(got) - Len(text))
  <2> HIDE DEF got, text
  <2>1. got = t \o Pad(p)
    BY <1>7, Zenon DEF got
  <2> QED
    BY <1>20, <1>23, <2>1, Zenon
<1>25. Len(bits) - 8 * Len(src) < 6 /\ bits = y \o Zeros(Len(bits) - 8 * Len(src))
  <2> HIDE DEF bits
  <2>1. Len(bits) = 6 * m /\ Len(src) = n
    BY <1>19, <1>21, Zenon DEF n
  <2> QED
    BY <1>2, <1>19, <1>21, <2>1
<1> QED
  BY <1>23, <1>24, <1>25 DEF y

\* A string read at any place is zero behind its end and only there.
LEMMA StringIs ==
  ASSUME NEW s \in Seq(1..255), NEW k \in Nat
  PROVE  /\ At(s, k) \in 0..255
         /\ k < Len(s) => At(s, k) = s[k + 1] /\ At(s, k) # 0
         /\ k >= Len(s) => At(s, k) = 0
<1>1. CASE k < Len(s)
  <2>1. k + 1 \in 1..Len(s) /\ ~(k >= Len(s))
    BY <1>1
  <2>2. s[k + 1] \in 1..255
    <3>1. s \in [1..Len(s) -> 1..255]
      BY LenProperties, Zenon
    <3> QED
      BY <2>1, <3>1, Zenon
  <2>3. \A x \in 1..255 : x \in 0..255 /\ x # 0
    OBVIOUS
  <2> QED
    BY <1>1, <2>1, <2>2, <2>3 DEF At
<1>2. CASE ~(k < Len(s))
  BY <1>2 DEF At
<1> QED
  BY <1>1, <1>2

\* The first place where a string is not read as a number of six bits.
FirstOther(src, i) ==
  /\ i \in 0..Len(src) /\ B64Val(At(src, i)) < 0
  /\ \A k \in 0..i - 1 : B64Val(At(src, k)) \in 0..63

\* It is where the decoder stops.
LEMMA FirstOtherIs ==
  ASSUME NEW src \in Seq(1..255)
  PROVE  FirstOther(src, FirstAt(0, Len(src), LAMBDA k : B64Val(At(src, k)) < 0))
<1> DEFINE n == Len(src)
           T == {k \in 0..n : B64Val(At(src, k)) < 0}
           i == FirstAt(0, n, LAMBDA k : B64Val(At(src, k)) < 0)
<1>1. n \in Nat
  OBVIOUS
<1>2. i = CHOOSE k \in 0..n : B64Val(At(src, k)) < 0 /\ \A h \in 0..k - 1 : ~(B64Val(At(src, h)) < 0)
  BY DEF FirstAt
<1>3. n \in T
  <2>1. At(src, n) = 0
    BY <1>1, StringIs
  <2>2. B64Val(At(src, n)) = -1
    BY <2>1, B64ValIs
  <2> QED
    BY <1>1, <2>2
<1>4. \E k \in 0..n : k \in T /\ \A h \in 0..k - 1 : h \notin T
  <2>1. T \in SUBSET (0..n)
    OBVIOUS
  <2> HIDE DEF T
  <2> QED
    BY <1>1, <1>3, <2>1, FirstExists
<1>5. \E k \in 0..n : B64Val(At(src, k)) < 0 /\ \A h \in 0..k - 1 : ~(B64Val(At(src, h)) < 0)
  <2>1. PICK k \in 0..n : k \in T /\ \A h \in 0..k - 1 : h \notin T
    BY <1>4
  <2>2. \A h \in 0..k - 1 : h \in 0..n
    BY <1>1
  <2> QED
    BY <2>1, <2>2
<1> HIDE DEF i, n
<1>6. i \in 0..n /\ B64Val(At(src, i)) < 0 /\ \A h \in 0..i - 1 : ~(B64Val(At(src, h)) < 0)
  BY <1>2, <1>5
<1>7. \A k \in 0..i - 1 : B64Val(At(src, k)) \in 0..63
  <2> TAKE k \in 0..i - 1
  <2>1. k \in Nat
    BY <1>1, <1>6
  <2>2. At(src, k) \in 0..255
    BY <2>1, StringIs
  <2> DEFINE v == B64Val(At(src, k))
  <2>3. v \in -1..63
    BY <2>2, B64ValIs
  <2>4. ~(v < 0)
    BY <1>6
  <2> HIDE DEF v
  <2>5. v \in 0..63
    BY <2>3, <2>4
  <2> QED
    BY <2>5 DEF v
<1> QED
  BY <1>6, <1>7 DEF FirstOther, i, n

\* What is in front of the first place that is no number is without '='.
LEMMA TextIs ==
  ASSUME NEW src \in Seq(1..255), NEW i, FirstOther(src, i)
  PROVE  LET t == SubSeq(src, 1, i)
         IN /\ t \in Seq(0..255) /\ Len(t) = i /\ Range(t) \subseteq Range(B64Cset)
            /\ \A k \in 1..i : t[k] = At(src, k - 1) /\ t[k] # 61
<1> DEFINE n == Len(src)
           t == SubSeq(src, 1, i)
<1>1. n \in Nat /\ i \in 0..n
  BY DEF FirstOther
<1>2. src \in Seq(0..255)
  <2>1. 1..255 \subseteq 0..255
    OBVIOUS
  <2> QED
    BY <2>1, SeqMonotonic
<1>3. t \in Seq(0..255) /\ Len(t) = i
  <2> HIDE DEF n
  <2>1. i \in 0..Len(src)
    BY <1>1 DEF n
  <2> QED
    <3>1. Parts(0..255, src, i)
      BY <1>2, <2>1, PartsAre, Zenon
    <3> QED
      BY <3>1, Zenon DEF Parts
<1>4. \A k \in 1..i : t[k] = src[k]
  <2>1. Parts(0..255, src, i)
    BY <1>1, <1>2, PartsAre, Zenon
  <2> QED
    BY <2>1, Zenon DEF Parts
<1>5. \A k \in 1..i : k - 1 \in Nat /\ k - 1 \in 0..i - 1 /\ k - 1 < n /\ (k - 1) + 1 = k
  BY <1>1
<1> HIDE DEF t, n
<1>6. ASSUME NEW k \in 1..i
      PROVE  t[k] = At(src, k - 1) /\ t[k] \in 0..255 /\ B64Val(t[k]) \in 0..63
  <2>1. At(src, k - 1) = src[(k - 1) + 1] /\ At(src, k - 1) \in 0..255
    BY <1>5, StringIs DEF n
  <2>2. t[k] = At(src, k - 1)
    BY <1>4, <1>5, <2>1
  <2>3. B64Val(At(src, k - 1)) \in 0..63
    BY <1>5, Zenon DEF FirstOther
  <2> QED
    BY <2>1, <2>2, <2>3
<1>7. ASSUME NEW k \in 1..i PROVE t[k] # 61 /\ t[k] \in Range(B64Cset)
  <2> DEFINE c == t[k]
  <2>1. c \in 0..255 /\ B64Val(c) \in 0..63
    BY <1>6
  <2> HIDE DEF c
  <2>2. B64Val(c) >= 0
    <3>1. \A v \in 0..63 : v >= 0
      OBVIOUS
    <3> QED
      BY <2>1, <3>1, ZenonT(30)
  <2>3. c # 61
    BY <2>1, <2>2, B64ValIs
  <2>4. c \in Range(B64Cset)
    BY <2>1, <2>2, B64RangeIs
  <2> QED
    BY <2>3, <2>4 DEF c
<1>8. Range(t) \subseteq Range(B64Cset)
  <2>1. \A x \in Range(t) : \E k \in DOMAIN t : x = t[k]
    BY Zenon DEF Range
  <2>2. DOMAIN t = 1..i
    BY <1>3
  <2> QED
    BY <1>7, <2>1, <2>2, Zenon
<1> QED
  BY <1>3, <1>6, <1>7, <1>8 DEF t

\* What the decoder takes: an end at i that is no single character, and a text
\* with its padding or without.
Ended(src, i) ==
  /\ i % 4 # 1
  /\ \/ At(src, i) = 0
     \/ i % 4 = 2 /\ SubSeq(src, i + 1, Len(src)) = Pad(2)
     \/ i % 4 = 3 /\ SubSeq(src, i + 1, Len(src)) = Pad(1)
Taken(src) ==
  LET text == Unpadded(src)
      pads == Len(src) - Len(text)
  IN /\ src = text \o Pad(pads) /\ Range(text) \subseteq Range(B64Cset)
     /\ Len(text) % 4 # 1
     /\ pads = 0 \/ (pads < 3 /\ Len(src) % 4 = 0)

\* Padding.
LEMMA PadIs ==
  ASSUME NEW p \in Nat
  PROVE  Pad(p) \in Seq(1..255) /\ Len(Pad(p)) = p /\ \A k \in 1..p : Pad(p)[k] = 61
<1> DEFINE z == Pad(p)
<1>1. z \in [1..p -> 1..255] /\ \A k \in 1..p : z[k] = 61
  BY DEF Pad
<1> HIDE DEF z
<1>2. z \in Seq(1..255) /\ Len(z) = p
  BY <1>1, FunSeq
<1> QED
  BY <1>1, <1>2 DEF z

\* Where the decoder ends well the text in front is the unpadded one.
LEMMA EndedIsTaken ==
  ASSUME NEW src \in Seq(1..255), NEW i, FirstOther(src, i), Ended(src, i)
  PROVE  Taken(src) /\ Unpadded(src) = SubSeq(src, 1, i)
<1> DEFINE n == Len(src)
           t == SubSeq(src, 1, i)
           z == SubSeq(src, i + 1, n)
<1>1. n \in Nat /\ i \in 0..n
  BY DEF FirstOther
<1>2. src = t \o z /\ Len(z) = n - i
  <2>1. i \in 0..Len(src)
    BY <1>1
  <2> HIDE DEF n
  <2>2. Parts(1..255, src, i)
    BY <2>1, PartsAre, Zenon
  <2> QED
    BY <2>2, Zenon DEF Parts, n
<1>3. t \in Seq(0..255) /\ Len(t) = i /\ Range(t) \subseteq Range(B64Cset) /\ \A k \in 1..i : t[k] # 61
  BY TextIs
<1>4. z = Pad(n - i) /\ i % 4 # 1 /\ (n - i = 0 \/ (n - i < 3 /\ n % 4 = 0))
  <2> HIDE DEF n
  <2>1. CASE At(src, i) = 0
    <3>1. i = n
      BY <1>1, <2>1, StringIs DEF n
    <3>2. Len(z) = 0
      BY <1>1, <1>2, <3>1
    <3>3. z = <<>>
      BY <3>2, <3>1, <1>1 , SubSeqEmpty
    <3>4. Pad(0) = <<>>
      BY DEF Pad
    <3>5. n - i = 0
      BY <1>1, <3>1
    <3>6. z = Pad(n - i)
      BY <3>3, <3>4, <3>5, Zenon
    <3> QED
      BY <3>5, <3>6 DEF Ended
  <2>2. CASE i % 4 = 2 /\ z = Pad(2)
    <3>1. Len(Pad(2)) = 2
      BY PadIs
    <3>2. n - i = 2
      BY <1>2, <2>2, <3>1
    <3>3. z = Pad(n - i)
      BY <2>2, <3>2, Zenon
    <3>4. n = i + 2 /\ n % 4 = 0 /\ i % 4 # 1
      BY <1>1, <2>2, <3>2
    <3> QED
      BY <3>2, <3>3, <3>4
  <2>3. CASE i % 4 = 3 /\ z = Pad(1)
    <3>1. Len(Pad(1)) = 1
      BY PadIs
    <3>2. n - i = 1
      BY <1>2, <2>3, <3>1
    <3>3. z = Pad(n - i)
      BY <2>3, <3>2, Zenon
    <3>4. n = i + 1 /\ n % 4 = 0 /\ i % 4 # 1
      BY <1>1, <2>3, <3>2
    <3> QED
      BY <3>2, <3>3, <3>4
  <2> QED
    BY <2>1, <2>2, <2>3 DEF Ended, n
<1> HIDE DEF t, z, n
<1>5. n - i \in Nat
  BY <1>1
<1>6. Unpadded(src) = t
  <2>1. \A k \in 1..Len(t) : t[k] # 61
    BY <1>3
  <2>2. Unpadded(t \o Pad(n - i)) = t
    BY <1>3, <1>5, <2>1, UnpaddedIs, ZenonT(30)
  <2> QED
    BY <1>2, <1>4, <2>2, Zenon
<1>7. Taken(src)
  <2>1. Len(src) - Len(t) = n - i /\ Len(t) = i
    BY <1>3 DEF n
  <2> QED
    BY <1>2, <1>3, <1>4, <1>6, <2>1 DEF Taken, n
<1> QED
  BY <1>6, <1>7 DEF t

\* And the other way around.
LEMMA TakenIsEnded ==
  ASSUME NEW src \in Seq(1..255), NEW i, FirstOther(src, i), Taken(src)
  PROVE  Ended(src, i)
<1> DEFINE n == Len(src)
           text == Unpadded(src)
           c == Cardinality({k \in DOMAIN src : src[k] = 61})
           m == Len(text)
           p == n - m
<1>1. n \in Nat /\ i \in 0..n
  BY DEF FirstOther
<1>2. c \in 0..n
  <2> DEFINE K == {k \in DOMAIN src : src[k] = 61}
  <2>1. K \in SUBSET (1..n)
    OBVIOUS
  <2>2. IsFiniteSet(1..n) /\ Cardinality(1..n) = n
    <3> HIDE DEF n
    <3>1. n \in Int /\ 1 \in Int
      BY <1>1
    <3> QED
      BY <1>1, <3>1, FS_Interval
  <2> HIDE DEF K
  <2>3. IsFiniteSet(K) /\ Cardinality(K) <= n
    BY <2>1, <2>2, FS_Subset
  <2>4. Cardinality(K) \in Nat
    BY <2>3, FS_CardinalityType
  <2> QED
    BY <1>1, <2>3, <2>4 DEF K
<1>3. text = SubSeq(src, 1, n - c)
  BY Zenon DEF Unpadded, Prefix
<1>4. n - c \in 0..n
  BY <1>1, <1>2
<1>5. text \in Seq(1..255) /\ m = n - c /\ \A k \in 1..m : text[k] = src[k]
  <2>0. Parts(1..255, src, n - c)
    BY <1>4, PartsAre, Zenon
  <2>1. Len(SubSeq(src, 1, n - c)) = n - c /\ SubSeq(src, 1, n - c) \in Seq(1..255)
    BY <2>0, Zenon DEF Parts
  <2>2. \A k \in 1..n - c : SubSeq(src, 1, n - c)[k] = src[k]
    BY <2>0, Zenon DEF Parts
  <2> HIDE DEF text, c
  <2> QED
    BY <1>3, <2>1, <2>2
<1>6. /\ src = text \o Pad(p) /\ Range(text) \subseteq Range(B64Cset) /\ m % 4 # 1
      /\ p = 0 \/ (p < 3 /\ n % 4 = 0)
  BY Zenon DEF Taken
<1> HIDE DEF text, c
<1>7. m \in 0..n /\ p \in 0..n /\ m + p = n
  BY <1>1, <1>4, <1>5
<1>8. \A k \in 0..m - 1 : B64Val(At(src, k)) >= 0
  <2> TAKE k \in 0..m - 1
  <2>1. k \in Nat /\ k < Len(src) /\ k + 1 \in 1..m
    BY <1>7
  <2>2. At(src, k) = src[k + 1] /\ At(src, k) \in 0..255
    BY <2>1, StringIs
  <2>3. src[k + 1] = text[k + 1]
    BY <1>5, <2>1
  <2>4. text[k + 1] \in Range(text)
    <3>1. k + 1 \in DOMAIN text
      BY <1>5, <2>1
    <3> QED
      BY <3>1, Zenon DEF Range
  <2>5. At(src, k) \in Range(B64Cset)
    BY <1>6, <2>2, <2>3, <2>4
  <2> QED
    BY <2>2, <2>5, B64RangeIs, Zenon
<1> HIDE DEF m, p, n
<1>9. i >= m
  <2> SUFFICES ASSUME i < m PROVE FALSE
    BY <1>1, <1>7
  <2>1. i \in 0..m - 1
    BY <1>1, <1>7
  <2>2. B64Val(At(src, i)) >= 0 /\ B64Val(At(src, i)) < 0
    BY <1>8, <2>1 DEF FirstOther
  <2>3. i \in Nat
    BY <1>1
  <2>4. B64Val(At(src, i)) \in -1..63
    BY <2>3, StringIs, B64ValIs
  <2> DEFINE v == B64Val(At(src, i))
  <2> HIDE DEF v
  <2>5. v >= 0 /\ v < 0 /\ v \in -1..63
    BY <2>2, <2>4 DEF v
  <2> QED
    BY <2>5
<1>10. i <= m
  <2> SUFFICES ASSUME m < i PROVE FALSE
    BY <1>1, <1>7
  <2>1. m \in 0..i - 1 /\ m \in Nat /\ m < n /\ 1 \in 1..p /\ m + 1 <= n
    BY <1>1, <1>7
  <2>2. At(src, m) = src[m + 1]
    BY <2>1, StringIs DEF n
  <2>3. src[m + 1] = 61
    <3> DEFINE z == Pad(p)
    <3>1. p \in Nat
      BY <1>7
    <3>2. z \in Seq(1..255) /\ Len(z) = p /\ z[1] = 61
      BY <2>1, <3>1, PadIs
    <3> HIDE DEF z
    <3>3. Len(text) = m
      BY DEF m
    <3>4. (text \o z)[m + 1] = z[1]
      <4>1. m + 1 \in 1..Len(text) + Len(z) /\ ~(m + 1 <= Len(text)) /\ (m + 1) - Len(text) = 1
        BY <1>7, <2>1, <3>2, <3>3
      <4> QED
        BY <1>5, <3>2, <4>1, ConcatProperties, SMTT(30)
    <3>5. src = text \o z
      BY <1>6 DEF z
    <3> QED
      BY <3>2, <3>4, <3>5, Zenon
  <2>4. B64Val(61) = -1
    BY B64ValIs
  <2>5. B64Val(At(src, m)) \in 0..63
    BY <2>1, Zenon DEF FirstOther
  <2>6. -1 \in 0..63
    BY <2>2, <2>3, <2>4, <2>5, Zenon
  <2> QED
    BY <2>6
<1>11. i = m
  BY <1>1, <1>7, <1>9, <1>10
<1>12. SubSeq(src, m + 1, n) = Pad(p)
  <2> DEFINE z == Pad(p)
             u == SubSeq(src, m + 1, n)
  <2>1. z \in Seq(1..255) /\ Len(z) = p
    BY <1>7, PadIs
  <2>2. u \in Seq(1..255) /\ Len(u) = p
    <3>0. Parts(1..255, src, m)
      BY <1>7, PartsAre, Zenon DEF n
    <3>1. SubSeq(src, m + 1, Len(src)) \in Seq(1..255) /\ Len(SubSeq(src, m + 1, Len(src))) = Len(src) - m
      BY <3>0, Zenon DEF Parts
    <3> QED
      BY <1>7, <3>1 DEF n
  <2>3. \A k \in 1..p : u[k] = src[m + k]
    <3>0. Parts(1..255, src, m)
      BY <1>7, PartsAre, Zenon DEF n
    <3>1. \A k \in 1..Len(src) - m : SubSeq(src, m + 1, Len(src))[k] = src[m + k]
      BY <3>0, Zenon DEF Parts
    <3>2. Len(src) - m = p
      BY <1>7 DEF n
    <3> QED
      BY <3>1, <3>2, Zenon DEF n
  <2> HIDE DEF z, u
  <2>4. \A k \in 1..p : src[m + k] = z[k]
    <3> TAKE k \in 1..p
    <3>1. Len(text) = m /\ src = text \o z
      BY <1>6 DEF m, z
    <3>2. m + k \in 1..Len(text) + Len(z) /\ ~(m + k <= Len(text)) /\ (m + k) - Len(text) = k
      BY <1>7, <2>1, <3>1
    <3>3. (text \o z)[m + k] = z[(m + k) - Len(text)]
      BY <1>5, <2>1, <3>2, ConcatProperties
    <3> QED
      BY <3>1, <3>2, <3>3, Zenon
  <2>5. u \in [1..p -> 1..255] /\ z \in [1..p -> 1..255]
    BY <2>1, <2>2, LenProperties, ZenonT(30)
  <2>6. \A k \in 1..p : u[k] = z[k]
    BY <2>3, <2>4, Zenon
  <2>7. u = z
    BY <2>1, <2>2, <2>6, SeqEqual
  <2> QED
    BY <2>7 DEF u, z
<1>13. CASE p = 0
  <2>1. i = n /\ i \in Nat
    BY <1>1, <1>7, <1>11, <1>13
  <2>2. At(src, i) = 0
    BY <2>1, StringIs DEF n
  <2> QED
    BY <1>6, <1>11, <2>2 DEF Ended
<1>14. CASE p # 0
  <2>1. p \in {1, 2} /\ n % 4 = 0
    BY <1>6, <1>7, <1>14
  <2>2. CASE p = 1
    <3>1. m % 4 = 3
      BY <1>1, <1>7, <2>1, <2>2
    <3> QED
      BY <1>11, <1>12, <2>2, <3>1 DEF Ended, n
  <2>3. CASE p = 2
    <3>1. m % 4 = 2
      BY <1>1, <1>7, <2>1, <2>3
    <3> QED
      BY <1>11, <1>12, <2>3, <3>1 DEF Ended, n
  <2> QED
    BY <2>1, <2>2, <2>3
<1> QED
  BY <1>13, <1>14

\* Three bytes out of four groups of six.
LEMMA SixesFit ==
  ASSUME NEW a \in 0..63, NEW b \in 0..63, NEW c \in 0..63, NEW d \in 0..63
  PROVE  /\ a * 4 + b \div 16 \in Bytes /\ (b % 16) * 16 + c \div 4 \in Bytes
         /\ (c % 4) * 64 + d \in Bytes
BY DEF Bytes

\* As many bytes are decoded as were asked for.
LEMMA B64BytesLen ==
  ASSUME NEW src, NEW n \in Nat
  PROVE  Len(B64Bytes(src, n)) = n
<1> DEFINE E == {B64Byte(src, k - 1) : k \in 1..n}
           o == B64Bytes(src, n)
<1>1. o \in [1..n -> E]
  BY DEF B64Bytes
<1> HIDE DEF E, o
<1>2. Len(o) = n
  BY <1>1, FunSeq
<1> QED
  BY <1>2 DEF o

\* The numbers read from a text, zeros behind it, and the bytes they make.
Numbers(src, i) == [j \in Nat |-> IF j < i THEN B64Val(At(src, j)) ELSE 0]
ByteOf(w, k) ==
  LET g == k \div 3
  IN IF k % 3 = 0 THEN w[4 * g] * 4 + w[4 * g + 1] \div 16
     ELSE IF k % 3 = 1 THEN (w[4 * g + 1] % 16) * 16 + w[4 * g + 2] \div 4
     ELSE (w[4 * g + 2] % 4) * 64 + w[4 * g + 3]

\* The bytes are joined to the numbers of the characters.
LEMMA NumbersAre ==
  ASSUME NEW src, NEW i, FirstOther(src, i), NEW w, w = Numbers(src, i),
         NEW e, e = [k \in Nat |-> ByteOf(w, k)]
  PROVE  w \in [Nat -> 0..63] /\ e \in [Nat -> Bytes] /\ Joined(w, e)
<1>1. i \in Int
  BY DEF FirstOther
<1>2. w \in [Nat -> 0..63]
  <2>1. ASSUME NEW j \in Nat PROVE (IF j < i THEN B64Val(At(src, j)) ELSE 0) \in 0..63
    <3>1. j < i => j \in 0..i - 1
      BY <1>1
    <3>2. j < i => B64Val(At(src, j)) \in 0..63
      BY <3>1 DEF FirstOther
    <3>3. 0 \in 0..63
      OBVIOUS
    <3> QED
      BY <3>2, <3>3
  <2> QED
    BY <2>1 DEF Numbers
<1>3. \A k \in Nat : e[k] = ByteOf(w, k)
  OBVIOUS
<1>4. ASSUME NEW g \in Nat
      PROVE  w[4 * g] \in 0..63 /\ w[4 * g + 1] \in 0..63 /\ w[4 * g + 2] \in 0..63 /\ w[4 * g + 3] \in 0..63
  <2>1. 4 * g \in Nat /\ 4 * g + 1 \in Nat /\ 4 * g + 2 \in Nat /\ 4 * g + 3 \in Nat
    OBVIOUS
  <2> QED
    BY <1>2, <2>1, Zenon
<1>5. \A k \in Nat : ByteOf(w, k) \in Bytes
  <2> TAKE k \in Nat
  <2> DEFINE g == k \div 3
             a == w[4 * g]
             b == w[4 * g + 1]
             c == w[4 * g + 2]
             d == w[4 * g + 3]
  <2>1. g \in Nat
    OBVIOUS
  <2>2. a \in 0..63 /\ b \in 0..63 /\ c \in 0..63 /\ d \in 0..63
    BY <1>4, <2>1
  <2>3. ByteOf(w, k) = IF k % 3 = 0 THEN a * 4 + b \div 16
                       ELSE IF k % 3 = 1 THEN (b % 16) * 16 + c \div 4 ELSE (c % 4) * 64 + d
    BY Zenon DEF ByteOf
  <2> HIDE DEF a, b, c, d
  <2>4. /\ a * 4 + b \div 16 \in Bytes /\ (b % 16) * 16 + c \div 4 \in Bytes
        /\ (c % 4) * 64 + d \in Bytes
    BY <2>2, SixesFit
  <2> QED
    BY <2>3, <2>4
<1>6. e \in [Nat -> Bytes]
  BY <1>3, <1>5
<1>7. Joined(w, e)
  <2> SUFFICES ASSUME NEW g \in Nat
               PROVE  /\ e[3 * g] = w[4 * g] * 4 + w[4 * g + 1] \div 16
                      /\ e[3 * g + 1] = (w[4 * g + 1] % 16) * 16 + w[4 * g + 2] \div 4
                      /\ e[3 * g + 2] = (w[4 * g + 2] % 4) * 64 + w[4 * g + 3]
    BY Zenon DEF Joined
  <2>1. /\ 3 * g \in Nat /\ 3 * g + 1 \in Nat /\ 3 * g + 2 \in Nat
        /\ (3 * g) \div 3 = g /\ (3 * g + 1) \div 3 = g /\ (3 * g + 2) \div 3 = g
        /\ (3 * g) % 3 = 0 /\ (3 * g + 1) % 3 = 1 /\ (3 * g + 2) % 3 = 2
    OBVIOUS
  <2>2. e[3 * g] = ByteOf(w, 3 * g) /\ e[3 * g + 1] = ByteOf(w, 3 * g + 1)
        /\ e[3 * g + 2] = ByteOf(w, 3 * g + 2)
    BY <1>3, <2>1, Zenon
  <2>3. ByteOf(w, 3 * g) = w[4 * g] * 4 + w[4 * g + 1] \div 16
    BY <2>1 DEF ByteOf
  <2>4. ByteOf(w, 3 * g + 1) = (w[4 * g + 1] % 16) * 16 + w[4 * g + 2] \div 4
    <3> DEFINE k == 3 * g + 1
    <3>1. k \div 3 = g /\ k % 3 = 1
      BY <2>1
    <3> HIDE DEF k
    <3>2. ByteOf(w, k) = (w[4 * g + 1] % 16) * 16 + w[4 * g + 2] \div 4
      BY <3>1 DEF ByteOf
    <3> QED
      BY <3>2 DEF k
  <2>5. ByteOf(w, 3 * g + 2) = (w[4 * g + 2] % 4) * 64 + w[4 * g + 3]
    <3> DEFINE k == 3 * g + 2
    <3>1. k \div 3 = g /\ k % 3 = 2
      BY <2>1
    <3> HIDE DEF k
    <3>2. ByteOf(w, k) = (w[4 * g + 2] % 4) * 64 + w[4 * g + 3]
      BY <3>1 DEF ByteOf
    <3> QED
      BY <3>2 DEF k
  <2> QED
    BY <2>2, <2>3, <2>4, <2>5, Zenon
<1> QED
  BY <1>2, <1>6, <1>7

\* The first n bits of a longer text.
LEMMA FirstBits ==
  ASSUME NEW N \in Nat, NEW n \in 0..N, NEW x \in [1..N -> Bytes], NEW y \in [1..n -> Bytes]
  PROVE  (\A t \in 1..n : y[t] = x[t]) => y = SubSeq(x, 1, n)
<1> SUFFICES ASSUME \A t \in 1..n : y[t] = x[t] PROVE y = SubSeq(x, 1, n)
  OBVIOUS
<1>1. x \in Seq(Bytes) /\ Len(x) = N
  BY FunSeq
<1>2. n \in Nat
  OBVIOUS
<1>3. y \in Seq(Bytes) /\ Len(y) = n
  BY <1>2, FunSeq
<1> DEFINE u == SubSeq(x, 1, n)
<1>4. n \in 0..Len(x)
  BY <1>1
<1>5. u \in Seq(Bytes) /\ Len(u) = n
  <2>1. Parts(Bytes, x, n)
    BY <1>1, <1>4, PartsAre, Zenon
  <2> QED
    BY <2>1, Zenon DEF Parts
<1>6. \A k \in 1..n : u[k] = x[k]
  <2>1. Parts(Bytes, x, n)
    BY <1>1, <1>4, PartsAre, Zenon
  <2> QED
    BY <2>1, Zenon DEF Parts
<1> HIDE DEF u
<1>7. \A k \in 1..n : u[k] = y[k]
  BY <1>6
<1>8. u = y
  BY <1>3, <1>5, <1>7, SeqEqual
<1> QED
  BY <1>8 DEF u

\* The decoded bytes have the first bits of the numbers of the text.
LEMMA DecodedIs ==
  ASSUME NEW src \in Seq(1..255), NEW i, FirstOther(src, i), i % 4 # 1
  PROVE  LET text == SubSeq(src, 1, i)
             n == 3 * (i \div 4) + (IF i % 4 = 0 THEN 0 ELSE (i % 4) - 1)
         IN /\ n = (6 * Len(text)) \div 8
            /\ BitsOf(B64Bytes(src, n), 8)
                 = Prefix(BitsOf([k \in DOMAIN text |-> B64Val(text[k])], 6), 8 * n)
<1> DEFINE text == SubSeq(src, 1, i)
           n == 3 * (i \div 4) + (IF i % 4 = 0 THEN 0 ELSE (i % 4) - 1)
           q == i \div 4
           r == i % 4
           w == Numbers(src, i)
           e == [k \in Nat |-> ByteOf(w, k)]
           a == [k \in DOMAIN text |-> B64Val(text[k])]
           b == B64Bytes(src, n)
<1>1. i \in Nat /\ q \in Nat /\ r \in {0, 2, 3} /\ i = 4 * q + r
      /\ n = 3 * q + (IF r = 0 THEN 0 ELSE r - 1)
  BY DEF FirstOther
<1>2. Len(text) = i /\ \A k \in 1..i : text[k] = At(src, k - 1)
  BY TextIs
<1>3. DOMAIN text = 1..i
  <2>1. text \in Seq(0..255)
    BY TextIs
  <2> HIDE DEF text
  <2> QED
    BY <1>2, <2>1
<1>4. w \in [Nat -> 0..63] /\ e \in [Nat -> Bytes] /\ Joined(w, e)
  BY NumbersAre, Zenon
<1>5. \A k \in Nat : e[k] = ByteOf(w, k)
  OBVIOUS
<1>6. \A j \in Nat : w[j] = IF j < i THEN B64Val(At(src, j)) ELSE 0
  BY DEF Numbers
<1> HIDE DEF n, q, r, w, e
<1>7. n \in Nat /\ n = (6 * i) \div 8 /\ 8 * n <= 6 * i
  <2>1. CASE r = 0
    BY <1>1, <2>1
  <2>2. CASE r = 2
    BY <1>1, <2>2
  <2>3. CASE r = 3
    BY <1>1, <2>3
  <2> QED
    BY <1>1, <2>1, <2>2, <2>3
<1>8. a \in [1..i -> 0..63] /\ \A j \in 1..i : a[j] = w[j - 1]
  <2>1. \A j \in 1..i : j - 1 \in Nat /\ j - 1 < i
    BY <1>1
  <2>2. \A j \in 1..i : B64Val(text[j]) = w[j - 1]
    BY <1>2, <1>6, <2>1
  <2>3. \A j \in 1..i : w[j - 1] \in 0..63
    BY <1>4, <2>1, Zenon
  <2> HIDE DEF text
  <2>4. \A j \in 1..i : a[j] = w[j - 1]
    BY <1>3, <2>2
  <2>5. a = [k \in 1..i |-> a[k]]
    BY <1>3
  <2> HIDE DEF a
  <2> QED
    BY <2>3, <2>4, <2>5
<1>9. ASSUME NEW k \in 1..n PROVE B64Byte(src, k - 1) = e[k - 1]
  <2> DEFINE g == (k - 1) \div 3
             s == (k - 1) % 3
             v(j) == B64Val(At(src, 4 * g + j))
  <2>1. g \in Nat /\ s \in {0, 1, 2} /\ k - 1 = 3 * g + s /\ k - 1 \in Nat
    BY <1>7
  <2>2. /\ 4 * g \in Nat /\ 4 * g + 1 \in Nat /\ 4 * g + 2 \in Nat /\ 4 * g + 3 \in Nat
        /\ 4 * g < i /\ 4 * g + 1 < i
        /\ s \in {1, 2} => 4 * g + 2 < i
        /\ s = 2 => 4 * g + 3 < i
    <3> HIDE DEF g, s
    <3>1. 3 * g + s < n
      BY <1>7, <2>1
    <3>2. CASE r = 0
      BY <1>1, <2>1, <3>1, <3>2
    <3>3. CASE r = 2
      BY <1>1, <2>1, <3>1, <3>3
    <3>4. CASE r = 3
      BY <1>1, <2>1, <3>1, <3>4
    <3> QED
      BY <1>1, <3>2, <3>3, <3>4
  <2>3. e[k - 1] = IF s = 0 THEN w[4 * g] * 4 + w[4 * g + 1] \div 16
                   ELSE IF s = 1 THEN (w[4 * g + 1] % 16) * 16 + w[4 * g + 2] \div 4
                   ELSE (w[4 * g + 2] % 4) * 64 + w[4 * g + 3]
    BY <1>5, <2>1, Zenon DEF ByteOf
  <2>4. B64Byte(src, k - 1) = CASE s = 0 -> v(0) * 4 + v(1) \div 16
                                [] s = 1 -> (v(1) % 16) * 16 + v(2) \div 4
                                [] s = 2 -> (v(2) % 4) * 64 + v(3)
    BY Zenon DEF B64Byte
  <2>5. 4 * g + 0 = 4 * g
    BY <2>1
  <2>6. v(0) = w[4 * g] /\ v(1) = w[4 * g + 1]
    BY <1>6, <2>2, <2>5
  <2>7. s \in {1, 2} => v(2) = w[4 * g + 2]
    BY <1>6, <2>2
  <2>8. s = 2 => v(3) = w[4 * g + 3]
    BY <1>6, <2>2
  <2> HIDE DEF g, s, v
  <2>9. CASE s = 0
    <3>1. B64Byte(src, k - 1) = v(0) * 4 + v(1) \div 16
      BY <2>4, <2>9
    <3> QED
      BY <2>3, <2>6, <2>9, <3>1
  <2>10. CASE s = 1
    <3>1. B64Byte(src, k - 1) = (v(1) % 16) * 16 + v(2) \div 4
      BY <2>4, <2>10
    <3> QED
      BY <2>3, <2>6, <2>7, <2>10, <3>1
  <2>11. CASE s = 2
    <3>1. B64Byte(src, k - 1) = (v(2) % 4) * 64 + v(3)
      BY <2>4, <2>11
    <3> QED
      BY <2>3, <2>7, <2>8, <2>11, <3>1
  <2> QED
    BY <2>1, <2>9, <2>10, <2>11
<1>10. b \in [1..n -> Bytes] /\ \A k \in 1..n : b[k] = e[k - 1]
  <2>1. \A k \in 1..n : k - 1 \in Nat
    BY <1>7
  <2>2. \A k \in 1..n : e[k - 1] \in Bytes
    BY <1>4, <2>1, Zenon
  <2>3. \A k \in 1..n : b[k] = e[k - 1]
    BY <1>9 DEF B64Bytes
  <2>4. b = [k \in 1..n |-> b[k]]
    BY DEF B64Bytes
  <2> HIDE DEF b
  <2> QED
    BY <2>2, <2>3, <2>4
<1> HIDE DEF a, b
<1> DEFINE x == BitsOf(a, 6)
           y == BitsOf(b, 8)
<1>11. /\ x \in [1..6 * i -> Bytes] /\ y \in [1..8 * n -> Bytes]
       /\ \A t \in 1..6 * i : x[t] = (e[(t - 1) \div 8] \div 2^(7 - ((t - 1) % 8))) % 2
       /\ \A t \in 1..8 * n : y[t] = (e[(t - 1) \div 8] \div 2^(7 - ((t - 1) % 8))) % 2
  <2>1. i \in Nat /\ n \in Nat /\ \A j \in 1..i : a[j] = w[j - 1]
    BY <1>1, <1>7, <1>8
  <2>2. \A k \in 1..n : b[k] = e[k - 1]
    BY <1>10
  <2>3. a \in [1..i -> 0..63] /\ b \in [1..n -> Bytes]
    BY <1>8, <1>10
  <2> QED
    BY <1>4, <2>1, <2>2, <2>3, FirstsAre, ZenonT(30)
<1> HIDE DEF x, y
<1>12. y = SubSeq(x, 1, 8 * n)
  <2>1. 6 * i \in Nat /\ 8 * n \in 0..6 * i /\ \A t \in 1..8 * n : t \in 1..6 * i
    BY <1>1, <1>7
  <2>2. \A t \in 1..8 * n : y[t] = x[t]
    BY <1>11, <2>1, Zenon
  <2> QED
    BY <1>11, <2>1, <2>2, FirstBits, Zenon
<1>13. y = Prefix(x, 8 * n)
  BY <1>12 DEF Prefix
<1> QED
  BY <1>2, <1>7, <1>13, Zenon DEF x, y, a, b, n

\* What b64_decode writes and returns.
LEMMA B64DecodeIs ==
  ASSUME NEW src \in Seq(1..255), NEW size \in Nat
  PROVE  LET got == B64Decode(src, size)
             text == Unpadded(src)
             bytes == (6 * Len(text)) \div 8
         IN /\ Len(got.out) <= size
            /\ got.ret = 0 <=> Taken(src) /\ bytes <= size
            /\ Taken(src) /\ got.ret # 0 => got.ret = ENOMEM
            /\ got.ret = 0 =>
                 BitsOf(got.out, 8) = Prefix(BitsOf([k \in DOMAIN text |-> B64Val(text[k])], 6), 8 * bytes)
<1> DEFINE i == FirstAt(0, Len(src), LAMBDA k : B64Val(At(src, k)) < 0)
           q == i \div 4
           n == 3 * q + (IF i % 4 = 0 THEN 0 ELSE (i % 4) - 1)
           end == \/ At(src, i) = 0
                  \/ i % 4 = 2 /\ SubSeq(src, i + 1, Len(src)) = Pad(2)
                  \/ i % 4 = 3 /\ SubSeq(src, i + 1, Len(src)) = Pad(1)
           got == B64Decode(src, size)
           text == Unpadded(src)
           bytes == (6 * Len(text)) \div 8
           bits == BitsOf([k \in DOMAIN text |-> B64Val(text[k])], 6)
<1>1. FirstOther(src, i)
  BY FirstOtherIs
<1>2. got = IF 3 * q > size THEN Returned(ENOMEM, B64Bytes(src, 3 * (size \div 3)))
            ELSE IF i % 4 = 1 \/ ~end THEN Returned(EINVAL, B64Bytes(src, 3 * q))
            ELSE IF n > size THEN Returned(ENOMEM, B64Bytes(src, 3 * q))
            ELSE Returned(0, B64Bytes(src, n))
  BY Zenon DEF B64Decode
<1> HIDE DEF i
<1>3. ~(i % 4 = 1 \/ ~end) <=> Ended(src, i)
  BY DEF Ended
<1>4. Ended(src, i) <=> Taken(src)
  BY <1>1, EndedIsTaken, TakenIsEnded, Zenon
<1>5. i \in Nat /\ q \in Nat /\ i % 4 \in 0..3
  BY <1>1 DEF FirstOther
<1>6. n \in Nat /\ 3 * q <= n
  BY <1>5
<1>7. ASSUME Taken(src)
      PROVE  bytes = n /\ BitsOf(B64Bytes(src, n), 8) = Prefix(bits, 8 * n)
  <2>1. i % 4 # 1
    BY <1>4, <1>7 DEF Ended
  <2> DEFINE t == SubSeq(src, 1, i)
  <2>2. text = t
    BY <1>1, <1>4, <1>7, EndedIsTaken, Zenon
  <2>3. /\ n = (6 * Len(t)) \div 8
        /\ BitsOf(B64Bytes(src, n), 8) = Prefix(BitsOf([k \in DOMAIN t |-> B64Val(t[k])], 6), 8 * n)
    BY <1>1, <2>1, DecodedIs, Zenon
  <2> HIDE DEF t, n
  <2> QED
    BY <2>2, <2>3
<1> HIDE DEF n, q, end, got, bytes, bits
<1>8. size \div 3 \in Nat /\ 3 * (size \div 3) <= size /\ 3 * (size \div 3) \in Nat /\ 3 * q \in Nat
  BY <1>5
<1>9. /\ Len(B64Bytes(src, 3 * (size \div 3))) = 3 * (size \div 3)
      /\ Len(B64Bytes(src, 3 * q)) = 3 * q /\ Len(B64Bytes(src, n)) = n
  BY <1>6, <1>8, B64BytesLen, Zenon
<1>10. ENOMEM = 12 /\ EINVAL = 22
  BY DEF ENOMEM, EINVAL
<1> DEFINE result == /\ Len(got.out) <= size
                     /\ got.ret = 0 <=> Taken(src) /\ bytes <= size
                     /\ Taken(src) /\ got.ret # 0 => got.ret = ENOMEM
                     /\ got.ret = 0 => BitsOf(got.out, 8) = Prefix(bits, 8 * bytes)
<1> SUFFICES result
  BY Zenon DEF got, bytes, bits
<1>11. CASE 3 * q > size
  <2>1. got.ret = ENOMEM /\ got.out = B64Bytes(src, 3 * (size \div 3))
    BY <1>2, <1>11 DEF Returned
  <2>2. Taken(src) => ~(bytes <= size)
    BY <1>6, <1>7, <1>8, <1>11
  <2> QED
    BY <1>8, <1>9, <1>10, <2>1, <2>2
<1>12. CASE ~(3 * q > size) /\ (i % 4 = 1 \/ ~end)
  <2>1. got.ret = EINVAL /\ got.out = B64Bytes(src, 3 * q)
    BY <1>2, <1>12 DEF Returned
  <2>2. ~Taken(src)
    BY <1>3, <1>4, <1>12
  <2> QED
    BY <1>8, <1>9, <1>10, <1>12, <2>1, <2>2
<1>13. CASE ~(3 * q > size) /\ ~(i % 4 = 1 \/ ~end) /\ n > size
  <2>1. got.ret = ENOMEM /\ got.out = B64Bytes(src, 3 * q)
    BY <1>2, <1>13 DEF Returned
  <2>2. Taken(src) => ~(bytes <= size)
    BY <1>6, <1>7, <1>13
  <2> QED
    BY <1>8, <1>9, <1>10, <1>13, <2>1, <2>2
<1>14. CASE ~(3 * q > size) /\ ~(i % 4 = 1 \/ ~end) /\ ~(n > size)
  <2>1. got.ret = 0 /\ got.out = B64Bytes(src, n)
    BY <1>2, <1>14 DEF Returned
  <2>2. Taken(src)
    BY <1>3, <1>4, <1>14
  <2>3. bytes = n /\ BitsOf(B64Bytes(src, n), 8) = Prefix(bits, 8 * n)
    BY <1>7, <2>2
  <2>4. n <= size
    BY <1>6, <1>14
  <2> QED
    BY <1>9, <2>1, <2>2, <2>3, <2>4
<1> QED
  BY <1>11, <1>12, <1>13, <1>14, Zenon

-----------------------------------------------------------------------------
(* IPv4 addresses.                                                         *)

\* The shortest decimal of a byte.
LEMMA DecimalIs ==
  ASSUME NEW v \in Bytes
  PROVE  /\ Decimal(v) \in Seq(Digit)
         /\ v < 10 => /\ Len(Decimal(v)) = 1 /\ Decimal(v)[1] = 48 + v
         /\ ~(v < 10) /\ v < 100 =>
              /\ Len(Decimal(v)) = 2
              /\ Decimal(v)[1] = 48 + v \div 10 /\ Decimal(v)[2] = 48 + (v % 10)
         /\ ~(v < 100) =>
              /\ Len(Decimal(v)) = 3
              /\ Decimal(v)[1] = 48 + v \div 100 /\ Decimal(v)[2] = 48 + ((v \div 10) % 10)
              /\ Decimal(v)[3] = 48 + (v % 10)
<1>1. v \in 0..255
  BY DEF Bytes
<1>2. CASE v < 10
  <2>1. Decimal(v) = <<48 + v>> /\ 48 + v \in Digit
    BY <1>1, <1>2 DEF Decimal, Digit
  <2> QED
    BY <1>1, <1>2, <2>1
<1>3. CASE ~(v < 10) /\ v < 100
  <2>1. Decimal(v) = <<48 + v \div 10, 48 + (v % 10)>>
    BY <1>3 DEF Decimal
  <2>2. 48 + v \div 10 \in Digit /\ 48 + (v % 10) \in Digit
    BY <1>1, <1>3 DEF Digit
  <2> QED
    BY <1>1, <1>3, <2>1, <2>2
<1>4. CASE ~(v < 100)
  <2>1. Decimal(v) = <<48 + v \div 100, 48 + ((v \div 10) % 10), 48 + (v % 10)>>
    BY <1>1, <1>4 DEF Decimal
  <2>2. 48 + v \div 100 \in Digit /\ 48 + ((v \div 10) % 10) \in Digit /\ 48 + (v % 10) \in Digit
    BY <1>1, <1>4 DEF Digit
  <2>3. ~(v < 10)
    BY <1>1, <1>4
  <2> QED
    BY <1>4, <2>1, <2>2, <2>3
<1> QED
  BY <1>2, <1>3, <1>4

\* The decimal of v stands in s at pos.
Spelled(s, pos, v) ==
  \A k \in 0..Len(Decimal(v)) - 1 : At(s, pos + k) = Decimal(v)[k + 1]

\* What is spelled there is read, unless it goes on.
LEMMA SpelledIsRead ==
  ASSUME NEW s, NEW pos \in Nat, NEW v \in Bytes, Spelled(s, pos, v),
         At(s, pos + Len(Decimal(v))) \notin Digit
  PROVE  /\ DigitsAt(s, pos) = Len(Decimal(v)) /\ DigitsAt(s, pos) \in 1..3
         /\ ValueAt(s, pos, DigitsAt(s, pos)) = v
<1> DEFINE c(k) == At(s, pos + k)
<1>1. v \in 0..255 /\ pos + 0 = pos
  BY DEF Bytes
<1>2. CASE v < 10
  <2>1. Len(Decimal(v)) = 1 /\ Decimal(v)[1] = 48 + v
    BY <1>2, DecimalIs
  <2>2. 0 \in 0..Len(Decimal(v)) - 1 /\ 0 + 1 = 1
    BY <2>1
  <2>3. c(0) = 48 + v
    BY <2>1, <2>2, Zenon DEF Spelled
  <2>4. c(1) \notin Digit
    BY <2>1, Zenon
  <2>5. At(s, pos) = c(0)
    BY <1>1, Zenon
  <2> HIDE DEF c
  <2>6. c(0) \in Digit
    BY <1>1, <1>2, <2>3 DEF Digit
  <2>7. DigitsAt(s, pos) = 1
    BY <2>4, <2>5, <2>6 DEF DigitsAt, c
  <2>8. ValueAt(s, pos, 1) = c(0) - 48
    BY DEF ValueAt, c
  <2> QED
    BY <1>1, <2>1, <2>3, <2>7, <2>8
<1>3. CASE ~(v < 10) /\ v < 100
  <2>1. Len(Decimal(v)) = 2 /\ Decimal(v)[1] = 48 + v \div 10 /\ Decimal(v)[2] = 48 + (v % 10)
    BY <1>3, DecimalIs
  <2>2. 0 \in 0..Len(Decimal(v)) - 1 /\ 1 \in 0..Len(Decimal(v)) - 1 /\ 0 + 1 = 1 /\ 1 + 1 = 2
    BY <2>1
  <2>3. c(0) = 48 + v \div 10
    BY <2>1, <2>2, Zenon DEF Spelled
  <2>4. c(1) = 48 + (v % 10)
    BY <2>1, <2>2, Zenon DEF Spelled
  <2>5. c(2) \notin Digit
    BY <2>1, Zenon
  <2>6. At(s, pos) = c(0)
    BY <1>1, Zenon
  <2> HIDE DEF c
  <2>7. c(0) \in Digit /\ c(0) # 48 /\ c(1) \in Digit /\ v = 10 * (c(0) - 48) + (c(1) - 48)
    <3>1. v \div 10 \in 1..9 /\ v % 10 \in 0..9 /\ v = 10 * (v \div 10) + (v % 10)
      BY <1>1, <1>3
    <3>2. c(0) \in Digit /\ c(0) # 48 /\ c(0) - 48 = v \div 10
      BY <2>3, <3>1, SMTT(30) DEF Digit
    <3>3. c(1) \in Digit /\ c(1) - 48 = v % 10
      BY <2>4, <3>1, SMTT(30) DEF Digit
    <3> QED
      BY <3>1, <3>2, <3>3
  <2>8. DigitsAt(s, pos) = 2
    BY <2>5, <2>6, <2>7 DEF DigitsAt, c
  <2>9. ValueAt(s, pos, 2) = 10 * (c(0) - 48) + (c(1) - 48)
    BY DEF ValueAt, c
  <2> QED
    BY <2>1, <2>7, <2>8, <2>9
<1>4. CASE ~(v < 100)
  <2>1. /\ Len(Decimal(v)) = 3 /\ Decimal(v)[1] = 48 + v \div 100
        /\ Decimal(v)[2] = 48 + ((v \div 10) % 10) /\ Decimal(v)[3] = 48 + (v % 10)
    BY <1>4, DecimalIs
  <2>2. /\ 0 \in 0..Len(Decimal(v)) - 1 /\ 1 \in 0..Len(Decimal(v)) - 1 /\ 2 \in 0..Len(Decimal(v)) - 1
        /\ 0 + 1 = 1 /\ 1 + 1 = 2 /\ 2 + 1 = 3
    BY <2>1
  <2>3. c(0) = 48 + v \div 100
    BY <2>1, <2>2, Zenon DEF Spelled
  <2>4. c(1) = 48 + ((v \div 10) % 10)
    BY <2>1, <2>2, Zenon DEF Spelled
  <2>5. c(2) = 48 + (v % 10)
    BY <2>1, <2>2, Zenon DEF Spelled
  <2>6. At(s, pos) = c(0)
    BY <1>1, Zenon
  <2> HIDE DEF c
  <2>7. c(0) \in Digit /\ c(0) # 48
    BY <1>1, <1>4, <2>3, SMTT(30) DEF Digit
  <2>8. c(1) \in Digit /\ c(2) \in Digit
    BY <1>1, <1>4, <2>4, <2>5 DEF Digit
  <2>9. v = 100 * (c(0) - 48) + 10 * (c(1) - 48) + (c(2) - 48)
    <3>1. /\ v \div 100 \in 1..2 /\ (v \div 10) % 10 \in 0..9 /\ v % 10 \in 0..9
          /\ v = 10 * (v \div 10) + (v % 10) /\ v \div 10 = 10 * (v \div 100) + ((v \div 10) % 10)
      BY <1>1, <1>4
    <3>2. c(0) - 48 = v \div 100 /\ c(1) - 48 = (v \div 10) % 10 /\ c(2) - 48 = v % 10
      BY <2>3, <2>4, <2>5, <3>1, SMTT(30)
    <3> QED
      BY <1>1, <3>1, <3>2
  <2>10. DigitsAt(s, pos) = 3
    BY <2>6, <2>7, <2>8 DEF DigitsAt, c
  <2>11. ValueAt(s, pos, 3) = 100 * (c(0) - 48) + 10 * (c(1) - 48) + (c(2) - 48)
    BY DEF ValueAt, c
  <2> QED
    BY <2>1, <2>9, <2>10, <2>11
<1> QED
  BY <1>2, <1>3, <1>4

\* What is read is what is spelled there.
LEMMA ReadIsSpelled ==
  ASSUME NEW s, NEW pos \in Nat
  PROVE  LET n == DigitsAt(s, pos)
             v == ValueAt(s, pos, n)
         IN n # 0 /\ ~(v > 255) => v \in Bytes /\ Len(Decimal(v)) = n /\ Spelled(s, pos, v)
<1> DEFINE n == DigitsAt(s, pos)
           v == ValueAt(s, pos, n)
           c(k) == At(s, pos + k)
<1> SUFFICES ASSUME n # 0, ~(v > 255) PROVE v \in Bytes /\ Len(Decimal(v)) = n /\ Spelled(s, pos, v)
  OBVIOUS
<1>1. At(s, pos) = c(0)
  <2>1. pos + 0 = pos
    OBVIOUS
  <2> QED
    BY <2>1, Zenon
<1>2. n \in {1, 2, 3}
  BY DEF DigitsAt
<1>3. /\ n # 0 => c(0) \in Digit
      /\ n > 1 => c(0) # 48 /\ c(1) \in Digit
      /\ n > 2 => c(2) \in Digit
  BY <1>1 DEF DigitsAt
<1>4. /\ n = 1 => v = c(0) - 48
      /\ n = 2 => v = 10 * (c(0) - 48) + (c(1) - 48)
      /\ n = 3 => v = 100 * (c(0) - 48) + 10 * (c(1) - 48) + (c(2) - 48)
  BY DEF ValueAt
<1> HIDE DEF n, v, c
<1>5. CASE n = 1
  <2>1. v \in 0..9 /\ c(0) = 48 + v
    BY <1>3, <1>4, <1>5 DEF Digit
  <2>2. v \in Bytes /\ v < 10
    BY <2>1 DEF Bytes
  <2>3. Len(Decimal(v)) = 1 /\ Decimal(v)[1] = 48 + v
    BY <2>2, DecimalIs
  <2>4. Spelled(s, pos, v)
    <3>1. \A k \in 0..Len(Decimal(v)) - 1 : k = 0
      BY <2>3
    <3>2. At(s, pos + 0) = Decimal(v)[0 + 1]
      BY <2>1, <2>3 DEF c
    <3> QED
      BY <3>1, <3>2, Zenon DEF Spelled
  <2> QED
    BY <1>5, <2>2, <2>3, <2>4
<1>6. CASE n = 2
  <2>1. v \in 10..99 /\ c(0) = 48 + v \div 10 /\ c(1) = 48 + (v % 10)
    BY <1>3, <1>4, <1>6 DEF Digit
  <2>2. v \in Bytes /\ ~(v < 10) /\ v < 100
    BY <2>1 DEF Bytes
  <2>3. Len(Decimal(v)) = 2 /\ Decimal(v)[1] = 48 + v \div 10 /\ Decimal(v)[2] = 48 + (v % 10)
    BY <2>2, DecimalIs
  <2>4. Spelled(s, pos, v)
    <3>1. \A k \in 0..Len(Decimal(v)) - 1 : k = 0 \/ k = 1
      BY <2>3
    <3>2. At(s, pos + 0) = Decimal(v)[0 + 1]
      BY <2>1, <2>3 DEF c
    <3>3. At(s, pos + 1) = Decimal(v)[1 + 1]
      BY <2>1, <2>3 DEF c
    <3> QED
      BY <3>1, <3>2, <3>3, Zenon DEF Spelled
  <2> QED
    BY <1>6, <2>2, <2>3, <2>4
<1>7. CASE n = 3
  <2>1. v \in 100..255
    BY <1>3, <1>4, <1>7 DEF Digit
  <2>2. /\ c(0) = 48 + v \div 100 /\ c(1) = 48 + ((v \div 10) % 10) /\ c(2) = 48 + (v % 10)
    <3>1. c(0) - 48 \in 1..9 /\ c(1) - 48 \in 0..9 /\ c(2) - 48 \in 0..9
      BY <1>3, <1>7 DEF Digit
    <3>2. \A x \in 1..9, y, z \in 0..9 :
            LET u == 100 * x + 10 * y + z
            IN u \div 100 = x /\ (u \div 10) % 10 = y /\ u % 10 = z
      OBVIOUS
    <3>3. /\ v \div 100 = c(0) - 48 /\ (v \div 10) % 10 = c(1) - 48 /\ v % 10 = c(2) - 48
      BY <1>4, <1>7, <3>1, <3>2
    <3> QED
      BY <1>3, <1>7, <3>3 DEF Digit
  <2>3. v \in Bytes /\ ~(v < 100)
    BY <2>1 DEF Bytes
  <2>4. /\ Len(Decimal(v)) = 3 /\ Decimal(v)[1] = 48 + v \div 100
        /\ Decimal(v)[2] = 48 + ((v \div 10) % 10) /\ Decimal(v)[3] = 48 + (v % 10)
    BY <2>3, DecimalIs
  <2>5. Spelled(s, pos, v)
    <3>1. \A k \in 0..Len(Decimal(v)) - 1 : k = 0 \/ k = 1 \/ k = 2
      BY <2>4
    <3>2. At(s, pos + 0) = Decimal(v)[0 + 1]
      BY <2>2, <2>4 DEF c
    <3>3. At(s, pos + 1) = Decimal(v)[1 + 1]
      BY <2>2, <2>4 DEF c
    <3>4. At(s, pos + 2) = Decimal(v)[2 + 1]
      BY <2>2, <2>4 DEF c
    <3> QED
      BY <3>1, <3>2, <3>3, <3>4, Zenon DEF Spelled
  <2> QED
    BY <1>7, <2>3, <2>4, <2>5
<1> QED
  BY <1>2, <1>5, <1>6, <1>7 DEF n, v

\* Two parts with a dot in between.
LEMMA TwoParts ==
  ASSUME NEW X \in Seq(Bytes), NEW Y \in Seq(Bytes)
  PROVE  LET s == X \o <<Dot>> \o Y
         IN /\ s \in Seq(Bytes) /\ Len(s) = (Len(X) + 1) + Len(Y)
            /\ \A k \in 1..Len(X) : s[k] = X[k]
            /\ s[Len(X) + 1] = Dot
            /\ \A k \in 1..Len(Y) : s[(Len(X) + 1) + k] = Y[k]
<1> DEFINE x == Len(X)
           y == Len(Y)
           d == <<Dot>>
           u == X \o d
           s == u \o Y
<1>1. x \in Nat /\ y \in Nat
  OBVIOUS
<1>2. d \in Seq(Bytes) /\ Len(d) = 1 /\ d[1] = Dot
  <2>1. Dot \in Bytes
    BY DEF Dot, Bytes
  <2> QED
    BY <2>1
<1> HIDE DEF d
<1>3. u \in Seq(Bytes) /\ Len(u) = x + 1
  <2>1. Len(u) = Len(X) + Len(d)
    BY <1>2, ConcatProperties, Zenon
  <2> QED
    BY <1>2, <2>1
<1>4. \A k \in 1..x : u[k] = X[k]
  BY <1>2
<1>5. u[x + 1] = Dot
  <2>1. x + 1 \in 1..Len(X) + Len(d) /\ ~(x + 1 <= Len(X)) /\ (x + 1) - Len(X) = 1
    BY <1>1, <1>2
  <2>2. u[x + 1] = d[(x + 1) - Len(X)]
    BY <1>2, <2>1, ConcatProperties
  <2> QED
    BY <1>2, <2>1, <2>2, Zenon
<1> HIDE DEF u
<1>6. s \in Seq(Bytes) /\ Len(s) = (x + 1) + y
  BY <1>3, ConcatProperties, ZenonT(30)
<1>7. \A k \in 1..x + 1 : s[k] = u[k]
  BY <1>3
<1>8. \A k \in 1..y : s[(x + 1) + k] = Y[k]
  BY <1>1, <1>3
<1> HIDE DEF s
<1>9. (\A k \in 1..x : s[k] = X[k]) /\ s[x + 1] = Dot
  <2> HIDE DEF x
  <2> QED
    BY <1>1, <1>4, <1>5, <1>7
<1> QED
  BY <1>6, <1>8, <1>9 DEF s, u, d

\* Four parts place by place.
Laid(s, A, B, C, D) ==
  LET p == Len(A) + 1
      q == p + Len(B) + 1
      r == q + Len(C) + 1
  IN /\ Len(s) = r + Len(D)
     /\ s[p] = Dot /\ s[q] = Dot /\ s[r] = Dot
     /\ \A k \in 1..Len(A) : s[k] = A[k]
     /\ \A k \in 1..Len(B) : s[p + k] = B[k]
     /\ \A k \in 1..Len(C) : s[q + k] = C[k]
     /\ \A k \in 1..Len(D) : s[r + k] = D[k]

Dotted(A, B, C, D) == A \o <<Dot>> \o B \o <<Dot>> \o C \o <<Dot>> \o D

\* Four parts with dots in between lie there.
LEMMA DottedIsLaid ==
  ASSUME NEW A \in Seq(Bytes), NEW B \in Seq(Bytes), NEW C \in Seq(Bytes), NEW D \in Seq(Bytes)
  PROVE  Dotted(A, B, C, D) \in Seq(Bytes) /\ Laid(Dotted(A, B, C, D), A, B, C, D)
<1> DEFINE a == Len(A)
           b == Len(B)
           c == Len(C)
           d == Len(D)
           p == a + 1
           q == p + b + 1
           r == q + c + 1
           t == A \o <<Dot>> \o B
           u == t \o <<Dot>> \o C
           s == u \o <<Dot>> \o D
<1>1. a \in Nat /\ b \in Nat /\ c \in Nat /\ d \in Nat
  OBVIOUS
<1>2. t \in Seq(Bytes) /\ Len(t) = p + b
  BY TwoParts
<1>3. (\A k \in 1..a : t[k] = A[k]) /\ t[p] = Dot /\ \A k \in 1..b : t[p + k] = B[k]
  BY TwoParts
<1> HIDE DEF t
<1>4. u \in Seq(Bytes) /\ Len(u) = (Len(t) + 1) + c
  BY <1>2, TwoParts
<1>5. /\ \A k \in 1..Len(t) : u[k] = t[k]
      /\ u[Len(t) + 1] = Dot /\ \A k \in 1..c : u[(Len(t) + 1) + k] = C[k]
  BY <1>2, TwoParts
<1> HIDE DEF u
<1>6. s \in Seq(Bytes) /\ Len(s) = (Len(u) + 1) + d
  BY <1>4, TwoParts
<1>7. /\ \A k \in 1..Len(u) : s[k] = u[k]
      /\ s[Len(u) + 1] = Dot /\ \A k \in 1..d : s[(Len(u) + 1) + k] = D[k]
  BY <1>4, TwoParts
<1>8. s = Dotted(A, B, C, D)
  BY Zenon DEF Dotted, s, u, t
<1> HIDE DEF s, a, b, c, d
<1>9. Len(t) + 1 = q /\ Len(u) + 1 = r /\ Len(s) = r + d /\ p \in Nat /\ q \in Nat /\ r \in Nat
  BY <1>1, <1>2, <1>4, <1>6
<1>10. s[r] = Dot /\ \A k \in 1..d : s[r + k] = D[k]
  BY <1>7, <1>9, Zenon
<1>11. u[q] = Dot /\ \A k \in 1..c : u[q + k] = C[k]
  BY <1>5, <1>9, Zenon
<1>12. s[q] = Dot /\ \A k \in 1..c : s[q + k] = C[k]
  <2>1. q \in 1..Len(u)
    BY <1>1, <1>9
  <2>2. \A k \in 1..c : q + k \in 1..Len(u)
    BY <1>1, <1>9
  <2> QED
    BY <1>7, <1>11, <2>1, <2>2, Zenon
<1>13. /\ s[p] = Dot /\ (\A k \in 1..b : s[p + k] = B[k])
       /\ \A k \in 1..a : s[k] = A[k]
  <2>1. p \in 1..Len(t) /\ p \in 1..Len(u)
    BY <1>1, <1>9
  <2>2. \A k \in 1..b : p + k \in 1..Len(t) /\ p + k \in 1..Len(u)
    BY <1>1, <1>9
  <2>3. \A k \in 1..a : k \in 1..Len(t) /\ k \in 1..Len(u)
    BY <1>1, <1>9
  <2>4. s[p] = Dot
    BY <1>3, <1>5, <1>7, <2>1, Zenon
  <2>5. \A k \in 1..b : s[p + k] = B[k]
    BY <1>3, <1>5, <1>7, <2>2, Zenon
  <2>6. \A k \in 1..a : s[k] = A[k]
    BY <1>3, <1>5, <1>7, <2>3, Zenon
  <2> QED
    BY <2>4, <2>5, <2>6
<1>14. Laid(s, A, B, C, D)
  BY <1>9, <1>10, <1>12, <1>13, Zenon DEF Laid, a, b, c, d
<1> QED
  BY <1>6, <1>8, <1>14, Zenon

\* Nothing else does.
LEMMA LaidIsDotted ==
  ASSUME NEW A \in Seq(Bytes), NEW B \in Seq(Bytes), NEW C \in Seq(Bytes), NEW D \in Seq(Bytes),
         NEW s \in Seq(Bytes), Laid(s, A, B, C, D)
  PROVE  s = Dotted(A, B, C, D)
<1> DEFINE a == Len(A)
           b == Len(B)
           c == Len(C)
           d == Len(D)
           p == a + 1
           q == p + b + 1
           r == q + c + 1
           t == Dotted(A, B, C, D)
<1>1. a \in Nat /\ b \in Nat /\ c \in Nat /\ d \in Nat
  OBVIOUS
<1>2. t \in Seq(Bytes) /\ Laid(t, A, B, C, D)
  BY DottedIsLaid
<1> HIDE DEF t
<1>3. /\ Len(t) = r + d /\ t[p] = Dot /\ t[q] = Dot /\ t[r] = Dot
      /\ \A k \in 1..a : t[k] = A[k]
      /\ \A k \in 1..b : t[p + k] = B[k]
      /\ \A k \in 1..c : t[q + k] = C[k]
      /\ \A k \in 1..d : t[r + k] = D[k]
  BY <1>2, Zenon DEF Laid
<1>4. /\ Len(s) = r + d /\ s[p] = Dot /\ s[q] = Dot /\ s[r] = Dot
      /\ \A k \in 1..a : s[k] = A[k]
      /\ \A k \in 1..b : s[p + k] = B[k]
      /\ \A k \in 1..c : s[q + k] = C[k]
      /\ \A k \in 1..d : s[r + k] = D[k]
  BY Zenon DEF Laid
<1> HIDE DEF a, b, c, d
<1>5. ASSUME NEW k \in 1..r + d PROVE s[k] = t[k]
  <2>1. CASE k \in 1..a
    BY <1>3, <1>4, <2>1, Zenon
  <2>2. CASE k \in {p, q, r}
    BY <1>3, <1>4, <2>2
  <2>3. CASE k \in p + 1..p + b
    <3>1. k - p \in 1..b /\ p + (k - p) = k
      BY <1>1, <2>3
    <3> QED
      BY <1>3, <1>4, <3>1, Zenon
  <2>4. CASE k \in q + 1..q + c
    <3>1. k - q \in 1..c /\ q + (k - q) = k
      BY <1>1, <2>4
    <3> QED
      BY <1>3, <1>4, <3>1, Zenon
  <2>5. CASE k \in r + 1..r + d
    <3>1. k - r \in 1..d /\ r + (k - r) = k
      BY <1>1, <2>5
    <3> QED
      BY <1>3, <1>4, <3>1, Zenon
  <2>6. k \in 1..a \/ k \in {p, q, r} \/ k \in p + 1..p + b \/ k \in q + 1..q + c \/ k \in r + 1..r + d
    BY <1>1
  <2> QED
    BY <2>1, <2>2, <2>3, <2>4, <2>5, <2>6
<1>6. Len(s) = Len(t) /\ \A k \in 1..Len(s) : s[k] = t[k]
  BY <1>3, <1>4, <1>5
<1>7. s = t
  BY <1>2, <1>6, SeqEqual
<1> QED
  BY <1>7 DEF t

\* The parser in front of a part and behind it.
Before(p, ret, o) == [pos |-> p, ret |-> ret, out |-> o]
Behind(p, v, i, o) ==
  [pos |-> p + Len(Decimal(v)) + (IF i < 4 THEN 1 ELSE 0), ret |-> 0, out |-> Append(o, v)]

\* A decimal goes on no further and, but for the last, has its dot.
PartEnds(s, p, v, i) ==
  /\ At(s, p + Len(Decimal(v))) \notin Digit
  /\ i < 4 => At(s, p + Len(Decimal(v))) = Dot

Takes(s, p, v, i, o) == Ipv4Part(s, Before(p, 0, o), i) = Behind(p, v, i, o)

\* A part that is spelled and ended is taken.
LEMMA PartTakes ==
  ASSUME NEW s, NEW p \in Nat, NEW v \in Bytes, NEW i, NEW o
  PROVE  Spelled(s, p, v) /\ PartEnds(s, p, v, i) => Takes(s, p, v, i, o)
<1> SUFFICES ASSUME Spelled(s, p, v), PartEnds(s, p, v, i)
             PROVE  Ipv4Part(s, [pos |-> p, ret |-> 0, out |-> o], i)
                      = [pos |-> p + Len(Decimal(v)) + (IF i < 4 THEN 1 ELSE 0), ret |-> 0, out |-> Append(o, v)]
  BY Zenon DEF Before, Behind, Takes
<1>0. At(s, p + Len(Decimal(v))) \notin Digit /\ (i < 4 => At(s, p + Len(Decimal(v))) = Dot)
  BY Zenon DEF PartEnds
<1> DEFINE n == DigitsAt(s, p)
           st == [pos |-> p, ret |-> 0, out |-> o]
<1>1. n = Len(Decimal(v)) /\ n \in 1..3 /\ ValueAt(s, p, n) = v
  BY <1>0, SpelledIsRead, Zenon
<1>2. Ipv4Part(s, st, i) = Ipv4Take(s, st, i, n, v)
  <2>1. st.pos = p
    OBVIOUS
  <2> QED
    BY <1>1, <2>1, Zenon DEF Ipv4Part
<1>3. Ipv4Take(s, st, i, n, v) = [pos |-> p + n + (IF i < 4 THEN 1 ELSE 0), ret |-> 0, out |-> Append(o, v)]
  <2>1. i < 4 => At(s, p + n) = Dot
    BY <1>0, <1>1
  <2>2. n # 0 /\ ~(v > 255)
    BY <1>1 DEF Bytes
  <2> HIDE DEF n
  <2> QED
    BY <2>1, <2>2 DEF Ipv4Take
<1> QED
  BY <1>1, <1>2, <1>3, Zenon

\* And what is taken was spelled, and had its dot.
LEMMA PartTook ==
  ASSUME NEW s, NEW p \in Nat, NEW ret, NEW o, NEW i
  PROVE  LET t == Ipv4Part(s, Before(p, ret, o), i)
         IN /\ t.ret # 0 => t = Before(p, EINVAL, o)
            /\ t.ret = 0 =>
                 /\ ret = 0
                 /\ \E v \in Bytes : /\ Spelled(s, p, v) /\ (i < 4 => At(s, p + Len(Decimal(v))) = Dot)
                                     /\ t = Behind(p, v, i, o)
<1> DEFINE n == DigitsAt(s, p)
           v == ValueAt(s, p, n)
           st == Before(p, ret, o)
           t == Ipv4Part(s, st, i)
<1>1. t = Ipv4Take(s, st, i, n, v)
  <2>1. st.pos = p
    BY DEF Before
  <2> QED
    BY <2>1, Zenon DEF Ipv4Part
<1>2. n # 0 /\ ~(v > 255) => v \in Bytes /\ Len(Decimal(v)) = n /\ Spelled(s, p, v)
  BY ReadIsSpelled, Zenon
<1> HIDE DEF n, v, t
<1>3. CASE ret # 0 \/ n = 0 \/ v > 255 \/ (i < 4 /\ At(s, p + n) # Dot)
  <2>1. t = Before(p, EINVAL, o)
    BY <1>1, <1>3 DEF Ipv4Take, Before
  <2>2. t.ret # 0
    BY <2>1 DEF EINVAL, Before
  <2> QED
    BY <2>1, <2>2 DEF t
<1>4. CASE ~(ret # 0 \/ n = 0 \/ v > 255 \/ (i < 4 /\ At(s, p + n) # Dot))
  <2>1. t = [pos |-> p + n + (IF i < 4 THEN 1 ELSE 0), ret |-> 0, out |-> Append(o, v)]
    BY <1>1, <1>4 DEF Ipv4Take, Before
  <2>2. t.ret = 0
    BY <2>1
  <2>3. v \in Bytes /\ Len(Decimal(v)) = n /\ Spelled(s, p, v) /\ (i < 4 => At(s, p + n) = Dot)
    BY <1>2, <1>4
  <2>4. \E u \in Bytes :
          /\ Spelled(s, p, u) /\ (i < 4 => At(s, p + Len(Decimal(u))) = Dot)
          /\ t = Behind(p, u, i, o)
    <3>1. t = Behind(p, v, i, o)
      BY <2>1, <2>3, Zenon DEF Behind
    <3> QED
      BY <2>3, <3>1, Zenon
  <2> QED
    BY <1>4, <2>2, <2>4 DEF t
<1> QED
  BY <1>3, <1>4

\* What stands in the text of a part is spelled there.
LEMMA PlacedIsSpelled ==
  ASSUME NEW s \in Seq(Bytes), NEW p \in Nat, NEW v \in Bytes, p + Len(Decimal(v)) <= Len(s)
  PROVE  Spelled(s, p, v) <=> \A k \in 1..Len(Decimal(v)) : s[p + k] = Decimal(v)[k]
<1> DEFINE n == Len(Decimal(v))
           z == Decimal(v)
<1>1. n \in Nat
  <2>1. z \in Seq(Digit)
    BY DecimalIs
  <2> HIDE DEF z
  <2> QED
    BY <2>1
<1>2. ASSUME NEW k \in 0..n - 1 PROVE At(s, p + k) = s[p + (k + 1)] /\ k + 1 \in 1..n
  <2> HIDE DEF n
  <2>1. p + k < Len(s) /\ (p + k) + 1 = p + (k + 1) /\ k + 1 \in 1..n
    BY <1>1 DEF n
  <2> QED
    BY <2>1 DEF At
<1>3. \A k \in 1..n : k - 1 \in 0..n - 1 /\ (k - 1) + 1 = k
  BY <1>1
<1> HIDE DEF n, z
<1>4. (\A k \in 0..n - 1 : At(s, p + k) = z[k + 1]) <=> \A k \in 1..n : s[p + k] = z[k]
  <2>1. ASSUME \A k \in 0..n - 1 : At(s, p + k) = z[k + 1], NEW k \in 1..n PROVE s[p + k] = z[k]
    <3>1. At(s, p + (k - 1)) = z[(k - 1) + 1] /\ At(s, p + (k - 1)) = s[p + ((k - 1) + 1)]
      BY <1>2, <1>3, <2>1, Zenon
    <3> QED
      BY <1>3, <3>1, Zenon
  <2>2. ASSUME \A k \in 1..n : s[p + k] = z[k], NEW k \in 0..n - 1 PROVE At(s, p + k) = z[k + 1]
    BY <1>2, <2>2, Zenon
  <2> QED
    BY <2>1, <2>2, Zenon
<1> QED
  BY <1>4, Zenon DEF Spelled, n, z

\* The places of the four parts.
DecimalLen(v) == Len(Decimal(v))
SecondAt(v) == DecimalLen(v[1]) + 1
ThirdAt(v)  == SecondAt(v) + DecimalLen(v[2]) + 1
FourthAt(v) == ThirdAt(v) + DecimalLen(v[3]) + 1
AddressEnd(v) == FourthAt(v) + DecimalLen(v[4])

\* The parts of a string are spelled at their places, and nothing else.
Shown(s, v) ==
  /\ Spelled(s, 0, v[1]) /\ Spelled(s, SecondAt(v), v[2])
  /\ Spelled(s, ThirdAt(v), v[3]) /\ Spelled(s, FourthAt(v), v[4])
  /\ At(s, 0 + DecimalLen(v[1])) = Dot /\ At(s, SecondAt(v) + DecimalLen(v[2])) = Dot
  /\ At(s, ThirdAt(v) + DecimalLen(v[3])) = Dot

\* A decimal has one to three digits.
LEMMA DecimalLens ==
  ASSUME NEW v \in Bytes
  PROVE  DecimalLen(v) \in 1..3 /\ Decimal(v) \in Seq(Bytes)
<1> DEFINE z == Decimal(v)
<1>1. z \in Seq(Digit)
  BY DecimalIs
<1>2. Len(z) \in 1..3
  <2>1. v < 10 => Len(Decimal(v)) = 1
    BY DecimalIs
  <2>2. ~(v < 10) /\ v < 100 => Len(Decimal(v)) = 2
    BY DecimalIs
  <2>3. ~(v < 100) => Len(Decimal(v)) = 3
    BY DecimalIs
  <2> HIDE DEF z
  <2> QED
    BY <2>1, <2>2, <2>3 DEF z
<1> HIDE DEF z
<1>3. z \in Seq(Bytes)
  <2>1. Digit \subseteq Bytes
    BY DEF Digit, Bytes
  <2> QED
    BY <1>1, <2>1, SeqMonotonic
<1> QED
  BY <1>2, <1>3 DEF z, DecimalLen

\* The types of the places.
LEMMA PlacesAre ==
  ASSUME NEW v \in [1..4 -> Bytes]
  PROVE  /\ v[1] \in Bytes /\ v[2] \in Bytes /\ v[3] \in Bytes /\ v[4] \in Bytes
         /\ DecimalLen(v[1]) \in 1..3 /\ DecimalLen(v[2]) \in 1..3
         /\ DecimalLen(v[3]) \in 1..3 /\ DecimalLen(v[4]) \in 1..3
         /\ SecondAt(v) \in Nat /\ ThirdAt(v) \in Nat /\ FourthAt(v) \in Nat /\ AddressEnd(v) \in Nat
<1>1. v[1] \in Bytes /\ v[2] \in Bytes /\ v[3] \in Bytes /\ v[4] \in Bytes
  OBVIOUS
<1>2. /\ DecimalLen(v[1]) \in 1..3 /\ DecimalLen(v[2]) \in 1..3
      /\ DecimalLen(v[3]) \in 1..3 /\ DecimalLen(v[4]) \in 1..3
  BY <1>1, DecimalLens, Zenon
<1> QED
  BY <1>1, <1>2 DEF SecondAt, ThirdAt, FourthAt, AddressEnd

\* What is printed.
LEMMA StrIsDotted ==
  ASSUME NEW v \in [1..4 -> Bytes]
  PROVE  /\ Ipv4ToStr(v) = Dotted(Decimal(v[1]), Decimal(v[2]), Decimal(v[3]), Decimal(v[4]))
         /\ Ipv4ToStr(v) \in Seq(Bytes)
<1>1. Ipv4ToStr(v) = Dotted(Decimal(v[1]), Decimal(v[2]), Decimal(v[3]), Decimal(v[4]))
  BY Zenon DEF Ipv4ToStr, Dotted
<1>2. /\ Decimal(v[1]) \in Seq(Bytes) /\ Decimal(v[2]) \in Seq(Bytes)
      /\ Decimal(v[3]) \in Seq(Bytes) /\ Decimal(v[4]) \in Seq(Bytes)
  BY PlacesAre, DecimalLens, Zenon
<1>3. Dotted(Decimal(v[1]), Decimal(v[2]), Decimal(v[3]), Decimal(v[4])) \in Seq(Bytes)
  BY <1>2, DottedIsLaid
<1> QED
  BY <1>1, <1>3

\* A string shows an address when it is its text.
LEMMA ShownIsText ==
  ASSUME NEW v \in [1..4 -> Bytes], NEW s \in Seq(Bytes)
  PROVE  s = Ipv4ToStr(v) <=> Shown(s, v) /\ Len(s) = AddressEnd(v)
<1> DEFINE A == Decimal(v[1])
           B == Decimal(v[2])
           C == Decimal(v[3])
           D == Decimal(v[4])
           p == SecondAt(v)
           q == ThirdAt(v)
           r == FourthAt(v)
           e == AddressEnd(v)
<1>1. /\ v[1] \in Bytes /\ v[2] \in Bytes /\ v[3] \in Bytes /\ v[4] \in Bytes
      /\ Len(A) \in 1..3 /\ Len(B) \in 1..3 /\ Len(C) \in 1..3 /\ Len(D) \in 1..3
      /\ p \in Nat /\ q \in Nat /\ r \in Nat /\ e \in Nat
  BY PlacesAre, Zenon DEF DecimalLen
<1>2. A \in Seq(Bytes) /\ B \in Seq(Bytes) /\ C \in Seq(Bytes) /\ D \in Seq(Bytes)
  BY <1>1, DecimalLens, Zenon
<1>3. s = Ipv4ToStr(v) <=> Laid(s, A, B, C, D)
  <2>1. Ipv4ToStr(v) = Dotted(A, B, C, D)
    BY StrIsDotted, Zenon
  <2> HIDE DEF A, B, C, D
  <2>2. Laid(Dotted(A, B, C, D), A, B, C, D)
    BY <1>2, DottedIsLaid
  <2>3. Laid(s, A, B, C, D) => s = Dotted(A, B, C, D)
    BY <1>2, LaidIsDotted
  <2> QED
    BY <2>1, <2>2, <2>3, Zenon
<1>4. p = Len(A) + 1 /\ q = p + Len(B) + 1 /\ r = q + Len(C) + 1 /\ e = r + Len(D)
  BY DEF SecondAt, ThirdAt, FourthAt, AddressEnd, DecimalLen
<1>5. Laid(s, A, B, C, D) <=>
        /\ Len(s) = r + Len(D) /\ s[p] = Dot /\ s[q] = Dot /\ s[r] = Dot
        /\ \A k \in 1..Len(A) : s[k] = A[k]
        /\ \A k \in 1..Len(B) : s[p + k] = B[k]
        /\ \A k \in 1..Len(C) : s[q + k] = C[k]
        /\ \A k \in 1..Len(D) : s[r + k] = D[k]
  BY Zenon DEF Laid, SecondAt, ThirdAt, FourthAt, DecimalLen
<1> HIDE DEF A, B, C, D, p, q, r, e
<1>6. ASSUME Len(s) = e
      PROVE  /\ Spelled(s, 0, v[1]) <=> \A k \in 1..Len(A) : s[k] = A[k]
             /\ Spelled(s, p, v[2]) <=> \A k \in 1..Len(B) : s[p + k] = B[k]
             /\ Spelled(s, q, v[3]) <=> \A k \in 1..Len(C) : s[q + k] = C[k]
             /\ Spelled(s, r, v[4]) <=> \A k \in 1..Len(D) : s[r + k] = D[k]
             /\ At(s, 0 + Len(A)) = s[p] /\ At(s, p + Len(B)) = s[q] /\ At(s, q + Len(C)) = s[r]
  <2>1. /\ 0 + Len(A) <= Len(s) /\ p + Len(B) <= Len(s) /\ q + Len(C) <= Len(s) /\ r + Len(D) <= Len(s)
        /\ 0 + Len(A) < Len(s) /\ p + Len(B) < Len(s) /\ q + Len(C) < Len(s)
        /\ (0 + Len(A)) + 1 = p /\ (p + Len(B)) + 1 = q /\ (q + Len(C)) + 1 = r
    BY <1>1, <1>4, <1>6
  <2>2. At(s, 0 + Len(A)) = s[p] /\ At(s, p + Len(B)) = s[q] /\ At(s, q + Len(C)) = s[r]
    BY <2>1 DEF At
  <2>3. Spelled(s, 0, v[1]) <=> \A k \in 1..Len(A) : s[k] = A[k]
    <3>1. Spelled(s, 0, v[1]) <=> \A k \in 1..Len(A) : s[0 + k] = A[k]
      <4>1. 0 \in Nat /\ 0 + Len(Decimal(v[1])) <= Len(s)
        BY <2>1 DEF A
      <4> QED
        BY <1>1, <4>1, PlacedIsSpelled, ZenonT(30) DEF A
    <3>2. \A k \in 1..Len(A) : 0 + k = k
      BY <1>1
    <3> QED
      BY <3>1, <3>2, Zenon
  <2>4. Spelled(s, p, v[2]) <=> \A k \in 1..Len(B) : s[p + k] = B[k]
    BY <1>1, <2>1, PlacedIsSpelled DEF B
  <2>5. Spelled(s, q, v[3]) <=> \A k \in 1..Len(C) : s[q + k] = C[k]
    BY <1>1, <2>1, PlacedIsSpelled DEF C
  <2>6. Spelled(s, r, v[4]) <=> \A k \in 1..Len(D) : s[r + k] = D[k]
    BY <1>1, <2>1, PlacedIsSpelled DEF D
  <2> QED
    BY <2>2, <2>3, <2>4, <2>5, <2>6
<1>7. Shown(s, v) <=>
        /\ Spelled(s, 0, v[1]) /\ Spelled(s, p, v[2]) /\ Spelled(s, q, v[3]) /\ Spelled(s, r, v[4])
        /\ At(s, 0 + Len(A)) = Dot /\ At(s, p + Len(B)) = Dot /\ At(s, q + Len(C)) = Dot
  BY Zenon DEF Shown, DecimalLen, A, B, C, p, q, r
<1>8. CASE Len(s) = e
  BY <1>3, <1>4, <1>5, <1>6, <1>7, <1>8, Zenon DEF e
<1>9. CASE Len(s) # e
  BY <1>3, <1>4, <1>5, <1>9, Zenon DEF e
<1> QED
  BY <1>8, <1>9

\* The text of an address is parsed to its bytes.
LEMMA TextIsParsed ==
  ASSUME NEW v \in [1..4 -> Bytes]
  PROVE  Ipv4ToBin(Ipv4ToStr(v)) = Returned(0, v)
<1> DEFINE txt == Ipv4ToStr(v)
           at2 == SecondAt(v)
           at3 == ThirdAt(v)
           at4 == FourthAt(v)
           end == AddressEnd(v)
           State(pos, out) == Before(pos, 0, out)
<1>1. /\ v[1] \in Bytes /\ v[2] \in Bytes /\ v[3] \in Bytes /\ v[4] \in Bytes
      /\ at2 \in Nat /\ at3 \in Nat /\ at4 \in Nat /\ end \in Nat /\ 0 \in Nat
  BY PlacesAre, Zenon
<1>2. Shown(txt, v) /\ Len(txt) = end
  BY StrIsDotted, ShownIsText, Zenon
<1> HIDE DEF txt
<1>3. Dot \notin Digit /\ 0 \notin Digit
  BY DEF Dot, Digit
<1>4. /\ Spelled(txt, 0, v[1]) /\ Spelled(txt, at2, v[2]) /\ Spelled(txt, at3, v[3]) /\ Spelled(txt, at4, v[4])
      /\ At(txt, 0 + Len(Decimal(v[1]))) = Dot /\ At(txt, at2 + Len(Decimal(v[2]))) = Dot
      /\ At(txt, at3 + Len(Decimal(v[3]))) = Dot
  BY <1>2, Zenon DEF Shown, DecimalLen
<1>5. /\ 0 + Len(Decimal(v[1])) + (IF 1 < 4 THEN 1 ELSE 0) = at2
      /\ at2 + Len(Decimal(v[2])) + (IF 2 < 4 THEN 1 ELSE 0) = at3
      /\ at3 + Len(Decimal(v[3])) + (IF 3 < 4 THEN 1 ELSE 0) = at4
      /\ at4 + Len(Decimal(v[4])) + (IF 4 < 4 THEN 1 ELSE 0) = end
      /\ at4 + Len(Decimal(v[4])) = end
  <2>1. /\ Len(Decimal(v[1])) \in Nat /\ Len(Decimal(v[2])) \in Nat
        /\ Len(Decimal(v[3])) \in Nat /\ Len(Decimal(v[4])) \in Nat
    <3>1. \A k \in 1..3 : k \in Nat
      OBVIOUS
    <3> QED
      BY <3>1, PlacesAre, Zenon DEF DecimalLen
  <2> QED
    BY <1>1, <2>1 DEF SecondAt, ThirdAt, FourthAt, AddressEnd, DecimalLen
<1>6. At(txt, end) = 0
  BY <1>1, <1>2 DEF At
<1> HIDE DEF at2, at3, at4, end
<1> DEFINE out1 == Append(<<>>, v[1])
           out2 == Append(out1, v[2])
           out3 == Append(out2, v[3])
           out4 == Append(out3, v[4])
<1> HIDE DEF out1, out2, out3, out4
<1>7. Ipv4Part(txt, State(0, <<>>), 1) = State(at2, out1)
  <2>1. PartEnds(txt, 0, v[1], 1)
    BY <1>3, <1>4, <1>5, <1>6 DEF PartEnds
  <2>2. Takes(txt, 0, v[1], 1, <<>>)
    BY <1>1, <1>4, <2>1, PartTakes, Zenon
  <2>3. Ipv4Part(txt, Before(0, 0, <<>>), 1) = Behind(0, v[1], 1, <<>>)
    BY <2>2, Zenon DEF Takes
  <2> QED
    BY <1>5, <2>3, Zenon DEF Before, Behind, out1
<1>8. Ipv4Part(txt, State(at2, out1), 2) = State(at3, out2)
  <2>1. PartEnds(txt, at2, v[2], 2)
    BY <1>3, <1>4, <1>5, <1>6 DEF PartEnds
  <2>2. Takes(txt, at2, v[2], 2, out1)
    BY <1>1, <1>4, <2>1, PartTakes, Zenon
  <2>3. Ipv4Part(txt, Before(at2, 0, out1), 2) = Behind(at2, v[2], 2, out1)
    BY <2>2, Zenon DEF Takes
  <2> QED
    BY <1>5, <2>3, Zenon DEF Before, Behind, out2
<1>9. Ipv4Part(txt, State(at3, out2), 3) = State(at4, out3)
  <2>1. PartEnds(txt, at3, v[3], 3)
    BY <1>3, <1>4, <1>5, <1>6 DEF PartEnds
  <2>2. Takes(txt, at3, v[3], 3, out2)
    BY <1>1, <1>4, <2>1, PartTakes, Zenon
  <2>3. Ipv4Part(txt, Before(at3, 0, out2), 3) = Behind(at3, v[3], 3, out2)
    BY <2>2, Zenon DEF Takes
  <2> QED
    BY <1>5, <2>3, Zenon DEF Before, Behind, out3
<1>10. Ipv4Part(txt, State(at4, out3), 4) = State(end, out4)
  <2>1. PartEnds(txt, at4, v[4], 4)
    BY <1>3, <1>4, <1>5, <1>6 DEF PartEnds
  <2>2. Takes(txt, at4, v[4], 4, out3)
    BY <1>1, <1>4, <2>1, PartTakes, Zenon
  <2>3. Ipv4Part(txt, Before(at4, 0, out3), 4) = Behind(at4, v[4], 4, out3)
    BY <2>2, Zenon DEF Takes
  <2> QED
    BY <1>5, <2>3, Zenon DEF Before, Behind, out4
<1>11. out4 = v
  <2>1. <<>> \in Seq(Bytes) /\ Len(<<>>) = 0
    OBVIOUS
  <2>2. out1 \in Seq(Bytes) /\ Len(out1) = 1 /\ out1[1] = v[1]
    BY <1>1, <2>1 DEF out1
  <2>3. /\ out2 \in Seq(Bytes) /\ Len(out2) = 2
        /\ \A k \in 1..1 : out2[k] = out1[k]
        /\ out2[2] = v[2]
    <3>0. out1 \in Seq(Bytes) /\ v[2] \in Bytes
      BY <1>1, <2>2, Zenon
    <3>1. /\ out2 \in Seq(Bytes) /\ Len(out2) = Len(out1) + 1
          /\ \A k \in 1..Len(out1) : out2[k] = out1[k]
          /\ out2[Len(out1) + 1] = v[2]
      <4> DEFINE e == v[2]
      <4>1. out2 = Append(out1, e)
        BY Zenon DEF out2
      <4> HIDE DEF e
      <4>2. e \in Bytes
        BY <3>0 DEF e
      <4> QED
        BY <3>0, <4>1, <4>2, AppendIs DEF e
    <3>2. Len(out1) = 1 /\ Len(out1) + 1 = 2
      BY <2>2
    <3> QED
      BY <3>1, <3>2, Zenon
  <2>4. /\ out3 \in Seq(Bytes) /\ Len(out3) = 3
        /\ \A k \in 1..2 : out3[k] = out2[k]
        /\ out3[3] = v[3]
    <3>0. out2 \in Seq(Bytes) /\ v[3] \in Bytes
      BY <1>1, <2>3, Zenon
    <3>1. /\ out3 \in Seq(Bytes) /\ Len(out3) = Len(out2) + 1
          /\ \A k \in 1..Len(out2) : out3[k] = out2[k]
          /\ out3[Len(out2) + 1] = v[3]
      <4> DEFINE e == v[3]
      <4>1. out3 = Append(out2, e)
        BY Zenon DEF out3
      <4> HIDE DEF e
      <4>2. e \in Bytes
        BY <3>0 DEF e
      <4> QED
        BY <3>0, <4>1, <4>2, AppendIs DEF e
    <3>2. Len(out2) = 2 /\ Len(out2) + 1 = 3
      BY <2>3
    <3> QED
      BY <3>1, <3>2, Zenon
  <2>5. /\ out4 \in Seq(Bytes) /\ Len(out4) = 4
        /\ \A k \in 1..3 : out4[k] = out3[k]
        /\ out4[4] = v[4]
    <3>0. out3 \in Seq(Bytes) /\ v[4] \in Bytes
      BY <1>1, <2>4, Zenon
    <3>1. /\ out4 \in Seq(Bytes) /\ Len(out4) = Len(out3) + 1
          /\ \A k \in 1..Len(out3) : out4[k] = out3[k]
          /\ out4[Len(out3) + 1] = v[4]
      <4> DEFINE e == v[4]
      <4>1. out4 = Append(out3, e)
        BY Zenon DEF out4
      <4> HIDE DEF e
      <4>2. e \in Bytes
        BY <3>0 DEF e
      <4> QED
        BY <3>0, <4>1, <4>2, AppendIs DEF e
    <3>2. Len(out3) = 3 /\ Len(out3) + 1 = 4
      BY <2>4
    <3> QED
      BY <3>1, <3>2, Zenon
  <2>6. v \in Seq(Bytes) /\ Len(v) = 4
    <3>1. 4 \in Nat
      OBVIOUS
    <3> QED
      BY <3>1, FunSeq, Zenon
  <2>7. \A k \in 1..4 : out4[k] = v[k]
    <3>1. \A k \in 1..4 : k = 1 \/ k = 2 \/ k = 3 \/ k = 4
      OBVIOUS
    <3>2. out4[1] = v[1] /\ out4[2] = v[2] /\ out4[3] = v[3] /\ out4[4] = v[4]
      <4>1. 1 \in 1..1 /\ 1 \in 1..2 /\ 2 \in 1..2 /\ 1 \in 1..3 /\ 2 \in 1..3 /\ 3 \in 1..3
        OBVIOUS
      <4>2. out4[3] = out3[3] /\ out4[2] = out3[2] /\ out4[1] = out3[1]
        BY <2>5, <4>1, Zenon
      <4>3. out3[2] = out2[2] /\ out3[1] = out2[1]
        BY <2>4, <4>1, Zenon
      <4>4. out2[1] = out1[1]
        BY <2>3, <4>1, Zenon
      <4> QED
        BY <2>2, <2>3, <2>4, <2>5, <4>2, <4>3, <4>4
    <3> QED
      BY <3>1, <3>2, Zenon
  <2> QED
    BY <2>5, <2>6, <2>7, SeqEqual
<1>12. Ipv4ToBin(txt) = Ipv4End(txt, State(end, v))
  BY <1>7, <1>8, <1>9, <1>10, <1>11, Zenon DEF Ipv4ToBin, Before
<1>13. Ipv4End(txt, State(end, v)) = Returned(0, v)
  BY <1>6 DEF Ipv4End, Before
<1> QED
  BY <1>12, <1>13, Zenon DEF txt

\* The parser somewhere, and what made it take a part.
Parsing(t) == \E p \in Nat : \E ret, o : t = Before(p, ret, o)
Took(s, t, u, i, v) ==
  /\ Spelled(s, t.pos, v) /\ (i < 4 => At(s, t.pos + Len(Decimal(v))) = Dot)
  /\ u.pos = t.pos + Len(Decimal(v)) + (IF i < 4 THEN 1 ELSE 0)
TookSome(s, t, u, i) ==
  u.ret = 0 => t.ret = 0 /\ t.pos \in Nat /\ \E v \in Bytes : Took(s, t, u, i, v)

\* Each part leaves the parser somewhere, and without an error only if it took one.
LEMMA PartIs ==
  ASSUME NEW s, NEW t, NEW i
  PROVE  Parsing(t) => Parsing(Ipv4Part(s, t, i)) /\ TookSome(s, t, Ipv4Part(s, t, i), i)
<1> SUFFICES ASSUME Parsing(t)
             PROVE  Parsing(Ipv4Part(s, t, i)) /\ TookSome(s, t, Ipv4Part(s, t, i), i)
  OBVIOUS
<1>1. PICK p \in Nat : \E ret, o : t = Before(p, ret, o)
  BY Zenon DEF Parsing
<1>0. PICK ret, o : t = Before(p, ret, o)
  BY <1>1, Zenon
<1> DEFINE u == Ipv4Part(s, t, i)
           b == Ipv4Part(s, Before(p, ret, o), i)
<1>2. t.pos = p /\ t.ret = ret
  BY <1>0 DEF Before
<1>3. /\ b.ret # 0 => b = Before(p, EINVAL, o)
      /\ b.ret = 0 =>
           /\ ret = 0
           /\ \E v \in Bytes : /\ Spelled(s, p, v) /\ (i < 4 => At(s, p + Len(Decimal(v))) = Dot)
                               /\ b = Behind(p, v, i, o)
  BY PartTook
<1>4. u = b
  BY <1>0, Zenon
<1> HIDE DEF u, b
<1>5. CASE u.ret # 0
  <2>1. u = Before(p, EINVAL, o)
    BY <1>3, <1>4, <1>5, Zenon
  <2>2. Parsing(u) /\ TookSome(s, t, u, i)
    BY <1>5, <2>1, Zenon DEF Parsing, TookSome
  <2> QED
    BY <2>2, Zenon DEF u
<1>6. CASE u.ret = 0
  <2>1. PICK v \in Bytes : /\ Spelled(s, p, v) /\ (i < 4 => At(s, p + Len(Decimal(v))) = Dot)
                           /\ u = Behind(p, v, i, o)
    BY <1>3, <1>4, <1>6, Zenon
  <2> DEFINE e == p + Len(Decimal(v)) + (IF i < 4 THEN 1 ELSE 0)
  <2>2. e \in Nat
    <3>1. Len(Decimal(v)) \in 1..3
      BY DecimalLens, Zenon DEF DecimalLen
    <3> QED
      BY <3>1
  <2>3. u = Before(e, 0, Append(o, v))
    BY <2>1, Zenon DEF Behind, Before
  <2>4. u.pos = e
    BY <2>3 DEF Before
  <2>5. Parsing(u)
    BY <2>2, <2>3, Zenon DEF Parsing
  <2>6. Took(s, t, u, i, v)
    BY <1>2, <2>1, <2>4, Zenon DEF Took
  <2>7. TookSome(s, t, u, i)
    BY <1>2, <1>3, <1>4, <1>6, <2>6, Zenon DEF TookSome
  <2> QED
    BY <2>5, <2>7, Zenon DEF u
<1> QED
  BY <1>5, <1>6

\* What is parsed is the text of an address.
LEMMA ParsedIsText ==
  ASSUME NEW s \in Seq(1..255)
  PROVE  Ipv4ToBin(s).ret = 0 => \E v \in [1..4 -> Bytes] : s = Ipv4ToStr(v)
<1> DEFINE t0 == Before(0, 0, <<>>)
           t1 == Ipv4Part(s, t0, 1)
           t2 == Ipv4Part(s, t1, 2)
           t3 == Ipv4Part(s, t2, 3)
           t4 == Ipv4Part(s, t3, 4)
<1> SUFFICES ASSUME Ipv4ToBin(s).ret = 0
             PROVE  \E v \in [1..4 -> Bytes] : s = Ipv4ToStr(v)
  OBVIOUS
<1>1. Ipv4ToBin(s) = Ipv4End(s, t4)
  BY Zenon DEF Ipv4ToBin, Before
<1>2. Parsing(t0) /\ t0.pos = 0
  <2>1. 0 \in Nat
    OBVIOUS
  <2> QED
    BY <2>1 DEF Parsing, Before
<1> HIDE DEF t0
<1>3. Parsing(t1) /\ TookSome(s, t0, t1, 1)
  BY <1>2, PartIs, Zenon
<1> HIDE DEF t1
<1>4. Parsing(t2) /\ TookSome(s, t1, t2, 2)
  BY <1>3, PartIs, Zenon
<1> HIDE DEF t2
<1>5. Parsing(t3) /\ TookSome(s, t2, t3, 3)
  BY <1>4, PartIs, Zenon
<1> HIDE DEF t3
<1>6. Parsing(t4) /\ TookSome(s, t3, t4, 4)
  BY <1>5, PartIs, Zenon
<1> HIDE DEF t4
<1>7. t4.ret = 0 /\ At(s, t4.pos) = 0
  <2>1. Ipv4End(s, t4).ret = 0
    BY <1>1, Zenon
  <2> QED
    BY <2>1 DEF Ipv4End, Returned, EINVAL
<1>8. PICK v4 \in Bytes : Took(s, t3, t4, 4, v4)
  BY <1>6, <1>7, Zenon DEF TookSome
<1>9. PICK v3 \in Bytes : Took(s, t2, t3, 3, v3)
  BY <1>5, <1>6, <1>7, Zenon DEF TookSome
<1>10. PICK v2 \in Bytes : Took(s, t1, t2, 2, v2)
  BY <1>4, <1>5, <1>6, <1>7, Zenon DEF TookSome
<1>11. PICK v1 \in Bytes : Took(s, t0, t1, 1, v1)
  BY <1>3, <1>4, <1>5, <1>6, <1>7, Zenon DEF TookSome
<1> DEFINE v == [k \in 1..4 |-> IF k = 1 THEN v1 ELSE IF k = 2 THEN v2 ELSE IF k = 3 THEN v3 ELSE v4]
<1>12. v \in [1..4 -> Bytes] /\ v[1] = v1 /\ v[2] = v2 /\ v[3] = v3 /\ v[4] = v4
  OBVIOUS
<1> HIDE DEF v
<1>13. /\ Len(Decimal(v1)) \in 1..3 /\ Len(Decimal(v2)) \in 1..3
       /\ Len(Decimal(v3)) \in 1..3 /\ Len(Decimal(v4)) \in 1..3
  BY DecimalLens, Zenon DEF DecimalLen
<1>14. /\ t1.pos = SecondAt(v) /\ t2.pos = ThirdAt(v) /\ t3.pos = FourthAt(v) /\ t4.pos = AddressEnd(v)
  <2>1. t1.pos = 0 + Len(Decimal(v1)) + 1
    BY <1>2, <1>11 DEF Took
  <2>2. t1.pos = SecondAt(v)
    BY <1>12, <1>13, <2>1 DEF SecondAt, DecimalLen
  <2>3. t2.pos = ThirdAt(v)
    BY <1>12, <1>10, <2>2 DEF ThirdAt, DecimalLen, Took
  <2>4. t3.pos = FourthAt(v)
    BY <1>12, <1>9, <2>3 DEF FourthAt, DecimalLen, Took
  <2>5. FourthAt(v) \in Nat
    BY <1>12, PlacesAre, Zenon
  <2>6. t4.pos = FourthAt(v) + Len(Decimal(v4)) + 0
    BY <1>8, <2>4 DEF Took
  <2>7. t4.pos = AddressEnd(v)
    BY <1>12, <1>13, <2>5, <2>6 DEF AddressEnd, DecimalLen
  <2> QED
    BY <2>2, <2>3, <2>4, <2>7
<1>15. Shown(s, v)
  <2>1. Spelled(s, 0, v[1]) /\ At(s, 0 + DecimalLen(v[1])) = Dot
    BY <1>2, <1>11, <1>12 DEF Took, DecimalLen
  <2>2. Spelled(s, SecondAt(v), v[2]) /\ At(s, SecondAt(v) + DecimalLen(v[2])) = Dot
    BY <1>14, <1>10, <1>12 DEF Took, DecimalLen
  <2>3. Spelled(s, ThirdAt(v), v[3]) /\ At(s, ThirdAt(v) + DecimalLen(v[3])) = Dot
    BY <1>14, <1>9, <1>12 DEF Took, DecimalLen
  <2>4. Spelled(s, FourthAt(v), v[4])
    BY <1>14, <1>8, <1>12 DEF Took
  <2> QED
    BY <2>1, <2>2, <2>3, <2>4, Zenon DEF Shown
<1>16. Len(s) = AddressEnd(v)
  <2> DEFINE n == Len(Decimal(v4))
             p == FourthAt(v)
             e == AddressEnd(v)
             z == Decimal(v4)
  <2>1. p \in Nat /\ e \in Nat /\ e = p + n
    BY <1>12, PlacesAre DEF AddressEnd, DecimalLen
  <2>2. n \in 1..3
    BY <1>13
  <2>3. At(s, p + (n - 1)) = z[(n - 1) + 1]
    <3>1. Spelled(s, p, v4)
      BY <1>12, <1>15, Zenon DEF Shown
    <3>2. \A k \in 1..3 : k - 1 \in 0..k - 1
      OBVIOUS
    <3>3. n - 1 \in 0..Len(Decimal(v4)) - 1
      BY <2>2, <3>2, Zenon
    <3> QED
      BY <3>1, <3>3, Zenon DEF Spelled
  <2>4. z[n] \in Digit
    <3>1. z \in Seq(Digit)
      BY DecimalIs
    <3>2. n = Len(z)
      OBVIOUS
    <3> HIDE DEF z, n
    <3> QED
      BY <2>2, <3>1, <3>2
  <2> HIDE DEF p, e, n, z
  <2>5. At(s, e - 1) # 0 /\ e - 1 \in Nat
    <3>1. p + (n - 1) = e - 1 /\ (n - 1) + 1 = n /\ e - 1 \in Nat
      BY <2>1, <2>2
    <3> QED
      BY <2>3, <2>4, <3>1 DEF Digit
  <2>6. At(s, e) = 0
    BY <1>7, <1>14 DEF e
  <2>7. e - 1 >= Len(s) => At(s, e - 1) = 0
    BY <2>5, StringIs
  <2>8. e < Len(s) => At(s, e) # 0
    BY <2>1, StringIs
  <2> QED
    BY <2>1, <2>5, <2>6, <2>7, <2>8 DEF e
<1>17. s \in Seq(Bytes)
  <2>1. 1..255 \subseteq Bytes
    BY DEF Bytes
  <2> QED
    BY <2>1, SeqMonotonic
<1>18. s = Ipv4ToStr(v)
  BY <1>12, <1>15, <1>16, <1>17, ShownIsText
<1> QED
  BY <1>12, <1>18

\* The shortest decimals are what is printed.
LEMMA ShortIsDecimal ==
  ASSUME NEW x
  PROVE  x \in ShortDecimals <=> \E v \in Bytes : x = Decimal(v)
<1> DEFINE One == [1..1 -> Digit]
           Two == {s \in [1..2 -> Digit] : s[1] # 48}
           Three == {s \in [1..3 -> Digit] :
                       s[1] # 48 /\ 100 * (s[1] - 48) + 10 * (s[2] - 48) + s[3] - 48 < 256}
<1>1. ShortDecimals = One \cup Two \cup Three
  BY Zenon DEF ShortDecimals
<1>2. \A n \in Nat : \A f \in [1..n -> Digit] : f \in Seq(Digit) /\ Len(f) = n
  BY FunSeq
<1>3. ASSUME x \in One PROVE \E v \in Bytes : x = Decimal(v)
  <2> DEFINE v == x[1] - 48
  <2>1. x[1] \in Digit /\ x \in Seq(Digit) /\ Len(x) = 1
    <3>1. x \in [1..1 -> Digit] /\ 1 \in 1..1 /\ 1 \in Nat
      BY <1>3
    <3> QED
      BY <1>2, <3>1, Zenon
  <2>2. v \in Bytes /\ v < 10 /\ 48 + v = x[1]
    BY <2>1 DEF Digit, Bytes
  <2> HIDE DEF v
  <2>3. Decimal(v) \in Seq(Digit) /\ Len(Decimal(v)) = 1 /\ Decimal(v)[1] = x[1]
    BY <2>2, DecimalIs
  <2>4. x = Decimal(v)
    <3> DEFINE d == Decimal(v)
    <3> HIDE DEF d
    <3>1. d \in Seq(Digit) /\ Len(d) = 1 /\ d[1] = x[1]
      BY <2>3 DEF d
    <3>2. \A k \in 1..Len(x) : x[k] = d[k]
      BY <2>1, <3>1
    <3>3. x = d
      BY <2>1, <3>1, <3>2, SeqEqual
    <3> QED
      BY <3>3 DEF d
  <2> QED
    BY <2>2, <2>4
<1>4. ASSUME x \in Two PROVE \E v \in Bytes : x = Decimal(v)
  <2> DEFINE v == 10 * (x[1] - 48) + (x[2] - 48)
  <2>1. x[1] \in Digit /\ x[1] # 48 /\ x[2] \in Digit /\ x \in Seq(Digit) /\ Len(x) = 2
    <3>1. x \in [1..2 -> Digit] /\ x[1] # 48
      BY <1>4
    <3>2. 1 \in 1..2 /\ 2 \in 1..2 /\ 2 \in Nat
      OBVIOUS
    <3>3. x[1] \in Digit /\ x[2] \in Digit
      BY <3>1, <3>2, Zenon
    <3> QED
      BY <1>2, <3>1, <3>2, <3>3, Zenon
  <2>2. v \in Bytes /\ ~(v < 10) /\ v < 100 /\ 48 + v \div 10 = x[1] /\ 48 + (v % 10) = x[2]
    <3>1. x[1] - 48 \in 1..9 /\ x[2] - 48 \in 0..9 /\ 48 + (x[1] - 48) = x[1] /\ 48 + (x[2] - 48) = x[2]
      BY <2>1 DEF Digit
    <3>2. \A a \in 1..9, b \in 0..9 :
            LET u == 10 * a + b
            IN u \in 10..99 /\ u \div 10 = a /\ u % 10 = b
      OBVIOUS
    <3>3. v \in 10..99 /\ v \div 10 = x[1] - 48 /\ v % 10 = x[2] - 48
      BY <3>1, <3>2
    <3> HIDE DEF v
    <3> QED
      BY <3>1, <3>3 DEF Bytes
  <2> HIDE DEF v
  <2>3. Decimal(v) \in Seq(Digit) /\ Len(Decimal(v)) = 2 /\ Decimal(v)[1] = x[1] /\ Decimal(v)[2] = x[2]
    BY <2>2, DecimalIs
  <2>4. x = Decimal(v)
    <3> DEFINE d == Decimal(v)
    <3> HIDE DEF d
    <3>1. d \in Seq(Digit) /\ Len(d) = 2 /\ d[1] = x[1] /\ d[2] = x[2]
      BY <2>3 DEF d
    <3>2. \A k \in 1..Len(x) : x[k] = d[k]
      BY <2>1, <3>1
    <3>3. x = d
      BY <2>1, <3>1, <3>2, SeqEqual
    <3> QED
      BY <3>3 DEF d
  <2> QED
    BY <2>2, <2>4
<1>5. ASSUME x \in Three PROVE \E v \in Bytes : x = Decimal(v)
  <2> DEFINE v == 100 * (x[1] - 48) + 10 * (x[2] - 48) + (x[3] - 48)
  <2>1. /\ x[1] \in Digit /\ x[1] # 48 /\ x[2] \in Digit /\ x[3] \in Digit
        /\ 100 * (x[1] - 48) + 10 * (x[2] - 48) + x[3] - 48 < 256
        /\ x \in Seq(Digit) /\ Len(x) = 3
    <3>1. x \in [1..3 -> Digit] /\ x[1] # 48 /\ 100 * (x[1] - 48) + 10 * (x[2] - 48) + x[3] - 48 < 256
      BY <1>5
    <3>2. 1 \in 1..3 /\ 2 \in 1..3 /\ 3 \in 1..3 /\ 3 \in Nat
      OBVIOUS
    <3>3. x[1] \in Digit /\ x[2] \in Digit /\ x[3] \in Digit
      BY <3>1, <3>2, Zenon
    <3> QED
      BY <1>2, <3>1, <3>2, <3>3, Zenon
  <2>2. v \in Bytes /\ ~(v < 100)
    <3> DEFINE a == x[1] - 48
               b == x[2] - 48
               c == x[3] - 48
    <3>1. a \in 1..9 /\ b \in 0..9 /\ c \in 0..9 /\ x[3] = c + 48
      BY <2>1 DEF Digit
    <3> HIDE DEF a, b, c
    <3>2. 100 * a + 10 * b + x[3] - 48 < 256
      BY <2>1, Zenon DEF a, b
    <3>3. 100 * a + 10 * b + c \in 100..255
      BY <3>1, <3>2
    <3>4. v = 100 * a + 10 * b + c
      BY Zenon DEF a, b, c
    <3> HIDE DEF v
    <3> QED
      BY <3>3, <3>4 DEF Bytes
  <2>3. v \div 100 = x[1] - 48 /\ (v \div 10) % 10 = x[2] - 48 /\ v % 10 = x[3] - 48
    <3>1. x[1] - 48 \in 1..9 /\ x[2] - 48 \in 0..9 /\ x[3] - 48 \in 0..9
      BY <2>1 DEF Digit
    <3>2. \A a \in 1..9, b, c \in 0..9 :
            LET u == 100 * a + 10 * b + c
            IN u \div 100 = a /\ (u \div 10) % 10 = b /\ u % 10 = c
      OBVIOUS
    <3> QED
      BY <3>1, <3>2
  <2> HIDE DEF v
  <2>4. 48 + v \div 100 = x[1] /\ 48 + ((v \div 10) % 10) = x[2] /\ 48 + (v % 10) = x[3]
    BY <2>1, <2>3, SMTT(30) DEF Digit
  <2>5. /\ Decimal(v) \in Seq(Digit) /\ Len(Decimal(v)) = 3
        /\ Decimal(v)[1] = x[1] /\ Decimal(v)[2] = x[2] /\ Decimal(v)[3] = x[3]
    BY <2>2, <2>4, DecimalIs
  <2>6. x = Decimal(v)
    <3> DEFINE d == Decimal(v)
    <3> HIDE DEF d
    <3>1. d \in Seq(Digit) /\ Len(d) = 3 /\ d[1] = x[1] /\ d[2] = x[2] /\ d[3] = x[3]
      BY <2>5 DEF d
    <3>2. \A k \in 1..Len(x) : x[k] = d[k]
      BY <2>1, <3>1
    <3>3. x = d
      BY <2>1, <3>1, <3>2, SeqEqual
    <3> QED
      BY <3>3 DEF d
  <2> QED
    BY <2>2, <2>6
<1>6. ASSUME NEW v \in Bytes PROVE Decimal(v) \in One \cup Two \cup Three
  <2> DEFINE d == Decimal(v)
  <2>1. v \in 0..255
    BY DEF Bytes
  <2>2. CASE v < 10
    <3>1. d \in Seq(Digit) /\ Len(d) = 1
      BY <2>2, DecimalIs
    <3> HIDE DEF d
    <3>2. d \in [1..1 -> Digit]
      BY <3>1, LenProperties
    <3> QED
      BY <3>2 DEF d
  <2>3. CASE ~(v < 10) /\ v < 100
    <3>1. d \in Seq(Digit) /\ Len(d) = 2 /\ d[1] = 48 + v \div 10
      BY <2>3, DecimalIs
    <3> HIDE DEF d
    <3>2. d \in [1..2 -> Digit]
      BY <3>1, LenProperties
    <3>3. d[1] # 48
      BY <2>1, <2>3, <3>1
    <3> QED
      BY <3>2, <3>3 DEF d
  <2>4. CASE ~(v < 100)
    <3>1. /\ d \in Seq(Digit) /\ Len(d) = 3 /\ d[1] = 48 + v \div 100
          /\ d[2] = 48 + ((v \div 10) % 10) /\ d[3] = 48 + (v % 10)
      BY <2>4, DecimalIs
    <3> HIDE DEF d
    <3>2. d \in [1..3 -> Digit] /\ d[1] # 48
      <4>1. d \in [1..3 -> Digit]
        BY <3>1, LenProperties
      <4>2. d[1] # 48
        BY <2>1, <2>4, <3>1
      <4> QED
        BY <4>1, <4>2
    <3>3. 100 * (d[1] - 48) + 10 * (d[2] - 48) + d[3] - 48 = v
      <4>1. /\ v \div 100 \in 1..2 /\ (v \div 10) % 10 \in 0..9 /\ v % 10 \in 0..9
            /\ v = 10 * (v \div 10) + (v % 10) /\ v \div 10 = 10 * (v \div 100) + ((v \div 10) % 10)
        BY <2>1, <2>4
      <4>2. d[1] - 48 = v \div 100 /\ d[2] - 48 = (v \div 10) % 10 /\ d[3] - 48 = v % 10 /\ d[3] \in Int
        BY <3>1, <4>1
      <4> QED
        BY <2>1, <4>1, <4>2
    <3> QED
      BY <2>1, <3>2, <3>3 DEF d
  <2> QED
    BY <2>2, <2>3, <2>4
<1> HIDE DEF One, Two, Three
<1>7. ASSUME x \in ShortDecimals PROVE \E v \in Bytes : x = Decimal(v)
  BY <1>1, <1>3, <1>4, <1>5, <1>7
<1>8. ASSUME NEW v \in Bytes, x = Decimal(v) PROVE x \in ShortDecimals
  BY <1>1, <1>6, <1>8
<1> QED
  BY <1>7, <1>8

\* A part of a string.
LEMMA PieceIs ==
  ASSUME NEW s \in Seq(Bytes), NEW m \in 1..Len(s) + 1, NEW n \in m - 1..Len(s)
  PROVE  /\ SubSeq(s, m, n) \in Seq(Bytes) /\ Len(SubSeq(s, m, n)) = (n - m) + 1
         /\ \A k \in 1..(n - m) + 1 : SubSeq(s, m, n)[k] = s[(m - 1) + k]
<1>1. m \in Int /\ n \in Int /\ Len(s) \in Nat
  OBVIOUS
<1>2. \A k \in m..n : s[k] \in Bytes
  OBVIOUS
<1>3. /\ SubSeq(s, m, n) \in Seq(Bytes)
      /\ Len(SubSeq(s, m, n)) = IF m <= n THEN n - m + 1 ELSE 0
      /\ \A k \in 1..n - m + 1 : SubSeq(s, m, n)[k] = s[m + k - 1]
  BY <1>1, <1>2, SubSeqProperties
<1>4. Len(SubSeq(s, m, n)) = (n - m) + 1
  BY <1>1, <1>3
<1>5. \A k \in 1..(n - m) + 1 : SubSeq(s, m, n)[k] = s[(m - 1) + k]
  <2>1. \A k \in 1..(n - m) + 1 : m + k - 1 = (m - 1) + k /\ k \in 1..n - m + 1
    BY <1>1
  <2> QED
    BY <1>3, <2>1, Zenon
<1> QED
  BY <1>3, <1>4, <1>5

\* Four parts between three dots.
Pieced(s, A, B, C, D) ==
  \E p, q, r \in DOMAIN s :
    /\ p < q /\ q < r /\ s[p] = Dot /\ s[q] = Dot /\ s[r] = Dot
    /\ A = SubSeq(s, 1, p - 1) /\ B = SubSeq(s, p + 1, q - 1)
    /\ C = SubSeq(s, q + 1, r - 1) /\ D = SubSeq(s, r + 1, Len(s))

\* They are the parts laid out.
LEMMA PiecesAre ==
  ASSUME NEW s \in Seq(Bytes), NEW A \in Seq(Bytes), NEW B \in Seq(Bytes), NEW C \in Seq(Bytes), NEW D \in Seq(Bytes)
  PROVE  Laid(s, A, B, C, D) <=> Pieced(s, A, B, C, D)
<1>0. Len(s) \in Nat /\ DOMAIN s = 1..Len(s) /\ Len(A) \in Nat /\ Len(B) \in Nat /\ Len(C) \in Nat /\ Len(D) \in Nat
  OBVIOUS
<1>1. ASSUME Laid(s, A, B, C, D)
      PROVE  \E p, q, r \in DOMAIN s :
               /\ p < q /\ q < r /\ s[p] = Dot /\ s[q] = Dot /\ s[r] = Dot
               /\ A = SubSeq(s, 1, p - 1) /\ B = SubSeq(s, p + 1, q - 1)
               /\ C = SubSeq(s, q + 1, r - 1) /\ D = SubSeq(s, r + 1, Len(s))
  <2> DEFINE p == Len(A) + 1
             q == p + Len(B) + 1
             r == q + Len(C) + 1
  <2>1. /\ Len(s) = r + Len(D)
        /\ s[p] = Dot /\ s[q] = Dot /\ s[r] = Dot
        /\ \A k \in 1..Len(A) : s[k] = A[k]
        /\ \A k \in 1..Len(B) : s[p + k] = B[k]
        /\ \A k \in 1..Len(C) : s[q + k] = C[k]
        /\ \A k \in 1..Len(D) : s[r + k] = D[k]
    BY <1>1, Zenon DEF Laid
  <2>2. /\ p - 1 = Len(A) /\ q - 1 = p + Len(B) /\ r - 1 = q + Len(C) /\ Len(s) = r + Len(D)
        /\ p \in Nat /\ q \in Nat /\ r \in Nat
        /\ p \in 1..Len(s) /\ q \in 1..Len(s) /\ r \in 1..Len(s) /\ p < q /\ q < r
    BY <1>0, <2>1
  <2> HIDE DEF p, q, r
  <2>3. A = SubSeq(s, 1, p - 1)
    <3> DEFINE X == SubSeq(s, 1, p - 1)
    <3>1. 1 \in 1..Len(s) + 1 /\ p - 1 \in 1 - 1..Len(s) /\ ((p - 1) - 1) + 1 = Len(A)
      BY <1>0, <2>2
    <3>2. X \in Seq(Bytes) /\ Len(X) = Len(A)
      BY <3>1, PieceIs
    <3>3. \A k \in 1..((p - 1) - 1) + 1 : X[k] = s[(1 - 1) + k]
      BY <3>1, PieceIs
    <3>4. \A k \in 1..Len(A) : X[k] = A[k]
      <4>1. \A k \in 1..Len(A) : (1 - 1) + k = k
        BY <1>0
      <4> QED
        BY <2>1, <3>1, <3>3, <4>1, Zenon
    <3> HIDE DEF X
    <3>5. X = A
      BY <3>2, <3>4, SeqEqual
    <3> QED
      BY <3>5, Zenon DEF X
  <2>4. B = SubSeq(s, p + 1, q - 1)
    <3> DEFINE X == SubSeq(s, p + 1, q - 1)
    <3>1. p + 1 \in 1..Len(s) + 1 /\ q - 1 \in (p + 1) - 1..Len(s) /\ ((q - 1) - (p + 1)) + 1 = Len(B)
      BY <1>0, <2>2
    <3>2. X \in Seq(Bytes) /\ Len(X) = Len(B)
      BY <3>1, PieceIs
    <3>3. \A k \in 1..((q - 1) - (p + 1)) + 1 : X[k] = s[((p + 1) - 1) + k]
      BY <3>1, PieceIs
    <3>4. \A k \in 1..Len(B) : X[k] = B[k]
      <4>1. (p + 1) - 1 = p
        BY <2>2
      <4> QED
        BY <2>1, <3>1, <3>3, <4>1, Zenon
    <3> HIDE DEF X
    <3>5. X = B
      BY <3>2, <3>4, SeqEqual
    <3> QED
      BY <3>5, Zenon DEF X
  <2>5. C = SubSeq(s, q + 1, r - 1)
    <3> DEFINE X == SubSeq(s, q + 1, r - 1)
    <3>1. q + 1 \in 1..Len(s) + 1 /\ r - 1 \in (q + 1) - 1..Len(s) /\ ((r - 1) - (q + 1)) + 1 = Len(C)
      BY <1>0, <2>2
    <3>2. X \in Seq(Bytes) /\ Len(X) = Len(C)
      BY <3>1, PieceIs
    <3>3. \A k \in 1..((r - 1) - (q + 1)) + 1 : X[k] = s[((q + 1) - 1) + k]
      BY <3>1, PieceIs
    <3>4. \A k \in 1..Len(C) : X[k] = C[k]
      <4>1. (q + 1) - 1 = q
        BY <2>2
      <4> QED
        BY <2>1, <3>1, <3>3, <4>1, Zenon
    <3> HIDE DEF X
    <3>5. X = C
      BY <3>2, <3>4, SeqEqual
    <3> QED
      BY <3>5, Zenon DEF X
  <2>6. D = SubSeq(s, r + 1, Len(s))
    <3> DEFINE X == SubSeq(s, r + 1, Len(s))
    <3>1. r + 1 \in 1..Len(s) + 1 /\ Len(s) \in (r + 1) - 1..Len(s) /\ (Len(s) - (r + 1)) + 1 = Len(D)
      BY <1>0, <2>2
    <3>2. X \in Seq(Bytes) /\ Len(X) = Len(D)
      BY <3>1, PieceIs
    <3>3. \A k \in 1..(Len(s) - (r + 1)) + 1 : X[k] = s[((r + 1) - 1) + k]
      BY <3>1, PieceIs
    <3>4. \A k \in 1..Len(D) : X[k] = D[k]
      <4>1. (r + 1) - 1 = r
        BY <2>2
      <4> QED
        BY <2>1, <3>1, <3>3, <4>1, Zenon
    <3> HIDE DEF X
    <3>5. X = D
      BY <3>2, <3>4, SeqEqual
    <3> QED
      BY <3>5, Zenon DEF X
  <2>7. p \in DOMAIN s /\ q \in DOMAIN s /\ r \in DOMAIN s
    BY <1>0, <2>2
  <2> QED
    BY <2>1, <2>2, <2>3, <2>4, <2>5, <2>6, <2>7, Zenon
<1>2. ASSUME NEW p \in 1..Len(s), NEW q \in 1..Len(s), NEW r \in 1..Len(s),
             p < q, q < r, s[p] = Dot, s[q] = Dot, s[r] = Dot
      PROVE  Laid(s, SubSeq(s, 1, p - 1), SubSeq(s, p + 1, q - 1),
                     SubSeq(s, q + 1, r - 1), SubSeq(s, r + 1, Len(s)))
  <2> DEFINE n == Len(s)
             X == SubSeq(s, 1, p - 1)
             Y == SubSeq(s, p + 1, q - 1)
             Z == SubSeq(s, q + 1, r - 1)
             W == SubSeq(s, r + 1, n)
  <2>0. n \in Nat /\ p \in 1..n /\ q \in 1..n /\ r \in 1..n /\ p < q /\ q < r
    BY <1>0, <1>2
  <2> HIDE DEF n
  <2>1. /\ 1 \in 1..n + 1 /\ p - 1 \in 1 - 1..n /\ ((p - 1) - 1) + 1 = p - 1
        /\ p + 1 \in 1..n + 1 /\ q - 1 \in (p + 1) - 1..n /\ ((q - 1) - (p + 1)) + 1 = (q - p) - 1
        /\ q + 1 \in 1..n + 1 /\ r - 1 \in (q + 1) - 1..n /\ ((r - 1) - (q + 1)) + 1 = (r - q) - 1
        /\ r + 1 \in 1..n + 1 /\ n \in (r + 1) - 1..n /\ (n - (r + 1)) + 1 = n - r
    BY <2>0
  <2>2. (p + 1) - 1 = p /\ (q + 1) - 1 = q /\ (r + 1) - 1 = r /\ \A k \in 1..p - 1 : (1 - 1) + k = k
    BY <2>0
  <2>3. Len(X) = p - 1 /\ \A k \in 1..Len(X) : s[k] = X[k]
    <3>1. Len(X) = ((p - 1) - 1) + 1
      BY <2>1, PieceIs DEF n
    <3>2. \A k \in 1..((p - 1) - 1) + 1 : X[k] = s[(1 - 1) + k]
      BY <2>1, PieceIs DEF n
    <3> HIDE DEF X
    <3> QED
      BY <2>1, <2>2, <3>1, <3>2, Zenon
  <2>4. Len(Y) = (q - p) - 1 /\ \A k \in 1..Len(Y) : s[p + k] = Y[k]
    <3>1. Len(Y) = ((q - 1) - (p + 1)) + 1
      BY <2>1, PieceIs DEF n
    <3>2. \A k \in 1..((q - 1) - (p + 1)) + 1 : Y[k] = s[((p + 1) - 1) + k]
      BY <2>1, PieceIs DEF n
    <3> HIDE DEF Y
    <3> QED
      BY <2>1, <2>2, <3>1, <3>2, Zenon
  <2>5. Len(Z) = (r - q) - 1 /\ \A k \in 1..Len(Z) : s[q + k] = Z[k]
    <3>1. Len(Z) = ((r - 1) - (q + 1)) + 1
      BY <2>1, PieceIs DEF n
    <3>2. \A k \in 1..((r - 1) - (q + 1)) + 1 : Z[k] = s[((q + 1) - 1) + k]
      BY <2>1, PieceIs DEF n
    <3> HIDE DEF Z
    <3> QED
      BY <2>1, <2>2, <3>1, <3>2, Zenon
  <2>6. Len(W) = n - r /\ \A k \in 1..Len(W) : s[r + k] = W[k]
    <3>1. Len(W) = (n - (r + 1)) + 1
      BY <2>1, PieceIs DEF n
    <3>2. \A k \in 1..(n - (r + 1)) + 1 : W[k] = s[((r + 1) - 1) + k]
      BY <2>1, PieceIs DEF n
    <3> HIDE DEF W
    <3> QED
      BY <2>1, <2>2, <3>1, <3>2, Zenon
  <2> HIDE DEF X, Y, Z, W
  <2>7. Len(X) + 1 = p /\ p + Len(Y) + 1 = q /\ q + Len(Z) + 1 = r /\ n = r + Len(W)
    BY <2>0, <2>3, <2>4, <2>5, <2>6
  <2>8. Laid(s, X, Y, Z, W)
    BY <1>2, <2>3, <2>4, <2>5, <2>6, <2>7, Zenon DEF Laid, n
  <2> QED
    BY <2>8, Zenon DEF X, Y, Z, W, n
<1>3. ASSUME NEW p \in DOMAIN s, NEW q \in DOMAIN s, NEW r \in DOMAIN s,
             p < q, q < r, s[p] = Dot, s[q] = Dot, s[r] = Dot,
             A = SubSeq(s, 1, p - 1), B = SubSeq(s, p + 1, q - 1),
             C = SubSeq(s, q + 1, r - 1), D = SubSeq(s, r + 1, Len(s))
      PROVE  Laid(s, A, B, C, D)
  <2>1. p \in 1..Len(s) /\ q \in 1..Len(s) /\ r \in 1..Len(s)
    BY <1>0, Zenon
  <2>2. Laid(s, SubSeq(s, 1, p - 1), SubSeq(s, p + 1, q - 1),
                SubSeq(s, q + 1, r - 1), SubSeq(s, r + 1, Len(s)))
    BY <1>2, <1>3, <2>1, Zenon
  <2> QED
    BY <1>3, <2>2, Zenon
<1> QED
  BY <1>1, <1>3, Zenon DEF Pieced

\* The addresses are the texts that are printed.
LEMMA Ipv4IsText ==
  ASSUME NEW s \in Seq(Bytes)
  PROVE  IsIpv4(s) <=> \E v \in [1..4 -> Bytes] : s = Ipv4ToStr(v)
<1>1. ASSUME IsIpv4(s) PROVE \E v \in [1..4 -> Bytes] : s = Ipv4ToStr(v)
  <2>1. PICK p, q, r \in DOMAIN s :
          /\ p < q /\ q < r /\ s[p] = Dot /\ s[q] = Dot /\ s[r] = Dot
          /\ {SubSeq(s, 1, p - 1), SubSeq(s, p + 1, q - 1),
              SubSeq(s, q + 1, r - 1), SubSeq(s, r + 1, Len(s))} \subseteq ShortDecimals
    BY <1>1, Zenon DEF IsIpv4
  <2> DEFINE A == SubSeq(s, 1, p - 1)
             B == SubSeq(s, p + 1, q - 1)
             C == SubSeq(s, q + 1, r - 1)
             D == SubSeq(s, r + 1, Len(s))
  <2>2. A \in ShortDecimals /\ B \in ShortDecimals /\ C \in ShortDecimals /\ D \in ShortDecimals
    BY <2>1, Zenon
  <2>3. /\ \E v \in Bytes : A = Decimal(v)
        /\ \E v \in Bytes : B = Decimal(v)
        /\ \E v \in Bytes : C = Decimal(v)
        /\ \E v \in Bytes : D = Decimal(v)
    BY <2>2, ShortIsDecimal, Zenon
  <2>4. PICK v1 \in Bytes : A = Decimal(v1)
    BY <2>3, Zenon
  <2>5. PICK v2 \in Bytes : B = Decimal(v2)
    BY <2>3, Zenon
  <2>6. PICK v3 \in Bytes : C = Decimal(v3)
    BY <2>3, Zenon
  <2>7. PICK v4 \in Bytes : D = Decimal(v4)
    BY <2>3, Zenon
  <2>8. A \in Seq(Bytes) /\ B \in Seq(Bytes) /\ C \in Seq(Bytes) /\ D \in Seq(Bytes)
    BY <2>4, <2>5, <2>6, <2>7, DecimalLens, Zenon
  <2>9. Laid(s, A, B, C, D)
    BY <2>1, <2>8, PiecesAre, Zenon DEF Pieced
  <2>10. s = Dotted(A, B, C, D)
    <3> HIDE DEF A, B, C, D
    <3> QED
      BY <2>8, <2>9, LaidIsDotted
  <2> DEFINE v == [k \in 1..4 |-> IF k = 1 THEN v1 ELSE IF k = 2 THEN v2 ELSE IF k = 3 THEN v3 ELSE v4]
  <2>11. v \in [1..4 -> Bytes] /\ v[1] = v1 /\ v[2] = v2 /\ v[3] = v3 /\ v[4] = v4
    OBVIOUS
  <2> HIDE DEF v, A, B, C, D
  <2>12. s = Ipv4ToStr(v)
    BY <2>4, <2>5, <2>6, <2>7, <2>10, <2>11, StrIsDotted, Zenon
  <2> QED
    BY <2>11, <2>12
<1>2. ASSUME NEW v \in [1..4 -> Bytes], s = Ipv4ToStr(v) PROVE IsIpv4(s)
  <2> DEFINE A == Decimal(v[1])
             B == Decimal(v[2])
             C == Decimal(v[3])
             D == Decimal(v[4])
  <2>1. A \in Seq(Bytes) /\ B \in Seq(Bytes) /\ C \in Seq(Bytes) /\ D \in Seq(Bytes)
    BY PlacesAre, DecimalLens, Zenon
  <2>2. A \in ShortDecimals /\ B \in ShortDecimals /\ C \in ShortDecimals /\ D \in ShortDecimals
    BY PlacesAre, ShortIsDecimal, Zenon
  <2>3. s = Dotted(A, B, C, D)
    BY <1>2, StrIsDotted, Zenon
  <2> HIDE DEF A, B, C, D
  <2>4. Laid(s, A, B, C, D)
    BY <2>1, <2>3, DottedIsLaid, Zenon
  <2>5. Pieced(s, A, B, C, D)
    BY <2>1, <2>4, PiecesAre, Zenon
  <2>6. PICK p, q, r \in DOMAIN s :
          /\ p < q /\ q < r /\ s[p] = Dot /\ s[q] = Dot /\ s[r] = Dot
          /\ A = SubSeq(s, 1, p - 1) /\ B = SubSeq(s, p + 1, q - 1)
          /\ C = SubSeq(s, q + 1, r - 1) /\ D = SubSeq(s, r + 1, Len(s))
    BY <2>5, Zenon DEF Pieced
  <2>7. {SubSeq(s, 1, p - 1), SubSeq(s, p + 1, q - 1),
         SubSeq(s, q + 1, r - 1), SubSeq(s, r + 1, Len(s))} \subseteq ShortDecimals
    BY <2>2, <2>6
  <2> QED
    BY <2>6, <2>7, ZenonT(30) DEF IsIpv4
<1> QED
  BY <1>1, <1>2

\* The printer and the parser against the grammar.
LEMMA Ipv4Is ==
  /\ \A v \in [1..4 -> Bytes] :
       IsIpv4(Ipv4ToStr(v)) /\ Ipv4ToBin(Ipv4ToStr(v)) = Returned(0, v)
  /\ \A s \in Seq(1..255) :
       /\ Ipv4ToBin(s).ret = 0 <=> IsIpv4(s)
       /\ Ipv4ToBin(s).ret = 0 => Ipv4ToStr(Ipv4ToBin(s).out) = s
<1>1. ASSUME NEW v \in [1..4 -> Bytes]
      PROVE  IsIpv4(Ipv4ToStr(v)) /\ Ipv4ToBin(Ipv4ToStr(v)) = Returned(0, v)
  <2>1. Ipv4ToStr(v) \in Seq(Bytes)
    BY StrIsDotted
  <2>2. Ipv4ToBin(Ipv4ToStr(v)) = Returned(0, v)
    BY TextIsParsed
  <2>3. IsIpv4(Ipv4ToStr(v))
    BY <2>1, Ipv4IsText, Zenon
  <2> QED
    BY <2>2, <2>3
<1>2. ASSUME NEW s \in Seq(1..255)
      PROVE  /\ Ipv4ToBin(s).ret = 0 <=> IsIpv4(s)
             /\ Ipv4ToBin(s).ret = 0 => Ipv4ToStr(Ipv4ToBin(s).out) = s
  <2>1. s \in Seq(Bytes)
    <3>1. 1..255 \subseteq Bytes
      BY DEF Bytes
    <3> QED
      BY <3>1, SeqMonotonic
  <2>2. Ipv4ToBin(s).ret = 0 => \E v \in [1..4 -> Bytes] : s = Ipv4ToStr(v)
    BY ParsedIsText, Zenon
  <2>3. ASSUME NEW v \in [1..4 -> Bytes], s = Ipv4ToStr(v)
        PROVE  Ipv4ToBin(s).ret = 0 /\ Ipv4ToStr(Ipv4ToBin(s).out) = s
    <3>1. Ipv4ToBin(s) = Returned(0, v)
      BY <2>3, TextIsParsed, Zenon
    <3>2. Ipv4ToBin(s).ret = 0 /\ Ipv4ToBin(s).out = v
      BY <3>1 DEF Returned
    <3> QED
      BY <2>3, <3>2, Zenon
  <2> QED
    BY <2>1, <2>2, <2>3, Ipv4IsText, Zenon
<1> QED
  BY <1>1, <1>2, Zenon

-----------------------------------------------------------------------------
(* The printer of IPv6 addresses.                                          *)

\* The longest run is all of the address unless a group of two bytes that are
\* not zero ends one.
LEMMA RunsIs ==
  ASSUME NEW bin
  PROVE  MaxRun(bin) < 16 <=> RunEnds(bin) # {0, 16}
<1> DEFINE E == RunEnds(bin)
           P == {e \in E \X E : e[1] < e[2] /\ ~\E c \in E : e[1] < c /\ c < e[2]}
           Diffs == {r[2] - r[1] : r \in P}
<1>1. E \subseteq {0, 2, 4, 6, 8, 10, 12, 14, 16} /\ 0 \in E /\ 16 \in E
  BY DEF RunEnds
<1>2. MaxRun(bin) = CHOOSE x \in Diffs : \A y \in Diffs : x >= y
  BY DEF MaxRun, Max
<1> HIDE DEF E
<1>3. CASE E = {0, 16}
  <2>1. P = {<<0, 16>>}
    BY <1>3
  <2> HIDE DEF P
  <2>2. Diffs = {16}
    BY <2>1
  <2> HIDE DEF Diffs
  <2>3. MaxRun(bin) = 16
    BY <1>2, <2>2
  <2> QED
    BY <1>3, <2>3 DEF E
<1>4. CASE E # {0, 16}
  <2>1. Diffs \subseteq {2, 4, 6, 8, 10, 12, 14}
    <3> SUFFICES ASSUME NEW r \in P PROVE r[2] - r[1] \in {2, 4, 6, 8, 10, 12, 14}
      OBVIOUS
    <3>1. /\ r[1] \in E /\ r[2] \in E /\ r[1] < r[2]
          /\ ~\E c \in E : r[1] < c /\ c < r[2]
      OBVIOUS
    <3>2. PICK c \in E : c # 0 /\ c # 16
      BY <1>1, <1>4
    <3> HIDE DEF P
    <3>3. ~(r[1] = 0 /\ r[2] = 16)
      BY <1>1, <3>1, <3>2
    <3> DEFINE a == r[1]
               b == r[2]
    <3>4. a \in 0..16 /\ b \in 0..16 /\ a % 2 = 0 /\ b % 2 = 0
      <4>1. \A e \in E : e \in 0..16 /\ e % 2 = 0
        BY <1>1
      <4> QED
        BY <3>1, <4>1, Zenon
    <3>5. a < b /\ ~(a = 0 /\ b = 16)
      BY <3>1, <3>3
    <3> HIDE DEF a, b
    <3>6. b - a \in {2, 4, 6, 8, 10, 12, 14}
      BY <3>4, <3>5
    <3> QED
      BY <3>6 DEF a, b
  <2>2. Diffs # {}
    <3>1. PICK b \in E : b # 0 /\ \A c \in E : c # 0 => b <= c
      <4>1. \E c \in E : c # 0 /\ c # 16
        BY <1>1, <1>4
      <4> QED
        BY <1>1, <4>1
    <3>2. <<0, b>> \in P
      BY <1>1, <3>1
    <3>3. b - 0 \in Diffs
      BY <3>2
    <3> HIDE DEF Diffs
    <3> QED
      BY <3>3
  <2> HIDE DEF Diffs
  <2>3. \E x \in Diffs : \A y \in Diffs : x >= y
    <3>1. \A y \in Diffs : y \in {2, 4, 6, 8, 10, 12, 14}
      BY <2>1
    <3>2. CASE 14 \in Diffs
      BY <3>1, <3>2
    <3>3. CASE 14 \notin Diffs /\ 12 \in Diffs
      BY <3>1, <3>3
    <3>4. CASE 14 \notin Diffs /\ 12 \notin Diffs /\ 10 \in Diffs
      BY <3>1, <3>4
    <3>5. CASE 14 \notin Diffs /\ 12 \notin Diffs /\ 10 \notin Diffs /\ 8 \in Diffs
      BY <3>1, <3>5
    <3>6. CASE 14 \notin Diffs /\ 12 \notin Diffs /\ 10 \notin Diffs /\ 8 \notin Diffs /\ 6 \in Diffs
      BY <3>1, <3>6
    <3>7. CASE 14 \notin Diffs /\ 12 \notin Diffs /\ 10 \notin Diffs /\ 8 \notin Diffs /\ 6 \notin Diffs /\ 4 \in Diffs
      BY <3>1, <3>7
    <3>8. CASE 14 \notin Diffs /\ 12 \notin Diffs /\ 10 \notin Diffs /\ 8 \notin Diffs /\ 6 \notin Diffs /\ 4 \notin Diffs /\ 2 \in Diffs
      BY <3>1, <3>8
    <3> QED
      BY <2>2, <3>1, <3>2, <3>3, <3>4, <3>5, <3>6, <3>7, <3>8, Zenon
  <2>4. MaxRun(bin) \in Diffs
    BY <1>2, <2>3, Zenon
  <2>5. MaxRun(bin) < 16
    <3>1. \A y \in Diffs : y < 16
      BY <2>1
    <3> QED
      BY <2>4, <3>1, Zenon
  <2> QED
    BY <1>4, <2>5 DEF E
<1> QED
  BY <1>3, <1>4

\* What the printer returns for each address.
LEMMA ColonIs ==
  ASSUME NEW bin \in [1..16 -> Bytes]
  PROVE  /\ Ipv6ToStr(bin).ret = 0 <=> \A k \in 2..8 : bin[2 * k - 1] * bin[2 * k] = 0
         /\ Ipv6ToStr(bin).ret = 0 => Ipv6ToStr(bin).out = <<Colon>>
<1> DEFINE full(i) == bin[i + 1] # 0 /\ bin[i + 2] # 0
<1>1. RunEnds(bin) = {0, 16} <=> \A i \in {2, 4, 6, 8, 10, 12, 14} : ~full(i)
  BY DEF RunEnds
<1>2. (\A i \in {2, 4, 6, 8, 10, 12, 14} : ~full(i))
       <=> \A k \in 2..8 : bin[2 * k - 1] * bin[2 * k] = 0
  <2>1. \A x, y \in Nat : x * y = 0 <=> x = 0 \/ y = 0
    OBVIOUS
  <2>2. \A k \in 2..8 : bin[2 * k - 1] * bin[2 * k] = 0 <=> ~full(2 * (k - 1))
    <3> TAKE k \in 2..8
    <3>1. /\ 2 * k - 1 \in 1..16 /\ 2 * k \in 1..16
          /\ 2 * (k - 1) + 1 = 2 * k - 1 /\ 2 * (k - 1) + 2 = 2 * k
      OBVIOUS
    <3>2. bin[2 * k - 1] \in Nat /\ bin[2 * k] \in Nat
      <4>1. bin[2 * k - 1] \in Bytes /\ bin[2 * k] \in Bytes
        BY <3>1, Zenon
      <4> QED
        BY <4>1 DEF Bytes
    <3>3. bin[2 * k - 1] * bin[2 * k] = 0 <=> bin[2 * k - 1] = 0 \/ bin[2 * k] = 0
      BY <2>1, <3>2, Zenon
    <3>4. full(2 * (k - 1)) <=> bin[2 * k - 1] # 0 /\ bin[2 * k] # 0
      BY <3>1, Zenon
    <3> HIDE DEF full
    <3> QED
      BY <3>3, <3>4, Zenon
  <2>3. /\ \A k \in 2..8 : 2 * (k - 1) \in {2, 4, 6, 8, 10, 12, 14}
        /\ \A i \in {2, 4, 6, 8, 10, 12, 14} : \E k \in 2..8 : i = 2 * (k - 1)
    <3>1. \A i \in {2, 4, 6, 8, 10, 12, 14} : (i \div 2) + 1 \in 2..8 /\ i = 2 * (((i \div 2) + 1) - 1)
      OBVIOUS
    <3>2. \A k \in 2..8 : 2 * (k - 1) \in {2, 4, 6, 8, 10, 12, 14}
      OBVIOUS
    <3> QED
      BY <3>1, <3>2, Zenon
  <2> HIDE DEF full
  <2> QED
    BY <2>2, <2>3, Zenon
<1>3. 0 # Hangs
  BY DEF Hangs
<1>4. CASE RunEnds(bin) = {0, 16}
  <2>1. Ipv6ToStr(bin) = Returned(0, <<Colon>>)
    BY <1>4, RunsIs DEF Ipv6ToStr
  <2>2. Ipv6ToStr(bin).ret = 0 /\ Ipv6ToStr(bin).out = <<Colon>>
    BY <2>1 DEF Returned
  <2> HIDE DEF full
  <2> QED
    BY <1>1, <1>2, <1>4, <2>2, Zenon
<1>5. CASE RunEnds(bin) # {0, 16}
  <2>1. Ipv6ToStr(bin) = Returned(Hangs, <<>>)
    BY <1>5, RunsIs DEF Ipv6ToStr
  <2>2. Ipv6ToStr(bin).ret # 0
    BY <1>3, <2>1 DEF Returned
  <2> HIDE DEF full
  <2> QED
    BY <1>1, <1>2, <1>5, <2>2, Zenon
<1> QED
  BY <1>4, <1>5, Zenon

-----------------------------------------------------------------------------
(* The parser of IPv6 addresses.                                           *)

\* What n sequences make that are joined one by one.
Joins(f, q, n) == \A i \in 1..n : f[i] = IF i = 1 THEN q[i] ELSE f[i - 1] \o q[i]

\* There are such sequences,
LEMMA JoinsExist ==
  ASSUME NEW Elem, NEW n \in Nat \ {0}, NEW q \in [1..n -> Seq(Elem)]
  PROVE  \E f \in [1..n -> Seq(Elem)] : Joins(f, q, n)
<1> DEFINE Made(m) == \E f \in [1..m -> Seq(Elem)] : Joins(f, q, m)
           T == {m \in 1..n : ~Made(m)}
<1>1. ASSUME T # {} PROVE FALSE
  <2>1. PICK m \in T : \A k \in T : m <= k
    <3>1. T \in SUBSET Nat
      OBVIOUS
    <3> HIDE DEF T
    <3> QED
      BY <1>1, <3>1, LeastIs
  <2>2. m \in 1..n /\ ~Made(m)
    OBVIOUS
  <2>3. CASE m = 1
    <3> DEFINE f == [i \in 1..m |-> q[i]]
    <3>1. f \in [1..m -> Seq(Elem)] /\ Joins(f, q, m)
      BY <2>3 DEF Joins
    <3> QED
      BY <2>2, <3>1
  <2>4. CASE m # 1
    <3>1. m - 1 \in 1..n /\ ~(m <= m - 1)
      BY <2>2, <2>4
    <3>2. Made(m - 1)
      BY <2>1, <3>1
    <3>3. PICK u \in [1..m - 1 -> Seq(Elem)] : Joins(u, q, m - 1)
      BY <3>2
    <3>4. \A i \in 1..m - 1 : u[i] = IF i = 1 THEN q[i] ELSE u[i - 1] \o q[i]
      BY <3>3 DEF Joins
    <3> DEFINE v == u[m - 1] \o q[m]
               f == [i \in 1..m |-> IF i = m THEN v ELSE u[i]]
    <3>5. v \in Seq(Elem)
      <4>1. u[m - 1] \in Seq(Elem) /\ q[m] \in Seq(Elem)
        BY <2>2, <2>4
      <4> QED
        BY <4>1, ConcatProperties
    <3>6. f \in [1..m -> Seq(Elem)]
      <4> HIDE DEF v
      <4>1. \A i \in 1..m : i # m => i \in 1..m - 1
        BY <2>2
      <4> QED
        BY <3>5, <4>1
    <3>7. \A i \in 1..m : f[i] = IF i = 1 THEN q[i] ELSE f[i - 1] \o q[i]
      <4> TAKE i \in 1..m
      <4>1. CASE i = m
        <5>1. m - 1 \in 1..m /\ m - 1 # m
          BY <2>2, <2>4
        <5> QED
          BY <2>4, <4>1, <5>1
      <4>2. CASE i # m
        <5>1. i \in 1..m - 1 /\ (i # 1 => i - 1 \in 1..m /\ i - 1 # m)
          BY <2>2, <4>2
        <5>2. u[i] = IF i = 1 THEN q[i] ELSE u[i - 1] \o q[i]
          BY <3>4, <5>1, Zenon
        <5> QED
          BY <4>2, <5>1, <5>2
      <4> QED
        BY <4>1, <4>2
    <3> HIDE DEF f
    <3> QED
      BY <2>2, <3>6, <3>7 DEF Joins
  <2> QED
    BY <2>3, <2>4
<1>2. n \in 1..n
  OBVIOUS
<1> QED
  BY <1>1, <1>2

\* and FlattenSeq takes the last of them.
LEMMA FlattenIs ==
  ASSUME NEW Elem, NEW n \in Nat \ {0}, NEW q \in [1..n -> Seq(Elem)]
  PROVE  \E f \in [1..n -> Seq(Elem)] : Joins(f, q, n) /\ FlattenSeq(q) = f[n]
<1> DEFINE Made(f) == f = [i \in 1..n |-> IF i = 1 THEN q[i] ELSE f[i - 1] \o q[i]]
           flat == CHOOSE f : Made(f)
<1>1. \E f : Made(f)
  <2>1. PICK f \in [1..n -> Seq(Elem)] : Joins(f, q, n)
    BY JoinsExist
  <2>2. f = [i \in 1..n |-> f[i]]
    OBVIOUS
  <2>3. Made(f)
    BY <2>1, <2>2, Zenon DEF Joins
  <2> QED
    BY <2>3, Zenon
<1>2. Made(flat)
  BY <1>1, Zenon
<1>3. q \in Seq(Seq(Elem)) /\ Len(q) = n
  <2>1. n \in Nat
    OBVIOUS
  <2> QED
    BY <2>1, FunSeq, Zenon
<1>4. FlattenSeq(q) = flat[n]
  <2>1. Len(q) # 0
    BY <1>3
  <2> QED
    BY <1>3, <2>1, Zenon DEF FlattenSeq
<1>5. \A i \in 1..n : flat[i] = IF i = 1 THEN q[i] ELSE flat[i - 1] \o q[i]
  BY <1>2, Zenon
<1>6. flat = [i \in 1..n |-> IF i = 1 THEN q[i] ELSE flat[i - 1] \o q[i]]
  BY <1>2, Zenon
<1> HIDE DEF flat
<1>7. \A i \in 1..n : flat[i] \in Seq(Elem)
  <2> DEFINE T == {i \in 1..n : flat[i] \notin Seq(Elem)}
  <2>1. ASSUME T # {} PROVE FALSE
    <3>1. PICK i \in T : \A k \in T : i <= k
      <4>1. T \in SUBSET Nat
        OBVIOUS
      <4> HIDE DEF T
      <4> QED
        BY <2>1, <4>1, LeastIs
    <3>2. CASE i = 1
      BY <1>5, <3>2
    <3>3. CASE i # 1
      <4>1. i - 1 \in 1..n /\ ~(i <= i - 1)
        BY <3>3
      <4>2. flat[i - 1] \in Seq(Elem)
        BY <3>1, <4>1
      <4>3. flat[i] = flat[i - 1] \o q[i] /\ q[i] \in Seq(Elem)
        BY <1>5, <3>3
      <4> QED
        BY <4>2, <4>3, ConcatProperties, ZenonT(40)
    <3> QED
      BY <3>2, <3>3
  <2> QED
    BY <2>1
<1>8. flat \in [1..n -> Seq(Elem)]
  <2>1. flat = [i \in 1..n |-> flat[i]]
    BY <1>5, <1>6, Zenon
  <2> QED
    BY <1>7, <2>1
<1> QED
  BY <1>4, <1>5, <1>8, Zenon DEF Joins

\* Where each of the sequences is in what they make.
Placed(t, q, n, P) ==
  /\ P \in [0..n -> Nat] /\ P[0] = 0 /\ Len(t) = P[n]
  /\ \A i \in 1..n : /\ P[i] = P[i - 1] + Len(q[i])
                     /\ \A x \in 1..Len(q[i]) : P[i - 1] + x \in 1..Len(t) /\ t[P[i - 1] + x] = q[i][x]

\* Such places exist for what FlattenSeq makes.
LEMMA FlattenPlaces ==
  ASSUME NEW Elem, NEW n \in Nat \ {0}, NEW q \in [1..n -> Seq(Elem)]
  PROVE  FlattenSeq(q) \in Seq(Elem) /\ \E P : Placed(FlattenSeq(q), q, n, P)
<1>1. PICK f \in [1..n -> Seq(Elem)] : Joins(f, q, n) /\ FlattenSeq(q) = f[n]
  BY FlattenIs
<1> DEFINE t == f[n]
           P == [i \in 0..n |-> IF i = 0 THEN 0 ELSE Len(f[i])]
           Keeps(i, j) == Len(f[i]) <= Len(f[j]) /\ \A x \in 1..Len(f[i]) : f[j][x] = f[i][x]
<1>2. \A i \in 1..n : f[i] \in Seq(Elem) /\ q[i] \in Seq(Elem) /\ Len(f[i]) \in Nat /\ Len(q[i]) \in Nat
  <2> TAKE i \in 1..n
  <2>1. f[i] \in Seq(Elem) /\ q[i] \in Seq(Elem)
    OBVIOUS
  <2> QED
    BY <2>1, LenProperties
<1>3. \A i \in 1..n : f[i] = IF i = 1 THEN q[i] ELSE f[i - 1] \o q[i]
  BY <1>1 DEF Joins
<1>4. P \in [0..n -> Nat] /\ P[0] = 0 /\ Len(t) = P[n]
  BY <1>2
<1>5. ASSUME NEW i \in 1..n
      PROVE  /\ P[i] = P[i - 1] + Len(q[i])
             /\ \A x \in 1..Len(q[i]) : P[i - 1] + x \in 1..Len(f[i]) /\ f[i][P[i - 1] + x] = q[i][x]
  <2>1. CASE i = 1
    <3>1. f[i] = q[i] /\ P[i - 1] = 0 /\ P[i] = Len(f[i])
      BY <1>3, <2>1
    <3> HIDE DEF P
    <3>2. Len(q[i]) \in Nat
      BY <1>2
    <3> QED
      BY <3>1, <3>2
  <2>2. CASE i # 1
    <3>0. i - 1 \in 1..n /\ i - 1 \in 0..n /\ i - 1 # 0 /\ i \in 0..n /\ i # 0
      BY <2>2
    <3>1. i - 1 \in 1..n /\ f[i] = f[i - 1] \o q[i] /\ P[i - 1] = Len(f[i - 1]) /\ P[i] = Len(f[i])
      BY <1>3, <2>2, <3>0, Zenon
    <3>2. f[i - 1] \in Seq(Elem) /\ q[i] \in Seq(Elem) /\ Len(f[i - 1]) \in Nat /\ Len(q[i]) \in Nat
      BY <1>2, <3>1
    <3> DEFINE a == f[i - 1]
    <3>3. /\ Len(a \o q[i]) = Len(a) + Len(q[i])
          /\ \A y \in 1..Len(a) + Len(q[i]) : (a \o q[i])[y] = IF y <= Len(a) THEN a[y] ELSE q[i][y - Len(a)]
      BY <3>2, ConcatProperties
    <3> HIDE DEF P
    <3> QED
      BY <3>1, <3>2, <3>3
  <2> QED
    BY <2>1, <2>2
<1> HIDE DEF P
<1>6. ASSUME NEW i \in 1..n
      PROVE  \A j \in i..n : Keeps(i, j)
  <2> DEFINE T == {j \in i..n : ~Keeps(i, j)}
  <2>1. ASSUME T # {} PROVE FALSE
    <3>1. PICK j \in T : \A k \in T : j <= k
      <4>1. T \in SUBSET Nat
        OBVIOUS
      <4> HIDE DEF T
      <4> QED
        BY <2>1, <4>1, LeastIs
    <3>2. j \in i..n /\ ~Keeps(i, j)
      OBVIOUS
    <3>3. j # i
      BY <1>2, <3>2
    <3>4. j - 1 \in i..n /\ j - 1 \in 1..n /\ j \in 1..n /\ j # 1 /\ ~(j <= j - 1)
      BY <3>2, <3>3
    <3>5. Keeps(i, j - 1)
      BY <3>1, <3>4
    <3> DEFINE a == f[j - 1]
    <3>6. f[j] = a \o q[j] /\ a \in Seq(Elem) /\ q[j] \in Seq(Elem)
      BY <1>2, <1>3, <3>4
    <3>7. /\ Len(f[j]) = Len(a) + Len(q[j])
          /\ \A y \in 1..Len(a) + Len(q[j]) : f[j][y] = IF y <= Len(a) THEN a[y] ELSE q[j][y - Len(a)]
      <4> HIDE DEF a
      <4>1. /\ Len(a \o q[j]) = Len(a) + Len(q[j])
            /\ \A y \in 1..Len(a) + Len(q[j]) : (a \o q[j])[y] = IF y <= Len(a) THEN a[y] ELSE q[j][y - Len(a)]
        BY <3>6, ConcatProperties
      <4> QED
        BY <3>6, <4>1, Zenon
    <3>8. Len(a) \in Nat /\ Len(q[j]) \in Nat /\ Len(f[i]) \in Nat
      BY <1>2, <3>4
    <3>9. Len(f[i]) <= Len(a) /\ \A x \in 1..Len(f[i]) : a[x] = f[i][x]
      BY <3>5
    <3> HIDE DEF a
    <3>10. Len(f[i]) <= Len(f[j])
      BY <3>7, <3>8, <3>9
    <3>11. \A x \in 1..Len(f[i]) : f[j][x] = f[i][x]
      <4> TAKE x \in 1..Len(f[i])
      <4>1. x \in 1..Len(a) + Len(q[j]) /\ x <= Len(a)
        BY <3>8, <3>9
      <4> QED
        BY <3>7, <3>9, <4>1, Zenon
    <3> QED
      BY <3>2, <3>10, <3>11
  <2> QED
    BY <2>1
<1>7. ASSUME NEW i \in 1..n, NEW x \in 1..Len(q[i])
      PROVE  P[i - 1] + x \in 1..Len(t) /\ t[P[i - 1] + x] = q[i][x]
  <2>1. P[i - 1] + x \in 1..Len(f[i]) /\ f[i][P[i - 1] + x] = q[i][x]
    BY <1>5
  <2>2. n \in i..n
    OBVIOUS
  <2>3. Keeps(i, n)
    BY <1>6, <2>2
  <2>4. Len(f[i]) \in Nat /\ Len(t) \in Nat
    BY <1>2
  <2> QED
    BY <2>1, <2>3, <2>4
<1>8. Placed(t, q, n, P)
  BY <1>4, <1>5, <1>7 DEF Placed
<1>9. t \in Seq(Elem)
  BY <1>2
<1> QED
  BY <1>1, <1>8, <1>9

\* The groups of an address, as Ipv6FormsAssumption has them.
IsGroups(groups) ==
  /\ groups \in Seq(Seq(XDigit))
  /\ \A i \in 1..Len(groups) : Len(groups[i]) \in 1..4

\* The text of groups with a colon between each two: where each of them ends.
GroupsLaid(t, groups, E) ==
  LET n == Len(groups)
      colons(j) == IF j = 0 THEN 0 ELSE 1
  IN /\ t \in Seq(Nat) /\ E \in [0..n -> Nat] /\ E[0] = 0 /\ Len(t) = E[n]
     /\ \A j \in 0..n - 1 :
          /\ E[j + 1] = E[j] + colons(j) + Len(groups[j + 1]) /\ E[j + 1] <= Len(t)
          /\ j > 0 => At(t, E[j]) = Colon
          /\ \A k \in 0..Len(groups[j + 1]) - 1 : At(t, E[j] + colons(j) + k) = groups[j + 1][k + 1]

\* Each of the groups is a sequence of digits.
LEMMA GroupIs ==
  ASSUME NEW groups, IsGroups(groups)
  PROVE  /\ Len(groups) \in Nat
         /\ \A i \in 1..Len(groups) : groups[i] \in Seq(Nat) /\ groups[i] \in [1..Len(groups[i]) -> XDigit]
<1>1. groups \in Seq(Seq(XDigit))
  BY DEF IsGroups
<1>2. ASSUME NEW i \in 1..Len(groups)
      PROVE  groups[i] \in Seq(Nat) /\ groups[i] \in [1..Len(groups[i]) -> XDigit]
  <2>1. groups[i] \in Seq(XDigit)
    BY <1>1, ElementOfSeq
  <2>2. groups[i] \in [1..Len(groups[i]) -> XDigit] /\ Len(groups[i]) \in Nat
    BY <2>1, LenProperties
  <2>3. \A c \in XDigit : c \in Nat
    BY DEF XDigit, Digit
  <2> DEFINE g == groups[i]
  <2> HIDE DEF g
  <2>4. g \in [1..Len(g) -> Nat]
    BY <2>2, <2>3 DEF g
  <2>5. g \in Seq(Nat)
    BY <2>2, <2>4, FunSeq, Zenon DEF g
  <2> QED
    BY <2>2, <2>5 DEF g
<1> QED
  BY <1>1, <1>2, LenProperties

\* GroupsText lays the groups in this way.
LEMMA GroupsAreLaid ==
  ASSUME NEW groups, IsGroups(groups)
  PROVE  \E E : GroupsLaid(GroupsText(groups), groups, E)
<1> DEFINE n == Len(groups)
           q == [k \in 1..n |-> (IF k > 1 THEN <<Colon>> ELSE <<>>) \o groups[k]]
           t == FlattenSeq(q)
<1>1. n \in Nat /\ \A i \in 1..n : groups[i] \in Seq(Nat) /\ Len(groups[i]) \in 1..4
  BY GroupIs DEF IsGroups
<1>2. GroupsText(groups) = t
  BY Zenon DEF GroupsText
<1>3. ASSUME NEW i \in 1..n
      PROVE  /\ q[i] \in Seq(Nat)
             /\ Len(q[i]) = (IF i = 1 THEN 0 ELSE 1) + Len(groups[i])
             /\ i # 1 => q[i][1] = Colon
             /\ \A x \in 1..Len(groups[i]) : q[i][(IF i = 1 THEN 0 ELSE 1) + x] = groups[i][x]
  <2> DEFINE g == groups[i]
  <2>1. g \in Seq(Nat) /\ Len(g) \in Nat
    BY <1>1
  <2>2. CASE i = 1
    <3>1. q[i] = <<>> \o g
      BY <2>2
    <3> HIDE DEF g, q
    <3>2. q[i] = g
      BY <2>1, <3>1, ConcatEmptySeq
    <3> QED
      BY <2>1, <2>2, <3>2 DEF g
  <2>3. CASE i # 1
    <3>1. q[i] = <<Colon>> \o g
      <4>1. i > 1
        BY <1>1, <2>3
      <4> HIDE DEF g
      <4> QED
        BY <4>1, Zenon DEF g
    <3>2. <<Colon>> \in Seq(Nat) /\ Len(<<Colon>>) = 1 /\ <<Colon>>[1] = Colon
      BY DEF Colon
    <3> HIDE DEF g, q
    <3>3. /\ <<Colon>> \o g \in Seq(Nat)
          /\ Len(<<Colon>> \o g) = 1 + Len(g)
          /\ \A x \in 1..1 + Len(g) : (<<Colon>> \o g)[x] = IF x <= 1 THEN <<Colon>>[x] ELSE g[x - 1]
      BY <2>1, <3>2, ConcatProperties
    <3>4. \A x \in 1..Len(g) : (<<Colon>> \o g)[1 + x] = g[x]
      <4> TAKE x \in 1..Len(g)
      <4>1. 1 + x \in 1..1 + Len(g) /\ ~(1 + x <= 1) /\ (1 + x) - 1 = x
        BY <2>1
      <4> QED
        BY <3>3, <4>1, Zenon
    <3>5. (<<Colon>> \o g)[1] = Colon
      BY <2>1, <3>2, <3>3
    <3> QED
      BY <2>3, <3>1, <3>3, <3>4, <3>5 DEF g
  <2> QED
    BY <2>2, <2>3
<1>4. q \in [1..n -> Seq(Nat)]
  <2>1. q = [k \in 1..n |-> q[k]]
    OBVIOUS
  <2> HIDE DEF q
  <2> QED
    BY <1>3, <2>1
<1>5. CASE n = 0
  <2>1. Len(q) = 0 /\ q \in Seq(Nat)
    <3>1. q \in [1..0 -> Nat] /\ 0 \in Nat
      BY <1>5
    <3> HIDE DEF q
    <3> QED
      BY <3>1, FunSeq, Zenon
  <2>2. t = q
    <3> HIDE DEF q
    <3> QED
      BY <2>1, Zenon DEF FlattenSeq
  <2> DEFINE E == [j \in 0..0 |-> 0]
  <2> HIDE DEF q
  <2>3. GroupsLaid(t, groups, E)
    BY <1>5, <2>1, <2>2 DEF GroupsLaid
  <2> QED
    BY <1>2, <2>3
<1>6. CASE n # 0
  <2>1. n \in Nat \ {0}
    BY <1>1, <1>6
  <2> HIDE DEF q, n
  <2>2. PICK E : t \in Seq(Nat) /\ Placed(t, q, n, E)
    BY <1>4, <2>1, FlattenPlaces
  <2>3. /\ E \in [0..n -> Nat] /\ E[0] = 0 /\ Len(t) = E[n]
        /\ \A i \in 1..n : /\ E[i] = E[i - 1] + Len(q[i])
                           /\ \A x \in 1..Len(q[i]) : E[i - 1] + x \in 1..Len(t) /\ t[E[i - 1] + x] = q[i][x]
    BY <2>2 DEF Placed
  <2> HIDE DEF t
  <2>4. Len(t) \in Nat
    BY <2>2, LenProperties
  <2>5. ASSUME NEW j \in 0..n - 1, NEW c, c = IF j = 0 THEN 0 ELSE 1
        PROVE  /\ E[j + 1] = E[j] + c + Len(groups[j + 1]) /\ E[j + 1] <= Len(t)
               /\ j > 0 => At(t, E[j]) = Colon
               /\ \A k \in 0..Len(groups[j + 1]) - 1 : At(t, E[j] + c + k) = groups[j + 1][k + 1]
    <3> DEFINE i == j + 1
               l == Len(groups[i])
    <3>1. i \in 1..n /\ i - 1 = j /\ (i = 1 <=> j = 0) /\ j \in 0..n
      BY <2>1
    <3>2. E[j] \in Nat /\ l \in 1..4 /\ c \in 0..1
      BY <1>1, <2>3, <2>5, <3>1 DEF n
    <3>3. Len(q[i]) = c + l /\ E[i] = E[j] + c + l
      <4>1. Len(q[i]) = c + l
        BY <1>3, <2>5, <3>1
      <4>2. E[i] = E[j] + Len(q[i])
        BY <2>3, <3>1
      <4> HIDE DEF i, l
      <4> QED
        BY <3>2, <4>1, <4>2
    <3>4. ASSUME NEW x \in 1..c + l
          PROVE  E[j] + x \in 1..Len(t) /\ t[E[j] + x] = q[i][x]
      BY <2>3, <3>1, <3>3
    <3>5. E[i] <= Len(t)
      <4>1. c + l \in 1..c + l
        <5> HIDE DEF i, l
        <5> QED
          BY <3>2
      <4>2. E[j] + (c + l) \in 1..Len(t)
        BY <3>4, <4>1
      <4> HIDE DEF i, l
      <4> QED
        BY <2>4, <3>2, <3>3, <4>2
    <3>6. ASSUME NEW x \in 0..c + l - 1
          PROVE  At(t, E[j] + x) = q[i][x + 1]
      <4>1. x + 1 \in 1..c + l
        BY <3>2
      <4>2. E[j] + (x + 1) \in 1..Len(t) /\ t[E[j] + (x + 1)] = q[i][x + 1]
        BY <3>4, <4>1
      <4> HIDE DEF i, l
      <4> DEFINE e == E[j]
                 m == Len(t)
      <4>a. e \in Nat /\ m \in Nat /\ x \in Int /\ e + (x + 1) <= m
        BY <2>4, <3>2, <4>2
      <4> HIDE DEF e, m
      <4>b. e + (x + 1) = (e + x) + 1 /\ e + x < m
        BY <4>a
      <4>3. E[j] + (x + 1) = (E[j] + x) + 1 /\ E[j] + x < Len(t)
        BY <4>b DEF e, m
      <4> QED
        BY <4>2, <4>3, Zenon DEF At
    <3>7. j > 0 => At(t, E[j]) = Colon
      <4> SUFFICES ASSUME j > 0 PROVE At(t, E[j]) = Colon
        OBVIOUS
      <4>1. c = 1 /\ i # 1 /\ 0 \in 0..c + l - 1
        <5>1. j # 0
          OBVIOUS
        <5>2. c = 1
          BY <2>5, <5>1
        <5>3. i # 1
          BY <3>1, <5>1
        <5> HIDE DEF i, l
        <5> QED
          BY <3>2, <5>2, <5>3
      <4>2. At(t, E[j] + 0) = q[i][0 + 1]
        BY <3>6, <4>1
      <4>3. q[i][1] = Colon
        BY <1>3, <3>1, <4>1
      <4> HIDE DEF i, l
      <4>4. E[j] + 0 = E[j] /\ 0 + 1 = 1
        BY <3>2
      <4> QED
        BY <4>2, <4>3, <4>4
    <3>8. ASSUME NEW k \in 0..l - 1
          PROVE  At(t, E[j] + c + k) = groups[i][k + 1]
      <4>1. c + k \in 0..c + l - 1 /\ k + 1 \in 1..l /\ (c + k) + 1 = c + (k + 1) /\ E[j] + (c + k) = E[j] + c + k
        BY <3>2
      <4>2. At(t, E[j] + (c + k)) = q[i][(c + k) + 1]
        BY <3>6, <4>1
      <4>3. q[i][c + (k + 1)] = groups[i][k + 1]
        BY <1>3, <2>5, <3>1, <4>1
      <4> HIDE DEF i, l
      <4> QED
        BY <4>1, <4>2, <4>3
    <3> QED
      BY <3>3, <3>5, <3>7, <3>8
  <2>6. GroupsLaid(t, groups, E)
    BY <2>2, <2>3, <2>5 DEF GroupsLaid, n
  <2> QED
    BY <1>2, <2>6
<1> QED
  BY <1>5, <1>6

\* The groups of an address, and the colons between each and the next.
GroupOf(a, i) == IF i <= Len(a.before) THEN a.before[i] ELSE a.after[i - Len(a.before)]
GroupCount(a) == Len(a.before) + Len(a.after)
Colons(a, j) == IF a.comp /\ j = Len(a.before) THEN 2 ELSE IF j = 0 THEN 0 ELSE 1
Trailing(a) == IF a.comp /\ Len(a.after) = 0 THEN 2 ELSE 0

\* The text of an address: where each group ends.
TextLaid(t, a, E) ==
  LET m == GroupCount(a)
  IN /\ E \in [0..m -> Nat] /\ E[0] = 0
     /\ \A j \in 0..m - 1 :
          /\ E[j + 1] = E[j] + Colons(a, j) + Len(GroupOf(a, j + 1))
          /\ Colons(a, j) >= 1 => At(t, E[j]) = Colon
          /\ Colons(a, j) = 2 => At(t, E[j] + 1) = Colon
          /\ \A k \in 0..Len(GroupOf(a, j + 1)) - 1 :
               At(t, E[j] + Colons(a, j) + k) = GroupOf(a, j + 1)[k + 1]
     /\ Trailing(a) = 2 => At(t, E[m]) = Colon /\ At(t, E[m] + 1) = Colon
     /\ At(t, E[m] + Trailing(a)) = 0

\* What Ipv6FormsAssumption says of an address.
IsForm(a) ==
  /\ IsGroups(a.before) /\ IsGroups(a.after) /\ a.comp \in BOOLEAN
  /\ a.comp \/ Len(a.after) = 0

\* Every address of Ipv6Forms is of that form.
LEMMA FormIs ==
  ASSUME NEW a \in Ipv6Forms
  PROVE  IsForm(a)
<1>1. /\ a.before \in Seq(Seq(XDigit)) /\ a.after \in Seq(Seq(XDigit)) /\ a.comp \in BOOLEAN
      /\ \A g \in Range(a.before) \cup Range(a.after) : Len(g) \in 1..4
      /\ a.comp \/ a.after = <<>>
  BY Ipv6FormsAssumption
<1>2. ASSUME NEW q \in Seq(Seq(XDigit)), \A g \in Range(q) : Len(g) \in 1..4
      PROVE  IsGroups(q)
  <2>1. \A i \in 1..Len(q) : q[i] \in Range(q)
    BY LenProperties DEF Range
  <2> QED
    BY <1>2, <2>1 DEF IsGroups
<1>3. a.comp \/ Len(a.after) = 0
  BY <1>1
<1> QED
  BY <1>1, <1>2, <1>3 DEF IsForm

\* The character at a place of two joined texts.
LEMMA AtJoin ==
  ASSUME NEW x \in Seq(Nat), NEW y \in Seq(Nat), NEW i \in Nat
  PROVE  At(x \o y, i) = IF i < Len(x) THEN At(x, i) ELSE At(y, i - Len(x))
<1>1. Len(x) \in Nat /\ Len(y) \in Nat
  BY LenProperties
<1>2. /\ Len(x \o y) = Len(x) + Len(y)
      /\ \A k \in 1..Len(x) + Len(y) : (x \o y)[k] = IF k <= Len(x) THEN x[k] ELSE y[k - Len(x)]
  BY ConcatProperties
<1> DEFINE z == x \o y
<1>3. /\ Len(z) = Len(x) + Len(y)
      /\ \A k \in 1..Len(x) + Len(y) : z[k] = IF k <= Len(x) THEN x[k] ELSE y[k - Len(x)]
  BY <1>2
<1> HIDE DEF z
<1>4. At(z, i) = IF i < Len(x) THEN At(x, i) ELSE At(y, i - Len(x))
  <2>1. CASE i < Len(x)
    BY <1>1, <1>3, <2>1 DEF At
  <2>2. CASE ~(i < Len(x)) /\ i < Len(x) + Len(y)
    <3>1. z[i + 1] = y[(i + 1) - Len(x)] /\ (i + 1) - Len(x) = (i - Len(x)) + 1 /\ i - Len(x) < Len(y)
      BY <1>1, <1>3, <2>2
    <3> QED
      BY <1>3, <2>2, <3>1 DEF At
  <2>3. CASE ~(i < Len(x) + Len(y))
    BY <1>1, <1>3, <2>3 DEF At
  <2> QED
    BY <2>1, <2>2, <2>3
<1> QED
  BY <1>4 DEF z

\* A text that starts with x, behind which are two colons and y, if comp, or its end.
GapBehind(t, x, y, comp) ==
  /\ \A i \in Nat : i < Len(x) => At(t, i) = At(x, i)
  /\ comp => /\ At(t, Len(x)) = Colon /\ At(t, Len(x) + 1) = Colon
             /\ \A i \in Nat : At(t, Len(x) + 2 + i) = At(y, i)
  /\ ~comp => At(t, Len(x)) = 0

\* Ipv6Text joins the texts before and behind a gap in this way.
LEMMA GapBehindIs ==
  ASSUME NEW comp \in BOOLEAN, NEW x \in Seq(Nat), NEW y \in Seq(Nat)
  PROVE  GapBehind(x \o (IF comp THEN <<Colon, Colon>> \o y ELSE <<>>), x, y, comp)
<1> DEFINE t == x \o (IF comp THEN <<Colon, Colon>> \o y ELSE <<>>)
<1>1. Len(x) \in Nat /\ Len(y) \in Nat
  BY LenProperties
<1>2. ASSUME comp PROVE GapBehind(t, x, y, comp)
  <2> DEFINE c == <<Colon, Colon>>
  <2>1. c \in Seq(Nat) /\ Len(c) = 2 /\ c[1] = Colon /\ c[2] = Colon
    BY DEF Colon
  <2>2. At(c, 0) = Colon /\ At(c, 1) = Colon
    BY <2>1 DEF At
  <2> HIDE DEF c
  <2>3. c \o y \in Seq(Nat)
    BY <2>1, ConcatProperties
  <2>4. t = x \o (c \o y)
    BY <1>2, Zenon DEF c
  <2> HIDE DEF t
  <2> DEFINE z == c \o y
  <2>5. \A i \in Nat : At(z, i) = IF i < 2 THEN At(c, i) ELSE At(y, i - 2)
    <3> TAKE i \in Nat
    <3>1. At(c \o y, i) = IF i < Len(c) THEN At(c, i) ELSE At(y, i - Len(c))
      BY <2>1, AtJoin, Zenon
    <3> QED
      BY <2>1, <3>1
  <2>z. z \in Seq(Nat) /\ t = x \o z
    BY <2>3, <2>4
  <2> HIDE DEF z
  <2>6. \A i \in Nat : At(t, i) = IF i < Len(x) THEN At(x, i) ELSE At(z, i - Len(x))
    <3> TAKE i \in Nat
    <3>1. At(x \o z, i) = IF i < Len(x) THEN At(x, i) ELSE At(z, i - Len(x))
      BY <2>z, AtJoin, Zenon
    <3> QED
      BY <2>z, <3>1, Zenon
  <2>7. At(z, 0) = Colon /\ At(z, 1) = Colon /\ \A i \in Nat : At(z, 2 + i) = At(y, i)
    <3>1. At(z, 0) = Colon /\ At(z, 1) = Colon
      BY <2>2, <2>5
    <3>2. ASSUME NEW i \in Nat PROVE At(z, 2 + i) = At(y, i)
      <4>1. 2 + i \in Nat /\ ~(2 + i < 2) /\ (2 + i) - 2 = i
        OBVIOUS
      <4> QED
        BY <2>5, <4>1
    <3> QED
      BY <3>1, <3>2
  <2>8. \A i \in Nat : At(t, Len(x) + i) = At(z, i)
    <3> TAKE i \in Nat
    <3>1. Len(x) + i \in Nat /\ ~(Len(x) + i < Len(x)) /\ (Len(x) + i) - Len(x) = i
      BY <1>1
    <3> QED
      BY <2>6, <3>1
  <2>9. At(t, Len(x)) = Colon /\ At(t, Len(x) + 1) = Colon
    <3>1. At(t, Len(x) + 0) = At(z, 0) /\ Len(x) + 0 = Len(x)
      BY <1>1, <2>8
    <3>2. At(t, Len(x) + 1) = At(z, 1)
      BY <2>8
    <3> QED
      BY <2>7, <3>1, <3>2
  <2>10. ASSUME NEW i \in Nat PROVE At(t, Len(x) + 2 + i) = At(y, i)
    <3>1. 2 + i \in Nat /\ Len(x) + (2 + i) = Len(x) + 2 + i
      BY <1>1
    <3> QED
      BY <2>7, <2>8, <3>1
  <2> QED
    BY <1>2, <2>6, <2>9, <2>10 DEF GapBehind
<1>3. ASSUME ~comp PROVE GapBehind(t, x, y, comp)
  <2>1. t = x \o <<>>
    BY <1>3, Zenon
  <2> HIDE DEF t
  <2>2. t = x
    BY <2>1, ConcatEmptySeq
  <2> QED
    BY <1>1, <1>3, <2>2 DEF At, GapBehind
<1> QED
  BY <1>2, <1>3

\* Ipv6Text lays an address in this way: the end of each group, and the colons behind it.
LEMMA FormIsLaid ==
  ASSUME NEW a, IsForm(a)
  PROVE  \E E : TextLaid(Ipv6Text(a), a, E)
<1> DEFINE x == GroupsText(a.before)
           y == GroupsText(a.after)
           t == Ipv6Text(a)
           nb == Len(a.before)
           na == Len(a.after)
           m == GroupCount(a)
<1>1. PICK P : GroupsLaid(x, a.before, P)
  BY GroupsAreLaid DEF IsForm
<1>2. PICK Q : GroupsLaid(y, a.after, Q)
  BY GroupsAreLaid DEF IsForm
<1>3. nb \in Nat /\ na \in Nat /\ m = nb + na /\ (na > 0 => a.comp) /\ a.comp \in BOOLEAN
  BY GroupIs DEF IsForm, GroupCount
<1>4. /\ x \in Seq(Nat) /\ P \in [0..nb -> Nat] /\ P[0] = 0 /\ Len(x) = P[nb]
      /\ \A j \in 0..nb - 1 :
           /\ P[j + 1] = P[j] + (IF j = 0 THEN 0 ELSE 1) + Len(a.before[j + 1]) /\ P[j + 1] <= Len(x)
           /\ j > 0 => At(x, P[j]) = Colon
           /\ \A k \in 0..Len(a.before[j + 1]) - 1 :
                At(x, P[j] + (IF j = 0 THEN 0 ELSE 1) + k) = a.before[j + 1][k + 1]
  BY <1>1 DEF GroupsLaid
<1>5. /\ y \in Seq(Nat) /\ Q \in [0..na -> Nat] /\ Q[0] = 0 /\ Len(y) = Q[na]
      /\ \A j \in 0..na - 1 :
           /\ Q[j + 1] = Q[j] + (IF j = 0 THEN 0 ELSE 1) + Len(a.after[j + 1]) /\ Q[j + 1] <= Len(y)
           /\ j > 0 => At(y, Q[j]) = Colon
           /\ \A k \in 0..Len(a.after[j + 1]) - 1 :
                At(y, Q[j] + (IF j = 0 THEN 0 ELSE 1) + k) = a.after[j + 1][k + 1]
  BY <1>2 DEF GroupsLaid
<1>6. /\ \A i \in Nat : i < Len(x) => At(t, i) = At(x, i)
      /\ a.comp => /\ At(t, Len(x)) = Colon /\ At(t, Len(x) + 1) = Colon
                   /\ \A i \in Nat : At(t, Len(x) + 2 + i) = At(y, i)
      /\ ~a.comp => At(t, Len(x)) = 0
  <2>1. x \in Seq(Nat) /\ y \in Seq(Nat)
    BY <1>4, <1>5
  <2>2. t = x \o (IF a.comp THEN <<Colon, Colon>> \o y ELSE <<>>)
    BY Zenon DEF Ipv6Text
  <2>3. GapBehind(t, x, y, a.comp)
    BY <1>3, <2>1, <2>2, GapBehindIs, Zenon
  <2> QED
    BY <2>3, Zenon DEF GapBehind
<1>7. /\ \A i \in 1..nb : Len(a.before[i]) \in 1..4
      /\ \A i \in 1..na : Len(a.after[i]) \in 1..4
  BY DEF IsForm, IsGroups
<1>8. Len(x) \in Nat /\ Len(y) \in Nat /\ At(y, Len(y)) = 0
  BY <1>4, <1>5, LenProperties DEF At
<1> HIDE DEF x, y, t, nb, na, m
<1> DEFINE E == [j \in 0..m |-> IF j <= nb THEN P[j] ELSE Len(x) + 2 + Q[j - nb]]
<1>9. E \in [0..m -> Nat] /\ E[0] = 0
  <2>1. ASSUME NEW j \in 0..m PROVE (IF j <= nb THEN P[j] ELSE Len(x) + 2 + Q[j - nb]) \in Nat
    <3>1. CASE j <= nb
      <4>1. j \in 0..nb
        BY <1>3, <3>1
      <4> QED
        BY <1>4, <3>1, <4>1
    <3>2. CASE ~(j <= nb)
      <4>1. j - nb \in 0..na
        BY <1>3, <3>2
      <4>2. Q[j - nb] \in Nat
        BY <1>5, <4>1
      <4> QED
        BY <1>8, <3>2, <4>2
    <3> QED
      BY <3>1, <3>2
  <2>2. 0 \in 0..m /\ 0 <= nb
    BY <1>3
  <2> QED
    BY <1>4, <2>1, <2>2
<1>10. /\ \A j \in 0..m : j <= nb => E[j] = P[j]
       /\ \A j \in 0..m : j > nb => E[j] = Len(x) + 2 + Q[j - nb]
  BY <1>3
<1> HIDE DEF E
<1>11. ASSUME NEW j \in 0..m - 1, NEW c, c = Colons(a, j), NEW g, g = GroupOf(a, j + 1)
       PROVE  /\ E[j + 1] = E[j] + c + Len(g)
              /\ c >= 1 => At(t, E[j]) = Colon
              /\ c = 2 => At(t, E[j] + 1) = Colon
              /\ \A k \in 0..Len(g) - 1 : At(t, E[j] + c + k) = g[k + 1]
  <2>1. j \in 0..m /\ j + 1 \in 0..m
    BY <1>3
  <2>2. CASE j < nb
    <3>1. j \in 0..nb - 1 /\ j + 1 \in 1..nb /\ j + 1 <= nb /\ j <= nb /\ j # nb /\ j \in 0..nb
      BY <1>3, <2>2
    <3>2. g = a.before[j + 1] /\ c = (IF j = 0 THEN 0 ELSE 1)
      BY <1>11, <3>1 DEF GroupOf, Colons, nb
    <3>3. E[j] = P[j] /\ E[j + 1] = P[j + 1] /\ P[j] \in Nat /\ Len(g) \in 1..4
      BY <1>4, <1>7, <1>10, <2>1, <3>1, <3>2
    <3> DEFINE p == P[j]
    <3>4. /\ P[j + 1] = p + c + Len(g) /\ P[j + 1] <= Len(x)
          /\ j > 0 => At(x, p) = Colon
          /\ \A k \in 0..Len(g) - 1 : At(x, p + c + k) = g[k + 1]
      BY <1>4, <3>1, <3>2
    <3> HIDE DEF p
    <3>5. p \in Nat /\ c \in 0..1 /\ (c = 1 => j > 0)
      BY <2>1, <3>2, <3>3 DEF p
    <3>6. p + c + Len(g) <= Len(x)
      BY <3>4
    <3>7. ASSUME NEW k \in 0..Len(g) - 1 PROVE At(t, p + c + k) = g[k + 1]
      <4>1. p + c + k \in Nat /\ p + c + k < Len(x)
        BY <1>8, <3>3, <3>5, <3>6
      <4> QED
        BY <1>6, <3>4, <4>1
    <3>8. c >= 1 => At(t, p) = Colon
      <4>1. c >= 1 => c = 1 /\ j > 0 /\ p < Len(x)
        BY <1>8, <3>3, <3>5, <3>6
      <4> QED
        BY <1>6, <3>4, <3>5, <4>1
    <3>9. c # 2
      BY <3>5
    <3> QED
      BY <3>3, <3>4, <3>7, <3>8, <3>9 DEF p
  <2>3. CASE ~(j < nb)
    <3> DEFINE i == j - nb
    <3>1. i \in 0..na - 1 /\ i + 1 \in 1..na /\ ~(j + 1 <= nb) /\ (j + 1) - nb = i + 1 /\ j >= nb /\ i \in 0..na
      BY <1>3, <2>3
    <3>2. a.comp
      BY <1>3, <3>1
    <3>3. g = a.after[i + 1] /\ c = (IF i = 0 THEN 2 ELSE 1)
      <4>1. g = a.after[i + 1]
        BY <1>11, <3>1 DEF GroupOf, nb
      <4>2. (j = nb <=> i = 0) /\ (i # 0 => j # 0)
        BY <1>3, <2>1, <3>1
      <4>3. c = (IF i = 0 THEN 2 ELSE 1)
        BY <1>11, <3>2, <4>2 DEF Colons, nb
      <4> QED
        BY <4>1, <4>3
    <3>4. E[j + 1] = Len(x) + 2 + Q[i + 1]
      <4>1. j + 1 > nb
        BY <1>3, <2>1, <3>1
      <4>2. E[j + 1] = Len(x) + 2 + Q[(j + 1) - nb]
        BY <1>10, <2>1, <4>1, Zenon
      <4> QED
        BY <3>1, <4>2, Zenon
    <3>5. E[j] = IF i = 0 THEN Len(x) ELSE Len(x) + 2 + Q[i]
      <4>1. CASE i = 0
        <5>1. j = nb
          BY <1>3, <2>1, <4>1
        <5> QED
          BY <1>4, <1>10, <2>1, <4>1, <5>1
      <4>2. CASE i # 0
        <5>1. j > nb
          BY <1>3, <2>1, <3>1, <4>2
        <5> QED
          BY <1>10, <2>1, <4>2, <5>1
      <4> QED
        BY <4>1, <4>2
    <3> HIDE DEF i
    <3> DEFINE p == Q[i]
               d == IF i = 0 THEN 0 ELSE 1
    <3>6. /\ Q[i + 1] = p + d + Len(g) /\ (i > 0 => At(y, p) = Colon)
          /\ \A k \in 0..Len(g) - 1 : At(y, p + d + k) = g[k + 1]
      BY <1>5, <3>1, <3>3
    <3>7. p \in Nat /\ d \in 0..1 /\ Len(g) \in 1..4 /\ (i = 0 => p = 0)
      BY <1>5, <1>7, <3>1, <3>3
    <3>8. E[j] + c = Len(x) + 2 + (p + d) /\ E[j] \in Nat /\ c \in 1..2
      <4>1. CASE i = 0
        BY <1>8, <3>3, <3>5, <3>7, <4>1
      <4>2. CASE i # 0
        <5> HIDE DEF p
        <5>1. E[j] = Len(x) + 2 + p
          BY <3>5, <4>2 DEF p
        <5> QED
          BY <1>8, <3>3, <3>7, <4>2, <5>1
      <4> QED
        BY <4>1, <4>2
    <3>9. At(t, E[j]) = Colon
      <4>1. CASE i = 0
        BY <1>6, <3>2, <3>5, <4>1
      <4>2. CASE i # 0
        <5>1. i > 0
          BY <3>1, <4>2
        <5>2. At(t, Len(x) + 2 + p) = At(y, p)
          BY <1>6, <3>2, <3>7
        <5> QED
          BY <3>5, <3>6, <4>2, <5>1, <5>2
      <4> QED
        BY <4>1, <4>2
    <3>10. c = 2 => At(t, E[j] + 1) = Colon
      BY <1>6, <3>2, <3>3, <3>5
    <3> HIDE DEF p, d
    <3>11. E[j + 1] = E[j] + c + Len(g)
      BY <1>8, <3>4, <3>6, <3>7, <3>8
    <3>12. ASSUME NEW k \in 0..Len(g) - 1 PROVE At(t, E[j] + c + k) = g[k + 1]
      <4>1. E[j] + c + k = Len(x) + 2 + (p + d + k) /\ p + d + k \in Nat
        BY <1>8, <3>7, <3>8
      <4>2. At(t, Len(x) + 2 + (p + d + k)) = At(y, p + d + k)
        BY <1>6, <3>2, <4>1
      <4> QED
        BY <3>6, <4>1, <4>2
    <3> QED
      BY <3>9, <3>10, <3>11, <3>12
  <2> QED
    BY <2>2, <2>3
<1>12. /\ Trailing(a) = 2 => At(t, E[m]) = Colon /\ At(t, E[m] + 1) = Colon
       /\ At(t, E[m] + Trailing(a)) = 0
  <2>1. m \in 0..m
    BY <1>3
  <2>2. CASE na = 0
    <3>1. m = nb /\ m <= nb
      BY <1>3, <2>2
    <3>2. E[m] = Len(x)
      BY <1>4, <1>10, <2>1, <3>1
    <3>3. CASE a.comp
      <4>1. Trailing(a) = 2
        BY <2>2, <3>3 DEF Trailing, na
      <4>2. At(t, Len(x) + 2 + 0) = At(y, 0)
        BY <1>6, <3>3
      <4>3. Len(y) = 0
        BY <1>5, <2>2
      <4>4. Len(x) + 2 + 0 = Len(x) + 2 /\ At(y, 0) = 0
        BY <1>8, <4>3
      <4> QED
        BY <1>6, <3>2, <3>3, <4>1, <4>2, <4>4
    <3>4. CASE ~a.comp
      <4>1. Trailing(a) = 0
        BY <3>4 DEF Trailing, na
      <4>2. Len(x) + 0 = Len(x)
        BY <1>8
      <4> QED
        BY <1>6, <3>2, <3>4, <4>1, <4>2
    <3> QED
      BY <3>3, <3>4
  <2>3. CASE na # 0
    <3>1. a.comp /\ m > nb /\ m - nb = na
      BY <1>3, <2>3
    <3>2. E[m] = Len(x) + 2 + Len(y)
      BY <1>5, <1>10, <2>1, <3>1
    <3>3. Trailing(a) = 0
      BY <2>3 DEF Trailing, na
    <3>4. At(t, Len(x) + 2 + Len(y)) = 0
      BY <1>6, <1>8, <3>1
    <3>5. E[m] + Trailing(a) = Len(x) + 2 + Len(y)
      BY <1>8, <3>2, <3>3
    <3> QED
      BY <3>3, <3>4, <3>5
  <2> QED
    BY <2>2, <2>3
<1>13. TextLaid(t, a, E)
  BY <1>9, <1>11, <1>12 DEF TextLaid, m
<1> QED
  BY <1>13 DEF t

\* The values of groups, and of their digits.
Word16 == {v \in Nat : v < 65536}
LEMMA DigitIs == \A c \in XDigit : HexVal(c) \in 0..15
BY DEF HexVal, XDigit, Digit

\* The number that one to four digits stand for.
DigitSum(n, a, b, c, d) ==
  IF n = 1 THEN a ELSE IF n = 2 THEN 16 * a + b
  ELSE IF n = 3 THEN 256 * a + 16 * b + c ELSE 4096 * a + 256 * b + 16 * c + d

\* One to four digits stand for less than 2^16,
LEMMA SumBound ==
  ASSUME NEW a, NEW b, NEW c, NEW d
  PROVE  /\ a \in 0..15 => DigitSum(1, a, b, c, d) \in Word16
         /\ a \in 0..15 /\ b \in 0..15 => DigitSum(2, a, b, c, d) \in Word16
         /\ a \in 0..15 /\ b \in 0..15 /\ c \in 0..15 => DigitSum(3, a, b, c, d) \in Word16
         /\ a \in 0..15 /\ b \in 0..15 /\ c \in 0..15 /\ d \in 0..15
              => DigitSum(4, a, b, c, d) \in Word16
<1>1. ASSUME a \in 0..15 PROVE DigitSum(1, a, b, c, d) \in Word16
  BY <1>1, SMT DEF DigitSum, Word16
<1>2. ASSUME a \in 0..15, b \in 0..15 PROVE DigitSum(2, a, b, c, d) \in Word16
  BY <1>2, SMT DEF DigitSum, Word16
<1>3. ASSUME a \in 0..15, b \in 0..15, c \in 0..15 PROVE DigitSum(3, a, b, c, d) \in Word16
  BY <1>3, SMT DEF DigitSum, Word16
<1>4. ASSUME a \in 0..15, b \in 0..15, c \in 0..15, d \in 0..15
      PROVE  DigitSum(4, a, b, c, d) \in Word16
  <2> DEFINE x == 256 * b + 16 * c + d
  <2>1. x \in Nat /\ x < 4096
    BY <1>4, SMT
  <2> HIDE DEF x
  <2>2. 4096 * a + x \in Word16
    BY <1>4, <2>1, SMT DEF Word16
  <2>3. DigitSum(4, a, b, c, d) = 4096 * a + x
    BY <1>4, SMT DEF DigitSum, x
  <2> QED
    BY <2>2, <2>3, SMT
<1> QED
  BY <1>1, <1>2, <1>3, <1>4, Zenon

\* and HexNumber is what they stand for.
LEMMA NumberIs ==
  ASSUME NEW g, Len(g) \in 1..4, g \in [1..Len(g) -> XDigit]
  PROVE  /\ HexNumber(g) \in Word16
         /\ HexNumber(g) = DigitSum(Len(g), HexVal(g[1]), HexVal(g[2]), HexVal(g[3]), HexVal(g[4]))
<1> DEFINE n == Len(g)
           v(k) == HexVal(g[k])
           weight(k) == CASE k = 0 -> 1 [] k = 1 -> 16 [] k = 2 -> 256 [] k = 3 -> 4096
           part(k) == IF k > n THEN 0 ELSE v(k) * weight(n - k)
<1>1. \A k \in 1..n : v(k) \in 0..15
  BY DigitIs
<1>2. HexNumber(g) = part(1) + part(2) + part(3) + part(4)
  BY SMT DEF HexNumber
<1>3. weight(0) = 1 /\ weight(1) = 16 /\ weight(2) = 256 /\ weight(3) = 4096
  BY SMT
<1>4. n = 1 \/ n = 2 \/ n = 3 \/ n = 4
  OBVIOUS
<1> HIDE DEF n, v, weight
<1>5. HexNumber(g) = DigitSum(n, v(1), v(2), v(3), v(4)) /\ HexNumber(g) \in Word16
  <2> DEFINE a == v(1)
             b == v(2)
             c == v(3)
             d == v(4)
  <2>1. CASE n = 1
    <3>1. a \in 0..15
      BY <1>1, <2>1
    <3>2. part(1) = a * weight(0) /\ part(2) = 0 /\ part(3) = 0 /\ part(4) = 0
      BY <2>1
    <3> HIDE DEF part, a, b, c, d
    <3>3. part(1) = a /\ part(2) = 0 /\ part(3) = 0 /\ part(4) = 0
      BY <1>3, <3>1, <3>2, SMT
    <3>4. HexNumber(g) = a
      BY <1>2, <3>1, <3>3, SMT
    <3>5. DigitSum(n, a, b, c, d) = a
      BY <2>1, SMT DEF DigitSum
    <3>6. DigitSum(n, a, b, c, d) \in Word16
      BY <2>1, <3>1, SumBound, Zenon
    <3>7. HexNumber(g) = DigitSum(n, a, b, c, d) /\ HexNumber(g) \in Word16
      BY <3>4, <3>5, <3>6, SMT
    <3> QED
      BY <3>7, Zenon DEF a, b, c, d
  <2>2. CASE n = 2
    <3>1. a \in 0..15 /\ b \in 0..15
      BY <1>1, <2>2
    <3>2. part(1) = a * weight(1) /\ part(2) = b * weight(0) /\ part(3) = 0 /\ part(4) = 0
      BY <2>2
    <3> HIDE DEF part, a, b, c, d
    <3>3. part(1) = 16 * a /\ part(2) = b /\ part(3) = 0 /\ part(4) = 0
      BY <1>3, <3>1, <3>2, SMT
    <3>4. HexNumber(g) = 16 * a + b
      BY <1>2, <3>1, <3>3, SMT
    <3>5. DigitSum(n, a, b, c, d) = 16 * a + b
      BY <2>2, SMT DEF DigitSum
    <3>6. DigitSum(n, a, b, c, d) \in Word16
      BY <2>2, <3>1, SumBound, Zenon
    <3>7. HexNumber(g) = DigitSum(n, a, b, c, d) /\ HexNumber(g) \in Word16
      BY <3>4, <3>5, <3>6, SMT
    <3> QED
      BY <3>7, Zenon DEF a, b, c, d
  <2>3. CASE n = 3
    <3>1. a \in 0..15 /\ b \in 0..15 /\ c \in 0..15
      BY <1>1, <2>3
    <3>2. part(1) = a * weight(2) /\ part(2) = b * weight(1) /\ part(3) = c * weight(0) /\ part(4) = 0
      BY <2>3
    <3> HIDE DEF part, a, b, c, d
    <3>3. part(1) = 256 * a /\ part(2) = 16 * b /\ part(3) = c /\ part(4) = 0
      BY <1>3, <3>1, <3>2, SMT
    <3>4. HexNumber(g) = 256 * a + 16 * b + c
      BY <1>2, <3>1, <3>3, SMT
    <3>5. DigitSum(n, a, b, c, d) = 256 * a + 16 * b + c
      BY <2>3, SMT DEF DigitSum
    <3>6. DigitSum(n, a, b, c, d) \in Word16
      BY <2>3, <3>1, SumBound, Zenon
    <3>7. HexNumber(g) = DigitSum(n, a, b, c, d) /\ HexNumber(g) \in Word16
      BY <3>4, <3>5, <3>6, SMT
    <3> QED
      BY <3>7, Zenon DEF a, b, c, d
  <2>4. CASE n = 4
    <3>1. a \in 0..15 /\ b \in 0..15 /\ c \in 0..15 /\ d \in 0..15
      BY <1>1, <2>4
    <3>2. part(1) = a * weight(3) /\ part(2) = b * weight(2) /\ part(3) = c * weight(1) /\ part(4) = d * weight(0)
      BY <2>4
    <3> HIDE DEF part, a, b, c, d
    <3>3. part(1) = 4096 * a /\ part(2) = 256 * b /\ part(3) = 16 * c /\ part(4) = d
      BY <1>3, <3>1, <3>2, SMT
    <3>4. HexNumber(g) = 4096 * a + 256 * b + 16 * c + d
      BY <1>2, <3>1, <3>3, SMT
    <3>5. DigitSum(n, a, b, c, d) = 4096 * a + 256 * b + 16 * c + d
      BY <2>4, SMT DEF DigitSum
    <3>6. DigitSum(n, a, b, c, d) \in Word16
      BY <2>4, <3>1, SumBound, Zenon
    <3>7. HexNumber(g) = DigitSum(n, a, b, c, d) /\ HexNumber(g) \in Word16
      BY <3>4, <3>5, <3>6, SMT
    <3> QED
      BY <3>7, Zenon DEF a, b, c, d
  <2> QED
    BY <1>4, <2>1, <2>2, <2>3, <2>4, Zenon
<1> QED
  BY <1>5, Zenon DEF v, n

\* A group at its place in a text, with something else behind it.
GroupAt(t, p, g) ==
  /\ Len(g) \in 1..4 /\ g \in [1..Len(g) -> XDigit]
  /\ \A k \in 0..Len(g) - 1 : At(t, p + k) = g[k + 1]
  /\ At(t, p + Len(g)) \notin XDigit /\ At(t, p + Len(g)) # Dot

\* Ipv6Group reads the group and goes to its end.
LEMMA GroupIsRead ==
  ASSUME NEW t, NEW s, s.pos \in Nat, NEW g, GroupAt(t, s.pos, g)
  PROVE  Ipv6Group(t, s) = [s EXCEPT !.pos = @ + Len(g), !.bin = @ \o GroupBytes(HexNumber(g))]
<1> DEFINE p == s.pos
           m == Len(g)
           P(k) == k = 4 \/ At(t, p + k) \notin XDigit
           n == CHOOSE k \in 0..4 : P(k) /\ \A h \in 0..k - 1 : ~P(h)
<1>1. /\ m \in 1..4 /\ g \in [1..m -> XDigit]
      /\ \A k \in 0..m - 1 : At(t, p + k) = g[k + 1]
      /\ At(t, p + m) \notin XDigit /\ At(t, p + m) # Dot
  BY DEF GroupAt
<1> HIDE DEF p
<1>2. \A k \in 0..m - 1 : At(t, p + k) \in XDigit
  <2> HIDE DEF m
  <2> TAKE k \in 0..m - 1
  <2>1. k + 1 \in 1..m
    BY <1>1
  <2> QED
    BY <1>1, <2>1
<1> HIDE DEF m
<1>3. P(m) /\ \A h \in 0..m - 1 : ~P(h)
  <2>1. \A h \in 0..m - 1 : h # 4
    BY <1>1
  <2> QED
    BY <1>1, <1>2, <2>1
<1>4. ASSUME NEW k \in 0..4, P(k), \A h \in 0..k - 1 : ~P(h)
      PROVE  k = m
  <2>1. ~(k < m)
    <3>1. k < m => k \in 0..m - 1
      BY <1>1
    <3> QED
      BY <1>3, <1>4, <3>1
  <2>2. ~(m < k)
    <3>1. m < k => m \in 0..k - 1
      BY <1>1
    <3> QED
      BY <1>3, <1>4, <3>1
  <2> QED
    BY <1>1, <2>1, <2>2
<1>5. n = m
  <2>1. m \in 0..4
    BY <1>1
  <2> HIDE DEF P
  <2> QED
    BY <1>3, <1>4, <2>1
<1> HIDE DEF n
<1>6. FirstAt(0, 4, LAMBDA k : k = 4 \/ At(t, s.pos + k) \notin XDigit) = n
  BY Zenon DEF FirstAt, n, p
<1>7. HexAt(t, p, m) = HexNumber(g)
  <2>1. HexNumber(g) = DigitSum(m, HexVal(g[1]), HexVal(g[2]), HexVal(g[3]), HexVal(g[4]))
    BY <1>1, NumberIs, Zenon DEF m
  <2>2. m = 1 \/ m = 2 \/ m = 3 \/ m = 4
    BY <1>1
  <2>3. ASSUME NEW k \in 0..3, k < m
        PROVE  At(t, p + k) = g[k + 1]
    <3>1. k \in 0..m - 1
      BY <1>1, <2>3
    <3> QED
      BY <1>1, <3>1, Zenon
  <2>4. /\ 0 < m => At(t, p + 0) = g[1]
        /\ 1 < m => At(t, p + 1) = g[2]
        /\ 2 < m => At(t, p + 2) = g[3]
        /\ 3 < m => At(t, p + 3) = g[4]
    <3>1. /\ 0 < m => At(t, p + 0) = g[0 + 1]
          /\ 1 < m => At(t, p + 1) = g[1 + 1]
          /\ 2 < m => At(t, p + 2) = g[2 + 1]
          /\ 3 < m => At(t, p + 3) = g[3 + 1]
      <4>1. 0 \in 0..3 /\ 1 \in 0..3 /\ 2 \in 0..3 /\ 3 \in 0..3
        OBVIOUS
      <4> QED
        BY <2>3, <4>1, Zenon
    <3>2. 0 + 1 = 1 /\ 1 + 1 = 2 /\ 2 + 1 = 3 /\ 3 + 1 = 4
      OBVIOUS
    <3> QED
      BY <3>1, <3>2, Zenon
  <2>5. CASE m = 1
    <3>1. At(t, p + 0) = g[1]
      BY <2>4, <2>5
    <3> QED
      BY <2>1, <2>5, <3>1, SMT DEF HexAt, DigitSum
  <2>6. CASE m = 2
    <3>1. At(t, p + 0) = g[1] /\ At(t, p + 1) = g[2]
      BY <2>4, <2>6
    <3> QED
      BY <2>1, <2>6, <3>1, SMT DEF HexAt, DigitSum
  <2>7. CASE m = 3
    <3>1. At(t, p + 0) = g[1] /\ At(t, p + 1) = g[2] /\ At(t, p + 2) = g[3]
      BY <2>4, <2>7
    <3> QED
      BY <2>1, <2>7, <3>1, SMT DEF HexAt, DigitSum
  <2>8. CASE m = 4
    <3>1. At(t, p + 0) = g[1] /\ At(t, p + 1) = g[2] /\ At(t, p + 2) = g[3] /\ At(t, p + 3) = g[4]
      BY <2>4, <2>8
    <3> QED
      BY <2>1, <2>8, <3>1, SMT DEF HexAt, DigitSum
  <2> QED
    BY <2>2, <2>5, <2>6, <2>7, <2>8
<1>8. n # 0 /\ ~(n < 4 /\ At(t, p + n) = Dot)
  BY <1>1, <1>5
<1>9. Ipv6Group(t, s) = [s EXCEPT !.pos = @ + n, !.bin = @ \o GroupBytes(HexAt(t, p, n))]
  BY <1>6, <1>8, Zenon DEF Ipv6Group, p
<1> QED
  BY <1>5, <1>7, <1>9 DEF m, p

\* The bytes the parser makes of the first j groups.
Value(a, i) == HexNumber(GroupOf(a, i))
BinOf(a, j) ==
  [k \in 1..2 * j |-> IF k % 2 = 1 THEN (Value(a, (k + 1) \div 2) \div 16) % 256
                                   ELSE Value(a, (k + 1) \div 2) % 256]

\* How many groups there are.
LEMMA FormCounts ==
  ASSUME NEW a, IsForm(a)
  PROVE  Len(a.before) \in Nat /\ Len(a.after) \in Nat /\ GroupCount(a) \in Nat
<1>1. Len(a.before) \in Nat /\ Len(a.after) \in Nat
  BY GroupIs DEF IsForm
<1> DEFINE nb == Len(a.before)
           na == Len(a.after)
<1>2. GroupCount(a) = nb + na
  BY Zenon DEF GroupCount
<1> HIDE DEF nb, na
<1>3. nb \in Nat /\ na \in Nat
  BY <1>1 DEF nb, na
<1>4. GroupCount(a) \in Nat
  BY <1>2, <1>3
<1> QED
  BY <1>1, <1>4

\* The two bytes of a group.
LEMMA GroupBytesAre ==
  \A v \in Word16 : (v \div 16) % 256 \in 0..255 /\ v % 256 \in 0..255 /\ v \div 256 \in 0..255
<1> TAKE v \in Word16
<1>1. v \in Nat /\ v < 65536
  BY SMT DEF Word16
<1>2. v % 256 \in 0..255
  BY <1>1, SMT
<1>3. v \div 256 \in 0..255
  BY <1>1, SMT
<1> DEFINE w == v \div 16
<1>4. w \in Nat
  BY <1>1, SMT
<1> HIDE DEF w
<1>5. w % 256 \in 0..255
  BY <1>4, SMT
<1> QED
  BY <1>2, <1>3, <1>5, Zenon DEF w

\* Each group has its value.
LEMMA ValueIs ==
  ASSUME NEW a, IsForm(a), NEW i \in 1..GroupCount(a)
  PROVE  /\ Value(a, i) \in Word16
         /\ Len(GroupOf(a, i)) \in 1..4 /\ GroupOf(a, i) \in [1..Len(GroupOf(a, i)) -> XDigit]
<1> DEFINE nb == Len(a.before)
           na == Len(a.after)
           g == GroupOf(a, i)
<1>1. nb \in Nat /\ na \in Nat /\ GroupCount(a) = nb + na
  BY FormCounts, Zenon DEF GroupCount
<1>2. /\ \A k \in 1..nb : Len(a.before[k]) \in 1..4 /\ a.before[k] \in [1..Len(a.before[k]) -> XDigit]
      /\ \A k \in 1..na : Len(a.after[k]) \in 1..4 /\ a.after[k] \in [1..Len(a.after[k]) -> XDigit]
  BY GroupIs DEF IsForm, IsGroups
<1>3. Len(g) \in 1..4 /\ g \in [1..Len(g) -> XDigit]
  <2> HIDE DEF nb, na
  <2>1. CASE i <= nb
    <3>1. i \in 1..nb
      BY <1>1, <2>1
    <3> QED
      BY <1>2, <2>1, <3>1, Zenon DEF GroupOf, nb
  <2>2. CASE ~(i <= nb)
    <3>1. i - nb \in 1..na
      BY <1>1, <2>2
    <3> QED
      BY <1>2, <2>2, <3>1, Zenon DEF GroupOf, nb
  <2> QED
    BY <2>1, <2>2
<1> HIDE DEF g
<1>4. HexNumber(g) \in Word16
  BY <1>3, NumberIs
<1> QED
  BY <1>3, <1>4, Zenon DEF Value, g

\* The next group adds its two bytes.
LEMMA BinIs ==
  ASSUME NEW a, IsForm(a), NEW j \in 0..GroupCount(a)
  PROVE  /\ BinOf(a, j) \in Seq(0..255) /\ Len(BinOf(a, j)) = 2 * j
         /\ j < GroupCount(a) => BinOf(a, j) \o GroupBytes(Value(a, j + 1)) = BinOf(a, j + 1)
<1>0. GroupCount(a) \in Nat
  BY FormCounts
<1>1. ASSUME NEW i \in 0..GroupCount(a)
      PROVE  BinOf(a, i) \in Seq(0..255) /\ Len(BinOf(a, i)) = 2 * i /\ BinOf(a, i) \in [1..2 * i -> 0..255]
  <2>1. \A k \in 1..2 * i : (k + 1) \div 2 \in 1..GroupCount(a)
    BY <1>0
  <2>2. \A k \in 1..2 * i : Value(a, (k + 1) \div 2) \in Word16
    BY <2>1, ValueIs, Zenon
  <2>3. \A k \in 1..2 * i : /\ (Value(a, (k + 1) \div 2) \div 16) % 256 \in 0..255
                            /\ Value(a, (k + 1) \div 2) % 256 \in 0..255
    BY <2>2, GroupBytesAre, Zenon
  <2>4. BinOf(a, i) \in [1..2 * i -> 0..255]
    BY <2>3 DEF BinOf
  <2> DEFINE n == 2 * i
  <2>5. n \in Nat
    BY <1>0
  <2> HIDE DEF n
  <2>6. \A w \in [1..n -> 0..255] : w \in Seq(0..255) /\ Len(w) = n
    BY <2>5, FunSeq, Zenon
  <2> QED
    BY <2>4, <2>6, Zenon DEF n
<1>2. ASSUME j < GroupCount(a)
      PROVE  BinOf(a, j) \o GroupBytes(Value(a, j + 1)) = BinOf(a, j + 1)
  <2> DEFINE x == BinOf(a, j)
             z == BinOf(a, j + 1)
             v == Value(a, j + 1)
             y == GroupBytes(v)
  <2>1. j + 1 \in 0..GroupCount(a) /\ j + 1 \in 1..GroupCount(a) /\ j \in Nat
    BY <1>0, <1>2
  <2>2. x \in Seq(0..255) /\ Len(x) = 2 * j /\ z \in Seq(0..255) /\ Len(z) = 2 * (j + 1)
    BY <1>1, <2>1
  <2>3. v \in Word16
    BY <2>1, ValueIs, Zenon
  <2>4. y = <<(v \div 16) % 256, v % 256>>
    BY Zenon DEF GroupBytes
  <2>5. \A k \in 1..2 * j : z[k] = x[k]
    <3> TAKE k \in 1..2 * j
    <3>1. k \in 1..2 * (j + 1)
      BY <2>1
    <3> QED
      BY <3>1, Zenon DEF BinOf
  <2>6. z[2 * j + 1] = (v \div 16) % 256 /\ z[2 * j + 2] = v % 256
    <3>1. /\ 2 * j + 1 \in 1..2 * (j + 1) /\ (2 * j + 1) % 2 = 1 /\ ((2 * j + 1) + 1) \div 2 = j + 1
          /\ 2 * j + 2 \in 1..2 * (j + 1) /\ (2 * j + 2) % 2 # 1 /\ ((2 * j + 2) + 1) \div 2 = j + 1
      BY <2>1
    <3> QED
      BY <3>1, Zenon DEF BinOf
  <2> HIDE DEF x, z, v
  <2>7. (v \div 16) % 256 \in 0..255 /\ v % 256 \in 0..255
    BY <2>3, GroupBytesAre, Zenon
  <2>8. y \in Seq(0..255) /\ Len(y) = 2 /\ y[1] = (v \div 16) % 256 /\ y[2] = v % 256
    BY <2>4, <2>7
  <2> HIDE DEF y
  <2> DEFINE w == x \o y
  <2>9. /\ w \in Seq(0..255) /\ Len(w) = 2 * j + 2
        /\ \A k \in 1..2 * j + 2 : w[k] = IF k <= 2 * j THEN x[k] ELSE y[k - 2 * j]
    <3>1. /\ x \o y \in Seq(0..255) /\ Len(x \o y) = Len(x) + Len(y)
          /\ \A k \in 1..Len(x) + Len(y) : (x \o y)[k] = IF k <= Len(x) THEN x[k] ELSE y[k - Len(x)]
      <4>1. x \in Seq(0..255) /\ y \in Seq(0..255)
        BY <2>2, <2>8
      <4> QED
        BY <4>1, ConcatProperties, ZenonT(40)
    <3>2. Len(x) + Len(y) = 2 * j + 2
      BY <2>1, <2>2, <2>8
    <3> QED
      BY <2>2, <3>1, <3>2, Zenon
  <2> HIDE DEF w
  <2>10. Len(w) = Len(z) /\ \A k \in 1..Len(w) : w[k] = z[k]
    <3>1. Len(w) = Len(z)
      BY <2>1, <2>2, <2>9
    <3>2. ASSUME NEW k \in 1..2 * j + 2 PROVE w[k] = z[k]
      <4>1. CASE k <= 2 * j
        BY <2>1, <2>5, <2>9, <4>1
      <4>2. CASE k = 2 * j + 1
        <5>1. ~(k <= 2 * j) /\ k - 2 * j = 1
          BY <2>1, <4>2
        <5> QED
          BY <2>6, <2>8, <2>9, <4>2, <5>1
      <4>3. CASE k = 2 * j + 2
        <5>1. ~(k <= 2 * j) /\ k - 2 * j = 2
          BY <2>1, <4>3
        <5> QED
          BY <2>6, <2>8, <2>9, <4>3, <5>1
      <4> QED
        BY <2>1, <4>1, <4>2, <4>3
    <3> QED
      BY <2>9, <3>1, <3>2
  <2>11. w = z
    BY <2>2, <2>9, <2>10, SeqEqual
  <2> QED
    BY <2>11, Zenon DEF w, x, y, z, v
<1> QED
  BY <1>1, <1>2

\* The value of a flag; Zenon takes a name for it, but not FALSE.
No == FALSE

\* Fields of the state of the parser that are replaced.
Parser(pos, bin, comp, mapped, st) ==
  [pos |-> pos, bin |-> bin, comp |-> comp, mapped |-> mapped, st |-> st]
WithPos(s, p) == [s EXCEPT !.pos = p]
WithPosBin(s, p, x) == [s EXCEPT !.pos = p, !.bin = x]
WithPosCompSt(s, p, c, x) == [s EXCEPT !.pos = p, !.comp = c, !.st = x]
WithSt(s, x) == [s EXCEPT !.st = x]

\* EXCEPT on the state of the parser, field by field: the position,
LEMMA NewPos ==
  ASSUME NEW pos, NEW bin, NEW comp, NEW mapped, NEW st, NEW p
  PROVE  WithPos(Parser(pos, bin, comp, mapped, st), p) = Parser(p, bin, comp, mapped, st)
<1> DEFINE s == Parser(pos, bin, comp, mapped, st)
<1>1. s = Parser(pos, bin, comp, mapped, st)
  OBVIOUS
<1> HIDE DEF s
<1>2. WithPos(s, p) = Parser(p, bin, comp, mapped, st)
  BY <1>1 DEF Parser, WithPos
<1> QED
  BY <1>1, <1>2, Zenon

\* how the parse stands,
LEMMA NewSt ==
  ASSUME NEW pos, NEW bin, NEW comp, NEW mapped, NEW st, NEW x
  PROVE  WithSt(Parser(pos, bin, comp, mapped, st), x) = Parser(pos, bin, comp, mapped, x)
<1> DEFINE s == Parser(pos, bin, comp, mapped, st)
<1>1. s = Parser(pos, bin, comp, mapped, st)
  OBVIOUS
<1> HIDE DEF s
<1>2. WithSt(s, x) = Parser(pos, bin, comp, mapped, x)
  BY <1>1 DEF Parser, WithSt
<1> QED
  BY <1>1, <1>2, Zenon

\* the position and the bytes,
LEMMA NewPosBin ==
  ASSUME NEW pos, NEW bin, NEW comp, NEW mapped, NEW st, NEW p, NEW x
  PROVE  WithPosBin(Parser(pos, bin, comp, mapped, st), p, x) = Parser(p, x, comp, mapped, st)
<1> DEFINE s == Parser(pos, bin, comp, mapped, st)
           u == [s EXCEPT !.pos = p]
<1>1. s = Parser(pos, bin, comp, mapped, st)
  OBVIOUS
<1> HIDE DEF s
<1>2. WithPosBin(s, p, x) = [u EXCEPT !.bin = x]
  BY DEF WithPosBin
<1>3. u = Parser(p, bin, comp, mapped, st)
  BY <1>1 DEF Parser
<1> HIDE DEF u
<1>4. [u EXCEPT !.bin = x] = Parser(p, x, comp, mapped, st)
  BY <1>3 DEF Parser
<1>5. WithPosBin(s, p, x) = Parser(p, x, comp, mapped, st)
  BY <1>2, <1>4, Zenon
<1> QED
  BY <1>1, <1>5, Zenon

\* and the position, the gap and how the parse stands.
LEMMA NewPosCompSt ==
  ASSUME NEW pos, NEW bin, NEW comp, NEW mapped, NEW st, NEW p, NEW c, NEW x
  PROVE  WithPosCompSt(Parser(pos, bin, comp, mapped, st), p, c, x) = Parser(p, bin, c, mapped, x)
<1> DEFINE s == Parser(pos, bin, comp, mapped, st)
           u == [s EXCEPT !.pos = p]
           w == [u EXCEPT !.comp = c]
<1>1. s = Parser(pos, bin, comp, mapped, st)
  OBVIOUS
<1> HIDE DEF s
<1>2. WithPosCompSt(s, p, c, x) = [w EXCEPT !.st = x]
  BY DEF WithPosCompSt
<1>3. u = Parser(p, bin, comp, mapped, st)
  BY <1>1 DEF Parser
<1> HIDE DEF u
<1>4. w = Parser(p, bin, c, mapped, st)
  BY <1>3 DEF Parser
<1> HIDE DEF w
<1>5. [w EXCEPT !.st = x] = Parser(p, bin, c, mapped, x)
  BY <1>4 DEF Parser
<1>6. WithPosCompSt(s, p, c, x) = Parser(p, bin, c, mapped, x)
  BY <1>2, <1>5, Zenon
<1> QED
  BY <1>1, <1>6, Zenon

\* What is at the end of a group, and of the colons behind it.
LEMMA TextAt ==
  ASSUME NEW a, IsForm(a), NEW t, NEW E, TextLaid(t, a, E), NEW j \in 0..GroupCount(a) - 1
  PROVE  /\ E[j] \in Nat /\ Colons(a, j) \in 0..2
         /\ E[j + 1] = E[j] + Colons(a, j) + Len(GroupOf(a, j + 1))
         /\ GroupAt(t, E[j] + Colons(a, j), GroupOf(a, j + 1))
         /\ At(t, E[j] + Colons(a, j)) \in XDigit
         /\ Colons(a, j) >= 1 => At(t, E[j]) = Colon
         /\ Colons(a, j) = 2 => At(t, E[j] + 1) = Colon
<1> DEFINE m == GroupCount(a)
           c == Colons(a, j)
           g == GroupOf(a, j + 1)
<1>1. m \in Nat /\ j + 1 \in 1..m /\ j \in 0..m /\ j + 1 \in 0..m
  <2>1. m \in Nat
    BY FormCounts
  <2> HIDE DEF m
  <2>2. j \in 0..m - 1
    BY DEF m
  <2> QED
    BY <2>1, <2>2
<1>2. Len(g) \in 1..4 /\ g \in [1..Len(g) -> XDigit]
  BY <1>1, ValueIs, Zenon
<1>3. /\ E \in [0..m -> Nat]
      /\ E[j + 1] = E[j] + c + Len(g)
      /\ c >= 1 => At(t, E[j]) = Colon
      /\ c = 2 => At(t, E[j] + 1) = Colon
      /\ \A k \in 0..Len(g) - 1 : At(t, E[j] + c + k) = g[k + 1]
  BY Zenon DEF TextLaid
<1>4. c \in 0..2
  BY DEF Colons
<1>5. E[j] \in Nat
  BY <1>1, <1>3, Zenon
<1>6. At(t, E[j + 1]) \in {0, Colon}
  <2>1. CASE j + 1 = m
    <3>1. /\ Trailing(a) = 2 => At(t, E[m]) = Colon
          /\ At(t, E[m] + Trailing(a)) = 0
      BY Zenon DEF TextLaid
    <3>2. Trailing(a) = 2 \/ Trailing(a) = 0
      BY DEF Trailing
    <3>3. E[m] \in Nat
      BY <1>1, <1>3, Zenon, <2>1
    <3>4. E[m] + 0 = E[m]
      BY <3>3
    <3> QED
      BY <2>1, <3>1, <3>2, <3>4, Zenon
  <2>2. CASE j + 1 # m
    <3> HIDE DEF m
    <3>1. j + 1 \in 0..m - 1
      BY <1>1, <2>2
    <3>2. Colons(a, j + 1) >= 1 => At(t, E[j + 1]) = Colon
      BY <3>1, Zenon DEF TextLaid, m
    <3>3. Colons(a, j + 1) >= 1
      BY <1>1 DEF Colons
    <3> QED
      BY <3>2, <3>3, Zenon
  <2> QED
    BY <2>1, <2>2
<1>7. At(t, E[j + 1]) \notin XDigit /\ At(t, E[j + 1]) # Dot
  BY <1>6 DEF XDigit, Digit, Colon, Dot
<1> HIDE DEF m, c, g
<1>8. At(t, E[j] + c) \in XDigit
  <2>1. 0 \in 0..Len(g) - 1 /\ E[j] + c + 0 = E[j] + c /\ 0 + 1 \in 1..Len(g)
    BY <1>2, <1>4, <1>5
  <2>2. At(t, E[j] + c) = g[0 + 1]
    BY <1>3, <2>1, Zenon
  <2> QED
    BY <1>2, <2>1, <2>2, Zenon
<1>9. GroupAt(t, E[j] + c, g)
  BY <1>2, <1>3, <1>7, Zenon DEF GroupAt
<1> QED
  BY <1>3, <1>4, <1>5, <1>8, <1>9, Zenon DEF c, g

\* Where the parser is after j groups, and behind the colons that follow them.
CompOf(a, j) == IF a.comp /\ j > Len(a.before) THEN 2 * Len(a.before) ELSE -1
State(a, E, j) ==
  Parser(E[j], BinOf(a, j), CompOf(a, j), No, "loop")
Between(a, E, j) ==
  Parser(E[j] + Colons(a, j), BinOf(a, j), CompOf(a, j + 1), No, "loop")

\* There is room for another group.
Room(a, j) == 2 * j + (IF CompOf(a, j) > -1 THEN 2 ELSE 0) < 16

\* Behind j groups the parser takes the colons that follow, and opens the gap there.
LEMMA ColonsAreRead ==
  ASSUME NEW a, IsForm(a), NEW t, NEW E, TextLaid(t, a, E), NEW j \in 0..GroupCount(a) - 1, Room(a, j)
  PROVE  Ipv6Colons(t, State(a, E, j), IF At(t, E[j]) = Colon THEN E[j] + 1 ELSE E[j])
           = Between(a, E, j)
<1> DEFINE s == State(a, E, j)
           e == E[j]
           c == Colons(a, j)
           b == BinOf(a, j)
           nb == Len(a.before)
           p == IF At(t, e) = Colon THEN e + 1 ELSE e
           full == At(t, s.pos) = 0 \/ Len(s.bin) + (IF s.comp > -1 THEN 2 ELSE 0) >= 16
<1>1. /\ e \in Nat /\ c \in 0..2
      /\ At(t, e + c) \in XDigit
      /\ c >= 1 => At(t, e) = Colon
      /\ c = 2 => At(t, e + 1) = Colon
  BY TextAt
<1>2. nb \in Nat /\ j \in Nat
  BY FormCounts
<1>3. Len(b) = 2 * j
  <2>1. GroupCount(a) \in Nat
    BY FormCounts
  <2>2. j \in 0..GroupCount(a)
    BY <2>1
  <2> QED
    BY <2>2, BinIs, Zenon
<1>4. s = Parser(e, b, CompOf(a, j), No, "loop")
  BY Zenon DEF State
<1> HIDE DEF s, b, e
<1>5. s.pos = e /\ s.bin = b /\ s.comp = CompOf(a, j) /\ s.st = "loop"
  BY <1>4 DEF Parser
<1>6. Len(s.bin) + (IF s.comp > -1 THEN 2 ELSE 0) < 16
  BY <1>3, <1>5, Zenon DEF Room
<1>7. \A x \in XDigit : x # Colon /\ x # 0
  BY DEF XDigit, Digit, Colon
<1>8. /\ c = 0 => ~(a.comp /\ j = nb)
      /\ c = 1 => ~(a.comp /\ j = nb)
      /\ c = 2 => a.comp /\ j = nb
  BY DEF Colons
<1>9. /\ c = 2 => CompOf(a, j) = -1 /\ CompOf(a, j + 1) = 2 * j
      /\ c # 2 => CompOf(a, j + 1) = CompOf(a, j)
  <2> HIDE DEF c
  <2>1. c # 2 => ~(a.comp /\ j = nb)
    BY <1>1, <1>8
  <2>2. /\ j = nb => ~(j > nb) /\ j + 1 > nb
        /\ j # nb => ((j > nb) <=> (j + 1 > nb))
    BY <1>2
  <2> HIDE DEF nb
  <2> QED
    BY <1>8, <2>1, <2>2, Zenon DEF CompOf, nb
<1> HIDE DEF c
<1>10. At(t, e) # 0
  <2>1. CASE c = 0
    <3>1. e + c = e
      BY <1>1, <2>1
    <3> QED
      BY <1>1, <1>7, <3>1, Zenon
  <2>2. CASE c # 0
    <3>1. c >= 1
      BY <1>1, <2>2
    <3> QED
      BY <1>1, <3>1 DEF Colon
  <2> QED
    BY <2>1, <2>2
<1>11. ~full
  <2> DEFINE x == Len(s.bin) + (IF s.comp > -1 THEN 2 ELSE 0)
  <2>2. x \in Int
    BY <1>2, <1>3, <1>5
  <2> HIDE DEF x
  <2>3. x < 16 => ~(x >= 16)
    BY <2>2
  <2>1. ~(x >= 16)
    BY <1>6, <2>3, Zenon DEF x
  <2> USE DEF x
  <2> QED
    BY <1>5, <1>10, <2>1, Zenon
<1>12. CASE c # 2
  <2>1. p = e + c
    <3>1. CASE c = 0
      <4>1. e + c = e
        BY <1>1, <3>1
      <4> QED
        BY <1>1, <1>7, <4>1, Zenon
    <3>2. CASE c = 1
      <4>1. c >= 1
        BY <3>2
      <4> QED
        BY <1>1, <3>2, <4>1, Zenon
    <3> QED
      BY <1>1, <1>12, <3>1, <3>2
  <2>2. At(t, p) # Colon
    BY <1>1, <1>7, <2>1, Zenon
  <2> HIDE DEF p
  <2>3. Ipv6Colons(t, s, p) = WithPos(s, p)
    BY <1>11, <2>2, Zenon DEF Ipv6Colons, WithPos
  <2>4. WithPos(s, p) = Parser(p, b, CompOf(a, j), No, "loop")
    BY <1>4, NewPos
  <2>5. Ipv6Colons(t, s, p) = Between(a, E, j)
    BY <1>9, <1>12, <2>1, <2>3, <2>4, Zenon DEF Between, b, c, e
  <2> QED
    BY <2>5, Zenon DEF p, s, e
<1>13. CASE c = 2
  <2>1. At(t, e) = Colon /\ At(t, e + 1) = Colon /\ p = e + 1 /\ (e + 1) + 1 = e + c
    BY <1>1, <1>13
  <2>2. At(t, p) = Colon /\ p + 1 = e + c /\ At(t, p + 1) # 0
    BY <1>1, <1>7, <2>1, Zenon
  <2> HIDE DEF p
  <2>3. ~(s.comp > -1)
    BY <1>5, <1>9, <1>13
  <2>4. Ipv6Colons(t, s, p) = [s EXCEPT !.pos = p + 1, !.comp = Len(s.bin),
                 !.st = IF At(t, p + 1) = 0 THEN "done" ELSE "loop"]
    BY <1>11, <2>2, <2>3, Zenon DEF Ipv6Colons
  <2>5. Ipv6Colons(t, s, p) = WithPosCompSt(s, e + c, 2 * j, "loop")
    BY <1>3, <1>5, <2>2, <2>4, Zenon DEF WithPosCompSt
  <2>6. WithPosCompSt(s, e + c, 2 * j, "loop") = Parser(e + c, b, 2 * j, No, "loop")
    BY <1>4, NewPosCompSt
  <2>7. Ipv6Colons(t, s, p) = Between(a, E, j)
    BY <1>9, <1>13, <2>5, <2>6, Zenon DEF Between, b, c, e
  <2> QED
    BY <2>7, Zenon DEF p, s, e
<1> QED
  BY <1>12, <1>13

\* One iteration takes one group.
LEMMA GroupIsTaken ==
  ASSUME NEW a, IsForm(a), NEW t, NEW E, TextLaid(t, a, E), NEW j \in 0..GroupCount(a) - 1, Room(a, j)
  PROVE  Ipv6Step(t, State(a, E, j)) = State(a, E, j + 1)
<1> DEFINE s == State(a, E, j)
           u == Between(a, E, j)
           g == GroupOf(a, j + 1)
           b == BinOf(a, j)
           q == E[j] + Colons(a, j)
<1>1. /\ E[j + 1] = q + Len(g) /\ GroupAt(t, q, g) /\ q \in Nat
  <2>1. /\ E[j + 1] = q + Len(g) /\ GroupAt(t, q, g) /\ E[j] \in Nat /\ Colons(a, j) \in 0..2
    BY TextAt, Zenon
  <2> QED
    BY <2>1
<1>2. b \o GroupBytes(HexNumber(g)) = BinOf(a, j + 1)
  <2>1. GroupCount(a) \in Nat
    BY FormCounts
  <2>2. j \in 0..GroupCount(a) /\ j < GroupCount(a)
    BY <2>1
  <2> QED
    BY <2>2, BinIs, Zenon DEF Value
<1>3. s.st = "loop" /\ s.pos = E[j]
  BY DEF State, Parser
<1>4. Ipv6Colons(t, s, IF At(t, s.pos) = Colon THEN s.pos + 1 ELSE s.pos) = u
  BY <1>3, ColonsAreRead, Zenon
<1>5. u = Parser(q, b, CompOf(a, j + 1), No, "loop")
  BY Zenon DEF Between
<1> HIDE DEF s, u, g, b, q
<1>6. u.pos = q /\ u.bin = b /\ u.st = "loop"
  BY <1>5 DEF Parser
<1>7. Ipv6Step(t, s) = Ipv6Group(t, u)
  BY <1>3, <1>4, <1>6, Zenon DEF Ipv6Step, Ipv6Rest
<1> DEFINE y == GroupBytes(HexNumber(g))
           l == Len(g)
<1>8. Ipv6Group(t, u) = WithPosBin(u, q + l, b \o y)
  <2>1. GroupAt(t, u.pos, g) /\ u.pos \in Nat
    BY <1>1, <1>6, Zenon
  <2>2. Ipv6Group(t, u) = [u EXCEPT !.pos = @ + l, !.bin = @ \o y]
    BY <2>1, GroupIsRead, Zenon
  <2> HIDE DEF y, l
  <2> QED
    BY <1>6, <2>2, Zenon DEF WithPosBin
<1> HIDE DEF y, l
<1>9. WithPosBin(u, q + l, b \o y) = Parser(q + l, b \o y, CompOf(a, j + 1), No, "loop")
  BY <1>5, NewPosBin
<1> QED
  BY <1>1, <1>2, <1>7, <1>8, <1>9, Zenon DEF State, s, y, l

\* How many groups the parser takes.
Stop(a) ==
  LET most == IF a.comp /\ Len(a.before) < 7 THEN 7 ELSE 8
  IN IF GroupCount(a) < most THEN GroupCount(a) ELSE most

\* Up to Stop(a) groups there is room, and behind it there is none or no group.
LEMMA StopIs ==
  ASSUME NEW a, IsForm(a)
  PROVE  /\ Stop(a) \in 0..8 /\ Stop(a) \in 0..GroupCount(a)
         /\ \A j \in Nat : j < Stop(a) => j \in 0..GroupCount(a) - 1 /\ Room(a, j)
         /\ Stop(a) # GroupCount(a) => ~Room(a, Stop(a))
<1> DEFINE nb == Len(a.before)
           m == GroupCount(a)
           most == IF a.comp /\ nb < 7 THEN 7 ELSE 8
           n == Stop(a)
<1>1. nb \in Nat /\ m \in Nat
  BY FormCounts
<1>2. n = IF m < most THEN m ELSE most
  BY Zenon DEF Stop
<1>3. /\ a.comp /\ nb < 7 => most = 7
      /\ ~(a.comp /\ nb < 7) => most = 8
  OBVIOUS
<1>4. \A j \in Nat : Room(a, j) <=> 2 * j + (IF (IF a.comp /\ j > nb THEN 2 * nb ELSE -1) > -1 THEN 2 ELSE 0) < 16
  BY Zenon DEF Room, CompOf
<1> HIDE DEF n, most, m, nb
<1>5. \A j \in Nat : Room(a, j) <=> IF a.comp /\ j > nb THEN j < 7 ELSE j < 8
  <2> TAKE j \in Nat
  <2>1. CASE a.comp /\ j > nb
    BY <1>1, <1>4, <2>1
  <2>2. CASE ~(a.comp /\ j > nb)
    BY <1>1, <1>4, <2>2
  <2> QED
    BY <2>1, <2>2
<1>6. most \in {7, 8}
  BY <1>3
<1>7. n \in 0..8 /\ n \in 0..m
  BY <1>1, <1>2, <1>6
<1>8. ASSUME NEW j \in Nat, j < n
      PROVE  j \in 0..m - 1 /\ Room(a, j)
  <2>1. j < m /\ j < most
    BY <1>1, <1>2, <1>6, <1>8
  <2>2. CASE a.comp /\ nb < 7
    BY <1>1, <1>3, <1>5, <2>1, <2>2
  <2>3. CASE ~(a.comp /\ nb < 7)
    <3>1. a.comp /\ j > nb => j < 7
      BY <1>1, <1>3, <2>1, <2>3
    <3> QED
      BY <1>1, <1>3, <1>5, <2>1, <2>3, <3>1
  <2> QED
    BY <2>2, <2>3
<1>9. ASSUME n # m
      PROVE  ~Room(a, n)
  <2>1. n = most /\ n \in Nat
    BY <1>2, <1>6, <1>9
  <2>2. CASE a.comp /\ nb < 7
    <3>1. n = 7 /\ n > nb
      BY <1>1, <1>3, <2>1, <2>2
    <3> QED
      BY <1>5, <2>1, <2>2, <3>1
  <2>3. CASE ~(a.comp /\ nb < 7)
    <3>1. n = 8
      BY <1>3, <2>1, <2>3
    <3> QED
      BY <1>5, <2>1, <3>1
  <2> QED
    BY <2>2, <2>3
<1> QED
  BY <1>7, <1>8, <1>9, Zenon DEF n, m

\* How the parser leaves its loop.
LeftLoop(a, E) ==
  LET n == Stop(a)
  IN IF n = GroupCount(a) /\ Trailing(a) = 2 /\ Room(a, n)
     THEN Parser(E[n] + 2, BinOf(a, n), 2 * n, No, "done")
     ELSE Parser(E[n], BinOf(a, n), CompOf(a, n), No, "done")

\* After these groups the iteration leaves the loop.
LEMMA EndIsSeen ==
  ASSUME NEW a, IsForm(a), NEW t, NEW E, TextLaid(t, a, E)
  PROVE  Ipv6Step(t, State(a, E, Stop(a))) = LeftLoop(a, E)
<1> DEFINE n == Stop(a)
           m == GroupCount(a)
           nb == Len(a.before)
           e == E[n]
           b == BinOf(a, n)
           s == State(a, E, n)
           p == IF At(t, s.pos) = Colon THEN s.pos + 1 ELSE s.pos
           x == Len(s.bin) + (IF s.comp > -1 THEN 2 ELSE 0)
           u == Ipv6Colons(t, s, p)
<1>1. n \in 0..m /\ m \in Nat /\ (n # m => ~Room(a, n)) /\ n \in Nat /\ nb \in Nat
  <2>1. n \in 0..m /\ m \in Nat /\ (n # m => ~Room(a, n)) /\ nb \in Nat
    BY StopIs, FormCounts, Zenon
  <2> HIDE DEF m, n
  <2> QED
    BY <2>1
<1>2. e \in Nat
  <2>1. E \in [0..m -> Nat]
    BY Zenon DEF TextLaid
  <2> QED
    BY <1>1, <2>1, Zenon
<1>3. s = Parser(e, b, CompOf(a, n), No, "loop")
  BY Zenon DEF State
<1>4. Len(b) = 2 * n
  BY <1>1, BinIs, Zenon
<1> HIDE DEF s, b, e, n
<1>5. s.pos = e /\ s.bin = b /\ s.comp = CompOf(a, n) /\ s.st = "loop"
  BY <1>3 DEF Parser
<1>6. Ipv6Step(t, s) = Ipv6Rest(t, u)
  BY <1>5, Zenon DEF Ipv6Step
<1>7. x < 16 <=> Room(a, n)
  BY <1>4, <1>5, Zenon DEF Room
<1>8. x \in Int
  BY <1>1, <1>4, <1>5
<1>9. ASSUME At(t, e) = 0 \/ ~Room(a, n)
      PROVE  Ipv6Step(t, s) = Parser(e, b, CompOf(a, n), No, "done")
  <2> HIDE DEF x, p
  <2>1. ~Room(a, n) => x >= 16
    BY <1>7, <1>8
  <2>2. u = WithSt(s, "done")
    BY <1>5, <1>9, <2>1, Zenon DEF Ipv6Colons, WithSt, x
  <2>3. u = Parser(e, b, CompOf(a, n), No, "done")
    BY <1>3, <2>2, NewSt
  <2>4. u.st # "loop"
    BY <2>3 DEF Parser
  <2> QED
    BY <1>6, <2>3, <2>4, Zenon DEF Ipv6Rest
<1>10. ASSUME n = m, Trailing(a) = 2, Room(a, n)
       PROVE  Ipv6Step(t, s) = Parser(e + 2, b, 2 * n, No, "done")
  <2>1. At(t, e) = Colon /\ At(t, e + 1) = Colon /\ At(t, e + 2) = 0
    BY <1>10, Zenon DEF TextLaid, e
  <2>2. p = e + 1 /\ p + 1 = e + 2
    BY <1>2, <1>5, <2>1
  <2>3. ~(s.comp > -1)
    <3>1. nb = m
      <4>1. Len(a.after) = 0
        BY <1>10 DEF Trailing
      <4>2. m = nb + Len(a.after)
        BY Zenon DEF GroupCount
      <4> HIDE DEF m, nb
      <4> QED
        BY <1>1, <4>1, <4>2
    <3>2. ~(n > nb)
      BY <1>1, <1>10, <3>1
    <3> QED
      BY <1>5, <3>2 DEF CompOf
  <2>4. ~(x >= 16) /\ At(t, e) # 0
    <3> HIDE DEF x
    <3> QED
      BY <1>7, <1>8, <1>10, <2>1 DEF Colon
  <2> HIDE DEF p
  <2>5. u = WithPosCompSt(s, e + 2, 2 * n, "done")
    <3>1. u = [s EXCEPT !.pos = p + 1, !.comp = Len(s.bin),
                 !.st = IF At(t, p + 1) = 0 THEN "done" ELSE "loop"]
      <4>1. At(t, p) = Colon
        BY <2>1, <2>2, Zenon
      <4> QED
        BY <1>5, <2>3, <2>4, <4>1, Zenon DEF Ipv6Colons
    <3>2. u = [s EXCEPT !.pos = e + 2, !.comp = 2 * n, !.st = "done"]
      BY <1>4, <1>5, <2>1, <2>2, <3>1, Zenon
    <3> QED
      BY <3>2, Zenon DEF WithPosCompSt
  <2>6. u = Parser(e + 2, b, 2 * n, No, "done")
    BY <1>3, <2>5, NewPosCompSt
  <2>7. u.st # "loop"
    BY <2>6 DEF Parser
  <2> QED
    BY <1>6, <2>6, <2>7, Zenon DEF Ipv6Rest
<1>11. CASE n = m /\ Trailing(a) = 2 /\ Room(a, n)
  BY <1>10, <1>11, Zenon DEF LeftLoop, n, b, e, s
<1>12. CASE ~(n = m /\ Trailing(a) = 2 /\ Room(a, n))
  <2>1. At(t, e) = 0 \/ ~Room(a, n)
    <3>1. CASE n = m /\ Trailing(a) # 2
      <4>1. Trailing(a) = 0
        BY <3>1 DEF Trailing
      <4>2. At(t, e + 0) = 0
        BY <3>1, <4>1, Zenon DEF TextLaid, e
      <4>3. e + 0 = e
        BY <1>2
      <4> QED
        BY <4>2, <4>3, Zenon
    <3> QED
      BY <1>1, <1>12, <3>1, Zenon
  <2> QED
    BY <1>9, <1>12, <2>1, Zenon DEF LeftLoop, n, b, e, s
<1> QED
  BY <1>11, <1>12

\* The state after k iterations.
After(a, E, k) == IF k <= Stop(a) THEN State(a, E, k) ELSE LeftLoop(a, E)

\* So an iteration takes the parser from After(a, E, k) to After(a, E, k + 1),
LEMMA IterationIs ==
  ASSUME NEW a, IsForm(a), NEW t, NEW E, TextLaid(t, a, E), NEW k \in Nat
  PROVE  Ipv6Step(t, After(a, E, k)) = After(a, E, k + 1)
<1> DEFINE n == Stop(a)
<1>1. n \in Nat /\ n \in 0..8
  BY StopIs
<1> HIDE DEF n
<1>2. CASE k < n
  <2>1. k <= n /\ k + 1 <= n
    BY <1>1, <1>2
  <2>2. k \in 0..GroupCount(a) - 1 /\ Room(a, k)
    BY <1>2, StopIs, Zenon DEF n
  <2>3. Ipv6Step(t, State(a, E, k)) = State(a, E, k + 1)
    BY <2>2, GroupIsTaken, Zenon
  <2> QED
    BY <2>1, <2>3, Zenon DEF After, n
<1>3. CASE k = n
  <2>1. k <= n /\ ~(k + 1 <= n)
    BY <1>1, <1>3
  <2> QED
    BY <1>3, <2>1, EndIsSeen, Zenon DEF After, n
<1>4. CASE k > n
  <2>1. ~(k <= n) /\ ~(k + 1 <= n)
    BY <1>1, <1>4
  <2>2. LeftLoop(a, E).st # "loop"
    BY DEF LeftLoop, Parser
  <2> QED
    BY <2>1, <2>2, Zenon DEF After, n, Ipv6Step
<1> QED
  BY <1>1, <1>2, <1>3, <1>4

\* and the parse starts at After(a, E, 0).
LEMMA StartIs ==
  ASSUME NEW a, IsForm(a), NEW t, NEW E, TextLaid(t, a, E)
  PROVE  Ipv6Start(t) = After(a, E, 0)
<1> DEFINE m == GroupCount(a)
           nb == Len(a.before)
<1>1. m \in Nat /\ nb \in Nat /\ Stop(a) \in 0..8
  BY FormCounts, StopIs, Zenon
<1>2. After(a, E, 0) = State(a, E, 0)
  <2>1. 0 <= Stop(a)
    BY <1>1
  <2> QED
    BY <2>1, Zenon DEF After
<1>3. E[0] = 0
  BY Zenon DEF TextLaid
<1>4. BinOf(a, 0) = <<>>
  <2>1. 0 \in 0..m
    BY <1>1
  <2>2. BinOf(a, 0) \in Seq(0..255) /\ Len(BinOf(a, 0)) = 2 * 0
    BY <2>1, BinIs, Zenon
  <2> DEFINE z == BinOf(a, 0)
  <2> HIDE DEF z
  <2>3. z \in Seq(0..255) /\ Len(z) = 0
    BY <2>2 DEF z
  <2>4. z = <<>>
    BY <2>3
  <2> QED
    BY <2>4 DEF z
<1>5. CompOf(a, 0) = -1
  <2>1. ~(0 > nb)
    BY <1>1
  <2> QED
    BY <2>1, Zenon DEF CompOf
<1>6. At(t, 0) = Colon => At(t, 1) = Colon
  <2>1. CASE m = 0
    <3>1. /\ Trailing(a) = 2 => At(t, E[0]) = Colon /\ At(t, E[0] + 1) = Colon
          /\ At(t, E[0] + Trailing(a)) = 0
      BY <2>1, Zenon DEF TextLaid
    <3>2. Trailing(a) = 2 \/ Trailing(a) = 0
      BY DEF Trailing
    <3>3. E[0] + 0 = 0 /\ E[0] + 1 = 1
      BY <1>3
    <3>4. 0 # Colon
      BY DEF Colon
    <3> QED
      BY <3>1, <3>2, <3>3, <3>4, Zenon
  <2>2. CASE m # 0
    <3> DEFINE j == 0
    <3>1. j \in 0..m - 1
      BY <1>1, <2>2
    <3>2. /\ At(t, E[j] + Colons(a, j)) \in XDigit
          /\ Colons(a, j) = 2 => At(t, E[j] + 1) = Colon
      <4> HIDE DEF j
      <4> QED
        BY <3>1, TextAt
    <3>3. Colons(a, 0) = 0 \/ Colons(a, 0) = 2
      BY DEF Colons
    <3>4. E[0] + 0 = 0 /\ E[0] + 1 = 1
      BY <1>3
    <3>5. Colon \notin XDigit
      BY DEF Colon, XDigit, Digit
    <3> QED
      BY <3>2, <3>3, <3>4, <3>5, Zenon
  <2> QED
    BY <2>1, <2>2
<1>7. Ipv6Start(t) = Parser(0, <<>>, -1, No, "loop")
  BY <1>6 DEF Ipv6Start, Parser, No
<1> QED
  BY <1>2, <1>3, <1>4, <1>5, <1>7, Zenon DEF State

\* Ten iterations leave the loop, for any address.
LEMMA TenIterations ==
  ASSUME NEW a, IsForm(a), NEW t, NEW E, TextLaid(t, a, E)
  PROVE  Ipv6ToBin(t) = Ipv6End(t, LeftLoop(a, E), Len(LeftLoop(a, E).bin))
<1>1. ASSUME NEW k \in Nat
      PROVE  Ipv6Twice(t, After(a, E, k)) = After(a, E, k + 2)
  <2>1. k + 1 \in Nat /\ (k + 1) + 1 = k + 2
    OBVIOUS
  <2>2. Ipv6Step(t, After(a, E, k)) = After(a, E, k + 1)
    BY IterationIs, Zenon
  <2>3. Ipv6Step(t, After(a, E, k + 1)) = After(a, E, (k + 1) + 1)
    BY <2>1, IterationIs, Zenon
  <2> QED
    BY <2>1, <2>2, <2>3, Zenon DEF Ipv6Twice
<1>2. /\ Ipv6Twice(t, After(a, E, 0)) = After(a, E, 2)
      /\ Ipv6Twice(t, After(a, E, 2)) = After(a, E, 4)
      /\ Ipv6Twice(t, After(a, E, 4)) = After(a, E, 6)
      /\ Ipv6Twice(t, After(a, E, 6)) = After(a, E, 8)
      /\ Ipv6Twice(t, After(a, E, 8)) = After(a, E, 10)
  <2>1. /\ 0 \in Nat /\ 2 \in Nat /\ 4 \in Nat /\ 6 \in Nat /\ 8 \in Nat
        /\ 0 + 2 = 2 /\ 2 + 2 = 4 /\ 4 + 2 = 6 /\ 6 + 2 = 8 /\ 8 + 2 = 10
    OBVIOUS
  <2>2. /\ Ipv6Twice(t, After(a, E, 0)) = After(a, E, 0 + 2)
        /\ Ipv6Twice(t, After(a, E, 2)) = After(a, E, 2 + 2)
        /\ Ipv6Twice(t, After(a, E, 4)) = After(a, E, 4 + 2)
        /\ Ipv6Twice(t, After(a, E, 6)) = After(a, E, 6 + 2)
        /\ Ipv6Twice(t, After(a, E, 8)) = After(a, E, 8 + 2)
    BY <1>1, <2>1, Zenon
  <2> QED
    BY <2>1, <2>2, Zenon
<1>3. After(a, E, 10) = LeftLoop(a, E)
  <2>1. ~(10 <= Stop(a))
    BY StopIs
  <2> QED
    BY <2>1, Zenon DEF After
<1>4. Ipv6Start(t) = After(a, E, 0)
  BY StartIs, Zenon
<1>5. Ipv6ToBin(t) = Ipv6Parse(t, LeftLoop(a, E))
  BY <1>2, <1>3, <1>4, Zenon DEF Ipv6ToBin
<1> QED
  BY <1>5, Zenon DEF Ipv6Parse

\* What is refused behind the loop: text that is left, too many bytes or too few,
LEMMA EndRefused ==
  ASSUME NEW t, NEW s, NEW n,
         \/ ~s.mapped /\ At(t, s.pos) # 0
         \/ s.comp > -1 /\ n >= 16
         \/ ~(s.comp > -1) /\ n < 16
  PROVE  Ipv6End(t, s, n).ret # 0
<1>1. Ipv6End(t, s, n) = [ret |-> EINVAL, out |-> s.bin, past |-> 0]
  BY Zenon DEF Ipv6End
<1> QED
  BY <1>1 DEF EINVAL

\* and what is taken.
LEMMA EndAccepted ==
  ASSUME NEW t, NEW s, NEW n, s.st = "done", At(t, s.pos) = 0,
         IF s.comp > -1 THEN ~(n >= 16) ELSE ~(n < 16)
  PROVE  Ipv6End(t, s, n) = IF s.comp > -1 THEN Ipv6Expand(s.bin, s.comp)
                            ELSE [ret |-> 0, out |-> s.bin, past |-> 0]
<1>1. s.st # "refused"
  OBVIOUS
<1> QED
  BY <1>1, Zenon DEF Ipv6End

\* The text is taken when it is well-formed: as the bytes of its groups, with a gap.
LEMMA ParsedIs ==
  ASSUME NEW a, IsForm(a)
  PROVE  /\ ~WellFormed(a) => Ipv6ToBin(Ipv6Text(a)).ret # 0
         /\ WellFormed(a) =>
              Ipv6ToBin(Ipv6Text(a)) =
                IF a.comp THEN Ipv6Expand(BinOf(a, GroupCount(a)), 2 * Len(a.before))
                ELSE [ret |-> 0, out |-> BinOf(a, GroupCount(a)), past |-> 0]
<1> DEFINE t == Ipv6Text(a)
           n == Stop(a)
           m == GroupCount(a)
           nb == Len(a.before)
           na == Len(a.after)
           most == IF a.comp /\ nb < 7 THEN 7 ELSE 8
<1>1. PICK E : TextLaid(t, a, E)
  BY FormIsLaid, Zenon
<1> DEFINE s == LeftLoop(a, E)
           more == n = m /\ Trailing(a) = 2 /\ Room(a, n)
<1> HIDE DEF t
<1>2. Ipv6ToBin(t) = Ipv6End(t, s, Len(s.bin))
  BY <1>1, TenIterations, Zenon
<1>3. s = IF more THEN Parser(E[n] + 2, BinOf(a, n), 2 * n, No, "done")
          ELSE Parser(E[n], BinOf(a, n), CompOf(a, n), No, "done")
  BY Zenon DEF LeftLoop
<1> HIDE DEF s, more
<1>4. /\ s.bin = BinOf(a, n) /\ s.mapped = FALSE /\ s.st = "done"
      /\ s.pos = IF more THEN E[n] + 2 ELSE E[n]
      /\ s.comp = IF more THEN 2 * n ELSE CompOf(a, n)
  <2>1. CASE more
    BY <1>3, <2>1 DEF Parser, No
  <2>2. CASE ~more
    BY <1>3, <2>2 DEF Parser, No
  <2> QED
    BY <2>1, <2>2
<1>13. s.bin = BinOf(a, n)
  BY <1>4
<1>5. /\ nb \in Nat /\ na \in Nat /\ m = nb + na /\ n \in 0..8 /\ n \in 0..m
      /\ n # m => ~Room(a, n)
      /\ n = IF m < most THEN m ELSE most
      /\ ~a.comp => na = 0
      /\ a.comp \in BOOLEAN
  <2>1. nb \in Nat /\ na \in Nat /\ n \in 0..8 /\ n \in 0..m /\ (n # m => ~Room(a, n))
    BY FormCounts, StopIs, Zenon
  <2>2. m = nb + na
    BY Zenon DEF GroupCount
  <2>3. n = IF m < most THEN m ELSE most
    BY Zenon DEF Stop
  <2>4. (~a.comp => na = 0) /\ a.comp \in BOOLEAN
    BY Zenon DEF IsForm
  <2> QED
    BY <2>1, <2>2, <2>3, <2>4, Zenon
<1>6. /\ Trailing(a) = IF a.comp /\ na = 0 THEN 2 ELSE 0
      /\ Room(a, n) <=> 2 * n + (IF CompOf(a, n) > -1 THEN 2 ELSE 0) < 16
      /\ CompOf(a, n) = IF a.comp /\ n > nb THEN 2 * nb ELSE -1
      /\ WellFormed(a) <=> IF a.comp THEN nb + na <= 7 ELSE nb = 8
  BY Zenon DEF Trailing, Room, CompOf, WellFormed
<1>7. /\ Trailing(a) = 2 => At(t, E[m]) = Colon /\ At(t, E[m] + 1) = Colon
      /\ At(t, E[m] + Trailing(a)) = 0
  BY <1>1, Zenon DEF TextLaid
<1>8. E[n] \in Nat /\ (E[m] + 0 = E[m])
  <2>1. E \in [0..m -> Nat]
    BY <1>1, Zenon DEF TextLaid
  <2>2. m \in 0..m
    <3> HIDE DEF m, n, nb, na, most
    <3>1. m \in Nat
      BY <1>5
    <3> QED
      BY <3>1
  <2>3. E[n] \in Nat /\ E[m] \in Nat
    BY <1>5, <2>1, <2>2, Zenon
  <2> QED
    BY <2>3
<1>9. Len(s.bin) = 2 * n
  <2>1. Len(BinOf(a, n)) = 2 * n
    BY <1>5, BinIs, Zenon
  <2> QED
    BY <1>4, <2>1, Zenon
<1> HIDE DEF n, m, nb, na, most
<1>10. ASSUME n # m
       PROVE  Ipv6ToBin(t).ret # 0
  <2>1. n # 0 /\ n \in 0..m - 1
    <3>1. n = 0 => 2 * n + (IF CompOf(a, n) > -1 THEN 2 ELSE 0) < 16
      OBVIOUS
    <3>2. n # 0
      <4>1. n = 0 => Room(a, n)
        BY <1>6, <3>1, Zenon
      <4> QED
        BY <1>5, <1>10, <4>1, Zenon
    <3>3. m \in Nat /\ n \in 0..m
      <4>1. nb \in Nat /\ na \in Nat /\ m = nb + na /\ n \in 0..m
        BY <1>5, Zenon
      <4> QED
        BY <4>1
    <3>4. n \in 0..m - 1
      BY <1>10, <3>3
    <3> QED
      BY <3>2, <3>4
  <2>2. Colons(a, n) >= 1
    BY <2>1 DEF Colons
  <2>3. At(t, E[n]) = Colon
    BY <1>1, <2>1, <2>2, TextAt DEF m
  <2>4. ~more
    BY <1>10 DEF more
  <2>5. ~s.mapped /\ At(t, s.pos) # 0
    BY <1>4, <2>3, <2>4 DEF Colon
  <2> QED
    BY <1>2, <2>5, EndRefused, Zenon
<1>11. ASSUME ~WellFormed(a)
       PROVE  Ipv6ToBin(t).ret # 0
  <2>1. CASE n = m /\ a.comp
    <3>1. n = 8 /\ m = 8
      <4>1. ~(nb + na <= 7)
        BY <1>6, <1>11, <2>1, Zenon
      <4> QED
        BY <1>5, <2>1, <4>1
    <3>2. CASE na = 0
      <4>1. ~(n > nb)
        BY <1>5, <2>1, <3>1, <3>2
      <4>2. CompOf(a, n) = -1
        BY <1>6, <4>1, Zenon
      <4>3. ~Room(a, n)
        BY <1>6, <3>1, <4>2
      <4>4. ~more
        BY <4>3 DEF more
      <4>5. Trailing(a) = 2
        BY <1>6, <2>1, <3>2, Zenon
      <4>6. At(t, E[n]) = Colon
        BY <1>7, <2>1, <4>5, Zenon
      <4>7. ~s.mapped /\ At(t, s.pos) # 0
        BY <1>4, <4>4, <4>6 DEF Colon
      <4> QED
        BY <1>2, <4>7, EndRefused, Zenon
    <3>3. CASE na # 0
      <4>1. n > nb
        BY <1>5, <2>1, <3>1, <3>3
      <4>2. CompOf(a, n) = 2 * nb
        BY <1>6, <2>1, <4>1, Zenon
      <4>3. Trailing(a) # 2
        BY <1>6, <3>3
      <4>4. ~more
        BY <4>3 DEF more
      <4>5. s.comp > -1 /\ Len(s.bin) >= 16
        BY <1>4, <1>5, <1>9, <3>1, <4>2, <4>4
      <4> QED
        BY <1>2, <4>5, EndRefused, Zenon
    <3> QED
      BY <3>2, <3>3
  <2>2. CASE n = m /\ ~a.comp
    <3>1. n < 8
      BY <1>5, <1>6, <1>11, <2>2
    <3>2. CompOf(a, n) = -1
      BY <1>6, <2>2, Zenon
    <3>3. Trailing(a) # 2
      BY <1>6, <2>2
    <3>4. ~more
      BY <3>3 DEF more
    <3>5. ~(s.comp > -1) /\ Len(s.bin) < 16
      BY <1>4, <1>5, <1>9, <3>1, <3>2, <3>4
    <3> QED
      BY <1>2, <3>5, EndRefused, Zenon
  <2> QED
    BY <1>5, <1>10, <2>1, <2>2, Zenon
<1>12. CASE WellFormed(a)
  <2>1. n = m
    <3>1. CASE a.comp
      <4>1. m <= 7
        BY <1>5, <1>6, <1>12, <3>1
      <4> QED
        BY <1>5, <4>1 DEF most
    <3>2. CASE ~a.comp
      <4>1. m = 8 /\ most = 8
        BY <1>5, <1>6, <1>12, <3>2 DEF most
      <4> QED
        BY <1>5, <4>1
    <3> QED
      BY <3>1, <3>2
  <2>2. At(t, s.pos) = 0
    <3>1. CASE Trailing(a) = 2
      <4>1. a.comp /\ na = 0 /\ m <= 7
        BY <1>5, <1>6, <1>12, <3>1
      <4>2. ~(n > nb)
        BY <1>5, <2>1, <4>1
      <4>3. CompOf(a, n) = -1
        BY <1>6, <4>2, Zenon
      <4>4. Room(a, n)
        BY <1>5, <1>6, <2>1, <4>1, <4>3
      <4>5. more
        BY <2>1, <3>1, <4>4, Zenon DEF more
      <4> QED
        BY <1>4, <1>7, <2>1, <3>1, <4>5, Zenon
    <3>2. CASE Trailing(a) # 2
      <4>1. ~more
        BY <3>2 DEF more
      <4>2. Trailing(a) = 0
        BY <1>6, <3>2, Zenon
      <4> QED
        BY <1>4, <1>7, <1>8, <2>1, <4>1, <4>2, Zenon
    <3> QED
      BY <3>1, <3>2
  <2>3. CASE a.comp
    <3>1. m <= 7
      BY <1>5, <1>6, <1>12, <2>3
    <3>2. s.comp = 2 * nb
      <4>1. CASE na = 0
        <5>1. n = nb /\ ~(n > nb)
          BY <1>5, <2>1, <4>1
        <5>2. CompOf(a, n) = -1
          BY <1>6, <5>1, Zenon
        <5>3. Room(a, n)
          BY <1>5, <1>6, <2>1, <3>1, <5>2
        <5>4. Trailing(a) = 2
          BY <1>6, <2>3, <4>1, Zenon
        <5>5. more
          BY <2>1, <5>3, <5>4, Zenon DEF more
        <5> QED
          BY <1>4, <5>1, <5>5, Zenon
      <4>2. CASE na # 0
        <5>1. n > nb
          BY <1>5, <2>1, <4>2
        <5>2. Trailing(a) # 2
          BY <1>6, <4>2
        <5>3. ~more
          BY <5>2 DEF more
        <5> QED
          BY <1>4, <1>6, <2>3, <5>1, <5>3, Zenon
      <4> QED
        BY <4>1, <4>2
    <3>3. s.comp > -1 /\ ~(Len(s.bin) >= 16)
      BY <1>5, <1>9, <2>1, <3>1, <3>2
    <3>4. Ipv6End(t, s, Len(s.bin)) = Ipv6Expand(s.bin, s.comp)
      BY <1>4, <2>2, <3>3, EndAccepted, Zenon
    <3> QED
      BY <1>2, <1>12, <1>13, <2>1, <2>3, <3>2, <3>4, Zenon DEF t, m, nb
  <2>4. CASE ~a.comp
    <3>1. Trailing(a) # 2
      BY <1>6, <2>4
    <3>2. ~more
      BY <3>1 DEF more
    <3>3. s.comp = -1
      BY <1>4, <1>6, <2>4, <3>2, Zenon
    <3>4. ~(s.comp > -1) /\ ~(Len(s.bin) < 16)
      BY <1>5, <1>6, <1>9, <1>12, <2>1, <2>4, <3>3
    <3>5. Ipv6End(t, s, Len(s.bin)) = [ret |-> 0, out |-> s.bin, past |-> 0]
      BY <1>4, <2>2, <3>4, EndAccepted, Zenon
    <3> QED
      BY <1>2, <1>12, <1>13, <2>1, <2>4, <3>5, Zenon DEF t, m
  <2> QED
    BY <2>3, <2>4
<1> QED
  BY <1>11, <1>12, Zenon DEF t

\* The byte that the parser makes, and the byte of RFC 4291.
Got(a, k) ==
  IF k % 2 = 1 THEN (Value(a, (k + 1) \div 2) \div 16) % 256 ELSE Value(a, (k + 1) \div 2) % 256
Right(a, k) ==
  IF k % 2 = 1 THEN Value(a, (k + 1) \div 2) \div 256 ELSE Value(a, (k + 1) \div 2) % 256

\* In every group the middle eight bits are the upper eight.
Even(a) ==
  \A g \in Range(a.before) \cup Range(a.after) :
    (HexNumber(g) \div 16) % 256 = HexNumber(g) \div 256

\* It is what makes every byte of the parser the right one.
LEMMA EvenIs ==
  ASSUME NEW a, IsForm(a)
  PROVE  Even(a) <=> \A k \in 1..2 * GroupCount(a) : Got(a, k) = Right(a, k)
<1> DEFINE nb == Len(a.before)
           na == Len(a.after)
           m == GroupCount(a)
           Same(g) == (HexNumber(g) \div 16) % 256 = HexNumber(g) \div 256
<1>1. nb \in Nat /\ na \in Nat /\ m = nb + na
  <2>1. m = nb + na
    BY Zenon DEF GroupCount
  <2> QED
    BY <2>1, FormCounts, Zenon
<1>2. DOMAIN a.before = 1..nb /\ DOMAIN a.after = 1..na
  <2>1. a.before \in Seq(Seq(XDigit)) /\ a.after \in Seq(Seq(XDigit))
    BY Zenon DEF IsForm, IsGroups
  <2> QED
    BY <2>1, LenProperties, Zenon
<1>3. Even(a) <=> (\A i \in 1..nb : Same(a.before[i])) /\ (\A i \in 1..na : Same(a.after[i]))
  <2>1. Even(a) <=> \A g \in Range(a.before) \cup Range(a.after) : Same(g)
    BY Zenon DEF Even
  <2> HIDE DEF Same, nb, na
  <2> QED
    BY <1>2, <2>1, Zenon DEF Range
<1> HIDE DEF nb, na, m
<1>4. Even(a) <=> \A i \in 1..m : Same(GroupOf(a, i))
  <2>1. ASSUME Even(a), NEW i \in 1..m
        PROVE  Same(GroupOf(a, i))
    <3>1. CASE i <= nb
      <4>1. i \in 1..nb
        BY <1>1, <3>1
      <4> HIDE DEF Same
      <4> QED
        BY <1>3, <2>1, <3>1, <4>1, Zenon DEF GroupOf, nb
    <3>2. CASE ~(i <= nb)
      <4>1. i - nb \in 1..na
        BY <1>1, <3>2
      <4> HIDE DEF Same
      <4> QED
        BY <1>3, <2>1, <3>2, <4>1, Zenon DEF GroupOf, nb
    <3> QED
      BY <3>1, <3>2
  <2>2. ASSUME \A i \in 1..m : Same(GroupOf(a, i))
        PROVE  Even(a)
    <3>1. ASSUME NEW i \in 1..nb
          PROVE  Same(a.before[i])
      <4>1. i \in 1..m /\ i <= nb
        BY <1>1
      <4> HIDE DEF Same
      <4> QED
        BY <2>2, <4>1, Zenon DEF GroupOf, nb
    <3>2. ASSUME NEW i \in 1..na
          PROVE  Same(a.after[i])
      <4> DEFINE h == nb + i
      <4>1. h \in 1..m /\ ~(h <= nb) /\ h - nb = i
        BY <1>1
      <4> HIDE DEF Same, h
      <4> QED
        BY <2>2, <4>1, Zenon DEF GroupOf, nb
    <3> HIDE DEF Same
    <3> QED
      BY <1>3, <3>1, <3>2, Zenon
  <2> HIDE DEF Same
  <2> QED
    BY <2>1, <2>2, Zenon
<1>5. ASSUME Even(a), NEW k \in 1..2 * m
      PROVE  Got(a, k) = Right(a, k)
  <2>1. (k + 1) \div 2 \in 1..m
    BY <1>1
  <2>2. (Value(a, (k + 1) \div 2) \div 16) % 256 = Value(a, (k + 1) \div 2) \div 256
    BY <1>4, <1>5, <2>1, Zenon DEF Value
  <2> QED
    BY <2>2, Zenon DEF Got, Right
<1>6. ASSUME \A k \in 1..2 * m : Got(a, k) = Right(a, k), NEW i \in 1..m
      PROVE  Same(GroupOf(a, i))
  <2> DEFINE k == 2 * i - 1
  <2>1. k \in 1..2 * m /\ k % 2 = 1 /\ (k + 1) \div 2 = i
    BY <1>1
  <2> HIDE DEF k
  <2>2. Got(a, k) = Right(a, k)
    BY <1>6, <2>1, Zenon
  <2>3. (Value(a, i) \div 16) % 256 = Value(a, i) \div 256
    BY <2>1, <2>2, Zenon DEF Got, Right
  <2> QED
    BY <2>3, Zenon DEF Value
<1> HIDE DEF Same
<1> QED
  BY <1>4, <1>5, <1>6, Zenon DEF m

\* The bytes of the parser are those of Got,
LEMMA GotIs ==
  ASSUME NEW a, IsForm(a), NEW j \in 0..GroupCount(a)
  PROVE  \A k \in 1..2 * j : BinOf(a, j)[k] = Got(a, k)
BY Zenon DEF BinOf, Got

\* and Right is a byte.
LEMMA RightIs ==
  ASSUME NEW a, IsForm(a), NEW k \in 1..2 * GroupCount(a)
  PROVE  Right(a, k) \in 0..255
<1> DEFINE i == (k + 1) \div 2
<1>1. i \in 1..GroupCount(a)
  BY FormCounts
<1> HIDE DEF i
<1>2. Value(a, i) \in Word16
  BY <1>1, ValueIs, Zenon
<1>3. Value(a, i) \div 256 \in 0..255 /\ Value(a, i) % 256 \in 0..255
  BY <1>2, GroupBytesAre, Zenon
<1> QED
  BY <1>3, Zenon DEF Right, i

\* The bytes of the groups before the gap.
LEMMA BeforeIs ==
  ASSUME NEW a, IsForm(a)
  PROVE  LET y == GroupsBytes(a.before)
         IN /\ y \in Seq(0..255) /\ Len(y) = 2 * Len(a.before)
            /\ \A k \in 1..2 * Len(a.before) : y[k] = Right(a, k)
<1> DEFINE nb == Len(a.before)
           y == GroupsBytes(a.before)
           l == 2 * nb
           m == GroupCount(a)
<1>1. nb \in Nat /\ l \in Nat /\ m \in Nat /\ nb <= m
  <2> DEFINE na == Len(a.after)
  <2>1. nb \in Nat /\ na \in Nat
    BY FormCounts
  <2>2. m = nb + na
    BY Zenon DEF GroupCount
  <2> HIDE DEF nb, na, m
  <2> QED
    BY <2>1, <2>2
<1>2. y = [k \in 1..l |-> LET v == HexNumber(a.before[(k + 1) \div 2])
                          IN IF k % 2 = 1 THEN v \div 256 ELSE v % 256]
  BY Zenon DEF GroupsBytes
<1>3. ASSUME NEW k \in 1..l
      PROVE  y[k] = Right(a, k) /\ y[k] \in 0..255
  <2> DEFINE i == (k + 1) \div 2
  <2> HIDE DEF nb, m
  <2>1. i <= nb /\ k \in 1..2 * m
    BY <1>1
  <2> HIDE DEF i
  <2>2. a.before[i] = GroupOf(a, i)
    BY <2>1, Zenon DEF GroupOf, nb
  <2>3. y[k] = LET v == HexNumber(a.before[i]) IN IF k % 2 = 1 THEN v \div 256 ELSE v % 256
    BY <1>2, Zenon DEF i
  <2>4. y[k] = Right(a, k)
    BY <2>2, <2>3, Zenon DEF Right, Value, i
  <2>5. Right(a, k) \in 0..255
    BY <2>1, RightIs, Zenon DEF m
  <2> QED
    BY <2>4, <2>5, Zenon
<1> HIDE DEF y, l
<1>4. y \in [1..l -> 0..255]
  <2>1. DOMAIN y = 1..l /\ y = [k \in 1..l |-> y[k]]
    BY <1>2
  <2> QED
    BY <1>3, <2>1, Zenon
<1>5. y \in Seq(0..255) /\ Len(y) = l
  BY <1>1, <1>4, FunSeq, Zenon
<1> QED
  BY <1>3, <1>5, Zenon DEF y, l

\* The same of the groups behind it.
LEMMA BehindGapIs ==
  ASSUME NEW a, IsForm(a)
  PROVE  LET y == GroupsBytes(a.after)
         IN /\ y \in Seq(0..255) /\ Len(y) = 2 * Len(a.after)
            /\ \A k \in 1..2 * Len(a.after) : y[k] = Right(a, 2 * Len(a.before) + k)
<1> DEFINE nb == Len(a.before)
           na == Len(a.after)
           y == GroupsBytes(a.after)
           l == 2 * na
           m == GroupCount(a)
<1>1. nb \in Nat /\ na \in Nat /\ l \in Nat /\ m = nb + na
  <2>1. nb \in Nat /\ na \in Nat
    BY FormCounts
  <2>2. m = nb + na
    BY Zenon DEF GroupCount
  <2> HIDE DEF nb, na, m
  <2> QED
    BY <2>1, <2>2
<1>2. y = [k \in 1..l |-> LET v == HexNumber(a.after[(k + 1) \div 2])
                          IN IF k % 2 = 1 THEN v \div 256 ELSE v % 256]
  BY Zenon DEF GroupsBytes
<1>3. ASSUME NEW k \in 1..l
      PROVE  y[k] = Right(a, 2 * nb + k) /\ y[k] \in 0..255
  <2> DEFINE i == (k + 1) \div 2
             h == 2 * nb + k
             f == (h + 1) \div 2
  <2> HIDE DEF nb, na, m
  <2>1. f = nb + i /\ ~(f <= nb) /\ f - nb = i /\ h \in 1..2 * m /\ (h % 2 = 1 <=> k % 2 = 1)
    BY <1>1
  <2> HIDE DEF i, f, h
  <2>2. a.after[i] = GroupOf(a, f)
    BY <2>1, Zenon DEF GroupOf, nb
  <2>3. y[k] = LET v == HexNumber(a.after[i]) IN IF k % 2 = 1 THEN v \div 256 ELSE v % 256
    BY <1>2, Zenon DEF i
  <2>4. y[k] = Right(a, h)
    BY <2>1, <2>2, <2>3, Zenon DEF Right, Value, f
  <2>5. Right(a, h) \in 0..255
    BY <2>1, RightIs, Zenon DEF m
  <2> QED
    BY <2>4, <2>5, Zenon DEF h
<1> HIDE DEF y, l
<1>4. y \in [1..l -> 0..255]
  <2>1. DOMAIN y = 1..l /\ y = [k \in 1..l |-> y[k]]
    BY <1>2
  <2> QED
    BY <1>3, <2>1, Zenon
<1>5. y \in Seq(0..255) /\ Len(y) = l
  BY <1>1, <1>4, FunSeq, Zenon
<1> QED
  BY <1>3, <1>5, Zenon DEF y, l, nb, na

\* How many bytes land behind the sixteen.
LEMMA MaxOfTwo ==
  ASSUME NEW d \in Int
  PROVE  Max({0, d}) = IF d > 0 THEN d ELSE 0
<1> DEFINE x == IF d > 0 THEN d ELSE 0
<1>1. x \in {0, d} /\ \A y \in {0, d} : x >= y
  OBVIOUS
<1>2. \A z \in {0, d} : (\A y \in {0, d} : z >= y) => z = x
  OBVIOUS
<1> HIDE DEF x
<1>3. Max({0, d}) = x
  BY <1>1, <1>2, Zenon DEF Max
<1> QED
  BY <1>3 DEF x

\* The bytes of RFC 4291, with a gap.
LEMMA RfcIs ==
  ASSUME NEW a, IsForm(a), a.comp, GroupCount(a) <= 7
  PROVE  LET r == Rfc4291(a)
             before == 2 * Len(a.before)
             gap == 16 - 2 * GroupCount(a)
         IN /\ Len(r) = 16 /\ r \in [1..16 -> 0..255]
            /\ \A k \in 1..16 :
                 r[k] = IF k <= before THEN Right(a, k)
                        ELSE IF k <= before + gap THEN 0 ELSE Right(a, k - gap)
<1> DEFINE nb == Len(a.before)
           na == Len(a.after)
           m == GroupCount(a)
           g == 16 - 2 * m
           x == GroupsBytes(a.before)
           z == Zeros(g)
           y == GroupsBytes(a.after)
           w == x \o z
           r == w \o y
<1>1. nb \in Nat /\ na \in Nat /\ m = nb + na /\ g \in Nat /\ g = 16 - 2 * m
  <2>1. nb \in Nat /\ na \in Nat /\ m <= 7
    BY FormCounts
  <2>2. m = nb + na
    BY Zenon DEF GroupCount
  <2> HIDE DEF nb, na, m
  <2> QED
    BY <2>1, <2>2
<1>2. Rfc4291(a) = r
  <2>1. 2 * (nb + na) = 2 * m
    BY <1>1, Zenon
  <2>2. Rfc4291(a) = GroupsBytes(a.before) \o Zeros(16 - 2 * (Len(a.before) + Len(a.after)))
                     \o GroupsBytes(a.after)
    BY Zenon DEF Rfc4291
  <2> QED
    BY <2>1, <2>2, Zenon
<1>3. /\ x \in Seq(0..255) /\ Len(x) = 2 * nb
      /\ \A k \in 1..2 * nb : x[k] = Right(a, k)
  BY BeforeIs, Zenon
<1>4. /\ y \in Seq(0..255) /\ Len(y) = 2 * na
      /\ \A k \in 1..2 * na : y[k] = Right(a, 2 * nb + k)
  BY BehindGapIs, Zenon
<1> HIDE DEF nb, na, m, g, x, y
<1>5. z \in Seq(0..255) /\ Len(z) = g /\ \A k \in 1..g : z[k] = 0
  <2>1. z = [k \in 1..g |-> 0]
    BY Zenon DEF Zeros
  <2>2. z \in [1..g -> 0..255]
    BY <2>1
  <2> HIDE DEF z
  <2>3. z \in Seq(0..255) /\ Len(z) = g
    <3>1. g \in Nat
      BY <1>1, Zenon
    <3> QED
      BY <2>2, <3>1, FunSeq, ZenonT(40)
  <2> QED
    BY <2>1, <2>3, Zenon
<1> HIDE DEF z
<1>6. /\ w \in Seq(0..255) /\ Len(w) = 2 * nb + g
      /\ \A k \in 1..2 * nb + g : w[k] = IF k <= 2 * nb THEN x[k] ELSE z[k - 2 * nb]
  <2>1. /\ x \o z \in Seq(0..255) /\ Len(x \o z) = Len(x) + Len(z)
        /\ \A k \in 1..Len(x) + Len(z) : (x \o z)[k] = IF k <= Len(x) THEN x[k] ELSE z[k - Len(x)]
    <3>1. x \in Seq(0..255) /\ z \in Seq(0..255)
      BY <1>3, <1>5, Zenon
    <3> QED
      BY <3>1, ConcatProperties, ZenonT(40)
  <2> QED
    BY <1>3, <1>5, <2>1, Zenon
<1> HIDE DEF w
<1>7. /\ r \in Seq(0..255) /\ Len(r) = 16
      /\ \A k \in 1..16 : r[k] = IF k <= 2 * nb + g THEN w[k] ELSE y[k - (2 * nb + g)]
  <2>1. /\ w \o y \in Seq(0..255) /\ Len(w \o y) = Len(w) + Len(y)
        /\ \A k \in 1..Len(w) + Len(y) : (w \o y)[k] = IF k <= Len(w) THEN w[k] ELSE y[k - Len(w)]
    BY <1>4, <1>6, ConcatProperties, ZenonT(40)
  <2>2. Len(w) + Len(y) = 16
    BY <1>1, <1>4, <1>6
  <2> QED
    BY <1>6, <2>1, <2>2, Zenon
<1> HIDE DEF r
<1>8. ASSUME NEW k \in 1..16
      PROVE  r[k] = IF k <= 2 * nb THEN Right(a, k)
                    ELSE IF k <= 2 * nb + g THEN 0 ELSE Right(a, k - g)
  <2>1. CASE k <= 2 * nb
    <3>1. k <= 2 * nb + g /\ k \in 1..2 * nb + g /\ k \in 1..2 * nb
      BY <1>1, <2>1
    <3> QED
      BY <1>3, <1>6, <1>7, <2>1, <3>1, Zenon
  <2>2. CASE ~(k <= 2 * nb) /\ k <= 2 * nb + g
    <3>1. k \in 1..2 * nb + g /\ k - 2 * nb \in 1..g
      BY <1>1, <2>2
    <3> QED
      BY <1>5, <1>6, <1>7, <2>2, <3>1, Zenon
  <2>3. CASE ~(k <= 2 * nb) /\ ~(k <= 2 * nb + g)
    <3> DEFINE h == k - (2 * nb + g)
    <3>1. h \in 1..2 * na /\ 2 * nb + h = k - g
      BY <1>1, <2>3
    <3>2. r[k] = y[h]
      BY <1>7, <2>3, Zenon
    <3> HIDE DEF h
    <3> QED
      BY <1>4, <2>3, <3>1, <3>2, Zenon
  <2> QED
    BY <2>1, <2>2, <2>3
<1>9. r \in [1..16 -> 0..255]
  BY <1>7, LenProperties, ZenonT(40)
<1> QED
  BY <1>2, <1>7, <1>8, <1>9, Zenon DEF nb, g, m

\* The bytes of an address with a gap are those of RFC 4291 when the groups are even
\* and the gap is as long as what follows it.
LEMMA ExpandedIs ==
  ASSUME NEW a, IsForm(a), a.comp, GroupCount(a) <= 7
  PROVE  LET x == Ipv6Expand(BinOf(a, GroupCount(a)), 2 * Len(a.before))
         IN /\ x.ret = 0
            /\ x.out = Rfc4291(a) /\ x.past = 0
                 <=> Even(a) /\ 8 - GroupCount(a) = Len(a.after)
<1> DEFINE nb == Len(a.before)
           na == Len(a.after)
           m == GroupCount(a)
           g == 16 - 2 * m
           c == 2 * nb
           bin == BinOf(a, m)
           r == Rfc4291(a)
           x == Ipv6Expand(bin, c)
           old(k) == IF k <= 2 * m THEN bin[k] ELSE Unset
           out == [k \in 1..16 |-> IF k \in c + 1..c + g THEN 0
                                   ELSE IF k \in c + g + 1..c + 2 * g THEN bin[k - g] ELSE old(k)]
           past == Max({0, c + 2 * g - 16})
<1>1. nb \in Nat /\ na \in Nat /\ m = nb + na /\ m <= 7 /\ g \in Nat /\ g = 16 - 2 * m /\ c = 2 * nb
  <2>1. nb \in Nat /\ na \in Nat /\ m <= 7
    BY FormCounts
  <2>2. m = nb + na
    BY Zenon DEF GroupCount
  <2> HIDE DEF nb, na, m
  <2> QED
    BY <2>1, <2>2
<1>2. Len(bin) = 2 * m /\ \A k \in 1..2 * m : bin[k] = Got(a, k)
  <2>1. m \in 0..m
    <3> HIDE DEF nb, na, m
    <3>1. m \in Nat
      BY <1>1
    <3> QED
      BY <3>1
  <2> QED
    BY <2>1, BinIs, GotIs, Zenon
<1>3. /\ r \in [1..16 -> 0..255]
      /\ \A k \in 1..16 : r[k] = IF k <= c THEN Right(a, k)
                                 ELSE IF k <= c + g THEN 0 ELSE Right(a, k - g)
  BY RfcIs, Zenon
<1>4. Even(a) <=> \A k \in 1..2 * m : Got(a, k) = Right(a, k)
  BY EvenIs, Zenon
<1> HIDE DEF bin
<1>5. x = [out |-> out, past |-> past, ret |-> 0]
  BY <1>2, Zenon DEF Ipv6Expand
<1> HIDE DEF x, r, m, nb, na, c, g
<1>6. x.out = out /\ x.past = past /\ x.ret = 0
  <2> HIDE DEF out, past
  <2> QED
    BY <1>5
<1> DEFINE d == c + 2 * g - 16
<1>7. d \in Int /\ d = g - 2 * na
  BY <1>1
<1>8. past = IF d > 0 THEN d ELSE 0
  <2> HIDE DEF d
  <2>1. Max({0, d}) = IF d > 0 THEN d ELSE 0
    BY <1>7, MaxOfTwo, Zenon
  <2> QED
    BY <2>1, Zenon DEF d
<1> HIDE DEF past, d
<1>9. CASE g > 2 * na
  <2>1. past # 0
    BY <1>1, <1>7, <1>8, <1>9
  <2>2. 8 - m # na
    BY <1>1, <1>9
  <2> QED
    BY <1>6, <2>1, <2>2, Zenon DEF x, bin, c, m, nb, na
<1>10. CASE g < 2 * na
  <2>1. /\ 16 \in 1..16 /\ 16 \notin c + 1..c + g /\ 16 \notin c + g + 1..c + 2 * g
        /\ ~(16 <= 2 * m)
    BY <1>1, <1>10
  <2>2. out[16] = Unset
    BY <2>1, Zenon
  <2>3. r[16] # Unset
    <3>1. r[16] \in 0..255
      BY <1>3
    <3> QED
      BY <3>1 DEF Unset
  <2> HIDE DEF out
  <2>4. out # r
    BY <2>2, <2>3, Zenon
  <2>5. 8 - m # na
    BY <1>1, <1>10
  <2> QED
    BY <1>6, <2>4, <2>5, Zenon DEF x, bin, c, m, nb, na, r
<1>11. CASE g = 2 * na
  <2>1. past = 0 /\ 8 - m = na
    BY <1>1, <1>7, <1>8, <1>11
  <2>2. ASSUME NEW k \in 1..16
        PROVE  out[k] = IF k <= c THEN Got(a, k) ELSE IF k <= c + g THEN 0 ELSE Got(a, k - g)
    <3>1. CASE k <= c
      <4>1. k \notin c + 1..c + g /\ k \notin c + g + 1..c + 2 * g /\ k <= 2 * m /\ k \in 1..2 * m
        BY <1>1, <3>1
      <4> QED
        BY <1>2, <3>1, <4>1, Zenon
    <3>2. CASE ~(k <= c) /\ k <= c + g
      <4>1. k \in c + 1..c + g
        BY <1>1, <3>2
      <4> QED
        BY <3>2, <4>1, Zenon
    <3>3. CASE ~(k <= c) /\ ~(k <= c + g)
      <4>1. k \notin c + 1..c + g /\ k \in c + g + 1..c + 2 * g /\ k - g \in 1..2 * m
        BY <1>1, <1>11, <3>3
      <4> QED
        BY <1>2, <3>3, <4>1, Zenon
    <3> QED
      BY <3>1, <3>2, <3>3
  <2>3. ASSUME Even(a)
        PROVE  out = r
    <3>1. ASSUME NEW k \in 1..16
          PROVE  out[k] = r[k]
      <4> HIDE DEF out
      <4>1. CASE k <= c
        <5>1. k \in 1..2 * m
          BY <1>1, <4>1
        <5> QED
          BY <1>3, <1>4, <2>2, <2>3, <4>1, <5>1, Zenon
      <4>2. CASE ~(k <= c) /\ k <= c + g
        BY <1>3, <2>2, <4>2, Zenon
      <4>3. CASE ~(k <= c) /\ ~(k <= c + g)
        <5>1. k - g \in 1..2 * m
          BY <1>1, <1>11, <4>3
        <5> QED
          BY <1>3, <1>4, <2>2, <2>3, <4>3, <5>1, Zenon
      <4> QED
        BY <4>1, <4>2, <4>3
    <3>2. out = [k \in 1..16 |-> out[k]] /\ r = [k \in 1..16 |-> r[k]]
      <4> DEFINE f(k) == IF k \in c + 1..c + g THEN 0
                         ELSE IF k \in c + g + 1..c + 2 * g THEN bin[k - g] ELSE old(k)
      <4> HIDE DEF f
      <4>1. out = [k \in 1..16 |-> f(k)]
        BY Zenon DEF f
      <4> HIDE DEF out
      <4>2. out = [k \in 1..16 |-> out[k]]
        BY <4>1
      <4>3. r = [k \in 1..16 |-> r[k]]
        BY <1>3
      <4> QED
        BY <4>2, <4>3
    <3> HIDE DEF out
    <3> QED
      BY <3>1, <3>2, Zenon
  <2>4. ASSUME out = r, NEW k \in 1..2 * m
        PROVE  Got(a, k) = Right(a, k)
    <3> HIDE DEF out
    <3>1. CASE k <= c
      <4>1. k \in 1..16
        BY <1>1, <3>1
      <4> QED
        BY <1>3, <2>2, <2>4, <3>1, <4>1, Zenon
    <3>2. CASE ~(k <= c)
      <4> DEFINE h == k + g
      <4>1. h \in 1..16 /\ ~(h <= c) /\ ~(h <= c + g) /\ h - g = k
        BY <1>1, <1>11, <3>2
      <4> HIDE DEF h
      <4> QED
        BY <1>3, <2>2, <2>4, <4>1, Zenon
    <3> QED
      BY <3>1, <3>2
  <2> HIDE DEF out
  <2> QED
    BY <1>4, <1>6, <2>1, <2>3, <2>4, Zenon DEF x, bin, c, m, nb, na, r
<1>12. g > 2 * na \/ g < 2 * na \/ g = 2 * na
  BY <1>1
<1> QED
  BY <1>9, <1>10, <1>11, <1>12

\* Bytes are written behind the sixteen exactly when the gap is longer than what
\* follows it.
LEMMA OverrunIs ==
  ASSUME NEW a, IsForm(a), a.comp, GroupCount(a) <= 7
  PROVE  Ipv6Expand(BinOf(a, GroupCount(a)), 2 * Len(a.before)).past > 0
           <=> 8 - GroupCount(a) > Len(a.after)
<1> DEFINE nb == Len(a.before)
           na == Len(a.after)
           m == GroupCount(a)
           g == 16 - 2 * m
           c == 2 * nb
           d == c + 2 * g - 16
           bin == BinOf(a, m)
           x == Ipv6Expand(bin, c)
<1>1. nb \in Nat /\ na \in Nat /\ m = nb + na /\ m <= 7
  <2>1. nb \in Nat /\ na \in Nat /\ m <= 7
    BY FormCounts
  <2>2. m = nb + na
    BY Zenon DEF GroupCount
  <2> HIDE DEF nb, na, m
  <2> QED
    BY <2>1, <2>2
<1>2. Len(bin) = 2 * m
  <2>1. m \in 0..m
    <3> HIDE DEF nb, na, m
    <3> QED
      BY <1>1
  <2> QED
    BY <2>1, BinIs, Zenon
<1> HIDE DEF bin
<1>3. x.past = Max({0, d})
  BY <1>2 DEF Ipv6Expand
<1> HIDE DEF x
<1>4. d \in Int /\ (d > 0 <=> 8 - m > na)
  <2> HIDE DEF nb, na, m
  <2> QED
    BY <1>1
<1> HIDE DEF d
<1>5. x.past = IF d > 0 THEN d ELSE 0
  BY <1>3, <1>4, MaxOfTwo, Zenon
<1>6. x.past > 0 <=> d > 0
  BY <1>4, <1>5
<1> QED
  BY <1>4, <1>6, Zenon DEF x, bin

\* What Ipv6RightWhenEven says of the result x for the address a.
RightWhenEven(a, x) ==
  /\ x.ret = 0 <=> WellFormed(a)
  /\ x.ret = 0 =>
       (x.past > 0 <=> a.comp /\ 8 - Len(a.before) - Len(a.after) > Len(a.after))
  /\ x.ret = 0 =>
       (x.out = Rfc4291(a) /\ x.past = 0
          <=> Even(a) /\ (a.comp => 8 - Len(a.before) - Len(a.after) = Len(a.after)))

\* Without a gap the bytes are those of the groups.
LEMMA EightGroups ==
  ASSUME NEW a, IsForm(a), ~a.comp, WellFormed(a)
  PROVE  BinOf(a, GroupCount(a)) = Rfc4291(a) <=> Even(a)
<1> DEFINE m == GroupCount(a)
           l == 2 * m
           b == BinOf(a, m)
           r == GroupsBytes(a.before)
<1>1. Len(a.before) = m /\ m \in Nat /\ m \in 0..m
  <2> DEFINE nb == Len(a.before)
             na == Len(a.after)
  <2>1. nb \in Nat /\ na \in Nat /\ na = 0 /\ m = nb + na
    <3>1. na = 0
      BY Zenon DEF IsForm
    <3>2. m = nb + na
      BY Zenon DEF GroupCount
    <3> QED
      BY <3>1, <3>2, FormCounts, Zenon
  <2> HIDE DEF nb, na, m
  <2>2. nb = m /\ m \in Nat /\ m \in 0..m
    BY <2>1
  <2> QED
    BY <2>2, Zenon DEF nb
<1>2. Rfc4291(a) = r
  BY Zenon DEF Rfc4291
<1>3. r \in Seq(0..255) /\ Len(r) = l /\ \A k \in 1..l : r[k] = Right(a, k)
  BY <1>1, BeforeIs, Zenon
<1>4. b \in Seq(0..255) /\ Len(b) = l /\ \A k \in 1..l : b[k] = Got(a, k)
  BY <1>1, BinIs, GotIs, Zenon
<1>5. Even(a) <=> \A k \in 1..l : Got(a, k) = Right(a, k)
  BY EvenIs, Zenon
<1> HIDE DEF r, b, l
<1>6. b = r <=> \A k \in 1..l : b[k] = r[k]
  <2>1. (\A k \in 1..l : b[k] = r[k]) => b = r
    BY <1>3, <1>4, SeqEqual, Zenon
  <2> QED
    BY <2>1, Zenon
<1> QED
  BY <1>2, <1>3, <1>4, <1>5, <1>6, Zenon DEF b, m

\* What the parser returns for an address is what Ipv6RightWhenEven says.
LEMMA Ipv6Is ==
  ASSUME NEW a \in Ipv6Forms
  PROVE  RightWhenEven(a, Ipv6ToBin(Ipv6Text(a)))
<1> DEFINE x == Ipv6ToBin(Ipv6Text(a))
           m == GroupCount(a)
           nb == Len(a.before)
           na == Len(a.after)
<1>1. IsForm(a)
  BY FormIs, Zenon
<1>2. /\ ~WellFormed(a) => x.ret # 0
      /\ WellFormed(a) => x = IF a.comp THEN Ipv6Expand(BinOf(a, m), 2 * nb)
                              ELSE [ret |-> 0, out |-> BinOf(a, m), past |-> 0]
  BY <1>1, ParsedIs, Zenon
<1>3. nb \in Nat /\ na \in Nat /\ m = nb + na
  <2>1. m = nb + na
    BY Zenon DEF GroupCount
  <2> QED
    BY <1>1, <2>1, FormCounts, Zenon
<1> HIDE DEF x
<1>4. CASE ~WellFormed(a)
  BY <1>2, <1>4, Zenon DEF RightWhenEven, x
<1>5. CASE WellFormed(a) /\ a.comp
  <2> DEFINE e == Ipv6Expand(BinOf(a, m), 2 * nb)
  <2>1. GroupCount(a) <= 7
    BY <1>3, <1>5, Zenon DEF WellFormed
  <2>2. /\ e.ret = 0
        /\ e.out = Rfc4291(a) /\ e.past = 0 <=> Even(a) /\ 8 - GroupCount(a) = Len(a.after)
        /\ e.past > 0 <=> 8 - GroupCount(a) > Len(a.after)
    BY <1>1, <1>5, <2>1, ExpandedIs, OverrunIs, Zenon
  <2>3. 8 - m = 8 - nb - na
    <3> HIDE DEF m, nb, na
    <3> QED
      BY <1>3
  <2>4. x = e
    BY <1>2, <1>5, Zenon
  <2> HIDE DEF e
  <2> QED
    BY <1>5, <2>2, <2>3, <2>4, Zenon DEF RightWhenEven, x
<1>6. CASE WellFormed(a) /\ ~a.comp
  <2> DEFINE b == BinOf(a, m)
  <2>1. b = Rfc4291(a) <=> Even(a)
    BY <1>1, <1>6, EightGroups, Zenon
  <2>2. x = [ret |-> 0, out |-> b, past |-> 0]
    BY <1>2, <1>6, Zenon
  <2> HIDE DEF b
  <2>3. x.ret = 0 /\ x.out = b /\ x.past = 0 /\ ~(x.past > 0)
    BY <2>2
  <2> QED
    BY <1>6, <2>1, <2>3, Zenon DEF RightWhenEven, x
<1> QED
  BY <1>4, <1>5, <1>6, Zenon

-----------------------------------------------------------------------------
(* URIs: where the parsers stop, and where appendix B of RFC 3986 cuts.    *)

\* The first of a set of places.
LEMMA FirstFrom ==
  ASSUME NEW i \in Nat, NEW n \in Nat, NEW T \in SUBSET (i..n), NEW t \in T
  PROVE  \E k \in i..n : k \in T /\ \A h \in i..k - 1 : h \notin T
<1>1. T \subseteq Nat /\ T # {}
  OBVIOUS
<1>2. PICK k \in T : \A h \in T : ~(<<h, k>> \in OpToRel(<, Nat))
  BY <1>1, NatLessThanWellFounded, WFMin
<1>3. k \in i..n
  OBVIOUS
<1>4. \A h \in i..k - 1 : h \notin T
  <2> SUFFICES ASSUME NEW h \in i..k - 1, h \in T PROVE FALSE
    OBVIOUS
  <2>1. h \in Nat /\ k \in Nat /\ h < k
    BY <1>3
  <2> QED
    BY <1>2, <2>1 DEF OpToRel
<1> QED
  BY <1>2, <1>3, <1>4

\* The zero behind a string is its only zero.
LEMMA ZeroIsEnd ==
  ASSUME NEW s \in Seq(1..255), NEW k \in Nat
  PROVE  At(s, k) = 0 <=> k >= Len(s)
<1>1. Len(s) \in Nat
  OBVIOUS
<1> QED
  BY <1>1, StringIs

\* From a to e there are only characters of Chosen.
AllIn(s, a, e, Chosen) == e \in a..Len(s) /\ \A k \in a..e - 1 : At(s, k) \in Chosen

\* Past stops at the first character that is not in the set,
LEMMA PastIs ==
  ASSUME NEW s \in Seq(1..255), NEW pos \in 0..Len(s), NEW C, 0 \notin C
  PROVE  AllIn(s, pos, Past(s, pos, C), C) /\ At(s, Past(s, pos, C)) \notin C
<1> DEFINE n == Len(s)
           T == {k \in pos..n : At(s, k) \notin C}
           e == Past(s, pos, C)
<1>1. n \in Nat /\ pos \in Nat
  OBVIOUS
<1>2. e = CHOOSE k \in pos..n : At(s, k) \notin C /\ \A h \in pos..k - 1 : ~(At(s, h) \notin C)
  BY DEF Past, FirstAt
<1>3. n \in T
  BY <1>1, ZeroIsEnd
<1>4. \E k \in pos..n : k \in T /\ \A h \in pos..k - 1 : h \notin T
  <2>1. T \in SUBSET (pos..n)
    OBVIOUS
  <2> HIDE DEF T
  <2> QED
    BY <1>1, <1>3, <2>1, FirstFrom
<1>5. \E k \in pos..n : At(s, k) \notin C /\ \A h \in pos..k - 1 : ~(At(s, h) \notin C)
  <2>1. PICK k \in pos..n : k \in T /\ \A h \in pos..k - 1 : h \notin T
    BY <1>4
  <2>2. \A h \in pos..k - 1 : h \in pos..n
    BY <1>1
  <2> QED
    BY <2>1, <2>2
<1> HIDE DEF e
<1>6. e \in pos..n /\ At(s, e) \notin C /\ \A h \in pos..e - 1 : ~(At(s, h) \notin C)
  BY <1>2, <1>5
<1> QED
  BY <1>6 DEF AllIn, e

\* and PastEnc goes over encoded octets too, whose digits are in every set.
LEMMA PastEncIs ==
  ASSUME NEW s \in Seq(1..255), NEW pos \in 0..Len(s), NEW C, 0 \notin C
  PROVE  LET e == PastEnc(s, pos, C)
         IN /\ AllIn(s, pos, e, C \cup {37}) /\ At(s, e) \notin C /\ ~IsPctEnc(s, e)
            /\ \A k \in pos..e - 1 : At(s, k) \in C \/ IsPctEnc(s, k)
<1> DEFINE n == Len(s)
           Out(k) == At(s, k) \notin C /\ ~IsPctEnc(s, k)
           T == {k \in pos..n : Out(k)}
           e == PastEnc(s, pos, C)
<1>1. n \in Nat /\ pos \in Nat
  OBVIOUS
<1>2. e = CHOOSE k \in pos..n : Out(k) /\ \A h \in pos..k - 1 : ~Out(h)
  BY DEF PastEnc, FirstAt
<1>3. n \in T
  BY <1>1, ZeroIsEnd DEF IsPctEnc
<1>4. \E k \in pos..n : k \in T /\ \A h \in pos..k - 1 : h \notin T
  <2>1. T \in SUBSET (pos..n)
    OBVIOUS
  <2> HIDE DEF T
  <2> QED
    BY <1>1, <1>3, <2>1, FirstFrom
<1>5. \E k \in pos..n : Out(k) /\ \A h \in pos..k - 1 : ~Out(h)
  <2>1. PICK k \in pos..n : k \in T /\ \A h \in pos..k - 1 : h \notin T
    BY <1>4
  <2>2. \A h \in pos..k - 1 : h \in pos..n
    BY <1>1
  <2> QED
    BY <2>1, <2>2
<1>6. e \in pos..n /\ Out(e) /\ \A h \in pos..e - 1 : ~Out(h)
  <2> HIDE DEF e, Out
  <2> QED
    BY <1>2, <1>5
<1>7. \A k : IsPctEnc(s, k) => At(s, k) = 37
  BY DEF IsPctEnc
<1> HIDE DEF e
<1> QED
  BY <1>6, <1>7 DEF AllIn, e

\* UpTo is the first of the ends, or the end of the string.
LEMMA UpToIs ==
  ASSUME NEW s \in Seq(1..255), NEW pos \in 0..Len(s), NEW ends,
         NEW e \in pos..Len(s), e = Len(s) \/ At(s, e) \in ends,
         \A k \in pos..e - 1 : At(s, k) \notin ends
  PROVE  UpTo(s, pos, ends) = e
<1> DEFINE n == Len(s)
           End(k) == k = n \/ At(s, k) \in ends
           c == UpTo(s, pos, ends)
<1>1. n \in Nat /\ pos \in Nat /\ e \in Nat
  OBVIOUS
<1>2. c = CHOOSE k \in pos..n : End(k) /\ \A h \in pos..k - 1 : ~End(h)
  BY DEF UpTo, FirstAt
<1>3. End(e) /\ \A h \in pos..e - 1 : ~End(h)
  BY <1>1
<1> HIDE DEF End, c
<1>4. c \in pos..n /\ End(c) /\ \A h \in pos..c - 1 : ~End(h)
  BY <1>2, <1>3
<1>5. ~(c < e) /\ ~(e < c)
  BY <1>1, <1>3, <1>4
<1> QED
  BY <1>1, <1>4, <1>5 DEF c

\* There is such a place.
LEMMA UpToExists ==
  ASSUME NEW s \in Seq(1..255), NEW pos \in 0..Len(s), NEW ends
  PROVE  LET c == UpTo(s, pos, ends)
         IN /\ c \in pos..Len(s) /\ (c = Len(s) \/ At(s, c) \in ends)
            /\ \A k \in pos..c - 1 : At(s, k) \notin ends
<1> DEFINE n == Len(s)
           T == {k \in pos..n : k = n \/ At(s, k) \in ends}
<1>1. n \in Nat /\ pos \in Nat /\ n \in T
  OBVIOUS
<1>2. T \in SUBSET (pos..n)
  OBVIOUS
<1>3. \E k \in pos..n : k \in T /\ \A h \in pos..k - 1 : h \notin T
  <2> HIDE DEF T
  <2> QED
    BY <1>1, <1>2, FirstFrom
<1>4. PICK e \in pos..n : e \in T /\ \A h \in pos..e - 1 : h \notin T
  BY <1>3
<1>5. \A h \in pos..e - 1 : h \in pos..n
  BY <1>1
<1>6. (e = n \/ At(s, e) \in ends) /\ \A k \in pos..e - 1 : At(s, k) \notin ends
  BY <1>4, <1>5
<1>7. UpTo(s, pos, ends) = e
  BY <1>6, UpToIs
<1> QED
  BY <1>6, <1>7

\* The fields of the parser.
Fields == {"pos", "ret", "scheme", "userinfo", "host", "host_type", "port", "path", "query", "fragment"}
UriTaking(s, t) == DOMAIN t = Fields /\ t.pos \in 0..Len(s)

\* Behind a path the rest is a query and a fragment: an accepted string goes on
\* with what ends a path, and is cut where the standard cuts it.
TakeRest(s, t) == UriEnd(s, TakeFragment(s, TakeQuery(s, t)))

\* A character is one of the string, or the zero behind it.
LEMMA NextPlace ==
  ASSUME NEW s \in Seq(1..255), NEW k \in 0..Len(s), At(s, k) # 0
  PROVE  k + 1 \in 0..Len(s)
<1>1. Len(s) \in Nat /\ ~(k >= Len(s))
  BY ZeroIsEnd
<1> QED
  BY <1>1

\* What a query is taken to.
LEMMA QueryIs ==
  ASSUME NEW s \in Seq(1..255), NEW t, UriTaking(s, t)
  PROVE  LET u == TakeQuery(s, t) e == ParseQuery(s, t.pos + 1)
         IN /\ UriTaking(s, u) /\ \A x \in Fields \ {"pos", "query"} : u[x] = t[x]
            /\ At(s, t.pos) # 63 => u.pos = t.pos /\ u.query = t.query
            /\ At(s, t.pos) = 63 =>
                 /\ u.pos = e /\ u.query = View(t.pos + 1, e)
                 /\ AllIn(s, t.pos + 1, e, query_cset \cup {37})
<1> DEFINE e == ParseQuery(s, t.pos + 1)
           u == TakeQuery(s, t)
<1>1. CASE At(s, t.pos) # 63
  <2>1. u = t
    BY <1>1 DEF TakeQuery
  <2> QED
    BY <1>1, <2>1
<1>2. CASE At(s, t.pos) = 63
  <2>1. u = [t EXCEPT !.pos = e, !.query = View(t.pos + 1, e)]
    BY <1>2 DEF TakeQuery
  <2>2. t.pos + 1 \in 0..Len(s)
    BY <1>2, NextPlace DEF UriTaking
  <2>3. AllIn(s, t.pos + 1, e, query_cset \cup {37})
    <3>1. 0 \notin query_cset
      BY DelimitersAssumption, Zenon
    <3> QED
      BY <2>2, <3>1, PastEncIs DEF ParseQuery
  <2>4. e \in 0..Len(s)
    BY <2>2, <2>3 DEF AllIn
  <2> HIDE DEF e
  <2>5. DOMAIN u = Fields /\ u.pos = e /\ u.query = View(t.pos + 1, e)
        /\ \A x \in Fields \ {"pos", "query"} : u[x] = t[x]
    BY <2>1 DEF UriTaking, Fields
  <2> QED
    BY <1>2, <2>3, <2>4, <2>5 DEF UriTaking, e
<1> QED
  BY <1>1, <1>2

\* What a fragment is taken to.
LEMMA FragmentIs ==
  ASSUME NEW s \in Seq(1..255), NEW t, UriTaking(s, t)
  PROVE  LET u == TakeFragment(s, t) e == ParseFragment(s, t.pos + 1)
         IN /\ UriTaking(s, u) /\ \A x \in Fields \ {"pos", "fragment"} : u[x] = t[x]
            /\ At(s, t.pos) # 35 => u.pos = t.pos /\ u.fragment = t.fragment
            /\ At(s, t.pos) = 35 => u.pos = e /\ u.fragment = View(t.pos + 1, e)
<1> DEFINE e == ParseFragment(s, t.pos + 1)
           u == TakeFragment(s, t)
<1>1. CASE At(s, t.pos) # 35
  <2>1. u = t
    BY <1>1 DEF TakeFragment
  <2> QED
    BY <1>1, <2>1
<1>2. CASE At(s, t.pos) = 35
  <2>1. u = [t EXCEPT !.pos = e, !.fragment = View(t.pos + 1, e)]
    BY <1>2 DEF TakeFragment
  <2>2. t.pos + 1 \in 0..Len(s)
    BY <1>2, NextPlace DEF UriTaking
  <2>3. AllIn(s, t.pos + 1, e, fragment_cset \cup {37})
    <3>1. 0 \notin fragment_cset
      BY DelimitersAssumption, Zenon
    <3> QED
      BY <2>2, <3>1, PastEncIs DEF ParseFragment
  <2>4. e \in 0..Len(s)
    BY <2>2, <2>3 DEF AllIn
  <2> HIDE DEF e
  <2>5. DOMAIN u = Fields /\ u.pos = e /\ u.fragment = View(t.pos + 1, e)
        /\ \A x \in Fields \ {"pos", "fragment"} : u[x] = t[x]
    BY <2>1 DEF UriTaking, Fields
  <2> QED
    BY <1>2, <2>4, <2>5 DEF UriTaking, e
<1> QED
  BY <1>1, <1>2

\* The end.
LEMMA EndIs ==
  ASSUME NEW s \in Seq(1..255), NEW t, UriTaking(s, t), UriEnd(s, t).ret = 0
  PROVE  UriEnd(s, t) = t /\ t.pos = Len(s)
<1>1. CASE At(s, t.pos) # 0
  <2>1. UriEnd(s, t).ret = IF t.ret = 0 THEN EINVAL ELSE t.ret
    BY <1>1 DEF UriEnd, Refused, UriTaking, Fields
  <2> QED
    BY <2>1 DEF EINVAL
<1>2. CASE At(s, t.pos) = 0
  <2>1. t.pos >= Len(s)
    BY <1>2, ZeroIsEnd DEF UriTaking
  <2> QED
    BY <1>2, <2>1 DEF UriEnd, UriTaking
<1> QED
  BY <1>1, <1>2

\* The query ends at the first '#', the fragment at the end, and nothing else
\* goes on behind a path.
LEMMA RestIs ==
  ASSUME NEW s \in Seq(1..255), NEW t, UriTaking(s, t), t.query = NULL, t.fragment = NULL,
         TakeRest(s, t).ret = 0
  PROVE  LET q == t.pos f == UpTo(s, t.pos, {35}) r == TakeRest(s, t)
         IN /\ At(s, q) \in {0, 35, 63} /\ (At(s, q) = 0 => q = Len(s))
            /\ r.query = (IF At(s, q) = 63 THEN View(q + 1, f) ELSE NULL)
            /\ r.fragment = (IF At(s, f) = 35 THEN View(f + 1, Len(s)) ELSE NULL)
            /\ \A x \in Fields \ {"pos", "query", "fragment"} : r[x] = t[x]
<1> DEFINE q == t.pos
           f == UpTo(s, q, {35})
           u == TakeQuery(s, t)
           v == TakeFragment(s, u)
           r == TakeRest(s, t)
           e == ParseQuery(s, q + 1)
           g == ParseFragment(s, u.pos + 1)
           n == Len(s)
<1>1. n \in Nat /\ q \in 0..n
  BY DEF UriTaking
<1>2. /\ UriTaking(s, u) /\ \A x \in Fields \ {"pos", "query"} : u[x] = t[x]
      /\ At(s, q) # 63 => u.pos = q /\ u.query = NULL
      /\ At(s, q) = 63 => /\ u.pos = e /\ u.query = View(q + 1, e)
                          /\ AllIn(s, q + 1, e, query_cset \cup {37})
  BY QueryIs, ZenonT(40)
<1>3. /\ UriTaking(s, v) /\ \A x \in Fields \ {"pos", "fragment"} : v[x] = u[x]
      /\ At(s, u.pos) # 35 => v.pos = u.pos /\ v.fragment = u.fragment
      /\ At(s, u.pos) = 35 => v.pos = g /\ v.fragment = View(u.pos + 1, g)
  BY <1>2, FragmentIs, Zenon
<1>4. r = v /\ v.pos = n
  BY <1>3, EndIs, Zenon DEF TakeRest
<1>5. \A k \in q..u.pos - 1 : At(s, k) # 35
  <2>1. CASE At(s, q) # 63
    BY <2>1, <1>1, <1>2
  <2>2. CASE At(s, q) = 63
    <3>1. \A c \in query_cset \cup {37} : c # 35
      BY DelimitersAssumption
    <3>2. \A k \in q + 1..u.pos - 1 : At(s, k) \in query_cset \cup {37}
      BY <2>2, <1>2, Zenon DEF AllIn
    <3>3. \A k \in q..u.pos - 1 : k = q \/ k \in q + 1..u.pos - 1
      BY <1>1, <1>2 DEF UriTaking
    <3> QED
      BY <2>2, <3>1, <3>2, <3>3
  <2> QED
    BY <2>1, <2>2
<1>6. u.pos \in q..n
  <2>1. At(s, q) = 63 => e \in q + 1..n
    BY <1>2 DEF AllIn
  <2> QED
    BY <2>1, <1>1, <1>2
<1>7. u.pos = n \/ At(s, u.pos) = 35
  BY <1>3, <1>4
<1>8. f = u.pos
  <2> DEFINE E == {35}
  <2>1. (u.pos = n \/ At(s, u.pos) \in E) /\ \A k \in q..u.pos - 1 : At(s, k) \notin E
    BY <1>5, <1>7
  <2> HIDE DEF E, u, q
  <2>2. UpTo(s, q, E) = u.pos
    BY <2>1, <1>1, <1>6, UpToIs
  <2> QED
    BY <2>2 DEF E
<1> HIDE DEF f, u, v, r, e, g, q
<1>9. t.fragment = NULL /\ "fragment" \in Fields \ {"pos", "query"} /\ "query" \in Fields \ {"pos", "fragment"}
  BY DEF Fields
<1>10. r.query = (IF At(s, q) = 63 THEN View(q + 1, f) ELSE NULL)
  BY <1>2, <1>3, <1>4, <1>8, <1>9
<1>11. r.fragment = (IF At(s, f) = 35 THEN View(f + 1, n) ELSE NULL)
  BY <1>2, <1>3, <1>4, <1>8, <1>9
<1>12. \A x \in Fields \ {"pos", "query", "fragment"} : r[x] = t[x]
  BY <1>2, <1>3, <1>4
<1>13. At(s, q) \in {0, 35, 63} /\ (At(s, q) = 0 => q = n)
  <2>1. CASE At(s, q) = 63
    BY <2>1
  <2>2. CASE At(s, q) # 63
    <3>1. u.pos = q
      BY <2>2, <1>2
    <3>2. q = n => At(s, q) = 0
      BY <1>1, ZeroIsEnd
    <3>3. At(s, q) = 0 => q >= n
      BY <1>1, ZeroIsEnd
    <3> QED
      BY <1>1, <1>7, <3>1, <3>2, <3>3
  <2> QED
    BY <2>1, <2>2
<1> QED
  BY <1>10, <1>11, <1>12, <1>13 DEF q, f, r

\* The first part of a path stops at a slash or at what is no character of a path.
UriPartEnds(s, k) == At(s, k) = 47 \/ (At(s, k) \notin path_cset /\ ~IsPctEnc(s, k))
LEMMA FirstPartIs ==
  ASSUME NEW s \in Seq(1..255), NEW pos \in 0..Len(s)
  PROVE  LET first == FirstAt(pos, Len(s), LAMBDA k : \/ At(s, k) = 47
                                                      \/ At(s, k) \notin path_cset /\ ~IsPctEnc(s, k))
         IN first \in pos..Len(s) /\ UriPartEnds(s, first)
<1> DEFINE n == Len(s)
           first == FirstAt(pos, n, LAMBDA k : \/ At(s, k) = 47
                                               \/ At(s, k) \notin path_cset /\ ~IsPctEnc(s, k))
           T == {k \in pos..n : UriPartEnds(s, k)}
<1>1. n \in Nat /\ pos \in Nat
  OBVIOUS
<1>2. first = CHOOSE k \in pos..n : UriPartEnds(s, k) /\ \A h \in pos..k - 1 : ~UriPartEnds(s, h)
  BY DEF FirstAt, UriPartEnds
<1>3. n \in T
  <2>1. At(s, n) = 0 /\ 0 \notin path_cset
    BY <1>1, ZeroIsEnd, DelimitersAssumption
  <2> QED
    BY <1>1, <2>1 DEF IsPctEnc, UriPartEnds
<1>4. \E k \in pos..n : k \in T /\ \A h \in pos..k - 1 : h \notin T
  <2>1. T \in SUBSET (pos..n)
    OBVIOUS
  <2> HIDE DEF T
  <2> QED
    BY <1>1, <1>3, <2>1, FirstFrom
<1>5. \E k \in pos..n : UriPartEnds(s, k) /\ \A h \in pos..k - 1 : ~UriPartEnds(s, h)
  <2>1. PICK k \in pos..n : k \in T /\ \A h \in pos..k - 1 : h \notin T
    BY <1>4
  <2>2. \A h \in pos..k - 1 : h \in pos..n
    BY <1>1
  <2> QED
    BY <2>1, <2>2
<1> HIDE DEF first
<1>6. first \in pos..n /\ UriPartEnds(s, first)
  BY <1>2, <1>5
<1> QED
  BY <1>6 DEF first

\* Before the first of the delimiters there is a colon.
ColonFirst(s, p) ==
  \E c \in p..Len(s) : At(s, c) = 58 /\ \A k \in p..c - 1 : At(s, k) \notin {35, 47, 58, 63}

\* The path and what is behind it.  Behind an authority it starts with a slash or
\* is empty, and without one and without a scheme it has no early colon.
LEMMA PathOnIs ==
  ASSUME NEW s \in Seq(1..255), NEW t, UriTaking(s, t), t.query = NULL, t.fragment = NULL,
         TakeRest(s, TakePath(s, t)).ret = 0
  PROVE  LET p == t.pos q == UpTo(s, t.pos, {35, 63}) f == UpTo(s, q, {35})
             r == TakeRest(s, TakePath(s, t))
         IN /\ t.ret = 0 /\ r.path = View(p, q)
            /\ r.query = (IF At(s, q) = 63 THEN View(q + 1, f) ELSE NULL)
            /\ r.fragment = (IF At(s, f) = 35 THEN View(f + 1, Len(s)) ELSE NULL)
            /\ \A x \in Fields \ {"pos", "path", "query", "fragment"} : r[x] = t[x]
            /\ t.host # NULL => At(s, p) \in {0, 35, 47, 63} /\ (At(s, p) = 0 => p = Len(s))
            /\ t.host = NULL /\ t.scheme = NULL => ~ColonFirst(s, p)
<1> DEFINE p == t.pos
           n == Len(s)
           end == ParsePath(s, p, t.scheme # NULL, t.host # NULL)
           e == PastEnc(s, p, path_cset)
           u == TakePath(s, t)
           r == TakeRest(s, u)
           first == FirstAt(p, n, LAMBDA k : \/ At(s, k) = 47
                                             \/ At(s, k) \notin path_cset /\ ~IsPctEnc(s, k))
           refused == \/ t.host # NULL /\ At(s, p) # 47 /\ (At(s, p) \in path_cset \/ IsPctEnc(s, p))
                      \/ t.host = NULL /\ t.scheme = NULL /\ \E k \in p..first - 1 : At(s, k) = Colon
<1>1. n \in Nat /\ p \in 0..n
  BY DEF UriTaking
<1>2. end = IF refused THEN None ELSE e
  BY DEF ParsePath
<1>3. /\ e \in p..n /\ At(s, e) \notin path_cset /\ ~IsPctEnc(s, e)
      /\ \A k \in p..e - 1 : At(s, k) \in path_cset \cup {37}
      /\ \A k \in p..e - 1 : At(s, k) \in path_cset \/ IsPctEnc(s, k)
  <2>1. 0 \notin path_cset
    BY DelimitersAssumption
  <2> QED
    BY <1>1, <2>1, PastEncIs, ZenonT(40) DEF AllIn
<1>4. first \in p..n /\ UriPartEnds(s, first)
  BY <1>1, FirstPartIs, Zenon
<1>5. u = IF end = None THEN [t EXCEPT !.ret = IF @ = 0 THEN EINVAL ELSE @]
                       ELSE [t EXCEPT !.pos = end, !.path = View(p, end)]
  BY DEF TakePath, Refused
<1>0. TakeRest(s, u).ret = 0
  OBVIOUS
<1> HIDE DEF end, e, u, first, refused, p
<1>6. UriTaking(s, u) /\ u.query = NULL /\ u.fragment = NULL
  <2>1. end # None => end \in 0..n
    BY <1>1, <1>2, <1>3
  <2>2. DOMAIN u = Fields /\ u.query = t.query /\ u.fragment = t.fragment
    BY <1>5 DEF UriTaking, Fields
  <2>3. u.pos = IF end = None THEN p ELSE end
    BY <1>5 DEF UriTaking, Fields, p
  <2> QED
    BY <1>1, <2>1, <2>2, <2>3 DEF UriTaking
<1>7. /\ At(s, u.pos) \in {0, 35, 63} /\ (At(s, u.pos) = 0 => u.pos = n)
      /\ r.query = (IF At(s, u.pos) = 63 THEN View(u.pos + 1, UpTo(s, u.pos, {35})) ELSE NULL)
      /\ r.fragment = (IF At(s, UpTo(s, u.pos, {35})) = 35 THEN View(UpTo(s, u.pos, {35}) + 1, n) ELSE NULL)
      /\ \A x \in Fields \ {"pos", "query", "fragment"} : r[x] = u[x]
  BY <1>0, <1>6, RestIs
<1>8. end # None
  <2>1. SUFFICES ASSUME end = None PROVE FALSE
    OBVIOUS
  <2>2. u.ret = IF t.ret = 0 THEN EINVAL ELSE t.ret
    BY <1>5, <2>1 DEF UriTaking, Fields
  <2>3. r.ret = u.ret
    BY <1>7 DEF Fields
  <2> QED
    BY <1>0, <2>2, <2>3 DEF EINVAL
<1>9. ~refused /\ end = e
  BY <1>2, <1>8
<1>10. u = [t EXCEPT !.pos = e, !.path = View(p, e)]
  BY <1>5, <1>8, <1>9
<1>11. u.pos = e /\ u.path = View(p, e) /\ \A x \in Fields \ {"pos", "path"} : u[x] = t[x]
  BY <1>10 DEF UriTaking, Fields
<1>12. UpTo(s, p, {35, 63}) = e
  <2> DEFINE E == {35, 63}
  <2>1. \A c \in path_cset \cup {37} : c \notin E
    BY DelimitersAssumption
  <2>2. e = n \/ At(s, e) \in E
    BY <1>7, <1>11
  <2>3. \A k \in p..e - 1 : At(s, k) \notin E
    BY <1>3, <2>1
  <2> HIDE DEF E
  <2>4. UpTo(s, p, E) = e
    BY <2>2, <2>3, <1>1, <1>3, UpToIs
  <2> QED
    BY <2>4 DEF E
<1>13. t.ret = 0
  BY <1>0, <1>7, <1>11 DEF Fields
<1>14. ASSUME t.host # NULL PROVE At(s, p) \in {0, 35, 47, 63} /\ (At(s, p) = 0 => p = n)
  <2>1. At(s, p) = 47 \/ (At(s, p) \notin path_cset /\ ~IsPctEnc(s, p))
    BY <1>9, <1>14 DEF refused
  <2>2. CASE At(s, p) = 47
    BY <2>2
  <2>3. CASE At(s, p) # 47
    <3>1. ~(p \in p..e - 1)
      BY <1>3, <2>1, <2>3
    <3>2. p = e
      BY <1>1, <1>3, <3>1
    <3> QED
      BY <3>2, <1>7, <1>11
  <2> QED
    BY <2>2, <2>3
<1>15. ASSUME t.host = NULL, t.scheme = NULL, ColonFirst(s, p) PROVE FALSE
  <2>1. PICK c \in p..n : At(s, c) = 58 /\ \A k \in p..c - 1 : At(s, k) \notin {35, 47, 58, 63}
    BY <1>15 DEF ColonFirst
  <2>2. ~(c \in p..first - 1)
    BY <1>9, <1>15, <2>1 DEF refused, Colon
  <2>3. first \in p..c
    BY <1>1, <1>4, <2>1, <2>2
  <2>4. At(s, first) # 47
    <3>1. first # c => first \in p..c - 1
      BY <1>1, <2>1, <2>3
    <3> QED
      BY <2>1, <3>1
  <2>5. ~(first \in p..e - 1)
    BY <1>3, <1>4, <2>4 DEF UriPartEnds
  <2>6. e \in p..c
    BY <1>1, <1>3, <2>1, <2>3, <2>5
  <2>7. At(s, e) \in {0, 35, 63} /\ (At(s, e) = 0 => e = n)
    BY <1>7, <1>11
  <2>8. e # c
    BY <2>1, <2>7
  <2>9. e \in p..c - 1
    BY <1>1, <1>3, <2>1, <2>6, <2>8
  <2>10. At(s, e) = 0
    BY <2>1, <2>7, <2>9
  <2> QED
    BY <1>1, <2>1, <2>7, <2>9, <2>10
<1>16. \A x \in Fields \ {"pos", "path", "query", "fragment"} : r[x] = t[x]
  BY <1>7, <1>11
<1>17. r.path = View(p, e)
  BY <1>7, <1>11 DEF Fields
<1>18. /\ r.query = (IF At(s, e) = 63 THEN View(e + 1, UpTo(s, e, {35})) ELSE NULL)
       /\ r.fragment = (IF At(s, UpTo(s, e, {35})) = 35 THEN View(UpTo(s, e, {35}) + 1, n) ELSE NULL)
  BY <1>7, <1>11
<1> QED
  BY <1>12, <1>13, <1>14, <1>15, <1>16, <1>17, <1>18, Zenon DEF p, r, u

\* The userinfo ends at its '@'.
LEMMA UserinfoIs ==
  ASSUME NEW s \in Seq(1..255), NEW t, UriTaking(s, t), t.userinfo = NULL
  PROVE  LET u == TakeUserinfo(s, t)
         IN /\ UriTaking(s, u) /\ \A x \in Fields \ {"pos", "userinfo"} : u[x] = t[x]
            /\ u.pos \in t.pos..Len(s)
            /\ \A k \in t.pos..u.pos - 1 : At(s, k) \notin {35, 47, 63}
            /\ IF u.userinfo = NULL THEN u.pos = t.pos
               ELSE /\ u.pos - 1 \in t.pos..Len(s) - 1 /\ At(s, u.pos - 1) = 64
                    /\ u.userinfo = View(t.pos, u.pos - 1)
<1> DEFINE e == PastEnc(s, t.pos, userinfo_cset)
           end == ParseUserinfo(s, t.pos)
           u == TakeUserinfo(s, t)
           n == Len(s)
<1>1. n \in Nat /\ t.pos \in 0..n
  BY DEF UriTaking
<1>2. e \in t.pos..n /\ \A k \in t.pos..e - 1 : At(s, k) \in userinfo_cset \cup {37}
  <2>1. 0 \notin userinfo_cset
    BY DelimitersAssumption
  <2> QED
    BY <1>1, <2>1, PastEncIs, Zenon DEF AllIn
<1>3. end = IF At(s, e) = 64 THEN e + 1 ELSE None
  BY <1>1, <1>2 DEF ParseUserinfo, Expect, None
<1>4. u = IF end = None THEN t ELSE [t EXCEPT !.pos = end, !.userinfo = View(t.pos, end - 1)]
  BY Zenon DEF TakeUserinfo
<1> HIDE DEF e, end, u
<1>5. CASE At(s, e) # 64
  <2>1. u = t
    BY <1>3, <1>4, <1>5
  <2> QED
    BY <1>1, <2>1 DEF u
<1>6. CASE At(s, e) = 64
  <2>1. e + 1 \in 0..n /\ e + 1 # None
    BY <1>1, <1>2, <1>6, NextPlace DEF None
  <2>2. end = e + 1 /\ end # None
    BY <1>3, <1>6, <2>1
  <2>3. end - 1 = e
    BY <1>1, <1>2, <2>2
  <2>4. u = [t EXCEPT !.pos = end, !.userinfo = View(t.pos, end - 1)]
    BY <1>4, <2>2
  <2>5. /\ DOMAIN u = Fields /\ u.pos = end /\ u.userinfo = View(t.pos, end - 1)
        /\ \A x \in Fields \ {"pos", "userinfo"} : u[x] = t[x]
    BY <2>4 DEF UriTaking, Fields
  <2>6. View(t.pos, e) # NULL
    BY DEF View, NULL
  <2>7. ASSUME NEW k \in t.pos..u.pos - 1 PROVE At(s, k) \notin {35, 47, 63}
    <3>1. k = e \/ k \in t.pos..e - 1
      BY <1>1, <1>2, <2>2, <2>5
    <3>2. \A c \in userinfo_cset \cup {37} : c \notin {35, 47, 63}
      BY DelimitersAssumption
    <3> QED
      BY <1>2, <1>6, <3>1, <3>2
  <2>8. u.pos \in t.pos..n /\ u.pos - 1 = e /\ e \in t.pos..n - 1
    BY <1>1, <1>2, <2>1, <2>2, <2>5
  <2>9. UriTaking(s, u)
    BY <2>1, <2>2, <2>5 DEF UriTaking
  <2> QED
    BY <1>6, <2>2, <2>3, <2>5, <2>6, <2>7, <2>8, <2>9 DEF u
<1> QED
  BY <1>5, <1>6

\* The position moves over an IPv4 address and over no other host.
LEMMA HostIs ==
  ASSUME NEW s \in Seq(1..255), NEW pos \in 0..Len(s)
  PROVE  LET h == ParseHost(s, pos)
         IN /\ h.pos \in pos..Len(s) /\ \A k \in pos..h.pos - 1 : At(s, k) \notin {35, 47, 63}
            /\ IF h.type = "IPV4" THEN IsIpv4(SubSeq(s, pos + 1, h.pos)) ELSE h.pos = pos
<1> DEFINE k == FirstAt(pos, Len(s), LAMBDA h : At(s, h) \notin Digit \cup {Dot})
           h == ParseHost(s, pos)
           host(type, next) == [type |-> type, pos |-> next]
<1>1. Len(s) \in Nat /\ pos \in 0..Len(s)
  OBVIOUS
<1>2. k = Past(s, pos, Digit \cup {Dot})
  BY DEF Past
<1>3. k \in pos..Len(s) /\ \A i \in pos..k - 1 : At(s, i) \in Digit \cup {Dot}
  <2>1. 0 \notin Digit \cup {Dot}
    BY DEF Digit, Dot
  <2> QED
    <3> DEFINE C == Digit \cup {Dot}
    <3> HIDE DEF C, k
    <3>1. AllIn(s, pos, Past(s, pos, C), C)
      BY <2>1, PastIs DEF C
    <3> QED
      BY <1>2, <3>1, Zenon DEF AllIn, C
<1>4. \/ h \in {host("IPVF", pos), host("INVALID", pos), host("SMASHED", pos), host("IPV6", pos),
            host("NAME", pos)}
      \/ h = host("IPV4", k) /\ Ipv4ToBin(SubSeq(s, pos + 1, k)).ret = 0
  BY DEF ParseHost
<1> HIDE DEF k, h
<1>5. CASE h \in {host("IPVF", pos), host("INVALID", pos), host("SMASHED", pos), host("IPV6", pos),
            host("NAME", pos)}
  <2>1. h.pos = pos /\ h.type # "IPV4"
    BY <1>5
  <2> QED
    BY <1>1, <2>1 DEF h
<1>6. CASE h = host("IPV4", k) /\ Ipv4ToBin(SubSeq(s, pos + 1, k)).ret = 0
  <2>1. h.pos = k /\ h.type = "IPV4"
    BY <1>6
  <2>2. SubSeq(s, pos + 1, k) \in Seq(1..255)
    <3>1. pos + 1 \in Int /\ k \in Int /\ \A i \in pos + 1..k : i \in 1..Len(s)
      BY <1>1, <1>3
    <3>2. \A i \in 1..Len(s) : s[i] \in 1..255
      BY ElementOfSeq
    <3> QED
      BY <3>1, <3>2, SubSeqProperties
  <2>3. IsIpv4(SubSeq(s, pos + 1, k))
    BY <1>6, <2>2, Ipv4Is, Zenon
  <2>4. \A c \in Digit \cup {Dot} : c \notin {35, 47, 63}
    BY DEF Digit, Dot
  <2> QED
    BY <1>3, <2>1, <2>3, <2>4 DEF h
<1> QED
  BY <1>4, <1>5, <1>6

\* What TakeHost keeps of it.
LEMMA HostTaken ==
  ASSUME NEW s \in Seq(1..255), NEW t, UriTaking(s, t), TakeHost(t, ParseHost(s, t.pos)).ret = 0
  PROVE  LET u == TakeHost(t, ParseHost(s, t.pos))
         IN /\ UriTaking(s, u) /\ \A x \in Fields \ {"pos", "host", "host_type"} : u[x] = t[x]
            /\ u.pos \in t.pos..Len(s) /\ u.host = View(t.pos, u.pos)
            /\ \A k \in t.pos..u.pos - 1 : At(s, k) \notin {35, 47, 63}
            /\ IF u.host_type = "IPV4" THEN IsIpv4(SubSeq(s, t.pos + 1, u.pos)) ELSE u.pos = t.pos
<1> DEFINE h == ParseHost(s, t.pos)
           u == TakeHost(t, h)
<1>1. Len(s) \in Nat /\ t.pos \in 0..Len(s)
  BY DEF UriTaking
<1>2. /\ h.pos \in t.pos..Len(s) /\ \A k \in t.pos..h.pos - 1 : At(s, k) \notin {35, 47, 63}
      /\ IF h.type = "IPV4" THEN IsIpv4(SubSeq(s, t.pos + 1, h.pos)) ELSE h.pos = t.pos
  BY <1>1, HostIs, ZenonT(40)
<1>3. u = IF h.type = "INVALID" THEN [t EXCEPT !.ret = EINVAL]
          ELSE IF h.type = "SMASHED" THEN [t EXCEPT !.ret = Smashed]
          ELSE [t EXCEPT !.pos = h.pos, !.host = View(t.pos, h.pos), !.host_type = h.type]
  BY DEF TakeHost
<1> HIDE DEF h, u
<1>4. h.type \notin {"INVALID", "SMASHED"}
  <2>1. SUFFICES ASSUME h.type \in {"INVALID", "SMASHED"} PROVE FALSE
    OBVIOUS
  <2>2. u.ret \in {EINVAL, Smashed}
    BY <1>3, <2>1 DEF UriTaking, Fields
  <2> QED
    BY <2>2 DEF EINVAL, Smashed, u, h
<1>5. u = [t EXCEPT !.pos = h.pos, !.host = View(t.pos, h.pos), !.host_type = h.type]
  BY <1>3, <1>4, Zenon
<1>6. /\ DOMAIN u = Fields /\ u.pos = h.pos /\ u.host = View(t.pos, h.pos) /\ u.host_type = h.type
      /\ \A x \in Fields \ {"pos", "host", "host_type"} : u[x] = t[x]
  BY <1>5 DEF UriTaking, Fields
<1>7. UriTaking(s, u)
  BY <1>1, <1>2, <1>6 DEF UriTaking
<1>8. /\ UriTaking(s, u) /\ \A x \in Fields \ {"pos", "host", "host_type"} : u[x] = t[x]
      /\ u.pos \in t.pos..Len(s) /\ u.host = View(t.pos, u.pos)
      /\ \A k \in t.pos..u.pos - 1 : At(s, k) \notin {35, 47, 63}
      /\ IF u.host_type = "IPV4" THEN IsIpv4(SubSeq(s, t.pos + 1, u.pos)) ELSE u.pos = t.pos
  BY <1>2, <1>6, <1>7
<1> QED
  BY <1>8, Zenon DEF u, h

\* A port is digits behind a colon.
LEMMA PortIs ==
  ASSUME NEW s \in Seq(1..255), NEW t, UriTaking(s, t), t.port = NULL
  PROVE  LET u == TakePort(s, t)
         IN /\ UriTaking(s, u) /\ \A x \in Fields \ {"pos", "port"} : u[x] = t[x]
            /\ u.pos \in t.pos..Len(s)
            /\ \A k \in t.pos..u.pos - 1 : At(s, k) \notin {35, 47, 63}
            /\ IF u.port = NULL THEN u.pos = t.pos
               ELSE /\ t.pos \in 0..Len(s) - 1 /\ At(s, t.pos) = Colon /\ u.pos \in t.pos + 1..Len(s)
                    /\ u.port = View(t.pos + 1, u.pos)
                    /\ \A k \in t.pos + 1..u.pos - 1 : At(s, k) \in Digit
<1> DEFINE e == ParsePort(s, t.pos + 1)
           u == TakePort(s, t)
           n == Len(s)
<1>1. n \in Nat /\ t.pos \in 0..n
  BY DEF UriTaking
<1>2. u = IF At(s, t.pos) # Colon THEN t ELSE [t EXCEPT !.pos = e, !.port = View(t.pos + 1, e)]
  BY DEF TakePort
<1>3. CASE At(s, t.pos) # Colon
  <2>1. u = t
    BY <1>2, <1>3
  <2> QED
    BY <1>1, <2>1
<1>4. CASE At(s, t.pos) = Colon
  <2>1. t.pos + 1 \in 0..n
    BY <1>1, <1>4, NextPlace DEF Colon
  <2>2. e \in t.pos + 1..n /\ \A k \in t.pos + 1..e - 1 : At(s, k) \in Digit
    <3>1. 0 \notin Digit
      BY DEF Digit
    <3> QED
      BY <2>1, <3>1, PastIs, Zenon DEF AllIn, ParsePort
  <2> HIDE DEF e, u
  <2>3. /\ DOMAIN u = Fields /\ u.pos = e /\ u.port = View(t.pos + 1, e)
        /\ \A x \in Fields \ {"pos", "port"} : u[x] = t[x]
    BY <1>2, <1>4 DEF UriTaking, Fields
  <2>4. View(t.pos + 1, e) # NULL
    BY DEF View, NULL
  <2>5. ASSUME NEW k \in t.pos..u.pos - 1 PROVE At(s, k) \notin {35, 47, 63}
    <3>1. k = t.pos \/ k \in t.pos + 1..e - 1
      BY <1>1, <2>2, <2>3
    <3> QED
      BY <1>4, <2>2, <3>1 DEF Colon, Digit
  <2>6. u.pos \in t.pos..n /\ t.pos \in 0..n - 1 /\ UriTaking(s, u)
    BY <1>1, <2>1, <2>2, <2>3 DEF UriTaking
  <2> QED
    BY <1>4, <2>2, <2>3, <2>4, <2>5, <2>6 DEF u
<1> QED
  BY <1>3, <1>4

\* What is between two places.
Cut(s, a, b) == SubSeq(s, a + 1, b)
LEMMA CutsJoin ==
  ASSUME NEW s \in Seq(1..255), NEW a \in 0..Len(s), NEW b \in a..Len(s), NEW c \in b..Len(s)
  PROVE  Cut(s, a, b) \o Cut(s, b, c) = Cut(s, a, c)
<1>1. Len(s) \in Nat /\ a + 1 \in 1..Len(s) + 1 /\ b \in a + 1 - 1..Len(s) /\ c \in b..Len(s)
  OBVIOUS
<1> QED
  BY <1>1, ConcatAdjacentSubSeq DEF Cut

\* A single character, and nothing.
LEMMA CutOne ==
  ASSUME NEW s \in Seq(1..255), NEW a \in 0..Len(s) - 1
  PROVE  Cut(s, a, a + 1) = <<At(s, a)>> /\ Cut(s, a, a) = <<>>
<1>1. Len(s) \in Nat /\ a + 1 \in 1..Len(s) /\ a + 1 \in a + 1..Len(s) /\ a < Len(s) /\ a \in Nat
  OBVIOUS
<1>2. SubSeq(s, a + 1, a + 1) = <<s[a + 1]>> \o SubSeq(s, a + 1 + 1, a + 1)
  BY <1>1, SubSeqRecursiveFirst
<1>3. SubSeq(s, a + 1 + 1, a + 1) = <<>> /\ SubSeq(s, a + 1, a) = <<>>
  BY <1>1, SubSeqEmpty
<1>4. s[a + 1] \in 1..255
  BY <1>1, ElementOfSeq
<1>5. <<s[a + 1]>> \o <<>> = <<s[a + 1]>>
  BY <1>4
<1>6. At(s, a) = s[a + 1]
  BY <1>1, StringIs
<1> QED
  BY <1>2, <1>3, <1>5, <1>6, Zenon DEF Cut

\* Nothing is between a place and itself.
LEMMA CutNone ==
  ASSUME NEW s, NEW a \in Nat
  PROVE  Cut(s, a, a) = <<>>
<1>1. a + 1 \in Int /\ a \in Int /\ a < a + 1
  OBVIOUS
<1> QED
  BY <1>1, SubSeqEmpty DEF Cut

\* The text of a view.
LEMMA TextOfView ==
  ASSUME NEW s, NEW a \in Nat, NEW b \in Nat
  PROVE  View(a, b) # NULL /\ Text(s, View(a, b)) = Cut(s, a, b)
<1> DEFINE v == View(a, b)
<1>1. v # NULL /\ v[1] = a /\ v[2] = b - a
  BY DEF View, NULL
<1>2. v[1] + 1 = a + 1 /\ v[1] + v[2] = b
  BY <1>1
<1> HIDE DEF v
<1>3. Text(s, v) = SubSeq(s, v[1] + 1, v[1] + v[2])
  BY <1>1 DEF Text
<1>4. Text(s, v) = SubSeq(s, a + 1, b)
  BY <1>2, <1>3, Zenon
<1> QED
  BY <1>1, <1>4 DEF Cut, v

\* The characters between two places.
LEMMA CutRange ==
  ASSUME NEW s \in Seq(1..255), NEW a \in 0..Len(s), NEW b \in a..Len(s), NEW Chosen,
         \A k \in a..b - 1 : At(s, k) \in Chosen
  PROVE  Range(Cut(s, a, b)) \subseteq Chosen
<1> DEFINE w == Cut(s, a, b)
<1>1. Len(s) \in Nat /\ a + 1 \in Int /\ b \in Int /\ \A i \in a + 1..b : i \in 1..Len(s)
  OBVIOUS
<1>2. \A i \in a + 1..b : s[i] \in 1..255
  BY <1>1, ElementOfSeq
<1>3. /\ w \in Seq(1..255) /\ Len(w) = IF a + 1 <= b THEN b - (a + 1) + 1 ELSE 0
      /\ \A i \in 1..b - (a + 1) + 1 : w[i] = s[a + 1 + i - 1]
  BY <1>1, <1>2, SubSeqProperties DEF Cut
<1>4. DOMAIN w = 1..b - a
  <2>1. DOMAIN w = 1..Len(w)
    BY <1>3, LenProperties
  <2> QED
    BY <1>1, <1>3, <2>1
<1>5. \A i \in 1..b - a : w[i] \in Chosen
  <2> TAKE i \in 1..b - a
  <2>1. i \in 1..b - (a + 1) + 1 /\ a + 1 + i - 1 = a + i /\ a + i - 1 \in a..b - 1 /\ a + i - 1 < Len(s)
        /\ a + i - 1 \in Nat /\ a + i - 1 + 1 = a + i
    BY <1>1
  <2>2. w[i] = s[a + i]
    BY <1>3, <2>1
  <2>3. At(s, a + i - 1) = s[a + i]
    BY <2>1, StringIs
  <2> QED
    BY <2>1, <2>2, <2>3
<1> HIDE DEF w
<1>6. Range(w) \subseteq Chosen
  BY <1>4, <1>5 DEF Range
<1> QED
  BY <1>6 DEF w

\* Of the fields of an authority behind b, its userinfo, host and port, nothing is
\* left out and nothing is in between.
Composed(s, b, u) ==
  LET user == Text(s, u.userinfo) port == Text(s, u.port) host == Text(s, u.host)
  IN /\ Cut(s, b, u.pos) =
          (IF u.userinfo = NULL THEN <<>> ELSE user \o <<64>>) \o host
          \o (IF u.port = NULL THEN <<>> ELSE <<Colon>> \o port)
     /\ IF u.host_type = "IPV4" THEN IsIpv4(host) ELSE host = <<>>
     /\ Range(port) \subseteq Digit

\* Places of a string in their order.
Places(s, b, c, d, e) == b \in 0..Len(s) /\ c \in b..Len(s) /\ d \in c..Len(s) /\ e \in d..Len(s)

\* A userinfo with its '@' from b to c, and a port with its colon from d to e.
UserFits(s, b, c, A) ==
  IF A = NULL THEN c = b
  ELSE c - 1 \in b..Len(s) - 1 /\ At(s, c - 1) = 64 /\ A = View(b, c - 1)
PortFits(s, d, e, P) ==
  IF P = NULL THEN e = d
  ELSE d \in 0..Len(s) - 1 /\ At(s, d) = Colon /\ e \in d + 1..Len(s) /\ P = View(d + 1, e)
WithAt(s, A)    == IF A = NULL THEN <<>> ELSE Text(s, A) \o <<64>>
WithColon(s, P) == IF P = NULL THEN <<>> ELSE <<Colon>> \o Text(s, P)

\* The three pieces put together.
LEMMA PiecesJoin ==
  ASSUME NEW s \in Seq(1..255), NEW b, NEW c, NEW d, NEW e, NEW A, NEW P,
         Places(s, b, c, d, e), UserFits(s, b, c, A), PortFits(s, d, e, P)
  PROVE  Cut(s, b, e) = WithAt(s, A) \o Cut(s, c, d) \o WithColon(s, P)
<1> DEFINE n == Len(s)
           first == WithAt(s, A)
           last  == WithColon(s, P)
<1>0. b \in 0..n /\ c \in b..n /\ d \in c..n /\ e \in d..n
  BY DEF Places
<1>1. n \in Nat /\ b \in Nat /\ c \in Nat /\ d \in Nat /\ e \in Nat
  BY <1>0
<1>2. first = Cut(s, b, c)
  <2>1. CASE A = NULL
    BY <1>1, <2>1, CutNone DEF UserFits, WithAt
  <2>2. CASE A # NULL
    <3>1. c - 1 \in b..n - 1 /\ At(s, c - 1) = 64 /\ A = View(b, c - 1)
      BY <2>2 DEF UserFits
    <3> DEFINE g == c - 1
    <3>2. g \in Nat /\ g \in 0..n - 1 /\ g \in b..n /\ c \in g..n /\ g + 1 = c
      BY <1>0, <1>1, <3>1
    <3> HIDE DEF g
    <3>3. Text(s, A) = Cut(s, b, g)
      BY <1>1, <3>1, <3>2, TextOfView DEF g
    <3>4. Cut(s, g, c) = <<64>>
      BY <3>1, <3>2, CutOne DEF g
    <3>5. Cut(s, b, g) \o Cut(s, g, c) = Cut(s, b, c)
      BY <1>0, <3>2, CutsJoin
    <3> QED
      BY <2>2, <3>3, <3>4, <3>5 DEF WithAt
  <2> QED
    BY <2>1, <2>2
<1>3. last = Cut(s, d, e)
  <2>1. CASE P = NULL
    BY <1>1, <2>1, CutNone DEF PortFits, WithColon
  <2>2. CASE P # NULL
    <3>1. d \in 0..n - 1 /\ At(s, d) = Colon /\ e \in d + 1..n /\ P = View(d + 1, e)
      BY <2>2 DEF PortFits
    <3> DEFINE g == d + 1
    <3>2. g \in Nat /\ d \in 0..n /\ g \in d..n /\ e \in g..n
      BY <1>1, <3>1
    <3>4. Cut(s, d, g) = <<Colon>>
      BY <3>1, CutOne
    <3> HIDE DEF g
    <3>3. Text(s, P) = Cut(s, g, e)
      BY <1>1, <3>1, <3>2, TextOfView DEF g
    <3>5. Cut(s, d, g) \o Cut(s, g, e) = Cut(s, d, e)
      BY <3>2, CutsJoin
    <3> QED
      BY <2>2, <3>3, <3>4, <3>5 DEF WithColon
  <2> QED
    BY <2>1, <2>2
<1>4. Cut(s, b, c) \o Cut(s, c, d) = Cut(s, b, d)
  <2>1. c \in b..n /\ d \in c..n /\ c \in 0..n
    BY <1>0, <1>1
  <2> QED
    BY <1>0, <2>1, CutsJoin
<1>5. Cut(s, b, d) \o Cut(s, d, e) = Cut(s, b, e)
  <2>1. d \in b..n
    BY <1>0, <1>1
  <2> QED
    BY <1>0, <2>1, CutsJoin
<1> HIDE DEF first, last
<1>6. first \o Cut(s, c, d) \o last = Cut(s, b, e)
  BY <1>2, <1>3, <1>4, <1>5
<1> QED
  BY <1>6 DEF first, last

\* An authority, up to a delimiter, is its three pieces.
LEMMA AuthorityIs ==
  ASSUME NEW s \in Seq(1..255), NEW t, UriTaking(s, t), t.userinfo = NULL, t.host = NULL, t.port = NULL,
         TakeAuthority(s, t).ret = 0
  PROVE  LET u == TakeAuthority(s, t) b == t.pos + 2
         IN IF At(s, t.pos) # 47 \/ At(s, t.pos + 1) # 47 THEN u = t
            ELSE /\ UriTaking(s, u) /\ b \in 0..Len(s) /\ u.pos \in b..Len(s)
                 /\ \A x \in {"scheme", "path", "query", "fragment"} : u[x] = t[x]
                 /\ \A k \in b..u.pos - 1 : At(s, k) \notin {35, 47, 63}
                 /\ u.host # NULL /\ Composed(s, b, u)
<1> DEFINE n == Len(s)
           b == t.pos + 2
           t1 == [t EXCEPT !.pos = @ + 2]
           u1 == TakeUserinfo(s, t1)
           u2 == TakeHost(u1, ParseHost(s, u1.pos))
           u == TakePort(s, u2)
<1>1. n \in Nat /\ t.pos \in 0..n
  BY DEF UriTaking
<1>2. CASE At(s, t.pos) # 47 \/ At(s, t.pos + 1) # 47
  BY <1>2 DEF TakeAuthority
<1>3. CASE At(s, t.pos) = 47 /\ At(s, t.pos + 1) = 47
  <2>1. TakeAuthority(s, t) = u
    BY <1>3 DEF TakeAuthority, TakeHostAndPort
  <2>2. b \in 0..n
    <3>1. t.pos + 1 \in 0..n
      BY <1>1, <1>3, NextPlace
    <3>2. t.pos + 1 + 1 \in 0..n
      BY <1>3, <3>1, NextPlace
    <3> QED
      BY <1>1, <3>2
  <2>3. DOMAIN t1 = Fields /\ t1.pos = b /\ \A x \in Fields \ {"pos"} : t1[x] = t[x]
    BY DEF UriTaking, Fields
  <2>4. UriTaking(s, t1) /\ t1.userinfo = NULL
    BY <2>2, <2>3 DEF UriTaking, Fields
  <2> HIDE DEF b, t1
  <2>5. /\ UriTaking(s, u1) /\ \A x \in Fields \ {"pos", "userinfo"} : u1[x] = t1[x]
        /\ u1.pos \in t1.pos..n
        /\ \A k \in t1.pos..u1.pos - 1 : At(s, k) \notin {35, 47, 63}
        /\ IF u1.userinfo = NULL THEN u1.pos = t1.pos
           ELSE /\ u1.pos - 1 \in t1.pos..n - 1 /\ At(s, u1.pos - 1) = 64
                /\ u1.userinfo = View(t1.pos, u1.pos - 1)
    BY <2>4, UserinfoIs, ZenonT(40)
  <2> HIDE DEF u1
  <2>6. DOMAIN u2 = Fields /\ u2.port = u1.port /\ u2.ret = 0 /\ u2.pos \in 0..n
    <3>1. ParseHost(s, u1.pos).pos \in u1.pos..n
      BY <2>5, HostIs DEF UriTaking
    <3>2. DOMAIN u2 = Fields /\ u2.port = u1.port /\ u2.pos \in {u1.pos, ParseHost(s, u1.pos).pos}
      BY <2>5 DEF TakeHost, UriTaking, Fields
    <3>3. u2.pos \in 0..n
      BY <1>1, <2>5, <3>1, <3>2 DEF UriTaking
    <3> HIDE DEF u2
    <3>4. u2.port = NULL
      BY <2>3, <2>5, <3>2 DEF Fields
    <3>5. u.ret = u2.ret
      BY <3>2, <3>3, <3>4, PortIs DEF UriTaking, Fields
    <3> QED
      BY <2>1, <3>2, <3>3, <3>5
  <2>7. /\ UriTaking(s, u2) /\ \A x \in Fields \ {"pos", "host", "host_type"} : u2[x] = u1[x]
        /\ u2.pos \in u1.pos..n /\ u2.host = View(u1.pos, u2.pos)
        /\ \A k \in u1.pos..u2.pos - 1 : At(s, k) \notin {35, 47, 63}
        /\ IF u2.host_type = "IPV4" THEN IsIpv4(SubSeq(s, u1.pos + 1, u2.pos)) ELSE u2.pos = u1.pos
    BY <2>5, <2>6, HostTaken, Zenon
  <2> HIDE DEF u2
  <2>8. u2.port = NULL
    BY <2>3, <2>5, <2>7 DEF Fields
  <2>9. /\ UriTaking(s, u) /\ \A x \in Fields \ {"pos", "port"} : u[x] = u2[x]
        /\ u.pos \in u2.pos..n
        /\ \A k \in u2.pos..u.pos - 1 : At(s, k) \notin {35, 47, 63}
        /\ IF u.port = NULL THEN u.pos = u2.pos
           ELSE /\ u2.pos \in 0..n - 1 /\ At(s, u2.pos) = Colon /\ u.pos \in u2.pos + 1..n
                /\ u.port = View(u2.pos + 1, u.pos)
                /\ \A k \in u2.pos + 1..u.pos - 1 : At(s, k) \in Digit
    BY <2>7, <2>8, PortIs, Zenon
  <2> HIDE DEF u
  <2> DEFINE c == u1.pos
             d == u2.pos
             e == u.pos
  <2>10. b \in 0..n /\ c \in b..n /\ d \in c..n /\ e \in d..n
    BY <2>2, <2>3, <2>5, <2>7, <2>9
  <2>11. u.userinfo = u1.userinfo /\ u.host = View(c, d) /\ u.host_type = u2.host_type
    BY <2>7, <2>9 DEF Fields
  <2>12. \A x \in {"scheme", "path", "query", "fragment"} : u[x] = t[x]
    BY <2>3, <2>5, <2>7, <2>9 DEF Fields
  <2>13. \A k \in b..e - 1 : At(s, k) \notin {35, 47, 63}
    <3>1. \A k \in b..e - 1 : k \in b..c - 1 \/ k \in c..d - 1 \/ k \in d..e - 1
      BY <1>1, <2>10
    <3> QED
      BY <2>3, <2>5, <2>7, <2>9, <3>1
  <2>14. UserFits(s, b, c, u.userinfo)
    BY <2>3, <2>5, <2>11 DEF UserFits
  <2>15. PortFits(s, d, e, u.port)
    BY <2>9 DEF PortFits
  <2>16. c \in Nat /\ d \in Nat /\ e \in Nat
    BY <1>1, <2>10
  <2>17. IF u.host_type = "IPV4" THEN IsIpv4(Cut(s, c, d)) ELSE d = c
    BY <2>7, <2>11 DEF Cut
  <2>18. \A k \in d + 1..e - 1 : u.port # NULL => At(s, k) \in Digit
    BY <2>9
  <2> HIDE DEF c, d, e
  <2>19. Cut(s, b, e) = WithAt(s, u.userinfo) \o Cut(s, c, d) \o WithColon(s, u.port)
    <3>1. Places(s, b, c, d, e)
      BY <2>10 DEF Places
    <3> QED
      BY <2>14, <2>15, <3>1, PiecesJoin
  <2>20. View(c, d) # NULL /\ Text(s, View(c, d)) = Cut(s, c, d)
    BY <2>16, TextOfView
  <2>21. IF u.host_type = "IPV4" THEN IsIpv4(Cut(s, c, d)) ELSE Cut(s, c, d) = <<>>
    BY <2>16, <2>17, CutNone
  <2>22. Range(Text(s, u.port)) \subseteq Digit
    <3>1. CASE u.port = NULL
      <4>1. Text(s, u.port) = <<>>
        BY <3>1 DEF Text, NULL
      <4> QED
        BY <4>1 DEF Range
    <3>2. CASE u.port # NULL
      <4>1. d \in 0..n - 1 /\ e \in d + 1..n /\ u.port = View(d + 1, e)
        BY <2>15, <3>2 DEF PortFits
      <4>2. d + 1 \in 0..n /\ d + 1 \in Nat
        BY <1>1, <4>1
      <4>3. Text(s, u.port) = Cut(s, d + 1, e)
        BY <2>16, <4>1, <4>2, TextOfView
      <4>4. \A k \in d + 1..e - 1 : At(s, k) \in Digit
        BY <2>18, <3>2
      <4>5. Range(Cut(s, d + 1, e)) \subseteq Digit
        BY <4>1, <4>2, <4>4, CutRange
      <4> QED
        BY <4>3, <4>5
    <3> QED
      BY <3>1, <3>2
  <2>23. u.host # NULL /\ Composed(s, b, u)
    BY <2>11, <2>19, <2>20, <2>21, <2>22, Zenon DEF Composed, WithAt, WithColon, e
  <2> QED
    BY <1>3, <2>1, <2>2, <2>9, <2>10, <2>12, <2>13, <2>23 DEF b, e
<1> QED
  BY <1>2, <1>3

\* Whatever the authority, the parser goes on behind it.
LEMMA AuthorityParses ==
  ASSUME NEW s \in Seq(1..255), NEW t, UriTaking(s, t), t.userinfo = NULL, t.port = NULL
  PROVE  LET u == TakeAuthority(s, t)
         IN UriTaking(s, u) /\ u.query = t.query /\ u.fragment = t.fragment
<1> DEFINE n == Len(s)
           t1 == [t EXCEPT !.pos = @ + 2]
           u1 == TakeUserinfo(s, t1)
           h  == ParseHost(s, u1.pos)
           u2 == TakeHost(u1, h)
           u == TakePort(s, u2)
<1>1. n \in Nat /\ t.pos \in 0..n
  BY DEF UriTaking
<1>2. CASE At(s, t.pos) # 47 \/ At(s, t.pos + 1) # 47
  BY <1>2 DEF TakeAuthority
<1>3. CASE At(s, t.pos) = 47 /\ At(s, t.pos + 1) = 47
  <2>1. TakeAuthority(s, t) = u
    BY <1>3 DEF TakeAuthority, TakeHostAndPort
  <2>2. t.pos + 2 \in 0..n
    <3>1. t.pos + 1 \in 0..n
      BY <1>1, <1>3, NextPlace
    <3>2. t.pos + 1 + 1 \in 0..n
      BY <1>3, <3>1, NextPlace
    <3> QED
      BY <1>1, <3>2
  <2>3. DOMAIN t1 = Fields /\ t1.pos = t.pos + 2 /\ \A x \in Fields \ {"pos"} : t1[x] = t[x]
    BY DEF UriTaking, Fields
  <2>4. UriTaking(s, t1) /\ t1.userinfo = NULL
    BY <2>2, <2>3 DEF UriTaking, Fields
  <2> HIDE DEF t1
  <2>5. UriTaking(s, u1) /\ \A x \in Fields \ {"pos", "userinfo"} : u1[x] = t1[x]
    BY <2>4, UserinfoIs
  <2> HIDE DEF u1
  <2>6. h.pos \in u1.pos..n
    BY <2>5, HostIs DEF UriTaking
  <2>7. u2 = IF h.type = "INVALID" THEN [u1 EXCEPT !.ret = EINVAL]
             ELSE IF h.type = "SMASHED" THEN [u1 EXCEPT !.ret = Smashed]
             ELSE [u1 EXCEPT !.pos = h.pos, !.host = View(u1.pos, h.pos), !.host_type = h.type]
    BY DEF TakeHost
  <2> HIDE DEF u2, h
  <2>8. /\ DOMAIN u2 = Fields /\ u2.pos \in {u1.pos, h.pos}
        /\ u2.port = u1.port /\ u2.query = u1.query /\ u2.fragment = u1.fragment
    BY <2>5, <2>7 DEF UriTaking, Fields
  <2>9. UriTaking(s, u2) /\ u2.port = NULL /\ u2.query = t.query /\ u2.fragment = t.fragment
    BY <1>1, <2>3, <2>5, <2>6, <2>8 DEF UriTaking, Fields
  <2>10. UriTaking(s, u) /\ u.query = u2.query /\ u.fragment = u2.fragment
    BY <2>9, PortIs DEF Fields
  <2> QED
    BY <2>1, <2>9, <2>10, Zenon
<1> QED
  BY <1>2, <1>3

\* The scheme ends at the first of the delimiters, when that is a colon.
LEMMA SchemeIs ==
  ASSUME NEW s \in Seq(1..255)
  PROVE  LET t == TakeScheme(s, UriStart)
         IN /\ UriTaking(s, t) /\ \A x \in Fields \ {"pos", "scheme"} : t[x] = UriStart[x]
            /\ \/ t.pos = 0 /\ t.scheme = NULL
               \/ \E c \in 1..Len(s) - 1 :
                    /\ At(s, c) = Colon /\ \A k \in 0..c - 1 : At(s, k) \notin {35, 47, 58, 63}
                    /\ t.pos = c + 1 /\ t.scheme = View(0, c)
<1> DEFINE n == Len(s)
           start == UriStart
           c == Past(s, 0, scheme_cset)
           end == ParseScheme(s, 0)
           t == TakeScheme(s, start)
<1>1. n \in Nat /\ 0 \in 0..n
  OBVIOUS
<1>2. DOMAIN start = Fields /\ start.pos = 0 /\ start.scheme = NULL
  BY DEF UriStart, Fields
<1>3. UriTaking(s, start)
  BY <1>1, <1>2 DEF UriTaking
<1> HIDE DEF start
<1>4. c \in 0..n /\ \A k \in 0..c - 1 : At(s, k) \in scheme_cset
  <2>1. 0 \notin scheme_cset
    BY DelimitersAssumption
  <2> QED
    BY <1>1, <2>1, PastIs, Zenon DEF AllIn
<1>5. At(s, c) \notin scheme_cset
  <2>1. 0 \notin scheme_cset
    BY DelimitersAssumption
  <2> QED
    BY <1>1, <2>1, PastIs, Zenon
<1>6. end = IF At(s, 0) \notin IsAlpha THEN None ELSE IF At(s, c) = Colon THEN c + 1 ELSE None
  <2>1. c # None
    BY <1>4 DEF None
  <2> HIDE DEF c
  <2>2. c = Past(s, 0, scheme_cset)
    BY DEF c
  <2> QED
    BY <2>1, <2>2, Zenon DEF ParseScheme, Expect
<1>7. t = IF end = None THEN start ELSE [start EXCEPT !.pos = end, !.scheme = View(0, end - 1)]
  BY <1>2, Zenon DEF TakeScheme
<1> HIDE DEF t, end, c
<1>8. CASE end = None
  <2>1. t = start
    BY <1>7, <1>8
  <2> QED
    BY <1>2, <1>3, <2>1 DEF t, start
<1>9. CASE end # None
  <2>1. At(s, 0) \in IsAlpha /\ At(s, c) = Colon /\ end = c + 1
    BY <1>6, <1>9
  <2>2. c # 0
    BY <1>5, <2>1 DEF scheme_cset, IsAlnum
  <2>3. c + 1 \in 0..n
    BY <1>1, <1>4, <2>1, NextPlace DEF Colon
  <2>4. c \in 1..n - 1 /\ end - 1 = c
    BY <1>1, <1>4, <2>1, <2>2, <2>3
  <2>5. t = [start EXCEPT !.pos = end, !.scheme = View(0, end - 1)]
    BY <1>7, <1>9
  <2>6. /\ DOMAIN t = Fields /\ t.pos = end /\ t.scheme = View(0, end - 1)
        /\ \A x \in Fields \ {"pos", "scheme"} : t[x] = start[x]
    BY <1>2, <2>5 DEF Fields
  <2>7. t.pos = c + 1 /\ t.scheme = View(0, c) /\ UriTaking(s, t)
    BY <2>1, <2>3, <2>4, <2>6 DEF UriTaking
  <2>8. \A k \in 0..c - 1 : At(s, k) \notin {35, 47, 58, 63}
    BY <1>4, DelimitersAssumption
  <2> QED
    BY <2>1, <2>4, <2>6, <2>7, <2>8 DEF t, start
<1> QED
  BY <1>8, <1>9

\* What UriSplits says of a string and its segments.
SplitAs(s, r) ==
  LET rfc == Rfc3986(s)
      user == Text(s, r.userinfo) port == Text(s, r.port)
      host == Text(s, r.host)
  IN /\ \A part \in {"scheme", "path", "query", "fragment"} : r[part] = rfc[part]
     /\ r.host = NULL <=> rfc.authority = NULL
     /\ r.host # NULL =>
          /\ Text(s, rfc.authority) =
               (IF r.userinfo = NULL THEN <<>> ELSE user \o <<64>>) \o host
               \o (IF r.port = NULL THEN <<>> ELSE <<Colon>> \o port)
          /\ IF r.host_type = "IPV4" THEN IsIpv4(host) ELSE host = <<>>
          /\ Range(port) \subseteq Digit

\* The scheme of an accepted string is that of the standard: where the parser
\* takes none, a colon before all other delimiters is refused with the path.
LEMMA SchemeAgrees ==
  ASSUME NEW s \in Seq(1..255), NEW t, t = TakeScheme(s, UriStart),
         NEW u, u = TakeAuthority(s, t), TakeRest(s, TakePath(s, u)).ret = 0
  PROVE  LET c == UpTo(s, 0, {35, 47, 58, 63})
             a == IF c > 0 /\ At(s, c) = Colon THEN c + 1 ELSE 0
         IN t.pos = a /\ t.scheme = IF a = 0 THEN NULL ELSE View(0, c)
<1> DEFINE n == Len(s)
           E == {35, 47, 58, 63}
           c == UpTo(s, 0, E)
<1>1. n \in Nat /\ 0 \in 0..n
  OBVIOUS
<1>2. /\ UriTaking(s, t) /\ \A x \in Fields \ {"pos", "scheme"} : t[x] = UriStart[x]
      /\ \/ t.pos = 0 /\ t.scheme = NULL
         \/ \E i \in 1..Len(s) - 1 :
              /\ At(s, i) = Colon /\ \A k \in 0..i - 1 : At(s, k) \notin E
              /\ t.pos = i + 1 /\ t.scheme = View(0, i)
  BY SchemeIs
<1>3. t.userinfo = NULL /\ t.host = NULL /\ t.port = NULL /\ t.query = NULL /\ t.fragment = NULL
  BY <1>2 DEF Fields, UriStart
<1>4. CASE \E i \in 1..n - 1 : /\ At(s, i) = Colon /\ \A k \in 0..i - 1 : At(s, k) \notin E
                               /\ t.pos = i + 1 /\ t.scheme = View(0, i)
  <2>1. PICK i \in 1..n - 1 : /\ At(s, i) = Colon /\ \A k \in 0..i - 1 : At(s, k) \notin E
                              /\ t.pos = i + 1 /\ t.scheme = View(0, i)
    BY <1>4
  <2>2. i \in 0..n /\ At(s, i) \in E
    BY <1>1, <2>1 DEF Colon
  <2> HIDE DEF E
  <2>3. UpTo(s, 0, E) = i
    BY <1>1, <2>1, <2>2, UpToIs
  <2> QED
    BY <1>1, <2>1, <2>3 DEF E
<1>5. CASE t.pos = 0 /\ t.scheme = NULL
  <2> HIDE DEF E
  <2>1. /\ c \in 0..n /\ (c = n \/ At(s, c) \in E)
        /\ \A k \in 0..c - 1 : At(s, k) \notin E
    BY <1>1, UpToExists
  <2> HIDE DEF c
  <2>2. ~(c > 0 /\ At(s, c) = Colon)
    <3>1. SUFFICES ASSUME c > 0, At(s, c) = Colon PROVE FALSE
      OBVIOUS
    <3>2. 0 \in 0..c - 1
      BY <1>1, <2>1, <3>1
    <3>3. At(s, 0) # 47
      BY <2>1, <3>2 DEF E
    <3>4. u = t
      BY <1>5, <3>3 DEF TakeAuthority
    <3>5. ~ColonFirst(s, t.pos)
      BY <1>2, <1>3, <1>5, <3>4, PathOnIs
    <3>6. c \in t.pos..n /\ At(s, c) = 58 /\ \A k \in t.pos..c - 1 : At(s, k) \notin {35, 47, 58, 63}
      BY <1>5, <2>1, <3>1 DEF E, Colon
    <3> QED
      BY <3>5, <3>6 DEF ColonFirst
  <2> QED
    BY <1>5, <2>2 DEF c, E
<1> QED
  BY <1>2, <1>4, <1>5

\* The split of the standard with its delimiters as parameters.
SplitBy(s, all, inAuthority, inPath, inQuery) ==
  LET c == UpTo(s, 0, all)
      a == IF c > 0 /\ At(s, c) = Colon THEN c + 1 ELSE 0
      slashes == At(s, a) = 47 /\ At(s, a + 1) = 47
      p == IF slashes THEN UpTo(s, a + 2, inAuthority) ELSE a
      q == UpTo(s, p, inPath)
      f == UpTo(s, q, inQuery)
  IN [scheme    |-> IF a = 0 THEN NULL ELSE View(0, c),
      authority |-> IF slashes THEN View(a + 2, p) ELSE NULL,
      path      |-> View(p, q),
      query     |-> IF At(s, q) = 63 THEN View(q + 1, f) ELSE NULL,
      fragment  |-> IF At(s, f) = 35 THEN View(f + 1, Len(s)) ELSE NULL]

\* The segments of an accepted string.
LEMMA SegmentsAre ==
  ASSUME NEW s \in Seq(1..255), UriParseSegments(s).ret = 0
  PROVE  SplitAs(s, UriParseSegments(s))
<1> DEFINE n == Len(s)
           t == TakeScheme(s, UriStart)
           u == TakeAuthority(s, t)
           r == UriParseSegments(s)
           c == UpTo(s, 0, {35, 47, 58, 63})
           a == IF c > 0 /\ At(s, c) = Colon THEN c + 1 ELSE 0
           slashes == At(s, a) = 47 /\ At(s, a + 1) = 47
           p == IF slashes THEN UpTo(s, a + 2, {35, 47, 63}) ELSE a
           q == UpTo(s, p, {35, 63})
           f == UpTo(s, q, {35})
<1>1. r = TakeRest(s, TakePath(s, u))
  BY DEF UriParseSegments, TakeRest
<1>2. Rfc3986(s) = [scheme    |-> IF a = 0 THEN NULL ELSE View(0, c),
                    authority |-> IF slashes THEN View(a + 2, p) ELSE NULL,
                    path      |-> View(p, q),
                    query     |-> IF At(s, q) = 63 THEN View(q + 1, f) ELSE NULL,
                    fragment  |-> IF At(s, f) = 35 THEN View(f + 1, Len(s)) ELSE NULL]
  <2>1. Chars(":/?#") = {35, 47, 58, 63} /\ Chars("/?#") = {35, 47, 63} /\ Chars("?#") = {35, 63} /\ Chars("#") = {35}
    BY DelimitersAssumption, Zenon
  <2>2. Rfc3986(s) = SplitBy(s, Chars(":/?#"), Chars("/?#"), Chars("?#"), Chars("#"))
    BY Zenon DEF Rfc3986, SplitBy
  <2>3. Rfc3986(s) = SplitBy(s, {35, 47, 58, 63}, {35, 47, 63}, {35, 63}, {35})
    BY <2>1, <2>2, Zenon
  <2> QED
    BY <2>3, Zenon DEF SplitBy
<1>3. UriTaking(s, t) /\ \A x \in Fields \ {"pos", "scheme"} : t[x] = UriStart[x]
  BY SchemeIs
<1>4. t.userinfo = NULL /\ t.host = NULL /\ t.port = NULL /\ t.query = NULL /\ t.fragment = NULL
  BY <1>3 DEF Fields, UriStart
<1> HIDE DEF t, r
<1>5. t.pos = a /\ t.scheme = IF a = 0 THEN NULL ELSE View(0, c)
  BY <1>1, SchemeAgrees, ZenonT(40) DEF t, r
<1> HIDE DEF a, c
<1>6. UriTaking(s, u) /\ u.query = NULL /\ u.fragment = NULL
  BY <1>3, <1>4, AuthorityParses
<1> HIDE DEF u
<1>7. LET q0 == UpTo(s, u.pos, {35, 63}) f0 == UpTo(s, q0, {35})
      IN /\ u.ret = 0 /\ r.path = View(u.pos, q0)
         /\ r.query = (IF At(s, q0) = 63 THEN View(q0 + 1, f0) ELSE NULL)
         /\ r.fragment = (IF At(s, f0) = 35 THEN View(f0 + 1, n) ELSE NULL)
         /\ \A x \in Fields \ {"pos", "path", "query", "fragment"} : r[x] = u[x]
         /\ u.host # NULL => At(s, u.pos) \in {0, 35, 47, 63} /\ (At(s, u.pos) = 0 => u.pos = n)
  <2>1. TakeRest(s, TakePath(s, u)).ret = 0
    BY <1>1 DEF r
  <2> QED
    BY <1>1, <1>6, <2>1, PathOnIs
<1>8. IF ~slashes THEN u = t
      ELSE /\ a + 2 \in 0..n /\ u.pos \in a + 2..n
           /\ \A x \in {"scheme", "path", "query", "fragment"} : u[x] = t[x]
           /\ \A k \in a + 2..u.pos - 1 : At(s, k) \notin {35, 47, 63}
           /\ u.host # NULL /\ Composed(s, a + 2, u)
  <2>1. TakeAuthority(s, t).ret = 0
    BY <1>7 DEF u
  <2>2. IF At(s, t.pos) # 47 \/ At(s, t.pos + 1) # 47 THEN u = t
        ELSE /\ UriTaking(s, u) /\ t.pos + 2 \in 0..n /\ u.pos \in t.pos + 2..n
             /\ \A x \in {"scheme", "path", "query", "fragment"} : u[x] = t[x]
             /\ \A k \in t.pos + 2..u.pos - 1 : At(s, k) \notin {35, 47, 63}
             /\ u.host # NULL /\ Composed(s, t.pos + 2, u)
    BY <1>3, <1>4, <2>1, AuthorityIs DEF u
  <2> QED
    BY <1>5, <2>2, Zenon
<1>9. u.pos = p
  <2>1. CASE ~slashes
    BY <1>5, <1>8, <2>1
  <2>2. CASE slashes
    <3> DEFINE E == {35, 47, 63}
               b == a + 2
    <3>1. b \in 0..n /\ u.pos \in b..n /\ \A k \in b..u.pos - 1 : At(s, k) \notin E
      BY <1>8, <2>2
    <3>2. u.pos = n \/ At(s, u.pos) \in E
      BY <1>7, <1>8, <2>2
    <3> HIDE DEF E, b
    <3>3. UpTo(s, b, E) = u.pos
      BY <3>1, <3>2, UpToIs
    <3> QED
      BY <2>2, <3>3 DEF E, b
  <2> QED
    BY <2>1, <2>2
<1> HIDE DEF p
<1>10. /\ r.path = View(p, q)
       /\ r.query = (IF At(s, q) = 63 THEN View(q + 1, f) ELSE NULL)
       /\ r.fragment = (IF At(s, f) = 35 THEN View(f + 1, n) ELSE NULL)
  BY <1>7, <1>9, Zenon
<1> HIDE DEF q, f
<1>11. /\ r.scheme = u.scheme /\ r.userinfo = u.userinfo /\ r.host = u.host /\ r.port = u.port
       /\ r.host_type = u.host_type
  BY <1>7 DEF Fields
<1>12. u.scheme = t.scheme
  BY <1>8
<1> DEFINE rfc == Rfc3986(s)
<1>13. /\ rfc.scheme = (IF a = 0 THEN NULL ELSE View(0, c)) /\ rfc.path = View(p, q)
       /\ rfc.query = (IF At(s, q) = 63 THEN View(q + 1, f) ELSE NULL)
       /\ rfc.fragment = (IF At(s, f) = 35 THEN View(f + 1, n) ELSE NULL)
       /\ rfc.authority = (IF slashes THEN View(a + 2, p) ELSE NULL)
  <2> HIDE DEF slashes
  <2> QED
    BY <1>2
<1> HIDE DEF rfc
<1>14. \A part \in {"scheme", "path", "query", "fragment"} : r[part] = rfc[part]
  BY <1>5, <1>10, <1>11, <1>12, <1>13
<1>15. p \in Nat /\ (slashes => a + 2 \in Nat)
  BY <1>6, <1>8, <1>9 DEF UriTaking
<1>16. slashes => View(a + 2, p) # NULL /\ Text(s, View(a + 2, p)) = Cut(s, a + 2, p)
  BY <1>15, TextOfView
<1>17. r.host = NULL <=> rfc.authority = NULL
  BY <1>4, <1>8, <1>11, <1>13, <1>16
<1>18. ASSUME r.host # NULL
       PROVE  /\ Text(s, rfc.authority) =
                   (IF r.userinfo = NULL THEN <<>> ELSE Text(s, r.userinfo) \o <<64>>) \o Text(s, r.host)
                   \o (IF r.port = NULL THEN <<>> ELSE <<Colon>> \o Text(s, r.port))
              /\ IF r.host_type = "IPV4" THEN IsIpv4(Text(s, r.host)) ELSE Text(s, r.host) = <<>>
              /\ Range(Text(s, r.port)) \subseteq Digit
  <2>1. slashes
    BY <1>4, <1>8, <1>11, <1>18
  <2>2. Composed(s, a + 2, u)
    BY <1>8, <2>1
  <2>3. Text(s, rfc.authority) = Cut(s, a + 2, u.pos)
    BY <1>9, <1>13, <1>16, <2>1
  <2> QED
    BY <1>11, <2>2, <2>3, Zenon DEF Composed
<1> QED
  BY <1>14, <1>17, <1>18, Zenon DEF SplitAs, rfc, r

-----------------------------------------------------------------------------
(* The invariant and the theorems.                                         *)

\* What was called on a text or returns one is a function of these files, on arguments of its set.
TextAnswers ==
  /\ fn = "hex_encode" => arg \in Buffers /\ res = HexEncode(arg)
  /\ fn = "hex_decode" => \E s \in HexStrings, n \in Rooms :
                            arg = [src |-> s, size |-> n] /\ res = HexDecode(s, n)
  /\ fn = "b64_encode" => arg \in Buffers /\ res = B64Encode(arg)
  /\ fn = "b64_decode" => \E s \in B64Strings, n \in Rooms :
                            arg = [src |-> s, size |-> n] /\ res = B64Decode(s, n)
  /\ fn = "ipv4_to_str" => arg \in Ipv4Addresses /\ res = Ipv4ToStr(arg)
  /\ fn = "ipv4_to_bin" => arg \in Ipv4Strings /\ res = Ipv4ToBin(arg)
  /\ fn = "ipv6_to_str" => arg \in Ipv6Addresses /\ res = Ipv6ToStr(arg)
  /\ fn = "ipv6_to_bin" => arg \in Ipv6Forms /\ res = Ipv6ToBin(Ipv6Text(arg))
  /\ fn = "uri_parse_segments" => arg \in UriStrings /\ res = UriParseSegments(arg)

\* The invariant holds at first,
LEMMA InitTextAnswers == Init => TextAnswers
BY DEF Init, TextAnswers

\* A call of another function than those.
LEMMA OffTexts ==
  ASSUME fn' \notin {"hex_encode", "hex_decode", "b64_encode", "b64_decode", "ipv4_to_str",
                    "ipv4_to_bin", "ipv6_to_str", "ipv6_to_bin",
                    "uri_parse_segments"}
  PROVE  TextAnswers'
BY DEF TextAnswers

\* in every step,
LEMMA NextTextAnswers == TextAnswers /\ [Next]_vars => TextAnswers'
<1> SUFFICES ASSUME TextAnswers, [Next]_vars PROVE TextAnswers'
  OBVIOUS
<1>1. CASE UNCHANGED vars
  BY <1>1 DEF vars, TextAnswers
<1>2. CASE Return
  BY <1>2, OffTexts DEF Return
<1>3. CASE CallUriNormalize \/ CallUriNormalizeScheme \/ CallUriNormalizeHost
  BY <1>3, OffTexts DEF CallUriNormalize, CallUriNormalizeScheme, CallUriNormalizeHost, Call
<1>4. CASE CallBitTestAnd \/ CallRotate \/ CallGcdLcm \/ CallLog2
  BY <1>4, OffTexts DEF CallBitTestAnd, CallRotate, CallGcdLcm, CallLog2, Call
<1>5. CASE CallEcb \/ CallHash \/ CallKeySchedule
  BY <1>5, OffTexts DEF CallEcb, CallHash, CallKeySchedule, Call
<1>6. CASE CallRbWalk \/ CallRbRotate \/ CallRbInsert
  BY <1>6, OffTexts DEF CallRbWalk, CallRbRotate, CallRbInsert, Call
<1>7. CASE CallHexEncode
  BY <1>7 DEF CallHexEncode, Call, TextAnswers
<1>8. CASE CallHexDecode
  <2>1. fn' = "hex_decode" /\ \E s \in HexStrings, n \in Rooms :
          arg' = [src |-> s, size |-> n] /\ res' = HexDecode(s, n)
    BY <1>8, Zenon DEF CallHexDecode, Call
  <2> QED
    BY <2>1 DEF TextAnswers
<1>9. CASE CallB64Encode
  BY <1>9 DEF CallB64Encode, Call, TextAnswers
<1>10. CASE CallB64Decode
  <2>1. fn' = "b64_decode" /\ \E s \in B64Strings, n \in Rooms :
          arg' = [src |-> s, size |-> n] /\ res' = B64Decode(s, n)
    BY <1>10, Zenon DEF CallB64Decode, Call
  <2> QED
    BY <2>1 DEF TextAnswers
<1>11. CASE CallIpv4ToStr
  BY <1>11 DEF CallIpv4ToStr, Call, TextAnswers
<1>12. CASE CallIpv4ToBin
  BY <1>12 DEF CallIpv4ToBin, Call, TextAnswers
<1>13. CASE CallIpv6ToStr
  BY <1>13 DEF CallIpv6ToStr, Call, TextAnswers
<1>14. CASE CallIpv6ToBin
  BY <1>14 DEF CallIpv6ToBin, Call, TextAnswers
<1>15. CASE CallIpv6ToBinOfAny \/ CallIpv6Norm
  BY <1>15, OffTexts DEF CallIpv6ToBinOfAny, CallIpv6Norm, Call
<1>16. CASE CallUriParse
  BY <1>16 DEF CallUriParse, Call, TextAnswers
<1> QED
  BY <1>1, <1>2, <1>3, <1>4, <1>5, <1>6, <1>7, <1>8, <1>9, <1>10, <1>11, <1>12, <1>13, <1>14,
     <1>15, <1>16 DEF Next

\* and always.
LEMMA TextAnswersHolds == Spec => []TextAnswers
BY InitTextAnswers, NextTextAnswers, PTL DEF Spec

\* The clauses of the properties of the codecs.
HexDecoded(src, size, got) ==
  LET valid == Len(src) % 2 = 0 /\ Range(src) \subseteq XDigit
  IN /\ Len(got.out) <= size
     /\ got.ret = 0 <=> valid /\ Len(src) <= 2 * size
     /\ valid /\ got.ret # 0 => got.ret = ENOMEM
     /\ got.ret = 0 => BitsOf(got.out, 8) = BitsOf([k \in DOMAIN src |-> HexVal(src[k])], 4)
B64Encoded(src, got) ==
  LET text == Unpadded(got)
      bits == BitsOf([k \in DOMAIN text |-> B64Val(text[k])], 6)
  IN /\ Len(got) % 4 = 0 /\ got = text \o Pad(Len(got) - Len(text))
     /\ Len(got) - Len(text) < 3
     /\ bits = BitsOf(src, 8) \o Zeros(Len(bits) - 8 * Len(src))
     /\ Len(bits) - 8 * Len(src) < 6
B64Decoded(src, size, got) ==
  LET text == Unpadded(src)
      bytes == (6 * Len(text)) \div 8
  IN /\ Len(got.out) <= size
     /\ got.ret = 0 <=> Taken(src) /\ bytes <= size
     /\ Taken(src) /\ got.ret # 0 => got.ret = ENOMEM
     /\ got.ret = 0 =>
          BitsOf(got.out, 8) = Prefix(BitsOf([k \in DOMAIN text |-> B64Val(text[k])], 6), 8 * bytes)

\* For every buffer, string and room: what is encoded stands for the same bits,
\* and exactly what is an encoding and fits is decoded, to those bits.
THEOREM EncodingsAreExact == Spec => []CodecsExact
<1>1. ASSUME TextAnswers PROVE HexCodec
  <2>1. ASSUME fn = "hex_encode"
        PROVE  /\ Range(res) \subseteq Range(HexCset)
               /\ BitsOf([k \in DOMAIN res |-> HexVal(res[k])], 4) = BitsOf(arg, 8)
    <3>1. arg \in Seq(Bytes) /\ res = HexEncode(arg)
      BY <1>1, <2>1, BytesAssumption DEF TextAnswers, Bytes
    <3> QED
      BY <3>1, HexEncodeIs, Zenon
  <2>2. ASSUME fn = "hex_decode" PROVE HexDecoded(arg.src, arg.size, res)
    <3>1. PICK s \in HexStrings : \E n \in Rooms : arg = [src |-> s, size |-> n] /\ res = HexDecode(s, n)
      BY <1>1, <2>2 DEF TextAnswers
    <3>2. PICK n \in Rooms : arg = [src |-> s, size |-> n] /\ res = HexDecode(s, n)
      BY <3>1
    <3>3. s \in Seq(1..255) /\ n \in Nat
      BY BytesAssumption
    <3>4. HexDecoded(s, n, res)
      BY <3>2, <3>3, HexDecodeIs, Zenon DEF HexDecoded
    <3>5. arg.src = s /\ arg.size = n
      BY <3>2
    <3> QED
      BY <3>4, <3>5, Zenon
  <2> QED
    BY <2>1, <2>2, Zenon DEF HexCodec, HexDecoded
<1>2. ASSUME TextAnswers PROVE Base64Codec
  <2>1. ASSUME fn = "b64_encode" PROVE B64Encoded(arg, res)
    <3>1. arg \in Seq(Bytes) /\ res = B64Encode(arg)
      BY <1>2, <2>1, BytesAssumption DEF TextAnswers, Bytes
    <3> QED
      BY <3>1, B64EncodeIs, Zenon DEF B64Encoded
  <2>2. ASSUME fn = "b64_decode" PROVE B64Decoded(arg.src, arg.size, res)
    <3>1. PICK s \in B64Strings : \E n \in Rooms : arg = [src |-> s, size |-> n] /\ res = B64Decode(s, n)
      BY <1>2, <2>2 DEF TextAnswers
    <3>2. PICK n \in Rooms : arg = [src |-> s, size |-> n] /\ res = B64Decode(s, n)
      BY <3>1
    <3>3. s \in Seq(1..255) /\ n \in Nat
      BY BytesAssumption
    <3>4. B64Decoded(s, n, res)
      BY <3>2, <3>3, B64DecodeIs, Zenon DEF B64Decoded
    <3>5. arg.src = s /\ arg.size = n
      BY <3>2
    <3> QED
      BY <3>4, <3>5, Zenon
  <2> QED
    BY <2>1, <2>2, Zenon DEF Base64Codec, B64Encoded, B64Decoded, Taken
<1>3. TextAnswers => CodecsExact
  BY <1>1, <1>2 DEF CodecsExact
<1> QED
  BY <1>3, TextAnswersHolds, PTL

\* For every address and every string: the printer prints the one spelling of an
\* address, and the parser takes that and nothing else, to the same bytes.
THEOREM Ipv4HasOneSpelling == Spec => []Ipv4Canonical
<1>1. TextAnswers => Ipv4Canonical
  <2>1. ASSUME TextAnswers, fn = "ipv4_to_str"
        PROVE  IsIpv4(res) /\ Ipv4ToBin(res) = Returned(0, arg)
    <3>1. arg \in [1..4 -> Bytes] /\ res = Ipv4ToStr(arg)
      BY <2>1, BytesAssumption DEF TextAnswers, Bytes
    <3> QED
      BY <3>1, Ipv4Is, Zenon
  <2>2. ASSUME TextAnswers, fn = "ipv4_to_bin"
        PROVE  /\ res.ret = 0 <=> IsIpv4(arg)
               /\ res.ret = 0 => Ipv4ToStr(res.out) = arg
    <3>1. arg \in Seq(1..255) /\ res = Ipv4ToBin(arg)
      BY <2>2, BytesAssumption DEF TextAnswers
    <3> QED
      BY <3>1, Ipv4Is, Zenon
  <2> QED
    BY <2>1, <2>2, Zenon DEF Ipv4Canonical
<1> QED
  BY <1>1, TextAnswersHolds, PTL

\* ipv6_to_str returns exactly for the addresses without a group of two non-zero
\* bytes behind the first, and prints a colon.
THEOREM PrinterPrintsColon == Spec => []Ipv6PrintsColon
<1>1. TextAnswers => Ipv6PrintsColon
  <2>1. ASSUME TextAnswers, fn = "ipv6_to_str"
        PROVE  /\ res.ret = 0 <=> \A k \in 2..8 : arg[2 * k - 1] * arg[2 * k] = 0
               /\ res.ret = 0 => res.out = <<Colon>>
    <3>1. arg \in [1..16 -> Bytes] /\ res = Ipv6ToStr(arg)
      BY <2>1, BytesAssumption DEF TextAnswers, Bytes
    <3> QED
      BY <3>1, ColonIs, Zenon
  <2> QED
    BY <2>1, Zenon DEF Ipv6PrintsColon
<1> QED
  BY <1>1, TextAnswersHolds, PTL

\* A text of groups of one to four digits with colons between them is taken exactly
\* when it is well-formed, and its bytes are those of RFC 4291, with nothing written
\* behind them, exactly when in each group the middle eight bits are the upper eight
\* and the gap is as long as what follows it; with a longer gap bytes are written
\* behind the sixteen (hlibc/inet.c:191, :205).
THEOREM Ipv6IsRightWhenEven == Spec => []Ipv6RightWhenEven
<1>1. ASSUME TextAnswers, fn = "ipv6_to_bin" PROVE RightWhenEven(arg, res)
  BY <1>1, Ipv6Is, Zenon DEF TextAnswers
<1>2. TextAnswers => Ipv6RightWhenEven
  BY <1>1, Zenon DEF Ipv6RightWhenEven, RightWhenEven, Even
<1> QED
  BY <1>2, TextAnswersHolds, PTL

\* For every string that uri_parse_segments takes: its segments are those of RFC
\* 3986, its authority is the userinfo, host and port with nothing in between, and
\* the host is an IPv4 address or nothing.
THEOREM UrisAreSplit == Spec => []UriSplits
<1>1. ASSUME TextAnswers, fn = "uri_parse_segments", res.ret = 0 PROVE SplitAs(arg, res)
  <2>1. arg \in UriStrings /\ res = UriParseSegments(arg)
    BY <1>1 DEF TextAnswers
  <2>2. arg \in Seq(1..255)
    BY <2>1, BytesAssumption
  <2> QED
    BY <1>1, <2>1, <2>2, SegmentsAre
<1>2. TextAnswers => UriSplits
  BY <1>1, Zenon DEF UriSplits, SplitAs
<1> QED
  BY <1>2, TextAnswersHolds, PTL
=============================================================================
