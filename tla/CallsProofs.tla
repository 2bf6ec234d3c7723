----------------------------- MODULE CallsProofs ----------------------------
(***************************************************************************)
(* Theorems about Calls, for every set of arguments, where what is called  *)
(* works on memory, integers or trees: what the padding of des_ecb_* gives *)
(* back under any cipher that decryption undoes, that the hashes absorb    *)
(* every byte once, which bit a write goes to, what rotations, logarithms, *)
(* gcd and lcm return, that the tables of DES are those of FIPS 46, and    *)
(* for search trees of any size and shape that the walks are in order,     *)
(* what a rotation keeps and which pointers it leaves, and that an         *)
(* insertion links nothing.  Each rests on lemmas about the operators of   *)
(* Ecb, Tails, Words, DesRound and RbTree, in sections of their own; the   *)
(* invariant adds that the result is that of the function called, with     *)
(* arguments of its domain.                                                *)
(*                                                                         *)
(* Gcd, Below, Path, Down, Above, Place and Walk are recursive functions,  *)
(* which say nothing until a function is shown to meet their equations.    *)
(* For Below it is the set of what the links reach, for the others on      *)
(* trees the end of the chain of nodes that a loop follows.  The keys,     *)
(* which grow along every chain or shrink along it, make these the only    *)
(* ones.                                                                   *)
(***************************************************************************)
EXTENDS Calls, TLAPS, FiniteSetTheorems, WellFoundedInduction, SequenceTheorems

Bytes == 0..255

\* A function on 1..n is a sequence of n.
LEMMA FunSeq ==
  ASSUME NEW Elem, NEW n \in Nat, NEW w \in [1..n -> Elem]
  PROVE  w \in Seq(Elem) /\ Len(w) = n
<1>1. w \in Seq(Elem)
  BY SeqDef, Zenon
<1>2. DOMAIN w = 1..n
  OBVIOUS
<1>3. Len(w) \in Nat /\ DOMAIN w = 1..Len(w)
  BY <1>1, LenProperties
<1> QED
  BY <1>1, <1>2, <1>3

\* An element in front of a sequence.
LEMMA ConsIs ==
  ASSUME NEW Elem, NEW e \in Elem, NEW t \in Seq(Elem)
  PROVE  /\ <<e>> \o t \in Seq(Elem) /\ Len(<<e>> \o t) = Len(t) + 1
         /\ (<<e>> \o t)[1] = e
         /\ \A k \in 1..Len(t) : (<<e>> \o t)[k + 1] = t[k]
<1> DEFINE s == <<e>>
<1>1. s \in Seq(Elem) /\ Len(s) = 1 /\ s[1] = e
  OBVIOUS
<1> HIDE DEF s
<1>2. s \in Seq(Elem)
  BY <1>1
<1>3. s \o t \in Seq(Elem) /\ Len(s \o t) = Len(s) + Len(t)
  BY <1>2, ConcatProperties, Zenon
<1>4. \A k \in 1..Len(s) : (s \o t)[k] = s[k]
  BY <1>2
<1>5. \A k \in 1..Len(t) : (s \o t)[Len(s) + k] = t[k]
  BY <1>2
<1>6. \A k \in 1..Len(t) : (s \o t)[k + 1] = t[k]
  <2> TAKE k \in 1..Len(t)
  <2>1. k \in 1..Len(t) /\ Len(s) + k = k + 1
    BY <1>1
  <2> QED
    BY <1>5, <2>1, Zenon
<1> QED
  BY <1>1, <1>3, <1>4, <1>6 DEF s

\* The elements of a sequence of n in the reverse order; m is n + 1.
LEMMA ReverseIs ==
  ASSUME NEW Elem, NEW s \in Seq(Elem), NEW n \in Nat, n = Len(s), NEW m \in Nat, m = n + 1
  PROVE  Reverse(s) = [k \in 1..n |-> s[m - k]] /\ Reverse(s) \in [1..n -> Elem]
<1>1. \A k \in 1..n : (n - k) + 1 = m - k /\ m - k \in 1..Len(s)
  OBVIOUS
<1>2. Reverse(s) = [k \in 1..n |-> s[(n - k) + 1]]
  BY Zenon DEF Reverse
<1>3. Reverse(s) = [k \in 1..n |-> s[m - k]]
  BY <1>1, <1>2, Zenon
<1>4. \A k \in 1..n : s[m - k] \in Elem
  BY <1>1
<1> QED
  BY <1>3, <1>4, Zenon

\* A block of a message, its first byte the lowest, and a block in memory.
LEMMA BlockIs ==
  ASSUME NEW Elem, NEW m \in Seq(Elem), NEW b \in Nat, 8 * b + 8 <= Len(m)
  PROVE  Block(m, b) = [k \in 1..8 |-> m[8 * b + (9 - k)]] /\ Block(m, b) \in [1..8 -> Elem]
<1> DEFINE t == SubSeq(m, 8 * b + 1, 8 * b + 8)
<1>1. t \in Seq(Elem) /\ Len(t) = 8 /\ \A k \in 1..8 : t[k] = m[8 * b + k]
  <2> DEFINE i == 8 * b
             n == 8
             u == SubSeq(m, i + 1, i + n)
  <2>1. i \in Nat /\ n \in Nat /\ i + n <= Len(m)
    OBVIOUS
  <2> HIDE DEF i, n
  <2>2. u \in Seq(Elem)
    BY <2>1
  <2>3. Len(u) = n
    BY <2>1
  <2>4. \A k \in 1..n : u[k] = m[i + k]
    BY <2>1
  <2> QED
    BY <2>2, <2>3, <2>4 DEF i, n
<1> HIDE DEF t
<1>2. Block(m, b) = Reverse(t)
  BY DEF Block, GetUnalignedLe, LeToCpu, GetUnaligned, t
<1>3. Reverse(t) = [k \in 1..8 |-> t[9 - k]] /\ Reverse(t) \in [1..8 -> Elem]
  <2>1. 8 \in Nat /\ 9 \in Nat /\ 9 = 8 + 1 /\ 8 = Len(t)
    BY <1>1
  <2> QED
    BY <1>1, <2>1, ReverseIs, Zenon
<1>4. \A k \in 1..8 : t[9 - k] = m[8 * b + (9 - k)]
  <2> TAKE k \in 1..8
  <2>1. 9 - k \in 1..8
    OBVIOUS
  <2> QED
    BY <1>1, <2>1, Zenon
<1> QED
  BY <1>2, <1>3, <1>4, Zenon

\* What put_unaligned stores of a block, and what the block then is.
LEMMA PutIs ==
  ASSUME NEW Elem, NEW w \in [1..8 -> Elem]
  PROVE  PutUnalignedLe(w) = [k \in 1..8 |-> w[9 - k]] /\ PutUnalignedLe(w) \in [1..8 -> Elem]
<1>1. w \in Seq(Elem) /\ Len(w) = 8
  BY FunSeq
<1>2. PutUnalignedLe(w) = Reverse(w)
  BY DEF PutUnalignedLe, CpuToLe, PutUnaligned
<1>3. 8 \in Nat /\ 9 \in Nat /\ 9 = 8 + 1 /\ 8 = Len(w)
  BY <1>1
<1>4. Reverse(w) = [k \in 1..8 |-> w[9 - k]] /\ Reverse(w) \in [1..8 -> Elem]
  BY <1>1, <1>3, ReverseIs, Zenon
<1> QED
  BY <1>2, <1>4, Zenon

\* Blocks of eight bytes.
LEMMA EightSplit ==
  ASSUME NEW k \in Nat \ {0}
  PROVE  /\ (k - 1) \div 8 \in Nat /\ ((k - 1) % 8) + 1 \in 1..8
         /\ k = 8 * ((k - 1) \div 8) + (((k - 1) % 8) + 1)
OBVIOUS

\* The same from the other side.
LEMMA EightJoin ==
  ASSUME NEW b \in Nat, NEW j \in 1..8
  PROVE  /\ 8 * b + j \in Nat \ {0}
         /\ ((8 * b + j) - 1) \div 8 = b /\ (((8 * b + j) - 1) % 8) + 1 = j
OBVIOUS

\* The last bytes of a message, padded.
LEMMA PaddedIs ==
  ASSUME NEW tail \in Seq(Bytes), NEW r \in 0..7, Len(tail) = r
  PROVE  /\ GetPadded(tail) \in [1..8 -> Bytes]
         /\ \A k \in 1..8 : GetPadded(tail)[k] = IF k <= r THEN tail[k] ELSE 8 - r
<1> DEFINE pad == [k \in 1..8 - r |-> 8 - r]
<1>1. pad \in [1..8 - r -> Bytes] /\ 8 - r \in Nat
  BY DEF Bytes
<1>2. pad \in Seq(Bytes) /\ Len(pad) = 8 - r
  BY <1>1, FunSeq
<1>3. \A k \in 1..8 - r : pad[k] = 8 - r
  OBVIOUS
<1>4. GetPadded(tail) = tail \o pad
  BY DEF GetPadded
<1> HIDE DEF pad
<1>5. /\ GetPadded(tail) \in Seq(Bytes) /\ Len(GetPadded(tail)) = 8
      /\ \A k \in 1..8 : GetPadded(tail)[k] = IF k <= r THEN tail[k] ELSE pad[k - r]
  <2> DEFINE z == 8 - r
             s == tail \o pad
  <2>1. z \in Nat /\ Len(pad) = z /\ r + z = 8
    BY <1>2
  <2> HIDE DEF z
  <2>2. s \in Seq(Bytes)
    BY <1>2, ConcatProperties
  <2>3. Len(s) = r + z
    BY <1>2, <2>1, ConcatProperties
  <2>4. \A k \in 1..r : s[k] = tail[k]
    BY <1>2, <2>1
  <2>5. \A k \in r + 1..r + z : s[k] = pad[k - r]
    BY <1>2, <2>1
  <2> HIDE DEF s
  <2>6. \A k \in 1..8 : s[k] = IF k <= r THEN tail[k] ELSE pad[k - r]
    BY <2>1, <2>4, <2>5
  <2> QED
    BY <1>4, <2>1, <2>2, <2>3, <2>6 DEF s
<1>6. GetPadded(tail) \in [1..8 -> Bytes]
  BY <1>5, LenProperties
<1> QED
  BY <1>3, <1>5, <1>6

\* What comes back of a message that is encrypted and decrypted in blocks.
Returning(msg) ==
  LET n == Len(msg) % 8
      tail == SubSeq(msg, Len(msg) - n + 1, Len(msg))
  IN Prefix(msg, Len(msg) - n) \o [k \in 1..n |-> IF 8 - k <= n THEN tail[8 - k] ELSE 8 - n]

\* Each block comes back, and of the last part what PutPadded stores.
LEMMA EcbIs ==
  ASSUME NEW msg \in Messages
  PROVE  EcbDecrypt(EcbEncrypt(msg), Len(msg)) = Returning(msg)
<1> DEFINE w == Whole(msg)
           r == Len(msg) % 8
           tail == SubSeq(msg, 8 * w + 1, Len(msg))
           last == GetPadded(tail)
           c(b) == IF b < w THEN DesEncrypt(Block(msg, b)) ELSE DesEncrypt(last)
           head == [k \in 1..8 * w |->
                      PutUnalignedLe(DesEncrypt(Block(msg, (k - 1) \div 8)))[((k - 1) % 8) + 1]]
           enc == EcbEncrypt(msg)
           back == [k \in 1..8 * w |->
                      PutUnalignedLe(DesDecrypt(Block(enc, (k - 1) \div 8)))[((k - 1) % 8) + 1]]
<1>1. msg \in Seq(Bytes) /\ Len(msg) \in Nat
  BY BytesAssumption DEF Bytes
<1>2. w \in Nat /\ r \in 0..7 /\ Len(msg) = 8 * w + r
  BY <1>1 DEF Whole
<1>3. Len(msg) \div 8 = w
  BY DEF Whole
<1> HIDE DEF w, r
<1>4. /\ tail \in Seq(Bytes) /\ Len(tail) = r
      /\ Len(msg) - r = 8 * w
  BY <1>1, <1>2
<1>5. /\ last \in [1..8 -> Bytes]
      /\ \A k \in 1..8 : last[k] = IF k <= r THEN tail[k] ELSE 8 - r
  <2> HIDE DEF tail
  <2> QED
    BY <1>2, <1>4, PaddedIs
<1>6. enc = head \o PutUnalignedLe(DesEncrypt(last))
  BY DEF EcbEncrypt, EachBlock, w
<1>7. \A b \in 0..w - 1 : /\ Block(msg, b) \in [1..8 -> Bytes]
                          /\ Block(msg, b) = [k \in 1..8 |-> msg[8 * b + (9 - k)]]
  <2> TAKE b \in 0..w - 1
  <2>1. b \in Nat /\ 8 * b + 8 <= Len(msg)
    BY <1>2
  <2> QED
    BY <1>1, <2>1, BlockIs
<1>8. /\ \A b \in 0..w - 1 : DesEncrypt(Block(msg, b)) \in [1..8 -> Bytes]
                             /\ DesDecrypt(DesEncrypt(Block(msg, b))) = Block(msg, b)
      /\ DesEncrypt(last) \in [1..8 -> Bytes] /\ DesDecrypt(DesEncrypt(last)) = last
  <2>1. last \in BlocksOf(msg) /\ \A b \in 0..w - 1 : Block(msg, b) \in BlocksOf(msg)
    BY DEF BlocksOf, w
  <2> QED
    BY <2>1, CipherAssumption DEF Bytes
<1> HIDE DEF tail, last
<1>9. \A b \in 0..w : c(b) \in [1..8 -> Bytes]
  BY <1>2, <1>8
<1>10. /\ head \in Seq(Bytes) /\ Len(head) = 8 * w
       /\ \A b \in 0..w - 1 : \A j \in 1..8 : 8 * b + j \in 1..8 * w /\ head[8 * b + j] = c(b)[9 - j]
  <2>1. \A b \in 0..w - 1 : \A j \in 1..8 : PutUnalignedLe(DesEncrypt(Block(msg, b)))[j] = c(b)[9 - j]
                                            /\ c(b)[9 - j] \in Bytes
    <3> TAKE b \in 0..w - 1
    <3> TAKE j \in 1..8
    <3>1. PutUnalignedLe(DesEncrypt(Block(msg, b))) = [k \in 1..8 |-> DesEncrypt(Block(msg, b))[9 - k]]
      BY <1>8, PutIs
    <3>2. b < w /\ 9 - j \in 1..8
      BY <1>2
    <3> QED
      BY <1>8, <3>1, <3>2
  <2> HIDE DEF c
  <2>2. \A k \in 1..8 * w : (k - 1) \div 8 \in 0..w - 1 /\ ((k - 1) % 8) + 1 \in 1..8
    BY <1>2
  <2>3. head \in [1..8 * w -> Bytes]
    BY <2>1, <2>2
  <2>4. 8 * w \in Nat
    BY <1>2
  <2>5. head \in Seq(Bytes) /\ Len(head) = 8 * w
    <3> HIDE DEF head
    <3> QED
      BY <2>3, <2>4, FunSeq
  <2>6. ASSUME NEW b \in 0..w - 1, NEW j \in 1..8
        PROVE  8 * b + j \in 1..8 * w /\ head[8 * b + j] = c(b)[9 - j]
    <3>1. 8 * b + j \in 1..8 * w
      BY <1>2
    <3>2. ((8 * b + j) - 1) \div 8 = b /\ (((8 * b + j) - 1) % 8) + 1 = j
      BY <1>2, EightJoin
    <3>3. head[8 * b + j] = PutUnalignedLe(DesEncrypt(Block(msg, b)))[j]
      BY <3>1, <3>2, Zenon
    <3> QED
      BY <2>1, <3>1, <3>3
  <2> QED
    BY <2>5, <2>6
<1> HIDE DEF head
<1>11. /\ PutUnalignedLe(DesEncrypt(last)) \in [1..8 -> Bytes]
       /\ PutUnalignedLe(DesEncrypt(last)) = [k \in 1..8 |-> DesEncrypt(last)[9 - k]]
  BY <1>8, PutIs
<1>12. /\ enc \in Seq(Bytes) /\ Len(enc) = 8 * w + 8
       /\ \A k \in 1..8 * w : enc[k] = head[k]
       /\ \A j \in 1..8 : enc[8 * w + j] = DesEncrypt(last)[9 - j]
  <2> DEFINE p == PutUnalignedLe(DesEncrypt(last))
  <2>1. p \in Seq(Bytes) /\ Len(p) = 8
    BY <1>11, FunSeq
  <2>2. \A j \in 1..8 : p[j] = DesEncrypt(last)[9 - j]
    BY <1>11
  <2> HIDE DEF p, enc
  <2>3. enc = head \o p
    BY <1>6 DEF p
  <2>4. /\ head \o p \in Seq(Bytes) /\ Len(head \o p) = 8 * w + 8
        /\ \A k \in 1..8 * w : (head \o p)[k] = head[k]
        /\ \A j \in 1..8 : (head \o p)[8 * w + j] = p[j]
    <3> DEFINE a == 8 * w
               d == 8
    <3>1. /\ a \in Nat /\ head \in Seq(Bytes) /\ Len(head) = a
          /\ d \in Nat /\ p \in Seq(Bytes) /\ Len(p) = d
      BY <1>2, <1>10, <2>1
    <3> HIDE DEF a, d
    <3>2. Len(head \o p) = a + d
      BY <3>1
    <3>3. \A k \in 1..a : (head \o p)[k] = head[k]
      BY <3>1
    <3>4. \A j \in 1..d : (head \o p)[a + j] = p[j]
      BY <3>1
    <3>5. head \o p \in Seq(Bytes)
      BY <3>1
    <3> QED
      BY <3>2, <3>3, <3>4, <3>5 DEF a, d
  <2> QED
    BY <2>2, <2>3, <2>4, Zenon
<1> HIDE DEF enc
<1>13. \A b \in 0..w : Block(enc, b) = c(b)
  <2> TAKE b \in 0..w
  <2>1. b \in Nat /\ 8 * b + 8 <= Len(enc)
    BY <1>2, <1>12
  <2>2. Block(enc, b) = [k \in 1..8 |-> enc[8 * b + (9 - k)]]
    BY <1>12, <2>1, BlockIs
  <2>3. ASSUME NEW k \in 1..8 PROVE enc[8 * b + (9 - k)] = c(b)[k]
    <3>1. 9 - k \in 1..8 /\ 9 - (9 - k) = k
      OBVIOUS
    <3>2. CASE b < w
      <4>1. b \in 0..w - 1
        BY <1>2, <3>2
      <4>2. enc[8 * b + (9 - k)] = c(b)[9 - (9 - k)]
        <5> HIDE DEF c
        <5> QED
          BY <1>10, <1>12, <3>1, <4>1, Zenon
      <4> QED
        BY <3>1, <4>2, Zenon
    <3>3. CASE ~(b < w)
      <4>1. b = w
        BY <1>2, <3>3
      <4>2. enc[8 * w + (9 - k)] = DesEncrypt(last)[9 - (9 - k)]
        BY <1>12, <3>1, Zenon
      <4> QED
        BY <3>1, <3>3, <4>1, <4>2, Zenon
    <3> QED
      BY <3>2, <3>3
  <2>4. c(b) = [k \in 1..8 |-> c(b)[k]]
    BY <1>9
  <2> HIDE DEF c
  <2> QED
    BY <2>2, <2>3, <2>4, Zenon
<1>14. EcbDecrypt(enc, Len(msg)) = back \o PutPadded(last, r)
  <2>1. EcbDecrypt(enc, Len(msg)) = back \o PutPadded(DesDecrypt(Block(enc, w)), r)
    BY <1>3, Zenon DEF EcbDecrypt, EachBlock, r
  <2>2. Block(enc, w) = DesEncrypt(last)
    BY <1>2, <1>13
  <2> QED
    BY <1>8, <2>1, <2>2
<1>15. back = Prefix(msg, Len(msg) - r)
  <2>1. \A k \in 1..8 * w : PutUnalignedLe(DesDecrypt(Block(enc, (k - 1) \div 8)))[((k - 1) % 8) + 1] = msg[k]
    <3> TAKE k \in 1..8 * w
    <3> DEFINE b == (k - 1) \div 8
               j == ((k - 1) % 8) + 1
    <3>1. b \in 0..w - 1 /\ j \in 1..8 /\ k = 8 * b + j
      BY <1>2
    <3> HIDE DEF b, j
    <3>2. DesDecrypt(Block(enc, b)) = Block(msg, b)
      BY <1>2, <1>8, <1>13, <3>1
    <3>3. PutUnalignedLe(Block(msg, b))[j] = Block(msg, b)[9 - j]
      BY <1>7, <3>1, PutIs
    <3>4. 9 - j \in 1..8 /\ 9 - (9 - j) = j
      BY <3>1
    <3>5. Block(msg, b)[9 - j] = msg[8 * b + (9 - (9 - j))]
      BY <1>7, <3>1, <3>4, Zenon
    <3> QED
      BY <3>1, <3>2, <3>3, <3>4, <3>5, Zenon DEF b, j
  <2>2. back = [k \in 1..8 * w |-> msg[k]]
    BY <2>1, Zenon
  <2>3. Prefix(msg, 8 * w) = [k \in 1..8 * w |-> msg[k]]
    BY <1>1, <1>2 DEF Prefix
  <2> QED
    BY <1>4, <2>2, <2>3, Zenon
<1>16. PutPadded(last, r) = [k \in 1..r |-> IF 8 - k <= r THEN tail[8 - k] ELSE 8 - r]
  <2>1. \A k \in 1..r : last[8 - k] = IF 8 - k <= r THEN tail[8 - k] ELSE 8 - r
    <3> TAKE k \in 1..r
    <3>1. 8 - k \in 1..8
      BY <1>2
    <3> QED
      BY <1>5, <3>1, Zenon
  <2> QED
    BY <2>1, Zenon DEF PutPadded
<1>17. tail = SubSeq(msg, Len(msg) - r + 1, Len(msg))
  BY <1>4, Zenon DEF tail
<1> QED
  BY <1>14, <1>15, <1>16, <1>17, Zenon DEF Returning, r, enc

-----------------------------------------------------------------------------
(* The words of the hashes.                                               *)

\* Quotient and remainder of any divisor.
LEMMA DivMod ==
  ASSUME NEW a \in Nat, NEW b \in Nat \ {0}
  PROVE  /\ a \div b \in Nat /\ a % b \in 0..b - 1
         /\ a = b * (a \div b) + (a % b)
<1>1. a % b \in 0..b - 1
  OBVIOUS
<1>2. a \div b \in Int
  OBVIOUS
<1>3. a = b * (a \div b) + (a % b)
  OBVIOUS
<1>4. a \div b \in Nat
  BY <1>1, <1>2, <1>3
<1> QED
  BY <1>1, <1>3, <1>4

\* Division by a number determines quotient and rest.
LEMMA DivModIs ==
  ASSUME NEW b \in Nat \ {0}, NEW q \in Nat, NEW r \in 0..b - 1
  PROVE  (b * q + r) \div b = q /\ (b * q + r) % b = r
<1> DEFINE a == b * q + r
           d == a \div b
           m == a % b
<1>1. a \in Nat
  OBVIOUS
<1>2. d \in Nat /\ m \in 0..b - 1 /\ a = b * d + m
  <2> HIDE DEF a
  <2> QED
    BY <1>1, DivMod
<1>3. ASSUME NEW x \in Int, NEW y \in Int, x < y PROVE b * x + b <= b * y
  BY <1>3
<1> HIDE DEF d, m
<1>4. d = q
  BY <1>2, <1>3
<1>5. m = r
  BY <1>2, <1>4
<1> QED
  BY <1>4, <1>5 DEF d, m

\* The places of c words of n bytes.
LEMMA Within ==
  ASSUME NEW n \in Nat \ {0}, NEW c \in Nat, NEW b \in 0..c - 1, NEW i \in 0..n - 1
  PROVE  n * b + i \in 0..n * c - 1 /\ n * b \in Nat /\ n * c \in Nat
<1>1. n * b \in Nat /\ n * c \in Nat
  OBVIOUS
<1>2. n * b + n <= n * c
  OBVIOUS
<1> QED
  BY <1>1, <1>2

\* Every place is one of those.
LEMMA SplitWithin ==
  ASSUME NEW n \in Nat \ {0}, NEW c \in Nat, NEW k \in 1..n * c
  PROVE  /\ (k - 1) \div n \in 0..c - 1 /\ (k - 1) % n \in 0..n - 1
         /\ k - 1 = n * ((k - 1) \div n) + ((k - 1) % n)
<1> DEFINE d == (k - 1) \div n
           m == (k - 1) % n
<1>1. n * c \in Nat /\ k - 1 \in Nat /\ k - 1 < n * c
  OBVIOUS
<1>2. d \in Nat /\ m \in 0..n - 1 /\ k - 1 = n * d + m
  BY <1>1, DivMod
<1> HIDE DEF d, m
<1>3. ASSUME c <= d PROVE n * c <= n * d
  BY <1>2, <1>3
<1>4. n * d \in Int
  BY <1>2
<1>5. d < c
  BY <1>1, <1>2, <1>3, <1>4
<1> QED
  BY <1>2, <1>5 DEF d, m

\* Byte i of word b in memory.
LEMMA LittleEndianIs ==
  ASSUME NEW n \in Nat \ {0}, NEW c \in Nat, NEW words \in Seq([1..n -> Bytes]), Len(words) = c
  PROVE  /\ LittleEndian(words, n) \in Seq(Bytes) /\ Len(LittleEndian(words, n)) = n * c
         /\ \A b \in 0..c - 1 : \A i \in 0..n - 1 :
              LittleEndian(words, n)[(n * b + i) + 1] = words[b + 1][n - i]
<1> DEFINE s == [k \in 1..n * c |-> words[((k - 1) \div n) + 1][n - ((k - 1) % n)]]
<1>1. LittleEndian(words, n) = s
  BY DEF LittleEndian
<1>2. \A b \in 0..c - 1 : \A i \in 0..n - 1 : words[b + 1][n - i] \in Bytes
  <2> TAKE b \in 0..c - 1
  <2> TAKE i \in 0..n - 1
  <2>1. b + 1 \in 1..Len(words) /\ n - i \in 1..n
    OBVIOUS
  <2>2. words[b + 1] \in [1..n -> Bytes]
    BY <2>1
  <2> QED
    BY <2>1, <2>2
<1>3. n * c \in Nat
  OBVIOUS
<1>4. \A k \in 1..n * c : words[((k - 1) \div n) + 1][n - ((k - 1) % n)] \in Bytes
  <2> TAKE k \in 1..n * c
  <2>1. (k - 1) \div n \in 0..c - 1 /\ (k - 1) % n \in 0..n - 1
    BY SplitWithin
  <2> QED
    BY <1>2, <2>1, Zenon
<1>5. s \in [1..n * c -> Bytes]
  BY <1>4
<1>6. s \in Seq(Bytes) /\ Len(s) = n * c
  <2> HIDE DEF s
  <2> QED
    BY <1>3, <1>5, FunSeq
<1>7. ASSUME NEW b \in 0..c - 1, NEW i \in 0..n - 1
      PROVE  s[(n * b + i) + 1] = words[b + 1][n - i]
  <2>1. n * b + i \in 0..n * c - 1
    BY Within, Zenon
  <2>2. (n * b + i) \div n = b /\ (n * b + i) % n = i
    <3>1. b \in Nat
      OBVIOUS
    <3> QED
      BY <3>1, DivModIs, Zenon
  <2> DEFINE p == n * b + i
  <2> HIDE DEF p
  <2>3. p + 1 \in 1..n * c /\ (p + 1) - 1 = p
    BY <1>3, <2>1 DEF p
  <2>4. s[p + 1] = words[(p \div n) + 1][n - (p % n)]
    BY <2>3
  <2> QED
    BY <2>2, <2>4, Zenon DEF p
<1> QED
  BY <1>1, <1>6, <1>7, Zenon

\* The words a message is read in, and its rest as a word with zeros above.
LEMMA WholeWordsIs ==
  ASSUME NEW n \in Nat \ {0}, NEW m \in Seq(Bytes), NEW w, w = Len(m) \div n
  PROVE  /\ w \in Nat /\ WholeWords(m, n) \in Seq([1..n -> Bytes]) /\ Len(WholeWords(m, n)) = w
         /\ \A b \in 0..w - 1 : \A i \in 0..n - 1 :
              WholeWords(m, n)[b + 1][n - i] = m[(n * b + i) + 1]
<1> DEFINE part(b) == SubSeq(m, n * (b - 1) + 1, n * b)
           s == [b \in 1..w |-> GetUnalignedLe(part(b))]
<1>1. w \in Nat /\ n * w <= Len(m) /\ Len(m) \in Nat
  <2>1. Len(m) \in Nat
    OBVIOUS
  <2>2. w \in Nat /\ Len(m) % n \in 0..n - 1 /\ Len(m) = n * w + (Len(m) % n)
    BY <2>1, DivMod, Zenon
  <2> DEFINE r == Len(m) % n
             nw == n * w
  <2>3. nw \in Int
    BY <2>2
  <2> HIDE DEF r, nw
  <2>4. r \in 0..n - 1 /\ Len(m) = nw + r
    BY <2>2 DEF r, nw
  <2>5. nw <= Len(m)
    BY <2>3, <2>4
  <2> QED
    BY <2>1, <2>2, <2>5 DEF nw
<1>2. WholeWords(m, n) = s
  BY DEF WholeWords
<1>3. ASSUME NEW b \in 1..w
      PROVE  /\ GetUnalignedLe(part(b)) \in [1..n -> Bytes]
             /\ \A i \in 0..n - 1 : GetUnalignedLe(part(b))[n - i] = m[(n * (b - 1) + i) + 1]
  <2> DEFINE z == n * (b - 1)
  <2>1. z \in Nat /\ n * b = z + n /\ n * b <= n * w
    BY <1>1
  <2> HIDE DEF z
  <2>2. part(b) = SubSeq(m, z + 1, z + n) /\ z + n <= Len(m)
    <3>1. n * w \in Int
      BY <1>1
    <3> QED
      BY <1>1, <2>1, <3>1 DEF z
  <2> DEFINE p == part(b)
  <2> HIDE DEF p
  <2>3. p = SubSeq(m, z + 1, z + n)
    BY <2>2 DEF p
  <2>4. p \in Seq(Bytes) /\ n = Len(p)
    <3>1. z + 1 \in Int /\ z + n \in Int /\ \A i \in z + 1..z + n : m[i] \in Bytes
      BY <1>1, <2>1, <2>2
    <3>2. p \in Seq(Bytes)
      BY <2>3, <3>1, SubSeqProperties, Zenon
    <3>3. Len(p) = IF z + 1 <= z + n THEN (z + n) - (z + 1) + 1 ELSE 0
      BY <2>3, <3>1, SubSeqProperties
    <3> QED
      BY <2>1, <3>2, <3>3
  <2>5. \A k \in 1..n : p[k] = m[z + k]
    BY <1>1, <2>1, <2>2, <2>3
  <2>6. n \in Nat /\ n + 1 \in Nat
    OBVIOUS
  <2>7. Reverse(p) = [k \in 1..n |-> p[(n + 1) - k]] /\ Reverse(p) \in [1..n -> Bytes]
    <3> DEFINE m1 == n + 1
    <3>1. m1 \in Nat /\ m1 = n + 1
      BY <2>6
    <3> HIDE DEF m1
    <3>2. Reverse(p) = [k \in 1..n |-> p[m1 - k]] /\ Reverse(p) \in [1..n -> Bytes]
      <4>1. Reverse(p) = [k \in 1..n |-> p[m1 - k]]
        BY <2>4, <2>6, <3>1, ReverseIs
      <4>2. Reverse(p) \in [1..n -> Bytes]
        BY <2>4, <2>6, <3>1, ReverseIs
      <4> QED
        BY <4>1, <4>2
    <3> QED
      BY <3>2 DEF m1
  <2>8. ASSUME NEW i \in 0..n - 1 PROVE Reverse(p)[n - i] = m[(z + i) + 1]
    <3>1. n - i \in 1..n /\ (n + 1) - (n - i) = i + 1 /\ i + 1 \in 1..n /\ z + (i + 1) = (z + i) + 1
      BY <2>1
    <3>2. Reverse(p)[n - i] = p[(n + 1) - (n - i)]
      BY <2>7, <3>1, Zenon
    <3> QED
      BY <2>5, <3>1, <3>2, Zenon
  <2>9. GetUnalignedLe(part(b)) = Reverse(p)
    BY DEF GetUnalignedLe, LeToCpu, GetUnaligned, p
  <2> QED
    BY <2>7, <2>8, <2>9, Zenon DEF z
<1> HIDE DEF part
<1>4. s \in [1..w -> [1..n -> Bytes]]
  BY <1>3
<1>5. s \in Seq([1..n -> Bytes]) /\ Len(s) = w
  <2> HIDE DEF s
  <2> QED
    BY <1>1, <1>4, FunSeq
<1>6. ASSUME NEW b \in 0..w - 1, NEW i \in 0..n - 1
      PROVE  s[b + 1][n - i] = m[(n * b + i) + 1]
  <2>1. b + 1 \in 1..w /\ (b + 1) - 1 = b
    BY <1>1
  <2>2. s[b + 1] = GetUnalignedLe(part(b + 1))
    BY <2>1
  <2>3. GetUnalignedLe(part(b + 1))[n - i] = m[(n * ((b + 1) - 1) + i) + 1]
    BY <1>3, <2>1, Zenon
  <2> QED
    BY <2>1, <2>2, <2>3, Zenon
<1> QED
  BY <1>1, <1>2, <1>5, <1>6, Zenon

\* The word of a tail: zeros above, the first byte lowest.
LEMMA TailWordIs ==
  ASSUME NEW n \in Nat, NEW c \in 0..n, NEW tail \in Seq(Bytes), Len(tail) = c
  PROVE  /\ TailWord(tail, n) \in Seq(Bytes) /\ Len(TailWord(tail, n)) = n
         /\ \A q \in 1..n : TailWord(tail, n)[q] = IF q <= n - c THEN 0 ELSE tail[(n + 1) - q]
<1> DEFINE z == Zeros(n - c)
           r == Reverse(tail)
           t == z \o r
<1>1. n - c \in Nat /\ c \in Nat /\ c + 1 \in Nat /\ c = Len(tail)
  OBVIOUS
<1>2. z \in [1..n - c -> Bytes] /\ \A q \in 1..n - c : z[q] = 0
  BY DEF Zeros, Bytes
<1>3. r = [k \in 1..c |-> tail[(c + 1) - k]] /\ r \in [1..c -> Bytes]
  BY <1>1, ReverseIs, Zenon
<1> HIDE DEF z, r
<1>4. z \in Seq(Bytes) /\ Len(z) = n - c
  BY <1>1, <1>2, FunSeq
<1>5. r \in Seq(Bytes) /\ Len(r) = c
  BY <1>1, <1>3, FunSeq
<1>6. TailWord(tail, n) = t
  BY DEF TailWord, z, r
<1>7. t \in Seq(Bytes)
  BY <1>4, <1>5
<1>8. Len(t) = n
  BY <1>1, <1>4, <1>5
<1>9. \A q \in 1..n : t[q] = IF q <= n - c THEN z[q] ELSE r[q - (n - c)]
  BY <1>1, <1>4, <1>5
<1>10. ASSUME NEW q \in 1..n, ~(q <= n - c) PROVE r[q - (n - c)] = tail[(n + 1) - q]
  <2>1. q - (n - c) \in 1..c /\ (c + 1) - (q - (n - c)) = (n + 1) - q
    BY <1>10
  <2> QED
    BY <1>3, <2>1, Zenon
<1> HIDE DEF t
<1>11. \A q \in 1..n : t[q] = IF q <= n - c THEN 0 ELSE tail[(n + 1) - q]
  BY <1>2, <1>9, <1>10
<1> QED
  BY <1>6, <1>7, <1>8, <1>11, Zenon

\* An input, zeros and a last part, place by place.
Filled(s, m, z, t) ==
  /\ s \in Seq(Bytes) /\ Len(s) = (Len(m) + z) + Len(t)
  /\ \A k \in 1..Len(m) : s[k] = m[k]
  /\ \A k \in Len(m) + 1..Len(m) + z : s[k] = 0
  /\ \A k \in 1..Len(t) : s[(Len(m) + z) + k] = t[k]

\* A message, z zeros and what comes behind them.
LEMMA FilledIs ==
  ASSUME NEW m \in Seq(Bytes), NEW z \in Nat, NEW t \in Seq(Bytes)
  PROVE  Filled(m \o Zeros(z) \o t, m, z, t)
<1> DEFINE y == Zeros(z)
           u == m \o y
<1>1. y \in [1..z -> Bytes] /\ \A k \in 1..z : y[k] = 0
  BY DEF Zeros, Bytes
<1> HIDE DEF y
<1>2. y \in Seq(Bytes) /\ Len(y) = z
  BY <1>1, FunSeq
<1>3. u \in Seq(Bytes)
  BY <1>2
<1>4. Len(u) = Len(m) + z
  BY <1>2
<1>5. \A k \in 1..Len(m) : u[k] = m[k]
  BY <1>2
<1>6. \A k \in Len(m) + 1..Len(m) + z : u[k] = y[k - Len(m)]
  BY <1>2
<1>7. \A k \in Len(m) + 1..Len(m) + z : u[k] = 0
  BY <1>1, <1>6
<1>8. Len(m) \in Nat
  OBVIOUS
<1> HIDE DEF u
<1>9. u \o t \in Seq(Bytes)
  BY <1>3
<1>10. Len(u \o t) = (Len(m) + z) + Len(t)
  BY <1>3, <1>4
<1>11. \A k \in 1..Len(u) : (u \o t)[k] = u[k]
  BY <1>3
<1>12. \A k \in 1..Len(t) : (u \o t)[Len(u) + k] = t[k]
  BY <1>3
<1>13. m \o Zeros(z) \o t = u \o t
  BY DEF u, y
<1>14. \A k \in 1..Len(m) : (u \o t)[k] = m[k]
  BY <1>4, <1>5, <1>8, <1>11
<1>15. \A k \in Len(m) + 1..Len(m) + z : (u \o t)[k] = 0
  BY <1>4, <1>7, <1>8, <1>11
<1>16. \A k \in 1..Len(t) : (u \o t)[(Len(m) + z) + k] = t[k]
  BY <1>4, <1>12, Zenon
<1> QED
  BY <1>9, <1>10, <1>13, <1>14, <1>15, <1>16, Zenon DEF Filled

\* An element behind a sequence.
LEMMA AppendIs ==
  ASSUME NEW Elem, NEW s \in Seq(Elem), NEW e \in Elem
  PROVE  /\ Append(s, e) \in Seq(Elem) /\ Len(Append(s, e)) = Len(s) + 1
         /\ \A k \in 1..Len(s) : Append(s, e)[k] = s[k]
         /\ Append(s, e)[Len(s) + 1] = e
OBVIOUS

\* The words of each hash are the message and its filling, byte by byte.
LEMMA SiphashAbsorbs ==
  ASSUME NEW m \in Seq(Bytes)
  PROVE  LittleEndian(SiphashWords(m), 8)
           = m \o Zeros(7 - (Len(m) % 8)) \o <<Len(m) % 256>>
<1> DEFINE n == Len(m)
           w == n \div 8
           r == n % 8
           ws == WholeWords(m, 8)
           tail == TailBytes(m, 8)
           tw == TailWord(tail, 7)
           last == <<n % 256>> \o tw
           words == SiphashWords(m)
           le == LittleEndian(words, 8)
           size == <<n % 256>>
           want == m \o Zeros(7 - r) \o size
<1>1. n \in Nat /\ w \in Nat /\ r \in 0..7 /\ n = 8 * w + r /\ n % 256 \in Bytes
  <2>1. n \in Nat
    OBVIOUS
  <2> HIDE DEF n
  <2> QED
    BY <2>1 DEF Bytes
<1>2. /\ ws \in Seq([1..8 -> Bytes]) /\ Len(ws) = w
      /\ \A b \in 0..w - 1 : \A i \in 0..7 : ws[b + 1][8 - i] = m[(8 * b + i) + 1]
  <2>1. 8 \in Nat \ {0} /\ 8 - 1 = 7
    OBVIOUS
  <2>2. ws \in Seq([1..8 -> Bytes])
    BY <2>1, WholeWordsIs
  <2>3. Len(ws) = w
    BY <2>1, WholeWordsIs
  <2>4. \A b \in 0..w - 1 : \A i \in 0..8 - 1 : ws[b + 1][8 - i] = m[(8 * b + i) + 1]
    <3> HIDE DEF ws
    <3> QED
      BY <2>1, WholeWordsIs, Zenon DEF ws
  <2> QED
    BY <2>1, <2>2, <2>3, <2>4
<1> HIDE DEF ws
<1>3. tail \in Seq(Bytes) /\ Len(tail) = r /\ \A k \in 1..r : tail[k] = m[8 * w + k]
  <2>1. tail = SubSeq(m, 8 * w + 1, n)
    <3>1. Len(m) - (Len(m) % 8) + 1 = 8 * w + 1
      BY <1>1
    <3> QED
      BY <3>1, Zenon DEF TailBytes
  <2> HIDE DEF tail, w, r
  <2> QED
    BY <1>1, <2>1
<1> HIDE DEF tail
<1>4. /\ tw \in Seq(Bytes) /\ Len(tw) = 7
      /\ \A q \in 1..7 : tw[q] = IF q <= 7 - r THEN 0 ELSE tail[8 - q]
  <2> HIDE DEF r
  <2>1. 7 \in Nat /\ r \in 0..7 /\ 7 + 1 = 8
    BY <1>1
  <2> QED
    <3>1. tw \in Seq(Bytes)
      BY <1>3, <2>1, TailWordIs
    <3>2. Len(tw) = 7
      BY <1>3, <2>1, TailWordIs
    <3>3. \A q \in 1..7 : tw[q] = IF q <= 7 - r THEN 0 ELSE tail[(7 + 1) - q]
      BY <1>3, <2>1, TailWordIs
    <3> QED
      BY <2>1, <3>1, <3>2, <3>3
<1> HIDE DEF tw
<1>5. /\ last \in [1..8 -> Bytes] /\ last[1] = n % 256
      /\ \A q \in 2..8 : last[q] = tw[q - 1]
  <2> DEFINE e == n % 256
  <2>1. e \in Bytes /\ last = <<e>> \o tw
    BY <1>1
  <2> HIDE DEF last, e
  <2>2. last \in Seq(Bytes)
    BY <1>4, <2>1, ConsIs
  <2>3. Len(last) = Len(tw) + 1
    <3>1. tw \in Seq(Bytes)
      BY <1>4
    <3>2. Len(<<e>> \o tw) = Len(tw) + 1
      BY <2>1, <3>1, ConsIs, Zenon
    <3> QED
      BY <2>1, <3>2
  <2>4. last[1] = e
    BY <1>4, <2>1, ConsIs
  <2>5. \A k \in 1..Len(tw) : last[k + 1] = tw[k]
    BY <1>4, <2>1, ConsIs
  <2>6. last \in [1..8 -> Bytes]
    <3>1. Len(last) = 8
      BY <1>4, <2>3
    <3> QED
      BY <2>2, <3>1, LenProperties, Zenon
  <2>7. ASSUME NEW q \in 2..8 PROVE last[q] = tw[q - 1]
    <3>1. q - 1 \in 1..Len(tw) /\ (q - 1) + 1 = q
      BY <1>4
    <3> QED
      BY <2>5, <3>1, Zenon
  <2> QED
    BY <2>4, <2>6, <2>7 DEF e
<1>6. words = Append(ws, last)
  BY DEF SiphashWords, ws, tw, tail
<1> HIDE DEF last
<1>7. /\ words \in Seq([1..8 -> Bytes]) /\ Len(words) = w + 1
      /\ \A k \in 1..w : words[k] = ws[k]
      /\ words[w + 1] = last
  <2> HIDE DEF words, w
  <2> QED
    BY <1>2, <1>5, <1>6, AppendIs
<1> HIDE DEF words
<1>8. /\ le \in Seq(Bytes) /\ Len(le) = 8 * (w + 1)
      /\ \A b \in 0..w : \A i \in 0..7 : le[(8 * b + i) + 1] = words[b + 1][8 - i]
  <2>1. 8 \in Nat \ {0} /\ w + 1 \in Nat /\ 8 - 1 = 7 /\ (w + 1) - 1 = w
    BY <1>1
  <2> HIDE DEF w
  <2>2. le \in Seq(Bytes)
    BY <1>7, <2>1, LittleEndianIs
  <2>3. Len(le) = 8 * (w + 1)
    BY <1>7, <2>1, LittleEndianIs
  <2>4. \A b \in 0..(w + 1) - 1 : \A i \in 0..8 - 1 : le[(8 * b + i) + 1] = words[b + 1][8 - i]
    BY <1>7, <2>1, LittleEndianIs, Zenon
  <2> QED
    BY <2>1, <2>2, <2>3, <2>4
<1> HIDE DEF le
<1>9. /\ want \in Seq(Bytes) /\ Len(want) = 8 * (w + 1)
      /\ \A k \in 1..n : want[k] = m[k]
      /\ \A k \in n + 1..n + (7 - r) : want[k] = 0
      /\ want[8 * w + 8] = n % 256
  <2>1. size \in Seq(Bytes) /\ Len(size) = 1 /\ size[1] = n % 256 /\ 7 - r \in Nat
    BY <1>1
  <2> HIDE DEF size, r, w
  <2>0. Filled(want, m, 7 - r, size)
    BY <2>1, FilledIs, Zenon
  <2>2. want \in Seq(Bytes)
    BY <2>0, Zenon DEF Filled
  <2>3. Len(want) = (n + (7 - r)) + Len(size)
    BY <2>0, Zenon DEF Filled
  <2>4. \A k \in 1..n : want[k] = m[k]
    BY <2>0, Zenon DEF Filled
  <2>5. \A k \in n + 1..n + (7 - r) : want[k] = 0
    BY <2>0, Zenon DEF Filled
  <2>6. \A k \in 1..Len(size) : want[(n + (7 - r)) + k] = size[k]
    BY <2>0, Zenon DEF Filled
  <2>7. (n + (7 - r)) + 1 = 8 * (w + 1) /\ (n + (7 - r)) + 1 = 8 * w + 8 /\ 1 \in 1..1
    BY <1>1
  <2>8. want[8 * w + 8] = n % 256
    BY <2>1, <2>6, <2>7
  <2>9. Len(want) = 8 * (w + 1)
    BY <2>1, <2>3, <2>7
  <2> HIDE DEF want
  <2> QED
    BY <2>2, <2>4, <2>5, <2>8, <2>9
<1> HIDE DEF want
<1>10. ASSUME NEW k \in 1..8 * (w + 1) PROVE le[k] = want[k]
  <2> DEFINE b == (k - 1) \div 8
             i == (k - 1) % 8
  <2>1. b \in 0..w /\ i \in 0..7 /\ k = (8 * b + i) + 1
    BY <1>1
  <2> HIDE DEF b, i, w, r
  <2>2. le[k] = words[b + 1][8 - i]
    BY <1>8, <2>1
  <2>3. CASE b < w
    <3>1. b \in 0..w - 1 /\ b + 1 \in 1..w /\ k \in 1..n
      BY <1>1, <2>1, <2>3
    <3>2. words[b + 1][8 - i] = m[k]
      BY <1>2, <1>7, <2>1, <3>1
    <3> QED
      BY <1>9, <2>2, <3>1, <3>2
  <2>4. CASE ~(b < w)
    <3>1. b = w
      BY <1>1, <2>1, <2>4
    <3>2. le[k] = last[8 - i]
      BY <1>7, <2>2, <3>1
    <3>3. CASE i = 7
      <4>1. k = 8 * w + 8 /\ 8 - i = 1
        BY <1>1, <2>1, <3>1, <3>3
      <4> QED
        BY <1>5, <1>9, <3>2, <4>1
    <3>4. CASE i # 7
      <4>1. 8 - i \in 2..8 /\ (8 - i) - 1 = 7 - i /\ 7 - i \in 1..7 /\ 8 - (7 - i) = i + 1
        BY <2>1, <3>4
      <4>2. le[k] = tw[7 - i]
        BY <1>5, <3>2, <4>1
      <4>3. le[k] = IF 7 - i <= 7 - r THEN 0 ELSE tail[i + 1]
        BY <1>4, <4>1, <4>2
      <4>4. CASE i < r
        <5>1. i + 1 \in 1..r /\ 8 * w + (i + 1) = k /\ k \in 1..n /\ ~(7 - i <= 7 - r)
          BY <1>1, <2>1, <3>1, <4>4
        <5> QED
          BY <1>3, <1>9, <4>3, <5>1
      <4>5. CASE ~(i < r)
        <5>1. 7 - i <= 7 - r /\ k \in n + 1..n + (7 - r)
          BY <1>1, <2>1, <3>1, <3>4, <4>5
        <5> QED
          BY <1>9, <4>3, <5>1
      <4> QED
        BY <4>4, <4>5
    <3> QED
      BY <3>3, <3>4
  <2> QED
    BY <2>3, <2>4
<1>11. le = want
  <2> HIDE DEF w
  <2>1. Len(le) = Len(want) /\ \A k \in 1..Len(le) : le[k] = want[k]
    BY <1>8, <1>9, <1>10
  <2> QED
    BY <1>8, <1>9, <2>1, SeqEqual
<1> QED
  BY <1>11 DEF le, words, want

\* For MurmurHash there is no size, and no word without a tail.
LEMMA MurmurAbsorbs ==
  ASSUME NEW m \in Seq(Bytes)
  PROVE  LittleEndian(MurmurWords(m), 4) = m \o Zeros((4 - (Len(m) % 4)) % 4)
<1> DEFINE n == Len(m)
           w == n \div 4
           r == n % 4
           z == (4 - r) % 4
           ws == WholeWords(m, 4)
           tail == TailBytes(m, 4)
           tw == TailWord(tail, 4)
           words == MurmurWords(m)
           le == LittleEndian(words, 4)
           y == Zeros(z)
           want == m \o y
<1>1. n \in Nat /\ w \in Nat /\ r \in 0..3 /\ n = 4 * w + r
  <2>1. n \in Nat
    OBVIOUS
  <2> HIDE DEF n
  <2> QED
    BY <2>1
<1>2. z \in Nat /\ (r = 0 => z = 0) /\ (r > 0 => z = 4 - r)
  <2> HIDE DEF r
  <2> QED
    BY <1>1
<1>3. /\ ws \in Seq([1..4 -> Bytes]) /\ Len(ws) = w
      /\ \A b \in 0..w - 1 : \A i \in 0..3 : ws[b + 1][4 - i] = m[(4 * b + i) + 1]
  <2>1. 4 \in Nat \ {0} /\ 4 - 1 = 3
    OBVIOUS
  <2>2. ws \in Seq([1..4 -> Bytes])
    BY <2>1, WholeWordsIs
  <2>3. Len(ws) = w
    BY <2>1, WholeWordsIs
  <2>4. \A b \in 0..w - 1 : \A i \in 0..4 - 1 : ws[b + 1][4 - i] = m[(4 * b + i) + 1]
    <3> HIDE DEF ws
    <3> QED
      BY <2>1, WholeWordsIs, Zenon DEF ws
  <2> QED
    BY <2>1, <2>2, <2>3, <2>4
<1> HIDE DEF ws
<1>4. tail \in Seq(Bytes) /\ Len(tail) = r /\ \A k \in 1..r : tail[k] = m[4 * w + k]
  <2>1. tail = SubSeq(m, 4 * w + 1, n)
    <3>1. Len(m) - (Len(m) % 4) + 1 = 4 * w + 1
      BY <1>1
    <3> QED
      BY <3>1, Zenon DEF TailBytes
  <2> HIDE DEF tail, w, r
  <2> QED
    BY <1>1, <2>1
<1> HIDE DEF tail
<1>5. /\ tw \in [1..4 -> Bytes]
      /\ \A q \in 1..4 : tw[q] = IF q <= 4 - r THEN 0 ELSE tail[5 - q]
  <2> HIDE DEF r, tw
  <2>1. 4 \in Nat /\ r \in 0..4 /\ 4 + 1 = 5
    BY <1>1
  <2>2. tw \in Seq(Bytes)
    BY <1>4, <2>1, TailWordIs DEF tw
  <2>3. Len(tw) = 4
    BY <1>4, <2>1, TailWordIs DEF tw
  <2>4. \A q \in 1..4 : tw[q] = IF q <= 4 - r THEN 0 ELSE tail[(4 + 1) - q]
    BY <1>4, <2>1, TailWordIs DEF tw
  <2>5. tw \in [1..4 -> Bytes]
    BY <2>2, <2>3, LenProperties
  <2> QED
    BY <2>1, <2>4, <2>5
<1>6. tail = <<>> <=> r = 0
  <2> HIDE DEF r
  <2> QED
    BY <1>4
<1>7. words = IF r = 0 THEN ws ELSE Append(ws, tw)
  <2>1. words = ws \o (IF r = 0 THEN <<>> ELSE <<tw>>)
    BY <1>6 DEF MurmurWords, ws, tail
  <2>2. ws \o <<>> = ws /\ ws \o <<tw>> = Append(ws, tw)
    BY <1>3, <1>5, ConcatEmptySeq, AppendIsConcat
  <2> HIDE DEF words, r, tw
  <2> QED
    BY <2>1, <2>2
<1> HIDE DEF tw, words
<1> DEFINE c == IF r = 0 THEN w ELSE w + 1
<1>8. /\ words \in Seq([1..4 -> Bytes]) /\ Len(words) = c
      /\ \A k \in 1..w : words[k] = ws[k]
      /\ r > 0 => words[w + 1] = tw
  <2> HIDE DEF w, r
  <2>1. CASE r = 0
    BY <1>3, <1>7, <2>1
  <2>2. CASE r # 0
    BY <1>3, <1>5, <1>7, <2>2, AppendIs
  <2> QED
    BY <2>1, <2>2
<1>9. /\ le \in Seq(Bytes) /\ Len(le) = 4 * c
      /\ \A b \in 0..c - 1 : \A i \in 0..3 : le[(4 * b + i) + 1] = words[b + 1][4 - i]
  <2>1. 4 \in Nat \ {0} /\ c \in Nat /\ 4 - 1 = 3
    BY <1>1
  <2> HIDE DEF c
  <2>2. le \in Seq(Bytes)
    BY <1>8, <2>1, LittleEndianIs
  <2>3. Len(le) = 4 * c
    BY <1>8, <2>1, LittleEndianIs
  <2>4. \A b \in 0..c - 1 : \A i \in 0..4 - 1 : le[(4 * b + i) + 1] = words[b + 1][4 - i]
    BY <1>8, <2>1, LittleEndianIs, Zenon
  <2> QED
    BY <2>1, <2>2, <2>3, <2>4
<1> HIDE DEF le
<1>10. /\ want \in Seq(Bytes) /\ Len(want) = n + z
       /\ \A k \in 1..n : want[k] = m[k]
       /\ \A k \in n + 1..n + z : want[k] = 0
  <2>1. y \in [1..z -> Bytes] /\ \A k \in 1..z : y[k] = 0
    BY DEF Zeros, Bytes
  <2> HIDE DEF y, z
  <2>2. y \in Seq(Bytes) /\ Len(y) = z
    BY <1>2, <2>1, FunSeq
  <2>3. want \in Seq(Bytes)
    BY <2>2
  <2>4. Len(want) = n + z
    BY <2>2
  <2>5. \A k \in 1..n : want[k] = m[k]
    BY <2>2
  <2>6. \A k \in n + 1..n + z : k - n \in 1..z /\ want[k] = y[k - n]
    BY <1>2, <2>2
  <2> QED
    BY <2>1, <2>3, <2>4, <2>5, <2>6
<1> HIDE DEF want
<1>11. n + z = 4 * c
  <2> HIDE DEF n, w, r, z
  <2> QED
    BY <1>1, <1>2
<1>12. ASSUME NEW k \in 1..4 * c PROVE le[k] = want[k]
  <2> DEFINE b == (k - 1) \div 4
             i == (k - 1) % 4
  <2>1. b \in 0..c - 1 /\ i \in 0..3 /\ k = (4 * b + i) + 1 /\ c \in Nat
    BY <1>1
  <2> HIDE DEF b, i
  <2>2. le[k] = words[b + 1][4 - i]
    <3> HIDE DEF c
    <3> QED
      BY <1>9, <2>1
  <2> HIDE DEF n, w, r, z
  <2>3. CASE b < w
    <3>1. b \in 0..w - 1 /\ b + 1 \in 1..w /\ k \in 1..n
      BY <1>1, <2>1, <2>3
    <3>2. words[b + 1][4 - i] = m[k]
      BY <1>3, <1>8, <2>1, <3>1
    <3> QED
      BY <1>10, <2>2, <3>1, <3>2
  <2>4. CASE ~(b < w)
    <3>1. b = w /\ r > 0 /\ z = 4 - r
      BY <1>1, <1>2, <2>1, <2>4
    <3>2. le[k] = tw[4 - i] /\ 4 - i \in 1..4 /\ 5 - (4 - i) = i + 1
      BY <1>8, <2>1, <2>2, <3>1
    <3>3. le[k] = IF 4 - i <= 4 - r THEN 0 ELSE tail[i + 1]
      BY <1>5, <3>2
    <3>4. CASE i < r
      <4>1. i + 1 \in 1..r /\ 4 * w + (i + 1) = k /\ k \in 1..n /\ ~(4 - i <= 4 - r)
        BY <1>1, <2>1, <3>1, <3>4
      <4> QED
        BY <1>4, <1>10, <3>3, <4>1
    <3>5. CASE ~(i < r)
      <4>1. 4 - i <= 4 - r /\ k \in n + 1..n + z
        BY <1>1, <2>1, <3>1, <3>5
      <4> QED
        BY <1>10, <3>3, <4>1
    <3> QED
      BY <3>4, <3>5
  <2> QED
    BY <2>3, <2>4
<1>13. le = want
  <2> HIDE DEF c, n, z
  <2>1. Len(le) = Len(want) /\ \A k \in 1..Len(le) : le[k] = want[k]
    BY <1>9, <1>10, <1>11, <1>12
  <2> QED
    BY <1>9, <1>10, <2>1, SeqEqual
<1> QED
  BY <1>13 DEF le, words, want

-----------------------------------------------------------------------------
(* The bits of memory.                                                     *)

\* The numbers from 0 to 255 as eight bits.
LEMMA Powers ==
  /\ 2^0 = 1 /\ 2^1 = 2 /\ 2^2 = 4 /\ 2^3 = 8
  /\ 2^4 = 16 /\ 2^5 = 32 /\ 2^6 = 64 /\ 2^7 = 128
OBVIOUS

\* The number whose bits these are, the lowest first.
Eight(a, b, c, d, e, f, g, h) ==
  a + 2 * b + 4 * c + 8 * d + 16 * e + 32 * f + 64 * g + 128 * h

AreBits(v, a, b, c, d, e, f, g, h) ==
  /\ Bit(v, 0) = a /\ Bit(v, 1) = b /\ Bit(v, 2) = c /\ Bit(v, 3) = d
  /\ Bit(v, 4) = e /\ Bit(v, 5) = f /\ Bit(v, 6) = g /\ Bit(v, 7) = h

\* The bits of a number are those it is the sum of.
LEMMA BitsOfSum ==
  ASSUME NEW a \in 0..1, NEW b \in 0..1, NEW c \in 0..1, NEW d \in 0..1,
         NEW e \in 0..1, NEW f \in 0..1, NEW g \in 0..1, NEW h \in 0..1,
         NEW v, v = Eight(a, b, c, d, e, f, g, h)
  PROVE  v \in Bytes /\ AreBits(v, a, b, c, d, e, f, g, h)
<1>1. v = a + 2 * b + 4 * c + 8 * d + 16 * e + 32 * f + 64 * g + 128 * h
  BY DEF Eight
<1>2. v \in Bytes
  BY <1>1 DEF Bytes
<1>3. /\ v \div 1 = v
      /\ v \div 2 = b + 2 * c + 4 * d + 8 * e + 16 * f + 32 * g + 64 * h
      /\ v \div 4 = c + 2 * d + 4 * e + 8 * f + 16 * g + 32 * h
      /\ v \div 8 = d + 2 * e + 4 * f + 8 * g + 16 * h
      /\ v \div 16 = e + 2 * f + 4 * g + 8 * h
      /\ v \div 32 = f + 2 * g + 4 * h
      /\ v \div 64 = g + 2 * h
      /\ v \div 128 = h
  BY <1>1
<1>4. /\ v % 2 = a
      /\ (b + 2 * c + 4 * d + 8 * e + 16 * f + 32 * g + 64 * h) % 2 = b
      /\ (c + 2 * d + 4 * e + 8 * f + 16 * g + 32 * h) % 2 = c
      /\ (d + 2 * e + 4 * f + 8 * g + 16 * h) % 2 = d
      /\ (e + 2 * f + 4 * g + 8 * h) % 2 = e
      /\ (f + 2 * g + 4 * h) % 2 = f /\ (g + 2 * h) % 2 = g /\ h % 2 = h
  BY <1>1
<1>5. /\ Bit(v, 0) = (v \div 1) % 2 /\ Bit(v, 1) = (v \div 2) % 2 /\ Bit(v, 2) = (v \div 4) % 2
      /\ Bit(v, 3) = (v \div 8) % 2 /\ Bit(v, 4) = (v \div 16) % 2
      /\ Bit(v, 5) = (v \div 32) % 2 /\ Bit(v, 6) = (v \div 64) % 2
      /\ Bit(v, 7) = (v \div 128) % 2
  BY Powers, Zenon DEF Bit
<1> QED
  BY <1>2, <1>3, <1>4, <1>5 DEF AreBits

\* A byte is the sum of its bits.
LEMMA BitsOfByte ==
  ASSUME NEW v \in Bytes
  PROVE  /\ \A n \in 0..7 : Bit(v, n) \in 0..1
         /\ v = Eight(Bit(v, 0), Bit(v, 1), Bit(v, 2), Bit(v, 3),
                      Bit(v, 4), Bit(v, 5), Bit(v, 6), Bit(v, 7))
<1>1. /\ v = 2 * (v \div 2) + (v % 2) /\ v \div 2 = 2 * (v \div 4) + ((v \div 2) % 2)
      /\ v \div 4 = 2 * (v \div 8) + ((v \div 4) % 2)
      /\ v \div 8 = 2 * (v \div 16) + ((v \div 8) % 2)
      /\ v \div 16 = 2 * (v \div 32) + ((v \div 16) % 2)
      /\ v \div 32 = 2 * (v \div 64) + ((v \div 32) % 2)
      /\ v \div 64 = 2 * (v \div 128) + ((v \div 64) % 2)
      /\ v \div 128 = (v \div 128) % 2
      /\ v \div 1 = v
  BY DEF Bytes
<1>2. /\ Bit(v, 0) = v % 2 /\ Bit(v, 1) = (v \div 2) % 2 /\ Bit(v, 2) = (v \div 4) % 2
      /\ Bit(v, 3) = (v \div 8) % 2 /\ Bit(v, 4) = (v \div 16) % 2
      /\ Bit(v, 5) = (v \div 32) % 2 /\ Bit(v, 6) = (v \div 64) % 2
      /\ Bit(v, 7) = (v \div 128) % 2
  BY <1>1, Powers, Zenon DEF Bit
<1>3. \A n \in 0..7 : n \in {0, 1, 2, 3, 4, 5, 6, 7}
  OBVIOUS
<1>4. /\ Bit(v, 0) \in 0..1 /\ Bit(v, 1) \in 0..1 /\ Bit(v, 2) \in 0..1 /\ Bit(v, 3) \in 0..1
      /\ Bit(v, 4) \in 0..1 /\ Bit(v, 5) \in 0..1 /\ Bit(v, 6) \in 0..1 /\ Bit(v, 7) \in 0..1
  BY <1>2 DEF Bytes
<1>5. \A n \in 0..7 : Bit(v, n) \in 0..1
  BY <1>3, <1>4, Zenon
<1> QED
  BY <1>1, <1>2, <1>5 DEF Bytes, Eight

\* The byte whose bit n is written.
Written(v, n, x) == v + (x - Bit(v, n)) * 2^n

\* The others stay.
LEMMA BytePut ==
  ASSUME NEW v \in Bytes, NEW n \in 0..7, NEW x \in 0..1
  PROVE  /\ Written(v, n, x) \in Bytes
         /\ Bit(Written(v, n, x), n) = x
         /\ \A k \in 0..7 \ {n} : Bit(Written(v, n, x), k) = Bit(v, k)
<1> DEFINE u == Written(v, n, x)
<1> DEFINE c(k) == IF k = n THEN x ELSE Bit(v, k)
<1>1. \A k \in 0..7 : c(k) \in 0..1 /\ Bit(v, k) \in 0..1
  BY BitsOfByte
<1>2. u = Eight(c(0), c(1), c(2), c(3), c(4), c(5), c(6), c(7))
  <2> DEFINE a(k) == Bit(v, k)
  <2>1. v = Eight(a(0), a(1), a(2), a(3), a(4), a(5), a(6), a(7))
    BY BitsOfByte
  <2>2. \A k \in 0..7 : a(k) \in 0..1
    BY BitsOfByte
  <2>3. \A k \in 0..7 : c(k) = IF k = n THEN x ELSE a(k)
    OBVIOUS
  <2>4. u = v + (x - a(n)) * 2^n
    BY DEF Written
  <2> HIDE DEF a, c, u
  <2>5. n \in {0, 1, 2, 3, 4, 5, 6, 7}
    OBVIOUS
  <2>6. CASE n = 0
    BY <2>1, <2>2, <2>3, <2>4, <2>6, Powers DEF Eight
  <2>7. CASE n = 1
    BY <2>1, <2>2, <2>3, <2>4, <2>7, Powers DEF Eight
  <2>8. CASE n = 2
    BY <2>1, <2>2, <2>3, <2>4, <2>8, Powers DEF Eight
  <2>9. CASE n = 3
    BY <2>1, <2>2, <2>3, <2>4, <2>9, Powers DEF Eight
  <2>10. CASE n = 4
    BY <2>1, <2>2, <2>3, <2>4, <2>10, Powers DEF Eight
  <2>11. CASE n = 5
    BY <2>1, <2>2, <2>3, <2>4, <2>11, Powers DEF Eight
  <2>12. CASE n = 6
    BY <2>1, <2>2, <2>3, <2>4, <2>12, Powers DEF Eight
  <2>13. CASE n = 7
    BY <2>1, <2>2, <2>3, <2>4, <2>13, Powers DEF Eight
  <2> QED
    BY <2>5, <2>6, <2>7, <2>8, <2>9, <2>10, <2>11, <2>12, <2>13
<1>3. /\ c(0) \in 0..1 /\ c(1) \in 0..1 /\ c(2) \in 0..1 /\ c(3) \in 0..1
      /\ c(4) \in 0..1 /\ c(5) \in 0..1 /\ c(6) \in 0..1 /\ c(7) \in 0..1
  BY <1>1
<1> HIDE DEF c, u
<1>4. /\ u \in Bytes
      /\ Bit(u, 0) = c(0) /\ Bit(u, 1) = c(1) /\ Bit(u, 2) = c(2) /\ Bit(u, 3) = c(3)
      /\ Bit(u, 4) = c(4) /\ Bit(u, 5) = c(5) /\ Bit(u, 6) = c(6) /\ Bit(u, 7) = c(7)
  <2>1. u \in Bytes /\ AreBits(u, c(0), c(1), c(2), c(3), c(4), c(5), c(6), c(7))
    BY <1>2, <1>3, BitsOfSum
  <2> QED
    BY <2>1, Zenon DEF AreBits
<1>5. \A k \in 0..7 : k \in {0, 1, 2, 3, 4, 5, 6, 7}
  OBVIOUS
<1>6. \A k \in 0..7 : Bit(u, k) = c(k)
  BY <1>4, <1>5
<1> QED
  BY <1>4, <1>6 DEF c, u

\* Bit i of memory as a byte and a place in it, and the mirrored one.
LEMMA BitPlaces ==
  ASSUME NEW i \in Nat, NEW n \in Nat, i < 8 * n
  PROVE  /\ i \div 8 + 1 \in 1..n /\ i % 8 \in 0..7 /\ 7 - (i % 8) \in 0..7
         /\ 8 * (i \div 8) + 7 - (i % 8) \in 0..8 * n - 1
         /\ (8 * (i \div 8) + 7 - (i % 8)) \div 8 = i \div 8
         /\ 7 - ((8 * (i \div 8) + 7 - (i % 8)) % 8) = i % 8
         /\ \A k \in Nat : k = 8 * (i \div 8) + 7 - (i % 8)
                          <=> k \div 8 = i \div 8 /\ 7 - (k % 8) = i % 8
OBVIOUS

\* A bit that is put changes what bit_test reads at the mirrored place only.
LEMMA BitPutIs ==
  ASSUME NEW mem \in Seq(Bytes), NEW i \in 0..8 * Len(mem) - 1, NEW x \in 0..1,
         NEW mirror, mirror = 8 * (i \div 8) + 7 - (i % 8)
  PROVE  \A k \in 0..8 * Len(mem) - 1 :
           BitTest(BitPut(mem, i, x), k) = IF k = mirror THEN x ELSE BitTest(mem, k)
<1> DEFINE q == i \div 8 + 1
           r == i % 8
           u == Written(mem[q], r, x)
<1>1. Len(mem) \in Nat /\ i \in Nat /\ i < 8 * Len(mem)
  OBVIOUS
<1>2. q \in 1..Len(mem) /\ r \in 0..7
  BY <1>1, BitPlaces
<1>3. mem[q] \in Bytes
  BY <1>2
<1>4. u \in Bytes /\ \A k \in 0..7 : Bit(u, k) = IF k = r THEN x ELSE Bit(mem[q], k)
  <2> DEFINE v == mem[q]
  <2> HIDE DEF v, r
  <2>1. v \in Bytes /\ r \in 0..7
    BY <1>2, <1>3 DEF v
  <2>2. u \in Bytes
    BY <2>1, BytePut DEF v
  <2>3. Bit(u, r) = x
    BY <2>1, BytePut DEF v
  <2>4. \A k \in 0..7 \ {r} : Bit(u, k) = Bit(v, k)
    BY <2>1, BytePut DEF v
  <2> QED
    BY <1>2, <2>2, <2>3, <2>4 DEF v
<1>5. BitPut(mem, i, x) = [mem EXCEPT ![q] = u]
  BY Zenon DEF BitPut, Written
<1> HIDE DEF u
<1>6. ASSUME NEW k \in 0..8 * Len(mem) - 1
      PROVE  BitTest([mem EXCEPT ![q] = u], k) = IF k = mirror THEN x ELSE BitTest(mem, k)
  <2> DEFINE p == k \div 8 + 1
             j == 7 - (k % 8)
  <2>1. p \in 1..Len(mem) /\ j \in 0..7 /\ (k = mirror <=> p = q /\ j = r)
    <3>1. k \in Nat /\ k < 8 * Len(mem)
      BY <1>1
    <3>2. p \in 1..Len(mem) /\ j \in 0..7
      BY <1>1, <3>1, BitPlaces
    <3>3. k = mirror <=> k \div 8 = i \div 8 /\ j = r
      BY <1>1, <3>1, BitPlaces
    <3> QED
      BY <3>2, <3>3
  <2>2. /\ BitTest([mem EXCEPT ![q] = u], k) = Bit([mem EXCEPT ![q] = u][p], j)
        /\ BitTest(mem, k) = Bit(mem[p], j)
    BY DEF BitTest
  <2> HIDE DEF p, j, q, r
  <2>3. CASE p = q
    <3>1. [mem EXCEPT ![q] = u][p] = u
      BY <1>2, <2>3
    <3> QED
      BY <1>4, <2>1, <2>2, <2>3, <3>1
  <2>4. CASE p # q
    <3>1. [mem EXCEPT ![q] = u][p] = mem[p]
      BY <2>1, <2>4
    <3> QED
      BY <2>1, <2>2, <2>4, <3>1
  <2> QED
    BY <2>3, <2>4
<1> QED
  BY <1>5, <1>6, Zenon

\* What a bit is at its place, and what is read of the mirrored one.
LEMMA MirrorIs ==
  ASSUME NEW mem \in Seq(Bytes), NEW i \in 0..8 * Len(mem) - 1
  PROVE  /\ BitTest(mem, 8 * (i \div 8) + 7 - (i % 8)) = Bit(mem[i \div 8 + 1], i % 8)
         /\ Bit(mem[i \div 8 + 1], i % 8) \in 0..1
<1>1. Len(mem) \in Nat /\ i \in Nat /\ i < 8 * Len(mem)
  OBVIOUS
<1>2. /\ i \div 8 + 1 \in 1..Len(mem) /\ i % 8 \in 0..7
      /\ (8 * (i \div 8) + 7 - (i % 8)) \div 8 = i \div 8
      /\ 7 - ((8 * (i \div 8) + 7 - (i % 8)) % 8) = i % 8
  BY <1>1, BitPlaces
<1>3. mem[i \div 8 + 1] \in Bytes
  BY <1>2
<1> QED
  BY <1>2, <1>3, BitsOfByte, Zenon DEF BitTest

\* r is what a bit_test_and_* on bit i of mem should return.
Mirrored(op, mem, i, r) ==
  LET mirror == 8 * (i \div 8) + 7 - (i % 8)
      was(k) == BitTest(mem, k)
      new == CASE op = "set" -> 1 [] op = "clear" -> 0
               [] op = "flip" -> 1 - was(mirror)
  IN /\ r.old = was(i)
     /\ \A k \in 0..8 * Len(mem) - 1 :
          BitTest(r.base, k) = IF k = mirror THEN new ELSE was(k)

\* The three writes are such a put, and return what is read at the place itself.
LEMMA BitsAre ==
  ASSUME NEW mem \in Seq(Bytes), NEW i \in 0..8 * Len(mem) - 1,
         NEW op \in {"set", "clear", "flip"}
  PROVE  Mirrored(op, mem, i, BitTestAnd(op, mem, i))
<1> DEFINE mirror == 8 * (i \div 8) + 7 - (i % 8)
           bit == Bit(mem[i \div 8 + 1], i % 8)
           r == BitTestAnd(op, mem, i)
<1>1. BitTest(mem, mirror) = bit /\ bit \in 0..1
  BY MirrorIs
<1>2. r.old = BitTest(mem, i)
  BY DEF BitTestAnd
<1>3. /\ op = "set" => r.base = BitPut(mem, i, 1)
      /\ op = "clear" => r.base = BitPut(mem, i, 0)
      /\ op = "flip" => r.base = BitPut(mem, i, 1 - bit)
  BY DEF BitTestAnd, BitSet, BitClear, BitFlip
<1> DEFINE new == CASE op = "set" -> 1 [] op = "clear" -> 0 [] op = "flip" -> 1 - BitTest(mem, mirror)
<1> HIDE DEF r, bit
<1>4. r.base = BitPut(mem, i, new) /\ new \in 0..1
  <2> HIDE DEF mirror
  <2>1. CASE op = "set"
    BY <1>3, <2>1
  <2>2. CASE op = "clear"
    BY <1>3, <2>2
  <2>3. CASE op = "flip"
    BY <1>1, <1>3, <2>3
  <2> QED
    BY <2>1, <2>2, <2>3
<1>5. \A k \in 0..8 * Len(mem) - 1 :
        BitTest(r.base, k) = IF k = mirror THEN new ELSE BitTest(mem, k)
  <2> DEFINE z == mirror
             v == new
  <2>1. z = 8 * (i \div 8) + 7 - (i % 8) /\ v \in 0..1
    BY <1>4
  <2> HIDE DEF z, v
  <2>2. \A k \in 0..8 * Len(mem) - 1 :
           BitTest(BitPut(mem, i, v), k) = IF k = z THEN v ELSE BitTest(mem, k)
    BY <2>1, BitPutIs, SMTT(30)
  <2> QED
    BY <1>4, <2>2 DEF z, v
<1> QED
  BY <1>2, <1>5 DEF r, Mirrored

-----------------------------------------------------------------------------
(* Integers.                                                               *)

\* The least of a set of numbers.
LEMMA LeastIs ==
  ASSUME NEW T \in SUBSET Nat, T # {}
  PROVE  \E n \in T : \A m \in T : n <= m
<1>1. PICK n \in T : \A m \in T : ~(<<m, n>> \in OpToRel(<, Nat))
  BY NatLessThanWellFounded, WFMin
<1>2. \A m \in T : n <= m
  <2> SUFFICES ASSUME NEW m \in T, m < n PROVE FALSE
    OBVIOUS
  <2>1. m \in Nat /\ n \in Nat
    OBVIOUS
  <2> QED
    BY <1>1, <2>1 DEF OpToRel
<1> QED
  BY <1>2

-----------------------------------------------------------------------------
(* Rotations.                                                              *)

\* What the two shifts of a rotation return.
LEMMA ShiftsAre ==
  ASSUME NEW x \in Seq(0..1), NEW n \in 0..Len(x)
  PROVE  /\ Shl(x, n) \in [1..Len(x) -> 0..1] /\ Shr(x, n) \in [1..Len(x) -> 0..1]
         /\ \A k \in 1..Len(x) :
              /\ Shl(x, n)[k] = IF k + n <= Len(x) THEN x[k + n] ELSE 0
              /\ Shr(x, n)[k] = IF k <= n THEN 0 ELSE x[k - n]
<1> DEFINE l == Len(x)
           low == SubSeq(x, n + 1, l)
           high == SubSeq(x, 1, l - n)
           z == Zeros(n)
<1>1. l \in Nat /\ \A k \in 1..l : x[k] \in 0..1
  OBVIOUS
<1>2. low \in Seq(0..1) /\ Len(low) = l - n /\ \A k \in 1..l - n : low[k] = x[k + n]
  BY <1>1
<1>3. high \in Seq(0..1) /\ Len(high) = l - n /\ \A k \in 1..l - n : high[k] = x[k]
  BY <1>1
<1>4. z \in [1..n -> 0..1] /\ n \in Nat
  BY DEF Zeros
<1>5. z \in Seq(0..1)
  BY <1>4, SeqDef, Zenon
<1>6. Len(z) = n /\ \A k \in 1..n : z[k] = 0
  BY <1>5, <1>4 DEF Zeros
<1>7. Shl(x, n) = low \o z /\ Shr(x, n) = z \o high
  BY DEF Shl, Shr
<1> HIDE DEF low, high, z, l
<1>8. /\ low \o z \in Seq(0..1) /\ Len(low \o z) = l
      /\ \A k \in 1..l : (low \o z)[k] = IF k + n <= l THEN x[k + n] ELSE 0
  <2>1. low \o z \in Seq(0..1) /\ Len(low \o z) = Len(low) + Len(z)
    BY <1>2, <1>5, ConcatProperties
  <2>2. Len(low) + Len(z) = l
    BY <1>1, <1>2, <1>4, <1>6
  <2>3. ASSUME NEW k \in 1..l PROVE (low \o z)[k] = IF k + n <= l THEN x[k + n] ELSE 0
    <3>1. CASE k + n <= l
      BY <1>1, <1>2, <1>4, <1>5, <1>6, <3>1
    <3>2. CASE ~(k + n <= l)
      BY <1>1, <1>2, <1>4, <1>5, <1>6, <3>2
    <3> QED
      BY <3>1, <3>2
  <2> QED
    BY <2>1, <2>2, <2>3
<1>9. /\ z \o high \in Seq(0..1) /\ Len(z \o high) = l
      /\ \A k \in 1..l : (z \o high)[k] = IF k <= n THEN 0 ELSE x[k - n]
  BY <1>1, <1>3, <1>4, <1>5, <1>6
<1>10. low \o z \in [1..l -> 0..1] /\ z \o high \in [1..l -> 0..1]
  BY <1>8, <1>9, LenProperties, ElementOfSeq
<1> QED
  BY <1>7, <1>8, <1>9, <1>10 DEF l

\* A rotation takes every bit from n places further on, or from n places before.
LEMMA RotationsAre ==
  ASSUME NEW x \in Seq(0..1), NEW n \in 0..Len(x)
  PROVE  /\ Rotl(x, n) \in Seq(0..1) /\ Len(Rotl(x, n)) = Len(x)
         /\ Rotr(x, n) \in Seq(0..1) /\ Len(Rotr(x, n)) = Len(x)
         /\ \A k \in 1..Len(x) :
              /\ Rotl(x, n)[k] = IF k + n <= Len(x) THEN x[k + n] ELSE x[k + n - Len(x)]
              /\ Rotr(x, n)[k] = IF k <= n THEN x[k + Len(x) - n] ELSE x[k - n]
<1> DEFINE l == Len(x)
<1>1. l \in Nat /\ n \in 0..l /\ l - n \in 0..l /\ \A k \in 1..l : x[k] \in 0..1
  OBVIOUS
<1>2. /\ Shl(x, n) \in [1..l -> 0..1] /\ Shr(x, l - n) \in [1..l -> 0..1]
      /\ \A k \in 1..l : /\ Shl(x, n)[k] = IF k + n <= l THEN x[k + n] ELSE 0
                         /\ Shr(x, l - n)[k] = IF k <= l - n THEN 0 ELSE x[k - (l - n)]
  BY <1>1, ShiftsAre
<1>3. /\ Shr(x, n) \in [1..l -> 0..1] /\ Shl(x, l - n) \in [1..l -> 0..1]
      /\ \A k \in 1..l : /\ Shr(x, n)[k] = IF k <= n THEN 0 ELSE x[k - n]
                         /\ Shl(x, l - n)[k] = IF k + (l - n) <= l THEN x[k + (l - n)] ELSE 0
  BY <1>1, ShiftsAre
<1>4. ASSUME NEW u \in [1..l -> 0..1], NEW v \in [1..l -> 0..1]
      PROVE  /\ OrBits(u, v) \in Seq(0..1) /\ Len(OrBits(u, v)) = l
             /\ \A k \in 1..l : OrBits(u, v)[k] = IF u[k] + v[k] > 0 THEN 1 ELSE 0
  <2>1. u \in Seq(0..1)
    BY <1>1, SeqDef, Zenon
  <2>2. Len(u) = l
    BY <1>1, <2>1
  <2>3. OrBits(u, v) \in [1..l -> 0..1]
    BY <2>2 DEF OrBits
  <2>4. OrBits(u, v) \in Seq(0..1)
    BY <2>3, <1>1, SeqDef, Zenon
  <2> QED
    BY <2>2, <2>3, <2>4, <1>1 DEF OrBits
<1> HIDE DEF l
<1>5. /\ Rotl(x, n) = OrBits(Shl(x, n), Shr(x, l - n))
      /\ Rotr(x, n) = OrBits(Shr(x, n), Shl(x, l - n))
  BY DEF Rotl, Rotr, l
<1>6. /\ Rotl(x, n) \in Seq(0..1) /\ Len(Rotl(x, n)) = l
      /\ \A k \in 1..l : Rotl(x, n)[k] = IF Shl(x, n)[k] + Shr(x, l - n)[k] > 0 THEN 1 ELSE 0
  BY <1>2, <1>4, <1>5
<1>7. /\ Rotr(x, n) \in Seq(0..1) /\ Len(Rotr(x, n)) = l
      /\ \A k \in 1..l : Rotr(x, n)[k] = IF Shr(x, n)[k] + Shl(x, l - n)[k] > 0 THEN 1 ELSE 0
  BY <1>3, <1>4, <1>5
<1>8. ASSUME NEW k \in 1..l
      PROVE  Rotl(x, n)[k] = IF k + n <= l THEN x[k + n] ELSE x[k + n - l]
  <2>1. CASE k + n <= l
    <3>1. Shl(x, n)[k] = x[k + n] /\ Shr(x, l - n)[k] = 0 /\ x[k + n] \in 0..1
      BY <1>1, <1>2, <2>1
    <3> QED
      BY <3>1, <1>6, <2>1
  <2>2. CASE ~(k + n <= l)
    <3>1. Shl(x, n)[k] = 0 /\ Shr(x, l - n)[k] = x[k + n - l] /\ x[k + n - l] \in 0..1
      BY <1>1, <1>2, <2>2
    <3> QED
      BY <3>1, <1>6, <2>2
  <2> QED
    BY <2>1, <2>2
<1>9. ASSUME NEW k \in 1..l
      PROVE  Rotr(x, n)[k] = IF k <= n THEN x[k + l - n] ELSE x[k - n]
  <2>1. CASE k <= n
    <3>1. Shr(x, n)[k] = 0 /\ Shl(x, l - n)[k] = x[k + l - n] /\ x[k + l - n] \in 0..1
      BY <1>1, <1>3, <2>1
    <3> QED
      BY <3>1, <1>7, <2>1
  <2>2. CASE ~(k <= n)
    <3>1. Shr(x, n)[k] = x[k - n] /\ Shl(x, l - n)[k] = 0 /\ x[k - n] \in 0..1
      BY <1>1, <1>3, <2>2
    <3> QED
      BY <3>1, <1>7, <2>2
  <2> QED
    BY <2>1, <2>2
<1> QED
  BY <1>6, <1>7, <1>8, <1>9 DEF l

\* Each rotation undoes the other.
LEMMA RotationsUndo ==
  ASSUME NEW x \in Seq(0..1), NEW n \in 0..Len(x)
  PROVE  Rotr(Rotl(x, n), n) = x /\ Rotl(Rotr(x, n), n) = x
<1> DEFINE l == Len(x)
           u == Rotl(x, n)
           v == Rotr(x, n)
<1>1. l \in Nat /\ n \in 0..l
  OBVIOUS
<1>2. /\ u \in Seq(0..1) /\ Len(u) = l
      /\ \A k \in 1..l : u[k] = IF k + n <= l THEN x[k + n] ELSE x[k + n - l]
  BY RotationsAre
<1>3. /\ v \in Seq(0..1) /\ Len(v) = l
      /\ \A k \in 1..l : v[k] = IF k <= n THEN x[k + l - n] ELSE x[k - n]
  BY RotationsAre
<1> HIDE DEF u, v
<1>4. /\ Rotr(u, n) \in Seq(0..1) /\ Len(Rotr(u, n)) = l
      /\ \A k \in 1..l : Rotr(u, n)[k] = IF k <= n THEN u[k + l - n] ELSE u[k - n]
  BY <1>1, <1>2, RotationsAre
<1>5. /\ Rotl(v, n) \in Seq(0..1) /\ Len(Rotl(v, n)) = l
      /\ \A k \in 1..l : Rotl(v, n)[k] = IF k + n <= l THEN v[k + n] ELSE v[k + n - l]
  BY <1>1, <1>3, RotationsAre
<1> HIDE DEF l
<1>6. ASSUME NEW k \in 1..l PROVE Rotr(u, n)[k] = x[k] /\ Rotl(v, n)[k] = x[k]
  <2>1. Rotr(u, n)[k] = x[k]
    <3>1. CASE k <= n
      <4>1. k + l - n \in 1..l /\ Rotr(u, n)[k] = u[k + l - n]
        BY <1>1, <1>4, <3>1
      <4>2. u[k + l - n] = IF k + l - n + n <= l THEN x[k + l - n + n] ELSE x[k + l - n + n - l]
        BY <1>2, <4>1
      <4> QED
        BY <1>1, <4>1, <4>2
    <3>2. CASE ~(k <= n)
      <4>1. k - n \in 1..l /\ Rotr(u, n)[k] = u[k - n]
        BY <1>1, <1>4, <3>2
      <4>2. u[k - n] = IF k - n + n <= l THEN x[k - n + n] ELSE x[k - n + n - l]
        BY <1>2, <4>1
      <4> QED
        BY <1>1, <4>1, <4>2
    <3> QED
      BY <3>1, <3>2
  <2>2. Rotl(v, n)[k] = x[k]
    <3>1. CASE k + n <= l
      BY <1>1, <1>3, <1>5, <3>1
    <3>2. CASE ~(k + n <= l)
      BY <1>1, <1>3, <1>5, <3>2
    <3> QED
      BY <3>1, <3>2
  <2> QED
    BY <2>1, <2>2
<1>7. Len(x) = l
  BY DEF l
<1>8. Rotr(u, n) = x
  BY <1>4, <1>6, <1>7, SeqEqual, Zenon
<1>9. Rotl(v, n) = x
  BY <1>5, <1>6, <1>7, SeqEqual, Zenon
<1> QED
  BY <1>8, <1>9 DEF u, v

\* The place a bit comes from, around the word.
LEMMA AroundIs ==
  ASSUME NEW l \in Nat \ {0}, NEW n \in 0..l, NEW k \in 1..l
  PROVE  ((k - 1 + n) % l) + 1 = IF k + n <= l THEN k + n ELSE k + n - l
<1>1. CASE k + n <= l
  <2>1. k - 1 + n \in 0..l - 1
    BY <1>1
  <2>2. (k - 1 + n) % l = k - 1 + n
    BY <2>1
  <2> QED
    BY <1>1, <2>2
<1>2. CASE ~(k + n <= l)
  <2>1. k - 1 + n - l \in 0..l - 1
    BY <1>2
  <2>2. (k - 1 + n) % l = k - 1 + n - l
    BY <2>1
  <2> QED
    BY <1>2, <2>2
<1> QED
  BY <1>1, <1>2

-----------------------------------------------------------------------------
(* Logarithms.                                                             *)
\* The powers of two, as far as a logarithm of an unsigned int goes.
Pow(n) == 2^n

\* The powers of two of 32-bit words.
LEMMA PowersOfTwo ==
  /\ Pow(0) = 1 /\ Pow(1) = 2 /\ Pow(2) = 4 /\ Pow(3) = 8
  /\ Pow(4) = 16 /\ Pow(5) = 32 /\ Pow(6) = 64 /\ Pow(7) = 128
  /\ Pow(8) = 256 /\ Pow(9) = 512 /\ Pow(10) = 1024 /\ Pow(11) = 2048
  /\ Pow(12) = 4096 /\ Pow(13) = 8192 /\ Pow(14) = 16384 /\ Pow(15) = 32768
  /\ Pow(16) = 65536 /\ Pow(17) = 131072 /\ Pow(18) = 262144 /\ Pow(19) = 524288
  /\ Pow(20) = 1048576 /\ Pow(21) = 2097152 /\ Pow(22) = 4194304 /\ Pow(23) = 8388608
  /\ Pow(24) = 16777216 /\ Pow(25) = 33554432 /\ Pow(26) = 67108864 /\ Pow(27) = 134217728
  /\ Pow(28) = 268435456 /\ Pow(29) = 536870912 /\ Pow(30) = 1073741824
  /\ Pow(31) = 2147483648
BY SMT DEF Pow

\* The shifts, one by one.
LEMMA UpTo31 ==
  ASSUME NEW i \in 0..31
  PROVE  \/ i = 0 \/ i = 1 \/ i = 2 \/ i = 3 \/ i = 4 \/ i = 5 \/ i = 6 \/ i = 7
         \/ i = 8 \/ i = 9 \/ i = 10 \/ i = 11 \/ i = 12 \/ i = 13 \/ i = 14 \/ i = 15
         \/ i = 16 \/ i = 17 \/ i = 18 \/ i = 19 \/ i = 20 \/ i = 21 \/ i = 22 \/ i = 23
         \/ i = 24 \/ i = 25 \/ i = 26 \/ i = 27 \/ i = 28 \/ i = 29 \/ i = 30 \/ i = 31
BY SMT

\* Each power is twice the one before,
LEMMA Doubles ==
  ASSUME NEW i \in 0..30
  PROVE  Pow(i + 1) = 2 * Pow(i)
<1>1. i \in 0..31
  OBVIOUS
<1> QED
  BY <1>1, UpTo31, PowersOfTwo, SMTT(30)

\* and a later one is at least twice an earlier.
LEMMA PowersGrow ==
  ASSUME NEW i \in 0..31, NEW j \in 0..31, i < j
  PROVE  Pow(i) \in Nat \ {0} /\ 2 * Pow(i) <= Pow(j)
<1>1. Pow(i) \in Nat \ {0}
  BY UpTo31, PowersOfTwo, SMTT(30)
<1>2. 2 * Pow(i) <= Pow(j)
  BY UpTo31, PowersOfTwo, SMTT(30)
<1> QED
  BY <1>1, <1>2

\* Between which powers a number of w + 1 bits is.
LEMMA BetweenPowers ==
  ASSUME NEW w \in 0..31, NEW x \in Nat \ {0}, x \div 2 < Pow(w)
  PROVE  \E m \in 0..w : Pow(m) <= x /\ x \div 2 < Pow(m)
<1>1. Pow(w) \in Nat
  BY UpTo31, PowersOfTwo, SMTT(30)
<1>2. Pow(w) <= Pow(31)
  <2>1. w = 31 \/ w < 31
    OBVIOUS
  <2>2. 31 \in 0..31
    OBVIOUS
  <2>3. w < 31 => 2 * Pow(w) <= Pow(31)
    BY <2>2, PowersGrow
  <2>4. Pow(31) \in Nat
    BY PowersOfTwo, SMT
  <2> QED
    BY <1>1, <2>1, <2>3, <2>4
<1>3. x \div 2 < Pow(31)
  BY <1>1, <1>2, PowersOfTwo, SMT
<1>4. PICK m \in 0..31 : Pow(m) <= x /\ x \div 2 < Pow(m)
  BY <1>3, PowersOfTwo, SMT
<1>5. ~(w < m)
  <2> SUFFICES ASSUME w < m PROVE FALSE
    OBVIOUS
  <2>1. 2 * Pow(w) <= Pow(m) /\ Pow(m) \in Nat
    BY PowersGrow, UpTo31, PowersOfTwo, SMTT(30)
  <2> QED
    BY <1>1, <1>4, <2>1
<1> QED
  BY <1>4, <1>5

\* The logarithms are exact.
LEMMA LogarithmsAre ==
  ASSUME NEW x \in Nat \ {0}, x \div 2 < Pow(UintBits - 1)
  PROVE  /\ Pow(FloorLog2(x)) <= x /\ x \div 2 < Pow(FloorLog2(x))
         /\ IF x = 1 THEN CeilLog2(x) = 0
            ELSE Pow(CeilLog2(x) - 1) < x /\ (x - 1) \div 2 < Pow(CeilLog2(x) - 1)
<1> DEFINE w == UintBits - 1
           P(n) == Pow(w - n) <= x /\ x \div 2 < Pow(w - n)
           c == Clz(x)
           m == FloorLog2(x)
<1>0. w \in 0..31 /\ w \in Nat
  BY WidthAssumption
<1>1. \E n \in 0..w : P(n)
  <2>1. PICK m0 \in 0..w : Pow(m0) <= x /\ x \div 2 < Pow(m0)
    BY <1>0, BetweenPowers
  <2>2. w - m0 \in 0..w /\ w - (w - m0) = m0
    BY <1>0
  <2> QED
    BY <2>1, <2>2
<1>2. c \in 0..w /\ P(c)
  <2>1. c = CHOOSE n \in 0..w : P(n)
    BY DEF Clz, Pow
  <2> QED
    BY <1>1, <2>1, Zenon
<1>3. m \in 0..w /\ m = w - c
  BY <1>0, <1>2 DEF FloorLog2
<1>4. Pow(m) <= x /\ x \div 2 < Pow(m)
  BY <1>2, <1>3
<1> HIDE DEF c, m, P
<1>5. CeilLog2(x) = m + (IF \E n \in 0..w : x = Pow(n) THEN 0 ELSE 1)
  BY DEF CeilLog2, m, Pow
<1> HIDE DEF w
<1>10. m \in 0..31
  BY <1>0, <1>3
<1>6. CASE \E n \in 0..w : x = Pow(n)
  <2>1. PICK n \in 0..w : x = Pow(n)
    BY <1>6
  <2>0. n \in 0..31
    BY <1>0
  <2>2. Pow(m) \in Nat \ {0} /\ Pow(n) \in Nat \ {0}
    <3>1. \A i \in 0..31 : Pow(i) \in Nat \ {0}
      BY PowersOfTwo, SMT
    <3> QED
      BY <1>10, <2>0, <3>1
  <2>3. ~(n < m)
    <3> SUFFICES ASSUME n < m PROVE FALSE
      OBVIOUS
    <3>1. 2 * Pow(n) <= Pow(m)
      BY PowersGrow, <1>10, <2>0
    <3> QED
      BY <1>4, <2>1, <2>2, <3>1
  <2>4. ~(m < n)
    <3> SUFFICES ASSUME m < n PROVE FALSE
      OBVIOUS
    <3>1. 2 * Pow(m) <= Pow(n)
      BY PowersGrow, <1>10, <2>0
    <3> QED
      BY <1>4, <2>1, <2>2, <3>1
  <2>5. m = n /\ CeilLog2(x) = n
    BY <1>3, <1>5, <1>6, <2>3, <2>4
  <2>6. CASE x = 1
    <3>1. ~(0 < n)
      <4> SUFFICES ASSUME 0 < n PROVE FALSE
        OBVIOUS
      <4>1. 2 * Pow(0) <= Pow(n)
        BY <2>0, PowersGrow
      <4> QED
        BY <2>1, <2>6, <4>1, PowersOfTwo, SMT
    <3> QED
      BY <1>4, <2>5, <2>6, <3>1 DEF m
  <2>7. CASE x # 1
    <3>1. n # 0
      BY <2>1, <2>7, PowersOfTwo, SMT
    <3>2. n - 1 \in 0..30 /\ n = (n - 1) + 1
      BY <2>0, <3>1
    <3>3. Pow(n) = 2 * Pow(n - 1)
      BY <3>2, Doubles
    <3>4. Pow(n - 1) \in Nat \ {0}
      BY <3>2, PowersOfTwo, SMT
    <3> DEFINE h == Pow(n - 1)
    <3> HIDE DEF h
    <3>5. x = 2 * h /\ h \in Nat \ {0}
      BY <2>1, <3>3, <3>4 DEF h
    <3>6. h < x /\ (x - 1) \div 2 < h
      BY <3>5
    <3> QED
      BY <1>4, <2>5, <2>7, <3>6 DEF h, m
  <2> QED
    BY <2>6, <2>7
<1>7. CASE ~\E n \in 0..w : x = Pow(n)
  <2>1. CeilLog2(x) = m + 1
    BY <1>5, <1>7
  <2>2. x # 1
    <3>1. 0 \in 0..w
      BY <1>0
    <3>2. x # Pow(0)
      BY <1>7, <3>1, Zenon
    <3> QED
      BY <3>2, PowersOfTwo, SMT
  <2>3. CeilLog2(x) - 1 = m
    BY <1>3, <2>1
  <2>4. x # Pow(m)
    BY <1>3, <1>7
  <2>5. Pow(m) \in Nat
    BY <1>10, PowersOfTwo, SMT
  <2>6. Pow(m) < x /\ (x - 1) \div 2 < Pow(m)
    <3> DEFINE h == Pow(m)
    <3> HIDE DEF h
    <3>1. h \in Nat /\ h <= x /\ x # h /\ x \div 2 < h
      BY <1>4, <2>4, <2>5 DEF h
    <3>2. h < x /\ (x - 1) \div 2 < h
      BY <3>1
    <3> QED
      BY <3>2 DEF h
  <2> QED
    BY <1>4, <2>2, <2>3, <2>6 DEF m
<1> QED
  BY <1>6, <1>7

-----------------------------------------------------------------------------
(* The greatest common divisor and the least common multiple.              *)

\* g is the greatest common divisor of a and b: it divides both and is a sum of
\* multiples of them.
Multiple(n, d) == \E k \in Int : n = k * d
\* By the identity of Bezout: a divisor of both that is a combination of them.
IsGcd(g, a, b) ==
  /\ Multiple(a, g) /\ Multiple(b, g)
  /\ \E x, y \in Int : g = x * a + y * b

\* Where the loop of gcd ends.
LEMMA GcdOfZero ==
  ASSUME NEW a \in Nat
  PROVE  IsGcd(a, a, 0)
<1>1. a = 1 * a /\ 0 = 0 * a /\ a = 1 * a + 0 * 0
  OBVIOUS
<1>2. 1 \in Int /\ 0 \in Int
  OBVIOUS
<1> QED
  BY <1>1, <1>2 DEF IsGcd, Multiple

\* A step of the loop keeps it.
LEMMA GcdOfStep ==
  ASSUME NEW a \in Nat, NEW b \in Nat \ {0}, NEW g \in Nat, IsGcd(g, b, a % b)
  PROVE  IsGcd(g, a, b)
<1> DEFINE q == a \div b
           r == a % b
<1>1. q \in Nat /\ r \in 0..b - 1 /\ a = b * q + r
  OBVIOUS
<1> HIDE DEF q, r
<1>2. PICK i \in Int : b = i * g
  BY DEF IsGcd, Multiple
<1>3. PICK j \in Int : r = j * g
  BY DEF IsGcd, Multiple, r
<1>4. PICK x \in Int, y \in Int : g = x * b + y * r
  BY DEF IsGcd, r
<1>5. a = (i * q + j) * g /\ i * q + j \in Int
  <2>1. (i * g) * q + j * g = (i * q + j) * g
    BY <1>1
  <2> QED
    BY <1>1, <1>2, <1>3, <2>1
<1>6. g = y * a + (x - y * q) * b /\ x - y * q \in Int
  <2>1. y * (b * q + r) + (x - y * q) * b = x * b + y * r
    BY <1>1
  <2> QED
    BY <1>1, <1>4, <2>1
<1> QED
  BY <1>2, <1>5, <1>6 DEF IsGcd, Multiple

\* There is at most one.
LEMMA GcdIsOne ==
  ASSUME NEW a \in Nat, NEW b \in Nat, NEW g \in Nat, NEW h \in Nat,
         IsGcd(g, a, b), IsGcd(h, a, b)
  PROVE  g = h
<1>1. ASSUME NEW c \in Nat, NEW d \in Nat, IsGcd(c, a, b), IsGcd(d, a, b)
      PROVE  \E k \in Int : c = k * d
  <2>1. PICK i \in Int : a = i * d
    BY <1>1 DEF IsGcd, Multiple
  <2>2. PICK j \in Int : b = j * d
    BY <1>1 DEF IsGcd, Multiple
  <2>3. PICK x \in Int, y \in Int : c = x * a + y * b
    BY <1>1 DEF IsGcd
  <2>4. x * (i * d) + y * (j * d) = (x * i + y * j) * d /\ x * i + y * j \in Int
    OBVIOUS
  <2> QED
    BY <2>1, <2>2, <2>3, <2>4
<1>2. ASSUME NEW c \in Nat, NEW d \in Nat, NEW k \in Int, c = k * d, c # 0
      PROVE  d <= c
  <2>1. d # 0 /\ k # 0
    BY <1>2
  <2>2. k > 0
    <3> SUFFICES ASSUME k < 0 PROVE FALSE
      BY <2>1
    <3>1. k * d < 0
      BY <2>1
    <3> QED
      BY <1>2, <3>1
  <2>3. (k - 1) * d >= 0
    BY <2>2
  <2>4. k * d = (k - 1) * d + d
    OBVIOUS
  <2> QED
    BY <1>2, <2>3, <2>4
<1>3. PICK k \in Int : g = k * h
  BY <1>1
<1>4. PICK l \in Int : h = l * g
  BY <1>1
<1>5. g = 0 <=> h = 0
  BY <1>3, <1>4
<1> QED
  BY <1>2, <1>3, <1>4, <1>5

\* There is one.
LEMMA GcdExists ==
  ASSUME NEW a \in Nat, NEW b \in Nat
  PROVE  \E g \in Nat : IsGcd(g, a, b)
<1> DEFINE T == {n \in Nat : \E m \in Nat : ~\E g \in Nat : IsGcd(g, m, n)}
<1> SUFFICES ASSUME T # {} PROVE FALSE
  OBVIOUS
<1>1. PICK n \in T : \A k \in T : n <= k
  BY LeastIs
<1>2. n \in Nat
  OBVIOUS
<1>3. PICK m \in Nat : ~\E g \in Nat : IsGcd(g, m, n)
  OBVIOUS
<1>4. n # 0
  BY <1>3, GcdOfZero
<1>5. m % n \in Nat /\ m % n < n
  BY <1>2, <1>4, DivMod
<1>6. m % n \notin T
  BY <1>1, <1>2, <1>5
<1>7. PICK g \in Nat : IsGcd(g, n, m % n)
  BY <1>2, <1>5, <1>6
<1>8. IsGcd(g, m, n)
  BY <1>2, <1>4, <1>7, GcdOfStep
<1> QED
  BY <1>3, <1>8

\* The loop of gcd is a function.
LEMMA EuclidEquation ==
  ASSUME NEW a \in Nat, NEW b \in Nat
  PROVE  Euclid[<<a, b>>] = IF b = 0 THEN a ELSE Euclid[<<b, a % b>>]
<1> DEFINE G(m, n) == CHOOSE g \in Nat : IsGcd(g, m, n)
           Of(f, p) == IF p[2] = 0 THEN p[1] ELSE f[<<p[2], p[1] % p[2]>>]
           Is(f) == f = [p \in Nat \X Nat |-> Of(f, p)]
           h == [p \in Nat \X Nat |-> G(p[1], p[2])]
<1>1. ASSUME NEW m \in Nat, NEW n \in Nat
      PROVE  G(m, n) \in Nat /\ IsGcd(G(m, n), m, n)
  BY GcdExists, Zenon
<1>2. ASSUME NEW p \in Nat \X Nat
      PROVE  h[p] = Of(h, p)
  <2> HIDE DEF G
  <2>1. PICK m \in Nat, n \in Nat : p = <<m, n>>
    OBVIOUS
  <2>2. h[p] = G(m, n)
    BY <2>1
  <2>3. CASE n = 0
    <3>1. IsGcd(m, m, n)
      BY <2>3, GcdOfZero
    <3>2. G(m, n) = m
      BY <1>1, <3>1, GcdIsOne
    <3> QED
      BY <2>1, <2>2, <2>3, <3>2
  <2>4. CASE n # 0
    <3>1. m % n \in Nat
      BY <2>4, DivMod
    <3>2. G(n, m % n) \in Nat /\ IsGcd(G(n, m % n), n, m % n)
      BY <1>1, <3>1
    <3>3. IsGcd(G(n, m % n), m, n)
      BY <2>4, <3>2, GcdOfStep
    <3>4. G(n, m % n) = G(m, n)
      BY <1>1, <3>2, <3>3, GcdIsOne
    <3>5. h[<<n, m % n>>] = G(n, m % n)
      BY <3>1
    <3> QED
      BY <2>1, <2>2, <2>4, <3>4, <3>5
  <2> QED
    BY <2>3, <2>4
<1>3. Is(h)
  <2> DEFINE e == [p \in Nat \X Nat |-> Of(h, p)]
  <2>1. \A p \in Nat \X Nat : h[p] = e[p]
    BY <1>2, SMTT(30)
  <2>2. h = e
    BY <2>1
  <2> QED
    BY <2>2
<1>4. Euclid = CHOOSE f : Is(f)
  BY DEF Euclid
<1> HIDE DEF h
<1>5. Is(Euclid)
  <2> HIDE DEF Is
  <2> QED
    BY <1>3, <1>4, Zenon
<1>6. Euclid[<<a, b>>] = Of(Euclid, <<a, b>>)
  BY <1>5
<1> QED
  BY <1>6

\* It ends with the greatest common divisor.
LEMMA EuclidIsGcd ==
  ASSUME NEW a \in Nat, NEW b \in Nat
  PROVE  Euclid[<<a, b>>] \in Nat /\ IsGcd(Euclid[<<a, b>>], a, b)
<1> DEFINE Right(m, n) == Euclid[<<m, n>>] \in Nat /\ IsGcd(Euclid[<<m, n>>], m, n)
           T == {n \in Nat : \E m \in Nat : ~Right(m, n)}
<1> SUFFICES ASSUME T # {} PROVE FALSE
  OBVIOUS
<1>1. PICK n \in T : \A k \in T : n <= k
  BY LeastIs
<1>2. n \in Nat
  OBVIOUS
<1>3. PICK m \in Nat : ~Right(m, n)
  OBVIOUS
<1>4. n # 0
  <2> SUFFICES ASSUME n = 0 PROVE FALSE
    OBVIOUS
  <2>1. Euclid[<<m, n>>] = m
    BY EuclidEquation
  <2>2. IsGcd(m, m, n)
    BY GcdOfZero
  <2> QED
    BY <1>3, <2>1, <2>2
<1>5. m % n \in Nat /\ m % n < n
  BY <1>2, <1>4, DivMod
<1>6. Right(n, m % n)
  <2>1. m % n \notin T
    BY <1>1, <1>2, <1>5
  <2> QED
    BY <1>2, <1>5, <2>1
<1>7. Euclid[<<m, n>>] = Euclid[<<n, m % n>>]
  BY <1>2, <1>4, EuclidEquation
<1>8. Right(m, n)
  BY <1>2, <1>4, <1>6, <1>7, GcdOfStep
<1> QED
  BY <1>3, <1>8

\* So is what gcd returns, for integers of any sign.
LEMMA GcdIs ==
  ASSUME NEW a \in Int, NEW b \in Int
  PROVE  Gcd(a, b) \in Nat /\ IsGcd(Gcd(a, b), Abs(a), Abs(b))
<1> DEFINE x == Abs(a)
           y == Abs(b)
<1>1. x \in Nat /\ y \in Nat
  BY DEF Abs
<1> HIDE DEF x, y
<1>2. Gcd(a, b) = IF x < y THEN Euclid[<<y, x>>] ELSE Euclid[<<x, y>>]
  BY DEF Gcd, x, y
<1>3. CASE x < y
  <2>1. Gcd(a, b) \in Nat /\ IsGcd(Gcd(a, b), y, x)
    BY <1>1, <1>2, <1>3, EuclidIsGcd
  <2>2. PICK k \in Int, l \in Int : Gcd(a, b) = k * y + l * x
    BY <2>1 DEF IsGcd
  <2>3. Gcd(a, b) = l * x + k * y
    BY <1>1, <2>2
  <2> QED
    BY <2>1, <2>3 DEF IsGcd, x, y
<1>4. CASE ~(x < y)
  <2>1. Gcd(a, b) = Euclid[<<x, y>>]
    BY <1>2, <1>4
  <2> QED
    BY <1>1, <2>1, EuclidIsGcd DEF x, y
<1> QED
  BY <1>3, <1>4

\* Of natural numbers, Divides says the same.
LEMMA MultipleIsDivided ==
  ASSUME NEW d \in Nat, NEW n \in Nat
  PROVE  Multiple(n, d) <=> Divides(d, n)
<1>1. ASSUME NEW k \in Int, n = k * d PROVE \E l \in 0..n : l * d = n
  <2>1. CASE n = 0
    <3>1. 0 \in 0..n /\ 0 * d = n
      BY <2>1
    <3> QED
      BY <3>1
  <2>2. CASE n # 0
    <3>1. d # 0 /\ k # 0
      BY <1>1, <2>2
    <3>2. k > 0
      <4> SUFFICES ASSUME k < 0 PROVE FALSE
        BY <3>1
      <4>1. k * d < 0
        BY <3>1
      <4> QED
        BY <1>1, <4>1
    <3>3. k * (d - 1) >= 0 /\ k * d = k * (d - 1) + k
      BY <3>1, <3>2
    <3>4. k \in 0..n
      BY <1>1, <3>2, <3>3
    <3> QED
      BY <1>1, <3>4
  <2> QED
    BY <2>1, <2>2
<1>2. Multiple(n, d) => Divides(d, n)
  BY <1>1 DEF Multiple, Divides
<1>3. Divides(d, n) => Multiple(n, d)
  <2> SUFFICES ASSUME NEW k \in 0..n, k * d = n PROVE \E l \in Int : n = l * d
    BY DEF Multiple, Divides
  <2>1. k \in Int /\ n = k * d
    OBVIOUS
  <2> QED
    BY <2>1
<1> QED
  BY <1>2, <1>3

\* What divides both is not greater.
LEMMA GcdIsGreatest ==
  ASSUME NEW a \in Nat, NEW b \in Nat, NEW g \in Nat, IsGcd(g, a, b),
         NEW d \in 1..a + b, Divides(d, a), Divides(d, b)
  PROVE  d <= g
<1>1. PICK i \in 0..a : i * d = a
  BY DEF Divides
<1>2. PICK j \in 0..b : j * d = b
  BY DEF Divides
<1>3. PICK x \in Int, y \in Int : g = x * a + y * b
  BY DEF IsGcd
<1>4. x * (i * d) + y * (j * d) = (x * i + y * j) * d
  OBVIOUS
<1>5. PICK k \in Int : g = k * d
  <2>1. x * i + y * j \in Int
    OBVIOUS
  <2> QED
    BY <1>1, <1>2, <1>3, <1>4, <2>1
<1>6. g # 0
  <2> SUFFICES ASSUME g = 0 PROVE FALSE
    OBVIOUS
  <2>1. PICK k1 \in Int : a = k1 * g
    BY DEF IsGcd, Multiple
  <2>2. PICK k2 \in Int : b = k2 * g
    BY DEF IsGcd, Multiple
  <2>3. a = 0 /\ b = 0
    BY <2>1, <2>2
  <2> QED
    BY <2>3
<1>7. Divides(d, g)
  BY <1>5, MultipleIsDivided DEF Multiple
<1>8. PICK l \in 0..g : l * d = g
  BY <1>7 DEF Divides
<1>9. l # 0
  BY <1>6, <1>8
<1>10. (l - 1) * d >= 0 /\ l * d = (l - 1) * d + d
  BY <1>9
<1> QED
  BY <1>8, <1>10

\* What lcm returns is the least positive multiple of both.
LEMMA LcmIsLeast ==
  ASSUME NEW a \in Nat \ {0}, NEW b \in Nat \ {0}, NEW g \in Nat, IsGcd(g, a, b)
  PROVE  LET m == (a * b) \div g
         IN /\ g # 0 /\ m \in Nat \ {0} /\ Divides(a, m) /\ Divides(b, m)
            /\ \A n \in 1..m - 1 : ~(Divides(a, n) /\ Divides(b, n))
<1> DEFINE m == (a * b) \div g
<1>1. PICK i \in Int : a = i * g
  BY DEF IsGcd, Multiple
<1>2. PICK j \in Int : b = j * g
  BY DEF IsGcd, Multiple
<1>3. PICK x \in Int, y \in Int : g = x * a + y * b
  BY DEF IsGcd
<1>4. g \in Nat \ {0}
  BY <1>1
<1>5. a * b = g * (i * b)
  <2>1. (i * g) * b = g * (i * b)
    BY <1>1
  <2> QED
    BY <1>1, <2>1
<1>6. i > 0
  <2> SUFFICES ASSUME i <= 0 PROVE FALSE
    OBVIOUS
  <2>1. i * g <= 0
    BY <1>4
  <2> QED
    BY <1>1, <2>1
<1>7. i * b \in Nat \ {0}
  BY <1>6
<1>8. m = i * b
  <2>1. 0 \in 0..g - 1 /\ i * b \in Nat
    BY <1>4, <1>7
  <2>2. (g * (i * b) + 0) \div g = i * b
    BY <1>4, <2>1, DivModIs
  <2>3. g * (i * b) + 0 = a * b
    BY <1>4, <1>5, <1>7
  <2> QED
    BY <2>2, <2>3
<1> HIDE DEF m
<1>9. m = j * a
  <2>1. i * (j * g) = j * (i * g)
    BY <1>4
  <2> QED
    BY <1>1, <1>2, <1>8, <2>1
<1>10. Multiple(m, a) /\ Multiple(m, b) /\ m \in Nat \ {0}
  BY <1>7, <1>8, <1>9 DEF Multiple
<1>11. ASSUME NEW n \in 1..m - 1, Divides(a, n), Divides(b, n) PROVE FALSE
  <2>1. PICK k \in 0..n : k * a = n
    BY <1>11 DEF Divides
  <2>2. PICK l \in 0..n : l * b = n
    BY <1>11 DEF Divides
  <2>3. n * g = (l * x + k * y) * (a * b)
    <3>1. n * g = x * a * n + y * b * n
      <4>1. n * (x * a + y * b) = x * a * n + y * b * n
        OBVIOUS
      <4> QED
        BY <1>3, <4>1
    <3>2. x * a * (l * b) = (l * x) * (a * b)
      OBVIOUS
    <3>3. y * b * (k * a) = (k * y) * (a * b)
      OBVIOUS
    <3>4. (l * x) * (a * b) + (k * y) * (a * b) = (l * x + k * y) * (a * b)
      OBVIOUS
    <3> QED
      BY <2>1, <2>2, <3>1, <3>2, <3>3, <3>4
  <2> DEFINE c == l * x + k * y
  <2>4. c \in Int
    OBVIOUS
  <2> HIDE DEF c
  <2>5. n * g = (c * m) * g
    <3>1. c * (g * m) = (c * m) * g
      BY <1>4, <1>10, <2>4
    <3> QED
      BY <1>5, <1>8, <2>3, <3>1 DEF c
  <2>6. n = c * m
    <3>1. (n - c * m) * g = 0
      <4>1. (n - c * m) * g = n * g - (c * m) * g
        BY <1>4, <1>10, <2>4
      <4>2. n * g \in Int
        BY <1>4
      <4> QED
        BY <2>5, <4>1, <4>2
    <3>2. n - c * m \in Int
      BY <1>10, <2>4
    <3>3. \A u \in Int : u * g = 0 => u = 0
      BY <1>4
    <3> QED
      BY <1>10, <2>4, <3>1, <3>2, <3>3
  <2>7. c > 0
    <3> SUFFICES ASSUME c <= 0 PROVE FALSE
      BY <2>4
    <3>1. c * m <= 0
      BY <1>10, <2>4
    <3> QED
      BY <2>6, <3>1
  <2>8. (c - 1) * m >= 0 /\ c * m = (c - 1) * m + m
    BY <1>10, <2>4, <2>7
  <2>9. c * m >= m
    <3> DEFINE z == (c - 1) * m
    <3>1. z \in Int
      BY <1>10, <2>4
    <3> HIDE DEF z
    <3> QED
      BY <1>10, <2>8, <3>1 DEF z
  <2>10. n >= m
    BY <2>6, <2>9
  <2> QED
    BY <1>10, <2>10
<1> QED
  BY <1>4, <1>10, <1>11, MultipleIsDivided DEF m

\* What lcm divides is a product without its sign.
LEMMA AbsOfProduct ==
  ASSUME NEW a \in Int, NEW b \in Int
  PROVE  /\ Abs(a) \in Nat /\ Abs(b) \in Nat
         /\ Abs(a * b) = Abs(a) * Abs(b)
         /\ Abs(a) = 0 <=> a = 0
BY DEF Abs

\* gcd and lcm.
LEMMA GcdLcmAre ==
  ASSUME NEW m \in Int, NEW n \in Int, NEW any
  PROVE  LET a == Abs(m) b == Abs(n) g == Gcd(m, n) l == Lcm(m, n, any)
         IN /\ Divides(g, a) /\ Divides(g, b)
            /\ \A d \in 1..a + b : Divides(d, a) /\ Divides(d, b) => d <= g
            /\ a * b <= IntMax => IsLeastMultiple(l, a, b)
<1> DEFINE a == Abs(m)
           b == Abs(n)
           g == Gcd(m, n)
           l == Lcm(m, n, any)
<1>1. a \in Nat /\ b \in Nat /\ Abs(m * n) = a * b
  BY AbsOfProduct
<1>2. g \in Nat /\ IsGcd(g, a, b)
  BY GcdIs
<1>3. a * b <= IntMax => l = (a * b) \div (IF g = 0 THEN 1 ELSE g)
  <2> DEFINE p == Abs(m * n)
  <2>1. l = IF p > IntMax THEN any ELSE p \div (IF g = 0 THEN 1 ELSE g)
    BY Zenon DEF Lcm
  <2> HIDE DEF p, l, g
  <2>2. p = a * b /\ a * b \in Nat /\ IntMax \in Nat
    BY <1>1, WidthAssumption DEF p
  <2> HIDE DEF a, b
  <2> QED
    BY <2>1, <2>2
<1> HIDE DEF a, b, g, l
<1>4. Divides(g, a) /\ Divides(g, b)
  BY <1>1, <1>2, MultipleIsDivided DEF IsGcd
<1>5. ASSUME NEW d \in 1..a + b, Divides(d, a), Divides(d, b) PROVE d <= g
  BY <1>1, <1>2, <1>5, GcdIsGreatest
<1>6. ASSUME a * b <= IntMax PROVE IsLeastMultiple(l, a, b)
  <2>1. l = (a * b) \div (IF g = 0 THEN 1 ELSE g)
    BY <1>3, <1>6
  <2>2. CASE a * b = 0
    <3>1. l = 0 \div (IF g = 0 THEN 1 ELSE g)
      BY <2>1, <2>2
    <3>2. \A c \in Nat \ {0} : 0 \div c = 0
      OBVIOUS
    <3>3. (IF g = 0 THEN 1 ELSE g) \in Nat \ {0}
      BY <1>2
    <3>4. l = 0
      BY <3>1, <3>2, <3>3
    <3> QED
      BY <2>2, <3>4 DEF IsLeastMultiple
  <2>3. CASE a * b # 0
    <3>1. a # 0 /\ b # 0
      BY <1>1, <2>3
    <3>2. a \in Nat \ {0} /\ b \in Nat \ {0}
      BY <1>1, <3>1
    <3> DEFINE q == (a * b) \div g
    <3>3. /\ g # 0 /\ q \in Nat \ {0} /\ Divides(a, q) /\ Divides(b, q)
          /\ \A k \in 1..q - 1 : ~(Divides(a, k) /\ Divides(b, k))
      BY <1>2, <3>2, LcmIsLeast
    <3>4. l = q
      BY <2>1, <3>3
    <3> HIDE DEF q
    <3>5. l > 0
      BY <3>3, <3>4
    <3>6. \A k \in 1..l - 1 : ~(Divides(a, k) /\ Divides(b, k))
      BY <3>3, <3>4
    <3> QED
      BY <2>3, <3>3, <3>4, <3>5, <3>6, Zenon DEF IsLeastMultiple
  <2> QED
    BY <2>2, <2>3
<1> QED
  BY <1>4, <1>5, <1>6 DEF a, b, g, l

-----------------------------------------------------------------------------
(* The tables of DES.                                                       *)

\* The bit that PC2, a shift of the halves and PC1 pick.
Picked(j, shift) ==
  LET h == 28 * ((PC2[j] - 1) \div 28) IN PC1[h + 1 + ((PC2[j] - 1 - h + shift) % 28)]

\* A table of the key schedule picks the bits that the standard does by shifting.
Picks(table, shift) ==
  /\ table \in Seq(0..63) /\ Len(table) = 48
  /\ \A j \in 1..48 : 64 - table[j] = Picked(j, shift)

LEMMA SchedulePicks ==
  /\ Picks(KS_0Bits, Shifts[1])
  /\ Picks(KS_1Bits, Shifts[2])
  /\ Picks(KS_2Bits, Shifts[3])
  /\ Picks(KS_3Bits, Shifts[4])
  /\ Picks(KS_4Bits, Shifts[5])
  /\ Picks(KS_5Bits, Shifts[6])
  /\ Picks(KS_6Bits, Shifts[7])
  /\ Picks(KS_7Bits, Shifts[8])
  /\ Picks(KS_8Bits, Shifts[9])
  /\ Picks(KS_9Bits, Shifts[10])
  /\ Picks(KS_10Bits, Shifts[11])
  /\ Picks(KS_11Bits, Shifts[12])
  /\ Picks(KS_12Bits, Shifts[13])
  /\ Picks(KS_13Bits, Shifts[14])
  /\ Picks(KS_14Bits, Shifts[15])
  /\ Picks(KS_15Bits, Shifts[16])
<1>1. Picks(KS_0Bits, Shifts[1])
  BY DEF Picks, Picked, PC1, PC2, Shifts, KS_0Bits
<1>2. Picks(KS_1Bits, Shifts[2])
  BY DEF Picks, Picked, PC1, PC2, Shifts, KS_1Bits
<1>3. Picks(KS_2Bits, Shifts[3])
  BY DEF Picks, Picked, PC1, PC2, Shifts, KS_2Bits
<1>4. Picks(KS_3Bits, Shifts[4])
  BY DEF Picks, Picked, PC1, PC2, Shifts, KS_3Bits
<1>5. Picks(KS_4Bits, Shifts[5])
  BY DEF Picks, Picked, PC1, PC2, Shifts, KS_4Bits
<1>6. Picks(KS_5Bits, Shifts[6])
  BY DEF Picks, Picked, PC1, PC2, Shifts, KS_5Bits
<1>7. Picks(KS_6Bits, Shifts[7])
  BY DEF Picks, Picked, PC1, PC2, Shifts, KS_6Bits
<1>8. Picks(KS_7Bits, Shifts[8])
  BY DEF Picks, Picked, PC1, PC2, Shifts, KS_7Bits
<1>9. Picks(KS_8Bits, Shifts[9])
  BY DEF Picks, Picked, PC1, PC2, Shifts, KS_8Bits
<1>10. Picks(KS_9Bits, Shifts[10])
  BY DEF Picks, Picked, PC1, PC2, Shifts, KS_9Bits
<1>11. Picks(KS_10Bits, Shifts[11])
  BY DEF Picks, Picked, PC1, PC2, Shifts, KS_10Bits
<1>12. Picks(KS_11Bits, Shifts[12])
  BY DEF Picks, Picked, PC1, PC2, Shifts, KS_11Bits
<1>13. Picks(KS_12Bits, Shifts[13])
  BY DEF Picks, Picked, PC1, PC2, Shifts, KS_12Bits
<1>14. Picks(KS_13Bits, Shifts[14])
  BY DEF Picks, Picked, PC1, PC2, Shifts, KS_13Bits
<1>15. Picks(KS_14Bits, Shifts[15])
  BY DEF Picks, Picked, PC1, PC2, Shifts, KS_14Bits
<1>16. Picks(KS_15Bits, Shifts[16])
  BY DEF Picks, Picked, PC1, PC2, Shifts, KS_15Bits
<1> QED
  BY <1>1, <1>2, <1>3, <1>4, <1>5, <1>6, <1>7, <1>8, <1>9, <1>10, <1>11, <1>12, <1>13, <1>14, <1>15, <1>16

\* A word of n bits is one of [1..n -> 0..1].
LEMMA WordIs ==
  ASSUME NEW n \in Nat, NEW x \in [1..n -> 0..1]
  PROVE  x \in Seq(0..1) /\ Len(x) = n /\ x \o <<>> = x
<1>1. x \in Seq(0..1) /\ Len(x) = n
  BY FunSeq
<1> QED
  BY <1>1, ConcatEmptySeq

\* What a table of MOVE_BITs takes.
LEMMA MovedIs ==
  ASSUME NEW n \in Nat, NEW x \in [1..n -> 0..1], NEW m \in Nat, NEW table \in Seq(0..n - 1), Len(table) = m
  PROVE  /\ Moved(table, x) \in [1..m -> 0..1]
         /\ \A j \in 1..m : Moved(table, x)[j] = x[n - table[j]]
<1> DEFINE w == [j \in 1..m |-> x[n - table[j]]]
<1>1. Len(x) = n
  BY WordIs
<1>2. \A j \in 1..m : n - table[j] \in 1..n
  <2> TAKE j \in 1..m
  <2>1. table[j] \in 0..n - 1
    BY ElementOfSeq
  <2> QED
    BY <2>1
<1>3. w \in [1..m -> 0..1]
  BY <1>2
<1>4. w \o <<>> = w
  BY <1>3, WordIs
<1>5. Moved(table, x) = w
  BY <1>1, <1>4, Zenon DEF Moved
<1> QED
  BY <1>3, <1>5

\* The n-th of the round keys.
LEMMA KeyScheduleIs ==
  ASSUME NEW key \in [1..64 -> 0..1], NEW n \in 1..16, NEW j \in 1..48
  PROVE  KeySchedule(key)[n][j] = key[Picked(j, Shifts[n])]
<1>1. ASSUME NEW table, NEW shift, Picks(table, shift)
      PROVE  Moved(table, key)[j] = key[Picked(j, shift)]
  <2>1. table \in Seq(0..64 - 1) /\ Len(table) = 48 /\ 64 \in Nat /\ 48 \in Nat
    BY <1>1 DEF Picks
  <2>2. \A k \in 1..48 : Moved(table, key)[k] = key[64 - table[k]]
    BY <2>1, MovedIs, ZenonT(40)
  <2> QED
    BY <1>1, <2>2, ZenonT(40) DEF Picks
<1>2. CASE n = 1
  <2>1. KeySchedule(key)[1] = Moved(KS_0Bits, key)
    BY DEF KeySchedule
  <2> QED
    BY <1>1, <1>2, <2>1, SchedulePicks, Zenon
<1>3. CASE n = 2
  <2>1. KeySchedule(key)[2] = Moved(KS_1Bits, key)
    BY DEF KeySchedule
  <2> QED
    BY <1>1, <1>3, <2>1, SchedulePicks, Zenon
<1>4. CASE n = 3
  <2>1. KeySchedule(key)[3] = Moved(KS_2Bits, key)
    BY DEF KeySchedule
  <2> QED
    BY <1>1, <1>4, <2>1, SchedulePicks, Zenon
<1>5. CASE n = 4
  <2>1. KeySchedule(key)[4] = Moved(KS_3Bits, key)
    BY DEF KeySchedule
  <2> QED
    BY <1>1, <1>5, <2>1, SchedulePicks, Zenon
<1>6. CASE n = 5
  <2>1. KeySchedule(key)[5] = Moved(KS_4Bits, key)
    BY DEF KeySchedule
  <2> QED
    BY <1>1, <1>6, <2>1, SchedulePicks, Zenon
<1>7. CASE n = 6
  <2>1. KeySchedule(key)[6] = Moved(KS_5Bits, key)
    BY DEF KeySchedule
  <2> QED
    BY <1>1, <1>7, <2>1, SchedulePicks, Zenon
<1>8. CASE n = 7
  <2>1. KeySchedule(key)[7] = Moved(KS_6Bits, key)
    BY DEF KeySchedule
  <2> QED
    BY <1>1, <1>8, <2>1, SchedulePicks, Zenon
<1>9. CASE n = 8
  <2>1. KeySchedule(key)[8] = Moved(KS_7Bits, key)
    BY DEF KeySchedule
  <2> QED
    BY <1>1, <1>9, <2>1, SchedulePicks, Zenon
<1>10. CASE n = 9
  <2>1. KeySchedule(key)[9] = Moved(KS_8Bits, key)
    BY DEF KeySchedule
  <2> QED
    BY <1>1, <1>10, <2>1, SchedulePicks, Zenon
<1>11. CASE n = 10
  <2>1. KeySchedule(key)[10] = Moved(KS_9Bits, key)
    BY DEF KeySchedule
  <2> QED
    BY <1>1, <1>11, <2>1, SchedulePicks, Zenon
<1>12. CASE n = 11
  <2>1. KeySchedule(key)[11] = Moved(KS_10Bits, key)
    BY DEF KeySchedule
  <2> QED
    BY <1>1, <1>12, <2>1, SchedulePicks, Zenon
<1>13. CASE n = 12
  <2>1. KeySchedule(key)[12] = Moved(KS_11Bits, key)
    BY DEF KeySchedule
  <2> QED
    BY <1>1, <1>13, <2>1, SchedulePicks, Zenon
<1>14. CASE n = 13
  <2>1. KeySchedule(key)[13] = Moved(KS_12Bits, key)
    BY DEF KeySchedule
  <2> QED
    BY <1>1, <1>14, <2>1, SchedulePicks, Zenon
<1>15. CASE n = 14
  <2>1. KeySchedule(key)[14] = Moved(KS_13Bits, key)
    BY DEF KeySchedule
  <2> QED
    BY <1>1, <1>15, <2>1, SchedulePicks, Zenon
<1>16. CASE n = 15
  <2>1. KeySchedule(key)[15] = Moved(KS_14Bits, key)
    BY DEF KeySchedule
  <2> QED
    BY <1>1, <1>16, <2>1, SchedulePicks, Zenon
<1>17. CASE n = 16
  <2>1. KeySchedule(key)[16] = Moved(KS_15Bits, key)
    BY DEF KeySchedule
  <2> QED
    BY <1>1, <1>17, <2>1, SchedulePicks, Zenon
<1> QED
  BY <1>2, <1>3, <1>4, <1>5, <1>6, <1>7, <1>8, <1>9, <1>10, <1>11, <1>12, <1>13, <1>14, <1>15, <1>16, <1>17

-----------------------------------------------------------------------------
(* Graphs of nodes with two links each.                                    *)

\* A link of every node, to a node or to none.
Links(D) == [D -> D \cup {0}]

\* Sets that no link leaves.
Closed(Q, L, R) == \A z \in Q : L[z] \in Q \cup {0} /\ R[z] \in Q \cup {0}

\* The nodes in every such set that has x: what the links reach from it.
Reaches(D, L, R, x) ==
  IF x = 0 THEN {} ELSE {y \in D : \A Q \in SUBSET D : x \in Q /\ Closed(Q, L, R) => y \in Q}

\* What is reached from a node is the node and what is reached from its links.
LEMMA ReachesIs ==
  ASSUME NEW D, 0 \notin D, NEW L \in Links(D), NEW R \in Links(D), NEW x \in D
  PROVE  Reaches(D, L, R, x) = {x} \cup Reaches(D, L, R, L[x]) \cup Reaches(D, L, R, R[x])
<1> DEFINE E(y) == Reaches(D, L, R, y)
           T == {x} \cup E(L[x]) \cup E(R[x])
<1>0. L[x] \in D \cup {0} /\ R[x] \in D \cup {0} /\ x # 0
  BY DEF Links
<1>1. \A y \in D : y \in E(y) /\ E(y) \subseteq D /\ E(0) = {}
  BY DEF Reaches
<1>2. ASSUME NEW y \in D PROVE Closed(E(y), L, R)
  <2> SUFFICES ASSUME NEW z \in E(y) PROVE L[z] \in E(y) \cup {0} /\ R[z] \in E(y) \cup {0}
    BY DEF Closed
  <2>1. z \in D /\ y # 0
    BY <1>1
  <2>2. L[z] \in D \cup {0} /\ R[z] \in D \cup {0}
    BY <2>1 DEF Links
  <2>3. \A Q \in SUBSET D : y \in Q /\ Closed(Q, L, R) => L[z] \in Q \cup {0} /\ R[z] \in Q \cup {0}
    BY <2>1 DEF Reaches, Closed
  <2> QED
    BY <2>1, <2>2, <2>3 DEF Reaches
<1>3. T \subseteq E(x)
  <2> SUFFICES ASSUME NEW y \in T, NEW Q \in SUBSET D, x \in Q, Closed(Q, L, R) PROVE y \in Q
    BY <1>0, <1>1 DEF Reaches
  <2>1. L[x] \in Q \cup {0} /\ R[x] \in Q \cup {0}
    BY DEF Closed
  <2> QED
    BY <2>1 DEF Reaches
<1>4. E(x) \subseteq T
  <2>1. T \in SUBSET D /\ x \in T
    BY <1>0, <1>1
  <2>2. Closed(T, L, R)
    <3> SUFFICES ASSUME NEW z \in T PROVE L[z] \in T \cup {0} /\ R[z] \in T \cup {0}
      BY DEF Closed
    <3>1. CASE z = x
      BY <3>1, <1>0, <1>1
    <3>2. CASE z \in E(L[x])
      <4>1. L[x] \in D
        BY <3>2, <1>0, <1>1
      <4> QED
        BY <4>1, <3>2, <1>2 DEF Closed
    <3>3. CASE z \in E(R[x])
      <4>1. R[x] \in D
        BY <3>3, <1>0, <1>1
      <4> QED
        BY <4>1, <3>3, <1>2 DEF Closed
    <3> QED
      BY <3>1, <3>2, <3>3
  <2> QED
    BY <2>1, <2>2, <1>0 DEF Reaches
<1> QED
  BY <1>3, <1>4

\* Sets of nodes that are defined by what they are below each node.
IsBelow(B, D, L, R) ==
  B = [x \in D \cup {0} |-> IF x = 0 THEN {} ELSE {x} \cup B[L[x]] \cup B[R[x]]]

\* So there is a function that meets the equation of Below.
LEMMA BelowExists ==
  ASSUME NEW D, 0 \notin D, NEW L \in Links(D), NEW R \in Links(D)
  PROVE  IsBelow([x \in D \cup {0} |-> Reaches(D, L, R, x)], D, L, R)
<1> DEFINE B == [x \in D \cup {0} |-> Reaches(D, L, R, x)]
<1>1. \A x \in D : L[x] \in D \cup {0} /\ R[x] \in D \cup {0}
  BY DEF Links
<1>2. \A x \in D \cup {0} : B[x] = IF x = 0 THEN {} ELSE {x} \cup B[L[x]] \cup B[R[x]]
  <2> TAKE x \in D \cup {0}
  <2>1. CASE x = 0
    BY <2>1 DEF Reaches
  <2>2. CASE x # 0
    <3>1. x \in D
      BY <2>2
    <3>2. Reaches(D, L, R, x) = {x} \cup Reaches(D, L, R, L[x]) \cup Reaches(D, L, R, R[x])
      BY <3>1, ReachesIs
    <3> QED
      BY <2>2, <3>1, <3>2, <1>1
  <2> QED
    BY <2>1, <2>2
<1> QED
  BY <1>2, Zenon DEF IsBelow

\* The subtrees of a tree and the chains of its parents are such sets.
LEMMA BelowIs ==
  ASSUME NEW t, NEW D, D = DOMAIN t.left, 0 \notin D, t.left \in Links(D), t.right \in Links(D)
  PROVE  \E B : IsBelow(B, D, t.left, t.right) /\ \A n \in D \cup {0} : Below(t, n) = B[n]
<1> DEFINE B == CHOOSE f : IsBelow(f, D, t.left, t.right)
<1>1. \E f : IsBelow(f, D, t.left, t.right)
  BY BelowExists
<1>2. IsBelow(B, D, t.left, t.right)
  BY <1>1, Zenon
<1>3. \A n : Below(t, n) = B[n]
  BY DEF Below, IsBelow
<1> QED
  BY <1>2, <1>3, Zenon

\* The equation of Path, which follows a single link:
IsChain(B, D, P) == B = [x \in D \cup {0} |-> IF x = 0 THEN {} ELSE {x} \cup B[P[x]]]

\* it is that of Below with the link taken twice.
LEMMA ChainIsBelow ==
  ASSUME NEW D, NEW P, NEW f
  PROVE  IsChain(f, D, P) <=> IsBelow(f, D, P, P)
<1> DEFINE one == [x \in D \cup {0} |-> IF x = 0 THEN {} ELSE {x} \cup f[P[x]]]
           two == [x \in D \cup {0} |-> IF x = 0 THEN {} ELSE {x} \cup f[P[x]] \cup f[P[x]]]
<1>1. one = two
  OBVIOUS
<1> HIDE DEF one, two
<1>2. IsChain(f, D, P) <=> f = one
  BY Zenon DEF IsChain, one
<1>3. IsBelow(f, D, P, P) <=> f = two
  BY Zenon DEF IsBelow, two
<1> QED
  BY <1>1, <1>2, <1>3, Zenon

\* So Path is such a function too.
LEMMA PathIs ==
  ASSUME NEW t, NEW D, D = DOMAIN t.left, 0 \notin D, t.parent \in Links(D)
  PROVE  \E B : IsBelow(B, D, t.parent, t.parent) /\ \A n \in D \cup {0} : Path(t, n) = B[n]
<1> DEFINE B == CHOOSE f : IsChain(f, D, t.parent)
<1>1. \E f : IsBelow(f, D, t.parent, t.parent)
  BY BelowExists
<1>2. IsChain(B, D, t.parent)
  BY <1>1, ChainIsBelow, Zenon
<1>3. \A n : Path(t, n) = B[n]
  BY DEF Path, IsChain
<1> QED
  BY <1>2, <1>3, ChainIsBelow, Zenon

-----------------------------------------------------------------------------
(* Induction over the nodes of a tree, from below and from above.           *)

\* B gives each of the nodes of Q what is below it, and that is not the node.
Layered(Q, D, L, R, B) ==
  /\ Q \subseteq D /\ IsFiniteSet(D) /\ 0 \notin D
  /\ Closed(Q, L, R) /\ B[0] = {}
  /\ \A x \in Q : /\ B[x] \subseteq D /\ B[x] = {x} \cup B[L[x]] \cup B[R[x]]
                  /\ x \notin B[L[x]] /\ x \notin B[R[x]]

\* What is below a link has fewer nodes.
LEMMA FewerBelow ==
  ASSUME NEW Q, NEW D, NEW L, NEW R, NEW B, Layered(Q, D, L, R, B), NEW x \in Q,
         NEW c \in {L[x], R[x]}, c # 0
  PROVE  /\ Cardinality(B[c]) \in Nat /\ Cardinality(B[x]) \in Nat
         /\ Cardinality(B[c]) < Cardinality(B[x]) /\ c \in Q
<1>1. c \in Q
  BY DEF Layered, Closed
<1>2. B[c] \subseteq B[x] /\ B[c] # B[x] /\ B[x] \subseteq D
  BY DEF Layered
<1>3. IsFiniteSet(B[x])
  BY <1>2, FS_Subset DEF Layered
<1>4. IsFiniteSet(B[c])
  BY <1>2, <1>3, FS_Subset
<1>5. Cardinality(B[c]) \in Nat /\ Cardinality(B[x]) \in Nat
  BY <1>3, <1>4, FS_CardinalityType
<1>6. Cardinality(B[c]) <= Cardinality(B[x]) /\ Cardinality(B[c]) # Cardinality(B[x])
  BY <1>2, <1>3, FS_Subset
<1> QED
  BY <1>1, <1>5, <1>6

\* A set of nodes has one whose links are not in it,
LEMMA LowestIs ==
  ASSUME NEW Q, NEW D, NEW L, NEW R, NEW B, Layered(Q, D, L, R, B), NEW U, U \subseteq Q, U # {}
  PROVE  \E x \in U : L[x] \notin U /\ R[x] \notin U
<1> DEFINE T == {Cardinality(B[x]) : x \in U}
<1>1. \A x \in U : Cardinality(B[x]) \in Nat
  <2> TAKE x \in U
  <2>1. B[x] \subseteq D /\ IsFiniteSet(D)
    BY DEF Layered
  <2> QED
    BY <2>1, FS_Subset, FS_CardinalityType
<1>2. T \in SUBSET Nat /\ T # {}
  BY <1>1
<1>3. PICK n \in T : \A m \in T : n <= m
  BY <1>2, LeastIs
<1>4. PICK x \in U : n = Cardinality(B[x])
  BY <1>3
<1>5. ASSUME NEW c \in {L[x], R[x]}, c \in U PROVE FALSE
  <2>1. c # 0 /\ x \in Q
    BY <1>5 DEF Layered
  <2>2. Cardinality(B[c]) < Cardinality(B[x])
    BY <2>1, FewerBelow
  <2>3. Cardinality(B[c]) \in T
    BY <1>5
  <2> QED
    BY <2>2, <2>3, <1>1, <1>3, <1>4, <1>5
<1> QED
  BY <1>5

\* and one that is the link of none of it.
LEMMA HighestIs ==
  ASSUME NEW Q, NEW D, NEW L, NEW R, NEW B, Layered(Q, D, L, R, B), NEW U, U \subseteq Q, U # {}
  PROVE  \E x \in U : \A y \in U : L[y] # x /\ R[y] # x
<1> DEFINE C(x) == Cardinality(D) - Cardinality(B[x])
           T == {C(x) : x \in U}
<1>1. \A x \in U : Cardinality(B[x]) \in Nat /\ C(x) \in Nat
  <2> TAKE x \in U
  <2>1. B[x] \subseteq D /\ IsFiniteSet(D)
    BY DEF Layered
  <2> QED
    BY <2>1, FS_Subset, FS_CardinalityType
<1>0. Cardinality(D) \in Nat
  BY FS_CardinalityType DEF Layered
<1> HIDE DEF C
<1>2. T \in SUBSET Nat /\ T # {}
  BY <1>1
<1>3. PICK n \in T : \A m \in T : n <= m
  BY <1>2, LeastIs
<1>4. PICK x \in U : n = C(x)
  BY <1>3
<1>5. ASSUME NEW y \in U, x \in {L[y], R[y]} PROVE FALSE
  <2>1. x # 0 /\ y \in Q
    BY DEF Layered
  <2>2. Cardinality(B[x]) < Cardinality(B[y])
    BY <2>1, <1>5, FewerBelow
  <2>3. C(y) \in T
    BY <1>5
  <2>4. C(x) <= C(y)
    BY <2>3, <1>3, <1>4
  <2> QED
    BY <2>2, <2>4, <1>0, <1>1 DEF C
<1> QED
  BY <1>5

\* There is one such B.
LEMMA BelowIsUnique ==
  ASSUME NEW Q, NEW D, NEW L, NEW R, NEW B, Layered(Q, D, L, R, B),
         NEW G, G[0] = {}, \A x \in Q : G[x] = {x} \cup G[L[x]] \cup G[R[x]]
  PROVE  \A x \in Q \cup {0} : G[x] = B[x]
<1> DEFINE U == {x \in Q : G[x] # B[x]}
<1>0. U \subseteq Q
  OBVIOUS
<1>1. CASE U = {}
  BY <1>1 DEF Layered
<1>2. CASE U # {}
  <2>1. PICK x \in U : L[x] \notin U /\ R[x] \notin U
    <3> HIDE DEF U
    <3> QED
      BY <1>0, <1>2, LowestIs
  <2>2. L[x] \in Q \cup {0} /\ R[x] \in Q \cup {0}
    BY DEF Layered, Closed
  <2>3. G[L[x]] = B[L[x]] /\ G[R[x]] = B[R[x]]
    BY <2>1, <2>2 DEF Layered
  <2>4. B[x] = {x} \cup B[L[x]] \cup B[R[x]] /\ G[x] = {x} \cup G[L[x]] \cup G[R[x]]
    BY DEF Layered
  <2>5. G[x] = B[x]
    BY <2>3, <2>4
  <2> QED
    BY <2>5
<1> QED
  BY <1>1, <1>2

\* What is below a node has below it only what is below the node.
LEMMA BelowBelow ==
  ASSUME NEW Q, NEW D, NEW L, NEW R, NEW B, Layered(Q, D, L, R, B), NEW x \in Q, NEW y \in B[x]
  PROVE  y \in Q /\ B[y] \subseteq B[x]
<1> DEFINE U == {z \in Q : \E w \in B[z] : ~(w \in Q /\ B[w] \subseteq B[z])}
<1>0. U \subseteq Q
  OBVIOUS
<1>1. ASSUME U # {} PROVE FALSE
  <2>1. PICK z \in U : L[z] \notin U /\ R[z] \notin U
    <3> HIDE DEF U
    <3> QED
      BY <1>0, <1>1, LowestIs
  <2>2. L[z] \in Q \cup {0} /\ R[z] \in Q \cup {0} /\ B[z] = {z} \cup B[L[z]] \cup B[R[z]] /\ B[0] = {}
    BY DEF Layered, Closed
  <2>3. \A c \in {L[z], R[z]} : \A w \in B[c] : w \in Q /\ B[w] \subseteq B[c]
    BY <2>1, <2>2
  <2> QED
    BY <2>2, <2>3
<1> QED
  BY <1>1

-----------------------------------------------------------------------------
(* Chains: functions that follow a link to its end.                        *)

\* f of a node is v at the end of its chain.
Follows(f, D, link, v) ==
  f = [x \in D |-> f[x]] /\ \A x \in D : f[x] = IF link[x] = 0 THEN v[x] ELSE f[link[x]]

\* There is such a function: take the last node that a chain reaches, if any.
LEMMA ChainExists ==
  ASSUME NEW D, 0 \notin D, NEW link \in Links(D), NEW v
  PROVE  \E f : Follows(f, D, link, v)
<1> DEFINE E(x) == {y \in Reaches(D, link, link, x) : link[y] = 0}
           w(x) == v[CHOOSE y \in E(x) : TRUE]
           f == [x \in D |-> w(x)]
<1>1. f = [x \in D |-> f[x]]
  <2> HIDE DEF w
  <2> QED
    OBVIOUS
<1>2. ASSUME NEW x \in D PROVE f[x] = IF link[x] = 0 THEN v[x] ELSE f[link[x]]
  <2>1. Reaches(D, link, link, x) = {x} \cup Reaches(D, link, link, link[x]) \cup Reaches(D, link, link, link[x])
    BY ReachesIs
  <2>2. CASE link[x] = 0
    <3>1. Reaches(D, link, link, link[x]) = {}
      BY <2>2 DEF Reaches
    <3>2. E(x) = {x}
      BY <2>1, <2>2, <3>1
    <3> HIDE DEF E
    <3>3. w(x) = v[x]
      BY <3>2
    <3>4. f[x] = w(x)
      BY Zenon
    <3> QED
      BY <2>2, <3>3, <3>4, Zenon
  <2>3. CASE link[x] # 0
    <3>1. link[x] \in D
      BY <2>3 DEF Links
    <3>2. E(x) = E(link[x])
      BY <2>1, <2>3
    <3>3. f[x] = v[CHOOSE y \in E(x) : TRUE] /\ f[link[x]] = v[CHOOSE y \in E(link[x]) : TRUE]
      BY <3>1, Zenon
    <3> QED
      BY <2>3, <3>2, <3>3, Zenon
  <2> QED
    BY <2>2, <2>3
<1> QED
  BY <1>1, <1>2, Zenon DEF Follows

\* The loops of rbtree.c that follow a link follow it: the one down a side,
LEMMA DownIs ==
  ASSUME NEW D, 0 \notin D, NEW link \in Links(D)
  PROVE  \A x \in D : Down(link, x) = IF link[x] = 0 THEN x ELSE Down(link, link[x])
<1> DEFINE Ends(f) == f = [x \in DOMAIN link |-> IF link[x] = 0 THEN x ELSE f[link[x]]]
           end == CHOOSE f : Ends(f)
           v == [x \in D |-> x]
<1>0. DOMAIN link = D
  BY DEF Links
<1>1. \E f : Ends(f)
  <2>1. PICK f : Follows(f, D, link, v)
    <3> HIDE DEF v
    <3> QED
      BY ChainExists, Zenon
  <2>2. \A x \in D : f[x] = IF link[x] = 0 THEN x ELSE f[link[x]]
    BY <2>1 DEF Follows
  <2>3. f = [x \in D |-> IF link[x] = 0 THEN x ELSE f[link[x]]]
    BY <2>1, <2>2, Zenon DEF Follows
  <2> QED
    BY <1>0, <2>3, Zenon
<1>2. Ends(end)
  BY <1>1, Zenon
<1>3. \A x \in D : end[x] = IF link[x] = 0 THEN x ELSE end[link[x]]
  BY <1>0, <1>2, Zenon
<1>4. \A n : Down(link, n) = end[n]
  BY DEF Down
<1> HIDE DEF end
<1> QED
  BY <1>3, <1>4, Zenon

\* the one up while the node is the child on a side,
LEMMA AboveIs ==
  ASSUME NEW t, NEW D, 0 \notin D, t.parent \in Links(D), NEW side \in Links(D)
  PROVE  \A x \in D : Above(t, side, x) =
           IF t.parent[x] # 0 /\ side[t.parent[x]] = x THEN Above(t, side, t.parent[x]) ELSE t.parent[x]
<1> DEFINE P == t.parent
           Ends(f) == f = [x \in DOMAIN side |-> IF t.parent[x] # 0 /\ side[t.parent[x]] = x
                                                 THEN f[t.parent[x]] ELSE t.parent[x]]
           up == CHOOSE f : Ends(f)
           link == [x \in D |-> IF P[x] # 0 /\ side[P[x]] = x THEN P[x] ELSE 0]
<1>0. DOMAIN side = D
  BY DEF Links
<1>1. \E f : Ends(f)
  <2>1. link \in Links(D)
    BY DEF Links
  <2>2. PICK f : Follows(f, D, link, P)
    <3> HIDE DEF link
    <3> QED
      BY <2>1, ChainExists, Zenon
  <2>3. \A x \in D : f[x] = IF P[x] # 0 /\ side[P[x]] = x THEN f[P[x]] ELSE P[x]
    BY <2>2 DEF Follows
  <2>4. f = [x \in D |-> IF P[x] # 0 /\ side[P[x]] = x THEN f[P[x]] ELSE P[x]]
    BY <2>2, <2>3, Zenon DEF Follows
  <2> QED
    BY <1>0, <2>4, Zenon
<1>2. Ends(up)
  BY <1>1, Zenon
<1>3. \A x \in D : up[x] = IF t.parent[x] # 0 /\ side[t.parent[x]] = x THEN up[t.parent[x]] ELSE t.parent[x]
  BY <1>0, <1>2, Zenon
<1>4. \A n : Above(t, side, n) = up[n]
  BY DEF Above
<1> HIDE DEF up
<1> QED
  BY <1>3, <1>4, Zenon

\* and the search for the place of a key.
LEMMA PlaceIs ==
  ASSUME NEW t, NEW D, 0 \notin D, t.left \in Links(D), t.right \in Links(D), NEW n
  PROVE  \E f : /\ Place(t, n) = f[t.root]
                /\ \A x \in D : \E c \in {t.left[x], t.right[x]} : f[x] = IF c = 0 THEN x ELSE f[c]
<1> DEFINE side(x) == IF n < x THEN t.left[x] ELSE t.right[x]
           Ends(f) == f = [x \in DOMAIN t.left |-> IF side(x) = 0 THEN x ELSE f[side(x)]]
           end == CHOOSE f : Ends(f)
           link == [x \in D |-> side(x)]
           v == [x \in D |-> x]
<1>0. DOMAIN t.left = D
  BY DEF Links
<1>1. \E f : Ends(f)
  <2>1. link \in Links(D)
    BY DEF Links
  <2>2. PICK f : Follows(f, D, link, v)
    <3> HIDE DEF link, v
    <3> QED
      BY <2>1, ChainExists, Zenon
  <2>3. \A x \in D : f[x] = IF side(x) = 0 THEN x ELSE f[side(x)]
    BY <2>2 DEF Follows
  <2> HIDE DEF side
  <2>4. f = [x \in D |-> IF side(x) = 0 THEN x ELSE f[side(x)]]
    BY <2>2, <2>3, Zenon DEF Follows
  <2> QED
    BY <1>0, <2>4, Zenon
<1>2. Ends(end)
  BY <1>1, Zenon
<1>3. \A x \in D : end[x] = IF side(x) = 0 THEN x ELSE end[side(x)]
  BY <1>0, <1>2, Zenon
<1>4. Place(t, n) = end[t.root]
  BY DEF Place
<1>5. \A x : side(x) \in {t.left[x], t.right[x]}
  OBVIOUS
<1> HIDE DEF end, side
<1>6. \A x \in D : \E c \in {t.left[x], t.right[x]} : end[x] = IF c = 0 THEN x ELSE end[c]
  BY <1>3, <1>5
<1> QED
  BY <1>4, <1>6, Zenon

-----------------------------------------------------------------------------
(* Search trees.  K gives the order of the nodes: the keys or, seen from    *)
(* the other side, the keys with the other sign.                           *)

\* Everything the assumption gives of a tree, in these terms.
SortedTree(D, L, R, P, K, B) ==
  /\ Layered(D, D, L, R, B)
  /\ L \in Links(D) /\ R \in Links(D) /\ P \in Links(D)
  /\ K \in [D -> Int] /\ \A x, y \in D : K[x] = K[y] => x = y
  /\ \A x \in D : (\A y \in B[L[x]] : K[y] < K[x]) /\ (\A y \in B[R[x]] : K[x] < K[y])
  /\ \A x, y \in D : P[x] = y <=> L[y] = x \/ R[y] = x

\* What every proof about them starts from.
LEMMA TreeFacts ==
  ASSUME NEW D, NEW L, NEW R, NEW P, NEW K, NEW B, SortedTree(D, L, R, P, K, B)
  PROVE  /\ Layered(D, D, L, R, B) /\ 0 \notin D /\ B[0] = {} /\ IsFiniteSet(D)
         /\ \A x \in D : /\ L[x] \in D \cup {0} /\ R[x] \in D \cup {0} /\ P[x] \in D \cup {0}
                         /\ K[x] \in Int /\ B[x] \subseteq D /\ x \in B[x]
                         /\ B[x] = {x} \cup B[L[x]] \cup B[R[x]]
                         /\ \A y \in B[x] : B[y] \subseteq B[x]
                         /\ \A y \in B[L[x]] : K[y] < K[x]
                         /\ \A y \in B[R[x]] : K[x] < K[y]
<1>1. \A x \in D : \A y \in B[x] : B[y] \subseteq B[x]
  BY BelowBelow DEF SortedTree
<1> QED
  BY <1>1 DEF SortedTree, Layered, Links

\* The end of the links to the left is the least node.
LEMMA LeastBelow ==
  ASSUME NEW D, NEW L, NEW R, NEW P, NEW K, NEW B, SortedTree(D, L, R, P, K, B), NEW x \in D
  PROVE  /\ Down(L, x) \in B[x] /\ L[Down(L, x)] = 0
         /\ \A y \in B[x] : K[Down(L, x)] <= K[y]
<1> DEFINE Least(z) == /\ Down(L, z) \in B[z] /\ L[Down(L, z)] = 0
                       /\ \A y \in B[z] : K[Down(L, z)] <= K[y]
           U == {z \in D : ~Least(z)}
<1>1. ASSUME U # {} PROVE FALSE
  <2>1. PICK z \in U : L[z] \notin U /\ R[z] \notin U
    <3>1. U \subseteq D
      OBVIOUS
    <3> HIDE DEF U
    <3> QED
      BY <1>1, <3>1, TreeFacts, LowestIs
  <2>2. z \in D
    OBVIOUS
  <2>3. Down(L, z) = IF L[z] = 0 THEN z ELSE Down(L, L[z])
    BY <2>2, DownIs, TreeFacts DEF SortedTree
  <2>4. /\ B[0] = {} /\ L[z] \in D \cup {0} /\ B[z] \subseteq D /\ B[z] = {z} \cup B[L[z]] \cup B[R[z]]
        /\ \A y \in B[L[z]] : K[y] < K[z]
        /\ \A y \in B[R[z]] : K[z] < K[y]
        /\ \A y \in D : K[y] \in Int
    BY <2>2, TreeFacts
  <2>5. CASE L[z] = 0
    BY <2>2, <2>3, <2>4, <2>5
  <2>6. CASE L[z] # 0
    <3>1. Least(L[z])
      BY <2>1, <2>4, <2>6
    <3>2. \A y \in B[z] : K[Down(L, z)] <= K[y]
      <4> TAKE y \in B[z]
      <4> DEFINE d == Down(L, L[z])
      <4>1. d \in B[L[z]] /\ d \in D /\ K[d] < K[z] /\ Down(L, z) = d /\ \A v \in B[L[z]] : K[d] <= K[v]
        BY <2>3, <2>4, <2>6, <3>1
      <4> HIDE DEF d
      <4> QED
        BY <4>1, <2>2, <2>4
    <3> QED
      BY <2>3, <2>4, <2>6, <3>1, <3>2
  <2> QED
    BY <2>5, <2>6
<1> QED
  BY <1>1

\* The parents of what is below a node are below it, up to the node.
LEMMA ParentsBelow ==
  ASSUME NEW D, NEW L, NEW R, NEW P, NEW K, NEW B, SortedTree(D, L, R, P, K, B),
         NEW x \in D, NEW y \in B[x], y # x
  PROVE  P[y] \in B[x]
<1> DEFINE U == {z \in D : \E w \in B[z] : w # z /\ P[w] \notin B[z]}
<1>1. ASSUME U # {} PROVE FALSE
  <2>1. PICK z \in U : L[z] \notin U /\ R[z] \notin U
    <3>1. U \subseteq D
      OBVIOUS
    <3> HIDE DEF U
    <3> QED
      BY <1>1, <3>1, TreeFacts, LowestIs
  <2>2. PICK w \in B[z] : w # z /\ P[w] \notin B[z]
    OBVIOUS
  <2>3. /\ z \in D /\ z \in B[z] /\ B[0] = {} /\ L[z] \in D \cup {0} /\ R[z] \in D \cup {0}
        /\ B[z] = {z} \cup B[L[z]] \cup B[R[z]] /\ B[z] \subseteq D
    BY TreeFacts
  <2>4. PICK c \in {L[z], R[z]} : w \in B[c] /\ c \in D
    BY <2>2, <2>3
  <2>5. CASE w = c
    <3>1. P[w] = z
      BY <2>3, <2>4, <2>5 DEF SortedTree
    <3> QED
      BY <3>1, <2>2, <2>3
  <2>6. CASE w # c
    <3>1. P[w] \in B[c]
      BY <2>1, <2>4, <2>6
    <3> QED
      BY <3>1, <2>2, <2>3, <2>4
  <2> QED
    BY <2>5, <2>6
<1> QED
  BY <1>1

\* What a climb out of x finds among the nodes N: the least that is above all that
\* is below x, or 0 if nothing is.
IsAbove(N, K, B, x, u) ==
  IF u = 0 THEN \A y \in N \ B[x] : \A z \in B[x] : K[y] < K[z]
  ELSE /\ u \in N /\ \A z \in B[x] : K[z] < K[u]
       /\ \A y \in N \ B[x] : K[u] <= K[y] \/ \A z \in B[x] : K[y] < K[z]

\* The climb over right links ends at the least node above the subtree.
LEMMA ClimbIs ==
  ASSUME NEW D, NEW L, NEW R, NEW P, NEW K, NEW B, SortedTree(D, L, R, P, K, B),
         NEW r \in D, P[r] = 0, NEW f,
         \A x \in D : f[x] = IF P[x] # 0 /\ R[P[x]] = x THEN f[P[x]] ELSE P[x]
  PROVE  \A x \in B[r] : IsAbove(B[r], K, B, x, f[x])
<1> DEFINE N == B[r]
           U == {x \in N : ~IsAbove(N, K, B, x, f[x])}
<1>0. N \subseteq D /\ r \in N /\ \A x \in N : B[x] \subseteq N
  BY TreeFacts
<1>1. ASSUME U # {} PROVE FALSE
  <2>1. PICK x \in U : \A y \in U : L[y] # x /\ R[y] # x
    <3>1. U \subseteq D
      BY <1>0
    <3> HIDE DEF U
    <3> QED
      BY <1>1, <3>1, TreeFacts, HighestIs
  <2>2. x \in N /\ x \in D /\ ~IsAbove(N, K, B, x, f[x])
    BY <1>0
  <2>3. CASE x = r
    <3>1. f[x] = 0 /\ N \ B[x] = {}
      BY <2>2, <2>3
    <3> QED
      BY <2>2, <3>1 DEF IsAbove
  <2>4. CASE x # r
    <3> DEFINE p == P[x]
    <3>1. p \in N /\ p \in D /\ p # 0
      BY <1>0, <2>2, <2>4, ParentsBelow, TreeFacts
    <3>2. L[p] = x \/ R[p] = x
      BY <2>2, <3>1 DEF SortedTree
    <3>3. IsAbove(N, K, B, p, f[p])
      <4>1. p \notin U
        BY <2>1, <3>2
      <4> QED
        BY <3>1, <4>1
    <3> HIDE DEF p, N
    <3>4. /\ B[p] = {p} \cup B[L[p]] \cup B[R[p]] /\ B[x] \subseteq B[p] /\ B[p] \subseteq D
          /\ \A y \in B[L[p]] : K[y] < K[p]
          /\ \A y \in B[R[p]] : K[p] < K[y]
          /\ \A y \in D : K[y] \in Int
          /\ N \subseteq D
      BY <1>0, <3>1, <3>2, TreeFacts
    <3>5. CASE R[p] # x
      <4>1. L[p] = x /\ f[x] = p
        BY <2>2, <3>2, <3>5 DEF p
      <4>2. \A z \in B[x] : K[z] < K[p]
        BY <3>4, <4>1
      <4>3. ASSUME NEW y \in N \ B[x] PROVE K[p] <= K[y] \/ \A z \in B[x] : K[y] < K[z]
        <5>1. CASE y \in B[p]
          BY <3>4, <4>1, <4>3, <5>1
        <5>2. CASE y \notin B[p]
          <6>1. CASE f[p] = 0
            BY <3>3, <3>4, <4>3, <5>2, <6>1 DEF IsAbove
          <6>2. CASE f[p] # 0
            <7>1. f[p] \in D /\ K[p] < K[f[p]] /\ p \in B[p]
              BY <3>3, <3>4, <6>2 DEF IsAbove
            <7>2. K[f[p]] <= K[y] \/ \A z \in B[p] : K[y] < K[z]
              BY <3>3, <4>3, <5>2, <6>2 DEF IsAbove
            <7>3. y \in D /\ K[y] \in Int /\ K[p] \in Int /\ K[f[p]] \in Int
              BY <3>4, <3>1, <7>1, <4>3
            <7> QED
              BY <3>4, <7>1, <7>2, <7>3
          <6> QED
            BY <6>1, <6>2
        <5> QED
          BY <5>1, <5>2
      <4> QED
        BY <2>2, <3>1, <4>1, <4>2, <4>3 DEF IsAbove
    <3>6. CASE R[p] = x
      <4>1. f[x] = f[p]
        BY <2>2, <3>1, <3>6 DEF p
      <4>2. \A y \in N \ B[x] : y \in B[p] => \A z \in B[x] : K[y] < K[z]
        <5> TAKE y \in N \ B[x]
        <5> HAVE y \in B[p]
        <5> TAKE z \in B[x]
        <5>1. y = p \/ y \in B[L[p]]
          BY <3>4, <3>6
        <5>2. K[p] < K[z] /\ K[y] \in Int /\ K[z] \in Int /\ K[p] \in Int
          BY <3>1, <3>4, <3>6
        <5> QED
          BY <3>4, <5>1, <5>2
      <4>3. CASE f[p] = 0
        <5>1. \A y \in N \ B[p] : \A z \in B[p] : K[y] < K[z]
          BY <3>3, <4>3 DEF IsAbove
        <5>2. \A y \in N \ B[x] : \A z \in B[x] : K[y] < K[z]
          BY <3>4, <4>2, <5>1
        <5> QED
          BY <2>2, <4>1, <4>3, <5>2 DEF IsAbove
      <4>4. CASE f[p] # 0
        <5>1. /\ f[p] \in N /\ \A z \in B[p] : K[z] < K[f[p]]
              /\ \A y \in N \ B[p] : K[f[p]] <= K[y] \/ \A z \in B[p] : K[y] < K[z]
          BY <3>3, <4>4 DEF IsAbove
        <5>2. /\ \A z \in B[x] : K[z] < K[f[p]]
              /\ \A y \in N \ B[x] : K[f[p]] <= K[y] \/ \A z \in B[x] : K[y] < K[z]
          BY <3>4, <4>2, <5>1
        <5> QED
          BY <2>2, <4>1, <4>4, <5>1, <5>2 DEF IsAbove
      <4> QED
        BY <4>3, <4>4
    <3> QED
      BY <3>5, <3>6
  <2> QED
    BY <2>3, <2>4
<1> QED
  BY <1>1

\* The node behind x among those of N, or 0.
IsNext(N, K, x, y) ==
  IF \E z \in N : K[x] < K[z]
  THEN y \in N /\ K[x] < K[y] /\ \A z \in N : K[x] < K[z] => K[y] <= K[z]
  ELSE y = 0

\* rb_next: the lowest of the right subtree or, without one, the end of the climb.
LEMMA NextIs ==
  ASSUME NEW D, NEW L, NEW R, NEW P, NEW K, NEW B, SortedTree(D, L, R, P, K, B),
         NEW r \in D, P[r] = 0, NEW f,
         \A x \in D : f[x] = IF P[x] # 0 /\ R[P[x]] = x THEN f[P[x]] ELSE P[x],
         NEW x \in B[r]
  PROVE  IsNext(B[r], K, x, IF R[x] # 0 THEN Down(L, R[x]) ELSE f[x])
<1> DEFINE N == B[r]
<1>0. N \subseteq D /\ x \in N /\ x \in D /\ B[x] \subseteq N
  BY TreeFacts
<1>1. IsAbove(N, K, B, x, f[x])
  BY ClimbIs
<1> HIDE DEF N
<1>2. /\ B[0] = {} /\ B[x] = {x} \cup B[L[x]] \cup B[R[x]] /\ R[x] \in D \cup {0}
      /\ \A y \in B[L[x]] : K[y] < K[x]
      /\ \A y \in B[R[x]] : K[x] < K[y]
      /\ \A y \in D : K[y] \in Int
  BY <1>0, TreeFacts
<1>3. CASE R[x] # 0
  <2> DEFINE d == Down(L, R[x])
  <2>1. d \in B[R[x]] /\ \A y \in B[R[x]] : K[d] <= K[y]
    BY <1>2, <1>3, LeastBelow
  <2> HIDE DEF d
  <2>2. d \in N /\ d \in D /\ d \in B[x] /\ K[x] < K[d]
    BY <1>0, <1>2, <2>1
  <2>3. ASSUME NEW z \in N, K[x] < K[z] PROVE K[d] <= K[z]
    <3>1. K[z] \in Int /\ K[x] \in Int /\ K[d] \in Int
      BY <1>0, <1>2, <2>2
    <3>2. CASE z \in B[x]
      BY <1>2, <2>1, <2>3, <3>1, <3>2
    <3>3. CASE z \notin B[x]
      <4>1. ~ \A v \in B[x] : K[z] < K[v]
        BY <1>2, <2>3, <3>1
      <4>2. f[x] # 0 /\ K[f[x]] <= K[z] /\ K[d] < K[f[x]] /\ f[x] \in N
        BY <1>1, <2>2, <2>3, <3>3, <4>1 DEF IsAbove
      <4>3. K[f[x]] \in Int
        BY <1>0, <1>2, <4>2
      <4> QED
        BY <3>1, <4>2, <4>3
    <3> QED
      BY <3>2, <3>3
  <2>4. IsNext(N, K, x, d)
    BY <2>2, <2>3 DEF IsNext
  <2> QED
    BY <1>3, <2>4 DEF N, d
<1>4. CASE R[x] = 0
  <2>1. ASSUME NEW z \in N, K[x] < K[z] PROVE z \notin B[x] /\ ~ \A v \in B[x] : K[z] < K[v]
    BY <1>0, <1>2, <1>4, <2>1
  <2>2. CASE f[x] = 0
    <3>1. \A z \in N : ~(K[x] < K[z])
      BY <1>1, <2>1, <2>2 DEF IsAbove
    <3>2. IsNext(N, K, x, f[x])
      BY <2>2, <3>1 DEF IsNext
    <3> QED
      BY <1>4, <3>2 DEF N
  <2>3. CASE f[x] # 0
    <3>1. f[x] \in N /\ K[x] < K[f[x]] /\ \A z \in N : K[x] < K[z] => K[f[x]] <= K[z]
      BY <1>1, <1>2, <2>1, <2>3 DEF IsAbove
    <3>2. IsNext(N, K, x, f[x])
      BY <3>1 DEF IsNext
    <3> QED
      BY <1>4, <3>2 DEF N
  <2> QED
    BY <2>2, <2>3
<1> QED
  BY <1>3, <1>4

\* The steps of a walk.
Steps(w, from, next, n) == \A k \in 1..n + 1 : w[k] = IF k = 1 THEN from ELSE next[w[k - 1]]

\* There are such steps,
LEMMA StepsExist ==
  ASSUME NEW V, NEW from \in V, NEW next \in [V -> V], NEW n \in Nat
  PROVE  \E w \in [1..n + 1 -> V] : Steps(w, from, next, n)
<1> DEFINE Made(m) == \E w \in [1..m + 1 -> V] : Steps(w, from, next, m)
           T == {m \in Nat : ~Made(m)}
<1>1. ASSUME T # {} PROVE FALSE
  <2>1. PICK m \in T : \A k \in T : m <= k
    BY <1>1, LeastIs
  <2>2. m \in Nat /\ ~Made(m)
    OBVIOUS
  <2>3. CASE m = 0
    <3> DEFINE w == [k \in 1..m + 1 |-> from]
    <3>1. w \in [1..m + 1 -> V] /\ Steps(w, from, next, m)
      BY <2>3 DEF Steps
    <3> QED
      BY <2>2, <3>1
  <2>4. CASE m # 0
    <3>1. m - 1 \in Nat /\ (m - 1) + 1 = m /\ ~(m <= m - 1)
      BY <2>2, <2>4
    <3>2. Made(m - 1)
      BY <2>1, <3>1
    <3>3. PICK u \in [1..m -> V] : Steps(u, from, next, m - 1)
      BY <3>1, <3>2
    <3>4. \A k \in 1..m : u[k] = IF k = 1 THEN from ELSE next[u[k - 1]]
      BY <3>1, <3>3 DEF Steps
    <3> DEFINE w == [k \in 1..m + 1 |-> IF k <= m THEN u[k] ELSE next[u[m]]]
    <3>5. w \in [1..m + 1 -> V]
      <4>1. m \in 1..m /\ u[m] \in V /\ next[u[m]] \in V
        BY <2>2, <2>4
      <4>2. \A k \in 1..m + 1 : k <= m => k \in 1..m
        BY <2>2
      <4> QED
        BY <4>1, <4>2
    <3>6. \A k \in 1..m + 1 : w[k] = IF k = 1 THEN from ELSE next[w[k - 1]]
      <4> TAKE k \in 1..m + 1
      <4>1. CASE k = 1
        BY <2>2, <2>4, <3>4, <4>1
      <4>2. CASE k # 1
        <5>1. k - 1 \in 1..m /\ w[k - 1] = u[k - 1]
          BY <2>2, <4>2
        <5>2. CASE k <= m
          <6>1. k \in 1..m /\ w[k] = u[k]
            BY <5>2
          <6> QED
            BY <3>4, <4>2, <5>1, <6>1
        <5>3. CASE ~(k <= m)
          BY <2>2, <4>2, <5>1, <5>3
        <5> QED
          BY <5>2, <5>3
      <4> QED
        BY <4>1, <4>2
    <3> HIDE DEF w
    <3> QED
      BY <2>2, <3>5, <3>6 DEF Steps
  <2> QED
    BY <2>3, <2>4
<1>2. Made(n)
  BY <1>1
<1> QED
  BY <1>2

\* and Walk takes them.
LEMMA WalkIs ==
  ASSUME NEW V, NEW from \in V, NEW next \in [V -> V], NEW n \in Nat
  PROVE  Walk(from, next, n) \in [1..n + 1 -> V] /\ Steps(Walk(from, next, n), from, next, n)
<1> DEFINE Made(w) == w = [k \in 1..n + 1 |-> IF k = 1 THEN from ELSE next[w[k - 1]]]
           walk == CHOOSE w : Made(w)
<1>1. \E w : Made(w)
  <2>1. PICK w \in [1..n + 1 -> V] : Steps(w, from, next, n)
    BY StepsExist
  <2>2. w = [k \in 1..n + 1 |-> w[k]]
    OBVIOUS
  <2>3. Made(w)
    BY <2>1, <2>2, Zenon DEF Steps
  <2> QED
    BY <2>3, Zenon
<1>2. Made(walk)
  BY <1>1, Zenon
<1>3. Walk(from, next, n) = walk
  BY DEF Walk
<1>4. \A k \in 1..n + 1 : walk[k] = IF k = 1 THEN from ELSE next[walk[k - 1]]
  BY <1>2, Zenon
<1>5. walk = [k \in 1..n + 1 |-> IF k = 1 THEN from ELSE next[walk[k - 1]]]
  BY <1>2, Zenon
<1> HIDE DEF walk
<1>6. \A k \in 1..n + 1 : walk[k] \in V
  <2> DEFINE T == {k \in 1..n + 1 : walk[k] \notin V}
  <2>1. ASSUME T # {} PROVE FALSE
    <3>1. T \in SUBSET Nat
      OBVIOUS
    <3>2. PICK k \in T : \A m \in T : k <= m
      <4> HIDE DEF T
      <4> QED
        BY <2>1, <3>1, LeastIs
    <3>3. CASE k = 1
      BY <1>4, <3>3
    <3>4. CASE k # 1
      <4>1. k - 1 \in 1..n + 1 /\ ~(k <= k - 1)
        BY <3>4
      <4>2. walk[k - 1] \in V
        BY <3>2, <4>1
      <4> QED
        BY <1>4, <3>4, <4>2
    <3> QED
      BY <3>3, <3>4
  <2> QED
    BY <2>1
<1>7. walk \in [1..n + 1 -> V]
  <2>1. [k \in 1..n + 1 |-> IF k = 1 THEN from ELSE next[walk[k - 1]]] \in [1..n + 1 -> V]
    BY <1>4, <1>6
  <2> QED
    BY <1>5, <2>1, Zenon
<1> QED
  BY <1>3, <1>4, <1>7, Zenon DEF Steps

\* A walk from the least node is in the order of the nodes and meets them all.
InOrder(w, N, K, n) ==
  LET c == Cardinality(N)
  IN /\ {w[k] : k \in 1..c} = N
     /\ \A k \in 1..n : IF k < c THEN w[k] \in N /\ w[k + 1] \in N /\ K[w[k]] < K[w[k + 1]]
                        ELSE w[k + 1] = 0

\* A walk that starts at the least node and goes to the next each time meets all
\* of them: of those met so far none is missing below the last.
LEMMA WalkIsInOrder ==
  ASSUME NEW D, IsFiniteSet(D), 0 \notin D, NEW N, N \subseteq D,
         NEW K \in [D -> Int], \A x, y \in D : K[x] = K[y] => x = y,
         NEW next, next[0] = 0, \A x \in N : IsNext(N, K, x, next[x]),
         NEW from, IF N = {} THEN from = 0 ELSE from \in N /\ \A y \in N : K[from] <= K[y],
         NEW n \in Nat, Cardinality(N) <= n, NEW w, Steps(w, from, next, n)
  PROVE  InOrder(w, N, K, n)
<1> DEFINE c == Cardinality(N)
           Met(k) == {w[i] : i \in 1..k}
           Low(k) == {y \in N : K[y] <= K[w[k]]}
           Good(k) == w[k] \in N /\ Met(k) = Low(k) /\ Cardinality(Met(k)) = k
           T == {k \in 1..c : ~Good(k)}
<1>0. /\ IsFiniteSet(N) /\ c \in Nat /\ c <= n
  BY FS_Subset, FS_CardinalityType
<1>1. \A y \in N : K[y] \in Int
  OBVIOUS
<1>2. \A k \in 1..n + 1 : w[k] = IF k = 1 THEN from ELSE next[w[k - 1]]
  BY DEF Steps
<1>3. ASSUME NEW k \in 1..c, Good(k), k < c
      PROVE  w[k + 1] \in N /\ K[w[k]] < K[w[k + 1]] /\ Good(k + 1)
  <2>1. k + 1 \in 1..n + 1 /\ k + 1 # 1 /\ (k + 1) - 1 = k /\ k \in Nat
    BY <1>0, <1>3
  <2>2. w[k + 1] = next[w[k]]
    BY <1>2, <2>1
  <2>3. PICK z \in N : z \notin Met(k)
    <3>1. Met(k) # N
      <4> HIDE DEF Met
      <4>1. Cardinality(Met(k)) = k /\ k < Cardinality(N) /\ k \in Int
        BY <1>3
      <4> QED
        BY <4>1
    <3>2. Met(k) \subseteq N
      <4> HIDE DEF Met
      <4> QED
        BY <1>3
    <3> HIDE DEF Met
    <3> QED
      BY <3>1, <3>2
  <2>4. K[w[k]] < K[z]
    <3>1. z \notin Low(k)
      BY <1>3, <2>3
    <3> QED
      BY <1>1, <1>3, <3>1
  <2>5. w[k + 1] \in N /\ K[w[k]] < K[w[k + 1]] /\ \A v \in N : K[w[k]] < K[v] => K[w[k + 1]] <= K[v]
    BY <1>3, <2>2, <2>4 DEF IsNext
  <2>6. Met(k + 1) = Met(k) \cup {w[k + 1]}
    <3>1. 1..k + 1 = (1..k) \cup {k + 1}
      BY <2>1
    <3> QED
      BY <3>1
  <2>7. Low(k + 1) = Low(k) \cup {w[k + 1]}
    <3>1. \A y \in N : K[y] <= K[w[k + 1]] <=> K[y] <= K[w[k]] \/ y = w[k + 1]
      <4> TAKE y \in N
      <4>1. /\ K[y] \in Int /\ K[w[k]] \in Int /\ K[w[k + 1]] \in Int /\ w[k] \in N /\ w[k + 1] \in N
            /\ K[y] = K[w[k + 1]] => y = w[k + 1]
        BY <1>1, <1>3, <2>5
      <4>2. K[w[k]] < K[y] => K[w[k + 1]] <= K[y]
        BY <2>5
      <4> QED
        BY <2>5, <4>1, <4>2
    <3> QED
      BY <2>5, <3>1
  <2>8. w[k + 1] \notin Met(k)
    <3>1. w[k + 1] \notin Low(k)
      BY <1>1, <1>3, <2>5
    <3> QED
      BY <1>3, <3>1
  <2>9. Cardinality(Met(k + 1)) = k + 1
    <3>1. Met(k) \subseteq N
      <4> HIDE DEF Met
      <4> QED
        BY <1>3
    <3> HIDE DEF Met
    <3>2. IsFiniteSet(Met(k))
      BY <1>0, <3>1, FS_Subset
    <3>3. Cardinality(Met(k) \cup {w[k + 1]}) = Cardinality(Met(k)) + 1
      BY <2>8, <3>2, FS_AddElement
    <3> QED
      BY <1>3, <2>6, <3>3
  <2> HIDE DEF Met, Low
  <2>10. Met(k) = Low(k)
    BY <1>3
  <2> QED
    BY <2>5, <2>6, <2>7, <2>9, <2>10
<1>4. ASSUME T # {} PROVE FALSE
  <2>1. T \in SUBSET Nat
    BY <1>0
  <2>2. PICK k \in T : \A m \in T : k <= m
    <3> HIDE DEF T
    <3> QED
      BY <1>4, <2>1, LeastIs
  <2>3. k \in 1..c /\ ~Good(k)
    OBVIOUS
  <2>4. CASE k = 1
    <3>1. N # {} /\ 1 \in 1..n + 1
      <4>1. c # 0
        BY <2>3, <1>0
      <4> QED
        BY <4>1, <1>0, FS_EmptySet
    <3>2. w[1] = from /\ from \in N /\ \A y \in N : K[from] <= K[y]
      BY <1>2, <3>1
    <3>3. Met(1) = {from}
      <4>1. 1..1 = {1}
        OBVIOUS
      <4> QED
        BY <3>2, <4>1
    <3>4. Low(1) = {from}
      <4>1. \A y \in N : K[y] <= K[from] <=> y = from
        BY <1>1, <3>2
      <4> QED
        BY <3>2, <4>1
    <3>5. Cardinality({from}) = 1
      BY FS_Singleton
    <3> HIDE DEF Met, Low
    <3> QED
      BY <2>3, <2>4, <3>2, <3>3, <3>4, <3>5
  <2>5. CASE k # 1
    <3>1. k - 1 \in 1..c /\ k - 1 < c /\ (k - 1) + 1 = k /\ ~(k <= k - 1)
      BY <1>0, <2>3, <2>5
    <3>2. k - 1 \notin T
      BY <2>2, <3>1
    <3> HIDE DEF Good
    <3>3. Good(k - 1)
      BY <3>1, <3>2
    <3>4. Good((k - 1) + 1)
      BY <1>3, <3>1, <3>3
    <3> QED
      BY <2>3, <3>1, <3>4
  <2> QED
    BY <2>4, <2>5
<1>5. \A k \in 1..c : Good(k)
  <2> HIDE DEF Good
  <2> QED
    BY <1>4
<1>6. Met(c) = N /\ (c # 0 => next[w[c]] = 0)
  <2>1. CASE c = 0
    <3>1. N = {} /\ 1..c = {}
      BY <1>0, <2>1, FS_EmptySet
    <3> QED
      BY <2>1, <3>1
  <2>2. CASE c # 0
    <3>1. c \in 1..c
      BY <1>0, <2>2
    <3>2. Good(c)
      <4> HIDE DEF Good
      <4> QED
        BY <1>5, <3>1
    <3>3. Met(c) \subseteq N /\ Cardinality(Met(c)) = Cardinality(N)
      <4> HIDE DEF Met
      <4> QED
        BY <3>2
    <3>4. Met(c) = N
      <4> HIDE DEF Met
      <4> QED
        BY <1>0, <3>3, FS_Subset
    <3>5. \A z \in N : ~(K[w[c]] < K[z])
      <4>1. \A z \in N : z \in Low(c)
        <5> HIDE DEF Met, Low
        <5> QED
          BY <3>2, <3>4
      <4>2. w[c] \in N
        BY <3>2
      <4> QED
        BY <1>1, <4>1, <4>2
    <3>6. next[w[c]] = 0
      BY <3>2, <3>5 DEF IsNext
    <3> QED
      BY <3>4, <3>6
  <2> QED
    BY <2>1, <2>2
<1>7. \A k \in 1..n : k < c => w[k] \in N /\ w[k + 1] \in N /\ K[w[k]] < K[w[k + 1]]
  <2> HIDE DEF Met, Low
  <2> TAKE k \in 1..n
  <2> HAVE k < c
  <2>1. k \in 1..c
    BY <1>0
  <2>2. w[k] \in N
    BY <1>5, <2>1
  <2> HIDE DEF Good
  <2> QED
    BY <1>3, <1>5, <2>1, <2>2
<1>8. \A k \in 1..n : k >= c => w[k + 1] = 0
  <2> DEFINE Z == {k \in 1..n : k >= c /\ w[k + 1] # 0}
  <2>1. ASSUME Z # {} PROVE FALSE
    <3>1. Z \in SUBSET Nat
      OBVIOUS
    <3>2. PICK k \in Z : \A m \in Z : k <= m
      <4> HIDE DEF Z
      <4> QED
        BY <2>1, <3>1, LeastIs
    <3>3. k \in 1..n /\ k >= c /\ w[k + 1] # 0 /\ k + 1 \in 1..n + 1 /\ k + 1 # 1 /\ (k + 1) - 1 = k
      OBVIOUS
    <3>4. w[k + 1] = next[w[k]]
      BY <1>2, <3>3
    <3>5. CASE k = c
      <4>1. c # 0
        BY <3>3, <3>5
      <4> QED
        BY <1>6, <3>3, <3>4, <3>5, <4>1
    <3>6. CASE k # c /\ k = 1
      <4>1. c = 0
        BY <1>0, <3>3, <3>6
      <4>2. N = {}
        BY <1>0, <4>1, FS_EmptySet
      <4>3. w[1] = 0
        BY <1>2, <4>2
      <4> QED
        BY <3>3, <3>4, <3>6, <4>3
    <3>7. CASE k # c /\ k # 1
      <4>1. k - 1 \in 1..n /\ k - 1 >= c /\ (k - 1) + 1 = k /\ ~(k <= k - 1)
        BY <1>0, <3>3, <3>7
      <4>2. w[k] = 0
        BY <3>2, <4>1
      <4> QED
        BY <3>3, <3>4, <4>2
    <3> QED
      BY <3>5, <3>6, <3>7
  <2> QED
    BY <2>1
<1>9. {w[k] : k \in 1..c} = N
  BY <1>6
<1> HIDE DEF c
<1>10. \A k \in 1..n : IF k < c THEN w[k] \in N /\ w[k + 1] \in N /\ K[w[k]] < K[w[k + 1]]
                      ELSE w[k + 1] = 0
  BY <1>0, <1>7, <1>8
<1> QED
  BY <1>9, <1>10 DEF InOrder, c

-----------------------------------------------------------------------------
(* What the assumption says of the trees.                                  *)

\* What is reached is in every solution of the equation of Below.
LEMMA ReachedIsBelow ==
  ASSUME NEW D, 0 \notin D, NEW L \in Links(D), NEW R \in Links(D), NEW G, IsBelow(G, D, L, R), NEW x \in D
  PROVE  Reaches(D, L, R, x) \subseteq G[x]
<1>1. \A y \in D \cup {0} : G[y] = IF y = 0 THEN {} ELSE {y} \cup G[L[y]] \cup G[R[y]]
  BY Zenon DEF IsBelow
<1> DEFINE T == {y \in D : G[y] \subseteq G[x]}
<1>2. x \in T /\ T \in SUBSET D
  OBVIOUS
<1>3. Closed(T, L, R)
  <2> SUFFICES ASSUME NEW z \in T PROVE L[z] \in T \cup {0} /\ R[z] \in T \cup {0}
    BY DEF Closed
  <2>1. z \in D /\ L[z] \in D \cup {0} /\ R[z] \in D \cup {0} /\ z # 0 /\ G[z] \subseteq G[x]
    BY DEF Links
  <2>2. G[z] = {z} \cup G[L[z]] \cup G[R[z]]
    BY <1>1, <2>1
  <2> QED
    BY <2>1, <2>2
<1>4. Reaches(D, L, R, x) \subseteq T
  BY <1>2, <1>3 DEF Reaches
<1>5. \A y \in T : y \in G[x]
  <2> TAKE y \in T
  <2>1. y \in D /\ y # 0 /\ G[y] \subseteq G[x]
    OBVIOUS
  <2>2. y \in G[y]
    BY <1>1, <2>1
  <2> QED
    BY <2>1, <2>2
<1> QED
  BY <1>4, <1>5

\* The keys, and the keys seen from the other side.
Keys1(D) == [x \in D |-> x]
Keys2(D) == [x \in D |-> -x]

\* A search tree is sorted, and so is its mirror.
LEMMA SearchTreeIs ==
  ASSUME NEW t, SearchTree(t), NEW D, D = DOMAIN t.left
  PROVE  \E B : /\ SortedTree(D, t.left, t.right, t.parent, Keys1(D), B)
                /\ SortedTree(D, t.right, t.left, t.parent, Keys2(D), B)
                /\ \A n \in D \cup {0} : Below(t, n) = B[n]
<1> DEFINE L == t.left
           R == t.right
           P == t.parent
           B == [x \in D \cup {0} |-> Reaches(D, L, R, x)]
<1>1. /\ IsFiniteSet(D) /\ D \subseteq Nat \ {0} /\ 0 \notin D
      /\ L \in Links(D) /\ R \in Links(D) /\ P \in Links(D)
  BY DEF SearchTree, Links
<1>2. PICK G : IsBelow(G, D, L, R) /\ \A n \in D \cup {0} : Below(t, n) = G[n]
  BY <1>1, BelowIs
<1>3. \A x \in D \cup {0} : G[x] = IF x = 0 THEN {} ELSE {x} \cup G[L[x]] \cup G[R[x]]
  BY <1>2, Zenon DEF IsBelow
<1>4. IsBelow(B, D, L, R)
  BY <1>1, BelowExists
<1>5. \A x \in D \cup {0} : B[x] = IF x = 0 THEN {} ELSE {x} \cup B[L[x]] \cup B[R[x]]
  BY <1>4, Zenon DEF IsBelow
<1>6. \A x \in D \cup {0} : B[x] \subseteq D /\ B[x] \subseteq G[x]
  <2> TAKE x \in D \cup {0}
  <2>1. CASE x = 0
    BY <2>1, <1>5
  <2>2. CASE x # 0
    <3>1. B[x] = Reaches(D, L, R, x) /\ x \in D
      BY <2>2
    <3>2. Reaches(D, L, R, x) \subseteq G[x]
      BY <1>1, <1>2, <3>1, ReachedIsBelow
    <3>3. Reaches(D, L, R, x) \subseteq D
      BY <2>2 DEF Reaches
    <3> QED
      BY <3>1, <3>2, <3>3
  <2> QED
    BY <2>1, <2>2
<1> HIDE DEF B
<1>7. ASSUME NEW x \in D PROVE L[x] \in D \cup {0} /\ R[x] \in D \cup {0} /\ x # 0
  BY <1>1 DEF Links
<1>8. ASSUME NEW x \in D
      PROVE  (\A y \in B[L[x]] : y < x) /\ (\A y \in B[R[x]] : x < y)
  <2>1. Ordered(t, x)
    BY DEF SearchTree
  <2>2. x \in Below(t, x)
    <3>1. Below(t, x) = G[x] /\ x # 0 /\ x \in D \cup {0}
      BY <1>2, <1>7
    <3>2. G[x] = {x} \cup G[L[x]] \cup G[R[x]]
      BY <1>3, <3>1
    <3> QED
      BY <3>1, <3>2
  <2>3. (\A y \in Below(t, L[x]) : y < x) /\ (\A y \in Below(t, R[x]) : y > x)
    BY <2>1, <2>2, Zenon DEF Ordered
  <2>4. Below(t, L[x]) = G[L[x]] /\ Below(t, R[x]) = G[R[x]]
    BY <1>2, <1>7
  <2>5. L[x] \in D \cup {0} /\ R[x] \in D \cup {0}
    BY <1>7
  <2>6. B[L[x]] \subseteq G[L[x]] /\ B[R[x]] \subseteq G[R[x]]
    BY <1>6, <2>5
  <2>7. B[L[x]] \subseteq D /\ B[R[x]] \subseteq D
    BY <1>6, <2>5
  <2>8. \A y \in D : y \in Nat /\ x \in Nat /\ (y > x <=> x < y)
    BY <1>1
  <2> HIDE DEF L, R
  <2> QED
    BY <2>3, <2>4, <2>6, <2>7, <2>8
<1>9. B[0] = {} /\ \A x \in D : B[x] = {x} \cup B[L[x]] \cup B[R[x]]
  BY <1>5, <1>7
<1> HIDE DEF L, R, P
<1>10. \A x \in D : x \notin B[L[x]] /\ x \notin B[R[x]]
  <2> TAKE x \in D
  <2>1. ~(x < x)
    BY <1>1
  <2> QED
    BY <1>8, <2>1
<1>11. Layered(D, D, L, R, B) /\ Layered(D, D, R, L, B)
  BY <1>1, <1>6, <1>7, <1>9, <1>10 DEF Layered, Closed
<1>12. \A x \in D \cup {0} : G[x] = B[x]
  <2>1. G[0] = {} /\ \A x \in D : G[x] = {x} \cup G[L[x]] \cup G[R[x]]
    BY <1>3, <1>7
  <2> QED
    BY <1>11, <2>1, BelowIsUnique
<1>13. \A x, y \in D : P[x] = y <=> L[y] = x \/ R[y] = x
  <2>1. Agreeing(t)
    BY DEF SearchTree
  <2> QED
    BY <2>1, Zenon DEF Agreeing, L, R, P
<1>14. \A x \in D : x \in Int /\ Keys1(D)[x] = x /\ Keys2(D)[x] = -x
  BY <1>1 DEF Keys1, Keys2
<1>15. Keys1(D) \in [D -> Int] /\ Keys2(D) \in [D -> Int]
  BY <1>1 DEF Keys1, Keys2
<1>16. /\ \A x, y \in D : Keys1(D)[x] = Keys1(D)[y] => x = y
       /\ \A x, y \in D : Keys2(D)[x] = Keys2(D)[y] => x = y
  BY <1>14
<1>17. \A x \in D : \A y \in B[L[x]] : Keys1(D)[y] < Keys1(D)[x] /\ Keys2(D)[x] < Keys2(D)[y]
  <2> TAKE x \in D
  <2> TAKE y \in B[L[x]]
  <2>1. y \in D
    BY <1>6, <1>7
  <2> QED
    BY <2>1, <1>8, <1>14
<1>18. \A x \in D : \A y \in B[R[x]] : Keys1(D)[x] < Keys1(D)[y] /\ Keys2(D)[y] < Keys2(D)[x]
  <2> TAKE x \in D
  <2> TAKE y \in B[R[x]]
  <2>1. y \in D
    BY <1>6, <1>7
  <2> QED
    BY <2>1, <1>8, <1>14
<1>19. SortedTree(D, L, R, P, Keys1(D), B)
  BY <1>1, <1>11, <1>13, <1>15, <1>16, <1>17, <1>18, Zenon DEF SortedTree
<1>20. SortedTree(D, R, L, P, Keys2(D), B)
  <2>1. \A x, y \in D : P[x] = y <=> R[y] = x \/ L[y] = x
    BY <1>13
  <2> QED
    BY <2>1, <1>1, <1>11, <1>13, <1>15, <1>16, <1>17, <1>18, Zenon DEF SortedTree
<1> QED
  BY <1>2, <1>12, <1>19, <1>20, Zenon DEF L, R, P

-----------------------------------------------------------------------------
(* rb_first, rb_next, rb_last and rb_prev.                                 *)

\* A tree or its mirror, with what the climbs find, the next nodes and the first.
Walked(D, L, R, P, K, B, root, f, next, from) ==
  /\ SortedTree(D, L, R, P, K, B) /\ root \in D \cup {0} /\ (root # 0 => P[root] = 0)
  /\ \A x \in D \ B[root] : R[x] = 0 /\ P[x] = 0
  /\ \A x \in D : f[x] = IF P[x] # 0 /\ R[P[x]] = x THEN f[P[x]] ELSE P[x]
  /\ next = [x \in D \cup {0} |-> IF x = 0 THEN 0 ELSE IF R[x] # 0 THEN Down(L, R[x]) ELSE f[x]]
  /\ from = IF root = 0 THEN 0 ELSE Down(L, root)

\* The walk from the first node.
LEMMA WalkThrough ==
  ASSUME NEW D, NEW L, NEW R, NEW P, NEW K, NEW B, NEW root, NEW f, NEW next, NEW from,
         Walked(D, L, R, P, K, B, root, f, next, from), NEW n, n = Cardinality(D)
  PROVE  /\ n \in Nat /\ Cardinality(B[root]) <= n
         /\ Walk(from, next, n) \in [1..n + 1 -> D \cup {0}]
         /\ InOrder(Walk(from, next, n), B[root], K, n)
<1> DEFINE V == D \cup {0}
           N == B[root]
<1> USE DEF Walked
<1>1. N \subseteq D /\ 0 \notin D /\ IsFiniteSet(D)
  BY TreeFacts
<1>2. \A x \in D : next[x] = IF R[x] # 0 THEN Down(L, R[x]) ELSE f[x]
  BY <1>1
<1>3. ASSUME NEW x \in N PROVE IsNext(N, K, x, next[x])
  <2>1. root \in D /\ P[root] = 0
    BY TreeFacts
  <2>2. IsNext(N, K, x, IF R[x] # 0 THEN Down(L, R[x]) ELSE f[x])
    BY <2>1, NextIs
  <2> HIDE DEF N
  <2> QED
    BY <1>1, <1>2, <2>2
<1>4. ASSUME NEW x \in V PROVE next[x] \in V
  <2>1. CASE x \in N
    BY <1>1, <1>3, <2>1 DEF IsNext
  <2>2. CASE x = 0
    BY <2>2
  <2>3. CASE x \in D /\ x \notin N
    <3>1. R[x] = 0 /\ P[x] = 0
      BY <2>3
    <3> QED
      BY <1>2, <2>3, <3>1
  <2> QED
    BY <2>1, <2>2, <2>3
<1>5. next \in [V -> V]
  BY <1>4
<1>6. IF N = {} THEN from = 0 ELSE from \in N /\ \A y \in N : K[from] <= K[y]
  <2>1. CASE root = 0
    BY <2>1, TreeFacts
  <2>2. CASE root # 0
    <3>1. from \in N /\ \A y \in N : K[from] <= K[y]
      BY <2>2, LeastBelow
    <3> QED
      BY <3>1
  <2> QED
    BY <2>1, <2>2
<1>7. from \in V
  BY <1>1, <1>6
<1>8. n \in Nat /\ Cardinality(N) <= n
  BY <1>1, FS_Subset, FS_CardinalityType
<1>9. Walk(from, next, n) \in [1..n + 1 -> V] /\ Steps(Walk(from, next, n), from, next, n)
  BY <1>5, <1>7, <1>8, WalkIs
<1>10. next[0] = 0 /\ K \in [D -> Int] /\ \A x, y \in D : K[x] = K[y] => x = y
  BY DEF SortedTree
<1> HIDE DEF N, V
<1>11. InOrder(Walk(from, next, n), N, K, n)
  BY <1>1, <1>3, <1>6, <1>8, <1>9, <1>10, WalkIsInOrder, ZenonT(40)
<1> QED
  BY <1>8, <1>9, <1>11 DEF N, V

\* The walks of the two directions.
LEMMA WalksAre ==
  ASSUME NEW t, SearchTree(t), NEW D, D = DOMAIN t.left, NEW n, n = Cardinality(D)
  PROVE  LET up   == Walk(RbFirst(t), [x \in D \cup {0} |-> RbNext(t, x)], n)
             down == Walk(RbLast(t), [x \in D \cup {0} |-> RbPrev(t, x)], n)
             N    == Below(t, t.root)
         IN /\ n \in Nat /\ Cardinality(N) <= n /\ N \subseteq D
            /\ up \in [1..n + 1 -> D \cup {0}] /\ down \in [1..n + 1 -> D \cup {0}]
            /\ InOrder(up, N, Keys1(D), n) /\ InOrder(down, N, Keys2(D), n)
<1> DEFINE L == t.left
           R == t.right
           P == t.parent
           N == Below(t, t.root)
           g == [x \in D |-> Above(t, R, x)]
           h == [x \in D |-> Above(t, L, x)]
           next == [x \in D \cup {0} |-> RbNext(t, x)]
           prev == [x \in D \cup {0} |-> RbPrev(t, x)]
<1>1. PICK B : /\ SortedTree(D, L, R, P, Keys1(D), B) /\ SortedTree(D, R, L, P, Keys2(D), B)
               /\ \A x \in D \cup {0} : Below(t, x) = B[x]
  BY SearchTreeIs
<1>2. t.root \in D \cup {0} /\ (t.root # 0 => P[t.root] = 0) /\ N = B[t.root]
  BY <1>1 DEF SearchTree
<1>3. 0 \notin D /\ L \in Links(D) /\ R \in Links(D) /\ P \in Links(D)
  BY <1>1, TreeFacts DEF SortedTree
<1>4. \A x \in D \ B[t.root] : L[x] = 0 /\ R[x] = 0 /\ P[x] = 0
  <2> TAKE x \in D \ B[t.root]
  <2>1. x \in D /\ x \notin Below(t, t.root)
    BY <1>2
  <2>2. {t.left[x], t.right[x], t.parent[x]} = {0}
    BY <2>1 DEF SearchTree
  <2> QED
    BY <2>2
<1>5. \A x \in D : P[x] \in D \cup {0}
  BY <1>3 DEF Links
<1>6. \A x \in D : g[x] = IF P[x] # 0 /\ R[P[x]] = x THEN g[P[x]] ELSE P[x]
  <2>1. \A x \in D : Above(t, R, x) = IF P[x] # 0 /\ R[P[x]] = x THEN Above(t, R, P[x]) ELSE P[x]
    BY <1>3, AboveIs
  <2> QED
    BY <1>5, <2>1
<1>7. \A x \in D : h[x] = IF P[x] # 0 /\ L[P[x]] = x THEN h[P[x]] ELSE P[x]
  <2>1. \A x \in D : Above(t, L, x) = IF P[x] # 0 /\ L[P[x]] = x THEN Above(t, L, P[x]) ELSE P[x]
    BY <1>3, AboveIs
  <2> QED
    BY <1>5, <2>1
<1>8. next = [x \in D \cup {0} |-> IF x = 0 THEN 0 ELSE IF R[x] # 0 THEN Down(L, R[x]) ELSE g[x]]
  BY DEF RbNext
<1>9. prev = [x \in D \cup {0} |-> IF x = 0 THEN 0 ELSE IF L[x] # 0 THEN Down(R, L[x]) ELSE h[x]]
  BY DEF RbPrev
<1>10. /\ RbFirst(t) = IF t.root = 0 THEN 0 ELSE Down(L, t.root)
       /\ RbLast(t) = IF t.root = 0 THEN 0 ELSE Down(R, t.root)
  BY DEF RbFirst, RbLast
<1> HIDE DEF L, R, P, g, h, next, prev, N
<1>11. /\ n \in Nat /\ Cardinality(N) <= n
       /\ Walk(RbFirst(t), next, n) \in [1..n + 1 -> D \cup {0}]
       /\ InOrder(Walk(RbFirst(t), next, n), N, Keys1(D), n)
  <2>1. \A x \in D \ B[t.root] : R[x] = 0 /\ P[x] = 0
    BY <1>4
  <2>2. RbFirst(t) = IF t.root = 0 THEN 0 ELSE Down(L, t.root)
    BY <1>10
  <2>3. Walked(D, L, R, P, Keys1(D), B, t.root, g, next, RbFirst(t))
    BY <2>1, <2>2, <1>1, <1>2, <1>6, <1>8, Zenon DEF Walked
  <2> QED
    BY <2>3, <1>2, WalkThrough
<1>12. /\ Walk(RbLast(t), prev, n) \in [1..n + 1 -> D \cup {0}]
       /\ InOrder(Walk(RbLast(t), prev, n), N, Keys2(D), n)
  <2>1. \A x \in D \ B[t.root] : L[x] = 0 /\ P[x] = 0
    BY <1>4
  <2>2. RbLast(t) = IF t.root = 0 THEN 0 ELSE Down(R, t.root)
    BY <1>10
  <2>3. Walked(D, R, L, P, Keys2(D), B, t.root, h, prev, RbLast(t))
    BY <2>1, <2>2, <1>1, <1>2, <1>7, <1>9, Zenon DEF Walked
  <2> QED
    BY <2>3, <1>2, WalkThrough
<1>13. N \subseteq D
  BY <1>1, <1>2, TreeFacts
<1> QED
  BY <1>11, <1>12, <1>13 DEF next, prev, N

\* What TraversalInOrder says of a walk up and one down, over the nodes N.
MeetsAll(up, down, N) ==
  LET n == Cardinality(N)
  IN \A w \in {up, [k \in DOMAIN down |-> IF k > n THEN down[k] ELSE down[n + 1 - k]]} :
       /\ {w[k] : k \in 1..n} = N
       /\ \A k \in 1..Len(w) - 1 : IF k < n THEN w[k] < w[k + 1] ELSE w[k + 1] = 0

\* Read backwards, a walk downwards goes upwards.
LEMMA WalksMeetAll ==
  ASSUME NEW D, NEW N, N \subseteq D, D \subseteq Nat, NEW n \in Nat, Cardinality(N) <= n, Cardinality(N) \in Nat,
         NEW up \in [1..n + 1 -> D \cup {0}], InOrder(up, N, Keys1(D), n),
         NEW down \in [1..n + 1 -> D \cup {0}], InOrder(down, N, Keys2(D), n)
  PROVE  MeetsAll(up, down, N)
<1> DEFINE c == Cardinality(N)
           back == [k \in DOMAIN down |-> IF k > c THEN down[k] ELSE down[c + 1 - k]]
<1>0. c \in Nat /\ c <= n /\ DOMAIN down = 1..n + 1
  OBVIOUS
<1>1. \A x \in N : x \in Nat /\ Keys1(D)[x] = x /\ Keys2(D)[x] = -x
  BY DEF Keys1, Keys2
<1>2. /\ {up[k] : k \in 1..c} = N
      /\ \A k \in 1..n : IF k < c THEN up[k] < up[k + 1] ELSE up[k + 1] = 0
  <2>1. /\ {up[k] : k \in 1..c} = N
        /\ \A k \in 1..n : IF k < c THEN up[k] \in N /\ up[k + 1] \in N /\ Keys1(D)[up[k]] < Keys1(D)[up[k + 1]]
                           ELSE up[k + 1] = 0
    BY DEF InOrder
  <2> HIDE DEF c
  <2> QED
    BY <1>0, <1>1, <2>1
<1>3. /\ {down[k] : k \in 1..c} = N
      /\ \A k \in 1..n : IF k < c THEN down[k] \in N /\ down[k + 1] \in N /\ down[k + 1] < down[k]
                         ELSE down[k + 1] = 0
  <2>1. /\ {down[k] : k \in 1..c} = N
        /\ \A k \in 1..n : IF k < c THEN /\ down[k] \in N /\ down[k + 1] \in N
                                         /\ Keys2(D)[down[k]] < Keys2(D)[down[k + 1]]
                           ELSE down[k + 1] = 0
    BY DEF InOrder
  <2> HIDE DEF c
  <2>2. \A x, y \in N : Keys2(D)[x] < Keys2(D)[y] => y < x
    BY <1>1
  <2> QED
    BY <2>1, <2>2
<1>4. Len(up) = n + 1 /\ Len(back) = n + 1
  <2>1. n + 1 \in Nat
    OBVIOUS
  <2>2. back \in [1..n + 1 -> D \cup {0}]
    <3> HIDE DEF c
    <3>1. \A k \in 1..n + 1 : down[k] \in D \cup {0} /\ (~(k > c) => c + 1 - k \in 1..n + 1)
      BY <1>0
    <3> QED
      BY <1>0, <3>1
  <2> HIDE DEF back
  <2> QED
    BY <2>1, <2>2, FunSeq
<1> HIDE DEF c
<1>5. \A k \in 1..n + 1 : back[k] = IF k > c THEN down[k] ELSE down[c + 1 - k]
  BY <1>0
<1> HIDE DEF back
<1>6. {back[k] : k \in 1..c} = N
  <2>1. \A k \in 1..c : c + 1 - k \in 1..c /\ c + 1 - (c + 1 - k) = k /\ k \in 1..n + 1 /\ ~(k > c)
    BY <1>0
  <2>2. \A k \in 1..c : back[k] = down[c + 1 - k] /\ down[k] = back[c + 1 - k]
    BY <1>5, <2>1
  <2>3. {back[k] : k \in 1..c} \subseteq N
    BY <1>3, <2>1, <2>2
  <2>4. ASSUME NEW x \in N PROVE x \in {back[k] : k \in 1..c}
    <3>1. PICK k \in 1..c : x = down[k]
      BY <1>3
    <3> QED
      BY <2>1, <2>2, <3>1
  <2> QED
    BY <2>3, <2>4
<1>7. \A k \in 1..n : IF k < c THEN back[k] < back[k + 1] ELSE back[k + 1] = 0
  <2> TAKE k \in 1..n
  <2>1. k \in 1..n + 1 /\ k + 1 \in 1..n + 1
    OBVIOUS
  <2>2. CASE k < c
    <3>1. ~(k > c) /\ ~(k + 1 > c) /\ c - k \in 1..n /\ c - k < c /\ c + 1 - (k + 1) = c - k /\ c + 1 - k = (c - k) + 1
      BY <1>0, <2>2
    <3>2. back[k] = down[(c - k) + 1] /\ back[k + 1] = down[c - k]
      BY <1>5, <2>1, <3>1
    <3>3. down[(c - k) + 1] < down[c - k]
      BY <1>3, <3>1
    <3> QED
      BY <2>2, <3>2, <3>3
  <2>3. CASE ~(k < c)
    <3>1. k + 1 > c
      BY <1>0, <2>3
    <3> QED
      BY <1>3, <1>5, <2>1, <2>3, <3>1
  <2> QED
    BY <2>2, <2>3
<1>8. ASSUME NEW w \in {up, back}
      PROVE  /\ {w[k] : k \in 1..c} = N
             /\ \A k \in 1..Len(w) - 1 : IF k < c THEN w[k] < w[k + 1] ELSE w[k + 1] = 0
  <2>1. Len(w) - 1 = n
    BY <1>4
  <2>2. CASE w = up
    BY <2>1, <2>2, <1>2
  <2>3. CASE w = back
    BY <2>1, <2>3, <1>6, <1>7
  <2> QED
    BY <2>2, <2>3
<1> QED
  BY <1>8, Zenon DEF MeetsAll, c, back

-----------------------------------------------------------------------------
(* rb_rotate.                                                              *)

\* Parents are those whose children the nodes are.
Agrees(D, L, R, P) == \A x, y \in D : P[x] = y <=> L[y] = x \/ R[y] = x

\* A rotation of a and its child b, in a tree or in its mirror: the links after it,
\* and what is below the nodes by them.
Turned(D, L, R, P, K, B, a, b, L1, R1, P1, G) ==
  /\ SortedTree(D, L, R, P, K, B) /\ a \in D /\ b \in D /\ L[a] = b
  /\ \A x \in D : L1[x] = IF x = a THEN R[b] ELSE L[x]
  /\ \A x \in D : R1[x] = IF x = b THEN a ELSE R[x]
  /\ \A x \in D : P1[x] = IF x = a THEN b ELSE IF x = b THEN P[a] ELSE P[x]
  /\ G[0] = {} /\ \A x \in D : G[x] = {x} \cup G[L1[x]] \cup G[R1[x]]

\* The subtree of a is now that of b, still in order; the pointers agree only where
\* nothing was above and nothing was handed over.
LEMMA RotationIs ==
  ASSUME NEW D, NEW L, NEW R, NEW P, NEW K, NEW B, NEW a, NEW b, NEW L1, NEW R1, NEW P1, NEW G,
         Turned(D, L, R, P, K, B, a, b, L1, R1, P1, G)
  PROVE  /\ G[b] = B[a]
         /\ \A x \in B[a] : /\ x \in D /\ G[L1[x]] \subseteq D /\ G[R1[x]] \subseteq D
                            /\ \A y \in G[L1[x]] : K[y] < K[x]
                            /\ \A y \in G[R1[x]] : K[x] < K[y]
         /\ Agrees(D, L1, R1, P1) <=> R[b] = 0 /\ P[a] = 0
<1> USE DEF Turned
<1> DEFINE B1 == [x \in D \cup {0} |-> IF x = a THEN {a} \cup B[R[b]] \cup B[R[a]]
                                       ELSE IF x = b THEN B[a] ELSE B[x]]
           Q == B[a]
<1>1. /\ Layered(D, D, L, R, B) /\ 0 \notin D /\ B[0] = {} /\ IsFiniteSet(D)
      /\ \A x \in D : /\ L[x] \in D \cup {0} /\ R[x] \in D \cup {0} /\ P[x] \in D \cup {0}
                      /\ K[x] \in Int /\ B[x] \subseteq D /\ x \in B[x]
                      /\ B[x] = {x} \cup B[L[x]] \cup B[R[x]]
                      /\ \A y \in B[x] : B[y] \subseteq B[x]
                      /\ \A y \in B[L[x]] : K[y] < K[x]
                      /\ \A y \in B[R[x]] : K[x] < K[y]
  BY TreeFacts
<1>2. /\ L \in [D -> D \cup {0}] /\ R \in [D -> D \cup {0}] /\ P \in [D -> D \cup {0}]
      /\ \A x, y \in D : P[x] = y <=> L[y] = x \/ R[y] = x
  BY DEF SortedTree, Links
<1>3. /\ \A x \in D : L1[x] = IF x = a THEN R[b] ELSE L[x]
      /\ \A x \in D : R1[x] = IF x = b THEN a ELSE R[x]
      /\ \A x \in D : P1[x] = IF x = a THEN b ELSE IF x = b THEN P[a] ELSE P[x]
      /\ G[0] = {} /\ \A x \in D : G[x] = {x} \cup G[L1[x]] \cup G[R1[x]]
      /\ a \in D /\ b \in D /\ L[a] = b
  BY Zenon
<1>4. a # b /\ a # 0 /\ b # 0 /\ b \in B[L[a]] /\ K[b] < K[a] /\ K[a] \in Int /\ K[b] \in Int
  BY <1>1
<1>5. a \notin B[b] /\ a \notin B[R[a]] /\ b \notin B[R[a]] /\ b \notin B[L[b]] /\ b \notin B[R[b]]
  BY <1>1, <1>4
<1>6. /\ B[a] = {a} \cup B[b] \cup B[R[a]] /\ B[b] = {b} \cup B[L[b]] \cup B[R[b]]
      /\ Q \subseteq D
  BY <1>1
<1>7. /\ R[b] \in (D \cup {0}) \ {a, b} /\ L[b] \in (D \cup {0}) \ {a, b} /\ R[a] \in (D \cup {0}) \ {a, b}
  <2>1. \A z \in D : z \in B[z]
    BY <1>1
  <2> QED
    BY <2>1, <1>1, <1>4, <1>5, <1>6
<1>8. \A x \in Q \ {a, b} : L[x] \notin {a, b} /\ R[x] \notin {a, b}
  <2> TAKE x \in Q \ {a, b}
  <2>1. x \in D /\ x # a /\ x # b /\ (x \in B[b] \/ x \in B[R[a]])
    BY <1>6
  <2>2. L[x] # b /\ R[x] # b
    BY <1>2, <2>1
  <2>3. a \notin B[x]
    BY <1>1, <1>5, <2>1, <1>7
  <2>4. B[x] = {x} \cup B[L[x]] \cup B[R[x]] /\ a \in B[a]
    BY <1>1, <2>1
  <2> QED
    BY <2>2, <2>3, <2>4
<1>9. /\ B1[0] = {} /\ B1[a] = {a} \cup B[R[b]] \cup B[R[a]] /\ B1[b] = Q
      /\ \A x \in (D \cup {0}) \ {a, b} : B1[x] = B[x]
  BY <1>1, <1>4
<1> HIDE DEF B1
<1>10. ASSUME NEW x \in Q
       PROVE  /\ L1[x] \in Q \cup {0} /\ R1[x] \in Q \cup {0}
              /\ B1[x] \subseteq D /\ B1[x] = {x} \cup B1[L1[x]] \cup B1[R1[x]]
              /\ \A y \in B1[L1[x]] : K[y] < K[x]
              /\ \A y \in B1[R1[x]] : K[x] < K[y]
  <2>1. CASE x = a
    <3>1. L1[x] = R[b] /\ R1[x] = R[a]
      BY <1>3, <1>4, <2>1
    <3>2. B1[R[b]] = B[R[b]] /\ B1[R[a]] = B[R[a]]
      BY <1>7, <1>9
    <3>3. R[b] \in Q \cup {0} /\ R[a] \in Q \cup {0}
      BY <1>1, <1>6, <1>7
    <3>4. B[R[b]] \subseteq B[L[a]] /\ B[R[b]] \subseteq D /\ B[R[a]] \subseteq D
      BY <1>1, <1>6
    <3> QED
      BY <1>1, <1>9, <2>1, <3>1, <3>2, <3>3, <3>4
  <2>2. CASE x = b
    <3>1. L1[x] = L[b] /\ R1[x] = a
      BY <1>3, <1>4, <2>2
    <3>2. B1[L[b]] = B[L[b]]
      BY <1>7, <1>9
    <3>3. L[b] \in Q \cup {0} /\ a \in Q
      BY <1>1, <1>6, <1>7
    <3>4. \A y \in B1[a] : K[b] < K[y]
      <4> TAKE y \in B1[a]
      <4>1. CASE y = a
        BY <4>1, <1>4
      <4>2. CASE y \in B[R[b]]
        BY <4>2, <1>1
      <4>3. CASE y \in B[R[a]]
        <5>1. K[a] < K[y] /\ K[y] \in Int
          BY <1>1, <1>7, <4>3
        <5> QED
          BY <5>1, <1>4
      <4> QED
        BY <4>1, <4>2, <4>3, <1>9
    <3>5. B1[b] = {b} \cup B1[L[b]] \cup B1[a]
      BY <1>6, <1>9, <3>2
    <3> QED
      BY <1>1, <1>6, <1>9, <2>2, <3>1, <3>2, <3>3, <3>4, <3>5
  <2>3. CASE x \notin {a, b}
    <3>1. L1[x] = L[x] /\ R1[x] = R[x] /\ x \in D
      BY <1>3, <1>6, <2>3
    <3>2. L[x] \notin {a, b} /\ R[x] \notin {a, b} /\ L[x] \in D \cup {0} /\ R[x] \in D \cup {0}
      BY <1>1, <1>8, <2>3, <3>1
    <3>3. B1[x] = B[x] /\ B1[L[x]] = B[L[x]] /\ B1[R[x]] = B[R[x]]
      BY <1>9, <2>3, <3>1, <3>2
    <3>4. L[x] \in Q \cup {0} /\ R[x] \in Q \cup {0}
      BY <1>1, <3>1, <3>2
    <3> QED
      BY <1>1, <3>1, <3>3, <3>4
  <2> QED
    BY <2>1, <2>2, <2>3
<1>11. Layered(Q, D, L1, R1, B1)
  <2>1. \A x \in Q : x \notin B1[L1[x]] /\ x \notin B1[R1[x]]
    <3> TAKE x \in Q
    <3>1. K[x] \in Int
      BY <1>1, <1>6
    <3> QED
      BY <1>10, <3>1
  <2> HIDE DEF Q
  <2> QED
    BY <2>1, <1>1, <1>6, <1>9, <1>10 DEF Layered, Closed
<1>12. \A x \in Q \cup {0} : G[x] = B1[x]
  <2> HIDE DEF Q
  <2>1. \A x \in Q : G[x] = {x} \cup G[L1[x]] \cup G[R1[x]]
    BY <1>6
  <2> QED
    BY <2>1, <1>11, BelowIsUnique
<1>13. Agrees(D, L1, R1, P1) <=> R[b] = 0 /\ P[a] = 0
  <2>1. ASSUME R[b] # 0, Agrees(D, L1, R1, P1) PROVE FALSE
    <3>1. P[R[b]] = b /\ R[b] \in D
      BY <1>2, <1>7, <2>1
    <3>2. P1[R[b]] = b /\ L1[a] = R[b]
      BY <1>3, <1>7, <3>1
    <3> QED
      BY <2>1, <3>1, <3>2, <1>4 DEF Agrees
  <2>2. ASSUME P[a] # 0, Agrees(D, L1, R1, P1) PROVE FALSE
    <3> DEFINE q == P[a]
    <3>1. q \in D /\ (L[q] = a \/ R[q] = a)
      BY <1>2, <2>2
    <3>2. q # a /\ q # b
      BY <1>4, <1>7, <3>1
    <3>3. L[q] # b /\ R[q] # b
      BY <1>2, <3>1, <3>2
    <3>4. P1[b] = q /\ L1[q] = L[q] /\ R1[q] = R[q]
      BY <1>3, <1>4, <3>1, <3>2
    <3> HIDE DEF q
    <3> QED
      BY <2>2, <3>1, <3>3, <3>4 DEF Agrees
  <2>3. ASSUME R[b] = 0, P[a] = 0 PROVE Agrees(D, L1, R1, P1)
    <3> SUFFICES ASSUME NEW x \in D, NEW y \in D PROVE P1[x] = y <=> L1[y] = x \/ R1[y] = x
      BY DEF Agrees
    <3>0. x # 0 /\ y # 0
      BY <1>1
    <3>1. CASE x = a
      BY <1>2, <1>3, <1>4, <2>3, <3>0, <3>1
    <3>2. CASE x = b
      BY <1>2, <1>3, <1>4, <1>7, <2>3, <3>0, <3>2
    <3>3. CASE x # a /\ x # b
      BY <1>2, <1>3, <1>4, <2>3, <3>0, <3>3
    <3> QED
      BY <3>1, <3>2, <3>3
  <2> QED
    BY <2>1, <2>2, <2>3
<1>14. b \in Q
  BY <1>1, <1>6
<1>15. ASSUME NEW x \in Q
       PROVE  /\ x \in D /\ G[L1[x]] \subseteq D /\ G[R1[x]] \subseteq D
              /\ \A y \in G[L1[x]] : K[y] < K[x]
              /\ \A y \in G[R1[x]] : K[x] < K[y]
  <2> HIDE DEF Q
  <2>0. x \in D /\ \A z \in Q \cup {0} : B1[z] \subseteq D
    BY <1>6, <1>9, <1>10
  <2>1. L1[x] \in Q \cup {0} /\ R1[x] \in Q \cup {0}
    BY <1>10
  <2>2. G[L1[x]] = B1[L1[x]] /\ G[R1[x]] = B1[R1[x]]
    BY <2>1, <1>12
  <2> QED
    BY <2>0, <2>1, <2>2, <1>10
<1>16. G[b] = B[a]
  BY <1>9, <1>12, <1>14
<1> QED
  BY <1>10, <1>13, <1>15, <1>16

\* The trees that are built from others are records of functions on the same nodes.
IsLinked(t, D) == D = DOMAIN t.left /\ t.left \in Links(D) /\ t.right \in Links(D) /\ t.parent \in Links(D)

\* The links that rb_rotate writes.
LEMMA RotateIs ==
  ASSUME NEW t, NEW D, SearchTree(t), D = DOMAIN t.left, NEW a \in D, NEW b \in {t.left[a], t.right[a]} \ {0}
  PROVE  LET s == RbRotate(t, a, b)
         IN /\ IsLinked(s, D)
            /\ \A x \in D : s.parent[x] = IF x = a THEN b ELSE IF x = b THEN t.parent[a] ELSE t.parent[x]
            /\ t.left[a] = b =>
                 /\ \A x \in D : s.left[x] = IF x = a THEN t.right[b] ELSE t.left[x]
                 /\ \A x \in D : s.right[x] = IF x = b THEN a ELSE t.right[x]
            /\ t.left[a] # b =>
                 /\ \A x \in D : s.right[x] = IF x = a THEN t.left[b] ELSE t.right[x]
                 /\ \A x \in D : s.left[x] = IF x = b THEN a ELSE t.left[x]
<1> DEFINE u == [t EXCEPT !.parent[b] = t.parent[a], !.parent[a] = b]
           v == [u EXCEPT !.left[a] = t.right[b], !.right[b] = a]
           w == [u EXCEPT !.right[a] = t.left[b], !.left[b] = a]
<1>1. t \in [root : D \cup {0}, left : Links(D), right : Links(D), parent : Links(D),
             color : [D -> {"none", "red", "black"}]]
  BY DEF SearchTree, Links
<1>2. b \in D /\ t.parent[a] \in D \cup {0} /\ t.left[b] \in D \cup {0} /\ t.right[b] \in D \cup {0}
  BY <1>1 DEF Links
<1>3. /\ u.left = t.left /\ u.right = t.right /\ u.parent \in Links(D)
      /\ \A x \in D : u.parent[x] = IF x = a THEN b ELSE IF x = b THEN t.parent[a] ELSE t.parent[x]
      /\ u \in [root : D \cup {0}, left : Links(D), right : Links(D), parent : Links(D),
                color : [D -> {"none", "red", "black"}]]
  BY <1>1, <1>2 DEF Links
<1>4. RbRotate(t, a, b) = IF t.left[a] = b THEN v ELSE w
  BY DEF RbRotate
<1> HIDE DEF u
<1>5. /\ v.parent = u.parent /\ v.left \in Links(D) /\ v.right \in Links(D)
      /\ \A x \in D : v.left[x] = IF x = a THEN t.right[b] ELSE t.left[x]
      /\ \A x \in D : v.right[x] = IF x = b THEN a ELSE t.right[x]
  BY <1>2, <1>3 DEF Links
<1>6. /\ w.parent = u.parent /\ w.left \in Links(D) /\ w.right \in Links(D)
      /\ \A x \in D : w.right[x] = IF x = a THEN t.left[b] ELSE t.right[x]
      /\ \A x \in D : w.left[x] = IF x = b THEN a ELSE t.left[x]
  BY <1>2, <1>3 DEF Links
<1> HIDE DEF v, w
<1>7. IsLinked(v, D) /\ IsLinked(w, D)
  BY <1>3, <1>5, <1>6 DEF IsLinked, Links
<1> QED
  BY <1>3, <1>4, <1>5, <1>6, <1>7

\* So rb_rotate keeps nodes and order, and agrees only there.
LEMMA RotationLeaves ==
  ASSUME NEW t, NEW D, SearchTree(t), D = DOMAIN t.left, NEW a \in D, NEW b \in {t.left[a], t.right[a]} \ {0}
  PROVE  LET s == RbRotate(t, a, b)
             inner == IF t.left[a] = b THEN t.right[b] ELSE t.left[b]
         IN /\ Below(s, b) = Below(t, a) /\ Ordered(s, b)
            /\ Agreeing(s) <=> inner = 0 /\ t.parent[a] = 0
<1> DEFINE s == RbRotate(t, a, b)
<1>1. PICK B : /\ SortedTree(D, t.left, t.right, t.parent, Keys1(D), B)
               /\ SortedTree(D, t.right, t.left, t.parent, Keys2(D), B)
               /\ \A n \in D \cup {0} : Below(t, n) = B[n]
  BY SearchTreeIs
<1>2. /\ IsLinked(s, D)
      /\ \A x \in D : s.parent[x] = IF x = a THEN b ELSE IF x = b THEN t.parent[a] ELSE t.parent[x]
      /\ t.left[a] = b =>
           /\ \A x \in D : s.left[x] = IF x = a THEN t.right[b] ELSE t.left[x]
           /\ \A x \in D : s.right[x] = IF x = b THEN a ELSE t.right[x]
      /\ t.left[a] # b =>
           /\ \A x \in D : s.right[x] = IF x = a THEN t.left[b] ELSE t.right[x]
           /\ \A x \in D : s.left[x] = IF x = b THEN a ELSE t.left[x]
  BY RotateIs
<1>3. 0 \notin D /\ D \subseteq Nat /\ b \in D
  BY DEF SearchTree
<1> HIDE DEF s
<1>4. PICK G : IsBelow(G, D, s.left, s.right) /\ \A n \in D \cup {0} : Below(s, n) = G[n]
  BY <1>2, <1>3, BelowIs DEF IsLinked
<1>5. \A x \in D \cup {0} : G[x] = IF x = 0 THEN {} ELSE {x} \cup G[s.left[x]] \cup G[s.right[x]]
  BY <1>4, Zenon DEF IsBelow
<1>6. G[0] = {} /\ \A x \in D : G[x] = {x} \cup G[s.left[x]] \cup G[s.right[x]]
  BY <1>3, <1>5
<1>7. \A x \in D : s.left[x] \in D \cup {0} /\ s.right[x] \in D \cup {0}
  BY <1>2 DEF IsLinked, Links
<1>8. Agreeing(s) <=> Agrees(D, s.left, s.right, s.parent)
  <2>1. DOMAIN s.left = D
    BY <1>2 DEF IsLinked
  <2> QED
    BY <2>1 DEF Agreeing, Agrees
<1>9. \A x, y \in D : /\ Keys1(D)[x] < Keys1(D)[y] <=> x < y
                      /\ Keys2(D)[x] < Keys2(D)[y] <=> x > y
  BY <1>3 DEF Keys1, Keys2
<1>12. ASSUME G[b] = B[a],
              \A x \in B[a] : x \in D /\ (\A y \in G[s.left[x]] : y < x) /\ (\A y \in G[s.right[x]] : y > x)
       PROVE  Below(s, b) = Below(t, a) /\ Ordered(s, b)
  <2>1. Below(s, b) = B[a] /\ Below(t, a) = B[a]
    BY <1>1, <1>3, <1>4, <1>12
  <2>2. \A x \in D : Below(s, s.left[x]) = G[s.left[x]] /\ Below(s, s.right[x]) = G[s.right[x]]
    BY <1>4, <1>7
  <2>3. \A x \in B[a] : (\A y \in Below(s, s.left[x]) : y < x) /\ (\A y \in Below(s, s.right[x]) : y > x)
    BY <1>12, <2>2
  <2> QED
    BY <2>1, <2>3, Zenon DEF Ordered
<1>14. CASE t.left[a] = b
  <2>1. Turned(D, t.left, t.right, t.parent, Keys1(D), B, a, b, s.left, s.right, s.parent, G)
    BY <1>1, <1>2, <1>3, <1>6, <1>14 DEF Turned
  <2>2. /\ G[b] = B[a]
        /\ \A x \in B[a] : /\ x \in D /\ G[s.left[x]] \subseteq D /\ G[s.right[x]] \subseteq D
                           /\ \A y \in G[s.left[x]] : Keys1(D)[y] < Keys1(D)[x]
                           /\ \A y \in G[s.right[x]] : Keys1(D)[x] < Keys1(D)[y]
        /\ Agrees(D, s.left, s.right, s.parent) <=> t.right[b] = 0 /\ t.parent[a] = 0
    BY <2>1, RotationIs
  <2>3. \A x \in B[a] : x \in D /\ (\A y \in G[s.left[x]] : y < x) /\ (\A y \in G[s.right[x]] : y > x)
    BY <2>2, <1>3, <1>9
  <2> QED
    BY <2>2, <2>3, <1>8, <1>12, <1>14 DEF s
<1>15. CASE t.left[a] # b
  <2>0. t.right[a] = b /\ \A x \in D : G[x] = {x} \cup G[s.right[x]] \cup G[s.left[x]]
    BY <1>6, <1>15
  <2>1. Turned(D, t.right, t.left, t.parent, Keys2(D), B, a, b, s.right, s.left, s.parent, G)
    BY <1>1, <1>2, <1>3, <1>6, <1>15, <2>0 DEF Turned
  <2>2. /\ G[b] = B[a]
        /\ \A x \in B[a] : /\ x \in D /\ G[s.right[x]] \subseteq D /\ G[s.left[x]] \subseteq D
                           /\ \A y \in G[s.right[x]] : Keys2(D)[y] < Keys2(D)[x]
                           /\ \A y \in G[s.left[x]] : Keys2(D)[x] < Keys2(D)[y]
        /\ Agrees(D, s.right, s.left, s.parent) <=> t.left[b] = 0 /\ t.parent[a] = 0
    BY <2>1, RotationIs
  <2>3. \A x \in B[a] : x \in D /\ (\A y \in G[s.left[x]] : y < x) /\ (\A y \in G[s.right[x]] : y > x)
    BY <2>2, <1>3, <1>9
  <2>4. Agrees(D, s.right, s.left, s.parent) <=> Agrees(D, s.left, s.right, s.parent)
    BY DEF Agrees
  <2> QED
    BY <2>2, <2>3, <2>4, <1>8, <1>12, <1>15 DEF s
<1> QED
  BY <1>14, <1>15

-----------------------------------------------------------------------------
(* rb_insert.                                                              *)

\* The nodes that z is below.
Over(D, B, z) == {y \in D : z \in B[y]}

\* They are the node and those above its parent.
LEMMA OverIs ==
  ASSUME NEW D, NEW L, NEW R, NEW P, NEW K, NEW B, SortedTree(D, L, R, P, K, B), NEW z \in D
  PROVE  /\ P[z] # 0 => Over(D, B, z) = {z} \cup Over(D, B, P[z]) /\ z \notin Over(D, B, P[z])
         /\ P[z] = 0 => Over(D, B, z) = {z}
<1>1. /\ 0 \notin D /\ B[0] = {}
      /\ \A x \in D : /\ L[x] \in D \cup {0} /\ R[x] \in D \cup {0} /\ P[x] \in D \cup {0}
                      /\ K[x] \in Int /\ B[x] \subseteq D /\ x \in B[x]
                      /\ B[x] = {x} \cup B[L[x]] \cup B[R[x]]
                      /\ \A y \in B[x] : B[y] \subseteq B[x]
                      /\ \A y \in B[L[x]] : K[y] < K[x]
                      /\ \A y \in B[R[x]] : K[x] < K[y]
  BY TreeFacts
<1>2. \A y \in D : z \in B[y] /\ y # z => P[z] \in B[y]
  BY ParentsBelow
<1>3. CASE P[z] # 0
  <2>1. P[z] \in D /\ (L[P[z]] = z \/ R[P[z]] = z)
    BY <1>1, <1>3 DEF SortedTree
  <2>2. z \in B[P[z]]
    BY <1>1, <2>1
  <2>3. P[z] \notin B[z]
    <3>1. \A y \in B[z] : K[y] < K[P[z]] \/ K[P[z]] < K[y]
      BY <1>1, <2>1
    <3> QED
      BY <1>1, <2>1, <3>1
  <2>4. \A y \in D : z \in B[y] <=> y = z \/ P[z] \in B[y]
    BY <1>1, <1>2, <2>2
  <2> QED
    BY <1>3, <2>3, <2>4 DEF Over
<1>4. CASE P[z] = 0
  <2>1. \A y \in D : P[z] \notin B[y]
    BY <1>1, <1>4
  <2> QED
    BY <1>1, <1>2, <1>4, <2>1 DEF Over
<1> QED
  BY <1>3, <1>4

\* Colours do not count for what is below a node or above it.
SameLinks(s, t) ==
  s.root = t.root /\ s.left = t.left /\ s.right = t.right /\ s.parent = t.parent

\* The links of t are those of a sorted tree.
IsTreeOf(t, D, K, B) == D = DOMAIN t.left /\ SortedTree(D, t.left, t.right, t.parent, K, B)

\* Colours do not change what is below or above.
LEMMA SameBelow ==
  ASSUME NEW t, NEW D, NEW K, NEW B, IsTreeOf(t, D, K, B), NEW s, SameLinks(s, t)
  PROVE  \A z \in D \cup {0} : Below(s, z) = B[z] /\ (z # 0 => Path(s, z) = Over(D, B, z))
<1> DEFINE L == t.left
           R == t.right
           P == t.parent
           F == [z \in D \cup {0} |-> IF z = 0 THEN {} ELSE Over(D, B, z)]
<1> USE DEF IsTreeOf
<1>1. /\ L \in Links(D) /\ R \in Links(D) /\ P \in Links(D) /\ 0 \notin D /\ IsFiniteSet(D)
      /\ Layered(D, D, L, R, B) /\ \A z \in D : P[z] \in D \cup {0}
  BY TreeFacts DEF SortedTree
<1>2. DOMAIN s.left = D /\ s.left = L /\ s.right = R /\ s.parent = P
  BY DEF SameLinks
<1>3. \A z \in D \cup {0} : Below(s, z) = B[z]
  <2>1. PICK G : IsBelow(G, D, s.left, s.right) /\ \A n \in D \cup {0} : Below(s, n) = G[n]
    BY <1>1, <1>2, BelowIs
  <2>2. \A x \in D \cup {0} : G[x] = IF x = 0 THEN {} ELSE {x} \cup G[s.left[x]] \cup G[s.right[x]]
    BY <2>1, Zenon DEF IsBelow
  <2>3. G[0] = {} /\ \A x \in D : G[x] = {x} \cup G[L[x]] \cup G[R[x]]
    BY <1>1, <1>2, <2>2
  <2> HIDE DEF L, R, P
  <2>4. \A x \in D \cup {0} : G[x] = B[x]
    BY <1>1, <2>3, BelowIsUnique
  <2> QED
    BY <2>1, <2>4
<1>4. /\ F[0] = {} /\ \A z \in D : F[z] = Over(D, B, z)
  BY <1>1
<1>5. ASSUME NEW z \in D
      PROVE  F[z] \subseteq D /\ F[z] = {z} \cup F[P[z]] \cup F[P[z]] /\ z \notin F[P[z]]
  <2>1. /\ P[z] # 0 => Over(D, B, z) = {z} \cup Over(D, B, P[z]) /\ z \notin Over(D, B, P[z])
        /\ P[z] = 0 => Over(D, B, z) = {z}
    BY OverIs
  <2>2. Over(D, B, z) \subseteq D
    BY DEF Over
  <2> HIDE DEF F, L, R, P
  <2>3. CASE P[z] = 0
    BY <1>4, <2>1, <2>3
  <2>4. CASE P[z] # 0
    <3>1. P[z] \in D
      BY <1>1, <2>4
    <3>2. F[z] = Over(D, B, z) /\ F[P[z]] = Over(D, B, P[z])
      BY <1>4, <3>1
    <3> QED
      BY <2>1, <2>2, <2>4, <3>2
  <2> QED
    BY <2>3, <2>4
<1>6. \A z \in D \cup {0} : Path(s, z) = F[z]
  <2>1. PICK G : IsBelow(G, D, s.parent, s.parent) /\ \A n \in D \cup {0} : Path(s, n) = G[n]
    BY <1>1, <1>2, PathIs
  <2>2. \A x \in D \cup {0} : G[x] = IF x = 0 THEN {} ELSE {x} \cup G[s.parent[x]] \cup G[s.parent[x]]
    BY <2>1, Zenon DEF IsBelow
  <2>3. G[0] = {} /\ \A x \in D : G[x] = {x} \cup G[P[x]] \cup G[P[x]]
    BY <1>1, <1>2, <2>2
  <2> HIDE DEF F, L, R, P
  <2>4. Layered(D, D, P, P, F)
    BY <1>1, <1>4, <1>5 DEF Layered, Closed
  <2>5. \A x \in D \cup {0} : G[x] = F[x]
    BY <2>3, <2>4, BelowIsUnique
  <2> QED
    BY <2>1, <2>5
<1>7. \A z \in D : Path(s, z) = Over(D, B, z)
  <2> HIDE DEF F
  <2> QED
    BY <1>4, <1>6
<1> QED
  BY <1>3, <1>7

\* The rules, for the nodes below r by their parents and colours.
Half(L, R, x) == 0 \in {L[x], R[x]}
Dark(D, B, c, x) == {y \in Over(D, B, x) : c[y] = "black"}
Rules(D, L, R, P, B, r, c) ==
  /\ \A x \in B[r] : c[x] = "red" /\ P[x] # 0 => c[P[x]] = "black"
  /\ \A x, y \in B[r] : Half(L, R, x) /\ Half(L, R, y) =>
       Cardinality(Dark(D, B, c, x)) = Cardinality(Dark(D, B, c, y))

\* The rules of the model in these terms.
LEMMA RedBlackIs ==
  ASSUME NEW t, NEW D, NEW K, NEW B, IsTreeOf(t, D, K, B), NEW s, SameLinks(s, t), t.root \in D
  PROVE  RedBlack(s) <=> Rules(D, t.left, t.right, t.parent, B, t.root, s.color)
<1>0. SortedTree(D, t.left, t.right, t.parent, K, B)
  BY DEF IsTreeOf
<1>1. s.root = t.root /\ s.left = t.left /\ s.right = t.right /\ s.parent = t.parent
  BY DEF SameLinks
<1>2. Below(s, s.root) = B[t.root] /\ \A x \in D : Path(s, x) = Over(D, B, x)
  <2>1. 0 \notin D
    BY <1>0, TreeFacts
  <2>2. \A z \in D \cup {0} : Below(s, z) = B[z] /\ (z # 0 => Path(s, z) = Over(D, B, z))
    BY SameBelow
  <2> QED
    BY <1>1, <2>1, <2>2
<1>3. B[t.root] \subseteq D
  BY <1>0, TreeFacts
<1>4. \A x \in B[t.root] : Blacks(s, x) = Cardinality(Dark(D, B, s.color, x))
  BY <1>2, <1>3 DEF Blacks, Dark
<1>5. \A x : Half(t.left, t.right, x) <=> 0 \in {s.left[x], s.right[x]}
  BY <1>1 DEF Half
<1> QED
  BY <1>1, <1>2, <1>4, <1>5, Zenon DEF RedBlack, Rules

\* The search for a place ends at a node that has room for a child.
PlaceOf(left, right, root, n) ==
  LET side(x) == IF n < x THEN left[x] ELSE right[x]
      end[x \in DOMAIN left] == IF side(x) = 0 THEN x ELSE end[side(x)]
  IN end[root]

\* Nor do they change the place of a key,
LEMMA SamePlace ==
  ASSUME NEW t, NEW s, SameLinks(s, t), NEW n
  PROVE  Place(s, n) = Place(t, n)
<1>1. /\ Place(s, n) = PlaceOf(s.left, s.right, s.root, n)
      /\ Place(t, n) = PlaceOf(t.left, t.right, t.root, n)
  BY Zenon DEF Place, PlaceOf
<1>2. s.left = t.left /\ s.right = t.right /\ s.root = t.root
  BY DEF SameLinks
<1> QED
  BY <1>1, <1>2

\* which is a node of the tree with room for a child.
LEMMA PlaceIsBelow ==
  ASSUME NEW t, NEW D, NEW K, NEW B, SortedTree(D, t.left, t.right, t.parent, K, B), t.root \in D, NEW n
  PROVE  Place(t, n) \in B[t.root] /\ Half(t.left, t.right, Place(t, n))
<1> DEFINE L == t.left
           R == t.right
<1>1. /\ L \in Links(D) /\ R \in Links(D) /\ 0 \notin D /\ Layered(D, D, L, R, B)
      /\ \A x \in D : /\ L[x] \in D \cup {0} /\ R[x] \in D \cup {0} /\ x \in B[x]
                      /\ B[x] = {x} \cup B[L[x]] \cup B[R[x]]
  BY TreeFacts DEF SortedTree
<1>2. PICK f : /\ Place(t, n) = f[t.root]
               /\ \A x \in D : \E c \in {L[x], R[x]} : f[x] = IF c = 0 THEN x ELSE f[c]
  BY <1>1, PlaceIs
<1> HIDE DEF L, R
<1> DEFINE Ends(x) == f[x] \in B[x] /\ Half(L, R, f[x])
           U == {x \in D : ~Ends(x)}
<1>3. ASSUME U # {} PROVE FALSE
  <2>1. PICK x \in U : L[x] \notin U /\ R[x] \notin U
    <3>1. U \subseteq D
      OBVIOUS
    <3> HIDE DEF U
    <3> QED
      BY <1>1, <1>3, <3>1, LowestIs
  <2>2. x \in D /\ ~Ends(x)
    OBVIOUS
  <2>3. PICK c \in {L[x], R[x]} : f[x] = IF c = 0 THEN x ELSE f[c]
    BY <1>2, <2>2
  <2>4. CASE c = 0
    BY <1>1, <2>2, <2>3, <2>4 DEF Half
  <2>5. CASE c # 0
    <3>1. c \in D /\ Ends(c)
      BY <1>1, <2>1, <2>2, <2>3, <2>5
    <3> QED
      BY <1>1, <2>2, <2>3, <2>5, <3>1
  <2> QED
    BY <2>4, <2>5
<1>4. Ends(t.root)
  BY <1>3
<1> QED
  BY <1>2, <1>4 DEF L, R

\* Nothing is over the nodes below the root but those.
LEMMA RootIsOver ==
  ASSUME NEW D, NEW L, NEW R, NEW P, NEW K, NEW B, SortedTree(D, L, R, P, K, B),
         NEW r \in D, P[r] = 0, NEW x \in B[r]
  PROVE  Over(D, B, x) \subseteq B[r]
<1>1. B[r] \subseteq D /\ r \in B[r] /\ 0 \notin D /\ \A y \in B[r] : y # r => P[y] \in B[r]
  BY TreeFacts, ParentsBelow
<1>2. \A y \in D : x \in B[y] => y \in B[r]
  <2> DEFINE U == {y \in B[r] : \E z \in D : y \in B[z] /\ z \notin B[r]}
  <2>1. ASSUME U # {} PROVE FALSE
    <3>1. PICK y \in U : \A z \in U : L[z] # y /\ R[z] # y
      <4>1. U \subseteq D
        BY <1>1
      <4> HIDE DEF U
      <4> QED
        BY <2>1, <4>1, HighestIs, TreeFacts
    <3>2. PICK z \in D : y \in B[z] /\ z \notin B[r]
      OBVIOUS
    <3>3. y # z /\ y \in D /\ y \in B[r]
      BY <1>1, <3>2
    <3>4. P[y] \in B[z] /\ B[z] \subseteq D
      BY <3>2, <3>3, ParentsBelow, TreeFacts
    <3>5. y # r /\ P[y] \in B[r] /\ P[y] \in D
      BY <1>1, <3>3, <3>4
    <3>6. P[y] \in U /\ (L[P[y]] = y \/ R[P[y]] = y)
      BY <3>2, <3>3, <3>4, <3>5 DEF SortedTree
    <3> QED
      BY <3>1, <3>6
  <2> QED
    BY <1>1, <2>1
<1> QED
  BY <1>2 DEF Over

\* What the change of colours does to the rules: p is where the search ends.
LEMMA RulesOfRoot ==
  ASSUME NEW D, NEW L, NEW R, NEW P, NEW K, NEW B, SortedTree(D, L, R, P, K, B),
         NEW r \in D, P[r] = 0, NEW c, NEW e, Rules(D, L, R, P, B, r, c), c[r] = "red",
         e[r] = "black", \A x \in B[r] \ {r} : e[x] = c[x]
  PROVE  Rules(D, L, R, P, B, r, e)
<1>1. B[r] \subseteq D /\ r \in B[r] /\ IsFiniteSet(D) /\ \A x \in B[r] : x # r => P[x] \in B[r]
  BY TreeFacts, ParentsBelow
<1>2. \A x \in B[r] : e[x] = "red" /\ P[x] # 0 => e[P[x]] = "black"
  <2> TAKE x \in B[r]
  <2> HAVE e[x] = "red" /\ P[x] # 0
  <2>1. x # r /\ c[x] = "red" /\ P[x] \in B[r]
    BY <1>1
  <2>2. c[P[x]] = "black"
    BY <2>1 DEF Rules
  <2> QED
    BY <2>1, <2>2
<1>3. ASSUME NEW x \in B[r]
      PROVE  Cardinality(Dark(D, B, e, x)) = Cardinality(Dark(D, B, c, x)) + 1
  <2>1. Over(D, B, x) \subseteq B[r]
    BY RootIsOver
  <2>2. r \in Over(D, B, x)
    BY DEF Over
  <2>3. Dark(D, B, e, x) = Dark(D, B, c, x) \cup {r} /\ r \notin Dark(D, B, c, x)
    BY <2>1, <2>2 DEF Dark
  <2>4. IsFiniteSet(Dark(D, B, c, x))
    <3>1. Dark(D, B, c, x) \subseteq D
      BY DEF Dark, Over
    <3> QED
      BY <1>1, <3>1, FS_Subset
  <2> QED
    BY <2>3, <2>4, FS_AddElement
<1>4. \A x, y \in B[r] : Half(L, R, x) /\ Half(L, R, y) =>
        Cardinality(Dark(D, B, e, x)) = Cardinality(Dark(D, B, e, y))
  <2> TAKE x, y \in B[r]
  <2> HAVE Half(L, R, x) /\ Half(L, R, y)
  <2>1. Cardinality(Dark(D, B, c, x)) = Cardinality(Dark(D, B, c, y))
    BY DEF Rules
  <2> QED
    BY <1>3, <2>1
<1> QED
  BY <1>2, <1>4 DEF Rules

\* Two nodes below different children of a node are not below each other.
LEMMA LeafBeside ==
  ASSUME NEW D, NEW L, NEW R, NEW P, NEW K, NEW B, SortedTree(D, L, R, P, K, B),
         NEW p \in D, P[p] # 0
  PROVE  \E z \in B[P[p]] \ B[p] : Half(L, R, z)
<1> DEFINE q == P[p]
<1>1. /\ 0 \notin D /\ B[0] = {}
      /\ \A x \in D : /\ L[x] \in D \cup {0} /\ R[x] \in D \cup {0} /\ P[x] \in D \cup {0}
                      /\ K[x] \in Int /\ B[x] \subseteq D /\ x \in B[x]
                      /\ B[x] = {x} \cup B[L[x]] \cup B[R[x]]
                      /\ \A y \in B[L[x]] : K[y] < K[x]
                      /\ \A y \in B[R[x]] : K[x] < K[y]
  BY TreeFacts
<1>2. q \in D /\ (L[q] = p \/ R[q] = p)
  BY <1>1 DEF SortedTree
<1> HIDE DEF q
<1>3. q \notin B[p]
  <2>1. \A y \in B[p] : K[y] < K[q] \/ K[q] < K[y]
    BY <1>1, <1>2
  <2> QED
    BY <1>1, <1>2, <2>1
<1>4. PICK c \in {L[q], R[q]} : c # p /\ {L[q], R[q]} = {p, c}
  <2>1. L[q] # R[q] \/ L[q] = 0
    <3> SUFFICES ASSUME L[q] = R[q], L[q] # 0 PROVE FALSE
      OBVIOUS
    <3>1. L[q] \in D /\ L[q] \in B[L[q]] /\ L[q] \in B[R[q]]
      BY <1>1, <1>2
    <3>2. K[L[q]] < K[q] /\ K[q] < K[L[q]] /\ K[q] \in Int /\ K[L[q]] \in Int
      BY <1>1, <1>2, <3>1
    <3> QED
      BY <3>2
  <2>2. p # 0
    BY <1>1
  <2>3. CASE L[q] = p
    BY <2>1, <2>2, <2>3
  <2>4. CASE R[q] = p /\ L[q] # p
    BY <2>4
  <2> QED
    BY <1>2, <2>3, <2>4
<1>5. CASE c = 0
  <2>1. q \in B[q] \ B[p] /\ Half(L, R, q)
    BY <1>1, <1>2, <1>3, <1>4, <1>5 DEF Half
  <2> QED
    BY <2>1 DEF q
<1>6. CASE c # 0
  <2>1. c \in D
    BY <1>1, <1>2, <1>4, <1>6
  <2>2. Down(L, c) \in B[c] /\ L[Down(L, c)] = 0
    BY <2>1, LeastBelow
  <2>3. \A y \in B[c] : y \in B[q] /\ y \notin B[p]
    <3> TAKE y \in B[c]
    <3>1. y \in D /\ K[y] \in Int /\ K[q] \in Int
      BY <1>1, <1>2, <2>1
    <3>2. CASE c = L[q]
      <4>1. p = R[q]
        BY <1>4, <3>2
      <4>2. K[y] < K[q] /\ \A z \in B[p] : K[q] < K[z]
        BY <1>1, <1>2, <3>2, <4>1
      <4> QED
        BY <1>1, <1>2, <3>1, <3>2, <4>2
    <3>3. CASE c = R[q]
      <4>1. p = L[q]
        BY <1>4, <3>3
      <4>2. K[q] < K[y] /\ \A z \in B[p] : K[z] < K[q]
        BY <1>1, <1>2, <3>3, <4>1
      <4> QED
        BY <1>1, <1>2, <3>1, <3>3, <4>2
    <3> QED
      BY <1>4, <3>2, <3>3
  <2> QED
    BY <2>2, <2>3 DEF Half, q
<1> QED
  BY <1>5, <1>6

\* A red parent that becomes black under one that becomes red takes a black node
\* from the other leaves there alone.
LEMMA RulesOfOther ==
  ASSUME NEW D, NEW L, NEW R, NEW P, NEW K, NEW B, SortedTree(D, L, R, P, K, B),
         NEW r \in D, P[r] = 0, NEW c, NEW e, Rules(D, L, R, P, B, r, c),
         NEW p \in B[r], p # r, c[p] = "red", Half(L, R, p),
         e[p] = "black", e[P[p]] = "red", \A x \in B[r] \ {p, P[p]} : e[x] = c[x]
  PROVE  ~Rules(D, L, R, P, B, r, e)
<1> DEFINE q == P[p]
           C(f, x) == Cardinality(Dark(D, B, f, x))
<1>1. /\ B[r] \subseteq D /\ 0 \notin D /\ IsFiniteSet(D) /\ q \in B[r] /\ q \in D /\ p \in D
      /\ B[q] \subseteq B[r] /\ B[q] \subseteq D
  BY TreeFacts, ParentsBelow
<1>2. c[q] = "black" /\ q # p
  BY <1>1 DEF Rules
<1>3. PICK z \in B[q] \ B[p] : Half(L, R, z)
  BY <1>1, LeafBeside
<1>4. z \in B[r] /\ z \in D
  BY <1>1, <1>3
<1>5. Over(D, B, p) \subseteq B[r] /\ Over(D, B, z) \subseteq B[r] /\ Over(D, B, p) \subseteq D /\ Over(D, B, z) \subseteq D
  <2>1. Over(D, B, p) \subseteq B[r] /\ Over(D, B, z) \subseteq B[r]
    BY <1>4, RootIsOver
  <2> QED
    BY <2>1 DEF Over
<1>6. p \in Over(D, B, p) /\ q \in Over(D, B, p) /\ q \in Over(D, B, z) /\ p \notin Over(D, B, z)
  <2>1. p \in B[p] /\ p \in B[q]
    <3>1. L[q] = p \/ R[q] = p
      BY <1>1 DEF SortedTree
    <3> QED
      BY <1>1, <3>1, TreeFacts
  <2> QED
    BY <1>1, <1>3, <2>1 DEF Over
<1> HIDE DEF q
<1>7. /\ e[p] = "black" /\ e[q] = "red" /\ c[p] = "red" /\ c[q] = "black"
      /\ \A x \in B[r] \ {p, q} : e[x] = c[x]
  BY <1>2 DEF q
<1>8. /\ Dark(D, B, e, p) = (Dark(D, B, c, p) \ {q}) \cup {p}
      /\ q \in Dark(D, B, c, p) /\ p \notin Dark(D, B, c, p) \ {q}
  BY <1>2, <1>5, <1>6, <1>7 DEF Dark
<1>9. Dark(D, B, e, z) = Dark(D, B, c, z) \ {q} /\ q \in Dark(D, B, c, z)
  BY <1>2, <1>5, <1>6, <1>7 DEF Dark
<1>10. /\ IsFiniteSet(Dark(D, B, c, p)) /\ IsFiniteSet(Dark(D, B, c, z))
  <2>1. Dark(D, B, c, p) \subseteq D /\ Dark(D, B, c, z) \subseteq D
    BY <1>5 DEF Dark
  <2> QED
    BY <1>1, <2>1, FS_Subset
<1>11. C(e, z) = C(c, z) - 1 /\ C(c, z) \in Nat
  BY <1>9, <1>10, FS_RemoveElement, FS_CardinalityType
<1>12. C(e, p) = C(c, p)
  <2> DEFINE Q == Dark(D, B, c, p) \ {q}
  <2>1. IsFiniteSet(Q) /\ Cardinality(Q) = C(c, p) - 1 /\ C(c, p) \in Nat
    BY <1>8, <1>10, FS_RemoveElement, FS_CardinalityType
  <2>2. p \notin Q /\ Dark(D, B, e, p) = Q \cup {p}
    BY <1>8
  <2> HIDE DEF Q
  <2>3. Cardinality(Q \cup {p}) = Cardinality(Q) + 1
    BY <2>1, <2>2, FS_AddElement
  <2> QED
    BY <2>1, <2>2, <2>3
<1>13. C(c, p) = C(c, z)
  BY <1>3, <1>4 DEF Rules
<1>14. Rules(D, L, R, P, B, r, e) => C(e, p) = C(e, z)
  BY <1>3, <1>4 DEF Rules
<1> HIDE DEF C
<1> QED
  BY <1>11, <1>12, <1>13, <1>14

\* rb_insert: the first node becomes the root; every other is linked to nothing, and
\* the loop behind the search, left in its first round, changes colours alone.
LEMMA InsertIs ==
  ASSUME NEW t, NEW D, SearchTree(t), D = DOMAIN t.left, NEW n \in D, t.color[n] = "none"
  PROVE  LET s == RbInsert(t, n) p == Place(t, n)
         IN IF t.root = 0 THEN s.root = n /\ Below(s, n) = {n}
            ELSE /\ <<s.root, s.left, s.right, s.parent>> = <<t.root, t.left, t.right, t.parent>>
                 /\ RedBlack(t) => (RedBlack(s) <=> t.color[p] = "black" \/ p = t.root)
<1> DEFINE new == [t EXCEPT !.parent[n] = 0, !.left[n] = 0, !.right[n] = 0, !.color[n] = "red"]
           L == t.left
           R == t.right
           P == t.parent
           r == t.root
           p == Place(t, n)
           s == RbInsert(t, n)
           N == Below(t, r)
<1>1. /\ t \in [root : D \cup {0}, left : Links(D), right : Links(D), parent : Links(D),
                color : [D -> {"none", "red", "black"}]]
      /\ r # 0 => P[r] = 0
      /\ 0 \notin D /\ D \subseteq Nat
      /\ \A x \in D : IF x \in N THEN t.color[x] # "none"
                      ELSE t.color[x] = "none" /\ {L[x], R[x], P[x]} = {0}
  BY DEF SearchTree, Links
<1>2. n \notin N /\ L[n] = 0 /\ R[n] = 0 /\ P[n] = 0
  <2>1. n \notin N
    BY <1>1
  <2>2. {L[n], R[n], P[n]} = {0}
    BY <1>1, <2>1
  <2> QED
    BY <2>1, <2>2
<1>3. /\ new.root = r /\ new.left = L /\ new.right = R /\ new.parent = P
      /\ new.color = [t.color EXCEPT ![n] = "red"]
      /\ new \in [root : D \cup {0}, left : Links(D), right : Links(D), parent : Links(D),
                  color : [D -> {"none", "red", "black"}]]
  <2>1. /\ [L EXCEPT ![n] = 0] = L /\ [R EXCEPT ![n] = 0] = R /\ [P EXCEPT ![n] = 0] = P
    BY <1>1, <1>2 DEF Links
  <2>2. /\ new.root = r /\ new.left = [L EXCEPT ![n] = 0] /\ new.right = [R EXCEPT ![n] = 0]
        /\ new.parent = [P EXCEPT ![n] = 0] /\ new.color = [t.color EXCEPT ![n] = "red"]
    BY <1>1
  <2>3. [t.color EXCEPT ![n] = "red"] \in [D -> {"none", "red", "black"}]
    BY <1>1
  <2>4. new \in [root : D \cup {0}, left : Links(D), right : Links(D), parent : Links(D),
               color : [D -> {"none", "red", "black"}]]
    BY <1>1, <2>1, <2>3
  <2> HIDE DEF new
  <2> QED
    BY <2>1, <2>2, <2>4
<1> HIDE DEF new
<1>4. \A x \in D : new.color[x] = IF x = n THEN "red" ELSE t.color[x]
  BY <1>1, <1>3
<1>5. s = IF r = 0 THEN [new EXCEPT !.root = n] ELSE Rebalanced(new, n, Place(new, n))
  BY DEF RbInsert, new
<1>6. CASE r = 0
  <2> DEFINE u == [new EXCEPT !.root = n]
  <2>1. u.root = n /\ u.left = L /\ u.right = R
    BY <1>3
  <2>2. s = u
    BY <1>5, <1>6
  <2> HIDE DEF u, s
  <2>3. PICK G : IsBelow(G, D, L, R) /\ \A x \in D \cup {0} : Below(u, x) = G[x]
    <3>1. D = DOMAIN u.left /\ u.left \in Links(D) /\ u.right \in Links(D)
      BY <1>1, <2>1
    <3> QED
      BY <1>1, <2>1, <3>1, BelowIs
  <2>4. \A x \in D \cup {0} : G[x] = IF x = 0 THEN {} ELSE {x} \cup G[L[x]] \cup G[R[x]]
    BY <2>3, Zenon DEF IsBelow
  <2>5. G[0] = {} /\ G[n] = {n} \cup G[L[n]] \cup G[R[n]]
    BY <1>1, <2>4
  <2>6. Below(u, n) = {n}
    BY <1>2, <2>3, <2>5
  <2> QED
    BY <1>6, <2>1, <2>2, <2>6 DEF s
<1>7. CASE r # 0
  <2>1. PICK B : /\ SortedTree(D, L, R, P, Keys1(D), B)
                 /\ \A x \in D \cup {0} : Below(t, x) = B[x]
    BY SearchTreeIs
  <2>2. IsTreeOf(t, D, Keys1(D), B) /\ r \in D /\ P[r] = 0 /\ N = B[r] /\ N \subseteq D
    <3>1. r \in D /\ P[r] = 0 /\ N = B[r]
      BY <1>1, <1>7, <2>1
    <3>2. B[r] \subseteq D
      BY <2>1, <3>1, TreeFacts
    <3> QED
      BY <2>1, <3>1, <3>2 DEF IsTreeOf
  <2>3. SameLinks(t, t) /\ SameLinks(new, t)
    BY <1>3 DEF SameLinks
  <2>4. p \in N /\ Half(L, R, p) /\ p \in D /\ p # n
    <3>1. Place(t, n) \in B[r] /\ Half(L, R, Place(t, n))
      BY <2>1, <2>2, PlaceIsBelow
    <3> QED
      BY <1>2, <2>2, <3>1
  <2>5. s = Rebalanced(new, n, p)
    <3>1. Place(new, n) = p
      BY <2>3, SamePlace
    <3> QED
      BY <1>5, <1>7, <3>1
  <2>6. t.color[p] \in {"red", "black"} /\ new.color[p] = t.color[p] /\ new.parent[p] = P[p]
    BY <1>1, <1>3, <1>4, <2>4
  <2> HIDE DEF s, p, N
  <2>7. RedBlack(t) <=> Rules(D, L, R, P, B, r, t.color)
    BY <2>2, <2>3, RedBlackIs
  <2>8. ASSUME NEW e, s.color = e, SameLinks(s, t)
        PROVE  /\ <<s.root, s.left, s.right, s.parent>> = <<r, L, R, P>>
               /\ RedBlack(s) <=> Rules(D, L, R, P, B, r, e)
    <3>1. <<s.root, s.left, s.right, s.parent>> = <<r, L, R, P>>
      BY <2>8 DEF SameLinks
    <3> QED
      BY <2>2, <2>8, <3>1, RedBlackIs
  <2>9. ASSUME NEW x \in N PROVE new.color[x] = t.color[x]
    BY <1>2, <1>4, <2>2
  <2>10. CASE t.color[p] = "black"
    <3>1. s = new
      BY <2>5, <2>6, <2>10 DEF Rebalanced
    <3>2. /\ <<s.root, s.left, s.right, s.parent>> = <<r, L, R, P>>
          /\ RedBlack(s) <=> Rules(D, L, R, P, B, r, new.color)
      BY <2>3, <2>8, <3>1
    <3>3. Rules(D, L, R, P, B, r, t.color) => Rules(D, L, R, P, B, r, new.color)
      <4>1. \A x \in N : x # r => P[x] \in N
        BY <2>1, <2>2, ParentsBelow
      <4>2. \A x \in N : Dark(D, B, new.color, x) = Dark(D, B, t.color, x)
        <5> TAKE x \in N
        <5>1. Over(D, B, x) \subseteq N
          BY <2>1, <2>2, RootIsOver
        <5> QED
          BY <5>1, <2>9 DEF Dark
      <4> QED
        BY <2>2, <2>9, <4>1, <4>2 DEF Rules
    <3> QED
      BY <1>7, <2>7, <2>10, <3>2, <3>3 DEF s, p
  <2>11. CASE t.color[p] = "red" /\ P[p] = 0
    <3>1. p = r
      <4>1. p # r => P[p] \in B[r]
        BY <2>1, <2>2, <2>4, ParentsBelow
      <4> QED
        BY <1>1, <2>2, <2>11, <4>1
    <3>2. s = [new EXCEPT !.color[p] = "black"]
      BY <2>5, <2>6, <2>11 DEF Rebalanced
    <3>3. s.root = r /\ s.left = L /\ s.right = R /\ s.parent = P /\ s.color = [new.color EXCEPT ![p] = "black"]
      BY <1>3, <3>2
    <3>4. s.color[r] = "black" /\ \A x \in N \ {r} : s.color[x] = t.color[x]
      BY <1>3, <2>2, <2>9, <3>1, <3>3
    <3>5. /\ <<s.root, s.left, s.right, s.parent>> = <<r, L, R, P>>
          /\ RedBlack(s) <=> Rules(D, L, R, P, B, r, s.color)
      <4>1. SameLinks(s, t)
        BY <3>3 DEF SameLinks
      <4> QED
        BY <2>8, <4>1
    <3>6. Rules(D, L, R, P, B, r, t.color) => Rules(D, L, R, P, B, r, s.color)
      BY <2>1, <2>2, <2>11, <3>1, <3>4, RulesOfRoot
    <3> QED
      BY <1>7, <2>7, <3>1, <3>5, <3>6 DEF s, p
  <2>12. CASE t.color[p] = "red" /\ P[p] # 0
    <3> DEFINE q == P[p]
    <3>1. p # r /\ q \in N /\ q \in D /\ (L[q] = p \/ R[q] = p)
      <4>1. p # r
        BY <2>2, <2>12
      <4>2. q \in N
        BY <2>1, <2>2, <2>4, <4>1, ParentsBelow
      <4> QED
        BY <2>1, <2>2, <2>4, <4>1, <4>2 DEF SortedTree
    <3>2. RbSibling(new, p) = p
      BY <1>3, <2>6, <3>1 DEF RbSibling
    <3>3. s = Recolored(new, p, p, q)
      BY <2>5, <2>6, <2>12, <3>2 DEF Rebalanced
    <3>4. /\ s.root = r /\ s.left = L /\ s.right = R /\ s.parent = P
          /\ s.color = [[[new.color EXCEPT ![p] = "black"] EXCEPT ![p] = "black"] EXCEPT ![q] = "red"]
      BY <1>3, <3>3 DEF Recolored
    <3>5. p # q
      BY <2>1, <2>4, OverIs, TreeFacts DEF Over
    <3>6. /\ s.color[p] = "black" /\ s.color[q] = "red" /\ \A x \in N \ {p, q} : s.color[x] = t.color[x]
      BY <1>3, <2>2, <2>4, <2>9, <3>1, <3>4, <3>5
    <3>7. /\ <<s.root, s.left, s.right, s.parent>> = <<r, L, R, P>>
          /\ RedBlack(s) <=> Rules(D, L, R, P, B, r, s.color)
      <4>1. SameLinks(s, t)
        BY <3>4 DEF SameLinks
      <4> QED
        BY <2>8, <4>1
    <3>8. Rules(D, L, R, P, B, r, t.color) => ~Rules(D, L, R, P, B, r, s.color)
      BY <2>1, <2>2, <2>4, <2>12, <3>1, <3>6, RulesOfOther
    <3> QED
      BY <1>7, <2>7, <2>12, <3>1, <3>7, <3>8 DEF s, p
  <2> QED
    BY <2>6, <2>10, <2>11, <2>12
<1> QED
  BY <1>6, <1>7

-----------------------------------------------------------------------------
(* The walks of a tree.                                                    *)

\* The walks of CallRbWalk.
WalkUp(t)   == Walk(RbFirst(t), [x \in DOMAIN t.left \cup {0} |-> RbNext(t, x)], Cardinality(DOMAIN t.left))
WalkDown(t) == Walk(RbLast(t), [x \in DOMAIN t.left \cup {0} |-> RbPrev(t, x)], Cardinality(DOMAIN t.left))

\* The walks of a search tree are in order.
LEMMA WalksMeetKeys ==
  ASSUME NEW t, SearchTree(t)
  PROVE  MeetsAll(WalkUp(t), WalkDown(t), Below(t, t.root))
<1> DEFINE D == DOMAIN t.left
           N == Below(t, t.root)
           n == Cardinality(D)
           c == Cardinality(N)
<1>1. LET up   == Walk(RbFirst(t), [x \in D \cup {0} |-> RbNext(t, x)], n)
          down == Walk(RbLast(t), [x \in D \cup {0} |-> RbPrev(t, x)], n)
      IN /\ n \in Nat /\ c <= n /\ N \subseteq D
         /\ up \in [1..n + 1 -> D \cup {0}] /\ down \in [1..n + 1 -> D \cup {0}]
         /\ InOrder(up, N, Keys1(D), n) /\ InOrder(down, N, Keys2(D), n)
  BY WalksAre, Zenon
<1>2. /\ n \in Nat /\ c <= n /\ N \subseteq D
      /\ WalkUp(t) \in [1..n + 1 -> D \cup {0}] /\ WalkDown(t) \in [1..n + 1 -> D \cup {0}]
      /\ InOrder(WalkUp(t), N, Keys1(D), n) /\ InOrder(WalkDown(t), N, Keys2(D), n)
  BY <1>1, Zenon DEF WalkUp, WalkDown
<1>3. IsFiniteSet(D) /\ D \subseteq Nat
  BY DEF SearchTree
<1>4. IsFiniteSet(N) /\ c \in Nat
  BY <1>2, <1>3, FS_Subset, FS_CardinalityType
<1> HIDE DEF D, N, n
<1>5. MeetsAll(WalkUp(t), WalkDown(t), N)
  BY <1>2, <1>3, <1>4, WalksMeetAll
<1> QED
  BY <1>5 DEF N

-----------------------------------------------------------------------------
(* The invariant and the theorems.                                         *)

\* What was called is a function of these files, on arguments of its set.
Answers ==
  /\ fn = "des_ecb" => arg \in Messages /\ res = EcbDecrypt(EcbEncrypt(arg), Len(arg))
  /\ fn = "hash" => arg \in Messages /\ res = <<SiphashWords(arg), MurmurWords(arg)>>
  /\ fn = "bit_test_and" =>
       \E m \in Memories : \E i \in 0..8 * Len(m) - 1, op \in {"set", "clear", "flip"} :
         arg = [op |-> op, base |-> m, i |-> i] /\ res = BitTestAnd(op, m, i)
  /\ fn = "rotl_rotr" => \E x \in BitWords : \E n \in 0..Len(x) :
                           arg = [x |-> x, n |-> n] /\ res = <<Rotl(x, n), Rotr(x, n)>>
  /\ fn = "gcd_lcm" => \E a, b \in Factors, any \in Overflows :
                          arg = <<a, b>> /\ res = <<Gcd(a, b), Lcm(a, b, any)>>
  /\ fn = "log2" => arg \in Logs /\ res = <<FloorLog2(arg), CeilLog2(arg)>>
  /\ fn = "key_schedule" => arg \in Keys /\ res = KeySchedule(arg)
  /\ fn = "rb_walk" => arg \in Trees /\ res = <<WalkUp(arg), WalkDown(arg)>>
  /\ fn = "rb_rotate" =>
       \E t \in Trees : \E n \in DOMAIN t.left : \E pivot \in {t.left[n], t.right[n]} \ {0} :
         arg = [tree |-> t, root |-> n, pivot |-> pivot] /\ res = RbRotate(t, n, pivot)
  /\ fn = "rb_insert" =>
       \E t \in Trees : \E n \in {m \in DOMAIN t.left : t.color[m] = "none"} :
         arg = [tree |-> t, node |-> n] /\ res = RbInsert(t, n)

\* The invariant holds at first,
LEMMA InitAnswers == Init => Answers
BY DEF Init, Answers

\* A call of another function than those.
LEMMA OtherCalls ==
  ASSUME fn' \notin {"des_ecb", "hash", "bit_test_and", "rotl_rotr", "gcd_lcm", "log2",
                    "key_schedule", "rb_walk", "rb_rotate", "rb_insert"}
  PROVE  Answers'
BY DEF Answers

\* in every step,
LEMMA NextAnswers == Answers /\ [Next]_vars => Answers'
<1> SUFFICES ASSUME Answers, [Next]_vars PROVE Answers'
  OBVIOUS
<1>1. CASE UNCHANGED vars
  BY <1>1 DEF vars, Answers
<1>2. CASE Return
  BY <1>2, OtherCalls DEF Return
<1>3. CASE CallHexEncode \/ CallHexDecode \/ CallB64Encode \/ CallB64Decode
  BY <1>3, OtherCalls DEF CallHexEncode, CallHexDecode, CallB64Encode, CallB64Decode, Call
<1>4. CASE CallIpv4ToStr \/ CallIpv4ToBin \/ CallIpv6ToStr \/ CallIpv6ToBin \/ CallIpv6ToBinOfAny
           \/ CallIpv6Norm
  BY <1>4, OtherCalls DEF CallIpv4ToStr, CallIpv4ToBin, CallIpv6ToStr, CallIpv6ToBin, CallIpv6ToBinOfAny,
     CallIpv6Norm, Call
<1>5. CASE CallUriParse
  BY <1>5, OtherCalls DEF CallUriParse, Call
<1>6. CASE CallUriNormalize \/ CallUriNormalizeScheme \/ CallUriNormalizeHost
  BY <1>6, OtherCalls DEF CallUriNormalize, CallUriNormalizeScheme, CallUriNormalizeHost, Call
<1>7. CASE CallEcb
  BY <1>7 DEF CallEcb, Call, Answers
<1>8. CASE CallHash
  BY <1>8 DEF CallHash, Call, Answers
<1>9. CASE CallKeySchedule
  BY <1>9 DEF CallKeySchedule, Call, Answers
<1>11. CASE CallBitTestAnd
  <2>1. fn' = "bit_test_and" /\ \E m \in Memories : \E i \in 0..8 * Len(m) - 1, op \in {"set", "clear", "flip"} :
          arg' = [op |-> op, base |-> m, i |-> i] /\ res' = BitTestAnd(op, m, i)
    BY <1>11, Zenon DEF CallBitTestAnd, Call
  <2> QED
    BY <2>1 DEF Answers
<1>12. CASE CallRotate
  <2>1. PICK x \in BitWords : \E n \in IF Len(x) < 32 THEN 0..Len(x) ELSE 1..Len(x) - 1 :
          Call("rotl_rotr", [x |-> x, n |-> n], <<Rotl(x, n), Rotr(x, n)>>)
    BY <1>12, Zenon DEF CallRotate
  <2>2. PICK n \in IF Len(x) < 32 THEN 0..Len(x) ELSE 1..Len(x) - 1 :
          Call("rotl_rotr", [x |-> x, n |-> n], <<Rotl(x, n), Rotr(x, n)>>)
    BY <2>1, Zenon
  <2>3. n \in 0..Len(x)
    BY IntegersAssumption
  <2> QED
    BY <2>2, <2>3 DEF Call, Answers
<1>13. CASE CallGcdLcm
  <2>1. fn' = "gcd_lcm" /\ \E a, b \in Factors, any \in Overflows :
                             arg' = <<a, b>> /\ res' = <<Gcd(a, b), Lcm(a, b, any)>>
    BY <1>13, Zenon DEF CallGcdLcm, Call
  <2> QED
    BY <2>1 DEF Answers
<1>14. CASE CallLog2
  BY <1>14 DEF CallLog2, Call, Answers
<1>15. CASE CallRbWalk
  <2>1. fn' = "rb_walk" /\ arg' \in Trees /\ res' = <<WalkUp(arg'), WalkDown(arg')>>
    BY <1>15, Zenon DEF CallRbWalk, Call, WalkUp, WalkDown
  <2> QED
    BY <2>1 DEF Answers
<1>16. CASE CallRbRotate
  <2>1. fn' = "rb_rotate" /\
          \E t \in Trees : \E n \in DOMAIN t.left : \E pivot \in {t.left[n], t.right[n]} \ {0} :
            arg' = [tree |-> t, root |-> n, pivot |-> pivot] /\ res' = RbRotate(t, n, pivot)
    BY <1>16, Zenon DEF CallRbRotate, Call
  <2> QED
    BY <2>1 DEF Answers
<1>17. CASE CallRbInsert
  <2>1. fn' = "rb_insert" /\
          \E t \in Trees : \E n \in {m \in DOMAIN t.left : t.color[m] = "none"} :
            arg' = [tree |-> t, node |-> n] /\ res' = RbInsert(t, n)
    BY <1>17, Zenon DEF CallRbInsert, Call
  <2> QED
    BY <2>1 DEF Answers
<1> QED
  BY <1>1, <1>2, <1>3, <1>4, <1>5, <1>6, <1>7, <1>8, <1>9, <1>11, <1>12, <1>13, <1>14,
     <1>15, <1>16, <1>17 DEF Next

\* and always.
LEMMA AnswersHolds == Spec => []Answers
BY InitAnswers, NextAnswers, PTL DEF Spec

\* Under any cipher that decryption undoes, des_ecb_decrypt after des_ecb_encrypt
\* gives back the whole blocks of every message, and of the rest a reversed part.
THEOREM EcbGivesBack == Spec => []EcbReturns
<1>1. Answers => EcbReturns
  BY EcbIs, Zenon DEF Answers, EcbReturns, Returning
<1> QED
  BY <1>1, AnswersHolds, PTL

\* SipHash and MurmurHash absorb every byte of every message, once and in order.
THEOREM HashesAbsorbOnce == Spec => []AbsorbsOnce
<1>1. Answers => AbsorbsOnce
  <2> SUFFICES ASSUME Answers, fn = "hash"
               PROVE  /\ LittleEndian(res[1], 8) = arg \o Zeros(7 - (Len(arg) % 8)) \o <<Len(arg) % 256>>
                      /\ LittleEndian(res[2], 4) = arg \o Zeros((4 - (Len(arg) % 4)) % 4)
    BY Zenon DEF AbsorbsOnce
  <2>1. arg \in Seq(Bytes) /\ res = <<SiphashWords(arg), MurmurWords(arg)>>
    BY BytesAssumption DEF Answers, Bytes
  <2>2. res[1] = SiphashWords(arg) /\ res[2] = MurmurWords(arg)
    BY <2>1
  <2> QED
    BY <2>1, <2>2, SiphashAbsorbs, MurmurAbsorbs, Zenon
<1> QED
  BY <1>1, AnswersHolds, PTL

\* In memory of any length, a write goes to the bit that bit_test reads at the
\* mirrored place, and changes no other.
THEOREM WritesAreMirrored == Spec => []BitsMirrored
<1>1. Answers => BitsMirrored
  <2> SUFFICES ASSUME Answers, fn = "bit_test_and" PROVE BitsMirrored
    BY DEF BitsMirrored
  <2>1. PICK m \in Memories : \E i \in 0..8 * Len(m) - 1, op \in {"set", "clear", "flip"} :
          arg = [op |-> op, base |-> m, i |-> i] /\ res = BitTestAnd(op, m, i)
    BY DEF Answers
  <2>2. PICK i \in 0..8 * Len(m) - 1, op \in {"set", "clear", "flip"} :
          arg = [op |-> op, base |-> m, i |-> i] /\ res = BitTestAnd(op, m, i)
    BY <2>1
  <2>3. m \in Seq(Bytes)
    BY BytesAssumption DEF Bytes
  <2>4. arg.op = op /\ arg.base = m /\ arg.i = i
    BY <2>2
  <2>5. Mirrored(op, m, i, res)
    BY <2>2, <2>3, BitsAre, Zenon
  <2>6. Mirrored(arg.op, arg.base, arg.i, res)
    BY <2>4, <2>5, Zenon
  <2> QED
    BY <2>6, Zenon DEF BitsMirrored, Mirrored
<1> QED
  BY <1>1, AnswersHolds, PTL

\* For every word and distance, every int that has an abs and every unsigned int but
\* zero, of up to 32 bits: rotations move and restore the bits, gcd is the greatest
\* divisor, lcm the least multiple when the product of the two is an int, and the
\* logarithms are exact around the powers of two.
THEOREM IntegersAreExact == Spec => []Arithmetic
<1>1. ASSUME Answers, fn = "rotl_rotr"
      PROVE  /\ \A k \in 1..Len(arg.x) : res[1][k] = arg.x[((k - 1 + arg.n) % Len(arg.x)) + 1]
             /\ Rotr(res[1], arg.n) = arg.x /\ Rotl(res[2], arg.n) = arg.x
  <2>1. PICK x \in BitWords : \E n \in 0..Len(x) :
          arg = [x |-> x, n |-> n] /\ res = <<Rotl(x, n), Rotr(x, n)>>
    BY <1>1 DEF Answers
  <2>2. PICK n \in 0..Len(x) : arg = [x |-> x, n |-> n] /\ res = <<Rotl(x, n), Rotr(x, n)>>
    BY <2>1
  <2>3. arg.x = x /\ arg.n = n /\ res[1] = Rotl(x, n) /\ res[2] = Rotr(x, n)
    BY <2>2
  <2>4. x \in Seq(0..1) /\ Len(x) \in Nat \ {0}
    <3>1. x \in Seq(0..1) /\ Len(x) \in {8, 16, 32, 64}
      BY IntegersAssumption, Zenon
    <3> QED
      BY <3>1
  <2>5. Rotr(Rotl(x, n), n) = x /\ Rotl(Rotr(x, n), n) = x
    BY <2>4, RotationsUndo
  <2>6. ASSUME NEW k \in 1..Len(x) PROVE Rotl(x, n)[k] = x[((k - 1 + n) % Len(x)) + 1]
    <3>1. Rotl(x, n)[k] = IF k + n <= Len(x) THEN x[k + n] ELSE x[k + n - Len(x)]
      BY <2>4, RotationsAre
    <3>2. ((k - 1 + n) % Len(x)) + 1 = IF k + n <= Len(x) THEN k + n ELSE k + n - Len(x)
      BY <2>4, AroundIs
    <3> QED
      BY <3>1, <3>2
  <2> QED
    BY <2>3, <2>5, <2>6, Zenon
<1>2. ASSUME Answers, fn = "gcd_lcm"
      PROVE  LET a == Abs(arg[1]) b == Abs(arg[2])
             IN /\ Divides(res[1], a) /\ Divides(res[1], b)
                /\ \A d \in 1..a + b : Divides(d, a) /\ Divides(d, b) => d <= res[1]
                /\ a * b <= IntMax => IsLeastMultiple(res[2], a, b)
  <2>1. PICK m, n \in Factors, any \in Overflows : arg = <<m, n>> /\ res = <<Gcd(m, n), Lcm(m, n, any)>>
    BY <1>2 DEF Answers
  <2>2. arg[1] = m /\ arg[2] = n /\ res[1] = Gcd(m, n) /\ res[2] = Lcm(m, n, any)
    BY <2>1
  <2>3. m \in Int /\ n \in Int
    BY IntegersAssumption, WidthAssumption
  <2>4. LET a == Abs(m) b == Abs(n) g == Gcd(m, n) l == Lcm(m, n, any)
        IN /\ Divides(g, a) /\ Divides(g, b)
           /\ \A d \in 1..a + b : Divides(d, a) /\ Divides(d, b) => d <= g
           /\ a * b <= IntMax => IsLeastMultiple(l, a, b)
    BY <2>3, GcdLcmAre, Zenon
  <2> QED
    BY <2>2, <2>4
<1>3. ASSUME Answers, fn = "log2"
      PROVE  /\ 2^res[1] <= arg /\ arg \div 2 < 2^res[1]
             /\ IF arg = 1 THEN res[2] = 0
                ELSE 2^(res[2] - 1) < arg /\ (arg - 1) \div 2 < 2^(res[2] - 1)
  <2>1. arg \in Nat \ {0} /\ arg \div 2 < Pow(UintBits - 1)
    BY <1>3, IntegersAssumption, Zenon DEF Answers, Pow
  <2>2. res[1] = FloorLog2(arg) /\ res[2] = CeilLog2(arg)
    BY <1>3 DEF Answers
  <2> QED
    BY <2>1, <2>2, LogarithmsAre, Zenon DEF Pow
<1>4. Answers => Arithmetic
  BY <1>1, <1>2, <1>3, Zenon DEF Arithmetic
<1> QED
  BY <1>4, AnswersHolds, PTL

\* The sixteen tables of the key schedule pick the bits that FIPS 46-3 prescribes,
\* for every key.
THEOREM RoundKeysAreThoseOfDes == Spec => []KeyScheduleIsFips
<1>1. ASSUME Answers, fn = "key_schedule", NEW n \in 1..16, NEW j \in 1..48
      PROVE  res[n][j] = arg[Picked(j, Shifts[n])]
  <2>1. arg \in [1..64 -> 0..1] /\ res = KeySchedule(arg)
    BY <1>1, KeysAssumption DEF Answers
  <2> QED
    BY <2>1, KeyScheduleIs, Zenon
<1>2. Answers => KeyScheduleIsFips
  BY <1>1, Zenon DEF KeyScheduleIsFips, Picked
<1> QED
  BY <1>2, AnswersHolds, PTL

\* In every search tree that its user has linked, rb_next from rb_first meets every
\* key once and upwards, rb_prev from rb_last downwards, and both end with NULL.
THEOREM WalksAreInOrder == Spec => []TraversalInOrder
<1>1. ASSUME Answers, fn = "rb_walk"
      PROVE  MeetsAll(res[1], res[2], Below(arg, arg.root))
  <2>1. arg \in Trees /\ res[1] = WalkUp(arg) /\ res[2] = WalkDown(arg)
    BY <1>1 DEF Answers
  <2>2. SearchTree(arg)
    BY <2>1, TreesAssumption
  <2> QED
    BY <2>1, <2>2, WalksMeetKeys, Zenon
<1>2. Answers => TraversalInOrder
  BY <1>1, Zenon DEF TraversalInOrder, MeetsAll
<1> QED
  BY <1>2, AnswersHolds, PTL

\* In every search tree, a rotation keeps what is below and its order, and leaves
\* pointers that agree only at the root and without an inner child.
THEOREM RotationsLeaveLinks == Spec => []RotationLeavesLinks
<1>1. ASSUME Answers, fn = "rb_rotate" PROVE RotationLeavesLinks
  <2>1. PICK t \in Trees : \E n \in DOMAIN t.left : \E pivot \in {t.left[n], t.right[n]} \ {0} :
          arg = [tree |-> t, root |-> n, pivot |-> pivot] /\ res = RbRotate(t, n, pivot)
    BY <1>1 DEF Answers
  <2>2. PICK n \in DOMAIN t.left : \E pivot \in {t.left[n], t.right[n]} \ {0} :
          arg = [tree |-> t, root |-> n, pivot |-> pivot] /\ res = RbRotate(t, n, pivot)
    BY <2>1
  <2>3. PICK pivot \in {t.left[n], t.right[n]} \ {0} :
          arg = [tree |-> t, root |-> n, pivot |-> pivot] /\ res = RbRotate(t, n, pivot)
    BY <2>2
  <2>4. arg.tree = t /\ arg.root = n /\ arg.pivot = pivot
    BY <2>3
  <2>5. SearchTree(t)
    BY TreesAssumption
  <2>6. LET s == RbRotate(t, n, pivot)
            inner == IF t.left[n] = pivot THEN t.right[pivot] ELSE t.left[pivot]
        IN /\ Below(s, pivot) = Below(t, n) /\ Ordered(s, pivot)
           /\ Agreeing(s) <=> inner = 0 /\ t.parent[n] = 0
    BY <2>5, RotationLeaves, Zenon
  <2> QED
    BY <2>3, <2>4, <2>6, Zenon DEF RotationLeavesLinks
<1>2. Answers => RotationLeavesLinks
  BY <1>1, Zenon DEF RotationLeavesLinks
<1> QED
  BY <1>2, AnswersHolds, PTL

\* In every search tree that is not empty, an insertion links nothing, and breaks
\* the rules of red-black trees exactly when its place is red and not the root.
THEOREM InsertionsNeverLink == Spec => []InsertNeverLinks
<1>1. ASSUME Answers, fn = "rb_insert" PROVE InsertNeverLinks
  <2>1. PICK t \in Trees : \E n \in {m \in DOMAIN t.left : t.color[m] = "none"} :
          arg = [tree |-> t, node |-> n] /\ res = RbInsert(t, n)
    BY <1>1 DEF Answers
  <2>2. PICK n \in {m \in DOMAIN t.left : t.color[m] = "none"} :
          arg = [tree |-> t, node |-> n] /\ res = RbInsert(t, n)
    BY <2>1
  <2>3. arg.tree = t /\ arg.node = n
    BY <2>2
  <2>4. SearchTree(t) /\ n \in DOMAIN t.left /\ t.color[n] = "none"
    BY TreesAssumption
  <2>5. LET s == RbInsert(t, n) p == Place(t, n)
        IN IF t.root = 0 THEN s.root = n /\ Below(s, n) = {n}
           ELSE /\ <<s.root, s.left, s.right, s.parent>> = <<t.root, t.left, t.right, t.parent>>
                /\ RedBlack(t) => (RedBlack(s) <=> t.color[p] = "black" \/ p = t.root)
    BY <2>4, InsertIs, Zenon
  <2> QED
    BY <2>2, <2>3, <2>5, Zenon DEF InsertNeverLinks
<1>2. Answers => InsertNeverLinks
  BY <1>1, Zenon DEF InsertNeverLinks
<1> QED
  BY <1>2, AnswersHolds, PTL

\* Both together: rb_rotate and rb_insert on every search tree.
THEOREM ChangesLeaveLinksBehind == Spec => []ChangesLeaveLinks
<1>1. RotationLeavesLinks /\ InsertNeverLinks => ChangesLeaveLinks
  BY DEF ChangesLeaveLinks
<1> QED
  BY <1>1, RotationsLeaveLinks, InsertionsNeverLink, PTL
=============================================================================
