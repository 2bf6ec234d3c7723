------------------------------- MODULE Codecs -------------------------------
(***************************************************************************)
(* Hexadecimal and base64 of hlibc/string.c.  A buffer is the sequence of  *)
(* its bytes.  A decoder returns its error code and what it has written.   *)
(***************************************************************************)
EXTENDS Ctype, SequencesExt

EINVAL == 22
ENOMEM == 12
Returned(ret, out) == [ret |-> ret, out |-> out]

\* The least index from i on at which P holds.
FirstAt(i, j, P(_)) == CHOOSE k \in i..j : P(k) /\ \A h \in i..k - 1 : ~P(h)

-----------------------------------------------------------------------------
HexCset == [k \in 1..16 |-> IF k <= 10 THEN 47 + k ELSE 54 + k]

HexVal(c) == CASE c \in Digit   -> c - 48
               [] c \in 65..70  -> c - 55
               [] c \in 97..102 -> c - 87
               [] OTHER         -> -1

\* Mutant of HexEncode: the nibbles are swapped.
HexEncodeSwapped(src) ==
  [k \in 1..2 * Len(src) |-> LET b == src[(k + 1) \div 2]
                             IN HexCset[1 + IF k % 2 = 0 THEN b \div 16 ELSE b % 16]]

HexEncode(src) ==
  [k \in 1..2 * Len(src) |-> LET b == src[(k + 1) \div 2]
                             IN HexCset[1 + IF k % 2 = 1 THEN b \div 16 ELSE b % 16]]

\* The loop ends at the zero, at a pair that is not two digits (the second may
\* be the zero), or when a byte more would not fit.
HexDecode(src, size) ==
  LET hi(k) == HexVal(At(src, 2 * k))
      lo(k) == HexVal(At(src, 2 * k + 1))
      bad(k) == hi(k) < 0 \/ lo(k) < 0
      i == FirstAt(0, Len(src), LAMBDA k : bad(k) \/ k = size)
  IN Returned(IF At(src, 2 * i) = 0 THEN 0 ELSE IF bad(i) THEN EINVAL ELSE ENOMEM,
              [k \in 1..i |-> 16 * hi(k - 1) + lo(k - 1)])

-----------------------------------------------------------------------------
B64Cset == [k \in 1..64 |-> CASE k \in 1..26  -> 64 + k
                              [] k \in 27..52 -> 70 + k
                              [] k \in 53..62 -> k - 5
                              [] k = 63       -> 43
                              [] k = 64       -> 47]

B64Val(c) == CASE c \in 65..90  -> c - 65
               [] c \in 97..122 -> c - 71
               [] c \in Digit   -> c + 4
               [] c = 43        -> 62
               [] c = 47        -> 63
               [] OTHER         -> -1

\* The two sets of characters in the letters of the source.
ASSUME CsetAssumption ==
  /\ HexCset = Str("0123456789ABCDEF")
  /\ B64Cset = Str("ABCDEFGHIJKLMNOPQRSTUVWXYZabcdefghijklmnopqrstuvwxyz0123456789+/")

\* The j-th group of six bits.
Sextet(in, j) ==
  LET b == 3 * (j \div 4)
  IN CASE j % 4 = 0 -> At(in, b) \div 4
       [] j % 4 = 1 -> (At(in, b) % 4) * 16 + At(in, b + 1) \div 16
       [] j % 4 = 2 -> (At(in, b + 1) % 16) * 4 + At(in, b + 2) \div 64
       [] j % 4 = 3 -> At(in, b + 2) % 64

Pad(n) == [k \in 1..n |-> 61]                                       \* '='

B64Encode(src) ==
  LET rest == Len(src) % 3
  IN [j \in 1..4 * (Len(src) \div 3) + (IF rest = 0 THEN 0 ELSE rest + 1) |->
        B64Cset[Sextet(src, j - 1) + 1]]
     \o Pad((3 - rest) % 3)

\* Byte k of what the characters stand for.
B64Byte(src, k) ==
  LET v(j) == B64Val(At(src, 4 * (k \div 3) + j))
  IN CASE k % 3 = 0 -> v(0) * 4 + v(1) \div 16
       [] k % 3 = 1 -> (v(1) % 16) * 16 + v(2) \div 4
       [] k % 3 = 2 -> (v(2) % 4) * 64 + v(3)

B64Bytes(src, n) == [k \in 1..n |-> B64Byte(src, k - 1)]

\* Mutant of B64Decode: the room for a last byte is not tested.
B64DecodeOver(src, size) ==
  LET i == FirstAt(0, Len(src), LAMBDA k : B64Val(At(src, k)) < 0)
      q == i \div 4
      n == 3 * q + (IF i % 4 = 0 THEN 0 ELSE (i % 4) - 1)
      end == \/ At(src, i) = 0
             \/ i % 4 = 2 /\ SubSeq(src, i + 1, Len(src)) = Pad(2)
             \/ i % 4 = 3 /\ SubSeq(src, i + 1, Len(src)) = Pad(1)
  IN IF 3 * q > size THEN Returned(ENOMEM, B64Bytes(src, 3 * (size \div 3)))
     ELSE IF i % 4 = 1 \/ ~end THEN Returned(EINVAL, B64Bytes(src, 3 * q))
     ELSE Returned(0, B64Bytes(src, n))

\* Whole groups of four characters are decoded up to the first that is none of
\* base64; what is left are two or three characters with or without their
\* padding, or the end.
B64Decode(src, size) ==
  LET i == FirstAt(0, Len(src), LAMBDA k : B64Val(At(src, k)) < 0)
      q == i \div 4
      n == 3 * q + (IF i % 4 = 0 THEN 0 ELSE (i % 4) - 1)
      end == \/ At(src, i) = 0
             \/ i % 4 = 2 /\ SubSeq(src, i + 1, Len(src)) = Pad(2)
             \/ i % 4 = 3 /\ SubSeq(src, i + 1, Len(src)) = Pad(1)
  IN IF 3 * q > size THEN Returned(ENOMEM, B64Bytes(src, 3 * (size \div 3)))
     ELSE IF i % 4 = 1 \/ ~end THEN Returned(EINVAL, B64Bytes(src, 3 * q))
     ELSE IF n > size THEN Returned(ENOMEM, B64Bytes(src, 3 * q))
     ELSE Returned(0, B64Bytes(src, n))
=============================================================================
