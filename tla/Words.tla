------------------------------- MODULE Words --------------------------------
(***************************************************************************)
(* Bits, words and integers: include/hlibc/bit.h and hlibc/math.c.  Memory *)
(* is a sequence of bytes; a word is the sequence of its bits or, where    *)
(* only its bytes matter, of its bytes, in both cases the highest first.   *)
(* The machine is little endian.                                           *)
(***************************************************************************)
EXTENDS Integers, SequencesExt

CONSTANTS
  UintBits,     \* the width of an unsigned int: 32
  IntMax        \* INT_MAX

ASSUME WidthAssumption == UintBits \in 1..32 /\ IntMax \in Nat

Bit(byte, n) == (byte \div 2^n) % 2

BitTest(base, i) == Bit(base[i \div 8 + 1], 7 - (i % 8))

\* The bit a write goes to, whose value becomes v.
BitPut(base, i, v) ==
  [base EXCEPT ![i \div 8 + 1] = @ + (v - Bit(@, i % 8)) * 2^(i % 8)]

\* Mutant of BitFlip: the bit becomes the opposite of what bit_test returns.
BitFlipRead(base, i) == BitPut(base, i, 1 - BitTest(base, i))

BitSet(base, i)   == BitPut(base, i, 1)
BitClear(base, i) == BitPut(base, i, 0)
BitFlip(base, i)  == BitPut(base, i, 1 - Bit(base[i \div 8 + 1], i % 8))

\* What the bit was, as BitTest sees it, and the memory after the write.
BitTestAnd(op, base, i) ==
  [old |-> BitTest(base, i),
   base |-> CASE op = "set"   -> BitSet(base, i)
              [] op = "clear" -> BitClear(base, i)
              [] op = "flip"  -> BitFlip(base, i)]

-----------------------------------------------------------------------------
\* Shifts of a word of bits, and the rotations made of them.  The words of 32
\* and 64 bits are not rotated by nothing: the shift back would be undefined.
Zeros(n) == [k \in 1..n |-> 0]
Shl(x, n) == SubSeq(x, n + 1, Len(x)) \o Zeros(n)
Shr(x, n) == Zeros(n) \o SubSeq(x, 1, Len(x) - n)
OrBits(x, y) == [k \in 1..Len(x) |-> IF x[k] + y[k] > 0 THEN 1 ELSE 0]

Rotl(x, n) == OrBits(Shl(x, n), Shr(x, Len(x) - n))
Rotr(x, n) == OrBits(Shr(x, n), Shl(x, Len(x) - n))

-----------------------------------------------------------------------------
\* Loads and stores of a word of bytes, of any width, at any address.
Bswap(word)     == Reverse(word)
CpuToLe(word)   == word
CpuToBe(word)   == Bswap(word)
LeToCpu(word)   == word
BeToCpu(word)   == Bswap(word)
GetUnaligned(mem)   == Reverse(mem)
PutUnaligned(word)  == Reverse(word)
GetUnalignedLe(mem) == LeToCpu(GetUnaligned(mem))
GetUnalignedBe(mem) == BeToCpu(GetUnaligned(mem))
PutUnalignedLe(val) == PutUnaligned(CpuToLe(val))
PutUnalignedBe(val) == PutUnaligned(CpuToBe(val))

-----------------------------------------------------------------------------
\* The leading zeros of an unsigned int other than 0.
Clz(x) == CHOOSE n \in 0..UintBits - 1 : 2^(UintBits - 1 - n) <= x /\ x \div 2 < 2^(UintBits - 1 - n)

FloorLog2(x) == (UintBits - 1) - Clz(x)

\* Mutant of CeilLog2: a power of two is rounded up too.
CeilLog2Next(x) == FloorLog2(x) + 1

\* x & (x - 1) is x without its lowest bit, zero for a power of two.
CeilLog2(x) ==
  FloorLog2(x) + (IF \E n \in 0..UintBits - 1 : x = 2^n THEN 0 ELSE 1)

Abs(a) == IF a < 0 THEN -a ELSE a

\* The loop of gcd, from a pair of numbers.
Euclid[p \in Nat \X Nat] == IF p[2] = 0 THEN p[1] ELSE Euclid[<<p[2], p[1] % p[2]>>]

Gcd(a, b) ==
  LET x == Abs(a) y == Abs(b)
  IN IF x < y THEN Euclid[<<y, x>>] ELSE Euclid[<<x, y>>]

\* The product is undefined when it overflows, and its abs when it is INT_MIN: what
\* is returned then is any number.
Lcm(a, b, any) ==
  LET c == Gcd(a, b)
  IN IF Abs(a * b) > IntMax THEN any ELSE Abs(a * b) \div (IF c = 0 THEN 1 ELSE c)
=============================================================================
