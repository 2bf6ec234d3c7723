-------------------------------- MODULE Ecb ---------------------------------
(***************************************************************************)
(* des_ecb_encrypt and des_ecb_decrypt of hlibc/crypto/des.c over any      *)
(* cipher of blocks.  A block is the sequence of its eight bytes, the      *)
(* highest first; Des is the module of the real one.                       *)
(***************************************************************************)
EXTENDS Words

CONSTANTS DesEncrypt(_), DesDecrypt(_)     \* under one key schedule

Block(mem, b) == GetUnalignedLe(SubSeq(mem, 8 * b + 1, 8 * b + 8))

\* The last bytes, the first of them the highest, and the padding.
GetPadded(tail) == tail \o [k \in 1..8 - Len(tail) |-> 8 - Len(tail)]

\* Mutant of PutPadded: the bytes in the order GetPadded takes them in.
PutPaddedMatching(value, n) == SubSeq(value, 1, n)

\* Byte k, from 0, is value >> 8 * (k + 1): the bytes come back in the reverse
\* order, one place off.
PutPadded(value, n) == [k \in 1..n |-> value[8 - k]]

Whole(src) == Len(src) \div 8
EachBlock(n, F(_)) ==
  [k \in 1..8 * n |-> PutUnalignedLe(F((k - 1) \div 8))[((k - 1) % 8) + 1]]

EcbEncrypt(src) ==
  EachBlock(Whole(src), LAMBDA b : DesEncrypt(Block(src, b)))
  \o PutUnalignedLe(DesEncrypt(GetPadded(SubSeq(src, 8 * Whole(src) + 1, Len(src)))))

\* size is that of the message, one to eight bytes less than that of src.
EcbDecrypt(src, size) ==
  EachBlock(size \div 8, LAMBDA b : DesDecrypt(Block(src, b)))
  \o PutPadded(DesDecrypt(Block(src, size \div 8)), size % 8)
=============================================================================
