------------------------------- MODULE Tails --------------------------------
(***************************************************************************)
(* The words that the hashes of hlibc/crypto/siphash.c and murmur.c mix    *)
(* in, in order.  The mixing is left out: a hash is a function of its key  *)
(* or seed and of these words.                                             *)
(***************************************************************************)
EXTENDS Words

\* The words of n bytes that the input is made of, and the bytes behind them.
WholeWords(input, n) ==
  [b \in 1..Len(input) \div n |-> GetUnalignedLe(SubSeq(input, n * (b - 1) + 1, n * b))]
TailBytes(input, n) == SubSeq(input, Len(input) - (Len(input) % n) + 1, Len(input))

\* Mutant of TailWord: the tail is read the other way around.
TailWordReversed(tail, n) == Zeros(n - Len(tail)) \o tail

\* tail[k] << 8 * k for every byte of a tail, in a word of n bytes.
TailWord(tail, n) == Zeros(n - Len(tail)) \o Reverse(tail)

\* The last word holds the size in its highest byte.
SiphashWords(input) ==
  Append(WholeWords(input, 8),
         <<Len(input) % 256>> \o TailWord(TailBytes(input, 8), 7))

\* The tail is mixed in only when there is one; the size comes last.
MurmurWords(input) ==
  WholeWords(input, 4)
  \o (IF TailBytes(input, 4) = <<>> THEN <<>> ELSE <<TailWord(TailBytes(input, 4), 4)>>)
=============================================================================
