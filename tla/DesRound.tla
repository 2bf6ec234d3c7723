------------------------------ MODULE DesRound -------------------------------
(***************************************************************************)
(* The round function and the key schedule of hlibc/crypto/des.c, with the *)
(* tables of DesTables.  A word is the sequence of its bits, the highest   *)
(* first; bit n of it is its element Len - n.                              *)
(***************************************************************************)
EXTENDS DesTables, SequencesExt

\* Mutant of Moved: the bits of x are counted from the wrong end.
MovedUpward(table, x) == [j \in 1..Len(table) |-> x[table[j] + 1]] \o <<>>

\* The bits of x that a table of MOVE_BITs takes.
Moved(table, x) == [j \in 1..Len(table) |-> x[Len(x) - table[j]]] \o <<>>

XorBits(x, y) == [j \in 1..Len(x) |-> (x[j] + y[j]) % 2] \o <<>>

\* Six bits choose four.  (Of the 64 bits the code returns, the upper half may
\* hold copies of the highest of these 32, none of which P takes.)
S(input) ==
  LET bit(b, j) == input[6 * b + j]
      six(b) == 32 * bit(b, 1) + 16 * bit(b, 2) + 8 * bit(b, 3)
                + 4 * bit(b, 4) + 2 * bit(b, 5) + bit(b, 6)
      four == [b \in 1..8 |-> S_table[b][six(b - 1) + 1]] \o <<>>
  IN [j \in 1..32 |-> (four[(j + 3) \div 4] \div 2^(3 - ((j - 1) % 4))) % 2] \o <<>>

\* Mutant of RoundFunction: the key is mixed in before the expansion.
RoundFunctionEarly(block, key) ==
  Moved(PBits, S(Moved(EBits, XorBits(block, SubSeq(key, 1, 32)))))

RoundFunction(block, key) == Moved(PBits, S(XorBits(Moved(EBits, block), key)))

KeySchedule(key) ==
  <<Moved(KS_0Bits, key), Moved(KS_1Bits, key), Moved(KS_2Bits, key),
    Moved(KS_3Bits, key), Moved(KS_4Bits, key), Moved(KS_5Bits, key),
    Moved(KS_6Bits, key), Moved(KS_7Bits, key), Moved(KS_8Bits, key),
    Moved(KS_9Bits, key), Moved(KS_10Bits, key), Moved(KS_11Bits, key),
    Moved(KS_12Bits, key), Moved(KS_13Bits, key), Moved(KS_14Bits, key),
    Moved(KS_15Bits, key)>>
=============================================================================
