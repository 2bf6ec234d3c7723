----------------------------- MODULE DesTables -----------------------------
(***************************************************************************)
(* The tables of hlibc/crypto/des.c as the code spells them out, a line    *)
(* of MOVE_BIT for every bit: in a table t of n entries, bit n - j of the  *)
(* result is bit t[j] of the input.                                        *)
(***************************************************************************)
EXTENDS Integers, Sequences

IPBits ==
  <<6, 14, 22, 30, 38, 46, 54, 62, 4, 12, 20, 28, 36, 44, 52, 60,
    2, 10, 18, 26, 34, 42, 50, 58, 0, 8, 16, 24, 32, 40, 48, 56,
    7, 15, 23, 31, 39, 47, 55, 63, 5, 13, 21, 29, 37, 45, 53, 61,
    3, 11, 19, 27, 35, 43, 51, 59, 1, 9, 17, 25, 33, 41, 49, 57>>

IP_invBits ==
  <<24, 56, 16, 48, 8, 40, 0, 32, 25, 57, 17, 49, 9, 41, 1, 33,
    26, 58, 18, 50, 10, 42, 2, 34, 27, 59, 19, 51, 11, 43, 3, 35,
    28, 60, 20, 52, 12, 44, 4, 36, 29, 61, 21, 53, 13, 45, 5, 37,
    30, 62, 22, 54, 14, 46, 6, 38, 31, 63, 23, 55, 15, 47, 7, 39>>

PBits ==
  <<16, 25, 12, 11, 3, 20, 4, 15, 31, 17, 9, 6, 27, 14, 1, 22,
    30, 24, 8, 18, 0, 5, 29, 23, 13, 19, 2, 26, 10, 21, 28, 7>>

EBits ==
  <<0, 31, 30, 29, 28, 27, 28, 27, 26, 25, 24, 23, 24, 23, 22, 21,
    20, 19, 20, 19, 18, 17, 16, 15, 16, 15, 14, 13, 12, 11, 12, 11,
    10, 9, 8, 7, 8, 7, 6, 5, 4, 3, 4, 3, 2, 1, 0, 31>>

KS_0Bits ==
  <<54, 13, 30, 4, 15, 47, 31, 7, 62, 55, 45, 22, 61, 29, 38, 39,
    20, 6, 5, 63, 28, 37, 46, 23, 42, 36, 25, 10, 27, 60, 17, 34,
    59, 11, 41, 35, 3, 43, 26, 1, 49, 44, 19, 50, 51, 2, 9, 33>>

KS_1Bits ==
  <<62, 21, 38, 12, 23, 55, 39, 15, 5, 63, 53, 30, 4, 37, 46, 47,
    28, 14, 13, 6, 7, 45, 54, 31, 50, 44, 33, 18, 35, 1, 25, 42,
    36, 19, 49, 43, 11, 51, 34, 9, 57, 52, 27, 58, 59, 10, 17, 41>>

KS_2Bits ==
  <<13, 37, 54, 28, 39, 6, 55, 31, 21, 14, 4, 46, 20, 53, 62, 63,
    15, 30, 29, 22, 23, 61, 5, 47, 3, 60, 49, 34, 51, 17, 41, 58,
    52, 35, 2, 59, 27, 36, 50, 25, 10, 1, 43, 11, 44, 26, 33, 57>>

KS_3Bits ==
  <<29, 53, 5, 15, 55, 22, 6, 47, 37, 30, 20, 62, 7, 4, 13, 14,
    31, 46, 45, 38, 39, 12, 21, 63, 19, 9, 2, 50, 36, 33, 57, 11,
    1, 51, 18, 44, 43, 52, 3, 41, 26, 17, 59, 27, 60, 42, 49, 10>>

KS_4Bits ==
  <<45, 4, 21, 31, 6, 38, 22, 63, 53, 46, 7, 13, 23, 20, 29, 30,
    47, 62, 61, 54, 55, 28, 37, 14, 35, 25, 18, 3, 52, 49, 10, 27,
    17, 36, 34, 60, 59, 1, 19, 57, 42, 33, 44, 43, 9, 58, 2, 26>>

KS_5Bits ==
  <<61, 20, 37, 47, 22, 54, 38, 14, 4, 62, 23, 29, 39, 7, 45, 46,
    63, 13, 12, 5, 6, 15, 53, 30, 51, 41, 34, 19, 1, 2, 26, 43,
    33, 52, 50, 9, 44, 17, 35, 10, 58, 49, 60, 59, 25, 11, 18, 42>>

KS_6Bits ==
  <<12, 7, 53, 63, 38, 5, 54, 30, 20, 13, 39, 45, 55, 23, 61, 62,
    14, 29, 28, 21, 22, 31, 4, 46, 36, 57, 50, 35, 17, 18, 42, 59,
    49, 1, 3, 25, 60, 33, 51, 26, 11, 2, 9, 44, 41, 27, 34, 58>>

KS_7Bits ==
  <<28, 23, 4, 14, 54, 21, 5, 46, 7, 29, 55, 61, 6, 39, 12, 13,
    30, 45, 15, 37, 38, 47, 20, 62, 52, 10, 3, 51, 33, 34, 58, 44,
    2, 17, 19, 41, 9, 49, 36, 42, 27, 18, 25, 60, 57, 43, 50, 11>>

KS_8Bits ==
  <<7, 31, 12, 22, 62, 29, 13, 54, 15, 37, 63, 4, 14, 47, 20, 21,
    38, 53, 23, 45, 46, 55, 28, 5, 60, 18, 11, 59, 41, 42, 3, 52,
    10, 25, 27, 49, 17, 57, 44, 50, 35, 26, 33, 1, 2, 51, 58, 19>>

KS_9Bits ==
  <<23, 47, 28, 38, 13, 45, 29, 5, 31, 53, 14, 20, 30, 63, 7, 37,
    54, 4, 39, 61, 62, 6, 15, 21, 9, 34, 27, 44, 57, 58, 19, 1,
    26, 41, 43, 2, 33, 10, 60, 3, 51, 42, 49, 17, 18, 36, 11, 35>>

KS_10Bits ==
  <<39, 63, 15, 54, 29, 61, 45, 21, 47, 4, 30, 7, 46, 14, 23, 53,
    5, 20, 55, 12, 13, 22, 31, 37, 25, 50, 43, 60, 10, 11, 35, 17,
    42, 57, 59, 18, 49, 26, 9, 19, 36, 58, 2, 33, 34, 52, 27, 51>>

KS_11Bits ==
  <<55, 14, 31, 5, 45, 12, 61, 37, 63, 20, 46, 23, 62, 30, 39, 4,
    21, 7, 6, 28, 29, 38, 47, 53, 41, 3, 59, 9, 26, 27, 51, 33,
    58, 10, 44, 34, 2, 42, 25, 35, 52, 11, 18, 49, 50, 1, 43, 36>>

KS_12Bits ==
  <<6, 30, 47, 21, 61, 28, 12, 53, 14, 7, 62, 39, 13, 46, 55, 20,
    37, 23, 22, 15, 45, 54, 63, 4, 57, 19, 44, 25, 42, 43, 36, 49,
    11, 26, 60, 50, 18, 58, 41, 51, 1, 27, 34, 2, 3, 17, 59, 52>>

KS_13Bits ==
  <<22, 46, 63, 37, 12, 15, 28, 4, 30, 23, 13, 55, 29, 62, 6, 7,
    53, 39, 38, 31, 61, 5, 14, 20, 10, 35, 60, 41, 58, 59, 52, 2,
    27, 42, 9, 3, 34, 11, 57, 36, 17, 43, 50, 18, 19, 33, 44, 1>>

KS_14Bits ==
  <<38, 62, 14, 53, 28, 31, 15, 20, 46, 39, 29, 6, 45, 13, 22, 23,
    4, 55, 54, 47, 12, 21, 30, 7, 26, 51, 9, 57, 11, 44, 1, 18,
    43, 58, 25, 19, 50, 27, 10, 52, 33, 59, 3, 34, 35, 49, 60, 17>>

KS_15Bits ==
  <<46, 5, 22, 61, 7, 39, 23, 28, 54, 47, 37, 14, 53, 21, 30, 31,
    12, 63, 62, 55, 20, 29, 38, 15, 34, 59, 17, 2, 19, 52, 9, 26,
    51, 3, 33, 27, 58, 35, 18, 60, 41, 36, 11, 42, 43, 57, 1, 25>>

\* The eight substitutions, and the array of them.
S_1 ==
  <<14, 0, 4, 15, 13, 7, 1, 4, 2, 14, 15, 2, 11, 13, 8, 1, 3, 10, 10, 6, 6, 12,
    12, 11, 5, 9, 9, 5, 0, 3, 7, 8, 4, 15, 1, 12, 14, 8, 8, 2, 13, 4, 6, 9,
    2, 1, 11, 7, 15, 5, 12, 11, 9, 3, 7, 14, 3, 10, 10, 0, 5, 6, 0, 13>>

S_2 ==
  <<15, 3, 1, 13, 8, 4, 14, 7, 6, 15, 11, 2, 3, 8, 4, 14, 9, 12, 7, 0, 2, 1,
    13, 10, 12, 6, 0, 9, 5, 11, 10, 5, 0, 13, 14, 8, 7, 10, 11, 1, 10, 3, 4, 15,
    13, 4, 1, 2, 5, 11, 8, 6, 12, 7, 6, 12, 9, 0, 3, 5, 2, 14, 15, 9>>

S_3 ==
  <<10, 13, 0, 7, 9, 0, 14, 9, 6, 3, 3, 4, 15, 6, 5, 10, 1, 2, 13, 8, 12, 5,
    7, 14, 11, 12, 4, 11, 2, 15, 8, 1, 13, 1, 6, 10, 4, 13, 9, 0, 8, 6, 15, 9,
    3, 8, 0, 7, 11, 4, 1, 15, 2, 14, 12, 3, 5, 11, 10, 5, 14, 2, 7, 12>>

S_4 ==
  <<7, 13, 13, 8, 14, 11, 3, 5, 0, 6, 6, 15, 9, 0, 10, 3, 1, 4, 2, 7, 8, 2,
    5, 12, 11, 1, 12, 10, 4, 14, 15, 9, 10, 3, 6, 15, 9, 0, 0, 6, 12, 10, 11, 1,
    7, 13, 13, 8, 15, 9, 1, 4, 3, 5, 14, 11, 5, 12, 2, 7, 8, 2, 4, 14>>

S_5 ==
  <<2, 14, 12, 11, 4, 2, 1, 12, 7, 4, 10, 7, 11, 13, 6, 1, 8, 5, 5, 0, 3, 15,
    15, 10, 13, 3, 0, 9, 14, 8, 9, 6, 4, 11, 2, 8, 1, 12, 11, 7, 10, 1, 13, 14,
    7, 2, 8, 13, 15, 6, 9, 15, 12, 0, 5, 9, 6, 10, 3, 4, 0, 5, 14, 3>>

S_6 ==
  <<12, 10, 1, 15, 10, 4, 15, 2, 9, 7, 2, 12, 6, 9, 8, 5, 0, 6, 13, 1, 3, 13,
    4, 14, 14, 0, 7, 11, 5, 3, 11, 8, 9, 4, 14, 3, 15, 2, 5, 12, 2, 9, 8, 5,
    12, 15, 3, 10, 7, 11, 0, 14, 4, 1, 10, 7, 1, 6, 13, 0, 11, 8, 6, 13>>

S_7 ==
  <<4, 13, 11, 0, 2, 11, 14, 7, 15, 4, 0, 9, 8, 1, 13, 10, 3, 14, 12, 3, 9, 5,
    7, 12, 5, 2, 10, 15, 6, 8, 1, 6, 1, 6, 4, 11, 11, 13, 13, 8, 12, 1, 3, 4,
    7, 10, 14, 7, 10, 9, 15, 5, 6, 0, 8, 15, 0, 14, 5, 2, 9, 3, 2, 12>>

S_8 ==
  <<13, 1, 2, 15, 8, 13, 4, 8, 6, 10, 15, 3, 11, 7, 1, 4, 10, 12, 9, 5, 3, 6,
    14, 11, 5, 0, 0, 14, 12, 9, 7, 2, 7, 2, 11, 1, 4, 14, 1, 7, 9, 4, 12, 10,
    14, 8, 2, 13, 0, 15, 6, 12, 10, 9, 13, 0, 15, 3, 3, 5, 5, 6, 8, 11>>

S_table == <<S_1, S_2, S_3, S_4, S_5, S_6, S_7, S_8>>

\* What IPAssumption of Des takes for granted holds of the tables.
ASSUME TablesInverse ==
  \A j \in 1..64 : /\ IPBits[64 - IP_invBits[j]] = 64 - j
                   /\ IP_invBits[64 - IPBits[j]] = 64 - j
=============================================================================
