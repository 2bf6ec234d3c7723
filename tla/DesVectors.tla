----------------------------- MODULE DesVectors ------------------------------
(***************************************************************************)
(* hlibc/crypto/des.c at full size: the network of Des with the round      *)
(* function and the tables of DesRound, on the known answers its test      *)
(* takes from NBS Special Publication 500-20; and, beside it, the network  *)
(* of Des on constants of its own, on any block.                           *)
(***************************************************************************)
EXTENDS Des, DesRound

CONSTANTS
  Vectors,          \* known answers: a key, a block and its cipher, 64 bits each
  NoVector          \* the network on the constants of Des

VARIABLE vector     \* the answer the context has been initialised for, or NoVector

Bits(n) == [1..n -> 0..1]

D == INSTANCE Des WITH
       Rounds <- 16, Halves <- Bits(32), Blocks <- Bits(64), RoundKeys <- Bits(48),
       Schedules <- [0..15 -> Bits(48)],
       F <- [p \in Bits(32) \X Bits(48) |-> RoundFunction(p[1], p[2])],
       XorHalf <- [p \in Bits(32) \X Bits(32) |-> XorBits(p[1], p[2])],
       IP <- [b \in Bits(64) |-> LET moved == Moved(IPBits, b)
                                 IN <<SubSeq(moved, 1, 32), SubSeq(moved, 33, 64)>>],
       IP_inv <- [p \in Bits(32) \X Bits(32) |-> Moved(IP_invBits, p[1] \o p[2])]

-----------------------------------------------------------------------------
\* des_init with the key of a vector.
VectorInit ==
  /\ vector \in Vectors
  /\ ks = [n \in 0..15 |-> KeySchedule(vector.key)[n + 1]]
  /\ call = "idle" /\ i = 0 /\ sealed = FALSE
  /\ block = vector.plain /\ plain = block /\ cipher = block
  /\ L = SubSeq(block, 1, 32) /\ R = SubSeq(block, 33, 64)
  /\ trace = [n \in 0..16 |-> <<L, R>>]

VectorNext ==
  \/ D!Encrypt(vector.plain) \/ D!Decrypt(vector.cipher)
  \/ D!EncryptRound \/ D!EncryptReturns \/ D!DecryptRound \/ D!DecryptReturns

BothInit == VectorInit \/ (vector = NoVector /\ Init)
BothNext ==
  /\ UNCHANGED vector
  /\ \/ vector = NoVector /\ Next
     \/ vector # NoVector /\ VectorNext
BothSpec == BothInit /\ [][BothNext]_<<vector, vars>>

-----------------------------------------------------------------------------
\* Under the key of a known answer, des_encrypt makes of its block the cipher that
\* goes with it, and des_decrypt the block of the cipher: the seven kinds of tables
\* of des.c, each spelled out bit by bit, are together those of DES.
KnownAnswers ==
  [][vector # NoVector =>
       /\ D!EncryptReturns /\ block = vector.plain => cipher' = vector.cipher
       /\ D!DecryptReturns /\ block = vector.cipher => D!Joined(L, R) = vector.plain]_vars
=============================================================================
