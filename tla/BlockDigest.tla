---------------------------- MODULE BlockDigest -----------------------------
(***************************************************************************)
(* How the digests of hlibc/crypto cut a message into blocks: init, any    *)
(* number of updates, and finalize, in md2.c, md4.c, md5.c and sha1.c.     *)
(*                                                                         *)
(* The compression functions are left out: a digest is a function of the   *)
(* sequence of blocks compressed, which is what `fed' records.  A byte is  *)
(* a record that tells where it comes from, so that two blocks are equal    *)
(* when they hold the same bytes of the message and the same padding.      *)
(***************************************************************************)
EXTENDS Integers, Sequences, FiniteSets, SequencesExt

CONSTANTS
  B,           \* bytes in a block: 64, and 16 in md2
  T,           \* where the message length starts in the last block: 56
  Step,        \* how far the loop of sha1_update goes between two blocks: 16
  Slack,       \* how far before the end of the input it stops: 8
  MaxSize      \* bound on the length of a message

ASSUME BlockAssumption == B \in Nat \ {0} /\ T \in 1..B - 1
ASSUME StepAssumption == Step \in Nat \ {0} /\ Slack \in 1..Step /\ B % Step = 0
ASSUME MaxSizeAssumption == MaxSize \in Nat

VARIABLES
  algo,        \* "md2", "md4", "md5" or "sha1"; "none" before an init
  size,        \* ctx->size
  tail,        \* ctx->tail
  fed,         \* ghost: the blocks compressed since init
  lost,        \* ghost: the blocks of the message that an update completed in the
               \*   tail; of sha1, the bytes an update had behind such a block
  done         \* whether finalize has been called
digestVars == <<algo, size, tail, fed, lost, done>>

Data(p)     == [kind |-> "data", val |-> p]        \* byte p of the message
Unset       == [kind |-> "unset", val |-> 0]       \* not written since init
Zero        == [kind |-> "zero", val |-> 0]
Mark        == [kind |-> "mark", val |-> 128]
Fill(c)     == [kind |-> "fill", val |-> c]        \* padding of md2
LenByte(j)  == [kind |-> "length", val |-> j]      \* byte j of size << 3
SizeByte(j) == IF size = 0 THEN LenByte(j) ELSE [kind |-> "size", val |-> j]
Checksum(c) == [kind |-> "checksum", val |-> c]    \* md2's, of the first c blocks

Offsets == 0..B - 1
Used    == size % B

DigestInit ==
  /\ algo = "none" /\ size = 0 /\ fed = <<>> /\ lost = {} /\ done = FALSE
  /\ tail = [j \in Offsets |-> Unset]

\* md2_init clears the whole context, the others leave in the tail what was there,
\* which is nothing of the message to come.
Start(a) ==
  /\ algo = "none" \/ done
  /\ algo' = a /\ size' = 0 /\ fed' = <<>> /\ lost' = {} /\ done' = FALSE
  /\ tail' = [j \in Offsets |-> IF a = "md2" THEN Zero ELSE Unset]

\* The bytes the tail lacks to be a block.
Comp == B - Used

\* Completing the tail only skips the bytes it took.
Skip == IF Used = 0 THEN 0 ELSE Comp

\* An update that fits in the tail is copied there.  Otherwise the tail is
\* completed, whole blocks are compressed from the input, and the rest becomes
\* the beginning of the new tail.
Absorb(len) ==
  LET in(q) == Data(size + q + 1)                     \* data[q]
      whole == (len - Skip) \div B
      rest  == (len - Skip) % B
      last  == IF Used + len < B THEN Used + len - 1 ELSE B - 1
      added == [j \in Offsets |-> IF Used > 0 /\ j \in Used..last THEN in(j - Used)
                                  ELSE tail[j]]
  IN /\ ~done /\ size + len <= MaxSize
     /\ size' = size + len
     /\ IF Used > 0 /\ len < Comp
        THEN tail' = added /\ UNCHANGED <<fed, lost>>
        ELSE /\ tail' = [j \in Offsets |-> IF j < rest THEN in(len - rest + j)
                                                       ELSE added[j]]
             /\ fed' = fed \o [x \in 1..whole |->
                                 [j \in Offsets |-> in(Skip + (x - 1) * B + j)]]
             /\ lost' = IF Used > 0 THEN lost \cup {size \div B + 1} ELSE lost
     /\ UNCHANGED <<algo, done>>

Md2Update(len) == algo = "md2" /\ Absorb(len)
Md4Update(len) == algo = "md4" /\ Absorb(len)
Md5Update(len) == algo = "md5" /\ Absorb(len)

\* md2_finalize fills the tail with the count of the bytes missing, then
\* compresses the tail and the checksum.
Md2Finalize ==
  /\ algo = "md2" /\ ~done /\ done' = TRUE
  /\ tail' = [j \in Offsets |-> IF j < Used THEN tail[j] ELSE Fill(Comp)]
  /\ fed' = fed \o <<tail', [j \in Offsets |-> Checksum(Len(fed) + 1)]>>
  /\ UNCHANGED <<algo, size, lost>>

\* The tail with its mod bytes, the mark behind them, and zeros.
Marked(mod) ==
  [j \in Offsets |-> IF j < mod THEN tail[j] ELSE IF j = mod THEN Mark ELSE Zero]

WithLength(s) == [j \in Offsets |-> IF j >= T THEN LenByte(j - T) ELSE s[j]]

\* Mutant of Padded: a message that ends where the length starts, whose mark the
\* length overwrites.
PaddedLate(mod) ==
  IF mod > T THEN <<Marked(mod), WithLength([j \in Offsets |-> Zero])>>
             ELSE <<WithLength(Marked(mod))>>

\* The length gets a block of its own when the mark leaves no room for it.
Padded(mod) ==
  IF mod >= T THEN <<Marked(mod), WithLength([j \in Offsets |-> Zero])>>
              ELSE <<WithLength(Marked(mod))>>

MdFinalize ==
  /\ ~done /\ done' = TRUE
  /\ fed' = fed \o Padded(Used)
  /\ tail' = Last(Padded(Used))
  /\ UNCHANGED <<algo, size, lost>>

Md4Finalize == algo = "md4" /\ MdFinalize
Md5Finalize == algo = "md5" /\ MdFinalize

\* How often the loop of sha1_update goes around from the start of an input: it
\* ends at the first multiple of Step that is less than Slack before the end.
Sha1Steps(len) == (len + Step - Slack) \div Step

\* Mutant of Sha1Added: the input is copied to the start of the tail.
Sha1AddedAtStart(len) ==
  [j \in Offsets |-> IF j < len THEN Data(size + j + 1) ELSE tail[j]]

\* The tail with the input, as much of it as there is room for, behind its bytes.
Sha1Added(len) ==
  [j \in Offsets |-> IF j \in Used..Used + len - 1 THEN Data(size + j - Used + 1)
                                                  ELSE tail[j]]

\* An update that fits in the tail is copied there.  One that completes the tail
\* has it compressed and is then stepped over as a whole.  Without a tail, each
\* step compresses a block, of which the end may be behind that of the input, and
\* the rest becomes the tail.
Sha1Update(len) ==
  LET in(q) == IF q < len THEN Data(size + q + 1) ELSE Unset
      steps == Sha1Steps(len)
  IN /\ algo = "sha1" /\ ~done /\ size + len <= MaxSize
     /\ size' = size + len
     /\ IF Used > 0
        THEN /\ tail' = Sha1Added(len)
             /\ fed' = IF len < Comp THEN fed ELSE Append(fed, Sha1Added(len))
             /\ lost' = lost \union (size + Comp + 1..size + len)
        ELSE /\ steps * Step <= len
             /\ fed' = fed \o [x \in 1..steps |-> [j \in Offsets |-> in((x - 1) * Step + j)]]
             /\ tail' = [j \in Offsets |-> IF j < len - steps * Step THEN in(steps * Step + j)
                                                                    ELSE tail[j]]
             /\ UNCHANGED lost
     /\ UNCHANGED <<algo, done>>

\* When the loop ends behind the input, the size of the rest is negative, the copy
\* does not end and takes the process, with all its memory, along.
Sha1Runaway(len) ==
  /\ algo = "sha1" /\ ~done /\ size + len <= MaxSize
  /\ Used = 0 /\ Sha1Steps(len) * Step > len
  /\ algo' = "none" /\ size' = 0 /\ fed' = <<>> /\ lost' = {} /\ done' = FALSE
  /\ tail' = [j \in Offsets |-> Unset]

\* One block, whatever the size: when the mark leaves no room for the length, the
\* tail is cleared but for what the length overwrites.  The length is in bytes.
Sha1Padded ==
  [j \in Offsets |-> IF j >= T THEN SizeByte(j - T)
                     ELSE IF Used + 1 > T THEN Zero ELSE Marked(Used)[j]]

Sha1Finalize ==
  /\ algo = "sha1" /\ ~done /\ done' = TRUE
  /\ tail' = Sha1Padded
  /\ fed' = Append(fed, Sha1Padded)
  /\ UNCHANGED <<algo, size, lost>>

DigestNext ==
  \/ \E a \in {"md2", "md4", "md5", "sha1"} : Start(a)
  \/ \E len \in 0..MaxSize :
       \/ Md2Update(len) \/ Md4Update(len) \/ Md5Update(len)
       \/ Sha1Update(len) \/ Sha1Runaway(len)
  \/ Md2Finalize \/ Md4Finalize \/ Md5Finalize \/ Sha1Finalize

DigestSpec == DigestInit /\ [][DigestNext]_digestVars

-----------------------------------------------------------------------------
(* The blocks RFC 1319, 1320 and 1321 prescribe for a message of this size. *)

\* Byte p of the padded message of RFC 1320 and 1321, of `total' bytes.
MdByte(p, total) ==
  CASE p <= size             -> Data(p)
    [] p = size + 1          -> Mark
    [] p > total - (B - T)   -> LenByte(p - (total - (B - T)) - 1)
    [] OTHER                 -> Zero

MdBlocks ==
  LET total == CHOOSE t \in size + 1 + (B - T)..size + 2 * B :
                 /\ t % B = 0
                 /\ t - B < size + 1 + (B - T)
  IN [x \in 1..total \div B |-> [j \in Offsets |-> MdByte((x - 1) * B + j + 1, total)]]

Md2Blocks ==
  [x \in 1..size \div B + 1 |->
     [j \in Offsets |-> LET p == (x - 1) * B + j + 1
                        IN IF p <= size THEN Data(p) ELSE Fill(B - Used)]]

MessageBlocks == IF algo = "md2" THEN Md2Blocks ELSE MdBlocks

WithChecksum(s) ==
  IF algo = "md2" THEN Append(s, [j \in Offsets |-> Checksum(Len(s))]) ELSE s

-----------------------------------------------------------------------------
\* Whatever the split of the message into updates, the blocks compressed are
\* those of the RFC, in order, except exactly the blocks that an update found
\* begun in the tail and completed: these are never compressed.  No digest has a
\* byte of the context in it that neither init nor update wrote.
LosesCompletedTails ==
  done /\ algo # "sha1" =>
    fed = WithChecksum([x \in 1..Len(MessageBlocks) - Cardinality(lost) |->
                          MessageBlocks[CHOOSE y \in DOMAIN MessageBlocks \ lost :
                                          Cardinality({z \in 1..y : z \notin lost}) = x]])

\* What a digest is for: it is the digest of the message, however the message
\* was split into updates.  It does not hold.
DigestsTheMessage == done /\ algo # "sha1" => fed = WithChecksum(MessageBlocks)

\* The bytes of the message in some blocks, and those that wait in the tail.
BytesIn(blocks) ==
  {p \in 1..size : \E x \in DOMAIN blocks : \E j \in Offsets : blocks[x][j] = Data(p)}
Held == {p \in 1..size : \E j \in 0..Used - 1 : tail[j] = Data(p)}

\* Which bytes of a message SHA-1 compresses, though the blocks it makes of them
\* overlap.  Between two updates every byte has been compressed or waits in the
\* tail, except those that an update had behind a block it completed in the tail:
\* these are never looked at.  In the end the tail is compressed too, unless the
\* padding needs a second block: then the last block has nothing of the message
\* in it, and bytes that were only in the tail are left out as well.
Sha1LeavesOut ==
  algo = "sha1" =>
    /\ ~done => 1..size \ (BytesIn(fed) \union Held) = lost
    /\ done /\ Used < T => 1..size \ BytesIn(fed) = lost
    /\ done /\ Used >= T =>
         /\ lost \subseteq 1..size \ BytesIn(fed)
         /\ 1..size \ BytesIn(fed) \subseteq lost \union (size - Used + 1..size)
         /\ BytesIn(<<Last(fed)>>) = {}
=============================================================================
