---------------------------- MODULE CryptoProofs ----------------------------
(***************************************************************************)
(* Theorems about hlibc/crypto.  About Des, for every even number of        *)
(* rounds, every round function, every key schedule and every initial       *)
(* permutation; about BlockDigest, for every size of a block, place of the  *)
(* length and step of SHA-1.                                                *)
(***************************************************************************)
EXTENDS Des, BlockDigest, FiniteSetTheorems, TLAPS


Swapped(p) == <<p[2], p[1]>>

LEMMA MixedInPairs ==
  ASSUME NEW n \in Nat, NEW p \in Pairs, NEW key \in RoundKeys
  PROVE  Mixed(n, p, key) \in Pairs
<1>1. p[1] \in Halves /\ p[2] \in Halves
  BY DEF Pairs
<1>2. F[p[2], key] \in Halves /\ F[p[1], key] \in Halves
  BY <1>1, FAssumption
<1>3. \A x, y \in Halves : XorHalf[x, y] \in Halves
  BY XorAssumption DEF Pairs
<1> QED
  BY <1>1, <1>2, <1>3 DEF Mixed, Pairs

\* The rounds alternate, and there is an even number of them.
LEMMA ParityTurns ==
  ASSUME NEW n \in 0..Rounds - 1
  PROVE  n % 2 = 0 <=> (Rounds - 1 - n) % 2 # 0
<1>1. Rounds = 2 * (Rounds \div 2) + (Rounds % 2) /\ n = 2 * (n \div 2) + (n % 2)
  BY RoundsAssumption
<1>2. Rounds \div 2 \in Int /\ n \div 2 \in Int /\ n % 2 \in 0..1
  BY RoundsAssumption
<1>3. Rounds - 1 - n = 2 * (Rounds \div 2 - n \div 2 - 1) + (1 - (n % 2))
  BY <1>1, <1>2, RoundsAssumption
<1>4. (Rounds - 1 - n) % 2 = 1 - (n % 2)
  BY <1>2, <1>3
<1> QED
  BY <1>2, <1>4

\* A round is undone by the round at the mirrored place, with the same key, on
\* the halves exchanged.
LEMMA RoundUndone ==
  ASSUME NEW n \in 0..Rounds - 1, NEW p \in Pairs, NEW key \in RoundKeys
  PROVE  Mixed(Rounds - 1 - n, Swapped(Mixed(n, p, key)), key) = Swapped(p)
<1>1. p[1] \in Halves /\ p[2] \in Halves
  BY DEF Pairs
<1>2. F[p[2], key] \in Halves /\ F[p[1], key] \in Halves
  BY <1>1, FAssumption
<1>3. /\ XorHalf[XorHalf[p[1], F[p[2], key]], F[p[2], key]] = p[1]
      /\ XorHalf[XorHalf[p[2], F[p[1], key]], F[p[1], key]] = p[2]
  BY <1>1, <1>2, XorAssumption
<1>4. CASE n % 2 = 0
  <2>1. (Rounds - 1 - n) % 2 # 0
    BY <1>4, ParityTurns
  <2> QED
    BY <1>3, <1>4, <2>1 DEF Mixed, Swapped
<1>5. CASE n % 2 # 0
  <2>1. (Rounds - 1 - n) % 2 = 0
    BY <1>5, ParityTurns DEF Pairs
  <2> QED
    BY <1>3, <1>5, <2>1 DEF Mixed, Swapped
<1> QED
  BY <1>4, <1>5

LEMMA ScheduleKeys ==
  ASSUME TypeOK, NEW n \in 0..Rounds - 1
  PROVE  ks[n] \in RoundKeys
BY SchedulesAssumption DEF TypeOK

LEMMA InitTraced == Init => TypeOK /\ TraceInv
<1> SUFFICES ASSUME Init PROVE TypeOK /\ TraceInv
  OBVIOUS
<1>1. PICK b \in Blocks : /\ block = b /\ plain = b /\ cipher = b
                          /\ L = IP[b][1] /\ R = IP[b][2]
                          /\ trace = [n \in 0..Rounds |-> IP[b]]
  BY DEF Init
<1>2. IP[b] \in Pairs /\ L \in Halves /\ R \in Halves
  BY <1>1, IPAssumption DEF Pairs
<1>3. TypeOK
  <2>1. trace \in [0..Rounds -> Pairs]
    BY <1>1, <1>2
  <2>2. 0 \in 0..Rounds
    BY RoundsAssumption
  <2> QED
    BY <1>1, <1>2, <2>1, <2>2 DEF TypeOK, Init
<1> QED
  BY <1>3 DEF Init, TraceInv

LEMMA EncryptKeeps ==
  ASSUME TypeOK, TraceInv, NEW b \in Blocks, Encrypt(b)
  PROVE  TypeOK' /\ TraceInv'
<1>1. IP[b] \in Pairs /\ IP[b][1] \in Halves /\ IP[b][2] \in Halves
      /\ IP[b] = <<IP[b][1], IP[b][2]>>
  BY IPAssumption DEF Pairs
<1>2. TypeOK'
  <2>1. trace' \in [0..Rounds -> Pairs]
    BY <1>1 DEF Encrypt
  <2>2. 0 \in 0..Rounds
    BY RoundsAssumption
  <2> QED
    BY <1>1, <2>1, <2>2 DEF Encrypt, Enter, TypeOK
<1>3. trace'[0] = IP[b] /\ i' = 0 /\ plain' = b
  BY RoundsAssumption DEF Encrypt, Enter
<1>4. 0..i' - 1 = {}
  BY <1>3
<1> QED
  BY <1>1, <1>2, <1>3, <1>4 DEF Encrypt, Enter, TraceInv, Traced

LEMMA EncryptRoundKeeps ==
  ASSUME TypeOK, TraceInv, EncryptRound
  PROVE  TypeOK' /\ TraceInv'
<1> DEFINE p == Mixed(i, <<L, R>>, ks[i])
<1>1. i \in 0..Rounds - 1 /\ <<L, R>> \in Pairs /\ i' = i + 1
  BY RoundsAssumption DEF EncryptRound, TypeOK, Pairs
<1>2. p \in Pairs /\ p[1] \in Halves /\ p[2] \in Halves /\ p = <<p[1], p[2]>>
  <2>1. p \in Pairs
    BY <1>1, ScheduleKeys, MixedInPairs
  <2> QED
    BY <2>1 DEF Pairs
<1>3. trace' = [trace EXCEPT ![i + 1] = p] /\ L' = p[1] /\ R' = p[2]
  BY DEF EncryptRound
<1>4. TypeOK'
  BY <1>1, <1>2, <1>3, RoundsAssumption DEF EncryptRound, TypeOK
<1>5. Traced(i) /\ trace[i] = <<L, R>>
  BY DEF TraceInv, EncryptRound
<1>6. \A m \in 0..i : trace'[m] = trace[m]
  BY <1>1, <1>3 DEF TypeOK
<1>7. trace'[i + 1] = p
  <2>1. i + 1 \in 0..Rounds
    BY <1>1, RoundsAssumption
  <2> HIDE DEF p
  <2> QED
    BY <2>1, <1>3 DEF TypeOK
<1>8. Traced(i)' /\ trace'[i'] = <<L', R'>>
  <2>1. trace'[0] = IP[plain'] /\ ks' = ks
    BY <1>1, <1>5, <1>6 DEF Traced, EncryptRound
  <2>2. ASSUME NEW m \in 0..i' - 1
        PROVE  trace'[m + 1] = Mixed(m, trace'[m], ks'[m])
    <3>1. CASE m = i
      BY <3>1, <2>1, <1>1, <1>5, <1>6, <1>7
    <3>2. CASE m # i
      <4>1. m \in 0..i - 1 /\ m + 1 \in 0..i /\ m \in 0..i
        BY <3>2, <1>1
      <4> QED
        BY <4>1, <2>1, <1>5, <1>6 DEF Traced
    <3> QED
      BY <3>1, <3>2
  <2> QED
    BY <2>1, <2>2, <1>1, <1>2, <1>3, <1>7 DEF Traced
<1>9. ~sealed'
  BY DEF TraceInv, EncryptRound
<1> QED
  BY <1>4, <1>8, <1>9 DEF TraceInv, EncryptRound

LEMMA EncryptReturnsKeeps ==
  ASSUME TypeOK, TraceInv, EncryptReturns
  PROVE  TypeOK' /\ TraceInv'
<1>1. /\ call' = "idle" /\ ks' = ks /\ trace' = trace /\ plain' = plain
      /\ sealed' = TRUE /\ cipher' = Joined(L, R)
  BY DEF EncryptReturns
<1>2. <<R, L>> \in Pairs
  BY DEF TypeOK, Pairs
<1>3. Joined(L, R) \in Blocks
  BY <1>2, IPAssumption DEF Joined
<1>4. TypeOK'
  BY <1>1, <1>3 DEF EncryptReturns, TypeOK
<1>5. Traced(Rounds) /\ trace[Rounds] = <<L, R>>
  BY DEF TraceInv, EncryptReturns
<1>6. Traced(Rounds)'
  BY <1>1, <1>5 DEF Traced
<1>7. cipher' = Joined(trace[Rounds][1], trace[Rounds][2])
  BY <1>1, <1>5
<1> QED
  BY <1>1, <1>4, <1>6, <1>7 DEF TraceInv, Joined

LEMMA DecryptKeeps ==
  ASSUME TypeOK, TraceInv, NEW b \in Blocks, Decrypt(b)
  PROVE  TypeOK' /\ TraceInv'
<1>1. /\ call' = "decrypt" /\ i' = 0 /\ block' = b /\ L' = IP[b][1] /\ R' = IP[b][2]
      /\ ks' = ks /\ plain' = plain /\ cipher' = cipher /\ sealed' = sealed
      /\ trace' = trace
  BY DEF Decrypt, Enter, ghosts
<1>2. IP[b] \in Pairs /\ IP[b][1] \in Halves /\ IP[b][2] \in Halves
  BY IPAssumption DEF Pairs
<1>3. TypeOK'
  BY <1>1, <1>2, RoundsAssumption DEF TypeOK
<1>4. sealed' => /\ Traced(Rounds)'
                 /\ cipher' = Joined(trace[Rounds][1], trace[Rounds][2])'
  BY <1>1 DEF TraceInv, Traced, Joined
<1>5. ASSUME sealed', block' = cipher'
      PROVE  L' = trace'[Rounds][2] /\ R' = trace'[Rounds][1]
  <2>1. b = IP_inv[<<trace[Rounds][2], trace[Rounds][1]>>]
    BY <1>1, <1>5 DEF TraceInv, Joined
  <2>2. <<trace[Rounds][2], trace[Rounds][1]>> \in Pairs
    BY RoundsAssumption DEF TypeOK, Pairs
  <2>3. IP[b] = <<trace[Rounds][2], trace[Rounds][1]>>
    BY <2>1, <2>2, IPAssumption
  <2> QED
    BY <1>1, <2>3
<1>6. Rounds - i' = Rounds
  BY <1>1, RoundsAssumption
<1> QED
  BY <1>1, <1>3, <1>4, <1>5, <1>6 DEF TraceInv

LEMMA DecryptRoundKeeps ==
  ASSUME TypeOK, TraceInv, DecryptRound
  PROVE  TypeOK' /\ TraceInv'
<1> DEFINE n == Rounds - 1 - i
           p == Mixed(i, <<L, R>>, ks[n])
<1>1. i \in 0..Rounds - 1 /\ <<L, R>> \in Pairs /\ i' = i + 1 /\ n \in 0..Rounds - 1
  BY RoundsAssumption DEF DecryptRound, TypeOK, Pairs
<1>2. p \in Pairs /\ p[1] \in Halves /\ p[2] \in Halves
  <2>1. p \in Pairs
    BY <1>1, ScheduleKeys, MixedInPairs
  <2> QED
    BY <2>1 DEF Pairs
<1>3. /\ L' = p[1] /\ R' = p[2] /\ call = "decrypt" /\ call' = call
      /\ ks' = ks /\ block' = block /\ plain' = plain /\ cipher' = cipher
      /\ sealed' = sealed /\ trace' = trace
  BY DEF DecryptRound, ghosts
<1>4. TypeOK'
  BY <1>1, <1>2, <1>3, RoundsAssumption DEF TypeOK
<1>5. sealed' => /\ Traced(Rounds)'
                 /\ cipher' = Joined(trace[Rounds][1], trace[Rounds][2])'
  BY <1>3 DEF TraceInv, Traced, Joined
<1>6. ASSUME sealed, block = cipher
      PROVE  L' = trace[n][2] /\ R' = trace[n][1]
  <2>1. Rounds - i = n + 1 /\ i = Rounds - 1 - n /\ n + 1 \in 0..Rounds
    BY <1>1, RoundsAssumption
  <2>2. L = trace[n + 1][2] /\ R = trace[n + 1][1]
    BY <1>3, <1>6, <2>1 DEF TraceInv
  <2>3. <<L, R>> = Swapped(trace[n + 1])
    BY <2>2 DEF Swapped
  <2>4. trace[n + 1] = Mixed(n, trace[n], ks[n])
    BY <1>1, <1>6 DEF TraceInv, Traced
  <2>5. trace[n] \in Pairs /\ ks[n] \in RoundKeys
    <3>1. n \in 0..Rounds
      BY <1>1, RoundsAssumption
    <3>2. trace[n] \in Pairs
      BY <3>1 DEF TypeOK
    <3> HIDE DEF n
    <3> QED
      BY <3>2, <1>1, ScheduleKeys
  <2>6. p = Swapped(trace[n])
    BY <1>1, <2>1, <2>3, <2>4, <2>5, RoundUndone
  <2> QED
    BY <1>3, <2>6 DEF Swapped
<1>7. Rounds - i' = n
  BY <1>1, RoundsAssumption
<1> QED
  BY <1>3, <1>4, <1>5, <1>6, <1>7 DEF TraceInv

LEMMA OthersKeep ==
  ASSUME TypeOK, TraceInv,
         \/ \E schedule \in Schedules : DesInit(schedule)
         \/ DecryptReturns \/ UNCHANGED vars
  PROVE  TypeOK' /\ TraceInv'
<1>1. CASE \E schedule \in Schedules : DesInit(schedule)
  BY <1>1 DEF DesInit, TypeOK, TraceInv
<1>2. CASE DecryptReturns
  BY <1>2 DEF DecryptReturns, ghosts, TypeOK, TraceInv, Traced, Joined
<1>3. CASE UNCHANGED vars
  BY <1>3 DEF vars, ghosts, TypeOK, TraceInv, Traced, Joined
<1> QED
  BY <1>1, <1>2, <1>3

\* At every moment decryption stands where encryption stood, going backwards.
THEOREM RoundsRetraced == Spec => [](TypeOK /\ TraceInv)
<1>1. TypeOK /\ TraceInv /\ [Next]_vars => TypeOK' /\ TraceInv'
  <2> SUFFICES ASSUME TypeOK, TraceInv, [Next]_vars PROVE TypeOK' /\ TraceInv'
    OBVIOUS
  <2>1. ASSUME NEW b \in Blocks, Encrypt(b) PROVE TypeOK' /\ TraceInv'
    BY <2>1, EncryptKeeps
  <2>2. ASSUME NEW b \in Blocks, Decrypt(b) PROVE TypeOK' /\ TraceInv'
    BY <2>2, DecryptKeeps
  <2>3. CASE EncryptRound
    BY <2>3, EncryptRoundKeeps
  <2>4. CASE EncryptReturns
    BY <2>4, EncryptReturnsKeeps
  <2>5. CASE DecryptRound
    BY <2>5, DecryptRoundKeeps
  <2> QED
    BY <2>1, <2>2, <2>3, <2>4, <2>5, OthersKeep DEF Next
<1> QED
  BY InitTraced, <1>1, PTL DEF Spec

\* des_decrypt under the schedule a block was encrypted under gives the block
\* back, for every round function and every schedule.
THEOREM DecryptionUndoesEncryption == Spec => RoundTrip
<1> DEFINE Undone == DecryptReturns /\ sealed /\ block = cipher => Joined(L, R) = plain
<1>1. TypeOK /\ TraceInv => Undone
  <2> SUFFICES ASSUME TypeOK, TraceInv, DecryptReturns, sealed, block = cipher
               PROVE  Joined(L, R) = plain
    OBVIOUS
  <2>1. L = trace[0][2] /\ R = trace[0][1] /\ trace[0] = IP[plain]
    <3>1. Rounds - i = 0 /\ call = "decrypt"
      BY RoundsAssumption DEF DecryptReturns
    <3> QED
      BY <3>1 DEF TraceInv, Traced
  <2>2. plain \in Blocks /\ IP[plain] \in Pairs
    BY IPAssumption DEF TypeOK
  <2>3. <<R, L>> = IP[plain]
    BY <2>1, <2>2 DEF Pairs
  <2> QED
    BY <2>2, <2>3, IPAssumption DEF Joined
<1>2. [](TypeOK /\ TraceInv) => [][Undone]_vars
  BY <1>1, PTL
<1> QED
  BY <1>2, RoundsRetraced DEF RoundTrip

-----------------------------------------------------------------------------
(* The digests. *)


Kinds == {"data", "unset", "zero", "mark", "fill", "length", "size", "checksum"}
Byte  == [kind : Kinds, val : Int]
Block == [Offsets -> Byte]

DigestTypeOK ==
  /\ algo \in {"none", "md2", "md4", "md5", "sha1"}
  /\ size \in Nat
  /\ tail \in Block
  /\ fed \in Seq(Block)
  /\ done \in BOOLEAN

\* The numbers up to y that are not in K.
Upto(K, y) == {z \in 1..y : z \notin K}
Rank(K, y) == Cardinality(Upto(K, y))

\* f has the blocks of s in order, without those whose numbers are in K.
IsKept(f, s, K) ==
  /\ Len(f) = Len(s) - Cardinality(K)
  /\ \A y \in 1..Len(s) : y \notin K => Rank(K, y) \in 1..Len(f) /\ f[Rank(K, y)] = s[y]
  /\ \A x \in 1..Len(f) : \E y \in 1..Len(s) : y \notin K /\ Rank(K, y) = x

Kth(s, K, x) == CHOOSE y \in DOMAIN s \ K : Rank(K, y) = x

\* Block y of the message, and its first c.
Full(y)  == [j \in Offsets |-> Data((y - 1) * B + j + 1)]
Whole(c) == [y \in 1..c |-> Full(y)]

\* Before finalize, what was fed is the message so far, as far as it is whole
\* blocks, without the lost ones, and the tail is what follows.
FeedInv ==
  algo \in {"md2", "md4", "md5"} /\ ~done =>
    /\ lost \in SUBSET (1..size \div B)
    /\ IsKept(fed, Whole(size \div B), lost)
    /\ \A j \in 0..Used - 1 : tail[j] = Data((size \div B) * B + j + 1)

DigestInv ==
  algo \in {"md2", "md4", "md5"} /\ done =>
    /\ MessageBlocks \in Seq(Block)
    /\ lost \in SUBSET (1..Len(MessageBlocks))
    /\ \E f \in Seq(Block) : IsKept(f, MessageBlocks, lost) /\ fed = WithChecksum(f)

IInv == DigestTypeOK /\ FeedInv /\ DigestInv

-----------------------------------------------------------------------------
(* Division and ranks.  *)

LEMMA DivMod ==
  ASSUME NEW a \in Nat, NEW b \in Nat \ {0}
  PROVE  /\ a \div b \in Nat /\ a % b \in 0..b - 1
         /\ a = (a \div b) * b + (a % b)
<1>1. a % b \in 0..b - 1
  OBVIOUS
<1>2. a \div b \in Int
  OBVIOUS
<1>3. a = (a \div b) * b + (a % b)
  OBVIOUS
<1>4. a \div b \in Nat
  BY <1>1, <1>2, <1>3
<1> QED
  BY <1>1, <1>3, <1>4

LEMMA ProductGrows ==
  ASSUME NEW b \in Nat \ {0}, NEW p \in Int, NEW q \in Int, p < q
  PROVE  p * b + b <= q * b
OBVIOUS

LEMMA DivModIs ==
  ASSUME NEW b \in Nat \ {0}, NEW q \in Nat, NEW r \in 0..b - 1
  PROVE  (q * b + r) \div b = q /\ (q * b + r) % b = r
<1> DEFINE a == q * b + r
           d == a \div b
           m == a % b
<1>1. a \in Nat
  OBVIOUS
<1>2. d \in Nat /\ m \in 0..b - 1 /\ a = d * b + m
  <2> HIDE DEF a
  <2> QED
    BY <1>1, DivMod
<1> HIDE DEF d, m
<1>3. d = q
  BY <1>2, ProductGrows
<1>4. m = r
  BY <1>2, <1>3
<1> QED
  BY <1>3, <1>4 DEF d, m

\* The message so far in blocks and the rest.
LEMMA SizeSplit ==
  ASSUME DigestTypeOK
  PROVE  /\ size \div B \in Nat /\ Used \in 0..B - 1
         /\ size = (size \div B) * B + Used
BY BlockAssumption, DivMod DEF DigestTypeOK, Used

LEMMA UptoFinite ==
  ASSUME NEW K, NEW y \in Nat
  PROVE  IsFiniteSet(Upto(K, y)) /\ Rank(K, y) \in Nat
<1>1. IsFiniteSet(1..y) /\ Upto(K, y) \in SUBSET (1..y)
  BY FS_Interval DEF Upto
<1>2. IsFiniteSet(Upto(K, y))
  BY <1>1, FS_Subset
<1> QED
  BY <1>2, FS_CardinalityType DEF Rank

\* A number that is kept has a greater rank than those before it.
LEMMA RankGrows ==
  ASSUME NEW K, NEW x \in Nat, NEW y \in Nat, x < y, y \notin K
  PROVE  Rank(K, x) < Rank(K, y)
<1>1. Upto(K, x) \in SUBSET Upto(K, y) /\ y \in Upto(K, y) /\ y \notin Upto(K, x)
  BY DEF Upto
<1>2. IsFiniteSet(Upto(K, y)) /\ Rank(K, y) \in Nat /\ Rank(K, x) \in Nat
  BY UptoFinite
<1>3. /\ Cardinality(Upto(K, x)) <= Cardinality(Upto(K, y))
      /\ Cardinality(Upto(K, x)) # Cardinality(Upto(K, y))
  BY <1>1, <1>2, FS_Subset
<1> QED
  BY <1>2, <1>3 DEF Rank

\* Behind all the numbers that are not kept, the rank is short of them.
LEMMA RankBehind ==
  ASSUME NEW n \in Nat, NEW K \in SUBSET (1..n), NEW y \in Nat, y >= n
  PROVE  /\ IsFiniteSet(K) /\ Cardinality(K) \in 0..n
         /\ Rank(K, y) = y - Cardinality(K)
<1>1. /\ IsFiniteSet(1..n) /\ Cardinality(1..n) = n
      /\ IsFiniteSet(1..y) /\ Cardinality(1..y) = y
  <2>1. ASSUME NEW m \in Nat PROVE IsFiniteSet(1..m) /\ Cardinality(1..m) = m
    BY FS_Interval
  <2> QED
    BY <2>1
<1>2. IsFiniteSet(K) /\ Cardinality(K) <= n
  BY <1>1, FS_Subset
<1>3. Cardinality(K) \in Nat
  BY <1>2, FS_CardinalityType
<1>4. Upto(K, y) = (1..y) \ K /\ (1..y) \cap K = K
  <2>1. K \subseteq 1..y
    OBVIOUS
  <2>2. Upto(K, y) = (1..y) \ K
    BY DEF Upto
  <2> QED
    BY <2>1, <2>2
<1>5. Cardinality((1..y) \ K) = Cardinality(1..y) - Cardinality((1..y) \cap K)
  BY <1>1, FS_Difference
<1>6. Rank(K, y) = y - Cardinality(K)
  BY <1>1, <1>4, <1>5 DEF Rank
<1> QED
  BY <1>2, <1>3, <1>6

-----------------------------------------------------------------------------
(* Sequences without some of their elements.  *)

LEMMA Concat ==
  ASSUME NEW S, NEW s \in Seq(S), NEW t \in Seq(S)
  PROVE  /\ s \o t \in Seq(S)
         /\ Len(s \o t) = Len(s) + Len(t)
         /\ \A x \in 1..Len(s) : (s \o t)[x] = s[x]
         /\ \A x \in 1..Len(t) : (s \o t)[Len(s) + x] = t[x]
OBVIOUS

LEMMA AppendIs ==
  ASSUME NEW S, NEW s \in Seq(S), NEW e \in S
  PROVE  /\ Append(s, e) \in Seq(S) /\ Len(Append(s, e)) = Len(s) + 1
         /\ \A x \in 1..Len(s) : Append(s, e)[x] = s[x]
         /\ Append(s, e)[Len(s) + 1] = e
         /\ s \o <<e>> = Append(s, e) /\ <<e>> \in Seq(S)
OBVIOUS

LEMMA SameSeq ==
  ASSUME NEW S, NEW s \in Seq(S), NEW t \in Seq(S), Len(s) = Len(t),
         \A x \in 1..Len(s) : s[x] = t[x]
  PROVE  s = t
OBVIOUS

LEMMA AppendTwo ==
  ASSUME NEW S, NEW s \in Seq(S), NEW d \in S, NEW e \in S
  PROVE  s \o <<d, e>> = Append(Append(s, d), e)
<1>1. <<d, e>> \in Seq(S) /\ Len(<<d, e>>) = 2 /\ <<d, e>>[1] = d /\ <<d, e>>[2] = e
  OBVIOUS
<1> DEFINE t == <<d, e>>
           u == s \o t
           v == Append(Append(s, d), e)
<1>2. t \in Seq(S) /\ Len(t) = 2 /\ t[1] = d /\ t[2] = e /\ Len(s) \in Nat
  BY <1>1
<1> HIDE DEF t
<1>3. /\ u \in Seq(S) /\ Len(u) = Len(s) + 2 /\ \A x \in 1..Len(s) : u[x] = s[x]
      /\ u[Len(s) + 1] = d /\ u[Len(s) + 2] = e
  <2>1. /\ u \in Seq(S) /\ Len(u) = Len(s) + Len(t) /\ \A x \in 1..Len(s) : u[x] = s[x]
        /\ \A x \in 1..Len(t) : u[Len(s) + x] = t[x]
    <3>1. t \in Seq(S)
      BY <1>2
    <3> QED
      BY <3>1, Concat
  <2>2. 1 \in 1..Len(t) /\ 2 \in 1..Len(t)
    BY <1>2
  <2> HIDE DEF u
  <2> QED
    BY <1>2, <2>1, <2>2
<1>4. /\ v \in Seq(S) /\ Len(v) = Len(s) + 2 /\ \A x \in 1..Len(s) : v[x] = s[x]
      /\ v[Len(s) + 1] = d /\ v[Len(s) + 2] = e
  BY <1>2
<1> HIDE DEF u, v
<1>5. \A x \in 1..Len(s) + 2 : x \in 1..Len(s) \/ x = Len(s) + 1 \/ x = Len(s) + 2
  BY <1>2
<1>6. u = v
  BY <1>3, <1>4, <1>5, SameSeq
<1> QED
  BY <1>6 DEF u, v, t

\* More elements, all of them kept.
LEMMA KeptConcat ==
  ASSUME NEW S, NEW f \in Seq(S), NEW s \in Seq(S), NEW t \in Seq(S),
         NEW K \in SUBSET (1..Len(s)), IsKept(f, s, K)
  PROVE  IsKept(f \o t, s \o t, K)
<1> DEFINE n == Len(s)
           m == Len(t)
           c == Cardinality(K)
<1>1. n \in Nat /\ m \in Nat /\ c \in 0..n /\ Len(f) = n - c
  BY RankBehind DEF IsKept
<1>2. /\ Len(f \o t) = Len(f) + m /\ Len(s \o t) = n + m
      /\ \A x \in 1..Len(f) : (f \o t)[x] = f[x]
      /\ \A x \in 1..n : (s \o t)[x] = s[x]
      /\ \A x \in 1..m : (f \o t)[Len(f) + x] = t[x] /\ (s \o t)[n + x] = t[x]
  BY Concat
<1>3. \A x \in 1..m : n + x \notin K /\ Rank(K, n + x) = Len(f) + x
  <2> TAKE x \in 1..m
  <2>1. n + x \in Nat /\ n + x >= n /\ n + x \notin K
    BY <1>1
  <2> QED
    BY <1>1, <2>1, RankBehind
<1>4. \A y \in 1..n : y \notin K => Rank(K, y) \in 1..Len(f) /\ f[Rank(K, y)] = s[y]
  BY DEF IsKept
<1>5. \A x \in 1..Len(f) : \E y \in 1..n : y \notin K /\ Rank(K, y) = x
  BY DEF IsKept
<1> HIDE DEF n, m, c
<1>6. ASSUME NEW y \in 1..n + m, y \notin K
      PROVE  Rank(K, y) \in 1..Len(f) + m /\ (f \o t)[Rank(K, y)] = (s \o t)[y]
  <2>1. CASE y \in 1..n
    <3>1. Rank(K, y) \in 1..Len(f) /\ f[Rank(K, y)] = s[y]
      BY <1>4, <1>6, <2>1
    <3>2. (f \o t)[Rank(K, y)] = f[Rank(K, y)] /\ (s \o t)[y] = s[y]
      BY <1>2, <2>1, <3>1
    <3> QED
      BY <1>1, <3>1, <3>2
  <2>2. CASE y \notin 1..n
    <3>1. y - n \in 1..m /\ y = n + (y - n)
      BY <1>1, <2>2
    <3>2. Rank(K, y) = Len(f) + (y - n)
      BY <1>3, <3>1
    <3>3. (f \o t)[Len(f) + (y - n)] = t[y - n] /\ (s \o t)[n + (y - n)] = t[y - n]
      BY <1>2, <3>1
    <3>4. (f \o t)[Rank(K, y)] = (s \o t)[y]
      BY <3>1, <3>2, <3>3
    <3> QED
      BY <1>1, <3>1, <3>2, <3>4
  <2> QED
    BY <2>1, <2>2
<1>7. ASSUME NEW x \in 1..Len(f) + m
      PROVE  \E y \in 1..n + m : y \notin K /\ Rank(K, y) = x
  <2>1. CASE x \in 1..Len(f)
    BY <1>1, <1>5, <2>1
  <2>2. CASE x \notin 1..Len(f)
    <3>1. x - Len(f) \in 1..m /\ x = Len(f) + (x - Len(f))
      BY <1>1, <2>2
    <3>2. n + (x - Len(f)) \notin K /\ Rank(K, n + (x - Len(f))) = x
      BY <1>3, <3>1
    <3> QED
      BY <1>1, <3>1, <3>2
  <2> QED
    BY <2>1, <2>2
<1>8. Len(f) + m = (n + m) - c
  BY <1>1
<1>9. /\ Len(f \o t) = Len(s \o t) - c
      /\ \A y \in 1..Len(s \o t) : y \notin K =>
           Rank(K, y) \in 1..Len(f \o t) /\ (f \o t)[Rank(K, y)] = (s \o t)[y]
      /\ \A x \in 1..Len(f \o t) : \E y \in 1..Len(s \o t) : y \notin K /\ Rank(K, y) = x
  BY <1>2, <1>6, <1>7, <1>8
<1> QED
  BY <1>9 DEF IsKept, c

\* One more element, which is not kept.
LEMMA KeptSkip ==
  ASSUME NEW S, NEW f \in Seq(S), NEW s \in Seq(S), NEW e \in S,
         NEW K \in SUBSET (1..Len(s)), IsKept(f, s, K)
  PROVE  IsKept(f, Append(s, e), K \cup {Len(s) + 1})
<1> DEFINE n == Len(s)
           M == K \cup {n + 1}
<1>1. n \in Nat /\ n + 1 \notin K /\ IsFiniteSet(K) /\ Cardinality(K) \in 0..n
  BY RankBehind
<1>2. Cardinality(M) = Cardinality(K) + 1
  BY <1>1, FS_AddElement
<1>3. Len(Append(s, e)) = n + 1 /\ \A y \in 1..n : Append(s, e)[y] = s[y]
  OBVIOUS
<1>4. \A y \in 1..n : Rank(M, y) = Rank(K, y)
  <2> TAKE y \in 1..n
  <2>1. Upto(M, y) = Upto(K, y)
    BY <1>1 DEF Upto
  <2> QED
    BY <2>1 DEF Rank
<1>5. \A y \in 1..n + 1 : y \notin M => y \in 1..n /\ y \notin K
  BY <1>1
<1>6. \A y \in 1..n : y \notin K => y \notin M
  BY <1>1
<1>7. Len(f) = (n + 1) - Cardinality(M)
  BY <1>1, <1>2 DEF IsKept
<1>8. /\ \A y \in 1..n : y \notin K => Rank(K, y) \in 1..Len(f) /\ f[Rank(K, y)] = s[y]
      /\ \A x \in 1..Len(f) : \E y \in 1..n : y \notin K /\ Rank(K, y) = x
  BY DEF IsKept
<1> HIDE DEF n, M
<1>9. \A y \in 1..n + 1 : y \notin M =>
        Rank(M, y) \in 1..Len(f) /\ f[Rank(M, y)] = Append(s, e)[y]
  BY <1>3, <1>4, <1>5, <1>8
<1>10. \A x \in 1..Len(f) : \E y \in 1..n + 1 : y \notin M /\ Rank(M, y) = x
  BY <1>1, <1>4, <1>6, <1>8
<1>11. IsKept(f, Append(s, e), M)
  BY <1>3, <1>7, <1>9, <1>10 DEF IsKept
<1> QED
  BY <1>11 DEF M, n

\* What is kept is determined: element x is the one of rank x.
LEMMA KeptIs ==
  ASSUME NEW S, NEW f \in Seq(S), NEW s \in Seq(S),
         NEW K \in SUBSET (1..Len(s)), IsKept(f, s, K)
  PROVE  f = [x \in 1..Len(s) - Cardinality(K) |-> s[Kth(s, K, x)]]
<1> SUFFICES ASSUME NEW x \in 1..Len(f) PROVE f[x] = s[Kth(s, K, x)]
  BY DEF IsKept
<1>1. PICK y \in 1..Len(s) : y \notin K /\ Rank(K, y) = x
  BY DEF IsKept
<1>2. f[x] = s[y]
  BY <1>1 DEF IsKept
<1>3. DOMAIN s = 1..Len(s)
  OBVIOUS
<1>4. Kth(s, K, x) \in DOMAIN s \ K /\ Rank(K, Kth(s, K, x)) = x
  BY <1>1, <1>3 DEF Kth
<1>5. Kth(s, K, x) = y
  <2> DEFINE k == Kth(s, K, x)
  <2>1. k \in Nat /\ y \in Nat /\ k \notin K
    BY <1>3, <1>4
  <2> HIDE DEF k
  <2>2. ~(k < y) /\ ~(y < k)
    BY <1>1, <1>4, <2>1, RankGrows DEF k
  <2> QED
    BY <2>1, <2>2 DEF k
<1> QED
  BY <1>2, <1>5

-----------------------------------------------------------------------------
(* Bytes and blocks.  *)

LEMMA Bytes ==
  /\ \A p \in Int : Data(p) \in Byte /\ LenByte(p) \in Byte /\ SizeByte(p) \in Byte
                    /\ Fill(p) \in Byte /\ Checksum(p) \in Byte
  /\ Unset \in Byte /\ Zero \in Byte /\ Mark \in Byte
<1>1. ASSUME NEW k \in Kinds, NEW p \in Int PROVE [kind |-> k, val |-> p] \in Byte
  BY DEF Byte
<1>2. /\ "data" \in Kinds /\ "unset" \in Kinds /\ "zero" \in Kinds /\ "mark" \in Kinds
      /\ "fill" \in Kinds /\ "length" \in Kinds /\ "size" \in Kinds /\ "checksum" \in Kinds
  BY DEF Kinds
<1>3. \A p \in Int : Data(p) \in Byte /\ Fill(p) \in Byte /\ Checksum(p) \in Byte
  BY <1>1, <1>2 DEF Data, Fill, Checksum
<1>4. \A p \in Int : LenByte(p) \in Byte /\ [kind |-> "size", val |-> p] \in Byte
  BY <1>1, <1>2 DEF LenByte
<1>5. \A p \in Int : SizeByte(p) \in Byte
  BY <1>4 DEF SizeByte
<1>6. Unset \in Byte /\ Zero \in Byte /\ Mark \in Byte
  BY <1>1, <1>2 DEF Unset, Zero, Mark
<1> QED
  BY <1>3, <1>4, <1>5, <1>6

LEMMA OffsetInt == \A j \in Offsets : j \in Int /\ j \in Nat /\ 0 <= j /\ j < B
BY BlockAssumption DEF Offsets

LEMMA FullBlock ==
  ASSUME NEW y \in Int
  PROVE  Full(y) \in Block
<1>1. ASSUME NEW j \in Offsets PROVE Data((y - 1) * B + j + 1) \in Byte
  <2>1. (y - 1) * B + j + 1 \in Int
    BY BlockAssumption, OffsetInt
  <2> QED
    BY <2>1, Bytes
<1> QED
  BY <1>1 DEF Full, Block

\* The w blocks of the message behind its first c.
Taken(c, w) == [x \in 1..w |-> Full(c + x)]

LEMMA WholeSeq ==
  ASSUME NEW c \in Nat
  PROVE  Whole(c) \in Seq(Block) /\ Len(Whole(c)) = c
<1>1. \A y \in 1..c : Full(y) \in Block
  BY FullBlock
<1> QED
  BY <1>1 DEF Whole

LEMMA TakenSeq ==
  ASSUME NEW c \in Nat, NEW w \in Nat
  PROVE  Taken(c, w) \in Seq(Block) /\ Len(Taken(c, w)) = w
<1>1. \A x \in 1..w : Full(c + x) \in Block
  BY FullBlock
<1> QED
  BY <1>1 DEF Taken

LEMMA WholeTaken ==
  ASSUME NEW c \in Nat, NEW w \in Nat
  PROVE  Whole(c + w) = Whole(c) \o Taken(c, w)
<1> DEFINE s == Whole(c) \o Taken(c, w)
<1>1. /\ s \in Seq(Block) /\ Len(s) = c + w
      /\ \A x \in 1..c : s[x] = Whole(c)[x]
      /\ \A x \in 1..w : s[c + x] = Taken(c, w)[x]
  <2>1. /\ Whole(c) \in Seq(Block) /\ Len(Whole(c)) = c
        /\ Taken(c, w) \in Seq(Block) /\ Len(Taken(c, w)) = w
    BY WholeSeq, TakenSeq
  <2> DEFINE a == Whole(c)
             b == Taken(c, w)
  <2>2. a \in Seq(Block) /\ b \in Seq(Block)
    BY <2>1
  <2> HIDE DEF a, b
  <2>3. /\ a \o b \in Seq(Block) /\ Len(a \o b) = Len(a) + Len(b)
        /\ \A x \in 1..Len(a) : (a \o b)[x] = a[x]
        /\ \A x \in 1..Len(b) : (a \o b)[Len(a) + x] = b[x]
    BY <2>2, Concat
  <2> QED
    BY <2>1, <2>3 DEF a, b
<1>2. c + w \in Nat /\ Whole(c + w) \in Seq(Block) /\ Len(Whole(c + w)) = c + w
  BY WholeSeq
<1> HIDE DEF s
<1>3. ASSUME NEW y \in 1..c + w PROVE s[y] = Full(y)
  <2>1. CASE y \in 1..c
    BY <1>1, <2>1 DEF Whole
  <2>2. CASE y \notin 1..c
    <3>1. y - c \in 1..w /\ c + (y - c) = y
      BY <2>2
    <3>2. s[c + (y - c)] = Taken(c, w)[y - c]
      BY <1>1, <3>1
    <3> QED
      BY <3>1, <3>2 DEF Taken
  <2> QED
    BY <2>1, <2>2
<1>4. \A y \in 1..c + w : Whole(c + w)[y] = Full(y)
  BY DEF Whole
<1>5. Whole(c + w) = s
  BY <1>1, <1>2, <1>3, <1>4, SameSeq
<1> QED
  BY <1>5 DEF s

LEMMA WholeNext ==
  ASSUME NEW c \in Nat
  PROVE  Whole(c + 1) = Append(Whole(c), Full(c + 1))
<1>1. /\ Whole(c) \in Seq(Block) /\ Len(Whole(c)) = c
      /\ Whole(c + 1) \in Seq(Block) /\ Len(Whole(c + 1)) = c + 1
      /\ Full(c + 1) \in Block
  BY WholeSeq, FullBlock
<1>2. \A y \in 1..c + 1 : Whole(c + 1)[y] = Full(y)
  BY DEF Whole
<1>3. \A y \in 1..c : Whole(c)[y] = Full(y)
  BY DEF Whole
<1> DEFINE s == Append(Whole(c), Full(c + 1))
<1>4. /\ s \in Seq(Block) /\ Len(s) = c + 1 /\ s[c + 1] = Full(c + 1)
      /\ \A y \in 1..c : s[y] = Whole(c)[y]
  BY <1>1
<1> HIDE DEF s
<1>5. \A y \in 1..c + 1 : s[y] = Full(y)
  BY <1>3, <1>4
<1>6. Whole(c + 1) = s
  BY <1>1, <1>2, <1>4, <1>5, SameSeq
<1> QED
  BY <1>6 DEF s

-----------------------------------------------------------------------------
(* An update.  *)

\* The tail with what an update adds to it.
Added(len) ==
  LET last == IF Used + len < B THEN Used + len - 1 ELSE B - 1
  IN [j \in Offsets |-> IF Used > 0 /\ j \in Used..last THEN Data(size + (j - Used) + 1)
                        ELSE tail[j]]

LEMMA AddedBlock ==
  ASSUME DigestTypeOK, NEW len \in Nat
  PROVE  Added(len) \in Block
<1>1. /\ Used \in Int /\ size \in Int /\ \A j \in Offsets : tail[j] \in Byte
  BY SizeSplit, BlockAssumption DEF DigestTypeOK, Block
<1>2. \A j \in Offsets : Data(size + (j - Used) + 1) \in Byte
  BY <1>1, OffsetInt, Bytes
<1> QED
  BY <1>1, <1>2 DEF Added, Block

\* An update that does not fit in the tail, with the numbers of the block c that
\* the tail was the beginning of, and of those it compresses.
LEMMA AbsorbFeeds ==
  ASSUME DigestTypeOK, NEW len \in Nat, Absorb(len), ~(Used > 0 /\ len < Comp),
         NEW c \in Nat, c = IF Used = 0 THEN size \div B ELSE size \div B + 1
  PROVE  \E w \in Nat :
           /\ size' \div B = c + w
           /\ fed' = fed \o Taken(c, w)
           /\ tail' \in Block
           /\ \A j \in 0..Used' - 1 : tail'[j] = Data((c + w) * B + j + 1)
<1> DEFINE whole == (len - Skip) \div B
           rest  == (len - Skip) % B
<1>1. /\ size \div B \in Nat /\ Used \in 0..B - 1 /\ size \in Nat
      /\ size = (size \div B) * B + Used
  BY SizeSplit DEF DigestTypeOK
<1>2. Skip \in Nat /\ len - Skip \in Nat /\ size + Skip = c * B
  <2>1. CASE Used = 0
    BY <1>1, <2>1, BlockAssumption DEF Skip
  <2>2. CASE Used # 0
    <3>1. c * B = (size \div B) * B + B
      BY <1>1, <2>2, BlockAssumption
    <3> QED
      BY <1>1, <2>2, <3>1, BlockAssumption DEF Skip, Comp
  <2> QED
    BY <2>1, <2>2
<1>3. whole \in Nat /\ rest \in 0..B - 1 /\ len - Skip = whole * B + rest
  BY <1>2, BlockAssumption, DivMod
<1>4. /\ size' = size + len
      /\ tail' = [j \in Offsets |-> IF j < rest THEN Data(size + (len - rest + j) + 1)
                                               ELSE Added(len)[j]]
      /\ fed' = fed \o [x \in 1..whole |->
                          [j \in Offsets |-> Data(size + (Skip + (x - 1) * B + j) + 1)]]
  BY DEF Absorb, Added
<1> HIDE DEF whole, rest
<1>5. (c + whole) * B = c * B + whole * B /\ c + whole \in Nat
  BY <1>3, BlockAssumption
<1>6. size' = (c + whole) * B + rest
  <2>1. /\ c * B \in Int /\ whole * B \in Int /\ rest \in Int /\ Skip \in Int /\ size \in Int
    BY <1>1, <1>2, <1>3, BlockAssumption
  <2>2. size = c * B - Skip /\ len = Skip + (whole * B + rest)
    BY <1>1, <1>2, <1>3, <2>1
  <2> QED
    BY <1>4, <1>5, <2>1, <2>2
<1>7. size' \div B = c + whole /\ Used' = rest
  BY <1>3, <1>5, <1>6, DivModIs, BlockAssumption DEF Used
<1>8. [x \in 1..whole |-> [j \in Offsets |-> Data(size + (Skip + (x - 1) * B + j) + 1)]]
        = Taken(c, whole)
  <2>1. ASSUME NEW x \in 1..whole, NEW j \in Offsets
        PROVE  size + (Skip + (x - 1) * B + j) + 1 = ((c + x) - 1) * B + j + 1
    <3>1. ((c + x) - 1) * B = c * B + (x - 1) * B
      BY BlockAssumption, <1>3
    <3> QED
      BY <1>1, <1>2, <1>3, <3>1, OffsetInt, BlockAssumption
  <2> QED
    BY <2>1 DEF Taken, Full
<1>9. ASSUME NEW j \in Offsets, j < rest
      PROVE  size + (len - rest + j) + 1 = (c + whole) * B + j + 1
  BY <1>1, <1>2, <1>3, <1>5, OffsetInt, BlockAssumption
<1>10. \A j \in 0..Used' - 1 : tail'[j] = Data((c + whole) * B + j + 1)
  <2>1. \A j \in 0..Used' - 1 : j \in Offsets /\ j < rest
    BY <1>3, <1>7, BlockAssumption DEF Offsets
  <2> QED
    BY <1>4, <1>9, <2>1
<1>11. tail' \in Block
  <2>1. \A j \in Offsets : Data(size + (len - rest + j) + 1) \in Byte
    BY <1>1, <1>3, OffsetInt, BlockAssumption, Bytes
  <2>2. \A j \in Offsets : Added(len)[j] \in Byte
    BY AddedBlock DEF Block
  <2> QED
    BY <1>4, <2>1, <2>2 DEF Block
<1> QED
  BY <1>3, <1>4, <1>7, <1>8, <1>10, <1>11

LEMMA AbsorbTypeOK ==
  ASSUME DigestTypeOK, NEW len \in Nat, Absorb(len)
  PROVE  DigestTypeOK'
<1>1. /\ algo' = algo /\ done' = done /\ size' \in Nat
  BY DEF Absorb, DigestTypeOK
<1>2. CASE Used > 0 /\ len < Comp
  <2>1. tail' = Added(len) /\ fed' = fed
    BY <1>2 DEF Absorb, Added
  <2> QED
    BY <1>1, <2>1, AddedBlock DEF DigestTypeOK
<1>3. CASE ~(Used > 0 /\ len < Comp)
  <2> DEFINE c == IF Used = 0 THEN size \div B ELSE size \div B + 1
  <2>1. c \in Nat
    BY SizeSplit
  <2> HIDE DEF c
  <2>2. PICK w \in Nat : fed' = fed \o Taken(c, w) /\ tail' \in Block
    BY <1>3, <2>1, AbsorbFeeds DEF c
  <2>3. Taken(c, w) \in Seq(Block) /\ fed \in Seq(Block)
    BY <2>1, TakenSeq DEF DigestTypeOK
  <2>4. fed' \in Seq(Block)
    BY <2>2, <2>3, Concat
  <2> QED
    BY <1>1, <2>2, <2>4 DEF DigestTypeOK
<1> QED
  BY <1>2, <1>3

LEMMA AbsorbFeedInv ==
  ASSUME DigestTypeOK, FeedInv, algo \in {"md2", "md4", "md5"}, NEW len \in Nat, Absorb(len)
  PROVE  FeedInv'
<1> DEFINE q == size \div B
<1>1. /\ q \in Nat /\ Used \in 0..B - 1 /\ size \in Nat /\ size = q * B + Used
      /\ fed \in Seq(Block)
  BY SizeSplit DEF DigestTypeOK
<1>2. /\ lost \in SUBSET (1..q) /\ IsKept(fed, Whole(q), lost)
      /\ \A j \in 0..Used - 1 : tail[j] = Data(q * B + j + 1)
  BY DEF Absorb, FeedInv
<1> HIDE DEF q
<1>3. CASE Used > 0 /\ len < Comp
  <2>1. /\ size' = size + len /\ fed' = fed /\ lost' = lost /\ tail' = Added(len)
    BY <1>3 DEF Absorb, Added
  <2>2. Used + len \in 0..B - 1
    BY <1>1, <1>3, BlockAssumption DEF Comp
  <2>3. size' \div B = q /\ Used' = Used + len
    <3>1. size' = q * B + (Used + len)
      BY <1>1, <2>1, BlockAssumption
    <3> QED
      BY <1>1, <2>2, <3>1, DivModIs, BlockAssumption DEF Used
  <2>4. ASSUME NEW j \in 0..Used' - 1 PROVE tail'[j] = Data(q * B + j + 1)
    <3>1. j \in Offsets
      BY <2>2, <2>3, BlockAssumption DEF Offsets
    <3>2. CASE j < Used
      BY <1>1, <1>2, <2>1, <3>1, <3>2 DEF Added
    <3>3. CASE j >= Used
      <4>1. tail'[j] = Data(size + (j - Used) + 1)
        <5>1. Used > 0 /\ Used + len < B /\ j \in Used..Used + len - 1
          BY <1>1, <1>3, <2>2, <2>3, <3>3, BlockAssumption
        <5> QED
          BY <2>1, <3>1, <5>1 DEF Added
      <4>2. size + (j - Used) + 1 = q * B + j + 1
        BY <1>1, BlockAssumption
      <4> QED
        BY <4>1, <4>2
    <3> QED
      BY <1>1, <3>2, <3>3
  <2> QED
    BY <1>2, <2>1, <2>3, <2>4 DEF FeedInv
<1>4. CASE ~(Used > 0 /\ len < Comp)
  <2> DEFINE c == IF Used = 0 THEN q ELSE q + 1
  <2>1. c \in Nat
    BY <1>1
  <2>2. PICK w \in Nat :
          /\ size' \div B = c + w
          /\ fed' = fed \o Taken(c, w)
          /\ \A j \in 0..Used' - 1 : tail'[j] = Data((c + w) * B + j + 1)
    <3> HIDE DEF c
    <3>1. c = IF Used = 0 THEN size \div B ELSE size \div B + 1
      BY DEF c, q
    <3> QED
      BY <1>4, <2>1, <3>1, AbsorbFeeds
  <2>3. lost' = IF Used > 0 THEN lost \cup {q + 1} ELSE lost
    BY <1>4 DEF Absorb, q
  <2>4. lost' \in SUBSET (1..c) /\ IsKept(fed, Whole(c), lost')
    <3>1. CASE Used = 0
      <4>1. c = q /\ lost' = lost
        BY <1>1, <2>3, <3>1
      <4> HIDE DEF c
      <4> QED
        BY <1>2, <4>1
    <3>2. CASE Used # 0
      <4>1. c = q + 1 /\ lost' = lost \cup {q + 1}
        BY <1>1, <2>3, <3>2
      <4>2. /\ Whole(q) \in Seq(Block) /\ Len(Whole(q)) = q
            /\ Full(q + 1) \in Block
        BY <1>1, WholeSeq, FullBlock
      <4>3. IsKept(fed, Append(Whole(q), Full(q + 1)), lost \cup {q + 1})
        BY <1>1, <1>2, <4>2, KeptSkip
      <4>4. lost \cup {q + 1} \in SUBSET (1..q + 1)
        BY <1>1, <1>2
      <4>5. Append(Whole(q), Full(q + 1)) = Whole(q + 1)
        BY <1>1, WholeNext
      <4> HIDE DEF c
      <4> QED
        BY <4>1, <4>3, <4>4, <4>5
    <3> QED
      BY <3>1, <3>2
  <2> HIDE DEF c
  <2>5. Whole(c) \in Seq(Block) /\ Len(Whole(c)) = c /\ Taken(c, w) \in Seq(Block)
    BY <2>1, WholeSeq, TakenSeq
  <2>6. IsKept(fed', Whole(c + w), lost')
    <3>1. IsKept(fed \o Taken(c, w), Whole(c) \o Taken(c, w), lost')
      BY <1>1, <2>4, <2>5, KeptConcat
    <3> QED
      BY <2>1, <2>2, <3>1, WholeTaken
  <2>7. lost' \in SUBSET (1..c + w)
    BY <2>1, <2>4
  <2> QED
    BY <2>2, <2>6, <2>7 DEF FeedInv
<1> QED
  BY <1>3, <1>4

-----------------------------------------------------------------------------
(* A finalize.  *)

\* The bytes of the padded message in RFC 1320 and 1321.
Total == CHOOSE t \in size + 1 + (B - T)..size + 2 * B :
           /\ t % B = 0
           /\ t - B < size + 1 + (B - T)

LEMMA TotalIs ==
  ASSUME DigestTypeOK, NEW k \in Nat,
         k = IF Used < T THEN size \div B + 1 ELSE size \div B + 2
  PROVE  Total = k * B /\ Total \div B = k
<1> DEFINE q == size \div B
           m == size + 1 + (B - T)
<1>1. /\ q \in Nat /\ Used \in 0..B - 1 /\ size \in Nat /\ size = q * B + Used
      /\ B \in Nat \ {0} /\ T \in 1..B - 1
  BY SizeSplit, BlockAssumption DEF DigestTypeOK
<1> HIDE DEF q
<1>2. k * B = q * B + (IF Used < T THEN B ELSE 2 * B) /\ q * B \in Int
  BY <1>1 DEF q
<1>3. k * B \in m..size + 2 * B /\ k * B - B < m
  BY <1>1, <1>2
<1>4. (k * B) % B = 0 /\ (k * B) \div B = k
  <2>1. k * B + 0 = k * B /\ 0 \in 0..B - 1
    BY <1>1
  <2>2. (k * B + 0) % B = 0 /\ (k * B + 0) \div B = k
    BY <1>1, <2>1, DivModIs, Zenon
  <2> QED
    BY <2>1, <2>2, Zenon
<1>5. ASSUME NEW t \in m..size + 2 * B, t % B = 0, t - B < m
      PROVE  t = k * B
  <2>1. t \in Nat
    BY <1>1
  <2>2. t = (t \div B) * B /\ t \div B \in Nat
    BY <1>1, <1>5, <2>1, DivMod
  <2>3. m <= k * B /\ k * B < m + B /\ m <= t /\ t < m + B /\ m \in Int
    BY <1>1, <1>2, <1>3, <1>5
  <2>4. ~(t \div B < k)
    <3>1. t \div B < k => t + B <= k * B
      BY <1>1, <2>2, ProductGrows
    <3> QED
      BY <1>1, <1>2, <2>1, <2>3, <3>1
  <2>5. ~(k < t \div B)
    <3>1. k < t \div B => k * B + B <= t
      BY <1>1, <2>2, ProductGrows
    <3> QED
      BY <1>1, <1>2, <2>1, <2>3, <3>1
  <2> QED
    BY <2>2, <2>4, <2>5
<1>6. Total = k * B
  BY <1>3, <1>4, <1>5 DEF Total
<1> QED
  BY <1>4, <1>6

LEMMA MarkedBlock ==
  ASSUME DigestTypeOK
  PROVE  Marked(Used) \in Block /\ WithLength(Marked(Used)) \in Block
         /\ WithLength([j \in Offsets |-> Zero]) \in Block
<1>1. \A j \in Offsets : tail[j] \in Byte /\ LenByte(j - T) \in Byte
  BY OffsetInt, Bytes, BlockAssumption DEF DigestTypeOK, Block
<1>2. Marked(Used) \in Block
  BY <1>1, Bytes DEF Marked, Block
<1>3. ASSUME NEW s \in Block PROVE WithLength(s) \in Block
  BY <1>1 DEF WithLength, Block
<1>4. [j \in Offsets |-> Zero] \in Block
  BY Bytes DEF Block
<1> QED
  BY <1>2, <1>3, <1>4

LEMMA PaddedSeq ==
  ASSUME DigestTypeOK
  PROVE  /\ Padded(Used) \in Seq(Block)
         /\ Len(Padded(Used)) = IF Used < T THEN 1 ELSE 2
         /\ Last(Padded(Used)) \in Block
<1>1. CASE Used >= T
  BY <1>1, MarkedBlock, SizeSplit, BlockAssumption DEF Padded, Last
<1>2. CASE ~(Used >= T)
  BY <1>2, MarkedBlock, SizeSplit, BlockAssumption DEF Padded, Last
<1> QED
  BY <1>1, <1>2

\* Each byte of the padded message is of one kind when there is room for the
\* message and the mark before the length.
LEMMA MdByteIs ==
  ASSUME DigestTypeOK, NEW t \in Int, size + 1 <= t - (B - T), NEW p \in Int
  PROVE  MdByte(p, t) = IF p <= size THEN Data(p) ELSE IF p = size + 1 THEN Mark
                        ELSE IF p > t - (B - T) THEN LenByte(p - (t - (B - T)) - 1) ELSE Zero
<1>1. size \in Nat /\ B - T \in Int
  BY BlockAssumption DEF DigestTypeOK
<1>2. CASE p <= size
  BY <1>1, <1>2 DEF MdByte
<1>3. CASE p = size + 1
  BY <1>1, <1>3 DEF MdByte
<1>4. CASE p > size + 1 /\ p > t - (B - T)
  BY <1>1, <1>4 DEF MdByte
<1>5. CASE p > size + 1 /\ ~(p > t - (B - T))
  BY <1>1, <1>5 DEF MdByte
<1> QED
  BY <1>1, <1>2, <1>3, <1>4, <1>5

\* The padding of md4 and md5 completes the message to the blocks of the RFC.
LEMMA MdBlocksAre ==
  ASSUME DigestTypeOK, \A j \in 0..Used - 1 : tail[j] = Data((size \div B) * B + j + 1)
  PROVE  /\ MdBlocks \in Seq(Block)
         /\ MdBlocks = Whole(size \div B) \o Padded(Used)
<1> DEFINE q == size \div B
           k == IF Used < T THEN q + 1 ELSE q + 2
           s == Whole(q) \o Padded(Used)
           row(x) == [j \in Offsets |-> MdByte((x - 1) * B + j + 1, k * B)]
<1>1. /\ q \in Nat /\ Used \in 0..B - 1 /\ size \in Nat /\ size = q * B + Used
      /\ B \in Nat \ {0} /\ T \in 1..B - 1 /\ k \in Nat
  BY SizeSplit, BlockAssumption DEF DigestTypeOK
<1>2. Total = k * B /\ Total \div B = k
  BY <1>1, TotalIs
<1>3. MdBlocks = [x \in 1..k |-> row(x)]
  <2>1. MdBlocks = [x \in 1..Total \div B |->
                      [j \in Offsets |-> MdByte((x - 1) * B + j + 1, Total)]]
    BY DEF MdBlocks, Total
  <2> QED
    BY <1>2, <2>1
<1>4. /\ s \in Seq(Block) /\ Len(s) = k
      /\ \A x \in 1..q : s[x] = Full(x)
      /\ s[q + 1] = Padded(Used)[1]
      /\ Used >= T => s[q + 2] = Padded(Used)[2]
  <2> DEFINE a == Whole(q)
             b == Padded(Used)
  <2>1. /\ a \in Seq(Block) /\ Len(a) = q /\ \A x \in 1..q : a[x] = Full(x)
    BY <1>1, WholeSeq DEF Whole
  <2>2. b \in Seq(Block) /\ Len(b) = IF Used < T THEN 1 ELSE 2
    BY PaddedSeq
  <2>3. a \in Seq(Block) /\ b \in Seq(Block)
    BY <2>1, <2>2
  <2> HIDE DEF a, b, q
  <2>4. /\ a \o b \in Seq(Block) /\ Len(a \o b) = Len(a) + Len(b)
        /\ \A x \in 1..Len(a) : (a \o b)[x] = a[x]
        /\ \A x \in 1..Len(b) : (a \o b)[Len(a) + x] = b[x]
    BY <2>3, Concat
  <2>5. 1 \in 1..Len(b) /\ (Used >= T => 2 \in 1..Len(b))
    BY <1>1, <2>2
  <2>6. /\ (a \o b)[q + 1] = b[1] /\ Used >= T => (a \o b)[q + 2] = b[2]
    BY <2>1, <2>4, <2>5
  <2> QED
    BY <1>1, <2>1, <2>2, <2>4, <2>6 DEF a, b
<1> HIDE DEF q, s
<1>5. q * B \in Int /\ (q + 1) * B = q * B + B /\ (q + 2) * B = q * B + 2 * B
  BY <1>1
<1>6. \A j \in Offsets : j \in Nat /\ 0 <= j /\ j < B
  BY OffsetInt
<1>7. k * B \in Int /\ size + 1 <= k * B - (B - T)
  BY <1>1, <1>5
<1>8. ASSUME NEW x \in 1..q PROVE row(x) = Full(x)
  <2>1. (x - 1) * B + B <= q * B
    BY <1>1, ProductGrows
  <2>2. (x - 1) * B \in Int /\ q * B \in Int
    BY <1>1
  <2>3. \A j \in Offsets : (x - 1) * B + j + 1 <= size
    BY <1>1, <2>1, <2>2, OffsetInt
  <2>4. \A j \in Offsets : MdByte((x - 1) * B + j + 1, k * B) = Data((x - 1) * B + j + 1)
    BY <1>1, <1>7, <2>2, <2>3, OffsetInt, MdByteIs
  <2> QED
    BY <2>4 DEF Full
<1>9. ASSUME NEW j \in Offsets PROVE row(q + 1)[j] = Padded(Used)[1][j]
  <2> DEFINE p == q * B + j + 1
  <2>1. p \in Int
    BY <1>1, <1>6
  <2>2. row(q + 1)[j] = MdByte(p, k * B)
    <3>1. (q + 1) - 1 = q
      BY <1>1
    <3> QED
      BY <3>1
  <2>3. p <= size <=> j < Used
    BY <1>1, <1>5, <1>6
  <2>4. p = size + 1 <=> j = Used
    BY <1>1, <1>5, <1>6
  <2>5. j < Used => tail[j] = Data(p)
    BY <1>1, <1>6 DEF q
  <2>6. CASE Used < T
    <3>1. Padded(Used)[1] = WithLength(Marked(Used))
      BY <1>1, <2>6 DEF Padded
    <3>2. p > k * B - (B - T) <=> j >= T
      BY <1>1, <1>5, <1>6, <2>6
    <3>3. p - (k * B - (B - T)) - 1 = j - T
      BY <1>1, <1>5, <1>6, <2>6
    <3>4. Padded(Used)[1][j] = IF j >= T THEN LenByte(j - T) ELSE Marked(Used)[j]
      BY <3>1 DEF WithLength
    <3>5. Marked(Used)[j] = IF j < Used THEN tail[j] ELSE IF j = Used THEN Mark ELSE Zero
      BY DEF Marked
    <3> HIDE DEF p, k, row
    <3>6. MdByte(p, k * B) = IF j < Used THEN Data(p) ELSE IF j = Used THEN Mark
                             ELSE IF j >= T THEN LenByte(j - T) ELSE Zero
      BY <1>1, <1>7, <2>1, <2>3, <2>4, <3>2, <3>3, MdByteIs
    <3> QED
      BY <1>1, <1>6, <2>2, <2>5, <2>6, <3>4, <3>5, <3>6
  <2>7. CASE Used >= T
    <3>1. Padded(Used)[1] = Marked(Used)
      BY <2>7 DEF Padded
    <3>2. ~(p > k * B - (B - T))
      BY <1>1, <1>5, <1>6, <2>7
    <3>3. Marked(Used)[j] = IF j < Used THEN tail[j] ELSE IF j = Used THEN Mark ELSE Zero
      BY DEF Marked
    <3> HIDE DEF p, k, row
    <3>4. MdByte(p, k * B) = IF j < Used THEN Data(p) ELSE IF j = Used THEN Mark ELSE Zero
      BY <1>1, <1>7, <2>1, <2>3, <2>4, <3>2, MdByteIs
    <3> QED
      BY <2>2, <2>5, <3>1, <3>3, <3>4
  <2> QED
    BY <1>1, <2>6, <2>7
<1>10. ASSUME Used >= T, NEW j \in Offsets PROVE row(q + 2)[j] = Padded(Used)[2][j]
  <2> DEFINE p == (q + 1) * B + j + 1
  <2>1. p \in Int
    BY <1>1, <1>6
  <2>2. row(q + 2)[j] = MdByte(p, k * B)
    <3>1. (q + 2) - 1 = q + 1
      BY <1>1
    <3> QED
      BY <3>1
  <2>3. ~(p <= size) /\ p # size + 1
    BY <1>1, <1>5, <1>6
  <2>4. p > k * B - (B - T) <=> j >= T
    BY <1>1, <1>5, <1>6, <1>10
  <2>5. p - (k * B - (B - T)) - 1 = j - T
    BY <1>1, <1>5, <1>6, <1>10
  <2>6. Padded(Used)[2][j] = IF j >= T THEN LenByte(j - T) ELSE Zero
    BY <1>10 DEF Padded, WithLength
  <2> HIDE DEF p, k, row
  <2>7. MdByte(p, k * B) = IF j >= T THEN LenByte(j - T) ELSE Zero
    BY <1>1, <1>7, <2>1, <2>3, <2>4, <2>5, MdByteIs
  <2> QED
    BY <2>2, <2>6, <2>7
<1>11. /\ Padded(Used)[1] = [j \in Offsets |-> Padded(Used)[1][j]]
       /\ Used >= T => Padded(Used)[2] = [j \in Offsets |-> Padded(Used)[2][j]]
  BY <1>1 DEF Padded, Marked, WithLength
<1>12. ASSUME NEW x \in 1..k PROVE row(x) = s[x]
  <2>1. CASE x \in 1..q
    BY <1>4, <1>8, <2>1
  <2>2. CASE x = q + 1
    BY <1>4, <1>9, <1>11, <2>2
  <2>3. CASE Used >= T /\ x = q + 2
    BY <1>4, <1>10, <1>11, <2>3
  <2> QED
    BY <1>1, <2>1, <2>2, <2>3
<1> HIDE DEF k, row
<1>13. MdBlocks = s
  BY <1>3, <1>4, <1>12
<1> QED
  BY <1>4, <1>13 DEF s, q

\* That of md2 does for the blocks of RFC 1319.
LEMMA Md2BlocksAre ==
  ASSUME DigestTypeOK, \A j \in 0..Used - 1 : tail[j] = Data((size \div B) * B + j + 1),
         NEW t, t = [j \in Offsets |-> IF j < Used THEN tail[j] ELSE Fill(Comp)]
  PROVE  /\ t \in Block /\ Md2Blocks \in Seq(Block)
         /\ Md2Blocks = Append(Whole(size \div B), t)
<1> DEFINE q == size \div B
           row(x) == [j \in Offsets |->
                        LET p == (x - 1) * B + j + 1
                        IN IF p <= size THEN Data(p) ELSE Fill(B - Used)]
           s == Append(Whole(q), t)
<1>1. /\ q \in Nat /\ Used \in 0..B - 1 /\ size \in Nat /\ size = q * B + Used
      /\ B \in Nat \ {0} /\ q * B \in Int
  BY SizeSplit, BlockAssumption DEF DigestTypeOK
<1>2. \A j \in Offsets : j \in Nat /\ 0 <= j /\ j < B
  BY OffsetInt
<1>3. t \in Block
  <2>1. \A j \in Offsets : tail[j] \in Byte /\ Fill(Comp) \in Byte
    BY <1>1, Bytes DEF DigestTypeOK, Block, Comp
  <2> QED
    BY <2>1 DEF Block
<1>4. /\ s \in Seq(Block) /\ Len(s) = q + 1 /\ s[q + 1] = t
      /\ \A x \in 1..q : s[x] = Full(x)
  <2>1. /\ Whole(q) \in Seq(Block) /\ Len(Whole(q)) = q
        /\ \A x \in 1..q : Whole(q)[x] = Full(x)
    BY <1>1, WholeSeq DEF Whole
  <2>2. /\ s \in Seq(Block) /\ Len(s) = Len(Whole(q)) + 1 /\ s[Len(Whole(q)) + 1] = t
        /\ \A x \in 1..Len(Whole(q)) : s[x] = Whole(q)[x]
    BY <1>3, <2>1, AppendIs
  <2> HIDE DEF s, q
  <2> QED
    BY <2>1, <2>2
<1>5. Md2Blocks = [x \in 1..q + 1 |-> row(x)]
  BY DEF Md2Blocks
<1> HIDE DEF q, s
<1>6. ASSUME NEW x \in 1..q PROVE row(x) = Full(x)
  <2>1. (x - 1) * B + B <= q * B
    BY <1>1, ProductGrows
  <2>2. (x - 1) * B \in Int
    BY <1>1
  <2>3. \A j \in Offsets : (x - 1) * B + j + 1 <= size
    BY <1>1, <1>2, <2>1, <2>2
  <2> QED
    BY <2>3 DEF Full
<1>7. row(q + 1) = t
  <2>1. (q + 1) - 1 = q
    BY <1>1
  <2>2. \A j \in Offsets : q * B + j + 1 <= size <=> j < Used
    BY <1>1, <1>2
  <2>3. \A j \in Offsets : j < Used => tail[j] = Data(q * B + j + 1)
    BY <1>1, <1>2 DEF q
  <2> QED
    BY <2>1, <2>2, <2>3 DEF Comp
<1> HIDE DEF row
<1>8. \A x \in 1..q + 1 : row(x) = s[x]
  BY <1>1, <1>4, <1>6, <1>7
<1>9. Md2Blocks = s
  BY <1>4, <1>5, <1>8
<1> QED
  BY <1>3, <1>4, <1>9 DEF s, q

LEMMA MdFinalizeInv ==
  ASSUME DigestTypeOK, FeedInv, algo \in {"md4", "md5"}, MdFinalize
  PROVE  DigestTypeOK' /\ DigestInv'
<1> DEFINE q == size \div B
<1>1. /\ lost \in SUBSET (1..q) /\ IsKept(fed, Whole(q), lost) /\ fed \in Seq(Block)
      /\ \A j \in 0..Used - 1 : tail[j] = Data(q * B + j + 1)
  BY DEF FeedInv, MdFinalize, DigestTypeOK
<1>2. /\ Padded(Used) \in Seq(Block) /\ Last(Padded(Used)) \in Block
      /\ Whole(q) \in Seq(Block) /\ Len(Whole(q)) = q
  BY PaddedSeq, SizeSplit, WholeSeq
<1>3. MdBlocks = Whole(q) \o Padded(Used)
  BY <1>1, MdBlocksAre
<1>4. /\ fed' = fed \o Padded(Used) /\ tail' = Last(Padded(Used)) /\ done' = TRUE
      /\ algo' = algo /\ size' = size /\ lost' = lost
  BY DEF MdFinalize
<1> HIDE DEF q
<1>5. IsKept(fed', MdBlocks, lost)
  BY <1>1, <1>2, <1>3, <1>4, KeptConcat
<1>6. fed' \in Seq(Block)
  BY <1>1, <1>2, <1>4, Concat
<1>7. DigestTypeOK'
  BY <1>2, <1>4, <1>6 DEF DigestTypeOK
<1>8. MessageBlocks' = MdBlocks
  BY <1>4 DEF MessageBlocks, MdBlocks, MdByte
<1>9. MdBlocks \in Seq(Block) /\ lost' \in SUBSET (1..Len(MdBlocks))
  <2>1. MdBlocks \in Seq(Block) /\ Len(MdBlocks) = q + Len(Padded(Used))
    BY <1>2, <1>3, Concat
  <2>2. Len(MdBlocks) \in Nat /\ Len(Padded(Used)) \in Nat
    BY <1>2, <2>1
  <2> QED
    BY <1>1, <1>2, <1>4, <2>1, <2>2
<1>10. \E f \in Seq(Block) : IsKept(f, MessageBlocks', lost') /\ fed' = WithChecksum(f)'
  BY <1>4, <1>5, <1>6, <1>8 DEF WithChecksum
<1>11. DigestInv'
  BY <1>8, <1>9, <1>10 DEF DigestInv, WithChecksum
<1> QED
  BY <1>7, <1>11

LEMMA Md2FinalizeInv ==
  ASSUME DigestTypeOK, FeedInv, Md2Finalize
  PROVE  DigestTypeOK' /\ DigestInv'
<1> DEFINE q == size \div B
           sums == [j \in Offsets |-> Checksum(Len(fed) + 1)]
<1>1. /\ lost \in SUBSET (1..q) /\ IsKept(fed, Whole(q), lost) /\ fed \in Seq(Block)
      /\ \A j \in 0..Used - 1 : tail[j] = Data(q * B + j + 1)
  BY DEF FeedInv, Md2Finalize, DigestTypeOK
<1>2. /\ tail' = [j \in Offsets |-> IF j < Used THEN tail[j] ELSE Fill(Comp)]
      /\ fed' = fed \o <<tail', sums>>
      /\ algo = "md2" /\ algo' = algo /\ size' = size /\ lost' = lost /\ done' = TRUE
  BY DEF Md2Finalize
<1>3. tail' \in Block /\ Md2Blocks = Append(Whole(q), tail')
  BY <1>1, <1>2, Md2BlocksAre
<1>4. Whole(q) \in Seq(Block) /\ Len(Whole(q)) = q /\ q \in Nat /\ Len(fed) \in Nat
  BY <1>1, SizeSplit, WholeSeq
<1>5. sums \in Block
  BY <1>4, Bytes DEF Block
<1> HIDE DEF q, sums
<1>6. /\ Append(fed, tail') \in Seq(Block) /\ Len(Append(fed, tail')) = Len(fed) + 1
      /\ Append(fed, tail') = fed \o <<tail'>> /\ <<tail'>> \in Seq(Block)
      /\ Append(Whole(q), tail') = Whole(q) \o <<tail'>>
  <2>1. fed \in Seq(Block) /\ Whole(q) \in Seq(Block) /\ tail' \in Block
    BY <1>1, <1>3, <1>4
  <2> QED
    BY <2>1, AppendIs
<1>7. IsKept(Append(fed, tail'), Md2Blocks, lost)
  <2>1. IsKept(fed \o <<tail'>>, Whole(q) \o <<tail'>>, lost)
    BY <1>1, <1>4, <1>6, KeptConcat
  <2> QED
    BY <1>3, <1>6, <2>1
<1>8. fed' = Append(Append(fed, tail'), sums)
  <2>1. fed \in Seq(Block) /\ tail' \in Block
    BY <1>1, <1>3
  <2>2. fed \o <<tail', sums>> = Append(Append(fed, tail'), sums)
    BY <1>5, <2>1, AppendTwo
  <2> QED
    BY <1>2, <2>2
<1>9. fed' \in Seq(Block)
  BY <1>5, <1>6, <1>8
<1>10. DigestTypeOK'
  BY <1>2, <1>3, <1>9 DEF DigestTypeOK
<1>11. MessageBlocks' = Md2Blocks
  BY <1>2 DEF MessageBlocks, Md2Blocks, Used
<1>12. Md2Blocks \in Seq(Block) /\ lost' \in SUBSET (1..Len(Md2Blocks))
  <2>1. Md2Blocks \in Seq(Block) /\ Len(Md2Blocks) = q + 1
    BY <1>3, <1>4, AppendIs
  <2> QED
    BY <1>1, <1>2, <1>4, <2>1
<1> DEFINE f == Append(fed, tail')
<1>13. fed' = Append(f, [j \in Offsets |-> Checksum(Len(f))])
  BY <1>6, <1>8 DEF sums
<1> HIDE DEF f
<1>14. /\ f \in Seq(Block) /\ IsKept(f, MessageBlocks', lost')
       /\ fed' = IF algo' = "md2" THEN Append(f, [j \in Offsets |-> Checksum(Len(f))]) ELSE f
  <2>1. f \in Seq(Block) /\ IsKept(f, MessageBlocks', lost')
    BY <1>2, <1>6, <1>7, <1>11 DEF f
  <2> QED
    BY <1>2, <1>13, <2>1
<1>15. DigestInv'
  BY <1>11, <1>12, <1>14 DEF DigestInv, WithChecksum
<1> QED
  BY <1>10, <1>15

-----------------------------------------------------------------------------
(* SHA-1.  *)

LEMMA Sha1StepsNat ==
  ASSUME NEW len \in Nat
  PROVE  Sha1Steps(len) \in Nat
<1>1. len + Step - Slack \in Nat /\ Step \in Nat \ {0}
  BY StepAssumption
<1> QED
  BY <1>1, DivMod DEF Sha1Steps

LEMMA Sha1PaddedBlock ==
  ASSUME DigestTypeOK
  PROVE  Sha1Padded \in Block
<1>1. \A j \in Offsets : SizeByte(j - T) \in Byte /\ Marked(Used)[j] \in Byte
  BY MarkedBlock, OffsetInt, Bytes, BlockAssumption DEF Block
<1> QED
  BY <1>1, Bytes DEF Sha1Padded, Block

LEMMA Sha1AddedBlock ==
  ASSUME DigestTypeOK, NEW len \in Nat
  PROVE  Sha1Added(len) \in Block
<1>1. size \in Nat /\ Used \in Int /\ \A j \in Offsets : tail[j] \in Byte
  BY SizeSplit, BlockAssumption DEF DigestTypeOK, Block
<1>2. \A j \in Offsets : Data(size + j - Used + 1) \in Byte
  BY <1>1, OffsetInt, Bytes
<1> QED
  BY <1>1, <1>2 DEF Sha1Added, Block

\* The blocks an update takes from its input, and the tail it leaves, when no tail
\* was begun.
Sha1In(len, q)  == IF q < len THEN Data(size + q + 1) ELSE Unset
Sha1Taken(len)  == [x \in 1..Sha1Steps(len) |->
                      [j \in Offsets |-> Sha1In(len, (x - 1) * Step + j)]]
Sha1Rest(len)   == [j \in Offsets |-> IF j < len - Sha1Steps(len) * Step
                                      THEN Sha1In(len, Sha1Steps(len) * Step + j) ELSE tail[j]]

LEMMA PastTheRest ==
  ASSUME NEW s \in Nat, NEW l \in Nat, NEW e \in Nat, NEW u \in Int, NEW q \in Nat,
         l - e <= u, ~(q < e)
  PROVE  s + q + 1 > s + l - u
OBVIOUS

LEMMA Sha1UpdateIs ==
  ASSUME NEW len \in Nat, Sha1Update(len)
  PROVE  /\ algo = "sha1" /\ algo' = algo /\ ~done /\ done' = done /\ size' = size + len
         /\ Used > 0 =>
              /\ tail' = Sha1Added(len)
              /\ fed' = IF len < Comp THEN fed ELSE Append(fed, Sha1Added(len))
              /\ lost' = lost \union (size + Comp + 1..size + len)
         /\ ~(Used > 0) =>
              /\ Sha1Steps(len) * Step <= len
              /\ tail' = Sha1Rest(len)
              /\ fed' = fed \o Sha1Taken(len)
              /\ lost' = lost
BY DEF Sha1Update, Sha1Taken, Sha1Rest, Sha1In

LEMMA Sha1TakenSeq ==
  ASSUME DigestTypeOK, NEW len \in Nat
  PROVE  /\ Sha1Taken(len) \in Seq(Block) /\ Len(Sha1Taken(len)) = Sha1Steps(len)
         /\ Sha1Rest(len) \in Block
<1>1. /\ size \in Nat /\ Sha1Steps(len) \in Nat /\ Step \in Nat
      /\ \A j \in Offsets : tail[j] \in Byte
  BY Sha1StepsNat, StepAssumption DEF DigestTypeOK, Block
<1>2. \A q \in Int : Sha1In(len, q) \in Byte
  BY <1>1, Bytes DEF Sha1In
<1> DEFINE n == Sha1Steps(len)
<1>3. \A j \in Offsets : n * Step + j \in Int
  BY <1>1, OffsetInt
<1>4. \A x \in 1..n, j \in Offsets : (x - 1) * Step + j \in Int
  BY <1>1, OffsetInt
<1> HIDE DEF n
<1>5. \A x \in 1..n : [j \in Offsets |-> Sha1In(len, (x - 1) * Step + j)] \in Block
  BY <1>2, <1>4 DEF Block
<1>6. \A k \in Nat : \A s \in [1..k -> Block] : s \in Seq(Block) /\ Len(s) = k
  OBVIOUS
<1>7. Sha1Taken(len) \in [1..n -> Block]
  BY <1>5 DEF Sha1Taken, n
<1>8. Sha1Rest(len) \in Block
  BY <1>1, <1>2, <1>3 DEF Sha1Rest, Block, n
<1> QED
  BY <1>1, <1>6, <1>7, <1>8 DEF n

LEMMA Sha1UpdateTypeOK ==
  ASSUME DigestTypeOK, NEW len \in Nat, Sha1Update(len)
  PROVE  DigestTypeOK'
<1>1. /\ algo' = algo /\ done' = done /\ size' = size + len
      /\ tail' \in {Sha1Added(len), Sha1Rest(len)}
      /\ fed' \in {fed, Append(fed, Sha1Added(len)), fed \o Sha1Taken(len)}
  BY Sha1UpdateIs
<1>2. fed \in Seq(Block) /\ Sha1Added(len) \in Block /\ Sha1Rest(len) \in Block
      /\ Sha1Taken(len) \in Seq(Block)
  BY Sha1AddedBlock, Sha1TakenSeq DEF DigestTypeOK
<1>3. fed \o Sha1Taken(len) \in Seq(Block) /\ Append(fed, Sha1Added(len)) \in Seq(Block)
  BY <1>2, Concat, AppendIs
<1>4. tail' \in Block /\ fed' \in Seq(Block)
  BY <1>1, <1>2, <1>3
<1> QED
  BY <1>1, <1>4 DEF DigestTypeOK

\* Byte p of the message has been compressed; is in the tail; waits there.
InFed(p)  == \E x \in 1..Len(fed) : \E j \in Offsets : fed[x][j] = Data(p)
InTail(p) == \E j \in Offsets : tail[j] = Data(p)
Waits(p)  == \E j \in 0..Used - 1 : tail[j] = Data(p)

\* What the invariant adds about SHA-1.
Sha1Inv ==
  algo = "sha1" =>
    /\ lost \subseteq 1..size
    /\ \A p \in Int : InFed(p) => p \in 1..size /\ p \notin lost
    /\ ~done => /\ \A p \in Int : InTail(p) => p \in 1..size /\ p \notin lost
                /\ \A p \in 1..size : p \notin lost /\ ~InFed(p) => p > size - Used /\ Waits(p)
    /\ done => \A p \in 1..size : p \notin lost /\ ~InFed(p) => Used >= T /\ p > size - Used
    /\ done /\ Used >= T => \A j \in Offsets : \A p \in Int : Last(fed)[j] # Data(p)

LEMMA DataIs ==
  /\ \A p, q : Data(p) = Data(q) => p = q
  /\ \A p : Data(p) # Unset /\ Data(p) # Zero /\ Data(p) # Mark
  /\ \A p, j : Data(p) # SizeByte(j)
<1>1. \A p, q : Data(p) = Data(q) => p = q
  BY DEF Data
<1>2. \A p : Data(p).kind = "data"
  BY DEF Data
<1>3. Unset.kind # "data" /\ Zero.kind # "data" /\ Mark.kind # "data"
  BY DEF Unset, Zero, Mark
<1>4. \A j : SizeByte(j).kind # "data"
  BY DEF SizeByte, LenByte
<1> QED
  BY <1>1, <1>2, <1>3, <1>4

\* The tail with the input behind its bytes has these bytes and those of the input.
LEMMA Sha1AddedHas ==
  ASSUME DigestTypeOK, NEW len \in Nat
  PROVE  /\ \A p \in Int : (\E j \in Offsets : Sha1Added(len)[j] = Data(p)) =>
                             InTail(p) \/ p \in size + 1..size + (IF len < Comp THEN len ELSE Comp)
         /\ \A j \in 0..Used - 1 : j \in Offsets /\ Sha1Added(len)[j] = tail[j]
         /\ \A p \in size + 1..size + (IF len < Comp THEN len ELSE Comp) :
              /\ p - size - 1 + Used \in Offsets /\ p - size - 1 + Used < Used + len
              /\ Sha1Added(len)[p - size - 1 + Used] = Data(p)
<1>1. size \in Nat /\ Used \in 0..B - 1 /\ B \in Nat /\ Comp = B - Used
  BY SizeSplit, BlockAssumption DEF DigestTypeOK, Comp
<1>2. ASSUME NEW p \in Int, NEW j \in Offsets, Sha1Added(len)[j] = Data(p)
      PROVE  InTail(p) \/ p \in size + 1..size + (IF len < Comp THEN len ELSE Comp)
  <2>1. CASE j \in Used..Used + len - 1
    <3>1. Data(p) = Data(size + j - Used + 1)
      BY <1>2, <2>1 DEF Sha1Added
    <3>2. p = size + j - Used + 1
      BY <3>1, DataIs
    <3> QED
      BY <1>1, <2>1, <3>2, OffsetInt
  <2>2. CASE j \notin Used..Used + len - 1
    BY <1>2, <2>2 DEF Sha1Added, InTail
  <2> QED
    BY <2>1, <2>2
<1>3. ASSUME NEW j \in 0..Used - 1
      PROVE  j \in Offsets /\ Sha1Added(len)[j] = tail[j]
  <2>1. j \in Offsets /\ j \notin Used..Used + len - 1
    BY <1>1 DEF Offsets
  <2> QED
    BY <2>1 DEF Sha1Added
<1>4. ASSUME NEW p \in size + 1..size + (IF len < Comp THEN len ELSE Comp)
      PROVE  /\ p - size - 1 + Used \in Offsets /\ p - size - 1 + Used < Used + len
             /\ Sha1Added(len)[p - size - 1 + Used] = Data(p)
  <2> DEFINE j == p - size - 1 + Used
  <2>1. j \in Offsets /\ j \in Used..Used + len - 1 /\ size + j - Used + 1 = p
    BY <1>1 DEF Offsets
  <2> QED
    BY <1>1, <2>1 DEF Sha1Added
<1> QED
  BY <1>2, <1>3, <1>4

\* An update that fits behind the bytes that wait.
LEMMA Sha1FitsInv ==
  ASSUME DigestTypeOK, Sha1Inv, NEW len \in Nat, Sha1Update(len), Used > 0, len < Comp
  PROVE  Sha1Inv'
<1>1. /\ algo = "sha1" /\ ~done /\ ~done' /\ size' = size + len /\ fed' = fed
      /\ tail' = Sha1Added(len) /\ lost' = lost \union (size + Comp + 1..size + len)
  BY Sha1UpdateIs
<1>2. size \in Nat /\ Used \in 0..B - 1 /\ B \in Nat \ {0} /\ Comp = B - Used
  BY SizeSplit, BlockAssumption DEF DigestTypeOK, Comp
<1>3. lost' = lost
  BY <1>1, <1>2
<1>4. Used' = Used + len
  <2>1. size \div B \in Nat /\ size = (size \div B) * B + Used /\ Used + len \in 0..B - 1
    BY <1>2, SizeSplit
  <2> DEFINE q == size \div B
  <2> HIDE DEF q
  <2>2. (q * B + (Used + len)) % B = Used + len
    BY <1>2, <2>1, DivModIs DEF q
  <2>3. q * B + (Used + len) = size + len
    BY <1>2, <2>1 DEF q
  <2> QED
    BY <1>1, <2>2, <2>3 DEF Used
<1>5. /\ lost \subseteq 1..size
      /\ \A p \in Int : InFed(p) \/ InTail(p) => p \in 1..size /\ p \notin lost
      /\ \A p \in 1..size : p \notin lost /\ ~InFed(p) => p > size - Used /\ Waits(p)
  BY <1>1 DEF Sha1Inv
<1>6. \A p : InFed(p)' = InFed(p)
  BY <1>1 DEF InFed
<1>7. ASSUME NEW p \in Int, InTail(p)' PROVE p \in 1..size + len /\ p \notin lost
  <2>1. InTail(p) \/ p \in size + 1..size + len
    BY <1>1, <1>7, Sha1AddedHas DEF InTail
  <2> QED
    BY <1>2, <1>5, <2>1
<1>8. ASSUME NEW p \in 1..size + len, p \notin lost, ~InFed(p)
      PROVE  p > size' - Used' /\ Waits(p)'
  <2>1. CASE p <= size
    <3>1. p > size - Used /\ Waits(p)
      BY <1>5, <1>8, <2>1
    <3>2. PICK j \in 0..Used - 1 : tail[j] = Data(p)
      BY <3>1 DEF Waits
    <3>3. j \in 0..Used' - 1 /\ tail'[j] = Data(p)
      BY <1>1, <1>2, <1>4, <3>2, Sha1AddedHas
    <3> QED
      BY <1>1, <1>2, <1>4, <3>1, <3>3 DEF Waits
  <2>2. CASE p > size
    <3>1. p \in size + 1..size + len
      BY <1>2, <1>8, <2>2
    <3>2. /\ p - size - 1 + Used \in 0..Used' - 1
          /\ tail'[p - size - 1 + Used] = Data(p)
      BY <1>1, <1>2, <1>4, <3>1, Sha1AddedHas
    <3> QED
      BY <1>1, <1>2, <1>4, <3>1, <3>2 DEF Waits
  <2> QED
    BY <1>2, <2>1, <2>2
<1>9. lost \subseteq 1..size + len
  BY <1>2, <1>5
<1>10. \A p \in Int : InFed(p) => p \in 1..size + len /\ p \notin lost
  BY <1>2, <1>5
<1> QED
  BY <1>1, <1>3, <1>6, <1>7, <1>8, <1>9, <1>10 DEF Sha1Inv

\* An update that completes the tail: every byte is then compressed or lost.
LEMMA Sha1CompletesInv ==
  ASSUME DigestTypeOK, Sha1Inv, NEW len \in Nat, Sha1Update(len), Used > 0, ~(len < Comp)
  PROVE  Sha1Inv'
<1>1. /\ algo = "sha1" /\ ~done /\ ~done' /\ size' = size + len
      /\ fed' = Append(fed, Sha1Added(len))
      /\ tail' = Sha1Added(len) /\ lost' = lost \union (size + Comp + 1..size + len)
  BY Sha1UpdateIs
<1>2. size \in Nat /\ Used \in 0..B - 1 /\ B \in Nat \ {0} /\ Comp = B - Used
  BY SizeSplit, BlockAssumption DEF DigestTypeOK, Comp
<1>3. /\ lost \subseteq 1..size
      /\ \A p \in Int : InFed(p) \/ InTail(p) => p \in 1..size /\ p \notin lost
      /\ \A p \in 1..size : p \notin lost /\ ~InFed(p) => Waits(p)
  BY <1>1 DEF Sha1Inv
<1>4. /\ Len(fed') = Len(fed) + 1 /\ Len(fed) \in Nat /\ fed'[Len(fed) + 1] = Sha1Added(len)
      /\ \A x \in 1..Len(fed) : fed'[x] = fed[x]
  BY <1>1, Sha1AddedBlock, AppendIs DEF DigestTypeOK
<1>5. \A p : InFed(p)' <=> InFed(p) \/ \E j \in Offsets : Sha1Added(len)[j] = Data(p)
  <2> TAKE p
  <2>1. \A x \in 1..Len(fed') : x \in 1..Len(fed) \/ x = Len(fed) + 1
    BY <1>4
  <2>2. Len(fed) + 1 \in 1..Len(fed') /\ \A x \in 1..Len(fed) : x \in 1..Len(fed')
    BY <1>4
  <2>3. InFed(p)' <=> \E x \in 1..Len(fed') : \E j \in Offsets : fed'[x][j] = Data(p)
    BY DEF InFed, Offsets, Data
  <2> QED
    BY <1>4, <2>1, <2>2, <2>3 DEF InFed
<1>6. ASSUME NEW p \in Int, \E j \in Offsets : Sha1Added(len)[j] = Data(p)
      PROVE  p \in 1..size' /\ p \notin lost'
  <2>1. InTail(p) \/ p \in size + 1..size + Comp
    BY <1>6, Sha1AddedHas
  <2> QED
    BY <1>1, <1>2, <1>3, <2>1
<1>7. ASSUME NEW p \in 1..size', p \notin lost', ~InFed(p)
      PROVE  \E j \in Offsets : Sha1Added(len)[j] = Data(p)
  <2>1. CASE p <= size
    <3>1. PICK j \in 0..Used - 1 : tail[j] = Data(p)
      BY <1>1, <1>2, <1>3, <1>7, <2>1 DEF Waits
    <3> QED
      BY <3>1, Sha1AddedHas
  <2>2. CASE p > size
    <3>1. p \in size + 1..size + Comp
      BY <1>1, <1>2, <1>7, <2>2
    <3> QED
      BY <3>1, Sha1AddedHas
  <2> QED
    BY <1>1, <1>2, <2>1, <2>2
<1>8. \A p : InTail(p)' <=> \E j \in Offsets : Sha1Added(len)[j] = Data(p)
  BY <1>1 DEF InTail
<1>9. lost' \subseteq 1..size'
  BY <1>1, <1>2, <1>3
<1>10. \A p \in Int : InFed(p) => p \in 1..size' /\ p \notin lost'
  BY <1>1, <1>2, <1>3
<1> QED
  BY <1>1, <1>5, <1>6, <1>7, <1>8, <1>9, <1>10 DEF Sha1Inv

\* What the loop leaves is less than a step, and fits what the tail is said to use.
LEMMA Sha1RestFits ==
  ASSUME NEW len \in Nat, NEW q \in Nat, Sha1Steps(len) * Step <= len
  PROVE  /\ len - Sha1Steps(len) * Step \in 0..((q * B + len) % B)
         /\ (q * B + len) % B \in 0..B - 1 /\ Step <= B
<1> DEFINE n == Sha1Steps(len)
           r == len - n * Step
           u == len % B
           m == len \div B
           k == B \div Step
           c == u \div Step
           d == u % Step
<1>1. n \in Nat /\ Step \in Nat \ {0} /\ Slack \in 1..Step /\ B \in Nat \ {0}
  BY Sha1StepsNat, StepAssumption, BlockAssumption
<1>2. m \in Nat /\ u \in 0..B - 1 /\ len = m * B + u
  BY <1>1, DivMod
<1>3. k \in Nat /\ B = k * Step
  <2>1. B % Step = 0 /\ B = (B \div Step) * Step + (B % Step) /\ B \div Step \in Nat
    BY <1>1, DivMod, StepAssumption
  <2> HIDE DEF k
  <2> QED
    BY <1>1, <2>1 DEF k
<1>4. c \in Nat /\ d \in 0..Step - 1 /\ u = c * Step + d
  <2> HIDE DEF u
  <2>1. u \in Nat
    BY <1>1, <1>2
  <2> QED
    BY <1>1, <2>1, DivMod
<1>5. r \in 0..Step - 1
  <2> DEFINE a == len + Step - Slack
             e == a % Step
  <2>1. a \in Nat
    BY <1>1
  <2>2. n = a \div Step
    BY DEF Sha1Steps
  <2>3. e \in 0..Step - 1 /\ a = n * Step + e
    <3> HIDE DEF a
    <3> QED
      BY <1>1, <2>1, <2>2, DivMod
  <2> HIDE DEF e, n
  <2>4. n * Step \in Int
    BY <1>1
  <2> QED
    BY <1>1, <2>3, <2>4 DEF n
<1> HIDE DEF n, u, m, k, c, d
<1>6. r = d
  <2> DEFINE h == m * k + c
  <2>1. h \in Nat /\ h * Step + d = len
    <3>1. m * B = (m * k) * Step
      BY <1>1, <1>2, <1>3
    <3>2. h * Step = (m * k) * Step + c * Step /\ h \in Nat
      BY <1>1, <1>2, <1>3, <1>4
    <3>3. m * B \in Int /\ c * Step \in Int /\ h * Step \in Int
      BY <1>1, <1>2, <1>4, <3>2
    <3> HIDE DEF h
    <3> QED
      BY <1>2, <1>4, <3>1, <3>2, <3>3
  <2> HIDE DEF h
  <2>2. len % Step = d
    BY <1>1, <1>4, <2>1, DivModIs
  <2>3. n * Step + r = len
    BY <1>1
  <2> HIDE DEF r
  <2>4. len % Step = r
    BY <1>1, <1>5, <2>3, DivModIs
  <2> QED
    BY <2>2, <2>4
<1>7. r \in 0..u
  <2>1. c * Step >= 0 /\ c * Step \in Int
    BY <1>1, <1>4
  <2> HIDE DEF r
  <2> QED
    BY <1>4, <1>5, <1>6, <2>1
<1>8. (q * B + len) % B = u
  <2>1. (q + m) * B + u = q * B + len /\ q + m \in Nat
    BY <1>1, <1>2
  <2> QED
    BY <1>1, <1>2, <2>1, DivModIs
<1>9. Step <= B
  BY <1>1, <1>3
<1> QED
  BY <1>2, <1>7, <1>8, <1>9 DEF n

\* An update with no byte waiting: its blocks overlap, but leave nothing out.
LEMMA Sha1TakesInv ==
  ASSUME DigestTypeOK, Sha1Inv, NEW len \in Nat, Sha1Update(len), ~(Used > 0)
  PROVE  Sha1Inv'
<1> DEFINE n == Sha1Steps(len)
           r == len - n * Step
<1>1. /\ algo = "sha1" /\ ~done /\ ~done' /\ size' = size + len
      /\ n * Step <= len
      /\ fed' = fed \o Sha1Taken(len) /\ tail' = Sha1Rest(len) /\ lost' = lost
  BY Sha1UpdateIs
<1>2. /\ size \in Nat /\ Used = 0 /\ B \in Nat \ {0} /\ Step \in Nat \ {0} /\ n \in Nat
      /\ n * Step \in Nat /\ size \div B \in Nat /\ size = (size \div B) * B
  <2>1. size \in Nat /\ Used = 0 /\ B \in Nat \ {0} /\ Step \in Nat \ {0} /\ n \in Nat
    BY SizeSplit, BlockAssumption, StepAssumption, Sha1StepsNat DEF DigestTypeOK
  <2>2. size \div B \in Nat /\ size = (size \div B) * B + 0
    BY <2>1, SizeSplit
  <2> QED
    BY <2>1, <2>2
<1>3. r \in 0..Used' /\ Used' \in 0..B - 1 /\ Step <= B
  BY <1>1, <1>2, Sha1RestFits DEF Used
<1>4. /\ lost \subseteq 1..size
      /\ \A p \in Int : InFed(p) \/ InTail(p) => p \in 1..size /\ p \notin lost
      /\ \A p \in 1..size : p \notin lost => InFed(p)
  <2>1. \A p : ~Waits(p)
    BY <1>2 DEF Waits
  <2> QED
    BY <1>1, <2>1 DEF Sha1Inv
<1>5. /\ Len(fed') = Len(fed) + n /\ Len(fed) \in Nat
      /\ \A x \in 1..Len(fed) : fed'[x] = fed[x]
      /\ \A x \in 1..n : fed'[Len(fed) + x] = Sha1Taken(len)[x]
  <2>1. fed \in Seq(Block) /\ Sha1Taken(len) \in Seq(Block) /\ Len(Sha1Taken(len)) = n
    BY Sha1TakenSeq DEF DigestTypeOK
  <2> HIDE DEF n
  <2>2. Len(fed') = Len(fed) + Len(Sha1Taken(len))
    BY <1>1, <2>1, Concat
  <2>3. Len(fed) \in Nat
    BY <2>1
  <2>4. \A x \in 1..Len(fed) : fed'[x] = fed[x]
    BY <1>1, <2>1, Concat
  <2>5. \A x \in 1..Len(Sha1Taken(len)) : fed'[Len(fed) + x] = Sha1Taken(len)[x]
    BY <1>1, <2>1, Concat
  <2> QED
    BY <2>1, <2>2, <2>3, <2>4, <2>5
<1>6. \A p : InFed(p)' <=>
               \/ InFed(p)
               \/ \E x \in 1..n : \E j \in Offsets : Sha1Taken(len)[x][j] = Data(p)
  <2> HIDE DEF n
  <2> TAKE p
  <2>1. \A x \in 1..Len(fed') : x \in 1..Len(fed) \/ (x - Len(fed) \in 1..n /\ x = Len(fed) + (x - Len(fed)))
    BY <1>2, <1>5
  <2>2. /\ \A x \in 1..n : Len(fed) + x \in 1..Len(fed')
        /\ \A x \in 1..Len(fed) : x \in 1..Len(fed')
    BY <1>2, <1>5
  <2>3. InFed(p)' <=> \E x \in 1..Len(fed') : \E j \in Offsets : fed'[x][j] = Data(p)
    BY DEF InFed, Offsets, Data
  <2>4. ASSUME NEW x \in 1..Len(fed'), NEW j \in Offsets, fed'[x][j] = Data(p)
        PROVE  InFed(p) \/ \E y \in 1..n : \E k \in Offsets : Sha1Taken(len)[y][k] = Data(p)
    <3>1. CASE x \in 1..Len(fed)
      BY <1>5, <2>4, <3>1 DEF InFed
    <3>2. CASE x - Len(fed) \in 1..n /\ x = Len(fed) + (x - Len(fed))
      <4>1. PICK y \in 1..n : x = Len(fed) + y
        BY <3>2
      <4>2. Sha1Taken(len)[y][j] = Data(p)
        BY <1>5, <2>4, <4>1
      <4> QED
        BY <4>2
    <3> QED
      BY <2>1, <3>1, <3>2
  <2>5. ASSUME NEW y \in 1..n, NEW j \in Offsets, Sha1Taken(len)[y][j] = Data(p)
        PROVE  InFed(p)'
    <3>1. fed'[Len(fed) + y][j] = Data(p) /\ Len(fed) + y \in 1..Len(fed')
      BY <1>5, <2>2, <2>5
    <3> QED
      BY <2>3, <3>1
  <2>6. InFed(p) => InFed(p)'
    BY <1>5, <2>2, <2>3 DEF InFed
  <2> QED
    BY <2>3, <2>4, <2>5, <2>6
<1>7. ASSUME NEW p \in Int, NEW q \in Nat, Sha1In(len, q) = Data(p)
      PROVE  p \in size + 1..size + len
  <2>1. q < len /\ Data(p) = Data(size + q + 1)
    BY <1>7, DataIs DEF Sha1In
  <2>2. p = size + q + 1
    BY <2>1, DataIs
  <2> QED
    BY <1>2, <2>1, <2>2
<1>8. \A x \in 1..n, j \in Offsets : (x - 1) * Step + j \in Nat
  BY <1>2, OffsetInt
<1>9. ASSUME NEW p \in Int, InFed(p)' PROVE p \in 1..size + len /\ p \notin lost
  <2>1. CASE InFed(p)
    BY <1>2, <1>4, <2>1
  <2>2. ASSUME NEW x \in 1..n, NEW j \in Offsets, Sha1Taken(len)[x][j] = Data(p)
        PROVE  p \in 1..size + len /\ p \notin lost
    <3>1. Sha1In(len, (x - 1) * Step + j) = Data(p)
      BY <2>2 DEF Sha1Taken
    <3>2. p \in size + 1..size + len
      BY <1>7, <1>8, <3>1
    <3> QED
      BY <1>2, <1>4, <3>2
  <2> QED
    BY <1>6, <1>9, <2>1, <2>2
<1>10. ASSUME NEW p \in Int, InTail(p)' PROVE p \in 1..size + len /\ p \notin lost
  <2>1. PICK j \in Offsets : Sha1Rest(len)[j] = Data(p)
    BY <1>1, <1>10 DEF InTail
  <2>2. CASE j < r
    <3>1. Sha1In(len, n * Step + j) = Data(p) /\ n * Step + j \in Nat
      BY <1>2, <2>1, <2>2, OffsetInt DEF Sha1Rest
    <3>2. p \in size + 1..size + len
      <4> HIDE DEF n
      <4> QED
        BY <1>7, <3>1
    <3> QED
      BY <1>2, <1>4, <3>2
  <2>3. CASE ~(j < r)
    <3>1. InTail(p)
      BY <2>1, <2>3 DEF Sha1Rest, InTail
    <3> QED
      BY <1>2, <1>4, <3>1
  <2> QED
    BY <2>2, <2>3
<1>11. ASSUME NEW p \in 1..size + len, p \notin lost, ~InFed(p)'
       PROVE  p > size' - Used' /\ Waits(p)'
  <2> DEFINE q == p - size - 1
  <2>1. p > size
    BY <1>2, <1>4, <1>6, <1>11
  <2>2. q \in Nat /\ q < len /\ size + q + 1 = p
    BY <1>2, <2>1
  <2>3. Sha1In(len, q) = Data(p)
    BY <2>2 DEF Sha1In
  <2> HIDE DEF q
  <2>4. ~(q < n * Step)
    <3> SUFFICES ASSUME q < n * Step PROVE FALSE
      OBVIOUS
    <3> DEFINE x == q \div Step + 1
               j == q % Step
    <3>1. q \div Step \in Nat /\ j \in 0..Step - 1 /\ q = (q \div Step) * Step + j
      BY <1>2, <2>2, DivMod
    <3>2. q \div Step < n
      <4> DEFINE d == q \div Step
      <4>1. d * Step <= q /\ d * Step \in Int /\ d \in Nat
        BY <1>2, <2>2, <3>1
      <4> HIDE DEF d, n
      <4>2. ~(n < d) /\ d # n
        BY <1>2, <2>2, <4>1, ProductGrows
      <4> QED
        BY <1>2, <4>1, <4>2 DEF d
    <3>3. x \in 1..n /\ j \in Offsets /\ (x - 1) * Step + j = q
      BY <1>2, <1>3, <3>1, <3>2 DEF Offsets
    <3> HIDE DEF x, j, n
    <3>4. Sha1Taken(len)[x][j] = Data(p)
      BY <2>3, <3>3 DEF Sha1Taken, n
    <3> QED
      BY <1>6, <1>11, <3>3, <3>4
  <2> DEFINE j == q - n * Step
  <2>5. j \in 0..r - 1 /\ n * Step + j = q /\ j \in Offsets /\ j \in 0..Used' - 1
    BY <1>2, <1>3, <2>2, <2>4 DEF Offsets
  <2>6. tail'[j] = Data(p)
    <3>1. j < len - n * Step
      <4>1. j \in 0..r - 1 /\ r \in Int
        BY <1>3, <2>5
      <4>2. j < r
        <5> HIDE DEF j, r
        <5> QED
          BY <4>1
      <4> QED
        BY <4>2
    <3> HIDE DEF j
    <3>2. Sha1Rest(len)[j] = Sha1In(len, n * Step + j)
      BY <2>5, <3>1 DEF Sha1Rest
    <3> HIDE DEF n
    <3> QED
      BY <1>1, <2>3, <2>5, <3>2
  <2>7. p > size' - Used'
    <3>1. size' = size + len /\ p = size + q + 1
      BY <1>1, <2>2
    <3>2. q \in Nat /\ len - n * Step <= Used' /\ ~(q < n * Step) /\ Used' \in Int
      BY <1>3, <2>2, <2>4
    <3> DEFINE e == n * Step
    <3>3. e \in Nat /\ size \in Nat /\ len - e <= Used' /\ ~(q < e)
      BY <1>2, <3>2
    <3> HIDE DEF e, n, r, j
    <3>4. size + q + 1 > size + len - Used'
      BY <3>2, <3>3, PastTheRest, ZenonT(30)
    <3> QED
      <4>1. (size + len) - Used' = size' - Used' /\ size + q + 1 = p
        BY <3>1
      <4>2. size + len - Used' = (size + len) - Used'
        BY <3>2, <3>3
      <4> QED
        BY <3>4, <4>1, <4>2
  <2> QED
    BY <2>5, <2>6, <2>7 DEF Waits
<1>12. lost \subseteq 1..size + len
  BY <1>2, <1>4
<1> QED
  BY <1>1, <1>9, <1>10, <1>11, <1>12 DEF Sha1Inv

LEMMA Sha1FinalizeInv ==
  ASSUME DigestTypeOK, Sha1Inv, Sha1Finalize
  PROVE  DigestTypeOK' /\ Sha1Inv'
<1>1. /\ algo = "sha1" /\ ~done /\ done' = TRUE /\ algo' = algo /\ size' = size
      /\ lost' = lost /\ fed' = Append(fed, Sha1Padded) /\ tail' = Sha1Padded
  BY DEF Sha1Finalize
<1>2. /\ fed \in Seq(Block) /\ size \in Nat /\ Used \in 0..B - 1 /\ Sha1Padded \in Block
      /\ T \in 1..B - 1 /\ B \in Nat
  BY SizeSplit, Sha1PaddedBlock, BlockAssumption DEF DigestTypeOK
<1>3. /\ fed' \in Seq(Block) /\ Len(fed') = Len(fed) + 1 /\ Len(fed) \in Nat
      /\ fed'[Len(fed) + 1] = Sha1Padded
      /\ \A x \in 1..Len(fed) : fed'[x] = fed[x]
  BY <1>1, <1>2, AppendIs
<1>4. DigestTypeOK'
  BY <1>1, <1>2, <1>3 DEF DigestTypeOK
<1>5. Used' = Used
  BY <1>1 DEF Used
<1>6. /\ lost \subseteq 1..size
      /\ \A p \in Int : InFed(p) \/ InTail(p) => p \in 1..size /\ p \notin lost
      /\ \A p \in 1..size : p \notin lost /\ ~InFed(p) => p > size - Used /\ Waits(p)
  BY <1>1 DEF Sha1Inv
<1>7. \A p : InFed(p)' <=> InFed(p) \/ \E j \in Offsets : Sha1Padded[j] = Data(p)
  <2> TAKE p
  <2>1. \A x \in 1..Len(fed') : x \in 1..Len(fed) \/ x = Len(fed) + 1
    BY <1>3
  <2>2. Len(fed) + 1 \in 1..Len(fed') /\ \A x \in 1..Len(fed) : x \in 1..Len(fed')
    BY <1>3
  <2>3. InFed(p)' <=> \E x \in 1..Len(fed') : \E j \in Offsets : fed'[x][j] = Data(p)
    BY DEF InFed, Offsets, Data
  <2> QED
    BY <1>3, <2>1, <2>2, <2>3 DEF InFed
<1>8. ASSUME NEW p \in Int, NEW j \in Offsets, Sha1Padded[j] = Data(p)
      PROVE  Used < T /\ j < Used /\ tail[j] = Data(p)
  <2>1. ~(j >= T)
    <3>1. j >= T => Sha1Padded[j] = SizeByte(j - T)
      BY DEF Sha1Padded
    <3> QED
      BY <1>8, <3>1, DataIs
  <2>2. ~(Used + 1 > T)
    <3>1. Used + 1 > T => Sha1Padded[j] = Zero
      BY <2>1 DEF Sha1Padded
    <3> QED
      BY <1>8, <3>1, DataIs
  <2>3. Marked(Used)[j] = Data(p)
    BY <1>8, <2>1, <2>2 DEF Sha1Padded
  <2>4. Marked(Used)[j] = IF j < Used THEN tail[j] ELSE IF j = Used THEN Mark ELSE Zero
    BY DEF Marked
  <2>5. j < Used
    <3>1. ~(j < Used) => Marked(Used)[j] \in {Mark, Zero}
      BY <2>4
    <3> QED
      BY <2>3, <3>1, DataIs
  <2>6. tail[j] = Data(p)
    BY <2>3, <2>4, <2>5
  <2> QED
    BY <1>2, <2>2, <2>5, <2>6
<1>9. ASSUME NEW j \in 0..Used - 1, Used < T PROVE j \in Offsets /\ Sha1Padded[j] = tail[j]
  <2>1. j \in Offsets /\ ~(j >= T) /\ ~(Used + 1 > T) /\ j < Used
    BY <1>2, <1>9 DEF Offsets
  <2> QED
    BY <2>1 DEF Sha1Padded, Marked
<1>10. \A p \in Int : InFed(p)' => p \in 1..size /\ p \notin lost
  BY <1>6, <1>7, <1>8 DEF InTail
<1>11. ASSUME NEW p \in 1..size, p \notin lost, ~InFed(p)' PROVE Used >= T /\ p > size - Used
  <2>1. p > size - Used /\ Waits(p)
    BY <1>6, <1>7, <1>11
  <2>2. PICK j \in 0..Used - 1 : tail[j] = Data(p)
    BY <2>1 DEF Waits
  <2>3. ~(Used < T)
    BY <1>7, <1>9, <1>11, <2>2
  <2> QED
    BY <1>2, <2>1, <2>3
<1>12. Last(fed)' = Sha1Padded
  BY <1>3 DEF Last
<1>13. Used >= T => \A j \in Offsets : \A p \in Int : Last(fed)'[j] # Data(p)
  BY <1>2, <1>8, <1>12
<1> QED
  BY <1>1, <1>4, <1>5, <1>6, <1>10, <1>11, <1>13 DEF Sha1Inv

-----------------------------------------------------------------------------
\* Nothing is finalized before an init.
BegunInv == done => algo # "none"

SpecInv == IInv /\ BegunInv /\ Sha1Inv

\* The context after an init, or when the process is gone.
LEMMA EmptyTypeOK ==
  ASSUME algo' \in {"none", "md2", "md4", "md5", "sha1"}, size' = 0, fed' = <<>>,
         done' = FALSE, tail' \in Block
  PROVE  DigestTypeOK'
<1>1. <<>> \in Seq(Block) /\ 0 \in Nat /\ FALSE \in BOOLEAN
  OBVIOUS
<1> QED
  BY <1>1 DEF DigestTypeOK

LEMMA EmptySha1Inv ==
  ASSUME size' = 0, fed' = <<>>, lost' = {}, done' = FALSE,
         \A j \in Offsets : tail'[j] = Unset
  PROVE  Sha1Inv'
<1>1. \A p : ~InFed(p)' /\ ~InTail(p)'
  BY DataIs DEF InFed, InTail
<1> QED
  BY <1>1 DEF Sha1Inv

LEMMA InitSpecInv == DigestInit => SpecInv
<1> SUFFICES ASSUME DigestInit PROVE SpecInv
  OBVIOUS
<1>1. DigestTypeOK
  <2>1. tail \in Block
    BY Bytes DEF DigestInit, Block
  <2>2. <<>> \in Seq(Block) /\ 0 \in Nat /\ FALSE \in BOOLEAN
    OBVIOUS
  <2>3. algo = "none" /\ size = 0 /\ fed = <<>> /\ done = FALSE
    BY DEF DigestInit
  <2> QED
    BY <2>1, <2>2, <2>3 DEF DigestTypeOK
<1> QED
  BY <1>1 DEF DigestInit, SpecInv, BegunInv, IInv, FeedInv, DigestInv, Sha1Inv

\* The blocks of the message before its first byte.
LEMMA StartSpecInv ==
  ASSUME SpecInv, NEW a \in {"md2", "md4", "md5", "sha1"}, Start(a)
  PROVE  SpecInv'
<1>1. /\ algo' = a /\ size' = 0 /\ fed' = <<>> /\ lost' = {} /\ done' = FALSE
  BY DEF Start
<1>2. DigestTypeOK'
  <2>1. tail' \in Block
    BY Bytes DEF Start, SpecInv, IInv, DigestTypeOK, Block
  <2> QED
    BY <1>1, <2>1, EmptyTypeOK
<1>3. size' \div B = 0 /\ Used' = 0
  <2>1. 0 * B + 0 = size' /\ 0 \in 0..B - 1 /\ B \in Nat \ {0}
    BY <1>1, BlockAssumption
  <2>2. (0 * B + 0) \div B = 0 /\ (0 * B + 0) % B = 0
    BY <2>1, DivModIs
  <2> QED
    BY <2>1, <2>2 DEF Used
<1>4. Whole(0) = <<>> /\ Len(Whole(0)) = 0
  BY DEF Whole
<1>5. Cardinality({}) = 0
  BY FS_EmptySet
<1>6. IsKept(<<>>, Whole(0), {})
  BY <1>4, <1>5 DEF IsKept
<1>7. FeedInv'
  BY <1>1, <1>3, <1>6 DEF FeedInv
<1>8. Sha1Inv'
  <2>1. CASE a = "sha1"
    <3>1. \A j \in Offsets : tail'[j] = Unset
      BY <2>1 DEF Start
    <3> QED
      BY <1>1, <3>1, EmptySha1Inv
  <2>2. CASE a # "sha1"
    BY <1>1, <2>2 DEF Sha1Inv
  <2> QED
    BY <2>1, <2>2
<1> QED
  BY <1>1, <1>2, <1>7, <1>8 DEF BegunInv, SpecInv, IInv, DigestInv

LEMMA UpdateSpecInv ==
  ASSUME SpecInv, NEW len \in Nat,
         Md2Update(len) \/ Md4Update(len) \/ Md5Update(len)
  PROVE  SpecInv'
<1>1. algo \in {"md2", "md4", "md5"} /\ Absorb(len)
  BY DEF Md2Update, Md4Update, Md5Update
<1>2. algo' = algo /\ ~done /\ ~done'
  BY <1>1 DEF Absorb
<1>3. DigestTypeOK' /\ FeedInv'
  BY <1>1, AbsorbTypeOK, AbsorbFeedInv DEF SpecInv, IInv
<1> QED
  BY <1>1, <1>2, <1>3 DEF BegunInv, SpecInv, IInv, DigestInv, Sha1Inv

LEMMA FinalizeSpecInv ==
  ASSUME SpecInv, Md2Finalize \/ Md4Finalize \/ Md5Finalize
  PROVE  SpecInv'
<1>1. algo \in {"md2", "md4", "md5"} /\ algo' = algo /\ done'
  BY DEF Md2Finalize, Md4Finalize, Md5Finalize, MdFinalize
<1>2. DigestTypeOK' /\ DigestInv'
  BY Md2FinalizeInv, MdFinalizeInv DEF Md4Finalize, Md5Finalize, SpecInv, IInv
<1> QED
  BY <1>1, <1>2 DEF BegunInv, SpecInv, IInv, FeedInv, Sha1Inv

LEMMA Sha1SpecInv ==
  ASSUME SpecInv, NEW len \in Nat,
         Sha1Update(len) \/ Sha1Runaway(len) \/ Sha1Finalize
  PROVE  SpecInv'
<1>1. CASE Sha1Update(len)
  <2>1. algo' = "sha1" /\ ~done'
    BY <1>1 DEF Sha1Update
  <2>2. DigestTypeOK' /\ Sha1Inv'
    BY <1>1, Sha1UpdateTypeOK, Sha1FitsInv, Sha1CompletesInv, Sha1TakesInv DEF SpecInv, IInv
  <2> QED
    BY <2>1, <2>2 DEF BegunInv, SpecInv, IInv, FeedInv, DigestInv
<1>2. CASE Sha1Runaway(len)
  <2>1. algo' = "none" /\ size' = 0 /\ fed' = <<>> /\ done' = FALSE
    BY <1>2 DEF Sha1Runaway
  <2>2. tail' \in Block
    BY <1>2, Bytes DEF Sha1Runaway, Block
  <2>3. DigestTypeOK'
    BY <2>1, <2>2, EmptyTypeOK
  <2> QED
    BY <2>1, <2>3 DEF BegunInv, SpecInv, IInv, FeedInv, DigestInv, Sha1Inv
<1>3. CASE Sha1Finalize
  <2>1. algo' = "sha1" /\ done'
    BY <1>3 DEF Sha1Finalize
  <2>2. DigestTypeOK' /\ Sha1Inv'
    BY <1>3, Sha1FinalizeInv DEF SpecInv, IInv
  <2> QED
    BY <2>1, <2>2 DEF BegunInv, SpecInv, IInv, FeedInv, DigestInv
<1> QED
  BY <1>1, <1>2, <1>3

LEMMA NextSpecInv == SpecInv /\ [DigestNext]_digestVars => SpecInv'
<1> SUFFICES ASSUME SpecInv, [DigestNext]_digestVars PROVE SpecInv'
  OBVIOUS
<1>1. 0..MaxSize \subseteq Nat
  BY MaxSizeAssumption
<1>2. ASSUME NEW a \in {"md2", "md4", "md5", "sha1"}, Start(a) PROVE SpecInv'
  BY <1>2, StartSpecInv
<1>3. ASSUME NEW len \in 0..MaxSize, Md2Update(len) \/ Md4Update(len) \/ Md5Update(len)
      PROVE  SpecInv'
  BY <1>1, <1>3, UpdateSpecInv
<1>4. ASSUME NEW len \in 0..MaxSize, Sha1Update(len) \/ Sha1Runaway(len)
      PROVE  SpecInv'
  BY <1>1, <1>4, Sha1SpecInv
<1>5. CASE Md2Finalize \/ Md4Finalize \/ Md5Finalize
  BY <1>5, FinalizeSpecInv
<1>6. CASE Sha1Finalize
  <2>1. 0 \in Nat
    OBVIOUS
  <2> QED
    BY <1>6, <2>1, Sha1SpecInv
<1>7. CASE UNCHANGED digestVars
  <2>1. /\ algo' = algo /\ size' = size /\ tail' = tail /\ fed' = fed /\ lost' = lost
        /\ done' = done
    BY <1>7 DEF digestVars
  <2>2. Used' = Used /\ MdBlocks' = MdBlocks /\ MessageBlocks' = MessageBlocks
    BY <2>1 DEF Used, MdBlocks, Md2Blocks, MdByte, MessageBlocks
  <2>3. DigestTypeOK' /\ FeedInv' /\ BegunInv'
    BY <2>1, <2>2 DEF SpecInv, IInv, DigestTypeOK, FeedInv, BegunInv
  <2>4. DigestInv'
    BY <2>1, <2>2 DEF SpecInv, IInv, DigestInv, WithChecksum
  <2>5. Sha1Inv'
    BY <2>1, <2>2 DEF SpecInv, Sha1Inv, InFed, InTail, Waits, Last
  <2> QED
    BY <2>3, <2>4, <2>5 DEF SpecInv, IInv
<1> QED
  BY <1>2, <1>3, <1>4, <1>5, <1>6, <1>7 DEF DigestNext

LEMMA SpecInvHolds == DigestSpec => []SpecInv
BY InitSpecInv, NextSpecInv, PTL DEF DigestSpec

\* The variables of a context hold what their types say.
THEOREM DigestTypeCorrect == DigestSpec => []DigestTypeOK
<1>1. SpecInv => DigestTypeOK
  BY DEF SpecInv, IInv
<1> QED
  BY <1>1, SpecInvHolds, PTL

\* MD2, MD4 and MD5 compress the blocks of the RFC in order, except exactly those
\* that an update completed in the tail, for every split of every message.
THEOREM CompletedTailsAreLost == DigestSpec => []LosesCompletedTails
<1>1. SpecInv => LosesCompletedTails
  <2> SUFFICES ASSUME SpecInv, done, algo # "sha1"
               PROVE  fed = WithChecksum(
                        [x \in 1..Len(MessageBlocks) - Cardinality(lost) |->
                           MessageBlocks[Kth(MessageBlocks, lost, x)]])
    BY DEF LosesCompletedTails, Kth, Rank, Upto
  <2>1. CASE algo \in {"md2", "md4", "md5"}
    <3>1. /\ MessageBlocks \in Seq(Block) /\ lost \in SUBSET (1..Len(MessageBlocks))
          /\ \E f \in Seq(Block) : IsKept(f, MessageBlocks, lost) /\ fed = WithChecksum(f)
      BY <2>1 DEF SpecInv, IInv, DigestInv
    <3>2. PICK f \in Seq(Block) : IsKept(f, MessageBlocks, lost) /\ fed = WithChecksum(f)
      BY <3>1
    <3> QED
      BY <3>1, <3>2, KeptIs
  <2>2. CASE algo = "none"
    BY <2>2 DEF SpecInv, BegunInv
  <2> QED
    BY <2>1, <2>2 DEF SpecInv, IInv, DigestTypeOK
<1> QED
  BY <1>1, SpecInvHolds, PTL

\* The digest is that of the message exactly when no update completed a tail.
RightUnlessTailsLost ==
  done /\ algo # "sha1" => (fed = WithChecksum(MessageBlocks) <=> lost = {})

LEMMA AllKept ==
  ASSUME NEW S, NEW f \in Seq(S), NEW s \in Seq(S), IsKept(f, s, {})
  PROVE  f = s
<1>1. \A y \in Nat : Rank({}, y) = y
  <2> TAKE y \in Nat
  <2>1. {} \in SUBSET (1..0) /\ 0 \in Nat /\ y >= 0
    OBVIOUS
  <2>2. Rank({}, y) = y - Cardinality({})
    BY <2>1, RankBehind
  <2>3. Cardinality({}) = 0
    BY FS_EmptySet
  <2> QED
    BY <2>2, <2>3
<1>2. Len(f) = Len(s) /\ Len(s) \in Nat
  <2>1. Len(f) = Len(s) - Cardinality({}) /\ Cardinality({}) = 0
    BY FS_EmptySet DEF IsKept
  <2> QED
    BY <2>1
<1>3. \A y \in 1..Len(s) : f[y] = s[y]
  <2> TAKE y \in 1..Len(s)
  <2>1. Rank({}, y) = y
    BY <1>1
  <2>2. f[Rank({}, y)] = s[y]
    BY DEF IsKept
  <2> QED
    BY <2>1, <2>2
<1> QED
  BY <1>2, <1>3, SameSeq

LEMMA SomeLost ==
  ASSUME NEW S, NEW f \in Seq(S), NEW s \in Seq(S), NEW K \in SUBSET (1..Len(s)),
         IsKept(f, s, K), K # {}
  PROVE  Len(f) # Len(s)
<1>1. IsFiniteSet(K) /\ Cardinality(K) \in 0..Len(s) /\ Len(s) \in Nat
  <2>1. Len(s) \in Nat /\ Len(s) >= Len(s)
    OBVIOUS
  <2> QED
    BY <2>1, RankBehind
<1>2. Cardinality(K) # 0
  BY <1>1, FS_EmptySet
<1> QED
  BY <1>1, <1>2 DEF IsKept

\* What was fed differs from the blocks of the RFC as soon as one was lost.
THEOREM WrongOnceATailIsLost == DigestSpec => []RightUnlessTailsLost
<1>1. SpecInv => RightUnlessTailsLost
  <2> SUFFICES ASSUME SpecInv, done, algo # "sha1"
               PROVE  fed = WithChecksum(MessageBlocks) <=> lost = {}
    BY DEF RightUnlessTailsLost
  <2>1. algo \in {"md2", "md4", "md5"}
    BY DEF SpecInv, BegunInv, IInv, DigestTypeOK
  <2>2. /\ MessageBlocks \in Seq(Block) /\ lost \in SUBSET (1..Len(MessageBlocks))
        /\ \E f \in Seq(Block) : IsKept(f, MessageBlocks, lost) /\ fed = WithChecksum(f)
    BY <2>1 DEF SpecInv, IInv, DigestInv
  <2>3. PICK f \in Seq(Block) : IsKept(f, MessageBlocks, lost) /\ fed = WithChecksum(f)
    BY <2>2
  <2> DEFINE s == MessageBlocks
  <2>4. s \in Seq(Block) /\ lost \in SUBSET (1..Len(s)) /\ IsKept(f, s, lost)
    BY <2>2, <2>3
  <2> HIDE DEF s
  <2>5. lost = {} => fed = WithChecksum(s)
    BY <2>3, <2>4, AllKept
  <2>6. lost # {} => fed # WithChecksum(s)
    <3> SUFFICES ASSUME lost # {} PROVE WithChecksum(f) # WithChecksum(s)
      BY <2>3
    <3>1. Len(f) # Len(s) /\ Len(f) \in Nat /\ Len(s) \in Nat
      BY <2>4, SomeLost
    <3>2. /\ \A e : Len(Append(f, e)) = Len(f) + 1
          /\ \A e : Len(Append(s, e)) = Len(s) + 1
      BY <2>4
    <3>3. CASE algo = "md2"
      <4>1. \A d, e : Append(f, d) # Append(s, e)
        BY <3>1, <3>2
      <4> QED
        BY <3>3, <4>1 DEF WithChecksum
    <3>4. CASE algo # "md2"
      BY <3>1, <3>4 DEF WithChecksum
    <3> QED
      BY <3>3, <3>4
  <2> QED
    BY <2>5, <2>6 DEF s
<1> QED
  BY <1>1, SpecInvHolds, PTL

\* Which bytes of a message SHA-1 leaves out, for every block size, every step of
\* its loop that divides it, and every split of every message (sha1.c:101-135).
THEOREM Sha1LeavesOutOnly == DigestSpec => []Sha1LeavesOut
<1>1. SpecInv => Sha1LeavesOut
  <2> SUFFICES ASSUME SpecInv, algo = "sha1" PROVE Sha1LeavesOut
    BY DEF Sha1LeavesOut
  <2>1. /\ lost \subseteq 1..size
        /\ \A p \in Int : InFed(p) => p \in 1..size /\ p \notin lost
    BY DEF SpecInv, Sha1Inv
  <2>2. size \in Nat /\ fed \in Seq(Block) /\ Used \in 0..B - 1 /\ B \in Nat /\ T \in Nat
    BY SizeSplit, BlockAssumption DEF SpecInv, IInv, DigestTypeOK
  <2>3. \A p \in 1..size : p \in BytesIn(fed) <=> InFed(p)
    BY <2>2 DEF BytesIn, InFed
  <2>4. BytesIn(fed) \subseteq 1..size /\ Held \subseteq 1..size
    BY DEF BytesIn, Held
  <2>5. \A p \in 1..size : (p \in Held <=> Waits(p)) /\ (Waits(p) => InTail(p)) /\ p \in Int
    <3>1. \A j \in 0..Used - 1 : j \in Offsets
      BY <2>2 DEF Offsets
    <3> QED
      BY <2>2, <3>1 DEF Held, Waits, InTail
  <2>6. CASE ~done
    <3>1. /\ \A p \in Int : InTail(p) => p \notin lost
          /\ \A p \in 1..size : p \notin lost /\ ~InFed(p) => Waits(p)
      BY <2>6 DEF SpecInv, Sha1Inv
    <3>2. 1..size \ (BytesIn(fed) \union Held) = lost
      BY <2>1, <2>3, <2>4, <2>5, <3>1
    <3> QED
      BY <2>6, <3>2 DEF Sha1LeavesOut
  <2>7. CASE done
    <3>1. \A p \in 1..size : p \notin lost /\ ~InFed(p) => Used >= T /\ p > size - Used
      BY <2>7 DEF SpecInv, Sha1Inv
    <3>2. lost \subseteq 1..size \ BytesIn(fed)
      BY <2>1, <2>3, <2>5
    <3>3. Used < T => 1..size \ BytesIn(fed) \subseteq lost
      BY <2>2, <2>3, <3>1
    <3>4. 1..size \ BytesIn(fed) \subseteq lost \union (size - Used + 1..size)
      BY <2>2, <2>3, <3>1
    <3>5. ASSUME Used >= T PROVE BytesIn(<<Last(fed)>>) = {}
      <4>1. \A j \in Offsets : \A p \in Int : Last(fed)[j] # Data(p)
        BY <2>7, <3>5 DEF SpecInv, Sha1Inv
      <4>2. \A x \in DOMAIN <<Last(fed)>> : <<Last(fed)>>[x] = Last(fed)
        OBVIOUS
      <4> QED
        BY <2>5, <4>1, <4>2 DEF BytesIn
    <3> QED
      BY <2>7, <3>2, <3>3, <3>4, <3>5 DEF Sha1LeavesOut
  <2> QED
    BY <2>6, <2>7
<1> QED
  BY <1>1, SpecInvHolds, PTL
=============================================================================
