-------------------------------- MODULE Inet --------------------------------
(***************************************************************************)
(* Internet addresses: hlibc/inet.c.                                       *)
(***************************************************************************)
EXTENDS Codecs, FiniteSetsExt

Dot == 46
Colon == 58
Unset == -1        \* a byte that the caller's buffer happens to hold
Hangs == -1        \* the call does not return
Smashed == -2      \* the call has written behind an array on its stack: what
                   \* follows is undefined, and left out

-----------------------------------------------------------------------------
Decimal(val) ==
  IF val < 10 THEN <<48 + val>>
  ELSE IF val < 100 THEN <<48 + val \div 10, 48 + (val % 10)>>
  ELSE <<48 + val \div 100, 48 + ((val \div 10) % 10), 48 + (val % 10)>>

Ipv4ToStr(bin) ==
  Decimal(bin[1]) \o <<Dot>> \o Decimal(bin[2]) \o <<Dot>>
  \o Decimal(bin[3]) \o <<Dot>> \o Decimal(bin[4])

\* Mutant of DigitsAt: a leading zero is a digit like the others.
DigitsAtOctal(src, pos) ==
  IF At(src, pos) \notin Digit THEN 0
  ELSE IF At(src, pos + 1) \notin Digit THEN 1
  ELSE IF At(src, pos + 2) \notin Digit THEN 2 ELSE 3

\* How many digits a part starts with, of which a leading zero is the only one.
DigitsAt(src, pos) ==
  IF At(src, pos) \notin Digit THEN 0
  ELSE IF At(src, pos) = 48 \/ At(src, pos + 1) \notin Digit THEN 1
  ELSE IF At(src, pos + 2) \notin Digit THEN 2 ELSE 3

ValueAt(src, pos, n) ==
  LET digit(k) == At(src, pos + k) - 48
  IN CASE n = 0 -> 0
       [] n = 1 -> digit(0)
       [] n = 2 -> 10 * digit(0) + digit(1)
       [] n = 3 -> 100 * digit(0) + 10 * digit(1) + digit(2)

\* A part of n digits and, but for the last, the dot behind it.
Ipv4Take(src, s, i, n, val) ==
  IF s.ret # 0 \/ n = 0 \/ val > 255 \/ (i < 4 /\ At(src, s.pos + n) # Dot)
  THEN [s EXCEPT !.ret = EINVAL]
  ELSE [s EXCEPT !.pos = @ + n + (IF i < 4 THEN 1 ELSE 0), !.out = Append(@, val)]

Ipv4Part(src, s, i) ==
  LET n == DigitsAt(src, s.pos) IN Ipv4Take(src, s, i, n, ValueAt(src, s.pos, n))

Ipv4End(src, s) == Returned(IF s.ret = 0 /\ At(src, s.pos) = 0 THEN 0 ELSE EINVAL, s.out)

Ipv4ToBin(src) ==
  LET start == [pos |-> 0, ret |-> 0, out |-> <<>>]
      two   == Ipv4Part(src, Ipv4Part(src, start, 1), 2)
  IN Ipv4End(src, Ipv4Part(src, Ipv4Part(src, two, 3), 4))

-----------------------------------------------------------------------------
\* The parser of IPv6 addresses: where it is, the bytes so far, how many of
\* them stand before the "::" (-1 without one), and how it left its loop.
Ipv6Start(src) ==
  [pos |-> 0, bin |-> <<>>, comp |-> -1, mapped |-> FALSE,
   st |-> IF At(src, 0) = Colon /\ At(src, 1) # Colon THEN "refused" ELSE "loop"]

\* Mutant of GroupBytes: the bytes are exchanged.
GroupBytesSwapped(v) == <<v % 256, (v \div 16) % 256>>

\* The v of the code cut into two bytes: the upper is (v >> 4) & 0xFF.
GroupBytes(v) == <<(v \div 16) % 256, v % 256>>

\* Mutant of Ipv6Mapped: the IPv4 address may stand right behind the "::".
Ipv6MappedBehind(s, n, v4) ==
  IF \/ n < 2 \/ n > 12 \/ v4.ret # 0
     \/ s.bin[n] # 255 \/ s.bin[n - 1] # 255 \/ \E k \in 1..n - 2 : s.bin[k] # 0
  THEN [s EXCEPT !.st = "refused"]
  ELSE [s EXCEPT !.bin = @ \o v4.out, !.mapped = TRUE, !.st = "done"]

\* An IPv4 address at the end, behind 0xFFFF and zeros.
Ipv6Mapped(s, n, v4) ==
  IF \/ n < 2 \/ n > 12 \/ s.comp = n \/ v4.ret # 0
     \/ s.bin[n] # 255 \/ s.bin[n - 1] # 255 \/ \E k \in 1..n - 2 : s.bin[k] # 0
  THEN [s EXCEPT !.st = "refused"]
  ELSE [s EXCEPT !.bin = @ \o v4.out, !.mapped = TRUE, !.st = "done"]

HexAt(src, pos, n) ==
  LET digit(k) == HexVal(At(src, pos + k))
  IN CASE n = 1 -> digit(0)
       [] n = 2 -> 16 * digit(0) + digit(1)
       [] n = 3 -> 256 * digit(0) + 16 * digit(1) + digit(2)
       [] n = 4 -> 4096 * digit(0) + 256 * digit(1) + 16 * digit(2) + digit(3)

\* One group: up to four digits from s.pos on, or the IPv4 address they begin.
Ipv6Group(src, s) ==
  LET n == FirstAt(0, 4, LAMBDA k : k = 4 \/ At(src, s.pos + k) \notin XDigit)
  IN IF n = 0 THEN [s EXCEPT !.st = "refused"]
     ELSE IF n < 4 /\ At(src, s.pos + n) = Dot
     THEN Ipv6Mapped(s, Len(s.bin), Ipv4ToBin(SubSeq(src, s.pos + 1, Len(src))))
     ELSE [s EXCEPT !.pos = @ + n, !.bin = @ \o GroupBytes(HexAt(src, s.pos, n))]

\* Mutant of Ipv6Colons: the "::" is noted behind the group that follows it.
Ipv6ColonsLate(src, s, p) ==
  IF \/ At(src, s.pos) = 0 \/ Len(s.bin) + (IF s.comp > -1 THEN 2 ELSE 0) >= 16
  THEN [s EXCEPT !.st = "done"]
  ELSE IF At(src, p) # Colon THEN [s EXCEPT !.pos = p]
  ELSE IF s.comp > -1 THEN [s EXCEPT !.st = "refused"]
  ELSE IF At(src, p + 1) = 0 THEN [s EXCEPT !.pos = p + 1, !.comp = Len(s.bin), !.st = "done"]
  ELSE [s EXCEPT !.pos = p + 1, !.comp = Len(s.bin) + 2]

\* What comes before a group, at p: a colon, which may be missing, and a second
\* one, which makes the "::" and may end the address.
Ipv6Colons(src, s, p) ==
  IF \/ At(src, s.pos) = 0 \/ Len(s.bin) + (IF s.comp > -1 THEN 2 ELSE 0) >= 16
  THEN [s EXCEPT !.st = "done"]
  ELSE IF At(src, p) # Colon THEN [s EXCEPT !.pos = p]
  ELSE IF s.comp > -1 THEN [s EXCEPT !.st = "refused"]
  ELSE [s EXCEPT !.pos = p + 1, !.comp = Len(s.bin),
                 !.st = IF At(src, p + 1) = 0 THEN "done" ELSE "loop"]

\* The rest of an iteration, and an iteration.
Ipv6Rest(src, s) == IF s.st = "loop" THEN Ipv6Group(src, s) ELSE s
Ipv6Step(src, s) ==
  IF s.st # "loop" THEN s
  ELSE Ipv6Rest(src, Ipv6Colons(src, s, IF At(src, s.pos) = Colon THEN s.pos + 1 ELSE s.pos))

\* The gap is opened by moving as many bytes as it is long, not as many as there
\* are behind it: past is how many of them land behind the sixteen bytes.
Ipv6Expand(bin, comp) ==
  LET len == 16 - Len(bin)
      old(k) == IF k <= Len(bin) THEN bin[k] ELSE Unset
  IN [out |-> [k \in 1..16 |-> IF k \in comp + 1..comp + len THEN 0
                               ELSE IF k \in comp + len + 1..comp + 2 * len
                                    THEN bin[k - len] ELSE old(k)],
      past |-> Max({0, comp + 2 * len - 16}), ret |-> 0]

Ipv6End(src, s, n) ==
  IF \/ s.st = "refused" \/ (~s.mapped /\ At(src, s.pos) # 0)
     \/ IF s.comp > -1 THEN n >= 16 ELSE n < 16
  THEN [ret |-> EINVAL, out |-> s.bin, past |-> 0]
  ELSE IF s.comp > -1 THEN Ipv6Expand(s.bin, s.comp)
  ELSE [ret |-> 0, out |-> s.bin, past |-> 0]

Ipv6Parse(src, s) == Ipv6End(src, s, Len(s.bin))

\* Ten iterations are more than eight groups and the end need.
Ipv6Twice(src, s) == Ipv6Step(src, Ipv6Step(src, s))
Ipv6ToBin(src) ==
  LET four  == Ipv6Twice(src, Ipv6Twice(src, Ipv6Start(src)))
      eight == Ipv6Twice(src, Ipv6Twice(src, four))
  IN Ipv6Parse(src, Ipv6Twice(src, eight))

-----------------------------------------------------------------------------
\* Mutant of RunEnds: a part ends a run when either of its bytes is not zero.
RunEndsEither(bin) ==
  {0, 16} \cup {i \in {2, 4, 6, 8, 10, 12, 14} : bin[i + 1] # 0 \/ bin[i + 2] # 0}

\* The printer looks for the longest run between groups that have two bytes
\* other than zero.  Every part outside of it goes to ipv6_to_str_part, whose
\* loop does not advance: only an address that is all one run is printed.
RunEnds(bin) == {0, 16} \cup {i \in {2, 4, 6, 8, 10, 12, 14} : bin[i + 1] # 0 /\ bin[i + 2] # 0}

MaxRun(bin) ==
  Max({r[2] - r[1] : r \in {e \in RunEnds(bin) \X RunEnds(bin) :
                              e[1] < e[2] /\ ~\E c \in RunEnds(bin) : e[1] < c /\ c < e[2]}})

Ipv6ToStr(bin) == IF MaxRun(bin) < 16 THEN Returned(Hangs, <<>>) ELSE Returned(0, <<Colon>>)

\* The sixteen bytes are on the stack of ipv6_norm, and what the parser has not
\* set of them is whatever was there.
Ipv6Print(b, junk) ==
  IF b.ret # 0 THEN Returned(EINVAL, <<>>)
  ELSE IF b.past > 0 THEN Returned(Smashed, <<>>)
  ELSE Ipv6ToStr([k \in 1..16 |-> IF b.out[k] = Unset THEN junk ELSE b.out[k]])

Ipv6Norm(src, junk) == Ipv6Print(Ipv6ToBin(src), junk)
=============================================================================
