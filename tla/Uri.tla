-------------------------------- MODULE Uri ---------------------------------
(***************************************************************************)
(* hlibc/uri.c: cutting a URI into segments, and normalising a segment.    *)
(* A parser returns the position behind what it has read, or None.         *)
(***************************************************************************)
EXTENDS Inet

None == -1

scheme_cset   == IsAlnum \cup Chars("+-.")
userinfo_cset == IsAlnum \cup Chars("!$&()") \cup Chars("*+,-.:;=\\_~")
name_cset     == IsAlnum \cup Chars("!$&()") \cup Chars("*+,-.;=\\_~")
query_cset    == IsAlnum \cup Chars("!$&()") \cup Chars("*+,-.:;=\\_~/?@")
fragment_cset == IsAlnum \cup Chars("!$&()") \cup Chars("*+,-.:;=\\_~/?@")
ipvf_cset     == IsAlnum \cup Chars("!$&()") \cup Chars("*+,-.:;=\\_~")
path_cset     == IsAlnum \cup Chars("!$&()") \cup Chars("*+,-.:;=\\_~/@")

IsPctEnc(s, pos) ==
  At(s, pos) = 37 /\ At(s, pos + 1) \in XDigit /\ At(s, pos + 2) \in XDigit

Past(s, pos, cset) == FirstAt(pos, Len(s), LAMBDA k : At(s, k) \notin cset)
PastEnc(s, pos, cset) ==
  FirstAt(pos, Len(s), LAMBDA k : At(s, k) \notin cset /\ ~IsPctEnc(s, k))

\* pos if it is there that s has character c, and the position behind it.
Expect(s, pos, c) == IF pos # None /\ At(s, pos) = c THEN pos + 1 ELSE None

-----------------------------------------------------------------------------
ParseScheme(s, pos) ==
  IF At(s, pos) \notin IsAlpha THEN None ELSE Expect(s, Past(s, pos, scheme_cset), Colon)

ParseUserinfo(s, pos) == Expect(s, PastEnc(s, pos, userinfo_cset), 64)

ParseQuery(s, pos)    == PastEnc(s, pos, query_cset)
ParseFragment(s, pos) == PastEnc(s, pos, fragment_cset)
ParsePort(s, pos)     == Past(s, pos, Digit)

\* "[v" hexadecimal digits "." characters "]"
ParseIpvf(s, pos) ==
  LET v == Expect(s, Expect(s, pos, 91), 118)
      d == IF v = None THEN None ELSE Expect(s, Past(s, v, XDigit), Dot)
  IN IF d = None \/ At(s, v) \notin XDigit \/ At(s, d) \notin ipvf_cset THEN None
     ELSE Expect(s, Past(s, d, ipvf_cset), 93)

\* The type of a host, and the caller's position, which moves only behind an
\* IPv4 address.  The bytes of an address in brackets go to the stack, and may go
\* past their array.  Addresses that fill the 40 characters of a buffer are left
\* out.
ParseHost(s, pos) ==
  LET close == FirstAt(pos, Len(s), LAMBDA k : At(s, k) \in {0, 93})
      ipv6  == Ipv6ToBin(SubSeq(s, pos + 2, close))
      k == FirstAt(pos, Len(s), LAMBDA h : At(s, h) \notin Digit \cup {Dot})
      host(type, next) == [type |-> type, pos |-> next]
  IN IF ParseIpvf(s, pos) # None THEN host("IPVF", pos)
     ELSE IF At(s, pos) = 91
     THEN IF At(s, close) = 0 \/ ipv6.ret # 0 THEN host("INVALID", pos)
          ELSE IF ipv6.past > 0 THEN host("SMASHED", pos)
          ELSE host("IPV6", pos)
     ELSE IF k - pos < 16 /\ Ipv4ToBin(SubSeq(s, pos + 1, k)).ret = 0
     THEN host("IPV4", k)
     ELSE host("NAME", pos)

\* Mutant of ParsePath: a colon in the first part of a path goes through.
ParsePathAny(s, pos, scheme, authority) ==
  IF authority /\ At(s, pos) # 47 /\ (At(s, pos) \in path_cset \/ IsPctEnc(s, pos))
  THEN None ELSE PastEnc(s, pos, path_cset)

\* Behind an authority a path starts with a slash; without a scheme either, the
\* first part of it has no colon.
ParsePath(s, pos, scheme, authority) ==
  LET first == FirstAt(pos, Len(s), LAMBDA k : \/ At(s, k) = 47
                                               \/ At(s, k) \notin path_cset /\ ~IsPctEnc(s, k))
  IN IF \/ authority /\ At(s, pos) # 47 /\ (At(s, pos) \in path_cset \/ IsPctEnc(s, pos))
        \/ ~authority /\ ~scheme /\ \E k \in pos..first - 1 : At(s, k) = Colon
     THEN None ELSE PastEnc(s, pos, path_cset)

-----------------------------------------------------------------------------
\* struct string_view: the pieces of src are <<first, size>>, or NULL.
NULL == <<>>
View(a, b) == <<a, b - a>>

\* Nothing is taken yet; 0 is IPV4 in enum uri_host_type.
UriStart == [pos |-> 0, ret |-> 0, scheme |-> NULL, userinfo |-> NULL, host |-> NULL,
             host_type |-> "IPV4", port |-> NULL, path |-> NULL, query |-> NULL,
             fragment |-> NULL]

\* The first reason to stop stays.
Refused(t) == [t EXCEPT !.ret = IF @ = 0 THEN EINVAL ELSE @]

TakeScheme(s, t) ==
  LET end == ParseScheme(s, t.pos)
  IN IF end = None THEN t ELSE [t EXCEPT !.pos = end, !.scheme = View(t.pos, end - 1)]

TakeUserinfo(s, t) ==
  LET end == ParseUserinfo(s, t.pos)
  IN IF end = None THEN t ELSE [t EXCEPT !.pos = end, !.userinfo = View(t.pos, end - 1)]

TakeHost(t, host) ==
  IF host.type = "INVALID" THEN [t EXCEPT !.ret = EINVAL]
  ELSE IF host.type = "SMASHED" THEN [t EXCEPT !.ret = Smashed]
  ELSE [t EXCEPT !.pos = host.pos, !.host = View(t.pos, host.pos), !.host_type = host.type]

TakePort(s, t) ==
  LET end == ParsePort(s, t.pos + 1)
  IN IF At(s, t.pos) # Colon THEN t
     ELSE [t EXCEPT !.pos = end, !.port = View(t.pos + 1, end)]

TakeHostAndPort(s, t) == TakePort(s, TakeHost(t, ParseHost(s, t.pos)))

TakeAuthority(s, t) ==
  IF At(s, t.pos) # 47 \/ At(s, t.pos + 1) # 47 THEN t
  ELSE TakeHostAndPort(s, TakeUserinfo(s, [t EXCEPT !.pos = @ + 2]))

TakePath(s, t) ==
  LET end == ParsePath(s, t.pos, t.scheme # NULL, t.host # NULL)
  IN IF end = None THEN Refused(t)
     ELSE [t EXCEPT !.pos = end, !.path = View(t.pos, end)]

TakeQuery(s, t) ==
  LET end == ParseQuery(s, t.pos + 1)
  IN IF At(s, t.pos) # 63 THEN t
     ELSE [t EXCEPT !.pos = end, !.query = View(t.pos + 1, end)]

TakeFragment(s, t) ==
  LET end == ParseFragment(s, t.pos + 1)
  IN IF At(s, t.pos) # 35 THEN t
     ELSE [t EXCEPT !.pos = end, !.fragment = View(t.pos + 1, end)]

\* One after the other; all of s has to be taken.
UriEnd(s, t) == IF At(s, t.pos) # 0 THEN Refused(t) ELSE t

UriParseSegments(s) ==
  UriEnd(s, TakeFragment(s, TakeQuery(s, TakePath(s,
            TakeAuthority(s, TakeScheme(s, UriStart))))))

-----------------------------------------------------------------------------
\* Mutant of Normalized: an octet that stays encoded keeps its letters.
NormalizedKept(s, pos, cset) ==
  LET v == 16 * HexVal(At(s, pos + 1)) + HexVal(At(s, pos + 2))
  IN IF At(s, pos) # 37 THEN <<At(s, pos)>>
     ELSE IF v \in cset THEN <<v>>
     ELSE <<37, At(s, pos + 1), At(s, pos + 2)>>

\* What the character or the encoded octet at pos becomes.
Normalized(s, pos, cset) ==
  LET v == 16 * HexVal(At(s, pos + 1)) + HexVal(At(s, pos + 2))
  IN IF At(s, pos) # 37 THEN <<At(s, pos)>>
     ELSE IF v \in cset THEN <<v>>
     ELSE <<37, ToUpper(At(s, pos + 1)), ToUpper(At(s, pos + 2))>>

\* An octet that is encoded is decoded when the set has its character.
NormalizeWithCset(src, cset) ==
  LET step(t, k) == IF k < t.pos \/ t.ret # 0 THEN t
                    ELSE IF At(src, k) \notin cset /\ ~IsPctEnc(src, k)
                         THEN [t EXCEPT !.ret = EINVAL]
                    ELSE [t EXCEPT !.out = @ \o Normalized(src, k, cset),
                                   !.pos = IF At(src, k) = 37 THEN k + 3 ELSE k + 1]
  IN FoldLeft(step, [pos |-> 0, ret |-> 0, out |-> <<>>, ended |-> TRUE],
              [k \in 1..Len(src) |-> k - 1])

Normal(ret, out, ended) == [ret |-> ret, out |-> out, ended |-> ended]

\* The copy of a scheme is not ended by a zero.
UriNormalizeScheme(src) ==
  LET n == IF At(src, 0) \in IsAlpha THEN Past(src, 0, scheme_cset) ELSE 0
  IN Normal(IF n > 0 /\ n = Len(src) THEN 0 ELSE EINVAL,
            [k \in 1..n |-> ToLower(src[k])], FALSE)

\* The bracket is closed behind the address, which is the end of the host.
Bracketed(norm) ==
  IF norm.ret # 0 THEN Normal(norm.ret, <<91>>, FALSE)
  ELSE Normal(0, <<91>> \o norm.out \o <<93>>, TRUE)

NormalIpv6(src, close, junk) ==
  IF close < Len(src) - 1 THEN Normal(EINVAL, <<91>>, FALSE)
  ELSE Bracketed(Ipv6Norm(SubSeq(src, 2, close), junk))

\* The rest behind a prefix, which is in small letters.
NormalRest(prefix, t) ==
  Normal(t.ret, [k \in DOMAIN prefix |-> ToLower(prefix[k])] \o t.out, t.ret = 0)

\* An IPv4 address is not copied at all.  An IPvF address is refused, for the
\* bracket that closes it.
UriNormalizeHost(src, junk) ==
  LET type  == ParseHost(src, 0).type
      close == FirstAt(0, Len(src), LAMBDA k : At(src, k) \in {0, 93})
      end   == Past(src, 2, XDigit)
  IN CASE type = "INVALID" -> Normal(EINVAL, <<>>, FALSE)
       [] type = "SMASHED" -> Normal(Smashed, <<>>, FALSE)
       [] type = "IPV6" -> NormalIpv6(src, close, junk)
       [] type = "IPVF" ->
            NormalRest(SubSeq(src, 1, end),
                       NormalizeWithCset(SubSeq(src, end + 1, Len(src)), ipvf_cset))
       [] type = "NAME" -> NormalRest(<<>>, NormalizeWithCset(src, name_cset))
       [] type = "IPV4" -> Normal(0, <<>>, FALSE)

UriNormalize(part, src) ==
  NormalRest(<<>>, NormalizeWithCset(src, CASE part = "userinfo" -> userinfo_cset
                                            [] part = "path"     -> path_cset
                                            [] part = "query"    -> query_cset
                                            [] part = "fragment" -> fragment_cset))
=============================================================================
